-------------------------- MODULE ChunkedTransfer --------------------------
(***************************************************************************)
(* Answers that are copied from a device: HttpResponder::write(QIODevice)  *)
(* and the IOChunkedTransfer it leaves behind                              *)
(* (src/src/httpserver/http_response.cpp).                                 *)
(*                                                                         *)
(* A transfer owns itself.  It runs when one of three things calls back,   *)
(* in any order: the device has new data (readyRead), a timer it has set   *)
(* for itself, or the socket has sent something (bytesWritten).  The       *)
(* device is deleted when it has been copied, or with the socket, and the  *)
(* transfer with the device.  A handler may start several on one socket:   *)
(* it is called again for every fragment of a request.                     *)
(*                                                                         *)
(* The socket is a QTcpSocket, which buffers: while it is connected write  *)
(* takes all it is given, afterwards it takes nothing and returns -1.      *)
(***************************************************************************)
EXTENDS Integers, Sequences, FiniteSetsExt

CONSTANTS
  Device,      \* the devices handlers answer with
  Sequential,  \* those whose data arrives over time; the others are files
  Size,        \* the number of bytes each device has, or will have had
  BufferSize,  \* BUFFERSIZE
  WordMod      \* 2^w, w the width of quint64

ASSUME DeviceAssumption == Sequential \subseteq Device /\ Size \in [Device -> Nat]
ASSUME WidthAssumption ==
  BufferSize \in Nat \ {0} /\ WordMod \in Nat /\ BufferSize < WordMod \div 2

VARIABLES
  device,    \* "new", "handed" to write, or "freed"
  transfer,  \* the device's transfer and what it knows of the device
  sink,      \* "connected", "unconnected" or "destroyed"
  sent       \* what the socket has been given for each device: a head, an
             \* answer that the device is not to be read, or nothing yet; and
             \* a body, of the numbers of its bytes in order

vars == <<device, transfer, sink, sent>>

(* What a read or write that fails returns.                                *)
Failure == -1

(* Conversion to quint64, and back to the qint64 that write expects.       *)
ToWord(n) == n % WordMod
ToSigned(word) == IF word < WordMod \div 2 THEN word ELSE word - WordMod

Nothing == [head |-> "none", body |-> <<>>]

Init ==
  /\ device = [d \in Device |-> "new"]
  /\ transfer = [d \in Device |->
       [exists |-> FALSE,        \* whether write has made an IOChunkedTransfer
        beginIndex |-> WordMod - 1, endIndex |-> WordMod - 1,
        buffer |-> <<>>,         \* the numbers of the bytes in the buffer
        arrived |-> IF d \in Sequential THEN 0 ELSE Size[d],
        taken |-> 0,             \* how many of those have been read
        timers |-> 0,            \* single shots under way
        deleting |-> FALSE,      \* deleteLater has been called
        failed |-> FALSE,        \* history: a read has failed,
        reported |-> FALSE]]     \*          a warning has been written
  /\ sink = "connected"
  /\ sent = [d \in Device |-> Nothing]

IsBufferEmpty(t)  == t.beginIndex = t.endIndex
BytesAvailable(t) == t.arrived - t.taken

(* The answer from d is now a, for all the socket takes of it.             *)
Gives(d, a) == sent' = IF sink = "connected" THEN [sent EXCEPT ![d] = a] ELSE sent

-----------------------------------------------------------------------------
(* writeToOutput, on transfer t: what write returns, and what it leaves.   *)
WriteResult(t) ==
  IF sink = "connected" /\ ToSigned(t.endIndex) >= 0 THEN ToSigned(t.endIndex) ELSE Failure

\* Slips: a buffer that is sent is taken for the end; one that is not full for
\* a full one.
Sent_Full(t, n) ==
  [t EXCEPT !.beginIndex = @ + BufferSize,
            !.timers = @ + (IF BytesAvailable(t) > 0 THEN 1 ELSE 0),
            !.deleting = @ \/ BytesAvailable(t) = 0]
Sent_Ends(t, n) == [t EXCEPT !.beginIndex = @ + n, !.deleting = TRUE]

\* Slip: the end is not looked for.
Sent_Stays(t, n) ==
  [t EXCEPT !.beginIndex = @ + n,
            !.timers = @ + (IF BytesAvailable(t) > 0 THEN 1 ELSE 0)]

(* n bytes have been written.  For a sequential device too, atEnd says no  *)
(* more than that nothing is there now.                                    *)
Sent(t, n) ==
  LET emptied == t.beginIndex + n = t.endIndex IN
  [t EXCEPT !.beginIndex = @ + n,
            !.timers = @ + (IF emptied /\ BytesAvailable(t) > 0 THEN 1 ELSE 0),
            !.deleting = @ \/ (emptied /\ BytesAvailable(t) = 0)]

(* a is the answer so far.                                                 *)
WriteToOutput(d, t, a) ==
  LET n == WriteResult(t) IN
  IF IsBufferEmpty(t) \/ n = Failure
    THEN /\ transfer' = [transfer EXCEPT ![d] = t]
         /\ Gives(d, a)
    ELSE /\ transfer' = [transfer EXCEPT ![d] = Sent(t, n)]
         /\ Gives(d, [a EXCEPT !.body = @ \o [i \in 1..n |-> t.buffer[t.beginIndex + i]]])

\* Slip: signed indices, and no test for a failure.
Filled_Untested(t, n) ==
  [t EXCEPT !.beginIndex = 0, !.endIndex = n,
            !.buffer = [i \in 1..n |-> t.taken + i],
            !.taken = IF n = Failure THEN @ ELSE @ + n,
            !.failed = @ \/ n = Failure]

(* The buffer after a read that returned n.  The test for a failure        *)
(* compares a quint64 with zero; it is never met.  (The memset of line 79  *)
(* is left out: after a read it clears what the buffer has behind n, which *)
(* is not sent.  After a failed one it reaches one byte beyond the front   *)
(* of the buffer, outside the array: that byte belongs to bufferSize, 512, *)
(* and is zero.)                                                           *)
Filled(t, n) ==
  LET endIndex == ToWord(n)
      negative == endIndex < 0 IN
  [t EXCEPT !.beginIndex = 0,
            !.endIndex = IF negative THEN 0 ELSE endIndex,
            !.buffer = [i \in 1..n |-> t.taken + i],
            !.taken = IF n = Failure THEN @ ELSE @ + n,
            !.failed = @ \/ n = Failure,
            !.reported = @ \/ negative]

(* readFromInput, on transfer t of d.                                      *)
ReadFromInput(d, t, a) ==
  IF IsBufferEmpty(t)
    THEN \E n \in {Failure, Min({BufferSize, BytesAvailable(t)})} :
           WriteToOutput(d, Filled(t, n), a)
    ELSE transfer' = [transfer EXCEPT ![d] = t] /\ Gives(d, a)

-----------------------------------------------------------------------------
(* write(device, headers, status), with the three ways it can go: the      *)
(* device is not to be read, and the answer is a 500; it is at its end     *)
(* already; it is handed to a transfer, which begins at once.  In the      *)
(* first two the scoped pointer deletes it later.                          *)
Write(d) ==
  LET t == transfer[d] IN
  /\ device[d] = "new" /\ sink # "destroyed"
  /\ device' = [device EXCEPT ![d] = "handed"]
  /\ UNCHANGED sink
  /\ \/ /\ transfer' = [transfer EXCEPT ![d].deleting = TRUE]
        /\ Gives(d, [head |-> "refused", body |-> <<>>])
     \/ /\ BytesAvailable(t) = 0
        /\ transfer' = [transfer EXCEPT ![d].deleting = TRUE]
        /\ Gives(d, [head |-> "head", body |-> <<>>])
     \/ /\ BytesAvailable(t) > 0
        /\ ReadFromInput(d, [t EXCEPT !.exists = TRUE], [head |-> "head", body |-> <<>>])

(* A single shot of the transfer goes off.                                 *)
Timer(d) ==
  /\ transfer[d].timers > 0
  /\ ReadFromInput(d, [transfer[d] EXCEPT !.timers = @ - 1], sent[d])
  /\ UNCHANGED <<device, sink>>

(* Data arrives at a sequential device, which emits readyRead.             *)
ReadyRead(d) ==
  /\ d \in Sequential /\ device[d] # "freed" /\ transfer[d].arrived < Size[d]
  /\ \E n \in (transfer[d].arrived + 1)..Size[d] :
       LET t == [transfer[d] EXCEPT !.arrived = n] IN
       IF t.exists THEN ReadFromInput(d, t, sent[d])
                   ELSE transfer' = [transfer EXCEPT ![d] = t] /\ UNCHANGED sent
  /\ UNCHANGED <<device, sink>>

(* The socket has passed something on and emits bytesWritten.              *)
BytesWritten(d) ==
  /\ transfer[d].exists /\ sink = "connected" /\ \E e \in Device : sent[e] # Nothing
  /\ WriteToOutput(d, transfer[d], sent[d])
  /\ UNCHANGED <<device, sink>>

SinkDisconnects ==
  /\ sink = "connected" /\ sink' = "unconnected"
  /\ UNCHANGED <<device, transfer, sent>>

Deleted(t) == [t EXCEPT !.exists = FALSE, !.timers = 0, !.deleting = FALSE]

(* The device is deleted, and its transfer and timers with it.             *)
FreeDevice(d) ==
  /\ device[d] = "handed" /\ transfer[d].deleting
  /\ device' = [device EXCEPT ![d] = "freed"]
  /\ transfer' = [transfer EXCEPT ![d] = Deleted(@)]
  /\ UNCHANGED <<sink, sent>>

\* Slip: nothing connects the end of the socket with that of the device.
SinkDestroyed_Alone ==
  /\ sink = "unconnected" /\ sink' = "destroyed"
  /\ UNCHANGED <<device, transfer, sent>>

(* HttpServer deletes the socket.  That calls deleteLater of the devices   *)
(* that are being copied to it, which the same pass over the posted events *)
(* carries out.                                                            *)
SinkDestroyed ==
  /\ sink = "unconnected" /\ sink' = "destroyed"
  /\ device' = [d \in Device |-> IF transfer[d].exists THEN "freed" ELSE device[d]]
  /\ transfer' = [d \in Device |-> IF transfer[d].exists THEN Deleted(transfer[d])
                                                          ELSE transfer[d]]
  /\ UNCHANGED sent

Next ==
  \/ \E d \in Device : Write(d) \/ Timer(d) \/ ReadyRead(d) \/ BytesWritten(d) \/ FreeDevice(d)
  \/ SinkDisconnects \/ SinkDestroyed

(* The event loop runs timers and deletions that are due; HttpServer       *)
(* deletes sockets that have been disconnected (HttpServer!Reclaimed).     *)
(* Nothing is owed by devices and clients.                                 *)
Spec ==
  /\ Init /\ [][Next]_vars
  /\ WF_vars(SinkDestroyed)
  /\ \A d \in Device : WF_vars(Timer(d)) /\ WF_vars(FreeDevice(d))

-----------------------------------------------------------------------------
Word == 0..(WordMod - 1)

Transfers ==
  [exists : BOOLEAN, beginIndex : Word, endIndex : Word, buffer : Seq(Nat),
   arrived : Nat, taken : Nat, timers : Nat, deleting : BOOLEAN,
   failed : BOOLEAN, reported : BOOLEAN]
Answers == [head : {"none", "head", "refused"}, body : Seq(Nat)]

TypeOK ==
  /\ device \in [Device -> {"new", "handed", "freed"}]
  /\ transfer \in [Device -> Transfers]
  /\ sink \in {"connected", "unconnected", "destroyed"}
  /\ sent \in [Device -> Answers]

(* The assertion of isBufferEmpty (http_response.cpp:66) holds whenever a  *)
(* callback may evaluate it, whatever reads and writes have failed.        *)
IndicesInOrder ==
  \A d \in Device : transfer[d].beginIndex <= transfer[d].endIndex

(* What excuses an answer cut short.                                       *)
Excused(d) == transfer[d].failed \/ sink # "connected" \/ sent[d].head = "refused"

Promise(d) ==
  INSTANCE Delivery WITH
    Size <- Size[d], Streamed <- d \in Sequential, body <- sent[d].body,
    status <- [new |-> "waiting", handed |-> "open", freed |-> "closed"][device[d]],
    excused <- Excused(d)

(* Every transfer does what an answer from a device promises, however its  *)
(* callbacks and those of the other transfers on the socket interleave: a  *)
(* file that can be read arrives whole and in order before it is deleted.  *)
(* (The safety part of Promise(d)!Spec for every d, the quantifier taken   *)
(* to its two conjuncts for TLC.)                                          *)
KeepsPromise ==
  /\ \A d \in Device : Promise(d)!Init
  /\ [][\A d \in Device : [Promise(d)!Next]_(Promise(d)!vars)]_vars

(* And it is deleted: the rest of Promise(d)!Spec.                         *)
AnswersEnd == \A d \in Device : Promise(d)!Ends

(* No leak: also a device whose transfer is stuck on a failed read or      *)
(* write, or that never gets more data, goes when its client goes.         *)
DeviceReclaimed ==
  \A d \in Device : sink = "unconnected" ~> device[d] # "handed"

(* What the warning "Error reading chunk: %s" (http_response.cpp:77) says  *)
(* of the code: a read that fails is noticed.                              *)
ReadErrorReported ==
  \A d \in Device : transfer[d].failed => transfer[d].reported

=============================================================================

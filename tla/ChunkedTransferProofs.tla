----------------------- MODULE ChunkedTransferProofs -----------------------
(***************************************************************************)
(* Proofs about ChunkedTransfer, for any number of devices, any sizes, any *)
(* buffer and any width of quint64 that the buffer fits in.                *)
(***************************************************************************)
EXTENDS ChunkedTransfer, SequenceTheorems, NumberLemmas, TLAPS

LEMMA WordFacts ==
  /\ WordMod \in Nat \ {0} /\ WordMod - 1 \in Word /\ WordMod - 1 > 0
  /\ BufferSize \in Nat \ {0} /\ 0..BufferSize \subseteq Word
<1>1. WordMod \div 2 <= WordMod /\ (WordMod = 1 => WordMod \div 2 = 0)
  BY WidthAssumption
<1> QED
  BY <1>1, WidthAssumption DEF Word

(* The two conversions: the -1 of a failed read is a huge quint64, and     *)
(* comes back as -1; what fits in the buffer stays what it is.             *)
LEMMA Conversions ==
  /\ ToWord(Failure) = WordMod - 1
  /\ ToSigned(WordMod - 1) = Failure
  /\ \A n \in 0..BufferSize : ToWord(n) = n /\ ToSigned(n) = n
<1>1. ToWord(Failure) = WordMod - 1
  BY WordFacts, MinusOne DEF ToWord, Failure
<1>2. ToSigned(WordMod - 1) = Failure
  <2>1. ~(WordMod - 1 < WordMod \div 2)
    BY WidthAssumption
  <2> QED
    BY <2>1, WordFacts DEF ToSigned, Failure
<1>3. ASSUME NEW n \in 0..BufferSize PROVE ToWord(n) = n /\ ToSigned(n) = n
  <2>1. n \in 0..(WordMod - 1)
    BY WordFacts DEF Word
  <2>2. n < WordMod \div 2
    BY WidthAssumption
  <2> QED
    BY <2>1, <2>2, WordFacts, SmallRemainder DEF ToWord, ToSigned
<1> QED
  BY <1>1, <1>2, <1>3

LEMMA MinOfTwo ==
  ASSUME NEW m \in Nat, NEW n \in Nat
  PROVE  /\ Min({m, n}) \in Nat /\ Min({m, n}) <= m /\ Min({m, n}) <= n
         /\ Min({m, n}) \in {m, n}
<1>1. \E x \in {m, n} : \A y \in {m, n} : x =< y
  <2>1. CASE m <= n
    BY <2>1
  <2>2. CASE n <= m
    BY <2>2
  <2> QED
    BY <2>1, <2>2
<1>2. Min({m, n}) \in {m, n} /\ \A y \in {m, n} : Min({m, n}) =< y
  BY <1>1 DEF Min
<1> QED
  BY <1>2

(* The numbers of the next n bytes of a device.                            *)
LEMMA BytesType ==
  ASSUME NEW m \in Nat, NEW n \in Nat
  PROVE  [i \in 1..n |-> m + i] \in Seq(Nat)
OBVIOUS

LEMMA Joined ==
  ASSUME NEW s \in Seq(Nat), NEW q \in Seq(Nat)
  PROVE  s \o q \in Seq(Nat) /\ Len(s \o q) = Len(s) + Len(q)
BY ConcatProperties

-----------------------------------------------------------------------------
(* One call of readFromInput.                                              *)

Empty(t) == t.beginIndex = 0 \/ IsBufferEmpty(t)
Stuck(t) == t.beginIndex = 0 /\ t.endIndex = WordMod - 1

Kept(t, u) == u.exists = t.exists /\ u.arrived = t.arrived

(* The read has failed: nothing is sent, now or later.                     *)
ReadFails(t, u) ==
  /\ Kept(t, u) /\ Stuck(u) /\ u.failed
  /\ u.taken = t.taken /\ u.timers = t.timers /\ u.deleting = t.deleting

(* Something has been read, perhaps nothing.  While the socket takes it,   *)
(* it is sent at once.                                                     *)
Reads(t, u) ==
  /\ Kept(t, u) /\ Empty(u) /\ u.failed = t.failed
  /\ t.taken <= u.taken /\ u.taken <= t.arrived
  /\ u.timers \in {t.timers, t.timers + 1}
  /\ u.deleting => t.deleting \/ u.taken = t.arrived
  /\ sink = "connected" => IsBufferEmpty(u)

Follows(t, u, a, b) ==
  b = [a EXCEPT !.body = @ \o [i \in 1..(u.taken - t.taken) |-> t.taken + i]]

LEMMA FailedRead ==
  ASSUME TypeOK, NEW d \in Device, NEW t \in Transfers, NEW a \in Answers,
         WriteToOutput(d, Filled(t, Failure), a)
  PROVE  \E u \in Transfers :
           /\ ReadFails(t, u)
           /\ transfer' = [transfer EXCEPT ![d] = u] /\ Gives(d, a)
<1> DEFINE u == Filled(t, Failure)
<1>1. ~(WordMod - 1 < 0) /\ WordMod - 1 # 0 /\ WordMod - 1 \in Word
  BY WordFacts
<1>2. /\ u.beginIndex = 0 /\ u.endIndex = WordMod - 1 /\ u.failed
      /\ u.exists = t.exists /\ u.arrived = t.arrived /\ u.taken = t.taken
      /\ u.timers = t.timers /\ u.deleting = t.deleting
  BY <1>1, Conversions DEF Filled, Transfers
<1>3. u \in Transfers
  <2>1. [i \in 1..Failure |-> t.taken + i] \in Seq(Nat)
    BY DEF Failure
  <2>2. 0 \in Word
    BY WordFacts
  <2> QED
    BY <1>1, <2>1, <2>2, Conversions DEF Filled, Transfers
<1> HIDE DEF u
<1>4. WriteResult(u) = Failure
  BY <1>2, Conversions DEF WriteResult, Failure
<1>5. transfer' = [transfer EXCEPT ![d] = u] /\ Gives(d, a)
  BY <1>4 DEF WriteToOutput, u
<1> QED
  BY <1>2, <1>3, <1>5 DEF ReadFails, Stuck, Kept

LEMMA GoodRead ==
  ASSUME TypeOK, NEW d \in Device, NEW t \in Transfers, NEW a \in Answers,
         t.taken <= t.arrived,
         WriteToOutput(d, Filled(t, Min({BufferSize, BytesAvailable(t)})), a)
  PROVE  \E u \in Transfers, b \in Answers :
           /\ Reads(t, u)
           /\ sink = "connected" => Follows(t, u, a, b)
           /\ transfer' = [transfer EXCEPT ![d] = u] /\ Gives(d, b)
<1> DEFINE n == Min({BufferSize, BytesAvailable(t)})
           u == Filled(t, n)
           bytes == [i \in 1..n |-> t.taken + i]
<1>1. /\ n \in 0..BufferSize /\ t.taken + n <= t.arrived
      /\ n # Failure /\ t.taken \in Nat /\ t.taken + n \in Nat
  <2>1. BytesAvailable(t) \in Nat /\ t.taken \in Nat /\ t.arrived \in Nat
    BY DEF BytesAvailable, Transfers
  <2>2. n \in Nat /\ n <= BufferSize /\ n <= BytesAvailable(t)
    BY <2>1, WordFacts, MinOfTwo
  <2> HIDE DEF n
  <2> QED
    BY <2>1, <2>2, WordFacts DEF BytesAvailable, Failure
<1> HIDE DEF n
<1>2. ToWord(n) = n /\ ToSigned(n) = n /\ n \in Word /\ n \in Nat /\ ~(n < 0) /\ 0 \in Word
  BY <1>1, Conversions, WordFacts
<1>3. bytes \in Seq(Nat)
  BY <1>1, <1>2, BytesType
<1>4. /\ u.beginIndex = 0 /\ u.endIndex = n /\ u.failed = t.failed /\ u.buffer = bytes
      /\ u.exists = t.exists /\ u.arrived = t.arrived /\ u.taken = t.taken + n
      /\ u.timers = t.timers /\ u.deleting = t.deleting
  <2>1. (t.failed \/ n = Failure) = t.failed
    BY <1>1 DEF Transfers
  <2> QED
    BY <1>1, <1>2, <2>1 DEF Filled, Transfers
<1>5. u \in Transfers
  <2>1. (t.failed \/ n = Failure) \in BOOLEAN /\ (t.reported \/ n < 0) \in BOOLEAN
    OBVIOUS
  <2> QED
    BY <1>1, <1>2, <1>3, <2>1 DEF Filled, Transfers
<1>6. WriteToOutput(d, u, a)
  BY DEF n
<1> HIDE DEF u
<1>7. CASE n = 0
  <2>1. transfer' = [transfer EXCEPT ![d] = u] /\ Gives(d, a)
    BY <1>4, <1>6, <1>7 DEF WriteToOutput, IsBufferEmpty
  <2>2. Reads(t, u)
    BY <1>1, <1>4, <1>7 DEF Reads, Kept, Empty, IsBufferEmpty, Transfers
  <2>3. Follows(t, u, a, a)
    <3>1. u.taken - t.taken = 0
      BY <1>1, <1>4, <1>7
    <3>2. [i \in 1..0 |-> t.taken + i] = <<>>
      OBVIOUS
    <3>3. a.body \o <<>> = a.body
      BY ConcatEmptySeq DEF Answers
    <3> QED
      BY <3>1, <3>2, <3>3 DEF Follows, Answers
  <2> QED
    BY <1>5, <2>1, <2>2, <2>3
<1>8. CASE n # 0 /\ sink # "connected"
  <2>1. transfer' = [transfer EXCEPT ![d] = u] /\ Gives(d, a)
    BY <1>6, <1>8 DEF WriteToOutput, WriteResult
  <2>2. Reads(t, u)
    BY <1>1, <1>4, <1>8 DEF Reads, Kept, Empty, IsBufferEmpty, Transfers
  <2> QED
    BY <1>5, <1>8, <2>1, <2>2
<1>9. CASE n # 0 /\ sink = "connected"
  <2> DEFINE v == Sent(u, n)
             b == [a EXCEPT !.body = @ \o [i \in 1..n |-> u.buffer[u.beginIndex + i]]]
  <2>1. WriteResult(u) = n
    BY <1>2, <1>4, <1>9 DEF WriteResult
  <2>2. transfer' = [transfer EXCEPT ![d] = v] /\ Gives(d, b)
    BY <1>1, <1>2, <1>4, <1>6, <1>9, <2>1 DEF WriteToOutput, IsBufferEmpty
  <2>3. [i \in 1..n |-> u.buffer[u.beginIndex + i]] = bytes
    BY <1>2, <1>4
  <2>4. a.body \o bytes \in Seq(Nat)
    BY <1>3, Joined DEF Answers
  <2>5. b \in Answers
    BY <2>3, <2>4 DEF Answers
  <2>6. 0 + n = n /\ BytesAvailable(u) \in Nat
        /\ (BytesAvailable(u) = 0 => u.taken = t.arrived)
    BY <1>1, <1>2, <1>4 DEF BytesAvailable, Transfers
  <2>7. /\ v.beginIndex = n /\ v.endIndex = n /\ v.failed = u.failed
        /\ v.exists = u.exists /\ v.arrived = u.arrived /\ v.taken = u.taken
        /\ v.timers \in {u.timers, u.timers + 1}
        /\ v.deleting => u.deleting \/ BytesAvailable(u) = 0
    BY <1>4, <1>5, <2>6 DEF Sent, Transfers
  <2>8. v \in Transfers
    <3> DEFINE emptied == u.beginIndex + n = u.endIndex
    <3>1. u.beginIndex + n \in Word
      BY <1>2, <1>4
    <3>2. (u.deleting \/ (emptied /\ BytesAvailable(u) = 0)) \in BOOLEAN
      OBVIOUS
    <3>3. u.timers + (IF emptied /\ BytesAvailable(u) > 0 THEN 1 ELSE 0) \in Nat
      BY <1>5 DEF Transfers
    <3> QED
      BY <1>5, <3>1, <3>2, <3>3 DEF Sent, Transfers
  <2>9. Reads(t, v)
    BY <1>1, <1>4, <2>6, <2>7 DEF Reads, Kept, Empty, IsBufferEmpty, Transfers
  <2>10. Follows(t, v, a, b)
    <3>1. v.taken - t.taken = n
      BY <1>1, <1>2, <1>4, <2>7
    <3> QED
      BY <2>3, <3>1 DEF Follows
  <2> QED
    BY <2>2, <2>5, <2>8, <2>9, <2>10
<1> QED
  BY <1>7, <1>8, <1>9

-----------------------------------------------------------------------------
(* The invariant.  At rest, a transfer whose socket is connected has sent  *)
(* what it has read, and has an empty buffer unless a read has failed.     *)

Ready(d, t, a) ==
  /\ Empty(t)
  /\ t.taken <= t.arrived /\ t.arrived <= Size[d]
  /\ d \notin Sequential => t.arrived = Size[d]
  /\ t.failed => Stuck(t)
  /\ sink = "connected" =>
       Len(a.body) = t.taken /\ (IsBufferEmpty(t) \/ t.failed)
  /\ t.deleting /\ d \notin Sequential =>
       Len(a.body) = Size[d] \/ t.failed \/ sink # "connected" \/ a.head = "refused"

Untouched(t, a) ==
  /\ ~t.exists /\ t.taken = 0 /\ ~t.failed /\ IsBufferEmpty(t) /\ a = Nothing

Sound(d) ==
  /\ Ready(d, transfer[d], sent[d])
  /\ device[d] = "new" => Untouched(transfer[d], sent[d])
  /\ transfer[d].exists => device[d] = "handed"
  /\ transfer[d].timers > 0 => transfer[d].exists

IInv == TypeOK /\ \A d \in Device : Sound(d)

LEMMA SizeType ==
  ASSUME NEW d \in Device
  PROVE  Size[d] \in Nat
BY DeviceAssumption

(* What sending the next bytes looks like from outside.                    *)
Delivers(d, a, b) ==
  /\ b.head = a.head
  /\ \E n \in Len(a.body)..Size[d] :
       b.body = a.body \o [i \in 1..(n - Len(a.body)) |-> Len(a.body) + i]

LEMMA DeliversNothing ==
  ASSUME NEW d \in Device, NEW a \in Answers, Len(a.body) <= Size[d]
  PROVE  Delivers(d, a, a)
<1>1. Len(a.body) \in Len(a.body)..Size[d]
  BY SizeType, LenProperties DEF Answers
<1>2. [i \in 1..(Len(a.body) - Len(a.body)) |-> Len(a.body) + i] = <<>>
  <2>1. Len(a.body) - Len(a.body) = 0
    BY LenProperties DEF Answers
  <2>2. [i \in 1..0 |-> Len(a.body) + i] = <<>>
    OBVIOUS
  <2> QED
    BY <2>1, <2>2
<1>3. a.body \o <<>> = a.body
  BY ConcatEmptySeq DEF Answers
<1> QED
  BY <1>1, <1>2, <1>3 DEF Delivers

LEMMA ReadStep ==
  ASSUME TypeOK, NEW d \in Device, NEW t \in Transfers, NEW a \in Answers,
         Ready(d, t, a), ReadFromInput(d, t, a)
  PROVE  \E u \in Transfers, b \in Answers :
           /\ Ready(d, u, b) /\ u.exists = t.exists /\ (t.failed => u.failed)
           /\ sink = "connected" => Delivers(d, a, b)
           /\ transfer' = [transfer EXCEPT ![d] = u] /\ Gives(d, b)
<1>0. /\ Size[d] \in Nat /\ t.taken \in Nat /\ t.arrived \in Nat
      /\ a.body \in Seq(Nat) /\ Len(a.body) \in Nat
  BY SizeType, LenProperties DEF Transfers, Answers
<1>1. CASE ~IsBufferEmpty(t)
  <2>1. transfer' = [transfer EXCEPT ![d] = t] /\ Gives(d, a)
    BY <1>1 DEF ReadFromInput
  <2>2. sink = "connected" => Delivers(d, a, a)
    BY <1>0, DeliversNothing DEF Ready
  <2> QED
    BY <2>1, <2>2
<1>2. CASE IsBufferEmpty(t) /\ WriteToOutput(d, Filled(t, Failure), a)
  <2>1. PICK u \in Transfers :
          ReadFails(t, u) /\ transfer' = [transfer EXCEPT ![d] = u] /\ Gives(d, a)
    BY <1>2, FailedRead
  <2>2. sink = "connected" => Delivers(d, a, a)
    BY <1>0, DeliversNothing DEF Ready
  <2>3. Ready(d, u, a)
    BY <2>1 DEF Ready, ReadFails, Kept, Empty, Stuck
  <2> QED
    BY <2>1, <2>2, <2>3 DEF ReadFails, Kept
<1>3. CASE /\ IsBufferEmpty(t)
           /\ WriteToOutput(d, Filled(t, Min({BufferSize, BytesAvailable(t)})), a)
  <2>1. ~t.failed
    BY <1>3, WordFacts DEF Ready, Stuck, IsBufferEmpty
  <2>2. PICK u \in Transfers, b \in Answers :
          /\ Reads(t, u)
          /\ sink = "connected" => Follows(t, u, a, b)
          /\ transfer' = [transfer EXCEPT ![d] = u] /\ Gives(d, b)
    BY <1>3, GoodRead DEF Ready
  <2>3. u.taken \in Nat /\ u.taken <= Size[d] /\ u.taken - t.taken \in Nat
    BY <1>0, <2>2 DEF Ready, Reads, Transfers
  <2>4. ASSUME sink = "connected"
        PROVE  /\ Delivers(d, a, b)
               /\ Len(b.body) = u.taken
    <3>1. Len(a.body) = t.taken
      BY <2>4 DEF Ready
    <3> DEFINE bytes == [i \in 1..(u.taken - t.taken) |-> t.taken + i]
    <3>2. bytes \in Seq(Nat) /\ Len(bytes) = u.taken - t.taken
      BY <1>0, <2>3, BytesType
    <3>3. b.body = a.body \o bytes /\ b.head = a.head
      BY <2>2, <2>4 DEF Follows, Answers
    <3>4. u.taken \in Len(a.body)..Size[d]
      BY <1>0, <2>3, <3>1
    <3>5. Delivers(d, a, b)
      BY <3>1, <3>3, <3>4 DEF Delivers
    <3>6. Len(a.body \o bytes) = Len(a.body) + Len(bytes)
      <4> HIDE DEF bytes
      <4> QED
        BY <1>0, <3>2, Joined
    <3> QED
      BY <1>0, <2>3, <3>1, <3>2, <3>3, <3>5, <3>6
  <2>5. Ready(d, u, b)
    <3>1. /\ Empty(u) /\ u.taken <= u.arrived /\ u.arrived <= Size[d] /\ ~u.failed
          /\ d \notin Sequential => u.arrived = Size[d]
          /\ sink = "connected" => Len(b.body) = u.taken /\ IsBufferEmpty(u)
      BY <2>1, <2>2, <2>4 DEF Ready, Reads, Kept
    <3>2. ASSUME u.deleting, d \notin Sequential, sink = "connected"
          PROVE  Len(b.body) = Size[d] \/ b.head = "refused"
      <4>1. CASE u.taken = t.arrived
        BY <2>4, <3>2, <4>1 DEF Ready
      <4>2. CASE t.deleting /\ Len(a.body) = Size[d]
        BY <1>0, <2>2, <2>3, <2>4, <3>2, <4>2 DEF Ready
      <4>3. CASE t.deleting /\ a.head = "refused"
        BY <2>4, <3>2, <4>3 DEF Delivers
      <4> QED
        BY <2>1, <2>2, <3>2, <4>1, <4>2, <4>3 DEF Ready, Reads
    <3> QED
      BY <3>1, <3>2 DEF Ready
  <2> QED
    BY <2>1, <2>2, <2>4, <2>5 DEF Reads, Kept
<1> QED
  BY <1>1, <1>2, <1>3 DEF ReadFromInput

-----------------------------------------------------------------------------
(* A step of the program, seen by one device: it leaves the device alone,  *)
(* or it is a step that Delivery allows.                                   *)

Alone(d) ==
  transfer'[d] = transfer[d] /\ sent'[d] = sent[d] /\ device'[d] = device[d]

Status(d) == [new |-> "waiting", handed |-> "open", freed |-> "closed"][device[d]]

LEMMA DeliverStep ==
  ASSUME NEW d \in Device, device[d] \in {"new", "handed"}, device'[d] = "handed",
         \E n \in Len(sent[d].body)..Size[d] :
           sent'[d].body = sent[d].body \o
             [i \in 1..(n - Len(sent[d].body)) |-> Len(sent[d].body) + i],
         Excused(d) => Excused(d)'
  PROVE  Promise(d)!Next
<1>1. Status(d) # "closed" /\ Status(d)' = "open"
  BY DEF Status
<1>2. Excused(d)' \in BOOLEAN
  BY DEF Excused
<1> QED
  BY <1>1, <1>2 DEF Promise!Next, Promise!Deliver, Status

LEMMA AloneStep ==
  ASSUME NEW d \in Device, Sound(d), Alone(d), sink' = sink
  PROVE  Sound(d)' /\ UNCHANGED Promise(d)!vars
<1>1. Sound(d)'
  BY DEF Sound, Alone, Ready, Empty, Stuck, IsBufferEmpty, Untouched
<1>2. Excused(d)' = Excused(d)
  BY DEF Excused, Alone
<1> QED
  BY <1>1, <1>2 DEF Promise!vars, Alone

(* The readings of a device by a socket that takes nothing leave Ready as  *)
(* it is, whatever is said of the answer.                                  *)
LEMMA NotTaken ==
  ASSUME NEW d \in Device, NEW t, NEW a, NEW b, Ready(d, t, a), sink # "connected"
  PROVE  Ready(d, t, b)
BY DEF Ready

(* A step of the transfer of d, from the answer a on: u and b come of it.  *)
LEMMA OwnStep ==
  ASSUME TypeOK, NEW d \in Device, NEW u \in Transfers, NEW a \in Answers, NEW b \in Answers,
         Ready(d, transfer[d], sent[d]),
         transfer' = [transfer EXCEPT ![d] = u], Gives(d, b), sink' = sink,
         device[d] \in {"new", "handed"}, device' = [device EXCEPT ![d] = "handed"],
         Ready(d, u, b), u.timers > 0 => u.exists,
         a.body = sent[d].body, Len(a.body) <= Size[d], 
         sink = "connected" => Delivers(d, a, b),
         transfer[d].failed => u.failed,
         sent[d].head = "refused" => a.head = "refused"
  PROVE  /\ TypeOK'
         /\ Sound(d)' /\ Promise(d)!Next
         /\ \A e \in Device \ {d} : Alone(e)
<1>1. /\ TypeOK' /\ transfer'[d] = u /\ device'[d] = "handed"
      /\ sent'[d] = IF sink = "connected" THEN b ELSE sent[d]
  BY DEF TypeOK, Gives
<1>2. \A e \in Device \ {d} : Alone(e)
  BY DEF TypeOK, Gives, Alone
<1>3. Ready(d, u, sent'[d])
  BY <1>1, NotTaken
<1>4. Sound(d)'
  BY <1>1, <1>3 DEF Sound, Ready, Empty, Stuck, IsBufferEmpty
<1>5. sent'[d].head = "refused" \/ sent[d].head # "refused"
  BY <1>1 DEF Delivers
<1>6. Excused(d) => Excused(d)'
  BY <1>1, <1>5 DEF Excused
<1>7. Delivers(d, a, a)
  BY DeliversNothing
<1>8. \E n \in Len(sent[d].body)..Size[d] :
         sent'[d].body = sent[d].body \o
           [i \in 1..(n - Len(sent[d].body)) |-> Len(sent[d].body) + i]
  BY <1>1, <1>7 DEF Delivers
<1> QED
  BY <1>1, <1>2, <1>4, <1>6, <1>8, DeliverStep

LEMMA WriteStep ==
  ASSUME TypeOK, \A e \in Device : Sound(e), NEW d \in Device, Write(d)
  PROVE  TypeOK' /\ \A e \in Device : Sound(e)' /\ [Promise(e)!Next]_(Promise(e)!vars)
<1> DEFINE t == transfer[d]
           head == [head |-> "head", body |-> <<>>]
           refused == [head |-> "refused", body |-> <<>>]
<1>1. /\ t \in Transfers /\ Untouched(t, sent[d]) /\ Ready(d, t, sent[d])
      /\ device[d] = "new" /\ sink' = sink /\ device' = [device EXCEPT ![d] = "handed"]
      /\ ~(t.timers > 0)
  BY DEF TypeOK, Sound, Write, Untouched
<1>2. /\ head \in Answers /\ refused \in Answers /\ Nothing \in Answers
      /\ head.body = <<>> /\ refused.body = <<>> /\ Nothing.body = <<>>
      /\ head.head = "head" /\ refused.head = "refused" /\ Nothing.head = "none"
      /\ sent[d] = Nothing
  BY <1>1, EmptySeq DEF Answers, Nothing, Untouched
<1>3. Len(<<>>) = 0 /\ 0 <= Size[d]
  BY SizeType
<1>4. /\ Delivers(d, head, head) /\ Delivers(d, refused, refused)
  BY <1>2, <1>3, DeliversNothing
<1> HIDE DEF head, refused
<1> DEFINE own == /\ TypeOK' /\ Sound(d)' /\ Promise(d)!Next
                  /\ \A e \in Device \ {d} : Alone(e)
<1>5. CASE transfer' = [transfer EXCEPT ![d].deleting = TRUE] /\ Gives(d, refused)
  <2> DEFINE u == [t EXCEPT !.deleting = TRUE]
  <2>1. u \in Transfers /\ transfer' = [transfer EXCEPT ![d] = u]
    BY <1>1, <1>5 DEF Transfers, TypeOK
  <2>2. Ready(d, u, refused) /\ (u.timers > 0 => u.exists) /\ (t.failed => u.failed)
    BY <1>1, <1>2, <1>3 DEF Ready, Empty, Stuck, IsBufferEmpty, Untouched, Transfers
  <2> HIDE DEF u
  <2>3. own
    BY <1>1, <1>2, <1>3, <1>4, <1>5, <2>1, <2>2, OwnStep
  <2> QED
    BY <1>1, <2>3, AloneStep
<1>6. CASE BytesAvailable(t) = 0 /\ transfer' = [transfer EXCEPT ![d].deleting = TRUE]
             /\ Gives(d, head)
  <2> DEFINE u == [t EXCEPT !.deleting = TRUE]
  <2>1. u \in Transfers /\ transfer' = [transfer EXCEPT ![d] = u]
    BY <1>1, <1>6 DEF Transfers, TypeOK
  <2>2. d \notin Sequential => Size[d] = 0
    BY <1>1, <1>3, <1>6, SizeType DEF BytesAvailable, Ready, Untouched
  <2>3. Ready(d, u, head) /\ (u.timers > 0 => u.exists) /\ (t.failed => u.failed)
    BY <1>1, <1>2, <1>3, <2>2 DEF Ready, Empty, Stuck, IsBufferEmpty, Untouched, Transfers
  <2> HIDE DEF u
  <2>4. own
    BY <1>1, <1>2, <1>3, <1>4, <1>6, <2>1, <2>3, OwnStep
  <2> QED
    BY <1>1, <2>4, AloneStep
<1>7. CASE ReadFromInput(d, [t EXCEPT !.exists = TRUE], head)
  <2> DEFINE v == [t EXCEPT !.exists = TRUE]
  <2>1. v \in Transfers
    BY <1>1 DEF Transfers
  <2>2. Ready(d, v, head) /\ v.exists /\ v.failed = t.failed
    BY <1>1, <1>2, <1>3 DEF Ready, Empty, Stuck, IsBufferEmpty, Untouched, Transfers
  <2> HIDE DEF v
  <2>3. PICK u \in Transfers, b \in Answers :
          /\ Ready(d, u, b) /\ u.exists = v.exists /\ (v.failed => u.failed)
          /\ sink = "connected" => Delivers(d, head, b)
          /\ transfer' = [transfer EXCEPT ![d] = u] /\ Gives(d, b)
    BY <1>2, <1>7, <2>1, <2>2, ReadStep DEF v
  <2>4. own
    BY <1>1, <1>2, <1>3, <2>2, <2>3, OwnStep
  <2> QED
    BY <1>1, <2>4, AloneStep
<1> QED
  BY <1>5, <1>6, <1>7 DEF Write, head, refused

(* readFromInput called back: t is the transfer, but for what the callback *)
(* is about.                                                               *)
LEMMA CallbackStep ==
  ASSUME TypeOK, \A e \in Device : Sound(e), NEW d \in Device, NEW t \in Transfers,
         transfer[d].exists, t.exists, t.failed = transfer[d].failed,
         Ready(d, t, sent[d]), ReadFromInput(d, t, sent[d]),
         UNCHANGED <<device, sink>>
  PROVE  TypeOK' /\ \A e \in Device : Sound(e)' /\ [Promise(e)!Next]_(Promise(e)!vars)
<1>1. /\ sent[d] \in Answers /\ sink' = sink /\ device[d] = "handed"
      /\ device' = [device EXCEPT ![d] = "handed"]
      /\ Ready(d, transfer[d], sent[d])
  BY DEF TypeOK, Sound
<1>2. PICK u \in Transfers, b \in Answers :
        /\ Ready(d, u, b) /\ u.exists = t.exists /\ (t.failed => u.failed)
        /\ sink = "connected" => Delivers(d, sent[d], b)
        /\ transfer' = [transfer EXCEPT ![d] = u] /\ Gives(d, b)
  BY <1>1, ReadStep
<1>3. CASE sink = "connected"
  <2>1. Len(sent[d].body) <= Size[d]
    BY <1>1, <1>3, SizeType DEF Ready, TypeOK, Transfers
  <2>2. TypeOK' /\ Sound(d)' /\ Promise(d)!Next /\ \A e \in Device \ {d} : Alone(e)
    BY <1>1, <1>2, <2>1, OwnStep
  <2> QED
    BY <1>1, <2>2, AloneStep
<1>4. CASE sink # "connected"
  <2>1. /\ TypeOK' /\ transfer'[d] = u /\ sent' = sent
        /\ \A e \in Device \ {d} : Alone(e)
    BY <1>1, <1>2, <1>4 DEF TypeOK, Gives, Alone
  <2>2. Ready(d, u, sent[d])
    BY <1>2, <1>4, NotTaken
  <2>3. Sound(d)'
    BY <1>1, <1>2, <2>1, <2>2 DEF Sound, Ready, Empty, Stuck, IsBufferEmpty
  <2>4. UNCHANGED Promise(d)!vars
    BY <1>1, <1>4, <2>1 DEF Promise!vars, Excused
  <2> QED
    BY <1>1, <2>1, <2>3, <2>4, AloneStep
<1> QED
  BY <1>3, <1>4

LEMMA TimerStep ==
  ASSUME TypeOK, \A e \in Device : Sound(e), NEW d \in Device, Timer(d)
  PROVE  TypeOK' /\ \A e \in Device : Sound(e)' /\ [Promise(e)!Next]_(Promise(e)!vars)
<1> DEFINE t == [transfer[d] EXCEPT !.timers = @ - 1]
<1>1. transfer[d] \in Transfers /\ transfer[d].timers > 0 /\ Sound(d)
  BY DEF TypeOK, Timer
<1>2. t.timers = transfer[d].timers - 1 /\ transfer[d].timers - 1 \in Nat
  BY <1>1 DEF Transfers
<1>3. /\ t \in Transfers
      /\ t.exists = transfer[d].exists /\ t.failed = transfer[d].failed
      /\ t.taken = transfer[d].taken /\ t.arrived = transfer[d].arrived
      /\ t.deleting = transfer[d].deleting
      /\ t.beginIndex = transfer[d].beginIndex /\ t.endIndex = transfer[d].endIndex
  BY <1>1, <1>2 DEF Transfers
<1>4. ReadFromInput(d, t, sent[d]) /\ UNCHANGED <<device, sink>>
  BY DEF Timer
<1> HIDE DEF t
<1>5. t.exists /\ transfer[d].exists /\ Ready(d, t, sent[d])
  BY <1>1, <1>3 DEF Sound, Ready, Empty, Stuck, IsBufferEmpty
<1> QED
  BY <1>3, <1>4, <1>5, CallbackStep

LEMMA ReadyReadStep ==
  ASSUME TypeOK, \A e \in Device : Sound(e), NEW d \in Device, ReadyRead(d)
  PROVE  TypeOK' /\ \A e \in Device : Sound(e)' /\ [Promise(e)!Next]_(Promise(e)!vars)
<1>1. /\ transfer[d] \in Transfers /\ Sound(d) /\ d \in Sequential
      /\ UNCHANGED <<device, sink>>
  BY DEF TypeOK, ReadyRead
<1>2. PICK n \in (transfer[d].arrived + 1)..Size[d] :
        LET t == [transfer[d] EXCEPT !.arrived = n] IN
        IF t.exists THEN ReadFromInput(d, t, sent[d])
                    ELSE transfer' = [transfer EXCEPT ![d] = t] /\ UNCHANGED sent
  BY DEF ReadyRead
<1> DEFINE t == [transfer[d] EXCEPT !.arrived = n]
<1>3. n \in Nat /\ n <= Size[d] /\ transfer[d].arrived <= n
  BY <1>1, SizeType DEF Transfers
<1>4. /\ t \in Transfers
      /\ t.exists = transfer[d].exists /\ t.failed = transfer[d].failed
      /\ t.timers = transfer[d].timers /\ t.taken = transfer[d].taken /\ t.arrived = n
      /\ t.beginIndex = transfer[d].beginIndex /\ t.endIndex = transfer[d].endIndex
  BY <1>1, <1>3 DEF Transfers
<1>5. IF t.exists THEN ReadFromInput(d, t, sent[d])
                  ELSE transfer' = [transfer EXCEPT ![d] = t] /\ UNCHANGED sent
  BY <1>2
<1> HIDE DEF t
<1>6. Ready(d, t, sent[d])
  BY <1>1, <1>3, <1>4 DEF Transfers, Sound, Ready, Empty, Stuck, IsBufferEmpty
<1>7. CASE t.exists
  BY <1>1, <1>4, <1>5, <1>6, <1>7, CallbackStep
<1>8. CASE ~t.exists
  <2>1. /\ TypeOK' /\ transfer'[d] = t /\ sent' = sent /\ sink' = sink /\ device' = device
        /\ \A e \in Device \ {d} : Alone(e)
    BY <1>1, <1>4, <1>5, <1>8 DEF TypeOK, Alone
  <2>2. Sound(d)'
    BY <1>1, <1>4, <1>6, <2>1 DEF Sound, Ready, Empty, Stuck, IsBufferEmpty, Untouched
  <2>3. UNCHANGED Promise(d)!vars
    BY <1>4, <2>1 DEF Promise!vars, Excused
  <2> QED
    BY <2>1, <2>2, <2>3, AloneStep
<1> QED
  BY <1>7, <1>8

(* What has been read has been sent: there is nothing for bytesWritten to  *)
(* do, unless the transfer is stuck.                                       *)
LEMMA BytesWrittenStep ==
  ASSUME TypeOK, \A e \in Device : Sound(e), NEW d \in Device, BytesWritten(d)
  PROVE  UNCHANGED vars
<1>1. /\ transfer[d] \in Transfers /\ Sound(d) /\ sink = "connected"
      /\ WriteToOutput(d, transfer[d], sent[d]) /\ UNCHANGED <<device, sink>>
  BY DEF TypeOK, BytesWritten
<1>2. IsBufferEmpty(transfer[d]) \/ WriteResult(transfer[d]) = Failure
  <2>1. CASE Stuck(transfer[d])
    BY <2>1, Conversions DEF Stuck, WriteResult, Failure
  <2> QED
    BY <1>1, <2>1 DEF Sound, Ready
<1>3. transfer' = [transfer EXCEPT ![d] = transfer[d]] /\ Gives(d, sent[d])
  BY <1>1, <1>2 DEF WriteToOutput
<1> QED
  BY <1>1, <1>3 DEF TypeOK, Gives, vars

LEMMA DisconnectStep ==
  ASSUME TypeOK, \A e \in Device : Sound(e), SinkDisconnects
  PROVE  TypeOK' /\ \A e \in Device : Sound(e)' /\ [Promise(e)!Next]_(Promise(e)!vars)
<1>1. UNCHANGED <<device, transfer, sent>> /\ sink' = "unconnected"
  BY DEF SinkDisconnects
<1>2. TypeOK'
  BY <1>1 DEF TypeOK
<1>3. ASSUME NEW e \in Device PROVE Sound(e)' /\ Promise(e)!Next
  <2>1. Sound(e)'
    BY <1>1 DEF Sound, Ready, Empty, Stuck, IsBufferEmpty, Untouched
  <2>2. Excused(e)'
    BY <1>1 DEF Excused
  <2> QED
    BY <1>1, <2>1, <2>2 DEF Promise!Next, Promise!Fail
<1> QED
  BY <1>2, <1>3

(* The device of d is deleted, for the last step of Delivery.              *)
LEMMA CloseStep ==
  ASSUME NEW d \in Device, device[d] = "handed", device'[d] = "freed",
         sent'[d] = sent[d], Excused(d)' = Excused(d),
         Len(sent[d].body) = Size[d] \/ d \in Sequential \/ Excused(d)
  PROVE  Promise(d)!Next
BY DEF Promise!Next, Promise!Close

LEMMA FreeDeviceStep ==
  ASSUME TypeOK, \A e \in Device : Sound(e), NEW d \in Device, FreeDevice(d)
  PROVE  TypeOK' /\ \A e \in Device : Sound(e)' /\ [Promise(e)!Next]_(Promise(e)!vars)
<1>1. /\ transfer[d] \in Transfers /\ Sound(d) /\ transfer[d].deleting /\ device[d] = "handed"
      /\ UNCHANGED <<sink, sent>>
  BY DEF TypeOK, FreeDevice
<1> DEFINE u == Deleted(transfer[d])
<1>2. /\ u \in Transfers /\ ~u.exists /\ u.timers = 0 /\ ~u.deleting
      /\ u.failed = transfer[d].failed /\ Ready(d, u, sent[d])
  BY <1>1 DEF Deleted, Transfers, Sound, Ready, Empty, Stuck, IsBufferEmpty
<1>3. transfer' = [transfer EXCEPT ![d] = u] /\ device' = [device EXCEPT ![d] = "freed"]
  BY DEF FreeDevice
<1> HIDE DEF u
<1>4. /\ TypeOK' /\ transfer'[d] = u /\ device'[d] = "freed"
      /\ \A e \in Device \ {d} : Alone(e)
  BY <1>1, <1>2, <1>3 DEF TypeOK, Alone
<1>5. Sound(d)'
  BY <1>1, <1>2, <1>4 DEF Sound, Ready, Empty, Stuck, IsBufferEmpty
<1>6. Excused(d)' = Excused(d)
  BY <1>1, <1>2, <1>4 DEF Excused
<1>7. Len(sent[d].body) = Size[d] \/ d \in Sequential \/ Excused(d)
  BY <1>1 DEF Sound, Ready, Excused
<1>8. Promise(d)!Next
  BY <1>1, <1>4, <1>6, <1>7, CloseStep
<1> QED
  BY <1>1, <1>4, <1>5, <1>8, AloneStep

LEMMA DestroyStep ==
  ASSUME TypeOK, \A e \in Device : Sound(e), SinkDestroyed
  PROVE  TypeOK' /\ \A e \in Device : Sound(e)' /\ [Promise(e)!Next]_(Promise(e)!vars)
<1>1. /\ sink = "unconnected" /\ sink' = "destroyed" /\ sent' = sent
      /\ device' = [e \in Device |-> IF transfer[e].exists THEN "freed" ELSE device[e]]
      /\ transfer' = [e \in Device |-> IF transfer[e].exists THEN Deleted(transfer[e])
                                                              ELSE transfer[e]]
  BY DEF SinkDestroyed
<1>2. \A e \in Device : Deleted(transfer[e]) \in Transfers
  BY DEF TypeOK, Deleted, Transfers
<1>3. TypeOK'
  BY <1>1, <1>2 DEF TypeOK
<1>4. ASSUME NEW e \in Device PROVE Sound(e)' /\ [Promise(e)!Next]_(Promise(e)!vars)
  <2>1. Excused(e) /\ Excused(e)'
    BY <1>1 DEF Excused
  <2>2. CASE ~transfer[e].exists
    <3>1. transfer'[e] = transfer[e] /\ device'[e] = device[e]
      BY <1>1, <2>2
    <3>2. Sound(e)'
      BY <1>1, <3>1 DEF Sound, Ready, Empty, Stuck, IsBufferEmpty, Untouched
    <3>3. UNCHANGED Promise(e)!vars
      BY <1>1, <2>1, <3>1 DEF Promise!vars
    <3> QED
      BY <3>2, <3>3
  <2>3. CASE transfer[e].exists
    <3> DEFINE u == Deleted(transfer[e])
    <3>1. transfer'[e] = u /\ device'[e] = "freed" /\ device[e] = "handed" /\ Sound(e)
      BY <1>1, <2>3 DEF Sound
    <3>2. /\ ~u.exists /\ u.timers = 0 /\ ~u.deleting /\ u.failed = transfer[e].failed
          /\ Ready(e, u, sent[e])
      BY <3>1 DEF TypeOK, Deleted, Transfers, Sound, Ready, Empty, Stuck, IsBufferEmpty
    <3> HIDE DEF u
    <3>3. Sound(e)'
      BY <1>1, <3>1, <3>2 DEF Sound, Ready, Empty, Stuck, IsBufferEmpty
    <3>4. Promise(e)!Next
      BY <1>1, <2>1, <3>1, CloseStep
    <3> QED
      BY <3>3, <3>4
  <2> QED
    BY <2>2, <2>3
<1> QED
  BY <1>3, <1>4

LEMMA InitSound == Init => IInv /\ \A d \in Device : Promise(d)!Init
<1> SUFFICES ASSUME Init PROVE IInv /\ \A d \in Device : Promise(d)!Init
  OBVIOUS
<1>1. Nothing \in Answers
  BY EmptySeq DEF Nothing, Answers
<1>2. transfer \in [Device -> Transfers]
  BY WordFacts, DeviceAssumption, EmptySeq DEF Init, Transfers
<1>3. TypeOK
  BY <1>1, <1>2 DEF Init, TypeOK
<1>4. ASSUME NEW d \in Device PROVE Sound(d) /\ Promise(d)!Init
  <2>1. sent[d].body = <<>> /\ Len(<<>>) = 0 /\ sent[d] = Nothing
    BY DEF Init, Nothing
  <2>2. Sound(d)
    BY <2>1, SizeType, WordFacts
       DEF Init, Sound, Ready, Empty, Stuck, IsBufferEmpty, Untouched
  <2>3. Excused(d) \in BOOLEAN
    BY DEF Excused
  <2> QED
    BY <2>1, <2>2, <2>3 DEF Init, Promise!Init
<1> QED
  BY <1>3, <1>4 DEF IInv

LEMMA NextSound ==
  IInv /\ [Next]_vars => IInv' /\ \A d \in Device : [Promise(d)!Next]_(Promise(d)!vars)
<1> SUFFICES ASSUME IInv, [Next]_vars
             PROVE  IInv' /\ \A d \in Device : [Promise(d)!Next]_(Promise(d)!vars)
  OBVIOUS
<1> DEFINE good == TypeOK' /\ \A e \in Device : Sound(e)' /\ [Promise(e)!Next]_(Promise(e)!vars)
<1>1. TypeOK /\ \A e \in Device : Sound(e)
  BY DEF IInv
<1>2. CASE UNCHANGED vars
  <2>1. TypeOK' /\ sink' = sink /\ \A e \in Device : Alone(e)
    BY <1>1, <1>2 DEF vars, TypeOK, Alone
  <2> QED
    BY <1>1, <2>1, AloneStep DEF IInv
<1>3. CASE Next
  <2>1. CASE \E d \in Device : BytesWritten(d)
    BY <1>1, <1>2, <2>1, BytesWrittenStep
  <2>2. CASE ~\E d \in Device : BytesWritten(d)
    <3>1. good
      BY <1>1, <1>3, <2>2, WriteStep, TimerStep, ReadyReadStep, FreeDeviceStep,
         DisconnectStep, DestroyStep DEF Next
    <3> QED
      BY <3>1 DEF IInv
  <2> QED
    BY <2>1, <2>2
<1> QED
  BY <1>2, <1>3

THEOREM Invariance == Spec => []IInv
BY InitSound, NextSound, PTL DEF Spec

(* Type correctness: the two indices stay in a quint64, also when a read   *)
(* has returned -1.                                                        *)
THEOREM TypeCorrect == Spec => []TypeOK
<1>1. IInv => TypeOK
  BY DEF IInv
<1> QED
  BY <1>1, Invariance, PTL

(* The assertion of isBufferEmpty never fails.                             *)
THEOREM AssertionHolds == Spec => []IndicesInOrder
<1>1. IInv => IndicesInOrder
  <2> SUFFICES ASSUME IInv, NEW d \in Device
               PROVE  transfer[d].beginIndex <= transfer[d].endIndex
    BY DEF IndicesInOrder
  <2>1. transfer[d] \in Transfers /\ Empty(transfer[d])
    BY DEF IInv, TypeOK, Sound, Ready
  <2> QED
    BY <2>1, WordFacts DEF Empty, IsBufferEmpty, Transfers, Word
<1> QED
  BY <1>1, Invariance, PTL

(* Every answer from a device takes only the steps that Delivery allows:   *)
(* its bytes in order, none lost and none twice, and no file given up      *)
(* before all of it is sent, for any number of transfers on the socket.    *)
THEOREM DeliversAsPromised == Spec => KeepsPromise
<1> DEFINE Steps == \A d \in Device : [Promise(d)!Next]_(Promise(d)!vars)
           Starts == \A d \in Device : Promise(d)!Init
<1>1. IInv /\ [Next]_vars => [Steps]_vars
  BY NextSound
<1>2. Init => Starts
  BY InitSound
<1> QED
  BY <1>1, <1>2, Invariance, PTL DEF Spec, KeepsPromise

=============================================================================

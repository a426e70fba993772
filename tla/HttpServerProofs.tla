--------------------------- MODULE HttpServerProofs ---------------------------
(***************************************************************************)
(* Proofs about HttpServer, for any set of connections and any nesting of  *)
(* handlers.                                                               *)
(*                                                                         *)
(* The invariant says who may hold what: a connection is on the call stack *)
(* at most once, the flag `handling' tells whether it is, its request      *)
(* lives exactly as long as its wired socket, and a deletion is only       *)
(* posted for a socket that is unconnected and not on the stack.           *)
(***************************************************************************)
EXTENDS HttpServer, SequenceTheorems, TLAPS

(* No handler is running twice for the same connection: Qt does not emit   *)
(* readyRead of a socket from within its own readyRead.                    *)
StackDistinct ==
  \A i, j \in 1..Len(stack) : stack[i] = stack[j] => i = j

HandlersHaveSockets ==
  \A c \in Conn : Running(c) => sock[c] \in {"connected", "unconnected"}

IInv ==
  /\ TypeOK
  /\ StackDistinct
  /\ HandlersHaveSockets
  /\ HandlingIsRunning
  /\ RequestLivesWithSocket
  /\ DeleteOnlyAbandoned

-----------------------------------------------------------------------------
(* The call stack when a handler starts and when the innermost returns.    *)

LEMMA StackPushed ==
  ASSUME stack \in Seq(Conn), NEW c \in Conn, stack' = Append(stack, c),
         StackDistinct, ~Running(c)
  PROVE  /\ stack' \in Seq(Conn)
         /\ StackDistinct'
         /\ \A d \in Conn : Running(d)' <=> Running(d) \/ d = c
<1>1. /\ stack' \in Seq(Conn)
      /\ Len(stack') = Len(stack) + 1
      /\ \A i \in 1..Len(stack) : stack'[i] = stack[i]
      /\ stack'[Len(stack) + 1] = c
  BY AppendProperties
<1>2. Len(stack) \in Nat
  BY LenProperties
<1>3. StackDistinct'
  BY <1>1, <1>2 DEF StackDistinct, Running
<1>4. ASSUME NEW d \in Conn
      PROVE  Running(d)' <=> Running(d) \/ d = c
  BY <1>1, <1>2 DEF Running
<1> QED
  BY <1>1, <1>3, <1>4

LEMMA StackPopped ==
  ASSUME stack \in Seq(Conn), NEW c \in Conn, stack # <<>>, stack[Len(stack)] = c,
         stack' = SubSeq(stack, 1, Len(stack) - 1), StackDistinct
  PROVE  /\ stack' \in Seq(Conn)
         /\ StackDistinct'
         /\ \A d \in Conn : Running(d)' <=> Running(d) /\ d # c
         /\ Running(c)
         /\ Depth - 1 \in Nat
<1>1. Len(stack) \in Nat /\ Len(stack) > 0
  BY LenProperties, EmptySeq
<1>2. \A i \in 1..Len(stack) - 1 : stack[i] \in Conn
  BY <1>1, ElementOfSeq
<1>3. /\ stack' \in Seq(Conn)
      /\ Len(stack') = Len(stack) - 1
      /\ \A i \in 1..Len(stack) - 1 : stack'[i] = stack[i]
  <2> DEFINE n == Len(stack) - 1
  <2>1. n \in Int /\ n >= 0 /\ 1 \in Int /\ stack' = SubSeq(stack, 1, n)
    BY <1>1
  <2>2. \A i \in 1..n : stack[i] \in Conn
    BY <1>2
  <2> HIDE DEF n
  <2>3. /\ SubSeq(stack, 1, n) \in Seq(Conn)
        /\ Len(SubSeq(stack, 1, n)) = IF 1 <= n THEN n - 1 + 1 ELSE 0
        /\ \A i \in 1..(n - 1 + 1) : SubSeq(stack, 1, n)[i] = stack[1 + i - 1]
    BY <2>1, <2>2, SubSeqProperties
  <2>4. Len(stack') = n
    BY <2>1, <2>3
  <2>5. ASSUME NEW i \in 1..n PROVE stack'[i] = stack[i]
    <3>1. i \in 1..(n - 1 + 1) /\ 1 + i - 1 = i
      BY <2>1
    <3> QED
      BY <2>1, <2>3, <3>1
  <2> QED
    BY <2>1, <2>3, <2>4, <2>5 DEF n
<1>4. StackDistinct'
  BY <1>1, <1>3 DEF StackDistinct
<1>5. ASSUME NEW d \in Conn
      PROVE  Running(d)' <=> Running(d) /\ d # c
  BY <1>1, <1>3 DEF Running, StackDistinct
<1> QED
  BY <1>1, <1>3, <1>4, <1>5 DEF Running, Depth

LEMMA StackKept ==
  ASSUME UNCHANGED stack
  PROVE  /\ StackDistinct => StackDistinct'
         /\ \A c \in Conn : Running(c)' <=> Running(c)
BY DEF StackDistinct, Running

-----------------------------------------------------------------------------
LEMMA InitInvariant == Init => IInv
<1> SUFFICES ASSUME Init PROVE IInv
  OBVIOUS
<1>1. stack = <<>> /\ Len(stack) = 0 /\ stack \in Seq(Conn)
  BY EmptySeq DEF Init
<1>2. \A c \in Conn : ~Running(c)
  BY <1>1 DEF Running
<1>3. StackDistinct
  BY <1>1 DEF StackDistinct
<1> QED
  BY <1>1, <1>2, <1>3 DEF Init, IInv, TypeOK, SocketState, RequestState, NotPosted,
     HandlersHaveSockets, HandlingIsRunning, RequestLivesWithSocket, DeleteOnlyAbandoned

LEMMA NextInvariant == IInv /\ [Next]_vars => IInv'
<1> SUFFICES ASSUME IInv, [Next]_vars PROVE IInv'
  OBVIOUS
<1> USE DEF IInv, TypeOK, SocketState, RequestState, NotPosted, HandlersHaveSockets,
            HandlingIsRunning, RequestLivesWithSocket, DeleteOnlyAbandoned
<1>1. CASE HandleNewConnections
  BY <1>1, StackKept DEF HandleNewConnections
<1>2. ASSUME NEW c \in Conn, Connect(c) PROVE IInv'
  BY <1>2, StackKept DEF Connect
<1>3. ASSUME NEW c \in Conn, Arrive(c) PROVE IInv'
  BY <1>3, StackKept DEF Arrive
<1>4. ASSUME NEW c \in Conn, PeerCloses(c) PROVE IInv'
  BY <1>4, StackKept DEF PeerCloses
<1>5. ASSUME NEW c \in Conn, PeerResets(c) PROVE IInv'
  BY <1>5, StackKept DEF PeerResets
<1>6. ASSUME NEW c \in Conn, HandleReadyRead(c) PROVE IInv'
  BY <1>6, StackPushed DEF HandleReadyRead
<1>7. ASSUME NEW c \in Conn, BufferSilently(c) PROVE IInv'
  BY <1>7, StackKept DEF BufferSilently
<1>8. ASSUME NEW c \in Conn, HandlerReturns(c) PROVE IInv'
  BY <1>8, StackPopped DEF HandlerReturns, DeletesWhenHandled
<1>9. ASSUME NEW c \in Conn, Disconnected(c) PROVE IInv'
  <2>1. Depth \in Nat
    BY LenProperties DEF Depth
  <2> QED
    BY <1>9, <2>1, StackKept DEF Disconnected, DeletesWhenDisconnected
<1>10. ASSUME NEW c \in Conn, DeferredDelete(c) PROVE IInv'
  BY <1>10, StackKept DEF DeferredDelete, Destroyed
<1>11. CASE UNCHANGED vars
  BY <1>11, StackKept DEF vars
<1> QED
  BY <1>1, <1>2, <1>3, <1>4, <1>5, <1>6, <1>7, <1>8, <1>9, <1>10, <1>11 DEF Next

(* The invariant holds throughout.                                         *)
THEOREM Invariance == Spec => []IInv
<1> QED
  BY InitInvariant, NextInvariant, PTL DEF Spec

(* Type correctness.                                                       *)
THEOREM TypeCorrect == Spec => []TypeOK
<1>1. IInv => TypeOK
  BY DEF IInv
<1> QED
  BY <1>1, Invariance, PTL

(* Neither pointer handleReadyRead holds across a handler dangles when the *)
(* handler returns, however many handlers are nested in it.                *)
THEOREM NeverUsesFreed == Spec => []NoUseAfterFree
<1>1. IInv => NoUseAfterFree
  BY DEF IInv, NoUseAfterFree, HandlersHaveSockets, RequestLivesWithSocket
<1> QED
  BY <1>1, Invariance, PTL

(* Request and socket are allocated and freed together.                    *)
THEOREM RequestOwnership == Spec => []RequestLivesWithSocket
<1>1. IInv => RequestLivesWithSocket
  BY DEF IInv
<1> QED
  BY <1>1, Invariance, PTL

(* The flag the disconnected slot trusts is right.                         *)
THEOREM HandlingFlag == Spec => []HandlingIsRunning
<1>1. IInv => HandlingIsRunning
  BY DEF IInv
<1> QED
  BY <1>1, Invariance, PTL

(* Only sockets that are abandoned have a deletion posted.                 *)
THEOREM DeletesAbandoned == Spec => []DeleteOnlyAbandoned
<1>1. IInv => DeleteOnlyAbandoned
  BY DEF IInv
<1> QED
  BY <1>1, Invariance, PTL

(* No step destroys the socket of a client that is still connected.        *)
THEOREM ClientsAreKept == Spec => NeverDropsClient
<1> DEFINE Keeps == \A c \in Conn : sock[c] = "connected" => sock'[c] # "destroyed"
<1>1. IInv /\ [Next]_vars => [Keeps]_vars
  <2> SUFFICES ASSUME IInv, Next, NEW c \in Conn, sock[c] = "connected"
               PROVE  sock'[c] # "destroyed"
    OBVIOUS
  <2> USE DEF IInv, TypeOK, SocketState, DeleteOnlyAbandoned
  <2>1. CASE HandleNewConnections
    BY <2>1 DEF HandleNewConnections
  <2>2. ASSUME NEW d \in Conn, Disconnected(d) PROVE sock'[c] # "destroyed"
    BY <2>2 DEF Disconnected
  <2>3. ASSUME NEW d \in Conn, DeferredDelete(d) PROVE sock'[c] # "destroyed"
    BY <2>3 DEF DeferredDelete
  <2>4. ASSUME NEW d \in Conn,
               \/ Connect(d) \/ Arrive(d) \/ PeerCloses(d) \/ PeerResets(d)
               \/ HandleReadyRead(d) \/ BufferSilently(d) \/ HandlerReturns(d)
        PROVE  sock'[c] # "destroyed"
    BY <2>4 DEF Connect, Arrive, PeerCloses, PeerResets, HandleReadyRead,
                BufferSilently, HandlerReturns
  <2> QED
    BY <2>1, <2>2, <2>3, <2>4 DEF Next
<1> QED
  BY <1>1, Invariance, PTL DEF Spec, NeverDropsClient

-----------------------------------------------------------------------------
(* The refinement.  A step of the server is, for one connection, a step of *)
(* its session or none at all.                                             *)

StepsAs(c) == [Session(c)!Next]_(Session(c)!vars)

(* The phase of a connection that an action leaves alone stays.            *)
LEMMA PhaseKept ==
  ASSUME NEW c \in Conn, sock'[c] = sock[c], Running(c)' <=> Running(c)
  PROVE  StepsAs(c)
<1>1. Phase(c)' = Phase(c)
  BY DEF Phase
<1> QED
  BY <1>1 DEF StepsAs, Session!vars

LEMMA StepRefines ==
  ASSUME IInv, Next, NEW c \in Conn
  PROVE  StepsAs(c)
<1> USE DEF IInv, TypeOK, SocketState
<1>1. CASE HandleNewConnections
  <2>1. Running(c)' <=> Running(c)
    BY <1>1, StackKept DEF HandleNewConnections
  <2>2. CASE sock[c] = "pending"
    <3>1. sock'[c] = "connected" /\ ~Running(c)
      BY <1>1, <2>2 DEF HandleNewConnections, HandlersHaveSockets
    <3> QED
      BY <2>1, <2>2, <3>1 DEF StepsAs, Phase, Session!Next, Session!Open
  <2>3. CASE sock[c] # "pending"
    BY <1>1, <2>1, <2>3, PhaseKept DEF HandleNewConnections
  <2> QED
    BY <2>2, <2>3
<1>2. ASSUME NEW d \in Conn, Connect(d) PROVE StepsAs(c)
  <2>1. Running(c)' <=> Running(c)
    BY <1>2, StackKept DEF Connect
  <2>2. CASE d = c
    BY <1>2, <2>2 DEF Connect, StepsAs, Phase, Session!vars
  <2>3. CASE d # c
    BY <1>2, <2>1, <2>3, PhaseKept DEF Connect
  <2> QED
    BY <2>2, <2>3
<1>3. ASSUME NEW d \in Conn, Arrive(d) \/ PeerCloses(d) \/ PeerResets(d) \/ BufferSilently(d)
      PROVE  StepsAs(c)
  BY <1>3, StackKept, PhaseKept DEF Arrive, PeerCloses, PeerResets, BufferSilently
<1>4. ASSUME NEW d \in Conn, HandleReadyRead(d) PROVE StepsAs(c)
  <2>1. Running(c)' <=> Running(c) \/ c = d
    BY <1>4, StackPushed DEF HandleReadyRead
  <2>2. CASE d = c
    <3>1. sock'[c] = "connected" /\ sock[c] = "connected" /\ ~Running(c) /\ Running(c)'
      BY <1>4, <2>1, <2>2 DEF HandleReadyRead
    <3> QED
      BY <3>1 DEF StepsAs, Phase, Session!Next, Session!Serve
  <2>3. CASE d # c
    BY <1>4, <2>1, <2>3, PhaseKept DEF HandleReadyRead
  <2> QED
    BY <2>2, <2>3
<1>5. ASSUME NEW d \in Conn, HandlerReturns(d) PROVE StepsAs(c)
  <2>1. (Running(c)' <=> Running(c) /\ c # d) /\ Running(d)
    BY <1>5, StackPopped DEF HandlerReturns
  <2>2. CASE d = c
    <3>1. /\ sock'[c] = sock[c] /\ sock[c] \in {"connected", "unconnected"}
          /\ Running(c) /\ ~Running(c)'
      BY <1>5, <2>1, <2>2 DEF HandlerReturns, HandlersHaveSockets
    <3> QED
      BY <3>1 DEF StepsAs, Phase, Session!Next, Session!Finish
  <2>3. CASE d # c
    BY <1>5, <2>1, <2>3, PhaseKept DEF HandlerReturns
  <2> QED
    BY <2>2, <2>3
<1>6. ASSUME NEW d \in Conn, Disconnected(d) PROVE StepsAs(c)
  <2>1. Running(c)' <=> Running(c)
    BY <1>6, StackKept DEF Disconnected
  <2>2. CASE d = c
    <3>1. sock[c] = "connected" /\ sock'[c] = "unconnected"
      BY <1>6, <2>2 DEF Disconnected
    <3> QED
      BY <2>1, <3>1 DEF StepsAs, Phase, Session!Next, Session!Leave
  <2>3. CASE d # c
    BY <1>6, <2>1, <2>3, PhaseKept DEF Disconnected
  <2> QED
    BY <2>2, <2>3
<1>7. ASSUME NEW d \in Conn, DeferredDelete(d) PROVE StepsAs(c)
  <2>1. Running(c)' <=> Running(c)
    BY <1>7, StackKept DEF DeferredDelete
  <2>2. CASE d = c
    <3>1. sock[c] = "unconnected" /\ sock'[c] = "destroyed" /\ ~Running(c)
      BY <1>7, <2>2 DEF DeferredDelete, DeleteOnlyAbandoned
    <3> QED
      BY <3>1 DEF StepsAs, Phase, Session!Next, Session!Free
  <2>3. CASE d # c
    BY <1>7, <2>1, <2>3, PhaseKept DEF DeferredDelete
  <2> QED
    BY <2>2, <2>3
<1> QED
  BY <1>1, <1>2, <1>3, <1>4, <1>5, <1>6, <1>7 DEF Next

(* For any number of connections, the server implements one session for    *)
(* each: none is freed while it is served or before its client has left.   *)
THEOREM ImplementsSessions == Spec => KeepsSessions
<1>1. Init => \A c \in Conn : Session(c)!Init
  <2> SUFFICES ASSUME Init, NEW c \in Conn PROVE Session(c)!Init
    OBVIOUS
  <2>1. sock[c] = "absent"
    BY DEF Init
  <2> QED
    BY <2>1 DEF Phase, Session!Init
<1> DEFINE Steps == \A c \in Conn : [Session(c)!Next]_(Session(c)!vars)
<1>2. IInv /\ [Next]_vars => [Steps]_vars
  BY StepRefines DEF StepsAs
<1> QED
  BY <1>1, <1>2, Invariance, PTL DEF Spec, KeepsSessions

=============================================================================

----------------------------- MODULE HttpServer -----------------------------
(***************************************************************************)
(* Life cycle of the connections of an HttpServer                          *)
(* (src/src/httpserver/http_server.cpp).                                   *)
(*                                                                         *)
(* The server is single threaded: every slot runs to completion on the Qt  *)
(* event loop.  Three callbacks share the heap object HttpRequest and the  *)
(* QTcpSocket of a connection without any ownership but the two raw        *)
(* pointers they captured:                                                 *)
(*                                                                         *)
(*   readyRead     parses, sets request->handling, runs the view handler,  *)
(*                 clears request->handling, looks at the socket again;    *)
(*   disconnected  deletes the socket later, unless the request is being   *)
(*                 handled;                                                *)
(*   destroyed     deletes the request.                                    *)
(*                                                                         *)
(* A view handler is arbitrary code.  When it spins an event loop of its   *)
(* own, the callbacks of every connection, this one's disconnected         *)
(* included, run before the handler returns: `handling' exists for that    *)
(* case, and the model allows it for every handler.  A handler that never  *)
(* does, like those of src/src/main.cpp, is one after whose start the next *)
(* event is its return.                                                    *)
(*                                                                         *)
(* What the bytes say is left to HttpRequest.tla: here a segment either is *)
(* in the socket or is not.  HttpRequest::parse always tells this code     *)
(* true and parserState.upgrade is never cleared, so every readyRead       *)
(* reaches the handler; the two early returns of handleReadyRead are dead  *)
(* code and have no action.                                                *)
(***************************************************************************)
EXTENDS Integers, Sequences

CONSTANT Conn    \* the connections clients may open

VARIABLES
  sock,        \* state of the connection's QTcpSocket object
  request,     \* state of the connection's heap-allocated HttpRequest
  handling,    \* HttpRequest::handling
  readable,    \* a segment has arrived that Qt has not read yet
  buffered,    \* bytes are in the QIODevice buffer that readAll() has not taken
  peerClosed,  \* the peer's FIN has arrived
  deleteAt,    \* loop depth at which deleteLater() was posted, or NotPosted
  stack        \* connections whose handler is running, outermost first

vars == <<sock, request, handling, readable, buffered, peerClosed, deleteAt, stack>>

NotPosted == -1

SocketState  == {"absent", "pending", "connected", "unconnected", "destroyed"}
RequestState == {"absent", "live", "freed"}

\* Slip: one level too low.
Depth_Shifted == Len(stack) - 2

(* Depth of the event loop that dispatches the next event: one loop runs   *)
(* inside each handler in progress; that of app.exec() has depth 0.        *)
Depth == Len(stack)

Running(c) == \E i \in 1..Len(stack) : stack[i] = c

\* Slips: deleteLater without, or with the wrong, condition.
Deletes_Always(c) == TRUE
Deletes_Never(c)  == FALSE

(* When the two slots that may delete a socket do: disconnected unless the *)
(* request is being handled, readyRead if the socket has been disconnected *)
(* while it was.                                                           *)
DeletesWhenDisconnected(c) == ~handling[c]
DeletesWhenHandled(c)      == sock[c] = "unconnected"

-----------------------------------------------------------------------------
(* The clients and the network.                                            *)

(* A client connects; QTcpServer has accepted the socket but nobody has    *)
(* asked for it yet.                                                       *)
Connect(c) ==
  /\ sock[c] = "absent"
  /\ sock' = [sock EXCEPT ![c] = "pending"]
  /\ UNCHANGED <<request, handling, readable, buffered, peerClosed, deleteAt, stack>>

(* A segment of the client's byte stream arrives.                          *)
Arrive(c) ==
  /\ sock[c] \in {"pending", "connected"}
  /\ ~peerClosed[c] /\ ~readable[c]
  /\ readable' = [readable EXCEPT ![c] = TRUE]
  /\ UNCHANGED <<sock, request, handling, buffered, peerClosed, deleteAt, stack>>

(* The client closes its end after the bytes it has sent.                  *)
PeerCloses(c) ==
  /\ sock[c] \in {"pending", "connected"}
  /\ ~peerClosed[c]
  /\ peerClosed' = [peerClosed EXCEPT ![c] = TRUE]
  /\ UNCHANGED <<sock, request, handling, readable, buffered, deleteAt, stack>>

(* The connection is reset: what Qt has not read yet is lost with it.      *)
PeerResets(c) ==
  /\ sock[c] \in {"pending", "connected"}
  /\ peerClosed' = [peerClosed EXCEPT ![c] = TRUE]
  /\ readable' = [readable EXCEPT ![c] = FALSE]
  /\ UNCHANGED <<sock, request, handling, buffered, deleteAt, stack>>

-----------------------------------------------------------------------------
(* The slots of the server, each run by the innermost event loop.          *)

(* handleNewConnections drains nextPendingConnection(): every pending      *)
(* socket gets its HttpRequest and its three callbacks.                    *)
HandleNewConnections ==
  /\ \E c \in Conn : sock[c] = "pending"
  /\ sock' = [c \in Conn |-> IF sock[c] = "pending" THEN "connected" ELSE sock[c]]
  /\ request' = [c \in Conn |-> IF sock[c] = "pending" THEN "live" ELSE request[c]]
  /\ UNCHANGED <<handling, readable, buffered, peerClosed, deleteAt, stack>>

(* readyRead fires: readAll() takes everything, parse, handling = true,    *)
(* and the view handler starts.  Qt does not emit readyRead of a socket    *)
(* from within its own readyRead slot.                                     *)
HandleReadyRead(c) ==
  /\ sock[c] = "connected" /\ readable[c]
  /\ ~Running(c)
  /\ readable' = [readable EXCEPT ![c] = FALSE]
  /\ buffered' = [buffered EXCEPT ![c] = FALSE]
  /\ handling' = [handling EXCEPT ![c] = TRUE]
  /\ stack' = Append(stack, c)
  /\ UNCHANGED <<sock, request, peerClosed, deleteAt>>

(* A segment arrives while the handler of the same connection is running:  *)
(* Qt buffers it and emits nothing, then or later.                         *)
BufferSilently(c) ==
  /\ sock[c] = "connected" /\ readable[c]
  /\ Running(c)
  /\ readable' = [readable EXCEPT ![c] = FALSE]
  /\ buffered' = [buffered EXCEPT ![c] = TRUE]
  /\ UNCHANGED <<sock, request, handling, peerClosed, deleteAt, stack>>

\* Slip: handling stays set.
HandlerReturns_KeepsFlag(c) ==
  /\ stack # <<>> /\ stack[Len(stack)] = c
  /\ stack' = SubSeq(stack, 1, Len(stack) - 1)
  /\ deleteAt' = IF DeletesWhenHandled(c) THEN [deleteAt EXCEPT ![c] = Depth - 1]
                                          ELSE deleteAt
  /\ UNCHANGED <<sock, request, handling, readable, buffered, peerClosed>>

(* The innermost handler returns: the tail of handleReadyRead.  It runs in *)
(* the loop that dispatched readyRead, one level out.                      *)
HandlerReturns(c) ==
  /\ stack # <<>> /\ stack[Len(stack)] = c
  /\ handling' = [handling EXCEPT ![c] = FALSE]
  /\ stack' = SubSeq(stack, 1, Len(stack) - 1)
  /\ deleteAt' = IF DeletesWhenHandled(c) THEN [deleteAt EXCEPT ![c] = Depth - 1]
                                          ELSE deleteAt
  /\ UNCHANGED <<sock, request, readable, buffered, peerClosed>>

(* Qt notices the end of the connection, after every byte that came before *)
(* it, and emits disconnected.                                             *)
Disconnected(c) ==
  /\ sock[c] = "connected" /\ peerClosed[c] /\ ~readable[c]
  /\ sock' = [sock EXCEPT ![c] = "unconnected"]
  /\ deleteAt' = IF DeletesWhenDisconnected(c) THEN [deleteAt EXCEPT ![c] = Depth]
                                               ELSE deleteAt
  /\ UNCHANGED <<request, handling, readable, buffered, peerClosed, stack>>

\* Slip: nobody deletes the request.
Destroyed_Leaks(c) == UNCHANGED request

(* The slot of destroyed.                                                  *)
Destroyed(c) == request' = [request EXCEPT ![c] = "freed"]

(* The loop runs a posted DeferredDelete event: ~QTcpSocket emits          *)
(* destroyed.  Qt only does so once control is back in the loop that ran   *)
(* the slot that called deleteLater.                                       *)
DeferredDelete(c) ==
  /\ deleteAt[c] # NotPosted /\ Depth <= deleteAt[c]
  /\ sock' = [sock EXCEPT ![c] = "destroyed"]
  /\ Destroyed(c)
  /\ deleteAt' = [deleteAt EXCEPT ![c] = NotPosted]
  /\ UNCHANGED <<handling, readable, buffered, peerClosed, stack>>

-----------------------------------------------------------------------------
Init ==
  /\ sock = [c \in Conn |-> "absent"]
  /\ request = [c \in Conn |-> "absent"]
  /\ handling = [c \in Conn |-> FALSE]
  /\ readable = [c \in Conn |-> FALSE]
  /\ buffered = [c \in Conn |-> FALSE]
  /\ peerClosed = [c \in Conn |-> FALSE]
  /\ deleteAt = [c \in Conn |-> NotPosted]
  /\ stack = <<>>

Next ==
  \/ HandleNewConnections
  \/ \E c \in Conn :
       \/ Connect(c) \/ Arrive(c) \/ PeerCloses(c) \/ PeerResets(c)
       \/ HandleReadyRead(c) \/ BufferSilently(c) \/ HandlerReturns(c)
       \/ Disconnected(c) \/ DeferredDelete(c)

Spec == Init /\ [][Next]_vars

(* What the event loop owes: it carries out the deletions that have been   *)
(* posted, and handlers return.  While handlers nest, both are possible    *)
(* only now and then (an inner handler must return first), hence strong    *)
(* fairness.  It owes the other events as much, but nothing here needs it; *)
(* nothing is owed by the clients.                                         *)
Fairness ==
  \A c \in Conn : SF_vars(HandlerReturns(c)) /\ SF_vars(DeferredDelete(c))

FairSpec == Spec /\ Fairness

-----------------------------------------------------------------------------
TypeOK ==
  /\ sock \in [Conn -> SocketState]
  /\ request \in [Conn -> RequestState]
  /\ handling \in [Conn -> BOOLEAN]
  /\ readable \in [Conn -> BOOLEAN]
  /\ buffered \in [Conn -> BOOLEAN]
  /\ peerClosed \in [Conn -> BOOLEAN]
  /\ deleteAt \in [Conn -> Nat \cup {NotPosted}]
  /\ stack \in Seq(Conn)

(* No use after free: handleReadyRead keeps a QTcpSocket pointer and an    *)
(* HttpRequest pointer across the view handler and dereferences both when  *)
(* it returns (http_server.cpp:72-75).  Whatever runs in between, both     *)
(* objects are still there.                                                *)
NoUseAfterFree ==
  \A c \in Conn : Running(c) => sock[c] # "destroyed" /\ request[c] = "live"

(* Ownership: the request is allocated and freed together with the wired   *)
(* socket, so a request neither outlives its socket nor dies before it.    *)
RequestLivesWithSocket ==
  \A c \in Conn : request[c] = "live" <=> sock[c] \in {"connected", "unconnected"}

(* The flag the disconnected slot trusts tells exactly whether a handler   *)
(* of that connection is on the call stack, however handlers nest.         *)
HandlingIsRunning ==
  \A c \in Conn : handling[c] <=> Running(c)

(* deleteLater is only ever pending for a socket the peer has left and     *)
(* that no handler is using.                                               *)
DeleteOnlyAbandoned ==
  \A c \in Conn : deleteAt[c] # NotPosted => sock[c] = "unconnected" /\ ~Running(c)

(* The server never destroys the socket of a client that is still          *)
(* connected: only disconnected sockets are deleted.                       *)
NeverDropsClient ==
  [][\A c \in Conn : sock[c] = "connected" => sock'[c] # "destroyed"]_vars

(* No leak: when the peer is gone, the socket and its request are freed in *)
(* the end, also when the peer left in the middle of a handler and the     *)
(* disconnected slot declined to delete.                                   *)
Reclaimed ==
  \A c \in Conn : sock[c] = "unconnected" ~> request[c] = "freed"

(* The connection as a session.                                            *)
Phase(c) ==
  IF sock[c] \in {"absent", "pending"} THEN "absent"
  ELSE IF sock[c] = "destroyed" THEN "freed"
  ELSE IF Running(c) THEN "serving" ELSE "idle"

Session(c) ==
  INSTANCE Session WITH
    phase <- Phase(c), left <- sock[c] \in {"unconnected", "destroyed"}

(* Each connection, whatever happens on the others meanwhile and however   *)
(* their handlers nest in its own, goes through the life of a session.     *)
(* (Session(c)!Spec for every c, the quantifier taken to its conjuncts for *)
(* TLC.)                                                                   *)
KeepsSessions ==
  /\ \A c \in Conn : Session(c)!Init
  /\ [][\A c \in Conn : [Session(c)!Next]_(Session(c)!vars)]_vars

=============================================================================

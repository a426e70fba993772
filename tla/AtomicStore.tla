---------------------------- MODULE AtomicStore ----------------------------
(***************************************************************************)
(* What the program promises to one of its clients: the change its request *)
(* asks for is made to the table in one step, once, at some time between   *)
(* the changes other clients make.  Bytes, fragments, handlers and the log *)
(* are not seen here.                                                      *)
(***************************************************************************)
EXTENDS Integers

CONSTANTS Key, Value, Absent

VARIABLES
  request,     \* the change asked for, its method "none" if there is none
  store,       \* the table
  applied,     \* how often the change has been made
  repeatable   \* whether the client has sent what may make it be made again

vars == <<request, store, applied, repeatable>>

Init ==
  /\ request \in [method : {"none", "POST", "PUT", "DELETE"}, key : Key, value : Value]
  /\ store = [k \in Key |-> Absent]
  /\ applied = 0
  /\ repeatable \in BOOLEAN

(* POST adds, PUT adds or replaces, DELETE removes.                        *)
Changed ==
  LET put == [store EXCEPT ![request.key] = request.value] IN
  [POST   |-> IF store[request.key] = Absent THEN put ELSE store,
   PUT    |-> put,
   DELETE |-> [store EXCEPT ![request.key] = Absent]][request.method]

Own ==
  /\ request.method # "none"
  /\ applied = 0 \/ repeatable
  /\ store' = Changed
  /\ applied' = applied + 1
  /\ UNCHANGED request

(* Another client's request, or more bytes of this one's.                  *)
Other ==
  /\ \E k \in Key, v \in Value \cup {Absent} : store' = [store EXCEPT ![k] = v]
  /\ UNCHANGED <<request, applied>>

Next == Own \/ Other

Spec == Init /\ [][Next]_vars

=============================================================================

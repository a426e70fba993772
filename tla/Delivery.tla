------------------------------ MODULE Delivery ------------------------------
(***************************************************************************)
(* What a handler that answers with a device may rely on, for one device:  *)
(* the client gets its bytes in order, none lost, none twice, and when the *)
(* device is given up either all of them have been sent or something has   *)
(* happened that excuses it.  How the bytes are buffered and who asks for  *)
(* the next of them is not said.                                           *)
(***************************************************************************)
EXTENDS Integers, Sequences

CONSTANTS
  Size,      \* the number of bytes the device has
  Streamed   \* whether its answer may end whenever it has nothing to give

VARIABLES
  body,      \* the bytes that have been sent, each known by its number
  status,    \* "waiting", "open" or "closed"
  excused    \* whether something has gone wrong outside

vars == <<body, status, excused>>

Init == body = <<>> /\ status = "waiting" /\ excused \in BOOLEAN

(* The answer begins, or goes on: some of the next bytes are sent.         *)
Deliver ==
  /\ status # "closed" /\ status' = "open"
  /\ \E n \in Len(body)..Size : body' = body \o [i \in 1..(n - Len(body)) |-> Len(body) + i]
  /\ excused' \in BOOLEAN

(* Something goes wrong outside; once it has it stays wrong.               *)
Fail == excused' /\ UNCHANGED <<body, status>>

Close ==
  /\ status = "open" /\ status' = "closed"
  /\ Len(body) = Size \/ Streamed \/ excused
  /\ UNCHANGED <<body, excused>>

Next == (Deliver \/ Fail \/ Close) /\ (excused => excused')

(* Every answer that has begun ends, unless that cannot be asked for.      *)
Ends == status = "open" ~> status = "closed" \/ excused

Spec == Init /\ [][Next]_vars /\ Ends

=============================================================================

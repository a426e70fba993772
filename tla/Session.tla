------------------------------ MODULE Session ------------------------------
(***************************************************************************)
(* What the server promises of one connection: it is opened, it is served  *)
(* any number of times, and its resources are given up once, after its     *)
(* client has left and not in the middle of serving it.                    *)
(***************************************************************************)

VARIABLES
  phase,   \* "absent", "idle", "serving" or "freed"
  left     \* whether the server knows that the client has left

vars == <<phase, left>>

Init == phase = "absent" /\ left = FALSE

Open   == phase = "absent" /\ phase' = "idle" /\ UNCHANGED left
Serve  == phase = "idle" /\ ~left /\ phase' = "serving" /\ UNCHANGED left
Finish == phase = "serving" /\ phase' = "idle" /\ UNCHANGED left
Leave  == phase \in {"idle", "serving"} /\ ~left /\ left' = TRUE /\ UNCHANGED phase
Free   == phase = "idle" /\ left /\ phase' = "freed" /\ UNCHANGED left

Next == Open \/ Serve \/ Finish \/ Leave \/ Free

Spec == Init /\ [][Next]_vars

=============================================================================

-------------------------------- MODULE Link --------------------------------
(***************************************************************************)
(* What the rest of the node may rely on of a connection to the modem:     *)
(* whether it is usable, and what subscribers of the "connection" topic    *)
(* were last told.  An attempt follows every loss, a connection is only    *)
(* ever gained by an attempt, and the topic tells the truth.               *)
(***************************************************************************)
VARIABLES
  link,       \* DISCONNECTED, WAITING (an attempt is running) or CONNECTED
  announced   \* the last Bool on the topic; FALSE before the first one

vars == <<link, announced>>

Init == link = "WAITING" /\ announced = FALSE

Gained ==
  /\ link = "WAITING"
  /\ link' = "CONNECTED"
  /\ announced' = TRUE

Lost ==
  /\ link \in {"WAITING", "CONNECTED"}
  /\ link' = "DISCONNECTED"
  /\ announced' = FALSE

Retry ==
  /\ link = "DISCONNECTED"
  /\ link' = "WAITING"
  /\ UNCHANGED announced

Next == Gained \/ Lost \/ Retry

Spec == Init /\ [][Next]_vars

(* A lost connection is always followed by another attempt.                *)
FairSpec == Spec /\ WF_vars(Retry)
=============================================================================

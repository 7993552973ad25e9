------------------------ MODULE ReservationContract ------------------------
(***************************************************************************)
(* What the budget of a run is promised by a batch that reserves from it   *)
(* (EvaluationReservationBatch, execution.py): no more objective calls     *)
(* than were reserved, ever; a batch that settles pays for exactly the     *)
(* calls it made; a batch that fails pays for its whole reservation,       *)
(* because calls may still be under way when the failure is reported.      *)
(***************************************************************************)
EXTENDS Integers

CONSTANT Budget   \* bound on the evaluations a run may have left

VARIABLES
  remaining,   \* EvaluationBudget.remaining
  reserved,    \* capacity taken by the batch
  evaluated,   \* objective calls made for the batch
  standing     \* "idle", "declined", "reserved", "settled" or "forfeited"

vars == <<remaining, reserved, evaluated, standing>>

Init ==
  /\ remaining \in 0..Budget
  /\ reserved = 0
  /\ evaluated = 0
  /\ standing = "idle"

Decline ==
  /\ standing = "idle"
  /\ standing' = "declined"
  /\ UNCHANGED <<remaining, reserved, evaluated>>

Reserve ==
  /\ standing = "idle"
  /\ reserved' \in 1..remaining
  /\ remaining' = remaining - reserved'
  /\ standing' = "reserved"
  /\ UNCHANGED evaluated

Evaluate ==
  /\ standing \in {"reserved", "forfeited"}
  /\ evaluated < reserved
  /\ evaluated' = evaluated + 1
  /\ UNCHANGED <<remaining, reserved, standing>>

Settle ==
  /\ standing = "reserved"
  /\ evaluated > 0
  /\ remaining' = remaining + reserved - evaluated
  /\ standing' = "settled"
  /\ UNCHANGED <<reserved, evaluated>>

Forfeit ==
  /\ standing = "reserved"
  /\ standing' = "forfeited"
  /\ UNCHANGED <<remaining, reserved, evaluated>>

Next == Decline \/ Reserve \/ Evaluate \/ Settle \/ Forfeit

Spec == Init /\ [][Next]_vars
=============================================================================

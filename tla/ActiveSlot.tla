----------------------------- MODULE ActiveSlot -----------------------------
(***************************************************************************)
(* What the page of the active slot promises (app/src/storage.rs): it holds *)
(* the number of a profile slot, or none.  save_active_slot replaces it and *)
(* clear_all removes it; a power failure in either leaves the old value,    *)
(* the new one, or none.                                                    *)
(*                                                                         *)
(* ActiveSlotLog implements this specification, and Pairing uses the page   *)
(* as it allows.                                                            *)
(***************************************************************************)
CONSTANTS
  Slots,   \* numbers of profile slots
  None

VARIABLES
  committed,  \* the slot recorded when the last call ended
  op,         \* the call under way: the slot being recorded, "clear", or "none"
  on          \* the device has power

vars == <<committed, op, on>>

NoOp      == [kind |-> "none"]
SaveOf(s) == [kind |-> "save", slot |-> s]
ClearOp   == [kind |-> "clear"]

Ops == {NoOp, ClearOp} \cup {SaveOf(s) : s \in Slots}

Result(o) == IF o.kind = "save" THEN o.slot ELSE None

Init ==
  /\ committed = None
  /\ op = NoOp
  /\ on = TRUE

Call ==
  /\ on /\ op = NoOp
  /\ op' \in Ops \ {NoOp}
  /\ UNCHANGED <<committed, on>>

Return ==
  /\ on /\ op # NoOp
  /\ committed' = Result(op)
  /\ op' = NoOp
  /\ UNCHANGED on

PowerLoss ==
  /\ on /\ on' = FALSE
  /\ committed' \in IF op = NoOp THEN {committed} ELSE {committed, Result(op), None}
  /\ op' = NoOp

Boot ==
  /\ ~on /\ on' = TRUE
  /\ UNCHANGED <<committed, op>>

Next == Call \/ Return \/ PowerLoss \/ Boot

Spec == Init /\ [][Next]_vars
=============================================================================

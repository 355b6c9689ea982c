---------------------------- MODULE ProfileStore ----------------------------
(***************************************************************************)
(* What one profile slot of app/src/storage.rs promises its callers.       *)
(*                                                                         *)
(* A slot holds one pairing profile, or nothing.  `save` replaces it and   *)
(* `clear_slot` removes it; both are synchronous, so a caller that gets    *)
(* control back sees the new contents.  Power may fail inside either.  The *)
(* specification says what `load` may then find: the old profile, the new  *)
(* one, nothing, or a profile of which only the first fields were          *)
(* programmed before the supply went away.                                 *)
(*                                                                         *)
(* ProfileLog implements this specification with an append-only log in one *)
(* page of NOR flash, and every slot that Pairing uses behaves like it.     *)
(***************************************************************************)

EXTENDS Profiles

-----------------------------------------------------------------------------
VARIABLES
  committed,  \* the profile the slot held when the last operation ended
  op,         \* the operation under way
  on          \* the device has power

vars == <<committed, op, on>>

TypeOK ==
  /\ committed \in Loadable
  /\ op \in Ops
  /\ on \in BOOLEAN

Init ==
  /\ committed = None
  /\ op = NoOp
  /\ on = TRUE

Save ==
  /\ on /\ op = NoOp
  /\ \E p \in Savable(committed) : op' = SaveOf(p)
  /\ UNCHANGED <<committed, on>>

Clear ==
  /\ on /\ op = NoOp
  /\ op' = ClearOp
  /\ UNCHANGED <<committed, on>>

\* The call returns: the slot holds what was saved, or nothing.
Return ==
  /\ on /\ op # NoOp
  /\ committed' = IF op.kind = "save" THEN op.profile ELSE None
  /\ op' = NoOp
  /\ UNCHANGED on

PowerLoss ==
  /\ on /\ on' = FALSE
  /\ committed' \in AfterPowerLoss(committed, op)
  /\ op' = NoOp

\* The next boot, which may start with a save.
Boot ==
  /\ ~on /\ on' = TRUE
  /\ op' = NoOp \/ \E p \in Savable(committed) : op' = SaveOf(p)
  /\ UNCHANGED committed

Next == Save \/ Clear \/ Return \/ PowerLoss \/ Boot

Spec == Init /\ [][Next]_vars
=============================================================================

------------------------------- MODULE Storage -------------------------------
(***************************************************************************)
(* The STORAGE partition of app/src/storage.rs: the page of a profile slot  *)
(* and the page of the active slot.  Every call locks the flash and runs to *)
(* its end, so one call is under way at a time; the supply fails for both   *)
(* pages at once.  clear_all erases the profile pages first and the page of *)
(* the active slot last.                                                    *)
(***************************************************************************)
EXTENDS ProfileLog

CONSTANTS
  ActiveCapacity,   \* ACTIVE_ENTRIES
  Slots             \* 0..MAX_PROFILES - 1

VARIABLES
  entries, activePhase, activeOp, activePos, active,   \* the page of the active slot
  clearing     \* clear_all is at the "profiles", at the "active" slot, or not under way: "no"

ASSUME ActiveAssumption ==
  ActiveCapacity \in Nat \ {0} /\ "ff" \notin Slots /\ "bad" \notin Slots /\ None \notin Slots

Active == INSTANCE ActiveSlotLog
            WITH Capacity <- ActiveCapacity, phase <- activePhase, op <- activeOp,
                 pos <- activePos, committed <- active

profileVars == <<page, phase, op, pos, committed>>
activeVars  == <<entries, activePhase, activeOp, activePos, active>>
storageVars == <<profileVars, activeVars, on, clearing>>

StorageInit == Init /\ Active!Init /\ clearing = "no"

\* No call is under way.
Quiet == phase = "idle" /\ activePhase = "idle"

\* A call on a profile page, and its steps.
ProfileCall == Quiet /\ (Save \/ Clear) /\ UNCHANGED <<activeVars, clearing>>

ProfileSteps ==
  /\ Erase \/ ProgramMagic \/ ProgramId \/ ProgramCnt \/ (clearing = "no" /\ Return)
  /\ UNCHANGED <<activeVars, clearing>>

\* save_active_slot, and its steps.
ActiveCall == Quiet /\ Active!SaveActiveSlot /\ UNCHANGED <<profileVars, clearing>>

ActiveSteps ==
  /\ Active!Step
  /\ clearing' = IF activePhase' = "idle" THEN "no" ELSE clearing
  /\ UNCHANGED <<profileVars, on>>

\* Mutant: the pages are not erased from the beginning of the partition.
ClearAllFromActive ==
  /\ Quiet /\ Active!Clear
  /\ clearing' = "active"
  /\ UNCHANGED profileVars

ClearAll ==
  /\ Quiet /\ Clear
  /\ clearing' = "profiles"
  /\ UNCHANGED activeVars

\* clear_all comes to the page of the active slot.
ClearAllGoesOn ==
  /\ clearing = "profiles" /\ Return
  /\ Active!Clear
  /\ clearing' = "active"

StoragePowerLoss == PowerLoss /\ Active!PowerLoss /\ clearing' = "no"

StorageBoot == Boot /\ Active!Boot /\ UNCHANGED clearing

StorageNext ==
  \/ ProfileCall \/ ProfileSteps \/ ActiveCall \/ ActiveSteps
  \/ ClearAll \/ ClearAllGoesOn
  \/ StoragePowerLoss \/ StorageBoot

StorageSpec == StorageInit /\ [][StorageNext]_storageVars
-----------------------------------------------------------------------------
(* Properties *)

\* The log of words implements the abstract register: save_active_slot and clear_all have
\* their effect, and a power failure leaves the old slot, the new one, or none.
ImplementsRegister == Active!Register!Spec

\* A word of an earlier log never follows the end of the current one.
ActiveNoStaleEntry == Active!NoStaleEntry

\* Programming clears bits and sets none, so each word of a write must be erased when its
\* turn comes: the marker, then the identity and the counter of the same record, and the
\* word of an active slot; after a scan and after an erase, and whatever a torn write, a
\* full page or factory data had left (storage.rs, the tests for all ones in save and in
\* save_active_slot).
ProgramOnlyErased ==
  /\ phase = "magic" => page[pos] = Blank
  /\ phase \in {"id", "cnt"} => Decodable(page[pos]) /\ page[pos].cnt = ErasedCnt
  /\ phase = "id" => page[pos].id = ErasedId
  /\ activePhase = "program" => entries[activePos] = Active!Erased

\* While clear_all still has the active slot to remove, the profiles are gone: wherever the
\* supply fails, no boot finds a pairing that outlived the active slot (storage.rs,
\* clear_all; main.rs, the boot without an active slot takes slot 0).
ProfilesGoFirst == clearing = "active" => committed = None
=============================================================================

---------------------------- MODULE ActiveSlotLog ----------------------------
(***************************************************************************)
(* The page of the active slot in app/src/storage.rs: an append-only log of *)
(* words, each the number of a slot.  load_active_slot returns the last of  *)
(* the words before the first that is no slot; save_active_slot appends     *)
(* after it if that word is erased, and erases the page first otherwise.    *)
(***************************************************************************)
EXTENDS Naturals

CONSTANTS
  Capacity,   \* ACTIVE_ENTRIES: 1024 in the firmware
  Slots,      \* 0..MAX_PROFILES - 1
  None

VARIABLES
  entries,    \* the words of the page
  phase,      \* what the call under way does next
  op,         \* the call under way, as in ActiveSlot
  pos,        \* the word being programmed
  on,         \* the device has power
  committed   \* what load_active_slot returned when the last call ended

Register == INSTANCE ActiveSlot

vars == <<entries, phase, op, pos, on, committed>>

Index == 1..Capacity

\* A word that is no slot: erased, or anything else.
Erased == "ff"
Dirty  == "bad"

IsSlot(word) == word \in Slots

\* Both scans stop after the k-th word.
EndsAt(words, k) ==
  /\ \A i \in 1..k : IsSlot(words[i])
  /\ k < Capacity => ~IsSlot(words[k + 1])

LogEnd(words) == CHOOSE k \in 0..Capacity : EndsAt(words, k)

LoadActiveSlot(words) == IF LogEnd(words) = 0 THEN None ELSE words[LogEnd(words)]

\* Mutant: any word that is no slot is taken for a free one.
EndIsFree(words) == LogEnd(words) < Capacity

\* Only all-one bits are free.
Free(words) == LogEnd(words) < Capacity /\ words[LogEnd(words) + 1] = Erased

\* A bit can only be cleared.
Program(old, v) == IF old = Erased THEN v ELSE Dirty
-----------------------------------------------------------------------------
TypeOK ==
  /\ entries \in [Index -> Slots \cup {Erased, Dirty}]
  /\ phase \in {"idle", "erase", "program", "return"}
  /\ op \in Register!Ops
  /\ pos \in Index
  /\ on \in BOOLEAN
  /\ committed \in Slots \cup {None}

\* A page the firmware never wrote.
Init ==
  /\ entries \in [Index -> {Erased, Dirty}]
  /\ phase = "idle"
  /\ op = Register!NoOp
  /\ pos = 1
  /\ on = TRUE
  /\ committed = None

SaveActiveSlot ==
  /\ on /\ phase = "idle"
  /\ \E s \in Slots : op' = Register!SaveOf(s)
  /\ IF Free(entries)
       THEN phase' = "program" /\ pos' = LogEnd(entries) + 1
       ELSE phase' = "erase" /\ pos' = 1
  /\ UNCHANGED <<entries, on, committed>>

\* The part of clear_all that concerns this page.
Clear ==
  /\ on /\ phase = "idle"
  /\ op' = Register!ClearOp
  /\ phase' = "erase"
  /\ UNCHANGED <<entries, pos, on, committed>>

\* Mutant: the page is erased up to the word that will be written.
EraseFirst ==
  /\ phase = "erase"
  /\ entries' = [entries EXCEPT ![1] = Erased]
  /\ phase' = IF op.kind = "save" THEN "program" ELSE "return"
  /\ UNCHANGED <<op, pos, on, committed>>

Erase ==
  /\ phase = "erase"
  /\ entries' = [i \in Index |-> Erased]
  /\ phase' = IF op.kind = "save" THEN "program" ELSE "return"
  /\ UNCHANGED <<op, pos, on, committed>>

ProgramWord ==
  /\ phase = "program"
  /\ entries' = [entries EXCEPT ![pos] = Program(@, op.slot)]
  /\ phase' = "return"
  /\ UNCHANGED <<op, pos, on, committed>>

Return ==
  /\ phase = "return"
  /\ phase' = "idle"
  /\ op' = Register!NoOp
  /\ committed' = LoadActiveSlot(entries)
  /\ UNCHANGED <<entries, pos, on>>

\* The step that phase announces had no effect yet, or programming was cut short.
Interrupted ==
  {entries} \cup (IF phase = "program" THEN {[entries EXCEPT ![pos] = Dirty]} ELSE {})

PowerLoss ==
  /\ on /\ on' = FALSE
  /\ entries' \in Interrupted
  /\ phase' = "idle"
  /\ op' = Register!NoOp
  /\ committed' = LoadActiveSlot(entries')
  /\ UNCHANGED pos

Boot ==
  /\ ~on /\ on' = TRUE
  /\ UNCHANGED <<entries, phase, op, pos, committed>>

\* A step of the call under way.
Step == Erase \/ ProgramWord \/ Return

Next == SaveActiveSlot \/ Clear \/ Step \/ PowerLoss \/ Boot

Spec == Init /\ [][Next]_vars
-----------------------------------------------------------------------------
\* No slot recorded in an earlier log lies behind the end of the current one
\* (storage.rs, load_active_slot).
NoStaleEntry == \A i, j \in Index : i < j /\ IsSlot(entries[j]) => IsSlot(entries[i])
=============================================================================

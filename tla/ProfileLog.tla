----------------------------- MODULE ProfileLog -----------------------------
(***************************************************************************)
(* One profile page of app/src/storage.rs: an append-only log of records   *)
(* in a page of NOR flash.                                                  *)
(*                                                                         *)
(* `save` appends a record after the last decodable one, and erases the    *)
(* page first when no erased record follows it; `clear_slot` erases the    *)
(* page; `load` returns the last record of the decodable prefix.  The code *)
(* of a call runs without an await, so no other code of the firmware sees   *)
(* its steps, but the supply may fail between any two of them, or in the    *)
(* middle of one.  A record is three groups of words, programmed in this   *)
(* order: the validity marker, the identity (address, channel and key) and *)
(* the counter.                                                            *)
(***************************************************************************)
EXTENDS Naturals

CONSTANTS
  Capacity,    \* SLOTS_PER_PAGE: 128 in the firmware
  Ids,         \* pairings: the address, key and channel of a profile
  Counters,    \* values of aes_counter that a caller saves
  ErasedId, ErasedCnt,  \* a field of which every bit is one
  TornId, TornCnt,      \* a field that was only partly programmed
  None,        \* no profile
  EraseTears   \* whether a power failure may leave a page erased in part

ASSUME CapacityAssumption == Capacity \in Nat \ {0}

ASSUME EraseTearsAssumption == EraseTears \in BOOLEAN

ASSUME NoneIsNoProfile ==
  None \notin [id  : Ids \cup {ErasedId, TornId},
               cnt : Counters \cup {ErasedCnt, TornCnt}]

VARIABLES
  page,       \* the records of the page
  phase,      \* what the call under way does next
  op,         \* the call under way, as in ProfileStore
  pos,        \* the record being programmed
  on,         \* the device has power
  committed   \* what `load` returned when the last call ended (for properties)

Store == INSTANCE ProfileStore

vars == <<page, phase, op, pos, on, committed>>

Index == 1..Capacity

\* A record: its marker word, and its other fields.  The marker is erased ("ff"),
\* MAGIC, or anything else.
Record == [magic : {"ff", "MAGIC", "bad"},
           id    : Ids \cup {ErasedId, TornId},
           cnt   : Counters \cup {ErasedCnt, TornCnt}]

Blank == [magic |-> "ff",  id |-> ErasedId, cnt |-> ErasedCnt]
Dirty == [magic |-> "bad", id |-> TornId,   cnt |-> TornCnt]

\* `decode` looks at the marker only.
Decodable(rec) == rec.magic = "MAGIC"

\* The scan of `load` and of `save` stops after the k-th record of pg.
EndsAt(pg, k) ==
  /\ \A i \in 1..k : Decodable(pg[i])
  /\ k < Capacity => ~Decodable(pg[k + 1])

LogEnd(pg) == CHOOSE k \in 0..Capacity : EndsAt(pg, k)

Profile(rec) == [id |-> rec.id, cnt |-> rec.cnt]

\* Mutant: the scan keeps the first record instead of the last.
LoadFirst(pg) == IF LogEnd(pg) = 0 THEN None ELSE Profile(pg[1])

Load(pg) == IF LogEnd(pg) = 0 THEN None ELSE Profile(pg[LogEnd(pg)])

\* Programming v where the flash holds old: a bit can only be cleared.
Program(old, erased, v, torn) == IF old = erased THEN v ELSE torn
-----------------------------------------------------------------------------
\* Each variable stays in its range: no call writes past the end of the page, and no
\* record is ever in a state that programming and erasing cannot produce.
TypeOK ==
  /\ page \in [Index -> Record]
  /\ phase \in {"idle", "erase", "magic", "id", "cnt", "return"}
  /\ op \in Store!Ops
  /\ pos \in Index
  /\ on \in BOOLEAN
  /\ committed \in Store!Loadable

\* A page the firmware never wrote: erased, or factory data, or a mixture.
Init ==
  /\ page \in [Index -> {Blank, Dirty}]
  /\ phase = "idle"
  /\ op = Store!NoOp
  /\ pos = 1
  /\ on = TRUE
  /\ committed = None

\* `save` scans for the end of the log.  An undecodable record is free only when
\* every byte of it is 0xff; otherwise, or when the page is full, it is erased.
FreeWithoutBlankTest(pg) == LogEnd(pg) < Capacity  \* mutant: the end is free

FullPageIsFree(pg) ==                               \* mutant: a full page is not noticed
  LogEnd(pg) < Capacity => pg[LogEnd(pg) + 1] = Blank

Free(pg) == LogEnd(pg) < Capacity /\ pg[LogEnd(pg) + 1] = Blank

Save ==
  /\ on /\ phase = "idle"
  /\ \E p \in Store!Savable(committed) : op' = Store!SaveOf(p)
  /\ IF Free(page)
       THEN phase' = "magic" /\ pos' = LogEnd(page) + 1
       ELSE phase' = "erase" /\ pos' = 1
  /\ UNCHANGED <<page, on, committed>>

Clear ==
  /\ on /\ phase = "idle"
  /\ op' = Store!ClearOp
  /\ phase' = "erase"
  /\ UNCHANGED <<page, pos, on, committed>>

\* Mutant: only the first record of the page is erased.
EraseOneRecord ==
  /\ phase = "erase"
  /\ page' = [page EXCEPT ![1] = Blank]
  /\ phase' = IF op.kind = "save" THEN "magic" ELSE "return"
  /\ UNCHANGED <<op, pos, on, committed>>

Erase ==
  /\ phase = "erase"
  /\ page' = [i \in Index |-> Blank]
  /\ phase' = IF op.kind = "save" THEN "magic" ELSE "return"
  /\ UNCHANGED <<op, pos, on, committed>>

ProgramMagic ==
  /\ phase = "magic"
  /\ page' = [page EXCEPT ![pos].magic = Program(@, "ff", "MAGIC", "bad")]
  /\ phase' = "id"
  /\ UNCHANGED <<op, pos, on, committed>>

ProgramId ==
  /\ phase = "id"
  /\ page' = [page EXCEPT ![pos].id = Program(@, ErasedId, op.profile.id, TornId)]
  /\ phase' = "cnt"
  /\ UNCHANGED <<op, pos, on, committed>>

ProgramCnt ==
  /\ phase = "cnt"
  /\ page' = [page EXCEPT ![pos].cnt = Program(@, ErasedCnt, op.profile.cnt, TornCnt)]
  /\ phase' = "return"
  /\ UNCHANGED <<op, pos, on, committed>>

Return ==
  /\ phase = "return"
  /\ phase' = "idle"
  /\ op' = Store!NoOp
  /\ committed' = Load(page)
  /\ UNCHANGED <<page, pos, on>>

\* What the page may hold when the supply fails in the step that phase announces:
\* the step had no effect yet, or it was cut short.
Interrupted ==
  {page} \cup
  CASE phase = "erase" ->
         IF EraseTears
           THEN { [i \in Index |-> CASE bits[i] = "old"  -> page[i]
                                       [] bits[i] = "ones" -> Blank
                                       [] OTHER            -> Dirty] :
                    bits \in [Index -> {"old", "ones", "mixed"}] }
           ELSE {}
    [] phase = "magic" -> { [page EXCEPT ![pos].magic = "bad"] }
    [] phase = "id"    -> { [page EXCEPT ![pos].id = TornId] }
    [] phase = "cnt"   -> { [page EXCEPT ![pos].cnt = TornCnt] }
    [] OTHER           -> {}

\* RAM is lost; the next boot loads what the page holds.
PowerLoss ==
  /\ on /\ on' = FALSE
  /\ page' \in Interrupted
  /\ phase' = "idle"
  /\ op' = Store!NoOp
  /\ committed' = Load(page')
  /\ UNCHANGED pos

Boot ==
  /\ ~on /\ on' = TRUE
  /\ UNCHANGED <<page, phase, op, pos, committed>>

Next ==
  \/ Save \/ Clear
  \/ Erase \/ ProgramMagic \/ ProgramId \/ ProgramCnt
  \/ Return
  \/ PowerLoss \/ Boot

Spec == Init /\ [][Next]_vars
-----------------------------------------------------------------------------
(* Properties *)

\* The decodable records of a page come first: no scan ever meets a record of an
\* earlier log behind the end of the current one (storage.rs, load and save).
NoStaleTail ==
  \A i, j \in Index : i < j /\ Decodable(page[j]) => Decodable(page[i])

\* The page implements one slot of the abstract store: each call has the effect the
\* store promises, and a power failure one of the effects it lists.
ImplementsStore == Store!Spec
=============================================================================

------------------------------ MODULE Profiles ------------------------------
(***************************************************************************)
(* The pairing profiles of app/src/storage.rs, the calls that change a slot *)
(* of the store, and what such a call leaves behind when the supply fails   *)
(* before it returns.                                                       *)
(***************************************************************************)

CONSTANTS
  Ids,        \* pairings: the address, key and channel of a profile
  Counters,   \* values of aes_counter that a caller saves
  ErasedId,   \* what the identity bytes of a record read as when erased
  ErasedCnt,  \* what the counter word reads as when erased: 0xFFFFFFFF
  TornId,     \* identity bytes of which only a part was programmed
  TornCnt,    \* a counter word that was being programmed
  None        \* no profile

AllProfiles == [id  : Ids \cup {ErasedId, TornId},
                cnt : Counters \cup {ErasedCnt, TornCnt}]

Loadable == AllProfiles \cup {None}

\* Profiles that a `save` of p can leave behind when the supply fails after the
\* validity marker was programmed: the fields of a record are programmed in order.
Torn(p) ==
  { [id |-> ErasedId, cnt |-> ErasedCnt],
    [id |-> TornId,   cnt |-> ErasedCnt],
    [id |-> p.id,     cnt |-> ErasedCnt],
    [id |-> p.id,     cnt |-> TornCnt] }

\* What a caller whose slot holds c may save: a new pairing, or the one it loaded,
\* with any counter.
Savable(c) == [id  : Ids \cup (IF c = None THEN {} ELSE {c.id}),
               cnt : Counters \cup {ErasedCnt, TornCnt}]

NoOp      == [kind |-> "none"]
SaveOf(p) == [kind |-> "save", profile |-> p]
ClearOp   == [kind |-> "clear"]

Ops == {NoOp, ClearOp} \cup { SaveOf(p) : p \in AllProfiles }

\* What the slot may hold when the supply fails inside operation o, started on
\* contents c.
AfterPowerLoss(c, o) ==
  CASE o.kind = "none"  -> {c}
    [] o.kind = "clear" -> {c, None}
    [] o.kind = "save"  -> {c, o.profile, None} \cup Torn(o.profile)

=============================================================================

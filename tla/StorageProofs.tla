---------------------------- MODULE StorageProofs ----------------------------
(***************************************************************************)
(* Proofs about the STORAGE partition, for every size of the two pages and   *)
(* every set of profiles and slots, when an interrupted erase leaves a page  *)
(* as it was or erased: the page of a profile and the page of the active     *)
(* slot each implement their abstract store, and both pages together let a   *)
(* boot find no pairing that clear_all was removing.                         *)
(***************************************************************************)
EXTENDS Storage, TLAPS
-----------------------------------------------------------------------------
(* The page of a profile *)

\* The decodable records of pg are the first k.
Prefix(pg, k) == \A i \in Index : Decodable(pg[i]) <=> i <= k

LEMMA ScanOfPrefix ==
  ASSUME NEW pg, NEW k \in 0..Capacity, Prefix(pg, k)
  PROVE  LogEnd(pg) = k
<1>1. EndsAt(pg, k)
  BY CapacityAssumption DEF Prefix, EndsAt, Index
<1>2. ASSUME NEW j \in 0..Capacity, EndsAt(pg, j)
      PROVE  j = k
  <2>1. ~(j < k)
    BY <1>2, CapacityAssumption DEF Prefix, EndsAt, Index
  <2>2. ~(k < j)
    BY <1>2, CapacityAssumption DEF Prefix, EndsAt, Index
  <2> QED
    BY <2>1, <2>2, CapacityAssumption
<1>3. LogEnd(pg) \in 0..Capacity /\ EndsAt(pg, LogEnd(pg))
  BY <1>1 DEF LogEnd
<1> QED
  BY <1>2, <1>3

LEMMA LoadOfPrefix ==
  ASSUME NEW pg, NEW k \in 0..Capacity, Prefix(pg, k)
  PROVE  Load(pg) = IF k = 0 THEN None ELSE Profile(pg[k])
BY ScanOfPrefix DEF Load

LEMMA OpKinds ==
  ASSUME op \in Store!Ops
  PROVE  /\ op.kind \in {"none", "clear", "save"}
         /\ op.kind = "none" <=> op = Store!NoOp
         /\ op.kind = "clear" <=> op = Store!ClearOp
         /\ op.kind = "save" => /\ op.profile \in Store!AllProfiles
                                /\ op = Store!SaveOf(op.profile)
BY DEF Store!Ops, Store!NoOp, Store!ClearOp, Store!SaveOf

-----------------------------------------------------------------------------
\* What holds of the page while a call is in each of its phases.
PageIsPrefix == \E k \in 0..Capacity : Prefix(page, k)

OnInCalls == phase # "idle" => on

IdlePage ==
  phase = "idle" => op = Store!NoOp /\ Load(page) = committed

ErasePage ==
  phase = "erase" =>
    /\ op # Store!NoOp
    /\ op.kind = "save" => pos = 1
    /\ Load(page) = committed

MagicPage ==
  phase = "magic" =>
    /\ op.kind = "save"
    /\ Prefix(page, pos - 1)
    /\ page[pos] = Blank
    /\ Load(page) \in {committed, None}

IdPage ==
  phase = "id" =>
    /\ op.kind = "save"
    /\ Prefix(page, pos)
    /\ page[pos].id = ErasedId /\ page[pos].cnt = ErasedCnt

CntPage ==
  phase = "cnt" =>
    /\ op.kind = "save"
    /\ Prefix(page, pos)
    /\ page[pos].id = op.profile.id /\ page[pos].cnt = ErasedCnt

ReturnPage ==
  phase = "return" =>
    /\ op # Store!NoOp
    /\ Load(page) = IF op.kind = "save" THEN op.profile ELSE None

\* The inductive invariant.
IInv ==
  /\ TypeOK
  /\ PageIsPrefix /\ OnInCalls
  /\ IdlePage /\ ErasePage /\ MagicPage /\ IdPage /\ CntPage /\ ReturnPage

LEMMA BlankPage ==
  Prefix([i \in Index |-> Blank], 0) /\ Load([i \in Index |-> Blank]) = None
<1>1. Prefix([i \in Index |-> Blank], 0)
  BY DEF Prefix, Index, Blank, Decodable
<1> QED
  BY <1>1, LoadOfPrefix, CapacityAssumption

LEMMA InitIInv == Init => IInv
<1> SUFFICES ASSUME Init PROVE IInv
  OBVIOUS
<1>1. Prefix(page, 0)
  BY DEF Init, Prefix, Index, Blank, Dirty, Decodable
<1>2. Load(page) = None
  BY <1>1, LoadOfPrefix, CapacityAssumption
<1>3. TypeOK
  BY CapacityAssumption DEF Init, TypeOK, Index, Record, Blank, Dirty,
     Store!Ops, Store!Loadable
<1> QED
  BY <1>1, <1>2, <1>3, CapacityAssumption
  DEF Init, IInv, PageIsPrefix, OnInCalls, IdlePage, ErasePage, MagicPage, IdPage, CntPage,
      ReturnPage

LEMMA SaveIInv == IInv /\ Save => IInv'
<1> SUFFICES ASSUME IInv, Save PROVE IInv'
  OBVIOUS
<1> USE CapacityAssumption
<1>1. PICK k \in 0..Capacity : Prefix(page, k)
  BY DEF IInv, PageIsPrefix
<1>2. LogEnd(page) = k
  BY <1>1, ScanOfPrefix
<1>3. PICK p \in Store!Savable(committed) : op' = Store!SaveOf(p)
  BY DEF Save
<1>4. p \in Store!AllProfiles
  BY NoneIsNoProfile DEF IInv, TypeOK, Store!Savable, Store!AllProfiles, Store!Loadable
<1>5. op' \in Store!Ops /\ op'.kind = "save" /\ op' # Store!NoOp
  BY <1>3, <1>4 DEF Store!Ops, Store!SaveOf, Store!NoOp
<1>6. pos' \in Index /\ phase' \in {"magic", "erase"} /\ UNCHANGED <<page, on, committed>>
  BY <1>2 DEF Save, Free, Index
<1>7. TypeOK'
  BY <1>5, <1>6 DEF IInv, TypeOK
<1>8. Load(page) = committed
  BY DEF IInv, IdlePage, Save
<1>9. MagicPage'
  BY <1>1, <1>2, <1>5, <1>6, <1>8 DEF Save, Free, MagicPage
<1>10. ErasePage'
  BY <1>5, <1>6, <1>8 DEF Save, ErasePage
<1>11. OnInCalls'
  BY DEF OnInCalls, Save
<1> QED
  BY <1>1, <1>6, <1>7, <1>9, <1>10, <1>11
  DEF IInv, PageIsPrefix, IdlePage, IdPage, CntPage, ReturnPage

LEMMA ClearIInv == IInv /\ Clear => IInv'
<1> SUFFICES ASSUME IInv, Clear PROVE IInv'
  OBVIOUS
<1>1. op' \in Store!Ops /\ op' # Store!NoOp /\ op'.kind # "save"
  BY DEF Clear, Store!Ops, Store!ClearOp, Store!NoOp
<1>2. TypeOK'
  BY <1>1 DEF IInv, TypeOK, Clear
<1> QED
  BY <1>1, <1>2
  DEF IInv, Clear, PageIsPrefix, OnInCalls, IdlePage, ErasePage, MagicPage, IdPage, CntPage,
      ReturnPage

LEMMA EraseIInv == IInv /\ Erase => IInv'
<1> SUFFICES ASSUME IInv, Erase PROVE IInv'
  OBVIOUS
<1> USE CapacityAssumption
<1>1. Prefix(page', 0) /\ Load(page') = None /\ page'[pos] = Blank
  BY BlankPage DEF Erase, IInv, TypeOK
<1>2. TypeOK'
  BY DEF IInv, TypeOK, Erase, Record, Blank
<1>3. op # Store!NoOp /\ (op.kind = "save" => pos = 1)
  BY DEF IInv, ErasePage, Erase
<1>4. MagicPage'
  BY <1>1, <1>3 DEF MagicPage, Erase
<1>5. ReturnPage'
  BY <1>1, <1>3 DEF ReturnPage, Erase
<1>6. PageIsPrefix'
  BY <1>1 DEF PageIsPrefix
<1> QED
  BY <1>2, <1>4, <1>5, <1>6
  DEF IInv, Erase, OnInCalls, IdlePage, ErasePage, IdPage, CntPage

LEMMA ProgramMagicIInv == IInv /\ ProgramMagic => IInv'
<1> SUFFICES ASSUME IInv, ProgramMagic PROVE IInv'
  OBVIOUS
<1> USE CapacityAssumption
<1>1. page' = [page EXCEPT ![pos].magic = "MAGIC"]
  <2>1. page[pos].magic = "ff"
    BY DEF ProgramMagic, IInv, MagicPage, Blank
  <2>2. Program(page[pos].magic, "ff", "MAGIC", "bad") = "MAGIC"
    BY <2>1 DEF Program
  <2> QED
    BY <2>2 DEF ProgramMagic
<1>2. TypeOK'
  BY <1>1 DEF IInv, TypeOK, ProgramMagic, Record
<1>3. Prefix(page', pos)
  BY <1>1 DEF ProgramMagic, IInv, TypeOK, MagicPage, Prefix, Decodable, Index, Record
<1>4. page'[pos].id = ErasedId /\ page'[pos].cnt = ErasedCnt
  BY <1>1 DEF ProgramMagic, IInv, TypeOK, MagicPage, Blank, Record
<1>5. IdPage'
  BY <1>3, <1>4 DEF ProgramMagic, IInv, IdPage, MagicPage
<1>6. PageIsPrefix'
  BY <1>3 DEF ProgramMagic, IInv, TypeOK, PageIsPrefix, Index
<1> QED
  BY <1>2, <1>5, <1>6
  DEF ProgramMagic, IInv, OnInCalls, IdlePage, ErasePage, MagicPage, CntPage, ReturnPage

LEMMA ProgramIdIInv == IInv /\ ProgramId => IInv'
<1> SUFFICES ASSUME IInv, ProgramId PROVE IInv'
  OBVIOUS
<1> USE CapacityAssumption
<1>1. op.profile \in Store!AllProfiles
  BY OpKinds DEF IInv, TypeOK, ProgramId, IdPage
<1>2. page' = [page EXCEPT ![pos].id = op.profile.id]
  BY DEF ProgramId, Program, IInv, IdPage
<1>3. TypeOK'
  BY <1>1, <1>2 DEF IInv, TypeOK, ProgramId, Record, Store!AllProfiles
<1>4. Prefix(page', pos)
  BY <1>2 DEF ProgramId, IInv, TypeOK, IdPage, Prefix, Decodable, Record
<1>5. page'[pos].id = op.profile.id /\ page'[pos].cnt = ErasedCnt
  BY <1>2 DEF ProgramId, IInv, TypeOK, IdPage, Record
<1>6. CntPage'
  BY <1>4, <1>5 DEF ProgramId, IInv, IdPage, CntPage
<1>7. PageIsPrefix'
  BY <1>4 DEF ProgramId, IInv, TypeOK, PageIsPrefix, Index
<1> QED
  BY <1>3, <1>6, <1>7
  DEF ProgramId, IInv, OnInCalls, IdlePage, ErasePage, MagicPage, IdPage, ReturnPage

LEMMA ProgramCntIInv == IInv /\ ProgramCnt => IInv'
<1> SUFFICES ASSUME IInv, ProgramCnt PROVE IInv'
  OBVIOUS
<1> USE CapacityAssumption
<1>1. op.profile \in Store!AllProfiles /\ op # Store!NoOp
  BY OpKinds DEF IInv, TypeOK, ProgramCnt, CntPage
<1>2. page' = [page EXCEPT ![pos].cnt = op.profile.cnt]
  BY DEF ProgramCnt, Program, IInv, CntPage
<1>3. TypeOK'
  BY <1>1, <1>2 DEF IInv, TypeOK, ProgramCnt, Record, Store!AllProfiles
<1>4. Prefix(page', pos)
  BY <1>2 DEF ProgramCnt, IInv, TypeOK, CntPage, Prefix, Decodable, Record
<1>5. Profile(page'[pos]) = op.profile
  BY <1>1, <1>2 DEF ProgramCnt, IInv, TypeOK, CntPage, Record, Profile, Store!AllProfiles
<1>6. Load(page') = op.profile
  BY <1>4, <1>5, LoadOfPrefix DEF IInv, TypeOK, Index
<1>7. ReturnPage'
  BY <1>1, <1>6 DEF ProgramCnt, IInv, CntPage, ReturnPage
<1>8. PageIsPrefix'
  BY <1>4 DEF ProgramCnt, IInv, TypeOK, PageIsPrefix, Index
<1> QED
  BY <1>3, <1>7, <1>8
  DEF ProgramCnt, IInv, OnInCalls, IdlePage, ErasePage, MagicPage, IdPage, CntPage

LEMMA ReturnIInv == IInv /\ Return => IInv'
<1> SUFFICES ASSUME IInv, Return PROVE IInv'
  OBVIOUS
<1>1. Load(page) \in Store!Loadable
  BY OpKinds DEF IInv, TypeOK, Return, ReturnPage, Store!Loadable
<1>2. TypeOK'
  BY <1>1 DEF IInv, TypeOK, Return, Store!Ops
<1> QED
  BY <1>2
  DEF Return, IInv, PageIsPrefix, OnInCalls, IdlePage, ErasePage, MagicPage, IdPage, CntPage,
      ReturnPage

\* What a power failure leaves in the page, and what the next boot loads from it.
LEMMA AfterPowerLoss ==
  ASSUME ~EraseTears, IInv, PowerLoss
  PROVE  /\ page' \in [Index -> Record]
         /\ PageIsPrefix'
         /\ Load(page') \in Store!AfterPowerLoss(committed, op)
<1> USE CapacityAssumption
<1>1. PICK k \in 0..Capacity : Prefix(page, k)
  BY DEF IInv, PageIsPrefix
<1>2. CASE page' = page
  <2>1. page' \in [Index -> Record] /\ PageIsPrefix'
    BY <1>2 DEF IInv, TypeOK, PageIsPrefix
  <2>2. Load(page) \in Store!AfterPowerLoss(committed, op)
    <3> USE OpKinds DEF IInv, TypeOK, Store!AfterPowerLoss
    <3>1. CASE phase \in {"idle", "erase"}
      BY <3>1 DEF IdlePage, ErasePage
    <3>2. CASE phase = "magic"
      BY <3>2 DEF MagicPage
    <3>3. CASE phase = "id"
      <4>1. Load(page) = [id |-> ErasedId, cnt |-> ErasedCnt]
        BY <3>3, LoadOfPrefix DEF IdPage, Index, Profile
      <4> QED
        BY <3>3, <4>1 DEF IdPage, Store!Torn
    <3>4. CASE phase = "cnt"
      <4>1. Load(page) = [id |-> op.profile.id, cnt |-> ErasedCnt]
        BY <3>4, LoadOfPrefix DEF CntPage, Index, Profile
      <4> QED
        BY <3>4, <4>1 DEF CntPage, Store!Torn
    <3>5. CASE phase = "return"
      BY <3>5 DEF ReturnPage
    <3> QED
      BY <3>1, <3>2, <3>3, <3>4, <3>5
  <2> QED
    BY <1>2, <2>1, <2>2
<1>3. CASE phase = "magic" /\ page' = [page EXCEPT ![pos].magic = "bad"]
  <2>1. page' \in [Index -> Record]
    BY <1>3 DEF IInv, TypeOK, Record
  <2>2. Prefix(page', pos - 1)
    BY <1>3 DEF IInv, TypeOK, MagicPage, Prefix, Decodable, Index, Record
  <2>3. pos - 1 \in 0..Capacity
    BY DEF IInv, TypeOK, Index
  <2>4. Load(page') = Load(page)
    <3>1. pos - 1 # 0 => page'[pos - 1] = page[pos - 1]
      BY <1>3 DEF IInv, TypeOK, Index
    <3> QED
      BY <1>3, <2>2, <2>3, <3>1, LoadOfPrefix DEF IInv, MagicPage
  <2>5. Load(page) \in Store!AfterPowerLoss(committed, op)
    BY <1>3, OpKinds DEF IInv, TypeOK, MagicPage, Store!AfterPowerLoss
  <2> QED
    BY <2>1, <2>2, <2>3, <2>4, <2>5 DEF PageIsPrefix
<1>4. CASE phase = "id" /\ page' = [page EXCEPT ![pos].id = TornId]
  <2>1. page' \in [Index -> Record]
    BY <1>4 DEF IInv, TypeOK, Record
  <2>2. Prefix(page', pos)
    BY <1>4 DEF IInv, TypeOK, IdPage, Prefix, Decodable, Record
  <2>3. Profile(page'[pos]) = [id |-> TornId, cnt |-> ErasedCnt]
    BY <1>4 DEF IInv, TypeOK, IdPage, Record, Profile
  <2>4. Load(page') = [id |-> TornId, cnt |-> ErasedCnt]
    BY <2>2, <2>3, LoadOfPrefix DEF IInv, TypeOK, Index
  <2> QED
    BY <1>4, <2>1, <2>2, <2>4, OpKinds
    DEF IInv, TypeOK, IdPage, PageIsPrefix, Index, Store!AfterPowerLoss, Store!Torn
<1>5. CASE phase = "cnt" /\ page' = [page EXCEPT ![pos].cnt = TornCnt]
  <2>1. page' \in [Index -> Record]
    BY <1>5 DEF IInv, TypeOK, Record
  <2>2. Prefix(page', pos)
    BY <1>5 DEF IInv, TypeOK, CntPage, Prefix, Decodable, Record
  <2>3. Profile(page'[pos]) = [id |-> op.profile.id, cnt |-> TornCnt]
    BY <1>5 DEF IInv, TypeOK, CntPage, Record, Profile
  <2>4. Load(page') = [id |-> op.profile.id, cnt |-> TornCnt]
    BY <2>2, <2>3, LoadOfPrefix DEF IInv, TypeOK, Index
  <2> QED
    BY <1>5, <2>1, <2>2, <2>4, OpKinds
    DEF IInv, TypeOK, CntPage, PageIsPrefix, Index, Store!AfterPowerLoss, Store!Torn
<1> QED
  BY <1>2, <1>3, <1>4, <1>5 DEF PowerLoss, Interrupted, IInv, TypeOK

LEMMA PowerLossIInv == ~EraseTears /\ IInv /\ PowerLoss => IInv'
<1> SUFFICES ASSUME ~EraseTears, IInv, PowerLoss PROVE IInv'
  OBVIOUS
<1>1. committed' \in Store!Loadable
  <2>1. committed' \in Store!AfterPowerLoss(committed, op)
    BY AfterPowerLoss DEF PowerLoss
  <2> QED
    BY <2>1, OpKinds
    DEF IInv, TypeOK, Store!AfterPowerLoss, Store!Torn, Store!Loadable, Store!AllProfiles
<1>2. TypeOK'
  BY <1>1, AfterPowerLoss DEF IInv, TypeOK, PowerLoss, Store!Ops
<1>3. PageIsPrefix'
  BY AfterPowerLoss
<1> QED
  BY <1>2, <1>3
  DEF PowerLoss, IInv, OnInCalls, IdlePage, ErasePage, MagicPage, IdPage, CntPage, ReturnPage

LEMMA BootIInv == IInv /\ Boot => IInv'
BY DEF Boot, IInv, TypeOK, PageIsPrefix, OnInCalls, IdlePage, ErasePage, MagicPage, IdPage,
       CntPage, ReturnPage

LEMMA NextIInv == ~EraseTears /\ IInv /\ [Next]_vars => IInv'
<1> SUFFICES ASSUME ~EraseTears, IInv, [Next]_vars PROVE IInv'
  OBVIOUS
<1>1. CASE UNCHANGED vars
  BY <1>1
  DEF vars, IInv, TypeOK, PageIsPrefix, OnInCalls, IdlePage, ErasePage, MagicPage, IdPage,
      CntPage, ReturnPage
<1> QED
  BY <1>1, SaveIInv, ClearIInv, EraseIInv, ProgramMagicIInv, ProgramIdIInv,
     ProgramCntIInv, ReturnIInv, PowerLossIInv, BootIInv DEF Next

LEMMA AlwaysIInv == ASSUME ~EraseTears PROVE Spec => []IInv
<1>1. Init => IInv
  BY InitIInv
<1>2. IInv /\ [Next]_vars => IInv'
  BY NextIInv
<1> QED
  BY <1>1, <1>2, PTL DEF Spec

-----------------------------------------------------------------------------
\* The variables keep their types.
THEOREM TypeCorrect == ASSUME ~EraseTears PROVE Spec => []TypeOK
<1>1. IInv => TypeOK
  BY DEF IInv
<1> QED
  BY <1>1, AlwaysIInv, PTL

\* No decodable record ever lies behind the end of the log (storage.rs, load).
THEOREM StaleTailNever == ASSUME ~EraseTears PROVE Spec => []NoStaleTail
<1>1. IInv => NoStaleTail
  BY CapacityAssumption DEF IInv, PageIsPrefix, Prefix, NoStaleTail, Index
<1> QED
  BY <1>1, AlwaysIInv, PTL

\* A step of the log is a step of the abstract store, or changes nothing it sees.
LEMMA StepRefines ==
  ASSUME ~EraseTears, IInv, [Next]_vars
  PROVE  [Store!Next]_(Store!vars)
<1> USE DEF Store!vars
<1>1. CASE Save
  BY <1>1 DEF Save, IInv, IdlePage, Store!Next, Store!Save
<1>2. CASE Clear
  BY <1>2 DEF Clear, IInv, IdlePage, Store!Next, Store!Clear
<1>3. CASE Erase \/ ProgramMagic \/ ProgramId \/ ProgramCnt
  BY <1>3 DEF Erase, ProgramMagic, ProgramId, ProgramCnt
<1>4. CASE Return
  BY <1>4 DEF Return, IInv, OnInCalls, ReturnPage, Store!Next, Store!Return
<1>5. CASE PowerLoss
  <2>1. committed' \in Store!AfterPowerLoss(committed, op)
    BY <1>5, AfterPowerLoss DEF PowerLoss
  <2> QED
    BY <1>5, <2>1 DEF PowerLoss, Store!Next, Store!PowerLoss
<1>6. CASE Boot
  BY <1>6 DEF Boot, IInv, OnInCalls, IdlePage, Store!Next, Store!Boot
<1>7. CASE UNCHANGED vars
  BY <1>7 DEF vars
<1> QED
  BY <1>1, <1>2, <1>3, <1>4, <1>5, <1>6, <1>7 DEF Next

\* The page implements a slot of the abstract store: every call has its effect, and
\* a power failure inside one has an effect the store lists (storage.rs, all of it).
THEOREM LogImplementsStore == ASSUME ~EraseTears PROVE Spec => ImplementsStore
<1>1. Init => Store!Init
  BY DEF Init, Store!Init
<1>2. IInv /\ [Next]_vars => [Store!Next]_(Store!vars)
  BY StepRefines
<1> QED
  BY <1>1, <1>2, AlwaysIInv, PTL DEF Spec, ImplementsStore, Store!Spec
-----------------------------------------------------------------------------
(* The partition *)

\* What the partition does is a behaviour of each of its pages.
LEMMA PageSteps == [StorageNext]_storageVars => [Next]_vars
BY DEF StorageNext, storageVars, profileVars, ProfileCall, ProfileSteps, ActiveCall,
       ActiveSteps, ClearAll, ClearAllGoesOn, StoragePowerLoss, StorageBoot, Next, vars,
       Active!SaveActiveSlot, Active!Step, Active!Erase, Active!ProgramWord, Active!Return

LEMMA ActivePageSteps == [StorageNext]_storageVars => [Active!Next]_(Active!vars)
BY DEF StorageNext, storageVars, activeVars, ProfileCall, ProfileSteps, ActiveCall,
       ActiveSteps, ClearAll, ClearAllGoesOn, StoragePowerLoss, StorageBoot,
       Active!Next, Active!vars,
       Save, Clear, Erase, ProgramMagic, ProgramId, ProgramCnt, Return

LEMMA StorageSpecs == StorageSpec => Spec
<1>1. StorageInit => Init BY DEF StorageInit
<1>2. QED BY <1>1, PageSteps, PTL DEF StorageSpec, Spec

\* The profile page implements the abstract slot in the partition as it does alone.
THEOREM StorageImplementsStore == ASSUME ~EraseTears PROVE StorageSpec => ImplementsStore
BY StorageSpecs, LogImplementsStore
-----------------------------------------------------------------------------
(* The page of the active slot *)

\* The slots among the words are the first k.
SlotPrefix(words, k) == \A i \in Active!Index : Active!IsSlot(words[i]) <=> i <= k

LEMMA SlotScan ==
  ASSUME NEW words, NEW k \in 0..ActiveCapacity, SlotPrefix(words, k)
  PROVE  /\ Active!LogEnd(words) = k
         /\ Active!LoadActiveSlot(words) = IF k = 0 THEN None ELSE words[k]
<1>1. Active!EndsAt(words, k)
  BY ActiveAssumption DEF SlotPrefix, Active!EndsAt, Active!Index
<1>2. ASSUME NEW j \in 0..ActiveCapacity, Active!EndsAt(words, j) PROVE j = k
  <2>1. ~(j < k) BY <1>2, ActiveAssumption DEF SlotPrefix, Active!EndsAt, Active!Index
  <2>2. ~(k < j) BY <1>2, ActiveAssumption DEF SlotPrefix, Active!EndsAt, Active!Index
  <2>3. QED BY <2>1, <2>2, ActiveAssumption
<1>3. Active!LogEnd(words) \in 0..ActiveCapacity /\ Active!EndsAt(words, Active!LogEnd(words))
  BY <1>1 DEF Active!LogEnd
<1>4. QED BY <1>2, <1>3 DEF Active!LoadActiveSlot

LEMMA ErasedWords ==
  /\ SlotPrefix([i \in Active!Index |-> Active!Erased], 0)
  /\ Active!LoadActiveSlot([i \in Active!Index |-> Active!Erased]) = None
<1>1. SlotPrefix([i \in Active!Index |-> Active!Erased], 0)
  BY ActiveAssumption DEF SlotPrefix, Active!Index, Active!Erased, Active!IsSlot
<1>2. QED BY <1>1, SlotScan, ActiveAssumption

\* What each phase of a call finds.
ActiveIdle ==
  activePhase = "idle" =>
    activeOp = Active!Register!NoOp /\ Active!LoadActiveSlot(entries) = active

ActiveErase ==
  activePhase = "erase" =>
    /\ activeOp # Active!Register!NoOp
    /\ activeOp.kind = "save" => activePos = 1
    /\ Active!LoadActiveSlot(entries) = active

ActiveProgram ==
  activePhase = "program" =>
    /\ activeOp.kind = "save"
    /\ SlotPrefix(entries, activePos - 1)
    /\ entries[activePos] = Active!Erased
    /\ Active!LoadActiveSlot(entries) \in {active, None}

ActiveReturn ==
  activePhase = "return" =>
    /\ activeOp # Active!Register!NoOp
    /\ Active!LoadActiveSlot(entries) = Active!Register!Result(activeOp)

ActiveInv ==
  /\ Active!TypeOK
  /\ \E k \in 0..ActiveCapacity : SlotPrefix(entries, k)
  /\ activePhase # "idle" => on
  /\ ActiveIdle /\ ActiveErase /\ ActiveProgram /\ ActiveReturn

LEMMA RegisterOps ==
  ASSUME activeOp \in Active!Register!Ops
  PROVE  /\ activeOp.kind \in {"none", "clear", "save"}
         /\ activeOp.kind = "none" <=> activeOp = Active!Register!NoOp
         /\ activeOp.kind = "save" => activeOp.slot \in Slots
         /\ Active!Register!Result(activeOp) \in Slots \cup {None}
         /\ activeOp.kind = "save" => Active!Register!Result(activeOp) = activeOp.slot
         /\ activeOp.kind # "save" => Active!Register!Result(activeOp) = None
BY DEF Active!Register!Ops, Active!Register!NoOp, Active!Register!ClearOp,
       Active!Register!SaveOf, Active!Register!Result

LEMMA InitActive == Active!Init => ActiveInv
<1> SUFFICES ASSUME Active!Init PROVE ActiveInv OBVIOUS
<1>1. SlotPrefix(entries, 0)
  <2>1. ASSUME NEW i \in Active!Index PROVE ~Active!IsSlot(entries[i]) /\ ~(i <= 0)
    <3>1. entries[i] \in {Active!Erased, Active!Dirty} BY DEF Active!Init
    <3>2. QED
      BY <3>1, ActiveAssumption
      DEF Active!IsSlot, Active!Erased, Active!Dirty, Active!Index
  <2>2. QED BY <2>1 DEF SlotPrefix
<1>2. Active!LoadActiveSlot(entries) = None BY <1>1, SlotScan, ActiveAssumption
<1>3. Active!TypeOK
  BY ActiveAssumption DEF Active!Init, Active!TypeOK, Active!Index, Active!Register!Ops
<1>4. QED
  BY <1>1, <1>2, <1>3, ActiveAssumption
  DEF Active!Init, ActiveInv, ActiveIdle, ActiveErase, ActiveProgram, ActiveReturn

LEMMA SaveActive == ActiveInv /\ Active!SaveActiveSlot => ActiveInv'
<1> SUFFICES ASSUME ActiveInv, Active!SaveActiveSlot PROVE ActiveInv' OBVIOUS
<1> USE ActiveAssumption
<1>1. PICK k \in 0..ActiveCapacity : SlotPrefix(entries, k) BY DEF ActiveInv
<1>2. Active!LogEnd(entries) = k BY <1>1, SlotScan
<1>3. PICK s \in Slots : activeOp' = Active!Register!SaveOf(s) BY DEF Active!SaveActiveSlot
<1>4. /\ activeOp' \in Active!Register!Ops /\ activeOp'.kind = "save"
      /\ activeOp' # Active!Register!NoOp
  BY <1>3 DEF Active!Register!Ops, Active!Register!SaveOf, Active!Register!NoOp
<1>5. /\ activePos' \in Active!Index /\ activePhase' \in {"program", "erase"}
      /\ entries' = entries /\ on' = on /\ active' = active
  BY <1>2 DEF Active!SaveActiveSlot, Active!Free, Active!Index
<1>6. Active!TypeOK' BY <1>4, <1>5 DEF ActiveInv, Active!TypeOK
<1>7. Active!LoadActiveSlot(entries) = active
  BY DEF ActiveInv, ActiveIdle, Active!SaveActiveSlot
<1>8. ActiveProgram'
  BY <1>1, <1>2, <1>4, <1>5, <1>7 DEF Active!SaveActiveSlot, Active!Free, ActiveProgram
<1>9. ActiveErase' BY <1>4, <1>5, <1>7 DEF Active!SaveActiveSlot, ActiveErase
<1>10. QED
  BY <1>1, <1>5, <1>6, <1>8, <1>9 DEF ActiveInv, ActiveIdle, ActiveReturn, Active!SaveActiveSlot

LEMMA ClearActive == ActiveInv /\ Active!Clear => ActiveInv'
<1> SUFFICES ASSUME ActiveInv, Active!Clear PROVE ActiveInv' OBVIOUS
<1>1. /\ activeOp' \in Active!Register!Ops /\ activeOp' # Active!Register!NoOp
      /\ activeOp'.kind # "save"
  BY DEF Active!Clear, Active!Register!Ops, Active!Register!ClearOp, Active!Register!NoOp
<1>2. QED
  BY <1>1 DEF ActiveInv, Active!TypeOK, Active!Clear, ActiveIdle, ActiveErase, ActiveProgram,
              ActiveReturn

LEMMA EraseActive == ActiveInv /\ Active!Erase => ActiveInv'
<1> SUFFICES ASSUME ActiveInv, Active!Erase PROVE ActiveInv' OBVIOUS
<1> USE ActiveAssumption
<1>1. /\ SlotPrefix(entries', 0) /\ Active!LoadActiveSlot(entries') = None
      /\ entries'[activePos] = Active!Erased
  BY ErasedWords DEF Active!Erase, ActiveInv, Active!TypeOK
<1>2. Active!TypeOK' BY DEF ActiveInv, Active!TypeOK, Active!Erase
<1>3. activeOp # Active!Register!NoOp /\ (activeOp.kind = "save" => activePos = 1)
  BY DEF ActiveInv, ActiveErase, Active!Erase
<1>4. activeOp.kind # "save" => Active!Register!Result(activeOp) = None
  BY RegisterOps DEF ActiveInv, Active!TypeOK
<1>5. ActiveProgram' BY <1>1, <1>3 DEF ActiveProgram, Active!Erase
<1>6. ActiveReturn' BY <1>1, <1>3, <1>4 DEF ActiveReturn, Active!Erase
<1>7. QED
  BY <1>1, <1>2, <1>5, <1>6 DEF ActiveInv, Active!Erase, ActiveIdle, ActiveErase

LEMMA ProgramActive == ActiveInv /\ Active!ProgramWord => ActiveInv'
<1> SUFFICES ASSUME ActiveInv, Active!ProgramWord PROVE ActiveInv' OBVIOUS
<1> USE ActiveAssumption
<1>1. /\ activeOp.slot \in Slots /\ activeOp # Active!Register!NoOp
      /\ Active!Register!Result(activeOp) = activeOp.slot
  BY RegisterOps DEF ActiveInv, Active!TypeOK, Active!ProgramWord, ActiveProgram
<1>2. entries' = [entries EXCEPT ![activePos] = activeOp.slot]
  BY DEF Active!ProgramWord, Active!Program, ActiveInv, ActiveProgram
<1>3. Active!TypeOK' BY <1>1, <1>2 DEF ActiveInv, Active!TypeOK, Active!ProgramWord
<1>4. activePos \in 1..ActiveCapacity /\ entries'[activePos] = activeOp.slot
  BY <1>2 DEF ActiveInv, Active!TypeOK, Active!Index
<1>5. SlotPrefix(entries', activePos)
  BY <1>1, <1>2 DEF Active!ProgramWord, ActiveInv, Active!TypeOK, ActiveProgram, SlotPrefix,
                    Active!IsSlot, Active!Index
<1>6. Active!LoadActiveSlot(entries') = activeOp.slot BY <1>4, <1>5, SlotScan
<1>7. ActiveReturn' BY <1>1, <1>6 DEF Active!ProgramWord, ActiveReturn
<1>8. QED
  BY <1>3, <1>4, <1>5, <1>7
  DEF ActiveInv, Active!ProgramWord, ActiveIdle, ActiveErase, ActiveProgram

LEMMA ReturnActive == ActiveInv /\ Active!Return => ActiveInv'
<1> SUFFICES ASSUME ActiveInv, Active!Return PROVE ActiveInv' OBVIOUS
<1>1. Active!LoadActiveSlot(entries) \in Slots \cup {None}
  BY RegisterOps DEF ActiveInv, Active!TypeOK, Active!Return, ActiveReturn
<1>2. Active!TypeOK' BY <1>1 DEF ActiveInv, Active!TypeOK, Active!Return, Active!Register!Ops
<1>3. QED
  BY <1>2 DEF Active!Return, ActiveInv, ActiveIdle, ActiveErase, ActiveProgram, ActiveReturn

\* A failure of the supply leaves the words before the one being programmed as they were.
LEMMA ActiveAfterPowerLoss ==
  ASSUME ActiveInv, Active!PowerLoss
  PROVE  /\ entries' \in [Active!Index -> Slots \cup {Active!Erased, Active!Dirty}]
         /\ \E k \in 0..ActiveCapacity : SlotPrefix(entries', k)
         /\ active' \in {active, Active!Register!Result(activeOp), None}
         /\ activeOp = Active!Register!NoOp => active' = active
<1> USE ActiveAssumption
<1>0. active' = Active!LoadActiveSlot(entries') BY DEF Active!PowerLoss
<1>1. CASE entries' = entries
  BY <1>0, <1>1, RegisterOps
  DEF ActiveInv, Active!TypeOK, ActiveIdle, ActiveErase, ActiveProgram, ActiveReturn,
      Active!Register!NoOp
<1>2. CASE activePhase = "program" /\ entries' = [entries EXCEPT ![activePos] = Active!Dirty]
  <2>1. SlotPrefix(entries', activePos - 1)
    BY <1>2 DEF ActiveInv, Active!TypeOK, ActiveProgram, SlotPrefix, Active!IsSlot,
                Active!Index, Active!Dirty
  <2>2. activePos - 1 \in 0..ActiveCapacity BY DEF ActiveInv, Active!TypeOK, Active!Index
  <2>3. Active!LoadActiveSlot(entries') = Active!LoadActiveSlot(entries)
    <3>1. activePos - 1 # 0 => entries'[activePos - 1] = entries[activePos - 1]
      BY <1>2 DEF ActiveInv, Active!TypeOK, Active!Index
    <3>2. QED BY <1>2, <2>1, <2>2, <3>1, SlotScan DEF ActiveInv, ActiveProgram
  <2>4. activeOp # Active!Register!NoOp
    BY <1>2, RegisterOps DEF ActiveInv, Active!TypeOK, ActiveProgram
  <2>5. QED
    BY <1>0, <1>2, <2>1, <2>2, <2>3, <2>4 DEF ActiveInv, Active!TypeOK, ActiveProgram
<1>3. QED BY <1>1, <1>2 DEF Active!PowerLoss, Active!Interrupted

LEMMA PowerLossActive == ActiveInv /\ Active!PowerLoss => ActiveInv'
<1> SUFFICES ASSUME ActiveInv, Active!PowerLoss PROVE ActiveInv' OBVIOUS
<1>1. active' \in Slots \cup {None}
  BY ActiveAfterPowerLoss, RegisterOps DEF ActiveInv, Active!TypeOK
<1>2. Active!TypeOK'
  BY <1>1, ActiveAfterPowerLoss
  DEF ActiveInv, Active!TypeOK, Active!PowerLoss, Active!Register!Ops
<1>3. QED
  BY <1>2, ActiveAfterPowerLoss
  DEF Active!PowerLoss, ActiveInv, ActiveIdle, ActiveErase, ActiveProgram, ActiveReturn

LEMMA NextActive == ActiveInv /\ [Active!Next]_(Active!vars) => ActiveInv'
<1> SUFFICES ASSUME ActiveInv, [Active!Next]_(Active!vars) PROVE ActiveInv' OBVIOUS
<1>1. CASE UNCHANGED Active!vars \/ Active!Boot
  BY <1>1 DEF Active!vars, Active!Boot, ActiveInv, Active!TypeOK, ActiveIdle, ActiveErase,
              ActiveProgram, ActiveReturn
<1>2. QED
  BY <1>1, SaveActive, ClearActive, EraseActive, ProgramActive, ReturnActive,
     PowerLossActive DEF Active!Next, Active!Step

LEMMA AlwaysActive == StorageSpec => []ActiveInv
<1>1. StorageInit => ActiveInv BY InitActive DEF StorageInit
<1>2. ActiveInv /\ [StorageNext]_storageVars => ActiveInv' BY ActivePageSteps, NextActive
<1>3. QED BY <1>1, <1>2, PTL DEF StorageSpec
-----------------------------------------------------------------------------
\* No slot of an earlier log lies behind the end of the current one (storage.rs,
\* load_active_slot).
THEOREM NoSlotIsStale == StorageSpec => []ActiveNoStaleEntry
<1>1. ActiveInv => ActiveNoStaleEntry
  BY ActiveAssumption
  DEF ActiveInv, SlotPrefix, ActiveNoStaleEntry, Active!NoStaleEntry, Active!Index
<1>2. QED BY <1>1, AlwaysActive, PTL

\* A step of the log of words is a step of the register, or changes nothing it sees.
LEMMA RegisterStep ==
  ASSUME ActiveInv, [Active!Next]_(Active!vars)
  PROVE  [Active!Register!Next]_(Active!Register!vars)
<1> USE DEF Active!Register!vars
<1>1. CASE Active!SaveActiveSlot
  <2>1. PICK s \in Slots : activeOp' = Active!Register!SaveOf(s)
    BY <1>1 DEF Active!SaveActiveSlot
  <2>2. activeOp' \in Active!Register!Ops \ {Active!Register!NoOp}
    BY <2>1 DEF Active!Register!Ops, Active!Register!SaveOf, Active!Register!NoOp
  <2>3. QED
    BY <1>1, <2>2 DEF Active!SaveActiveSlot, ActiveInv, ActiveIdle, Active!Register!Next,
                      Active!Register!Call
<1>2. CASE Active!Clear
  <2>1. activeOp' \in Active!Register!Ops \ {Active!Register!NoOp}
    BY <1>2 DEF Active!Clear, Active!Register!Ops, Active!Register!ClearOp,
                Active!Register!NoOp
  <2>2. QED
    BY <1>2, <2>1 DEF Active!Clear, ActiveInv, ActiveIdle, Active!Register!Next,
                      Active!Register!Call
<1>3. CASE Active!Erase \/ Active!ProgramWord
  BY <1>3 DEF Active!Erase, Active!ProgramWord
<1>4. CASE Active!Return
  BY <1>4 DEF Active!Return, ActiveInv, ActiveReturn, Active!Register!Next,
              Active!Register!Return
<1>5. CASE Active!PowerLoss
  BY <1>5, ActiveAfterPowerLoss DEF Active!PowerLoss, Active!Register!Next,
                                    Active!Register!PowerLoss
<1>6. CASE Active!Boot
  BY <1>6 DEF Active!Boot, Active!Register!Next, Active!Register!Boot
<1>7. CASE UNCHANGED Active!vars BY <1>7 DEF Active!vars
<1>8. QED BY <1>1, <1>2, <1>3, <1>4, <1>5, <1>6, <1>7 DEF Active!Next, Active!Step

\* The log of words implements the register: what save_active_slot recorded last is what a
\* boot finds, and a power failure leaves the old slot, the new one or none (storage.rs).
THEOREM LogImplementsRegister == StorageSpec => ImplementsRegister
<1>1. StorageInit => Active!Register!Init
  BY DEF StorageInit, Active!Init, Active!Register!Init
<1>2. ActiveInv /\ [StorageNext]_storageVars => [Active!Register!Next]_(Active!Register!vars)
  BY ActivePageSteps, RegisterStep
<1>3. QED
  BY <1>1, <1>2, AlwaysActive, PTL DEF StorageSpec, ImplementsRegister, Active!Register!Spec
-----------------------------------------------------------------------------
(* clear_all *)

\* clear_all is at work in one page at a time, and the profiles are gone when it leaves them.
ClearingInv ==
  /\ clearing = "profiles" => phase # "idle" /\ op = Store!ClearOp
  /\ clearing = "active" => phase = "idle" /\ activePhase # "idle" /\ committed = None

LEMMA ClearingProfiles == ClearingInv /\ ProfileSteps => ClearingInv'
<1> SUFFICES ASSUME ClearingInv, ProfileSteps PROVE ClearingInv' OBVIOUS
<1>1. phase # "idle" /\ clearing # "active" /\ clearing' = clearing
  BY DEF ProfileSteps, ClearingInv, Erase, ProgramMagic, ProgramId, ProgramCnt, Return
<1>2. CASE clearing = "no" BY <1>1, <1>2 DEF ClearingInv
<1>3. CASE clearing # "no"
  <2>1. op' = op /\ phase' # "idle"
    BY <1>3 DEF ProfileSteps, Erase, ProgramMagic, ProgramId, ProgramCnt
  <2>2. QED BY <1>1, <2>1 DEF ClearingInv
<1>4. QED BY <1>2, <1>3

LEMMA ClearingGoesOn == IInv /\ ClearingInv /\ ClearAllGoesOn => ClearingInv'
<1> SUFFICES ASSUME IInv, ClearingInv, ClearAllGoesOn PROVE ClearingInv' OBVIOUS
<1>1. op = Store!ClearOp /\ phase = "return" BY DEF ClearAllGoesOn, ClearingInv, Return
<1>2. Load(page) = None BY <1>1 DEF IInv, ReturnPage, Store!ClearOp
<1>3. QED BY <1>2 DEF ClearAllGoesOn, Return, Active!Clear, ClearingInv

LEMMA NextClearing == IInv /\ ClearingInv /\ [StorageNext]_storageVars => ClearingInv'
<1> SUFFICES ASSUME IInv, ClearingInv, [StorageNext]_storageVars PROVE ClearingInv' OBVIOUS
<1>1. CASE ProfileCall
  BY <1>1 DEF ProfileCall, Quiet, ClearingInv, activeVars
<1>2. CASE ProfileSteps BY <1>2, ClearingProfiles
<1>3. CASE ActiveCall
  BY <1>3 DEF ActiveCall, Quiet, ClearingInv, profileVars
<1>4. CASE ActiveSteps
  BY <1>4 DEF ActiveSteps, ClearingInv, profileVars
<1>5. CASE ClearAll
  BY <1>5 DEF ClearAll, Clear, ClearingInv
<1>6. CASE ClearAllGoesOn BY <1>6, ClearingGoesOn
<1>7. CASE StoragePowerLoss BY <1>7 DEF StoragePowerLoss, ClearingInv
<1>8. CASE StorageBoot
  BY <1>8 DEF StorageBoot, Boot, Active!Boot, ClearingInv
<1>9. CASE UNCHANGED storageVars
  BY <1>9 DEF storageVars, profileVars, activeVars, ClearingInv
<1>10. QED
  BY <1>1, <1>2, <1>3, <1>4, <1>5, <1>6, <1>7, <1>8, <1>9 DEF StorageNext

\* clear_all has removed the profiles before it touches the active slot, so that wherever the
\* supply fails no boot finds a pairing without the slot it was used from (storage.rs,
\* clear_all).
THEOREM ProfilesFirst == ASSUME ~EraseTears PROVE StorageSpec => []ProfilesGoFirst
<1>1. StorageInit => ClearingInv BY DEF StorageInit, ClearingInv
<1>2. StorageSpec => []IInv BY StorageSpecs, AlwaysIInv, PTL
<1>3. IInv /\ ClearingInv /\ [StorageNext]_storageVars => ClearingInv' BY NextClearing
<1>4. ClearingInv => ProfilesGoFirst BY DEF ClearingInv, ProfilesGoFirst
<1>5. QED BY <1>1, <1>2, <1>3, <1>4, PTL DEF StorageSpec
-----------------------------------------------------------------------------
\* Each word that a save or save_active_slot is about to program is erased then: the scan
\* proves it of the end of the log, the erase of the first record, and the fields of a
\* record before its marker leave the others alone (storage.rs, save, save_active_slot).
THEOREM ProgramsOnlyErased == ASSUME ~EraseTears PROVE StorageSpec => []ProgramOnlyErased
<1>1. IInv /\ ActiveInv => ProgramOnlyErased
  <2> SUFFICES ASSUME IInv, ActiveInv PROVE ProgramOnlyErased
    OBVIOUS
  <2>1. phase = "magic" => page[pos] = Blank BY DEF IInv, MagicPage
  <2>2. pos \in Index /\ pos <= pos BY CapacityAssumption DEF IInv, TypeOK, Index
  <2>3. phase \in {"id", "cnt"} => Decodable(page[pos]) /\ page[pos].cnt = ErasedCnt
    BY <2>2 DEF IInv, IdPage, CntPage, Prefix
  <2>4. phase = "id" => page[pos].id = ErasedId BY DEF IInv, IdPage
  <2>5. activePhase = "program" => entries[activePos] = Active!Erased
    BY DEF ActiveInv, ActiveProgram
  <2>6. QED BY <2>1, <2>3, <2>4, <2>5 DEF ProgramOnlyErased
<1>2. QED BY <1>1, StorageSpecs, AlwaysIInv, AlwaysActive, PTL
=============================================================================

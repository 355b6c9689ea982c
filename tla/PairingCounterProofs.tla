------------------------ MODULE PairingCounterProofs ------------------------
(***************************************************************************)
(* Proofs that no counter is used twice with a key: without power failures, *)
(* and with power failures as long as the counters used since the last save *)
(* are no more than a boot jumps over.  That they are no more is in turn    *)
(* proved for behaviours in which no attempt steps over a multiple at which *)
(* the counter is saved, and texts are short.  UPAIR must replace the       *)
(* pairing of the active slot, and no record may be torn: without either,   *)
(* runs of Pairing reuse a counter.                                         *)
(***************************************************************************)
EXTENDS PairingStoreProofs

\* The conditions of the theorems: the supply never fails; UPAIR never names a slot that is
\* not active; no record is torn; no counter comes to the end of its word.
SteadySupply == "power loss" \notin Inputs

PairsInPlace == "pair elsewhere" \notin Inputs

WholeRecords == "torn record" \notin Inputs

NoWrap == MaxCounter + BootJump < Modulus

\* What was used of the pairing in use since it was saved is no more than a boot adds.
Lead ==
  on /\ paired /\ stored[activeSlot] # None /\ stored[activeSlot].id = dev.id =>
    dev.cnt <= stored[activeSlot].cnt + BootJump

\* Calls that are still to be made.
Called(s) == \E k \in 1..Len(todo) : todo[k].page = "profile" /\ todo[k].slot = s

Recording == \E k \in 1..Len(todo) : todo[k].page = "active"

IsSave(call) == call.page = "profile" /\ call.op.kind = "save"

\* Every profile is one that UPAIR made, with a counter that was counted.
Counted(p) == p.id \in Ids /\ p.cnt \in 0..MaxCounter

Made ==
  /\ \A s \in Slots : stored[s] # None => Counted(stored[s])
  /\ dev # None => Counted(dev)
  /\ \A k \in 1..Len(todo) : IsSave(todo[k]) => Counted(todo[k].op.profile)
  /\ SteadySupply => on

UnmadeUnused == \A i \in Ids : owner[i] = None => used[i] = 0

\* The slot in use is the one that the next boot looks at, until it has been saved to be
\* left.
InUse(s) == s = BootSlot /\ (~on \/ (s = activeSlot /\ ~Recording) \/ Called(s))

Ahead(p) == p.cnt >= used[p.id]

\* Profiles at rest are not behind what was used, ...
AtRest == \A s \in Slots : stored[s] # None /\ ~InUse(s) => Ahead(stored[s])

\* ... nor are those being saved, ...
SavesAhead == \A k \in 1..Len(todo) : IsSave(todo[k]) => Ahead(todo[k].op.profile)

\* ... and the others are no more behind than a boot adds.
Covered ==
  \A s \in Slots : stored[s] # None => stored[s].cnt + BootJump >= used[stored[s].id]

CounterInv ==
  /\ UnmadeUnused /\ AtRest /\ SavesAhead /\ NeverReused
  /\ SteadySupply \/ Covered
-----------------------------------------------------------------------------
(* What the actions do to profiles and calls *)

\* A call that is to be made after the first is to be made after it, too.
LEMMA CallsAfterFirst ==
  ASSUME JInv, ActiveLast, todo # <<>>, todo' = Tail(todo)
  PROVE  /\ Head(todo) \in Calls /\ Head(todo) = todo[1] /\ 1 \in 1..Len(todo)
         /\ \A k \in 1..Len(todo') : \E j \in 1..Len(todo) : todo'[k] = todo[j]
         /\ \A s : Called(s)' => Called(s)
         /\ \A s : Called(s) =>
              Called(s)' \/ (Head(todo).page = "profile" /\ Head(todo).slot = s)
         /\ Recording' => Recording
         /\ Head(todo).page = "profile" => (Recording => Recording')
         /\ Head(todo).page = "active" => \A s : ~Called(s)
         /\ \A s : Head(todo).page = "profile" /\ Head(todo).slot = s => ~Called(s)'
<1> DEFINE call == Head(todo)
           rest == Tail(todo)
<1>1. call \in Calls
  BY FirstCall DEF JInv
<1>2. /\ Len(todo) \in Nat /\ call = todo[1] /\ 1 \in 1..Len(todo)
      /\ Len(rest) = Len(todo) - 1
      /\ \A k \in 1..Len(rest) : rest[k] = todo[k + 1]
      /\ \A k \in 1..Len(rest) : k + 1 \in 1..Len(todo) /\ 1 < k + 1
  BY RestOfCalls DEF JInv
<1>3. todo' = rest
  OBVIOUS
<1> HIDE DEF call, rest
<1>4. \A k \in 1..Len(rest) : \E j \in 1..Len(todo) : rest[k] = todo[j]
  BY <1>2
<1>5. \A k \in 1..Len(todo) : k = 1 \/ \E j \in 1..Len(rest) : rest[j] = todo[k]
  <2>1. ASSUME NEW k \in 1..Len(todo), k # 1
        PROVE  k - 1 \in 1..Len(rest) /\ rest[k - 1] = todo[k]
    <3>1. k - 1 \in 1..Len(rest) /\ (k - 1) + 1 = k
      BY <1>2, <2>1
    <3> QED
      BY <3>1, <1>2
  <2> QED
    BY <2>1
<1>6. \A s : Called(s)' => Called(s)
  BY <1>3, <1>4 DEF Called
<1>7. ASSUME NEW s, Called(s), ~(call.page = "profile" /\ call.slot = s)
      PROVE  Called(s)'
  <2>1. PICK k \in 1..Len(todo) : todo[k].page = "profile" /\ todo[k].slot = s
    BY <1>7 DEF Called
  <2>2. k # 1
    BY <2>1, <1>2, <1>7
  <2>3. PICK j \in 1..Len(rest) : rest[j] = todo[k]
    BY <2>2, <1>5
  <2> QED
    BY <2>1, <2>3, <1>3 DEF Called
<1>8. (Recording' => Recording) /\ (call.page = "profile" => (Recording => Recording'))
  <2>1. Recording' => Recording
    BY <1>3, <1>4 DEF Recording
  <2>2. ASSUME call.page = "profile", Recording PROVE Recording'
    <3>1. PICK k \in 1..Len(todo) : todo[k].page = "active"
      BY <2>2 DEF Recording
    <3>2. k # 1
      BY <3>1, <2>2, <1>2
    <3>3. PICK j \in 1..Len(rest) : rest[j] = todo[k]
      BY <3>2, <1>5
    <3> QED
      BY <3>1, <3>3, <1>3 DEF Recording
  <2> QED
    BY <2>1, <2>2
<1>9. call.page = "active" => \A s : ~Called(s)
  <2>1. call.page = "active" => Len(todo) = 1
    BY <1>2 DEF ActiveLast
  <2> QED
    BY <2>1, <1>2 DEF Called
<1>10. ASSUME NEW s, call.page = "profile", call.slot = s PROVE ~Called(s)'
  <2>1. ASSUME NEW k \in 1..Len(rest), rest[k].page = "profile" PROVE rest[k].slot # s
    <3>1. k + 1 \in 1..Len(todo) /\ 1 < k + 1 /\ rest[k] = todo[k + 1]
      BY <1>2
    <3> QED
      BY <1>10, <2>1, <3>1, <1>2 DEF JInv, FlashInv, DistinctSlots
  <2> QED
    BY <2>1, <1>3 DEF Called
<1> QED
  BY <1>1, <1>2, <1>3, <1>4, <1>6, <1>7, <1>8, <1>9, <1>10 DEF call, rest

NoCalls == (\A s : ~Called(s)) /\ ~Recording

LEMMA EmptyNoCalls == todo = <<>> => NoCalls
BY DEF NoCalls, Called, Recording

\* Commands that leave the profiles alone: what they save is the pairing in use, in its slot.
Quiet ==
  \/ UPairFails \/ UConnect \/ USwitchSame \/ UType \/ PollRadio
  \/ USleep \/ PowerWarning \/ UDelete \/ UDeleteAll

LEMMA QuietStep ==
  ASSUME JInv, Quiet
  PROVE  /\ on /\ todo = <<>>
         /\ UNCHANGED <<on, activeSlot, dev, stored, active, used, owner>>
         /\ paired' => paired
         /\ \A k \in 1..Len(todo') :
              IsSave(todo'[k]) => paired /\ todo'[k].op.profile = dev
         /\ Recording' => \A s \in Slots : Called(s)'
<1>1. /\ on /\ todo = <<>>
      /\ UNCHANGED <<on, activeSlot, dev, stored, active, used, owner>>
      /\ paired' => paired
  <2>1. CASE UPairFails \/ UConnect \/ USwitchSame \/ UType \/ PollRadio
    BY <2>1 DEF UPairFails, UConnect, USwitchSame, UType, PollRadio, Starts, flash, ghost
  <2>2. CASE USleep
    BY <2>2 DEF USleep, Starts, ghost
  <2>3. CASE PowerWarning
    BY <2>3 DEF PowerWarning, Starts, ram, ghost
  <2>4. CASE UDelete \/ UDeleteAll
    BY <2>4 DEF UDelete, UDeleteAll, Starts, ghost
  <2> QED
    BY <2>1, <2>2, <2>3, <2>4 DEF Quiet
<1>2. CASE UPairFails \/ UConnect \/ USwitchSame \/ UType \/ PollRadio
  <2>1. todo' = <<>>
    BY <1>1, <1>2 DEF UPairFails, UConnect, USwitchSame, UType, PollRadio, flash
  <2> QED
    BY <1>1, <2>1 DEF Recording
<1>3. CASE USleep \/ PowerWarning
  <2>1. paired
    BY <1>3 DEF JInv, IInv, ConnectedIsPaired, USleep, PowerWarning
  <2>2. todo' = <<Save(activeSlot, dev)>>
    BY <1>3, <2>1 DEF USleep, PowerWarning
  <2>3. Len(todo') = 1 /\ todo'[1].op.profile = dev /\ todo'[1].page = "profile"
    BY <2>2 DEF Save, ProfileCall, SaveOf
  <2> QED
    BY <1>1, <2>1, <2>3 DEF Recording
<1>4. CASE UDelete
  <2>1. PICK s \in Slots : todo' = <<ProfileCall(s, ClearOp)>>
    BY <1>4 DEF UDelete
  <2>2. Len(todo') = 1 /\ todo'[1] = ProfileCall(s, ClearOp)
    BY <2>1
  <2> QED
    BY <1>1, <2>2, ClearIsCall DEF IsSave, Recording
<1>5. CASE UDeleteAll
  <2>1. /\ Len(todo') = MaxProfiles + 1
        /\ \A k \in 1..MaxProfiles :
             todo'[k].page = "profile" /\ todo'[k].slot = k - 1 /\ todo'[k].op = ClearOp
        /\ \A k \in 1..Len(todo') : todo'[k].page = "profile" => k \in 1..MaxProfiles
        /\ ClearOp.kind # "save"
    BY <1>5, UDeleteAllCalls
  <2>2. ASSUME NEW s \in Slots PROVE Called(s)'
    <3>1. s + 1 \in 1..MaxProfiles /\ s + 1 \in 1..Len(todo') /\ (s + 1) - 1 = s
      BY <2>1, Constants DEF Slots
    <3> QED
      BY <2>1, <3>1 DEF Called
  <2> QED
    BY <1>1, <2>1, <2>2 DEF IsSave
<1> QED
  BY <1>2, <1>3, <1>4, <1>5 DEF Quiet

\* Reports: they use counters of the pairing in use, and save it or not.
Report == UKey \/ UKeyDown \/ TypeChar \/ AllUp

LEMMA ReportStep ==
  ASSUME JInv, Made, Report
  PROVE  /\ on /\ todo = <<>> /\ paired /\ dev # None
         /\ UNCHANGED <<on, paired, activeSlot, stored, active, owner>>
         /\ dev.id \in Ids /\ dev.cnt \in Nat /\ owner[dev.id] = activeSlot
         /\ dev'.id = dev.id /\ dev'.cnt \in dev.cnt..MaxCounter
         /\ used[dev.id] \in Nat
         /\ used'[dev.id] = IF used[dev.id] < dev'.cnt THEN dev'.cnt ELSE used[dev.id]
         /\ \A i \in Ids : i # dev.id => used'[i] = used[i]
         /\ todo' = <<>> \/ todo' = <<Save(activeSlot, dev')>>
<1>1. /\ on /\ todo = <<>> /\ paired /\ dev \in AllProfiles /\ dev # None
  BY DEF JInv, IInv, FlashInv, TypeOK, Loadable, ConnectedIsPaired, PairedHasProfile,
         TypingConnected, TypingIdle, Report, UKey, UKeyDown, TypeChar, AllUp, Starts
<1>2. UNCHANGED <<on, paired, activeSlot, stored, active, owner>>
  BY DEF Report, UKey, UKeyDown, TypeChar, AllUp, flash
<1>3. PICK n \in Nat : Send(n)
  BY Constants DEF Report, UKey, UKeyDown, TypeChar, AllUp
<1>4. dev.id \in Ids /\ dev.cnt \in Nat /\ dev.id \in AllIds /\ owner[dev.id] = activeSlot
  BY <1>1, ProfileFields DEF Made, Counted, JInv, IInv, SlotOwnership
<1>5. /\ dev'.id = dev.id /\ dev'.cnt = dev.cnt + n /\ dev.cnt + n <= MaxCounter
  BY <1>1, <1>3 DEF Send, AllProfiles
<1>6. used \in [AllIds -> Nat]
  BY DEF JInv, IInv, TypeOK
<1>7. /\ used'[dev.id] = IF used[dev.id] < dev.cnt + n THEN dev.cnt + n ELSE used[dev.id]
      /\ \A i \in Ids : i # dev.id => used'[i] = used[i]
  BY <1>3, <1>4, <1>6 DEF Send, AllIds
<1>8. todo' = <<>> \/ todo' = <<Save(activeSlot, dev')>>
  BY <1>1 DEF Report, UKey, UKeyDown, TypeChar, AllUp, flash
<1>9. dev'.cnt \in dev.cnt..MaxCounter
  BY <1>4, <1>5, Constants
<1> QED
  BY <1>1, <1>2, <1>4, <1>5, <1>6, <1>7, <1>8, <1>9

LEMMA SaveOfOne ==
  ASSUME todo' = <<>> \/ todo' = <<Save(activeSlot, dev')>>
  PROVE  /\ \A k \in 1..Len(todo') : IsSave(todo'[k]) => todo'[k].op.profile = dev'
         /\ ~Recording'
<1>1. CASE todo' = <<>>
  BY <1>1 DEF Recording
<1>2. CASE todo' = <<Save(activeSlot, dev')>>
  <2>1. Len(todo') = 1 /\ todo'[1].op.profile = dev' /\ todo'[1].page = "profile"
    BY <1>2 DEF Save, ProfileCall, SaveOf
  <2> QED
    BY <2>1 DEF Recording
<1> QED
  BY <1>1, <1>2

\* A pairing in the active slot: the new one has no counter yet.
LEMMA UPairStep ==
  ASSUME PairsInPlace, JInv, Made, UPair
  PROVE  /\ on /\ todo = <<>> /\ paired'
         /\ UNCHANGED <<on, activeSlot, stored, active, used>>
         /\ dev' # None /\ Counted(dev') /\ owner[dev'.id] = None
         /\ owner' = [owner EXCEPT ![dev'.id] = activeSlot] /\ activeSlot \in Slots
         /\ \A k \in 1..Len(todo') : IsSave(todo'[k]) => todo'[k].op.profile = dev'
         /\ Called(activeSlot)'
<1>1. PICK s \in Slots, i \in Ids, c \in {0} \cup (IF dev = None THEN {} ELSE {dev.cnt}) :
        /\ s = activeSlot /\ activeSlot' = s
        /\ owner[i] = None /\ owner' = [owner EXCEPT ![i] = s]
        /\ dev' = [id |-> i, cnt |-> c]
        /\ todo' = <<Save(s, dev'), ActiveCall(s)>>
  BY DEF UPair, Apply, PairsInPlace
<1>2. on /\ todo = <<>> /\ paired' /\ UNCHANGED <<on, stored, active, used>>
  BY DEF UPair, Starts, Apply
<1>3. dev'.id = i /\ dev'.cnt \in 0..MaxCounter
  <2>1. c \in 0..MaxCounter
    BY Constants DEF Made, Counted
  <2> QED
    BY <2>1, <1>1
<1>4. Len(todo') = 2 /\ todo'[1] = Save(s, dev') /\ todo'[2] = ActiveCall(s)
  BY <1>1
<1>5. /\ todo'[1].slot = s /\ todo'[1].page = "profile" /\ todo'[1].op.profile = dev'
      /\ todo'[2].page = "active"
  BY <1>4 DEF Save, ProfileCall, SaveOf, ActiveCall
<1>6. \A k \in 1..Len(todo') : IsSave(todo'[k]) => todo'[k].op.profile = dev'
  BY <1>4, <1>5 DEF IsSave
<1>7. dev' # None
  <2>1. [id |-> i, cnt |-> c] \in AllProfiles
    BY <1>1, <1>3 DEF AllProfiles
  <2> QED
    BY <2>1, <1>1, NoneAssumption
<1> QED
  BY <1>1, <1>2, <1>3, <1>4, <1>5, <1>6, <1>7 DEF Called, Counted

\* A switch saves the profile it leaves and takes the other as it was stored.
LEMMA USwitchStep ==
  ASSUME JInv, USwitch
  PROVE  /\ on /\ todo = <<>> /\ UNCHANGED <<on, stored, active, used, owner>>
         /\ activeSlot' \in Slots /\ activeSlot' # activeSlot
         /\ dev' = dev \/ (stored[activeSlot'] # None /\ dev' = stored[activeSlot'])
         /\ paired' => stored[activeSlot'] # None /\ dev' = stored[activeSlot']
         /\ \A k \in 1..Len(todo') :
              IsSave(todo'[k]) => paired /\ todo'[k].op.profile = dev
         /\ \A s : s = activeSlot /\ stored[s] # None => Called(s)'
<1>1. PICK s \in Slots \ {activeSlot} :
        /\ activeSlot' = s
        /\ todo' = SaveLeaving(s) \o <<ActiveCall(s)>>
        /\ IF stored[s] # None
             THEN Apply(stored[s])
             ELSE paired' = FALSE /\ UNCHANGED dev
  BY DEF USwitch
<1>2. on /\ todo = <<>> /\ UNCHANGED <<on, stored, active, used, owner>>
  BY DEF USwitch, Starts, ghost
<1>3. /\ dev' = dev \/ (stored[s] # None /\ dev' = stored[s])
      /\ paired' => stored[s] # None /\ dev' = stored[s]
  BY <1>1 DEF Apply
<1>4. ActiveCall(s).page = "active" /\ activeSlot \in Slots
  BY DEF ActiveCall, JInv, IInv, TypeOK
<1>5. CASE ~paired
  <2>1. todo' = <<ActiveCall(s)>>
    BY <1>1, <1>5 DEF SaveLeaving
  <2>2. Len(todo') = 1 /\ todo'[1] = ActiveCall(s)
    BY <2>1
  <2>3. stored[activeSlot] = None
    BY <1>2, <1>5, BetweenCommands DEF JInv, Agrees
  <2>4. \A k \in 1..Len(todo') : ~IsSave(todo'[k])
    BY <2>2, <1>4 DEF IsSave
  <2> QED
    BY <2>3, <2>4, <1>1, <1>2, <1>3
<1>6. CASE paired
  <2>1. dev \in AllProfiles
    BY <1>6 DEF JInv, IInv, TypeOK, Loadable, PairedHasProfile
  <2>2. SaveLeaving(s) = <<Save(activeSlot, dev)>>
        /\ Save(activeSlot, dev) \in Calls /\ ActiveCall(s) \in Calls
    BY <2>1, <1>4, <1>6, SaveIsCall, ActiveIsCall DEF SaveLeaving
  <2>3. todo' = <<Save(activeSlot, dev), ActiveCall(s)>>
    BY <2>2, <1>1, TwoCalls
  <2>4. Len(todo') = 2 /\ todo'[1] = Save(activeSlot, dev) /\ todo'[2] = ActiveCall(s)
    BY <2>3
  <2>5. /\ todo'[1].page = "profile" /\ todo'[1].slot = activeSlot
        /\ todo'[1].op.profile = dev
    BY <2>1, <2>4, <1>4, SaveIsCall
  <2>6. \A k \in 1..Len(todo') : IsSave(todo'[k]) => todo'[k].op.profile = dev
    BY <2>4, <2>5, <1>4 DEF IsSave
  <2>7. \A t : t = activeSlot => Called(t)'
    BY <2>4, <2>5 DEF Called
  <2> QED
    BY <2>6, <2>7, <1>1, <1>2, <1>3, <1>6
<1> QED
  BY <1>5, <1>6

\* A boot takes the profile of its slot, with the counter moved on, and saves it.
LEMMA BootStep ==
  ASSUME JInv, Made, Boot
  PROVE  /\ ~on /\ on' /\ UNCHANGED <<stored, active, used, owner>>
         /\ activeSlot' = BootSlot /\ BootSlot \in Slots
         /\ \A k \in 1..Len(todo') : IsSave(todo'[k]) => paired' /\ todo'[k].op.profile = dev'
         /\ ~Recording'
         /\ stored[BootSlot] = None => ~paired' /\ dev' = dev
         /\ stored[BootSlot] # None =>
              /\ paired' /\ dev' # None /\ Counted(dev') /\ dev'.id = stored[BootSlot].id
              /\ NoWrap => dev'.cnt = stored[BootSlot].cnt + BootJump
              /\ \A s : s = BootSlot => Called(s)'
<1>1. /\ ~on /\ on' /\ activeSlot' = BootSlot /\ BootSlot \in Slots
      /\ UNCHANGED <<stored, active, used, owner>> /\ todo = <<>> /\ ~paired
  BY Constants DEF Boot, JInv, IInv, TypeOK, OffIsReset, BootSlot, ghost
<1>2. CASE stored[BootSlot] = None
  <2>1. todo' = <<>> /\ ~paired' /\ dev' = dev
    BY <1>1, <1>2 DEF Boot
  <2> QED
    BY <1>1, <1>2, <2>1 DEF Recording
<1>3. CASE stored[BootSlot] # None
  <2> DEFINE p == stored[BootSlot]
  <2>1. dev' = Jump(p) /\ paired' /\ todo' = <<Save(BootSlot, dev')>>
    BY <1>3 DEF Boot, Apply
  <2>2. p \in AllProfiles /\ Counted(p) /\ (p.cnt + BootJump) % Modulus \in 0..MaxCounter
    BY <1>1, <1>3 DEF JInv, IInv, TypeOK, Loadable, OffIsReset, Made
  <2>3. dev'.id = p.id /\ dev'.cnt = (p.cnt + BootJump) % Modulus
    BY <2>1, <2>2 DEF Jump, AllProfiles
  <2>4. Counted(dev')
    BY <2>2, <2>3 DEF Counted
  <2>5. NoWrap => dev'.cnt = p.cnt + BootJump
    <3>1. PICK x \in 0..MaxCounter : x = p.cnt
      BY <2>2 DEF Counted
    <3>2. NoWrap => x + BootJump \in 0..(Modulus - 1)
      BY Constants DEF NoWrap
    <3>3. NoWrap => (x + BootJump) % Modulus = x + BootJump
      BY <3>2, Constants
    <3> QED
      BY <2>3, <3>1, <3>3
  <2>6. dev' # None
    <3>1. dev' \in AllProfiles
      <4>1. dev' = [id |-> p.id, cnt |-> dev'.cnt]
        BY <2>1, <2>2 DEF Jump, AllProfiles
      <4>2. p.id \in Ids /\ dev'.cnt \in 0..MaxCounter
        BY <2>2, <2>3 DEF Counted
      <4> QED
        BY <4>1, <4>2 DEF AllProfiles
    <3> QED
      BY <3>1, NoneAssumption
  <2>7. Len(todo') = 1 /\ todo'[1].page = "profile" /\ todo'[1].slot = BootSlot
        /\ todo'[1].op.profile = dev'
    BY <2>1 DEF Save, ProfileCall, SaveOf
  <2>8. ~Recording' /\ \A s : s = BootSlot => Called(s)'
    BY <2>7 DEF Recording, Called
  <2>9. \A k \in 1..Len(todo') : todo'[k].op.profile = dev'
    BY <2>7
  <2> QED
    BY <1>1, <1>3, <2>1, <2>3, <2>4, <2>5, <2>6, <2>8, <2>9
<1> QED
  BY <1>2, <1>3

\* A store call puts what it saves into its slot, or records the active slot.
LEMMA StoreStepStep ==
  ASSUME JInv, ActiveLast, StoreStep
  PROVE  /\ on /\ todo # <<>> /\ todo' = Tail(todo)
         /\ UNCHANGED <<on, paired, activeSlot, dev, typing, used, owner>>
         /\ Head(todo) \in Calls
         /\ \/ /\ Head(todo).page = "profile" /\ UNCHANGED active
               /\ \A s \in Slots : s # Head(todo).slot => stored'[s] = stored[s]
               /\ \A s \in Slots : s = Head(todo).slot =>
                    \/ IsSave(Head(todo)) /\ stored'[s] = Head(todo).op.profile
                    \/ ~IsSave(Head(todo)) /\ stored'[s] = None
            \/ /\ Head(todo).page = "active" /\ active' = Head(todo).slot
               /\ UNCHANGED stored
<1> DEFINE call == Head(todo)
<1>1. /\ on /\ todo # <<>> /\ todo' = Tail(todo)
      /\ UNCHANGED <<on, paired, activeSlot, dev, typing, used, owner>>
  BY DEF StoreStep, ram, ghost
<1>2. call \in Calls /\ call.page \in {"profile", "active"}
  BY <1>1, FirstCall, CallFields DEF JInv
<1>3. stored \in [Slots -> Loadable]
  BY DEF JInv, IInv, TypeOK
<1>4. CASE call.page = "profile"
  <2>1. /\ stored' = [stored EXCEPT ![call.slot] = AfterCall(stored[call.slot], call.op)]
        /\ UNCHANGED active
    BY <1>4 DEF StoreStep
  <2>2. call.slot \in Slots
    BY <1>2, <1>4, CallFields
  <2> HIDE DEF call
  <2>3. \A s \in Slots : s # call.slot => stored'[s] = stored[s]
    BY <2>1, <1>3
  <2>4. stored'[call.slot] = AfterCall(stored[call.slot], call.op)
    BY <2>1, <2>2, <1>3
  <2>5. \/ IsSave(call) /\ stored'[call.slot] = call.op.profile
        \/ ~IsSave(call) /\ stored'[call.slot] = None
    BY <2>4, <1>4 DEF IsSave, AfterCall
  <2> QED
    BY <1>1, <1>2, <1>4, <2>1, <2>3, <2>5 DEF call
<1>5. CASE call.page = "active"
  BY <1>1, <1>2, <1>5 DEF StoreStep
<1> QED
  BY <1>2, <1>4, <1>5

\* A power failure loses RAM, and leaves in the slot being called what was there, what is
\* being saved, or nothing.
LEMMA PowerLossStep ==
  ASSUME WholeRecords, JInv, PowerLoss
  PROVE  /\ on /\ ~on' /\ todo' = <<>> /\ dev' = None /\ ~paired' /\ typing' = 0
         /\ UNCHANGED <<used, owner>> /\ ~SteadySupply
         /\ \A s \in Slots :
              \/ stored'[s] = stored[s]
              \/ stored'[s] = None
              \/ todo # <<>> /\ IsSave(Head(todo)) /\ stored'[s] = Head(todo).op.profile
         /\ active' = active \/ (todo # <<>> /\ Head(todo).page = "active")
<1> DEFINE call == Head(todo)
<1>1. /\ on /\ ~on' /\ todo' = <<>> /\ dev' = None /\ ~paired' /\ typing' = 0
      /\ UNCHANGED <<used, owner>> /\ ~SteadySupply
  BY DEF PowerLoss, SteadySupply, ghost
<1>2. active' = active \/ (todo # <<>> /\ call.page = "active")
  BY DEF PowerLoss
<1>3. ASSUME NEW s \in Slots
      PROVE  \/ stored'[s] = stored[s] \/ stored'[s] = None
             \/ todo # <<>> /\ IsSave(call) /\ stored'[s] = call.op.profile
  <2>1. stored \in [Slots -> Loadable]
    BY DEF JInv, IInv, TypeOK
  <2>2. CASE todo # <<>> /\ call.page = "profile"
    <3>1. call.slot \in Slots
      BY <2>2, FirstCall, CallFields DEF JInv
    <3>2. PICK c \in Outcomes(stored[call.slot], call.op) :
            stored' = [stored EXCEPT ![call.slot] = c]
      BY <2>2 DEF PowerLoss
    <3>3. c = stored[call.slot] \/ c = None \/ (call.op.kind = "save" /\ c = call.op.profile)
      BY DEF Outcomes, WholeRecords
    <3> HIDE DEF call
    <3>4. stored'[s] = IF s = call.slot THEN c ELSE stored[s]
      BY <2>1, <3>1, <3>2
    <3> QED
      BY <2>2, <3>3, <3>4 DEF IsSave
  <2>3. CASE ~(todo # <<>> /\ call.page = "profile")
    <3>1. stored' = stored
      BY <2>3 DEF PowerLoss
    <3> QED
      BY <3>1
  <2> QED
    BY <2>2, <2>3
<1> QED
  BY <1>1, <1>2, <1>3

\* The first call is one of the calls.
LEMMA FirstIsCall ==
  ASSUME JInv, todo # <<>>
  PROVE  \E k \in 1..Len(todo) : todo[k] = Head(todo)
BY RestOfCalls DEF JInv
-----------------------------------------------------------------------------
(* Every profile is one that UPAIR made *)

LEMMA InitMade == Init => Made
<1> SUFFICES ASSUME Init PROVE Made
  OBVIOUS
<1>1. Len(todo) = 0 /\ on /\ dev = None /\ \A s \in Slots : stored[s] = None
  BY DEF Init
<1> QED
  BY <1>1 DEF Made

LEMMA NextMade ==
  ASSUME PairsInPlace, SteadySupply \/ WholeRecords, JInv, ActiveLast, Made, [Next]_vars
  PROVE  Made'
<1>1. CASE UNCHANGED vars
  BY <1>1 DEF vars, ram, flash, ghost, Made
<1>2. CASE Quiet
  <2>1. /\ UNCHANGED <<on, dev, stored>> /\ (paired => dev # None)
        /\ \A k \in 1..Len(todo') : IsSave(todo'[k]) => paired /\ todo'[k].op.profile = dev
    BY <1>2, QuietStep DEF JInv, IInv, PairedHasProfile
  <2> QED
    BY <2>1 DEF Made
<1>3. CASE Report
  <2>1. /\ UNCHANGED <<on, stored>> /\ dev.id \in Ids /\ dev'.id = dev.id
        /\ dev.cnt \in Nat /\ dev'.cnt \in dev.cnt..MaxCounter
        /\ todo' = <<>> \/ todo' = <<Save(activeSlot, dev')>>
    BY <1>3, ReportStep
  <2>2. Counted(dev')
    BY <2>1, Constants DEF Counted
  <2> QED
    BY <2>1, <2>2, SaveOfOne DEF Made
<1>4. CASE UPair
  <2>1. /\ UNCHANGED <<on, stored>> /\ Counted(dev')
        /\ \A k \in 1..Len(todo') : IsSave(todo'[k]) => todo'[k].op.profile = dev'
    BY <1>4, UPairStep
  <2> QED
    BY <2>1 DEF Made
<1>5. CASE USwitch
  <2>1. /\ UNCHANGED <<on, stored>> /\ (paired => dev # None) /\ activeSlot' \in Slots
        /\ dev' = dev \/ (stored[activeSlot'] # None /\ dev' = stored[activeSlot'])
        /\ \A k \in 1..Len(todo') : IsSave(todo'[k]) => paired /\ todo'[k].op.profile = dev
    BY <1>5, USwitchStep DEF JInv, IInv, PairedHasProfile
  <2> QED
    BY <2>1 DEF Made
<1>6. CASE StoreStep
  <2>1. /\ todo # <<>> /\ todo' = Tail(todo) /\ UNCHANGED <<on, dev>>
        /\ \A s \in Slots :
             \/ stored'[s] = stored[s] \/ stored'[s] = None
             \/ IsSave(Head(todo)) /\ stored'[s] = Head(todo).op.profile
    BY <1>6, StoreStepStep
  <2>2. /\ \A k \in 1..Len(todo') : \E j \in 1..Len(todo) : todo'[k] = todo[j]
        /\ \E k \in 1..Len(todo) : todo[k] = Head(todo)
    BY <2>1, CallsAfterFirst, FirstIsCall
  <2>3. IsSave(Head(todo)) => Counted(Head(todo).op.profile)
    BY <2>2 DEF Made
  <2>4. \A s \in Slots : stored'[s] # None => Counted(stored'[s])
    BY <2>1, <2>3 DEF Made
  <2>5. \A k \in 1..Len(todo') : IsSave(todo'[k]) => Counted(todo'[k].op.profile)
    BY <2>2 DEF Made
  <2> QED
    BY <2>1, <2>4, <2>5 DEF Made
<1>7. CASE PowerLoss
  <2>1. WholeRecords
    BY <1>7 DEF PowerLoss, SteadySupply
  <2>2. /\ todo' = <<>> /\ dev' = None /\ ~SteadySupply
        /\ \A s \in Slots :
              \/ stored'[s] = stored[s]
              \/ stored'[s] = None
              \/ todo # <<>> /\ IsSave(Head(todo)) /\ stored'[s] = Head(todo).op.profile
    BY <1>7, <2>1, PowerLossStep
  <2>3. todo # <<>> /\ IsSave(Head(todo)) => Counted(Head(todo).op.profile)
    BY FirstIsCall DEF Made
  <2>4. \A s \in Slots : stored'[s] # None => Counted(stored'[s])
    BY <2>2, <2>3 DEF Made
  <2> QED
    BY <2>2, <2>4 DEF Made
<1>8. CASE Boot
  <2>1. /\ on' /\ UNCHANGED stored
        /\ \A k \in 1..Len(todo') : IsSave(todo'[k]) => paired' /\ todo'[k].op.profile = dev'
        /\ stored[BootSlot] = None => ~paired' /\ dev' = dev
        /\ stored[BootSlot] # None => Counted(dev')
    BY <1>8, BootStep
  <2> QED
    BY <2>1 DEF Made
<1> QED
  BY <1>1, <1>2, <1>3, <1>4, <1>5, <1>6, <1>7, <1>8 DEF Next, Quiet, Report

LEMMA AlwaysActiveLast == Spec => []ActiveLast
<1>1. Init => ActiveLast
  BY DEF Init, ActiveLast
<1> QED
  BY <1>1, NextLast, AlwaysJInv, PTL DEF Spec

LEMMA AlwaysMade ==
  ASSUME PairsInPlace, SteadySupply \/ WholeRecords
  PROVE  Spec => []Made
<1>1. JInv /\ ActiveLast /\ Made /\ [Next]_vars => Made'
  BY NextMade
<1> QED
  BY <1>1, InitMade, AlwaysJInv, AlwaysActiveLast, PTL DEF Spec
-----------------------------------------------------------------------------
(* No counter is used twice *)

LEMMA InitCounterInv == Init => CounterInv
<1> SUFFICES ASSUME Init PROVE CounterInv
  OBVIOUS
<1>1. Len(todo) = 0 /\ \A s \in Slots : stored[s] = None
  BY DEF Init
<1>2. \A i \in Ids : used[i] = 0
  BY DEF Init, AllIds
<1>3. ~paired
  BY DEF Init
<1> QED
  BY <1>1, <1>2, <1>3
  DEF CounterInv, UnmadeUnused, AtRest, SavesAhead, NeverReused, Covered

LEMMA QuietCounterInv ==
  ASSUME JInv, CounterInv, Quiet
  PROVE  CounterInv'
<1>1. /\ on /\ todo = <<>>
      /\ UNCHANGED <<on, activeSlot, dev, stored, active, used, owner>>
      /\ paired' => paired
      /\ \A k \in 1..Len(todo') : IsSave(todo'[k]) => paired /\ todo'[k].op.profile = dev
      /\ Recording' => \A s \in Slots : Called(s)'
  BY QuietStep
<1>2. UnmadeUnused' /\ NeverReused' /\ (Covered => Covered')
  BY <1>1 DEF CounterInv, UnmadeUnused, NeverReused, Covered
<1>3. SavesAhead'
  BY <1>1 DEF CounterInv, SavesAhead, NeverReused, Ahead
<1>4. ASSUME NEW s \in Slots, InUse(s) PROVE InUse(s)'
  <2>1. s = BootSlot /\ s = activeSlot
    BY <1>1, <1>4, EmptyNoCalls DEF InUse, NoCalls
  <2>2. BootSlot' = BootSlot
    BY <1>1 DEF BootSlot
  <2> QED
    BY <1>1, <2>1, <2>2 DEF InUse
<1>5. AtRest'
  BY <1>1, <1>4 DEF CounterInv, AtRest, Ahead
<1> QED
  BY <1>2, <1>3, <1>5 DEF CounterInv

LEMMA ReportCounterInv ==
  ASSUME JInv, Made, CounterInv, SteadySupply \/ Lead', Report
  PROVE  CounterInv'
<1>1. /\ on /\ todo = <<>> /\ paired /\ dev # None
      /\ UNCHANGED <<on, paired, activeSlot, stored, active, owner>>
      /\ dev.id \in Ids /\ dev.cnt \in Nat /\ owner[dev.id] = activeSlot
      /\ dev'.id = dev.id /\ dev'.cnt \in dev.cnt..MaxCounter
      /\ used[dev.id] \in Nat
      /\ used'[dev.id] = IF used[dev.id] < dev'.cnt THEN dev'.cnt ELSE used[dev.id]
      /\ \A i \in Ids : i # dev.id => used'[i] = used[i]
      /\ todo' = <<>> \/ todo' = <<Save(activeSlot, dev')>>
  BY ReportStep
<1>2. dev'.cnt \in Nat /\ dev.cnt <= dev'.cnt
  BY <1>1, Constants
<1>3. used'[dev.id] = dev'.cnt /\ used[dev.id] <= dev.cnt
  <2>1. dev.cnt >= used[dev.id]
    BY <1>1 DEF CounterInv, NeverReused
  <2> QED
    BY <2>1, <1>1, <1>2
<1>4. NeverReused' /\ Ahead(dev)'
  BY <1>1, <1>2, <1>3 DEF NeverReused, Ahead
<1>5. UnmadeUnused'
  BY <1>1, NoneAssumption DEF CounterInv, UnmadeUnused, JInv, IInv, TypeOK
<1>6. \A k \in 1..Len(todo') : IsSave(todo'[k]) => todo'[k].op.profile = dev'
  BY <1>1, SaveOfOne
<1>7. SavesAhead'
  BY <1>4, <1>6 DEF SavesAhead, Ahead
<1>8. \A s \in Slots : stored[s] # None /\ s # activeSlot =>
        stored[s].id \in Ids /\ stored[s].id # dev.id
  BY <1>1 DEF Made, Counted, JInv, IInv, SlotOwnership
<1>9. Agrees /\ BootSlot = activeSlot
  BY <1>1, BetweenCommands DEF JInv
<1>10. AtRest'
  <2> SUFFICES ASSUME NEW s \in Slots, stored[s] # None, ~InUse(s)'
               PROVE  stored[s].cnt >= used'[stored[s].id]
    BY <1>1 DEF AtRest, Ahead
  <2>1. BootSlot' = BootSlot /\ ~Recording'
    BY <1>1, SaveOfOne DEF BootSlot
  <2>2. s # activeSlot
    BY <2>1, <1>1, <1>9 DEF InUse
  <2>3. ~InUse(s)
    BY <2>2, <1>9 DEF InUse
  <2>4. stored[s].cnt >= used[stored[s].id]
    BY <2>3 DEF CounterInv, AtRest, Ahead
  <2> QED
    BY <2>2, <2>4, <1>1, <1>8
<1>11. ASSUME Covered, Lead' PROVE Covered'
  <2> SUFFICES ASSUME NEW s \in Slots, stored[s] # None
               PROVE  stored[s].cnt + BootJump >= used'[stored[s].id]
    BY <1>1 DEF Covered
  <2>1. CASE s = activeSlot
    <3>1. stored[s].id = dev.id
      BY <2>1, <1>1, <1>9 DEF Agrees
    <3>2. dev'.cnt <= stored[s].cnt + BootJump
      BY <2>1, <3>1, <1>1, <1>11 DEF Lead
    <3>3. stored[s].cnt \in Nat
      BY Constants DEF Made, Counted
    <3> QED
      BY <3>1, <3>2, <3>3, <1>2, <1>3, Constants
  <2>2. CASE s # activeSlot
    BY <2>2, <1>1, <1>8, <1>11 DEF Covered
  <2> QED
    BY <2>1, <2>2
<1> QED
  BY <1>4, <1>5, <1>7, <1>10, <1>11 DEF CounterInv

LEMMA UPairCounterInv ==
  ASSUME PairsInPlace, JInv, Made, CounterInv, UPair
  PROVE  CounterInv'
<1>1. /\ on /\ todo = <<>> /\ paired'
      /\ UNCHANGED <<on, activeSlot, stored, active, used>>
      /\ dev' # None /\ Counted(dev') /\ owner[dev'.id] = None
      /\ owner' = [owner EXCEPT ![dev'.id] = activeSlot] /\ activeSlot \in Slots
      /\ \A k \in 1..Len(todo') : IsSave(todo'[k]) => todo'[k].op.profile = dev'
      /\ Called(activeSlot)'
  BY UPairStep
<1>2. Ahead(dev)' /\ NeverReused'
  <2>1. used[dev'.id] = 0 /\ dev'.cnt \in Nat
    BY <1>1, Constants DEF CounterInv, UnmadeUnused, Counted
  <2> QED
    BY <2>1, <1>1 DEF Ahead, NeverReused
<1>3. UnmadeUnused'
  <2>1. owner \in [Ids -> Slots \cup {None}]
    BY DEF JInv, IInv, TypeOK
  <2>2. \A i \in Ids : owner'[i] = None => owner[i] = None
    BY <1>1, <2>1, NoneAssumption DEF Counted
  <2> QED
    BY <2>2, <1>1 DEF CounterInv, UnmadeUnused
<1>4. SavesAhead'
  BY <1>1, <1>2 DEF SavesAhead, Ahead
<1>5. AtRest'
  <2> SUFFICES ASSUME NEW s \in Slots, stored[s] # None, ~InUse(s)' PROVE Ahead(stored[s])
    BY <1>1 DEF AtRest, Ahead
  <2>1. BootSlot' = BootSlot
    BY <1>1 DEF BootSlot
  <2>2. ~InUse(s)
    <3>1. ASSUME InUse(s) PROVE FALSE
      <4>1. s = BootSlot /\ s = activeSlot
        BY <3>1, <1>1, EmptyNoCalls DEF InUse, NoCalls
      <4> QED
        BY <4>1, <2>1, <1>1 DEF InUse
    <3> QED
      BY <3>1
  <2> QED
    BY <2>2 DEF CounterInv, AtRest
<1>6. Covered => Covered'
  BY <1>1 DEF Covered
<1> QED
  BY <1>2, <1>3, <1>4, <1>5, <1>6 DEF CounterInv

LEMMA USwitchCounterInv ==
  ASSUME JInv, CounterInv, USwitch
  PROVE  CounterInv'
<1>1. /\ on /\ todo = <<>> /\ UNCHANGED <<on, stored, active, used, owner>>
      /\ activeSlot' \in Slots /\ activeSlot' # activeSlot
      /\ paired' => stored[activeSlot'] # None /\ dev' = stored[activeSlot']
      /\ \A k \in 1..Len(todo') : IsSave(todo'[k]) => paired /\ todo'[k].op.profile = dev
      /\ \A s : s = activeSlot /\ stored[s] # None => Called(s)'
  BY USwitchStep
<1>2. \A s \in Slots : s # activeSlot => ~InUse(s)
  BY <1>1, EmptyNoCalls DEF InUse, NoCalls
<1>3. NeverReused'
  BY <1>1, <1>2 DEF CounterInv, AtRest, Ahead, NeverReused
<1>4. SavesAhead'
  BY <1>1 DEF CounterInv, SavesAhead, NeverReused, Ahead
<1>5. UnmadeUnused' /\ (Covered => Covered')
  BY <1>1 DEF CounterInv, UnmadeUnused, Covered
<1>6. AtRest'
  <2> SUFFICES ASSUME NEW s \in Slots, stored[s] # None, ~InUse(s)' PROVE Ahead(stored[s])
    BY <1>1 DEF AtRest, Ahead
  <2>1. BootSlot' = BootSlot
    BY <1>1 DEF BootSlot
  <2>2. ~InUse(s)
    <3>1. ASSUME InUse(s) PROVE FALSE
      <4>1. s = BootSlot /\ s = activeSlot
        BY <3>1, <1>1, EmptyNoCalls DEF InUse, NoCalls
      <4>2. Called(s)'
        BY <4>1, <1>1
      <4> QED
        BY <4>1, <4>2, <2>1 DEF InUse
    <3> QED
      BY <3>1
  <2> QED
    BY <2>2 DEF CounterInv, AtRest
<1> QED
  BY <1>3, <1>4, <1>5, <1>6 DEF CounterInv

LEMMA StoreStepCounterInv ==
  ASSUME JInv, ActiveLast, Made, CounterInv, StoreStep
  PROVE  CounterInv'
<1> DEFINE call == Head(todo)
<1>1. /\ on /\ todo # <<>> /\ todo' = Tail(todo)
      /\ UNCHANGED <<on, paired, activeSlot, dev, used, owner>>
      /\ call \in Calls
      /\ \/ /\ call.page = "profile" /\ UNCHANGED active
            /\ \A s \in Slots : s # call.slot => stored'[s] = stored[s]
            /\ \A s \in Slots : s = call.slot =>
                 \/ IsSave(call) /\ stored'[s] = call.op.profile
                 \/ ~IsSave(call) /\ stored'[s] = None
         \/ call.page = "active" /\ active' = call.slot /\ UNCHANGED stored
  BY StoreStepStep
<1>2. /\ call = todo[1] /\ 1 \in 1..Len(todo)
      /\ \A k \in 1..Len(todo') : \E j \in 1..Len(todo) : todo'[k] = todo[j]
      /\ \A s : Called(s)' => Called(s)
      /\ \A s : Called(s) => Called(s)' \/ (call.page = "profile" /\ call.slot = s)
      /\ Recording' => Recording
      /\ call.page = "profile" => (Recording => Recording')
      /\ call.page = "active" => \A s : ~Called(s)
  BY <1>1, CallsAfterFirst
<1> HIDE DEF call
<1>3. UnmadeUnused' /\ NeverReused'
  BY <1>1 DEF CounterInv, UnmadeUnused, NeverReused
<1>4. SavesAhead' /\ (IsSave(call) => Ahead(call.op.profile))
  BY <1>1, <1>2 DEF CounterInv, SavesAhead, Ahead
<1>5. CASE call.page = "profile"
  <2>1. BootSlot' = BootSlot
    BY <1>1, <1>5 DEF BootSlot
  <2>2. ASSUME NEW s \in Slots, stored'[s] # None, ~InUse(s)' PROVE Ahead(stored'[s])
    <3>1. CASE s = call.slot
      BY <3>1, <2>2, <1>1, <1>4, <1>5
    <3>2. CASE s # call.slot
      <4>1. ~InUse(s)
        BY <3>2, <2>1, <2>2, <1>1, <1>2, <1>5 DEF InUse
      <4>2. stored'[s] = stored[s]
        BY <3>2, <1>1, <1>5
      <4> QED
        BY <4>1, <4>2, <2>2 DEF CounterInv, AtRest
    <3> QED
      BY <3>1, <3>2
  <2>3. AtRest'
    BY <2>2, <1>1 DEF AtRest, Ahead
  <2>4. ASSUME Covered PROVE Covered'
    <3> SUFFICES ASSUME NEW s \in Slots, stored'[s] # None
                 PROVE  stored'[s].cnt + BootJump >= used[stored'[s].id]
      BY <1>1 DEF Covered
    <3>1. CASE s = call.slot
      <4>1. IsSave(call) /\ stored'[s] = call.op.profile
        BY <3>1, <1>1, <1>5
      <4>2. PICK p : p = call.op.profile
        OBVIOUS
      <4>3. p.cnt >= used[p.id] /\ Counted(p)
        BY <4>1, <4>2, <1>2, <1>4 DEF Ahead, Made
      <4>4. used[p.id] \in Nat /\ p.cnt \in Nat
        BY <4>3, Constants DEF Counted, JInv, IInv, TypeOK, AllIds
      <4>5. PICK x \in Nat, y \in Nat : x = p.cnt /\ y = used[p.id]
        BY <4>4
      <4>6. x + BootJump >= y
        BY <4>3, <4>5, Constants
      <4> QED
        BY <4>1, <4>2, <4>5, <4>6
    <3>2. CASE s # call.slot
      BY <3>2, <2>4, <1>1, <1>5 DEF Covered
    <3> QED
      BY <3>1, <3>2
  <2> QED
    BY <2>3, <2>4, <1>3, <1>4 DEF CounterInv
<1>6. CASE call.page = "active"
  <2>1. Recording
    BY <1>2, <1>6 DEF Recording
  <2>2. \A s \in Slots : ~InUse(s)
    BY <2>1, <1>1, <1>2, <1>6 DEF InUse
  <2>3. stored' = stored
    BY <1>1, <1>6
  <2>4. AtRest'
    BY <2>2, <2>3, <1>1 DEF CounterInv, AtRest, Ahead
  <2>5. Covered => Covered'
    BY <2>3, <1>1 DEF Covered
  <2> QED
    BY <2>4, <2>5, <1>3, <1>4 DEF CounterInv
<1> QED
  BY <1>1, <1>5, <1>6

LEMMA PowerLossCounterInv ==
  ASSUME WholeRecords, JInv, ActiveLast, Made, CounterInv, PowerLoss
  PROVE  CounterInv'
<1>1. /\ on /\ ~on' /\ todo' = <<>> /\ ~paired' /\ UNCHANGED <<used, owner>> /\ ~SteadySupply
      /\ \A s \in Slots :
           \/ stored'[s] = stored[s]
           \/ stored'[s] = None
           \/ todo # <<>> /\ IsSave(Head(todo)) /\ stored'[s] = Head(todo).op.profile
      /\ active' = active \/ (todo # <<>> /\ Head(todo).page = "active")
  BY PowerLossStep
<1>2. Covered
  BY <1>1 DEF CounterInv
<1>3. UnmadeUnused' /\ NeverReused' /\ SavesAhead'
  <2>1. Len(todo') = 0
    BY <1>1
  <2> QED
    BY <2>1, <1>1 DEF CounterInv, UnmadeUnused, NeverReused, SavesAhead
<1>4. ASSUME todo # <<>>, IsSave(Head(todo))
      PROVE  /\ Ahead(Head(todo).op.profile)
             /\ Head(todo).op.profile.cnt + BootJump >= used[Head(todo).op.profile.id]
  <2>1. PICK p : p = Head(todo).op.profile
    OBVIOUS
  <2>2. Ahead(p) /\ Counted(p)
    BY <2>1, <1>4, FirstIsCall DEF CounterInv, SavesAhead, Made
  <2>3. used[p.id] \in Nat /\ p.cnt \in Nat
    BY <2>2, Constants DEF Counted, JInv, IInv, TypeOK, AllIds
  <2>4. PICK x \in Nat, y \in Nat : x = p.cnt /\ y = used[p.id]
    BY <2>3
  <2>5. x + BootJump >= y
    BY <2>2, <2>4, Constants DEF Ahead
  <2> QED
    BY <2>1, <2>2, <2>4, <2>5
<1>5. \A s \in Slots : s # BootSlot' => ~InUse(s)
  <2>1. CASE todo # <<>> /\ Head(todo).page = "active"
    <3>1. PICK k \in 1..Len(todo) : todo[k] = Head(todo)
      BY <2>1, FirstIsCall
    <3>2. Recording
      BY <2>1, <3>1 DEF Recording
    <3>3. \A s : ~Called(s)
      <4>1. /\ Len(todo) \in Nat /\ Head(todo) = todo[1]
        BY <2>1, RestOfCalls DEF JInv
      <4>2. Len(todo) = 1
        BY <2>1, <4>1, RestOfCalls DEF JInv, ActiveLast
      <4> QED
        BY <2>1, <4>1, <4>2 DEF Called
    <3> QED
      BY <3>2, <3>3, <1>1 DEF InUse
  <2>2. CASE active' = active
    <3>1. BootSlot' = BootSlot
      BY <2>2 DEF BootSlot
    <3> QED
      BY <3>1 DEF InUse
  <2> QED
    BY <2>1, <2>2, <1>1
<1>6. AtRest'
  <2> SUFFICES ASSUME NEW s \in Slots, stored'[s] # None, ~InUse(s)' PROVE Ahead(stored'[s])
    BY <1>1 DEF AtRest, Ahead
  <2>1. ~InUse(s)
    BY <1>1, <1>5 DEF InUse
  <2> QED
    BY <2>1, <1>1, <1>4 DEF CounterInv, AtRest
<1>7. Covered'
  BY <1>1, <1>2, <1>4 DEF Covered
<1> QED
  BY <1>3, <1>6, <1>7 DEF CounterInv

LEMMA BootCounterInv ==
  ASSUME NoWrap, JInv, Made, CounterInv, ~SteadySupply, Boot
  PROVE  CounterInv'
<1>1. /\ ~on /\ on' /\ UNCHANGED <<stored, active, used, owner>>
      /\ activeSlot' = BootSlot /\ BootSlot \in Slots
      /\ \A k \in 1..Len(todo') : IsSave(todo'[k]) => paired' /\ todo'[k].op.profile = dev'
      /\ ~Recording'
      /\ stored[BootSlot] = None => ~paired'
      /\ stored[BootSlot] # None =>
           dev'.id = stored[BootSlot].id /\ dev'.cnt = stored[BootSlot].cnt + BootJump
  BY BootStep
<1>2. Covered /\ UnmadeUnused' /\ Covered'
  BY <1>1 DEF CounterInv, UnmadeUnused, Covered
<1>3. paired' => Ahead(dev)'
  BY <1>1, <1>2 DEF Covered, Ahead
<1>4. NeverReused' /\ SavesAhead'
  BY <1>1, <1>3 DEF NeverReused, SavesAhead, Ahead
<1>5. BootSlot' = BootSlot
  BY <1>1 DEF BootSlot
<1>6. \A s \in Slots : InUse(s) => InUse(s)'
  BY <1>1, <1>5 DEF InUse
<1>7. AtRest'
  BY <1>1, <1>6 DEF CounterInv, AtRest, Ahead
<1> QED
  BY <1>2, <1>4, <1>7 DEF CounterInv

LEMMA NextCounterInv ==
  ASSUME PairsInPlace, SteadySupply \/ (WholeRecords /\ NoWrap),
         JInv, ActiveLast, Made, CounterInv, SteadySupply \/ Lead', [Next]_vars
  PROVE  CounterInv'
<1>1. CASE UNCHANGED vars
  BY <1>1
  DEF vars, ram, flash, ghost, CounterInv, UnmadeUnused, AtRest, InUse, BootSlot, Called,
      Recording, SavesAhead, Ahead, Covered, NeverReused
<1>2. CASE PowerLoss
  BY <1>2, PowerLossCounterInv DEF PowerLoss, SteadySupply
<1>3. CASE Boot
  <2>1. ~SteadySupply
    BY <1>3 DEF Boot, Made
  <2> QED
    BY <2>1, <1>3, BootCounterInv
<1> QED
  BY <1>1, <1>2, <1>3, QuietCounterInv, ReportCounterInv, UPairCounterInv, USwitchCounterInv,
     StoreStepCounterInv DEF Next, Quiet, Report

\* A counter is never used twice with a key, whatever the host sends and however the
\* link behaves, if the supply does not fail and UPAIR names the active slot
\* (docs/TECHNICAL.md, the counter section).
THEOREM CounterNeverReused ==
  ASSUME SteadySupply, PairsInPlace
  PROVE  Spec => []NeverReused
<1>1. JInv /\ ActiveLast /\ Made /\ CounterInv /\ [Next]_vars => CounterInv'
  BY NextCounterInv
<1>2. CounterInv => NeverReused
  BY DEF CounterInv
<1>3. Spec => []Made
  BY AlwaysMade
<1> QED
  BY <1>1, <1>2, <1>3, InitCounterInv, AlwaysJInv, AlwaysActiveLast, PTL DEF Spec

\* The same with power failures at any step, in any store call, as long as no more counters
\* are used between two saves than a boot jumps over: the jump then passes all that the lost
\* RAM had used, for the pairing of the slot that the boot finds, and the others were saved
\* when they were left (main.rs, the boot code and switch_to).
THEOREM CounterSurvivesPowerLoss ==
  ASSUME PairsInPlace, WholeRecords, NoWrap
  PROVE  Spec /\ []Lead => []NeverReused
<1>1. JInv /\ ActiveLast /\ Made /\ CounterInv /\ Lead' /\ [Next]_vars => CounterInv'
  BY NextCounterInv
<1>2. CounterInv => NeverReused
  BY DEF CounterInv
<1>3. Spec => []Made
  BY AlwaysMade
<1> QED
  BY <1>1, <1>2, <1>3, InitCounterInv, AlwaysJInv, AlwaysActiveLast, PTL DEF Spec
-----------------------------------------------------------------------------
(* Short bursts *)

\* One UKEY after as many unsaved counters as there can be stays within a boot jump:
\* 127 + 40 <= 512 in the firmware.
ShortPress == SaveEvery - 1 + 2 * PressTries <= BootJump

\* No value from c to d is one at which UKEYDOWN saves.
Unmarked(c, d) == \A m \in (c + 1)..d : m % SaveEvery # 0

\* How far the counter may be from the stored one when k characters have been typed.
Reach(k) == SaveEvery - 1 + 2 * PressTries * k

\* What the steps of a behaviour must keep to: a UKEYDOWN may reach a multiple of SaveEvery
\* with its last attempt, where it saves, but steps over none with an earlier one; an
\* all-up, which never saves, reaches none; and a text is of at most so many characters as
\* fit in a jump (nine in the firmware).
Calm ==
  /\ UKeyDown => Unmarked(dev.cnt, dev'.cnt - 1)
  /\ AllUp => Unmarked(dev.cnt, dev'.cnt)
  /\ UType => Reach(typing') <= BootJump

\* A command begins with no more unsaved counters than UKEYDOWN leaves, and a text adds what
\* its characters use.
Burst ==
  /\ Lead
  /\ on /\ paired /\ typing = 0 /\ ~Called(activeSlot) =>
       Unmarked(stored[activeSlot].cnt, dev.cnt)
  /\ typing > 0 =>
       \E n \in Nat : /\ Reach(n) <= BootJump
                      /\ typing <= n /\ dev.cnt <= stored[activeSlot].cnt + Reach(n - typing)

LEMMA FewUnmarked ==
  ASSUME NEW c \in Nat, NEW d \in Nat, Unmarked(c, d)
  PROVE  d <= c + SaveEvery - 1
<1>1. SaveEvery \in Nat \ {0}
  BY Numbers
<1> SUFFICES ASSUME d >= c + SaveEvery PROVE FALSE
  BY <1>1
<1>2. PICK e \in Nat : e = SaveEvery /\ e > 0
  BY <1>1
<1>3. PICK q \in Nat, r \in Nat : q = c \div e /\ r = c % e
  BY <1>2
<1>4. c = e * q + r /\ r < e
  BY <1>2, <1>3
<1> DEFINE m == e * (q + 1)
<1>5. m \in (c + 1)..d
  BY <1>2, <1>4
<1>6. m % e = 0
  BY <1>2, SMTT(60)
<1> QED
  BY <1>2, <1>5, <1>6 DEF Unmarked

LEMMA MoreUnmarked ==
  ASSUME NEW c \in Nat, NEW d \in Nat, NEW e \in Nat, Unmarked(c, d), Unmarked(d, e)
  PROVE  Unmarked(c, e)
<1> SUFFICES ASSUME NEW m \in (c + 1)..e PROVE m % SaveEvery # 0
  BY DEF Unmarked
<1>1. m \in (c + 1)..d \/ m \in (d + 1)..e
  OBVIOUS
<1> QED
  BY <1>1 DEF Unmarked

LEMMA ReachGrows ==
  ASSUME NEW k \in Nat
  PROVE  /\ Reach(k) \in Nat /\ Reach(k + 1) = Reach(k) + 2 * PressTries
         /\ \A n \in Nat : k <= n => Reach(k) <= Reach(n)
<1>1. SaveEvery - 1 \in Nat /\ 2 * PressTries \in Nat
  BY Numbers
<1>2. PICK p \in Nat : p = 2 * PressTries
  BY <1>1
<1>3. p * k \in Nat /\ p * (k + 1) = p * k + p
  OBVIOUS
<1>4. \A n \in Nat : k <= n => p * k <= p * n
  OBVIOUS
<1>5. \A n \in Nat : Reach(n) = SaveEvery - 1 + p * n
  BY <1>2 DEF Reach
<1> QED
  BY <1>1, <1>2, <1>3, <1>4, <1>5

LEMMA ReachOfPress ==
  ASSUME ShortPress
  PROVE  /\ Reach(0) = SaveEvery - 1 /\ Reach(0) \in Nat
         /\ Reach(1) = Reach(0) + 2 * PressTries /\ Reach(1) \in Nat
         /\ Reach(1) <= BootJump /\ Reach(0) + 1 <= BootJump
<1>1. PICK e \in Nat \ {0}, p \in Nat \ {0}, j \in Nat :
        e = SaveEvery /\ p = PressTries /\ j = BootJump
  BY Numbers
<1>2. e - 1 + 2 * p <= j
  BY <1>1 DEF ShortPress
<1>3. Reach(0) = e - 1 /\ Reach(1) = e - 1 + 2 * p
  BY <1>1 DEF Reach
<1> QED
  BY <1>1, <1>2, <1>3

\* Between commands the counter of the pairing in use is not far from the stored one.
LEMMA FewUnsaved ==
  ASSUME JInv, Made, Burst, on, todo = <<>>, paired
  PROVE  /\ stored[activeSlot] # None /\ stored[activeSlot].id = dev.id
         /\ stored[activeSlot].cnt \in Nat /\ dev.cnt \in Nat
         /\ typing = 0 => /\ Unmarked(stored[activeSlot].cnt, dev.cnt)
                          /\ dev.cnt <= stored[activeSlot].cnt + Reach(0)
<1>1. /\ stored[activeSlot] # None /\ stored[activeSlot].id = dev.id
      /\ activeSlot \in Slots /\ dev # None
  BY BetweenCommands DEF Agrees, JInv, IInv, TypeOK, PairedHasProfile
<1>2. stored[activeSlot].cnt \in Nat /\ dev.cnt \in Nat
  BY <1>1, Constants DEF Made, Counted
<1>3. typing = 0 => Unmarked(stored[activeSlot].cnt, dev.cnt)
  BY EmptyNoCalls DEF Burst, NoCalls
<1>4. Reach(0) = SaveEvery - 1
  BY Numbers DEF Reach
<1>5. PICK c \in Nat, d \in Nat : c = stored[activeSlot].cnt /\ d = dev.cnt
  BY <1>2
<1>6. typing = 0 => d <= c + Reach(0)
  BY <1>3, <1>4, <1>5, FewUnmarked, Numbers
<1> QED
  BY <1>1, <1>2, <1>3, <1>5, <1>6

LEMMA QuietBurst ==
  ASSUME ShortPress, Calm, JInv, Made, Burst, Quiet
  PROVE  Burst'
<1>1. /\ on /\ todo = <<>> /\ UNCHANGED <<on, activeSlot, dev, stored>>
      /\ paired' => paired
  BY QuietStep
<1>2. Lead'
  <2>1. Lead
    BY DEF Burst
  <2> QED
    BY <1>1, <2>1 DEF Lead
<1>3. typing = 0 /\ (UType \/ typing' = 0)
  BY DEF Quiet, UPairFails, UConnect, USwitchSame, UType, PollRadio, USleep, PowerWarning,
         UDelete, UDeleteAll, Starts, ram
<1>4. paired' => Unmarked(stored'[activeSlot'].cnt, dev'.cnt)
  <2>1. paired => Unmarked(stored[activeSlot].cnt, dev.cnt)
    BY <1>1, <1>3, FewUnsaved
  <2> QED
    BY <1>1, <2>1
<1>5. ASSUME typing' > 0
      PROVE  \E n \in Nat :
               /\ Reach(n) <= BootJump
               /\ typing' <= n /\ dev'.cnt <= stored'[activeSlot'].cnt + Reach(n - typing')
  <2>1. /\ UType /\ paired /\ typing' \in TextLengths
        /\ Reach(typing') <= BootJump
    BY <1>3, <1>5 DEF UType, JInv, IInv, ConnectedIsPaired, Calm
  <2>2. PICK n \in Nat : n = typing' /\ Reach(n) <= BootJump
    BY <2>1, Numbers
  <2>3. n - n = 0 /\ n <= n
    OBVIOUS
  <2>4. dev.cnt <= stored[activeSlot].cnt + Reach(0)
    BY <1>1, <1>3, <2>1, FewUnsaved
  <2> QED
    BY <1>1, <2>2, <2>3, <2>4
<1> QED
  BY <1>2, <1>4, <1>5 DEF Burst

LEMMA UPairBurst ==
  ASSUME PairsInPlace, JInv, Made, UPair
  PROVE  Burst'
<1>1. /\ UNCHANGED <<activeSlot, stored>> /\ dev'.id \in Ids /\ owner[dev'.id] = None
      /\ activeSlot \in Slots /\ Called(activeSlot)' /\ typing' = 0
  BY UPairStep DEF Counted, UPair, Starts
<1>2. stored[activeSlot] # None => stored[activeSlot].id # dev'.id
  BY <1>1, NoneAssumption DEF JInv, IInv, SlotOwnership
<1>3. Lead'
  BY <1>1, <1>2 DEF Lead
<1> QED
  BY <1>1, <1>3 DEF Burst

LEMMA USwitchBurst ==
  ASSUME JInv, Made, USwitch
  PROVE  Burst'
<1>1. /\ UNCHANGED stored /\ typing' = 0 /\ activeSlot' \in Slots
      /\ paired' => stored[activeSlot'] # None /\ dev' = stored[activeSlot']
  BY USwitchStep DEF USwitch, Starts
<1>2. ASSUME paired' PROVE Lead' /\ Unmarked(stored'[activeSlot'].cnt, dev'.cnt)
  <2>1. PICK c \in Nat : c = dev'.cnt
    BY <1>1, <1>2, Constants DEF Made, Counted
  <2>2. stored'[activeSlot'].cnt = c
    BY <1>1, <1>2, <2>1
  <2> QED
    BY <2>1, <2>2, Constants DEF Lead, Unmarked
<1> QED
  BY <1>1, <1>2 DEF Burst, Lead

LEMMA StoreStepBurst ==
  ASSUME JInv, ActiveLast, Made, Burst, StoreStep
  PROVE  Burst'
<1> DEFINE call == Head(todo)
<1>1. /\ on /\ todo # <<>> /\ todo' = Tail(todo)
      /\ UNCHANGED <<on, paired, activeSlot, dev, typing>> /\ activeSlot \in Slots
      /\ call \in Calls
      /\ \/ /\ call.page = "profile"
            /\ \A s \in Slots : s # call.slot => stored'[s] = stored[s]
            /\ \A s \in Slots : s = call.slot =>
                 \/ IsSave(call) /\ stored'[s] = call.op.profile
                 \/ ~IsSave(call) /\ stored'[s] = None
         \/ call.page = "active" /\ UNCHANGED stored
  BY StoreStepStep DEF JInv, IInv, TypeOK
<1>2. typing' = 0
  BY <1>1 DEF JInv, IInv, TypeOK, FlashInv, TypingIdle
<1>3. \A s : Called(s) => Called(s)' \/ (call.page = "profile" /\ call.slot = s)
  BY <1>1, CallsAfterFirst
<1>4. PICK k \in 1..Len(todo) : todo[k] = call
  BY <1>1, FirstIsCall
<1> HIDE DEF call
<1>5. CASE ~(call.page = "profile" /\ call.slot = activeSlot)
  <2>1. stored'[activeSlot] = stored[activeSlot] /\ (Called(activeSlot) => Called(activeSlot)')
    BY <1>1, <1>3, <1>5
  <2>2. Lead'
    <3>1. Lead
      BY DEF Burst
    <3> QED
      BY <1>1, <2>1, <3>1 DEF Lead
  <2>3. on' /\ paired' /\ typing' = 0 /\ ~Called(activeSlot)' =>
          Unmarked(stored'[activeSlot'].cnt, dev'.cnt)
    BY <1>1, <1>2, <2>1 DEF Burst
  <2> QED
    BY <1>2, <2>2, <2>3 DEF Burst
<1>6. CASE call.page = "profile" /\ call.slot = activeSlot
  <2> SUFFICES ASSUME paired, stored'[activeSlot] # None PROVE Burst'
    <3>1. ~paired => Burst'
      BY <1>1, <1>2 DEF Burst, Lead
    <3>2. paired => stored'[activeSlot] # None
      <4> SUFFICES ASSUME paired PROVE stored'[activeSlot] # None
        OBVIOUS
      <4>1. call.op = SaveOf(dev)
        BY <1>4, <1>6 DEF JInv, FlashInv, CallsOnActive, OnActive
      <4>2. IsSave(call)
        BY <4>1, <1>6 DEF IsSave, SaveOf
      <4> QED
        BY <1>1, <1>6, <4>1, <4>2 DEF SaveOf, JInv, IInv, PairedHasProfile
    <3> QED
      BY <3>1, <3>2
  <2>2. stored'[activeSlot] = dev
    <3>1. call.op = SaveOf(dev)
      BY <1>4, <1>6 DEF JInv, FlashInv, CallsOnActive, OnActive
    <3>2. IsSave(call)
      BY <3>1, <1>6 DEF IsSave, SaveOf
    <3> QED
      BY <1>1, <1>6, <3>1, <3>2 DEF SaveOf
  <2>3. PICK c \in Nat : c = dev.cnt
    BY <2>2, Constants DEF Made, Counted
  <2>4. Lead' /\ Unmarked(stored'[activeSlot'].cnt, dev'.cnt)
    BY <1>1, <2>2, <2>3, Constants DEF Lead, Unmarked
  <2> QED
    BY <1>2, <2>4 DEF Burst
<1> QED
  BY <1>5, <1>6

LEMMA BootBurst ==
  ASSUME NoWrap, JInv, Made, Boot
  PROVE  Burst'
<1>1. /\ UNCHANGED stored /\ typing' = 0 /\ activeSlot' = BootSlot /\ BootSlot \in Slots
      /\ stored[BootSlot] = None => ~paired'
      /\ stored[BootSlot] # None =>
           /\ \A s : s = BootSlot => Called(s)'
           /\ dev'.cnt = stored[BootSlot].cnt + BootJump
  BY BootStep DEF Boot, JInv, IInv, OffIsReset
<1>2. stored[BootSlot] # None => Called(activeSlot)'
  BY <1>1
<1>3. Lead'
  <2> SUFFICES ASSUME stored[BootSlot] # None PROVE dev'.cnt <= stored'[activeSlot'].cnt + BootJump
    BY <1>1 DEF Lead
  <2>1. PICK c \in Nat : c = stored[BootSlot].cnt
    BY <1>1, Constants DEF Made, Counted
  <2> QED
    BY <1>1, <2>1, Constants
<1> QED
  BY <1>1, <1>2, <1>3 DEF Burst

LEMMA ReportBurst ==
  ASSUME ShortPress, Calm, JInv, Made, Burst, Report
  PROVE  Burst'
<1>1. /\ on /\ todo = <<>> /\ paired /\ UNCHANGED <<on, paired, activeSlot, stored>>
      /\ dev.cnt \in Nat /\ dev # None
  BY ReportStep
<1>2. PICK c \in Nat, d \in Nat : c = stored[activeSlot].cnt /\ d = dev.cnt
  BY <1>1, FewUnsaved
<1>3. typing = 0 => Unmarked(c, d) /\ d <= c + Reach(0)
  BY <1>1, <1>2, FewUnsaved
<1>4. dev \in AllProfiles
  BY <1>1 DEF JInv, IInv, TypeOK, Loadable
<1>5. \A n : Send(n) => dev'.cnt = d + n
  BY <1>2, <1>4 DEF Send, AllProfiles
<1>6. ASSUME NEW e \in Nat, dev'.cnt = e, e <= c + BootJump PROVE Lead'
  BY <1>1, <1>2, <1>6 DEF Lead
<1>7. ASSUME todo' = <<Save(activeSlot, dev')>> PROVE Called(activeSlot)'
  <2>1. Len(todo') = 1 /\ todo'[1].page = "profile" /\ todo'[1].slot = activeSlot
    BY <1>7 DEF Save, ProfileCall
  <2> QED
    BY <1>1, <2>1 DEF Called
<1>8. /\ Reach(0) = SaveEvery - 1 /\ Reach(0) \in Nat
      /\ Reach(1) = Reach(0) + 2 * PressTries /\ Reach(1) \in Nat
      /\ Reach(1) <= BootJump /\ Reach(0) + 1 <= BootJump
  BY ReachOfPress
<1>9. CASE UKey
  <2>1. PICK n \in 2..(2 * PressTries) : Send(n)
    BY <1>9 DEF UKey
  <2>2. typing = 0 /\ typing' = 0 /\ todo' = <<Save(activeSlot, dev')>>
    BY <1>1, <1>9 DEF UKey, Starts
  <2>3. d + n \in Nat /\ d + n <= c + BootJump
    BY <2>2, <1>3, <1>8, Constants
  <2> QED
    BY <2>1, <2>2, <2>3, <1>5, <1>6, <1>7 DEF Burst
<1>10. CASE UKeyDown
  <2>1. typing = 0 /\ typing' = 0
    BY <1>10 DEF UKeyDown, Starts
  <2>2. PICK n \in Nat \ {0} : Send(n)
    BY <1>10, Numbers DEF UKeyDown
  <2>3. PICK e \in Nat : e = d + n /\ dev'.cnt = e /\ e - 1 \in Nat
    BY <2>2, <1>5
  <2>4. Unmarked(c, e - 1)
    <3>1. Unmarked(d, e - 1)
      BY <1>10, <1>2, <2>3 DEF Calm
    <3> QED
      BY <2>1, <2>3, <3>1, <1>3, MoreUnmarked
  <2>5. e <= c + BootJump
    <3>1. e - 1 <= c + SaveEvery - 1
      BY <2>3, <2>4, FewUnmarked
    <3> QED
      BY <2>3, <3>1, <1>8, Constants, Numbers
  <2>6. Called(activeSlot)' \/ Unmarked(c, e)
    <3>1. CASE e % SaveEvery = 0
      BY <3>1, <1>1, <1>7, <1>10, <2>3 DEF UKeyDown
    <3>2. CASE e % SaveEvery # 0
      <4> SUFFICES ASSUME NEW m \in (c + 1)..e PROVE m % SaveEvery # 0
        BY DEF Unmarked
      <4>1. m = e \/ m \in (c + 1)..(e - 1)
        BY <2>3
      <4> QED
        BY <3>2, <4>1, <2>4 DEF Unmarked
    <3> QED
      BY <3>1, <3>2
  <2>7. Called(activeSlot)' \/ Unmarked(stored'[activeSlot'].cnt, dev'.cnt)
    BY <2>3, <2>6, <1>1, <1>2
  <2> QED
    BY <2>1, <2>3, <2>5, <2>7, <1>6 DEF Burst
<1>11. CASE TypeChar
  <2>1. PICK n \in 2..(2 * PressTries) : Send(n)
    BY <1>11 DEF TypeChar
  <2>2. PICK x \in Nat : Reach(x) <= BootJump /\ typing <= x /\ d <= c + Reach(x - typing)
    BY <1>2, <1>11 DEF TypeChar, Burst
  <2>3. PICK t \in Nat : t = typing /\ t > 0
    BY <1>11 DEF TypeChar, JInv, IInv, TypeOK
  <2>4. /\ x - t \in Nat /\ x - (t - 1) = (x - t) + 1 /\ (x - t) + 1 \in Nat
        /\ (x - t) + 1 <= x /\ typing' = t - 1
    BY <2>2, <2>3, <1>11 DEF TypeChar
  <2>5. /\ Reach(x - t) \in Nat /\ Reach(x - (t - 1)) = Reach(x - t) + 2 * PressTries
        /\ Reach(x - (t - 1)) \in Nat
    BY <2>4, ReachGrows
  <2>6. Reach(x - (t - 1)) <= BootJump
    <3>1. Reach(x - (t - 1)) <= Reach(x) /\ Reach(x) \in Nat
      BY <2>4, ReachGrows
    <3> QED
      BY <2>2, <2>5, <3>1, Constants
  <2>7. dev'.cnt = d + n /\ d + n \in Nat
    BY <2>1, <1>5
  <2>8. d + n <= c + Reach(x - (t - 1))
    BY <2>2, <2>3, <2>5, Constants
  <2>9. Lead'
    BY <2>5, <2>6, <2>7, <2>8, <1>6, Constants
  <2>10. typing' = 0 => Called(activeSlot)'
    BY <1>1, <1>7, <1>11 DEF TypeChar
  <2>11. typing' <= x /\ dev'.cnt <= stored'[activeSlot'].cnt + Reach(x - typing')
    BY <2>2, <2>3, <2>4, <2>7, <2>8, <1>1, <1>2
  <2> QED
    BY <2>2, <2>9, <2>10, <2>11 DEF Burst
<1>12. CASE AllUp
  <2>1. typing = 0 /\ typing' = 0
    BY <1>12 DEF AllUp, Starts
  <2>2. PICK n \in Nat : Send(n)
    BY <1>12, Numbers DEF AllUp
  <2>3. PICK e \in Nat : e = d + n /\ dev'.cnt = e
    BY <2>2, <1>5
  <2>4. Unmarked(c, e)
    <3>1. Unmarked(d, e)
      BY <1>12, <1>2, <2>3 DEF Calm
    <3> QED
      BY <2>1, <3>1, <1>3, MoreUnmarked
  <2>5. e <= c + BootJump
    <3>1. e <= c + SaveEvery - 1
      BY <2>4, FewUnmarked
    <3> QED
      BY <3>1, <1>8, Constants, Numbers
  <2>6. Unmarked(stored'[activeSlot'].cnt, dev'.cnt)
    BY <2>3, <2>4, <1>1, <1>2
  <2> QED
    BY <2>1, <2>3, <2>5, <2>6, <1>6 DEF Burst
<1> QED
  BY <1>9, <1>10, <1>11, <1>12 DEF Report

LEMMA InitBurst == Init => Burst
BY DEF Init, Burst, Lead

LEMMA NextBurst ==
  ASSUME PairsInPlace, NoWrap, ShortPress, JInv, ActiveLast, Made, Burst, [Next]_vars,
         [Calm]_vars
  PROVE  Burst'
<1>1. CASE UNCHANGED vars
  <2>1. UNCHANGED <<on, paired, activeSlot, dev, typing, stored, todo>>
    BY <1>1 DEF vars, ram, flash
  <2>2. Called(activeSlot)' = Called(activeSlot)
    BY <2>1 DEF Called
  <2> QED
    BY <2>1, <2>2 DEF Burst, Lead
<1>2. CASE PowerLoss
  <2>1. on' = FALSE /\ typing' = 0
    BY <1>2 DEF PowerLoss
  <2> QED
    BY <2>1 DEF Burst, Lead
<1>3. CASE Calm /\ ~UNCHANGED vars
  BY <1>2, <1>3, QuietBurst, ReportBurst, UPairBurst, USwitchBurst, StoreStepBurst, BootBurst
  DEF Next, Quiet, Report
<1> QED
  BY <1>1, <1>3

\* No power failure makes a counter be used again, at any step of any sequence of commands
\* and all-ups, in a behaviour whose steps are Calm: no attempt of a UKEYDOWN but its last,
\* and no all-up, reaches a multiple of SaveEvery, and texts are short enough for the jump.
\* What was used since the last save then stays within it (main.rs, the boot code and the
\* saves of UKEY, UKEYDOWN and UTYPE).  The code does not see to the first two: a report
\* makes up to three attempts and an all-up up to twenty, and the test for a multiple comes
\* after the last of a report, and never after an all-up.
THEOREM ShortBurstsKeepCounter ==
  ASSUME PairsInPlace, WholeRecords, NoWrap, ShortPress
  PROVE  Spec /\ [][Calm]_vars => []NeverReused
<1>1. JInv /\ ActiveLast /\ Made /\ Burst /\ [Next]_vars /\ [Calm]_vars => Burst'
  BY NextBurst
<1>2. Burst => Lead
  BY DEF Burst
<1>3. Spec => []Made
  BY AlwaysMade
<1>4. Spec /\ []Lead => []NeverReused
  BY CounterSurvivesPowerLoss
<1> QED
  BY <1>1, <1>2, <1>3, <1>4, InitBurst, AlwaysJInv, AlwaysActiveLast, PTL DEF Spec
=============================================================================

------------------------- MODULE PairingStoreProofs -------------------------
(***************************************************************************)
(* Proofs that RAM and flash agree in Pairing: what a restart finds, that a *)
(* lost pairing does not come back, and that every slot is used as the      *)
(* abstract store allows.  The invariant says what the store calls of a     *)
(* command will have done when the last of them returns.                    *)
(***************************************************************************)
EXTENDS PairingProofs

OnActive(call) == call.page = "profile" /\ call.slot = activeSlot

\* A command calls the store once for a slot.
DistinctSlots ==
  \A j, k \in 1..Len(todo) :
    j < k /\ todo[j].page = "profile" /\ todo[k].page = "profile" =>
      todo[j].slot # todo[k].slot

\* The call for the active slot makes it agree with RAM.
CallsOnActive ==
  \A k \in 1..Len(todo) :
    OnActive(todo[k]) => todo[k].op = IF paired THEN SaveOf(dev) ELSE ClearOp

ActivePersisted ==
  paired => \A k \in 1..Len(todo) : todo[k].page = "active" => todo[k].slot = activeSlot

\* Only a slot that holds a torn pairing is saved with one.
SavesHeld ==
  \A k \in 1..Len(todo) :
    todo[k].page = "profile" /\ todo[k].op.kind = "save"
      /\ todo[k].op.profile.id \notin Ids =>
        stored[todo[k].slot] # None /\ stored[todo[k].slot].id = todo[k].op.profile.id

TornInFlash ==
  paired /\ dev.id \notin Ids => stored[activeSlot] # None /\ stored[activeSlot].id = dev.id

\* The active slot agrees with RAM.
Agrees ==
  IF paired
    THEN /\ stored[activeSlot] # None
         /\ stored[activeSlot].id = dev.id
         /\ stored[activeSlot].cnt <= dev.cnt
    ELSE stored[activeSlot] = None

WillAgree == on => Agrees \/ \E k \in 1..Len(todo) : OnActive(todo[k])

\* A boot comes back to the active slot.
WillBoot ==
  paired => BootSlot = activeSlot \/ \E k \in 1..Len(todo) : todo[k].page = "active"

TypingIdle == typing > 0 => todo = <<>>

FlashInv ==
  /\ DistinctSlots /\ CallsOnActive /\ ActivePersisted /\ SavesHeld
  /\ TornInFlash /\ WillAgree /\ WillBoot /\ TypingIdle

\* The inductive invariant.
JInv == IInv /\ FlashInv

\* Between commands flash agrees with RAM.
LEMMA BetweenCommands ==
  ASSUME FlashInv, on, todo = <<>>
  PROVE  Agrees /\ (paired => BootSlot = activeSlot)
BY DEF FlashInv, WillAgree, WillBoot

\* Commands that leave flash alone.
LEMMA NoCallsFlashInv ==
  ASSUME todo' = <<>>, Agrees', paired' => (BootSlot = activeSlot)'
  PROVE  FlashInv'
<1>1. Len(todo') = 0
  OBVIOUS
<1> QED
  BY <1>1
  DEF FlashInv, DistinctSlots, CallsOnActive, ActivePersisted, SavesHeld, TornInFlash,
      Agrees, WillAgree, WillBoot, TypingIdle

\* Commands that save the profile in use.
LEMMA SaveActiveFlashInv ==
  ASSUME todo' = <<Save(activeSlot', dev')>>, activeSlot' \in Slots, dev' \in AllProfiles,
         paired', typing' = 0, TornInFlash', (BootSlot = activeSlot)'
  PROVE  FlashInv'
<1>1. Len(todo') = 1 /\ todo'[1] = Save(activeSlot', dev')
  OBVIOUS
<1>2. /\ todo'[1].page = "profile" /\ todo'[1].slot = activeSlot'
      /\ todo'[1].op = SaveOf(dev') /\ todo'[1].op.profile = dev'
  BY <1>1 DEF Save, ProfileCall, SaveOf
<1>3. DistinctSlots' /\ CallsOnActive' /\ ActivePersisted' /\ SavesHeld'
  BY <1>1, <1>2 DEF DistinctSlots, CallsOnActive, ActivePersisted, SavesHeld, TornInFlash
<1>4. WillAgree' /\ WillBoot' /\ TypingIdle'
  BY <1>1, <1>2 DEF WillAgree, WillBoot, TypingIdle, OnActive
<1> QED
  BY <1>3, <1>4 DEF FlashInv

LEMMA InitFlashInv == Init => FlashInv
<1> SUFFICES ASSUME Init PROVE FlashInv
  OBVIOUS
<1>1. Len(todo) = 0 /\ todo = <<>>
  BY DEF Init
<1>2. Agrees
  BY Constants DEF Init, Agrees
<1> QED
  BY <1>1, <1>2
  DEF Init, FlashInv, DistinctSlots, CallsOnActive, ActivePersisted, SavesHeld, TornInFlash,
      WillAgree, WillBoot, TypingIdle

LEMMA LinkFlashInv ==
  ASSUME JInv, UPairFails \/ UConnect \/ USwitchSame \/ UType \/ PollRadio
  PROVE  FlashInv'
<1>1. UNCHANGED <<paired, activeSlot, dev, flash>> /\ on /\ todo = <<>>
  BY DEF UPairFails, UConnect, USwitchSame, UType, PollRadio, Starts
<1>2. Agrees /\ (paired => BootSlot = activeSlot)
  BY <1>1, BetweenCommands DEF JInv
<1> QED
  BY <1>1, <1>2, NoCallsFlashInv DEF flash, Agrees, BootSlot

LEMMA SaveFlashInv ==
  ASSUME JInv, USleep \/ PowerWarning
  PROVE  FlashInv'
<1>1. /\ on /\ todo = <<>> /\ typing = 0 /\ paired
      /\ UNCHANGED <<paired, activeSlot, dev, typing, stored, active>>
      /\ todo' = <<Save(activeSlot, dev)>>
  BY DEF JInv, IInv, ConnectedIsPaired, USleep, PowerWarning, Starts, ram
<1>2. dev \in AllProfiles /\ activeSlot \in Slots
  BY <1>1 DEF JInv, IInv, TypeOK, Loadable, PairedHasProfile
<1>3. TornInFlash /\ BootSlot = activeSlot
  BY <1>1, BetweenCommands DEF JInv, FlashInv
<1> QED
  BY <1>1, <1>2, <1>3, SaveActiveFlashInv DEF TornInFlash, BootSlot

LEMMA ReportFlashInv ==
  ASSUME JInv, IInv', UKey \/ UKeyDown \/ TypeChar \/ AllUp
  PROVE  FlashInv'
<1>1. /\ on /\ todo = <<>> /\ paired /\ dev \in AllProfiles /\ activeSlot \in Slots
  BY DEF JInv, IInv, FlashInv, TypeOK, Loadable, ConnectedIsPaired, PairedHasProfile,
         TypingConnected, TypingIdle, UKey, UKeyDown, TypeChar, AllUp, Starts
<1>2. PICK n \in Nat : Send(n)
  BY Constants DEF UKey, UKeyDown, TypeChar, AllUp
<1>3. dev' = [dev EXCEPT !.cnt = @ + n] /\ dev.cnt \in Nat
  BY <1>1, <1>2, ProfileFields DEF Send
<1>4. dev' \in AllProfiles /\ dev'.id = dev.id /\ dev.cnt <= dev'.cnt
  <2>1. dev' \in AllProfiles /\ dev'.id = dev.id
    BY <1>1, <1>2, SendType DEF JInv, IInv, TypeOK
  <2>2. dev'.cnt = dev.cnt + n
    BY <1>1, <1>3 DEF AllProfiles
  <2> QED
    BY <2>1, <2>2, <1>3
<1>5. UNCHANGED <<paired, activeSlot, stored, active>>
  BY DEF UKey, UKeyDown, TypeChar, AllUp, flash
<1>6. \/ todo' = <<>>
      \/ todo' = <<Save(activeSlot, dev')>> /\ typing' = 0
  BY <1>1 DEF UKey, UKeyDown, TypeChar, AllUp, flash, Starts
<1>7. Agrees /\ BootSlot = activeSlot
  BY <1>1, BetweenCommands DEF JInv
<1>8. Agrees'
  <2>1. stored[activeSlot] # None /\ stored[activeSlot].id = dev.id
        /\ stored[activeSlot].cnt <= dev.cnt
    BY <1>1, <1>7 DEF Agrees
  <2>2. stored[activeSlot].cnt \in Nat /\ dev'.cnt \in Nat
    BY <2>1, <1>1, <1>4, ProfileFields DEF JInv, IInv, TypeOK, Loadable
  <2>3. stored[activeSlot].cnt <= dev'.cnt
    BY <2>1, <2>2, <1>3, <1>4
  <2> QED
    BY <2>1, <2>3, <1>1, <1>4, <1>5 DEF Agrees
<1>9. TornInFlash'
  BY <1>1, <1>5, <1>8 DEF Agrees, TornInFlash
<1>10. (BootSlot = activeSlot)'
  BY <1>5, <1>7 DEF BootSlot
<1>11. CASE todo' = <<>>
  BY <1>8, <1>10, <1>11, NoCallsFlashInv
<1>12. CASE todo' = <<Save(activeSlot, dev')>> /\ typing' = 0
  BY <1>1, <1>4, <1>5, <1>9, <1>10, <1>12, SaveActiveFlashInv
<1> QED
  BY <1>6, <1>11, <1>12

LEMMA UPairFlashInv ==
  ASSUME JInv, IInv', UPair
  PROVE  FlashInv'
<1>1. PICK s \in Slots : todo' = <<Save(s, dev'), ActiveCall(s)>> /\ activeSlot' = s
  BY DEF UPair, Apply
<1>2. /\ paired' /\ typing' = 0 /\ dev'.id \in Ids
  <2>1. PICK i \in Ids, c \in {0} \cup (IF dev = None THEN {} ELSE {dev.cnt}) :
          dev' = [id |-> i, cnt |-> c]
    BY DEF UPair, Apply
  <2>2. paired' /\ typing' = 0
    BY DEF UPair, Apply, Starts
  <2> QED
    BY <2>1, <2>2
<1>3. dev' \in AllProfiles
  BY <1>2 DEF IInv, TypeOK, Loadable, PairedHasProfile
<1>4. Len(todo') = 2 /\ todo'[1] = Save(s, dev') /\ todo'[2] = ActiveCall(s)
  BY <1>1
<1>5. /\ todo'[1].page = "profile" /\ todo'[1].slot = s /\ todo'[1].op = SaveOf(dev')
      /\ todo'[1].op.profile = dev'
      /\ todo'[2].page = "active" /\ todo'[2].slot = s
  BY <1>4 DEF Save, ProfileCall, SaveOf, ActiveCall
<1>6. DistinctSlots' /\ CallsOnActive' /\ ActivePersisted'
  BY <1>1, <1>2, <1>4, <1>5 DEF DistinctSlots, CallsOnActive, OnActive, ActivePersisted
<1>7. SavesHeld' /\ TornInFlash'
  BY <1>2, <1>4, <1>5 DEF SavesHeld, TornInFlash
<1>8. WillAgree' /\ WillBoot' /\ TypingIdle'
  BY <1>1, <1>2, <1>4, <1>5 DEF WillAgree, WillBoot, TypingIdle, OnActive
<1> QED
  BY <1>6, <1>7, <1>8 DEF FlashInv

LEMMA UDeleteFlashInv ==
  ASSUME JInv, UDelete
  PROVE  FlashInv'
<1>1. PICK s \in Slots :
        /\ todo' = <<ProfileCall(s, ClearOp)>>
        /\ paired' = (paired /\ activeSlot # s)
  BY DEF UDelete
<1>2. /\ on /\ todo = <<>> /\ typing' = 0
      /\ UNCHANGED <<activeSlot, dev, stored, active>>
  BY DEF UDelete, Starts
<1>3. Len(todo') = 1 /\ todo'[1] = ProfileCall(s, ClearOp)
  BY <1>1
<1>4. todo'[1].page = "profile" /\ todo'[1].slot = s /\ todo'[1].op = ClearOp
  BY <1>3 DEF ProfileCall
<1>5. ClearOp.kind # "save"
  BY DEF ClearOp
<1>6. Agrees /\ (paired => BootSlot = activeSlot)
  BY <1>2, BetweenCommands DEF JInv
<1>7. activeSlot = s => ~paired'
  BY <1>1
<1>8. activeSlot # s => paired' = paired
  BY <1>1 DEF JInv, IInv, TypeOK
<1>9. paired' => paired
  BY <1>1
<1>10. DistinctSlots' /\ SavesHeld' /\ ActivePersisted'
  BY <1>3, <1>4, <1>5 DEF DistinctSlots, SavesHeld, ActivePersisted
<1>11. CallsOnActive'
  BY <1>2, <1>3, <1>4, <1>7 DEF CallsOnActive, OnActive
<1>12. WillAgree'
  <2>1. CASE activeSlot = s
    BY <2>1, <1>2, <1>3, <1>4 DEF WillAgree, OnActive
  <2>2. CASE activeSlot # s
    BY <2>2, <1>2, <1>6, <1>8 DEF WillAgree, Agrees
  <2> QED
    BY <2>1, <2>2
<1>13. WillBoot' /\ TypingIdle'
  BY <1>2, <1>6, <1>9 DEF WillBoot, BootSlot, TypingIdle
<1>14. TornInFlash'
  BY <1>2, <1>9 DEF JInv, FlashInv, TornInFlash
<1> QED
  BY <1>10, <1>11, <1>12, <1>13, <1>14 DEF FlashInv

LEMMA UDeleteAllFlashInv ==
  ASSUME JInv, UDeleteAll
  PROVE  FlashInv'
<1>1. ~paired' /\ on' /\ typing' = 0 /\ UNCHANGED activeSlot
  BY DEF UDeleteAll, Starts
<1>2. /\ Len(todo') = MaxProfiles + 1
      /\ \A k \in 1..MaxProfiles :
           todo'[k].page = "profile" /\ todo'[k].slot = k - 1 /\ todo'[k].op = ClearOp
      /\ todo'[MaxProfiles + 1].page = "active"
      /\ \A k \in 1..Len(todo') : todo'[k].page = "profile" => k \in 1..MaxProfiles
      /\ ClearOp.kind # "save"
  BY UDeleteAllCalls
<1>3. DistinctSlots'
  BY <1>2 DEF DistinctSlots
<1>4. CallsOnActive' /\ SavesHeld'
  BY <1>1, <1>2 DEF CallsOnActive, OnActive, SavesHeld
<1>5. WillAgree'
  <2>1. activeSlot + 1 \in 1..MaxProfiles /\ activeSlot + 1 \in 1..Len(todo')
        /\ (activeSlot + 1) - 1 = activeSlot
    BY <1>2, Constants DEF JInv, IInv, TypeOK, Slots
  <2>2. todo'[activeSlot + 1].page = "profile" /\ todo'[activeSlot + 1].slot = activeSlot
    BY <2>1, <1>2
  <2> QED
    BY <2>1, <2>2, <1>1 DEF WillAgree, OnActive
<1> QED
  BY <1>1, <1>3, <1>4, <1>5
  DEF FlashInv, ActivePersisted, TornInFlash, WillBoot, TypingIdle

LEMMA USwitchFlashInv ==
  ASSUME JInv, USwitch
  PROVE  FlashInv'
<1>1. PICK s \in Slots \ {activeSlot} :
        /\ activeSlot' = s
        /\ todo' = SaveLeaving(s) \o <<ActiveCall(s)>>
        /\ IF stored[s] # None
             THEN Apply(stored[s])
             ELSE paired' = FALSE /\ UNCHANGED dev
  BY DEF USwitch
<1>2. /\ on /\ todo = <<>> /\ typing' = 0
      /\ UNCHANGED <<stored, active>>
  BY DEF USwitch, Starts
<1>3. activeSlot \in Slots /\ (paired => dev \in AllProfiles)
  BY DEF JInv, IInv, TypeOK, Loadable, PairedHasProfile
<1>4. Agrees'
  <2>1. CASE stored[s] # None
    <3>1. stored[s].cnt \in Nat
      BY <2>1, ProfileFields DEF JInv, IInv, TypeOK, Loadable
    <3> QED
      BY <2>1, <3>1, <1>1, <1>2 DEF Apply, Agrees
  <2>2. CASE stored[s] = None
    BY <2>2, <1>1, <1>2 DEF Agrees
  <2> QED
    BY <2>1, <2>2
<1>5. WillAgree' /\ TornInFlash' /\ TypingIdle'
  BY <1>2, <1>4 DEF WillAgree, Agrees, TornInFlash, TypingIdle
<1>6. ActiveCall(s).page = "active" /\ ActiveCall(s).slot = s
  BY DEF ActiveCall
<1>7. CASE ~paired
  <2>1. todo' = <<ActiveCall(s)>>
    BY <1>1, <1>7 DEF SaveLeaving
  <2>2. Len(todo') = 1 /\ todo'[1] = ActiveCall(s)
    BY <2>1
  <2> QED
    BY <2>2, <1>1, <1>5, <1>6
    DEF FlashInv, DistinctSlots, CallsOnActive, OnActive, ActivePersisted, SavesHeld, WillBoot
<1>8. CASE paired
  <2>1. todo' = <<Save(activeSlot, dev), ActiveCall(s)>>
    <3>1. SaveLeaving(s) = <<Save(activeSlot, dev)>>
      BY <1>8 DEF SaveLeaving
    <3>2. Save(activeSlot, dev) \in Calls /\ ActiveCall(s) \in Calls
      BY <1>3, <1>8, SaveIsCall, ActiveIsCall
    <3> QED
      BY <3>1, <3>2, <1>1, TwoCalls
  <2>2. Len(todo') = 2 /\ todo'[1] = Save(activeSlot, dev) /\ todo'[2] = ActiveCall(s)
    BY <2>1
  <2>3. /\ todo'[1].page = "profile" /\ todo'[1].slot = activeSlot
        /\ todo'[1].op = SaveOf(dev) /\ todo'[1].op.profile = dev
    BY <2>2 DEF Save, ProfileCall, SaveOf
  <2>4. dev.id \notin Ids => stored[activeSlot] # None /\ stored[activeSlot].id = dev.id
    BY <1>8 DEF JInv, FlashInv, TornInFlash
  <2>5. DistinctSlots' /\ CallsOnActive' /\ ActivePersisted' /\ WillBoot'
    BY <2>2, <2>3, <1>1, <1>6
    DEF DistinctSlots, CallsOnActive, OnActive, ActivePersisted, WillBoot
  <2>6. SavesHeld'
    BY <2>2, <2>3, <2>4, <1>2, <1>6 DEF SavesHeld
  <2> QED
    BY <2>5, <2>6, <1>5 DEF FlashInv
<1> QED
  BY <1>7, <1>8

\* The calls left after the first are those after the first.
LEMMA RestOfCalls ==
  ASSUME IInv, todo # <<>>
  PROVE  /\ Len(todo) \in Nat /\ Head(todo) = todo[1] /\ 1 \in 1..Len(todo)
         /\ Len(Tail(todo)) = Len(todo) - 1
         /\ \A k \in 1..Len(Tail(todo)) : Tail(todo)[k] = todo[k + 1]
         /\ \A k \in 1..Len(Tail(todo)) : k + 1 \in 1..Len(todo) /\ 1 < k + 1
<1>1. todo \in Seq(Calls)
  BY DEF IInv, TypeOK
<1>2. /\ Len(todo) \in Nat /\ Len(Tail(todo)) = Len(todo) - 1
      /\ \A k \in 1..Len(Tail(todo)) : Tail(todo)[k] = todo[k + 1]
  BY <1>1, HeadTailProperties, LenProperties
<1>3. Head(todo) = todo[1] /\ 1 \in 1..Len(todo)
  BY <1>1
<1> QED
  BY <1>2, <1>3

LEMMA StoreStepFlashInv ==
  ASSUME JInv, StoreStep
  PROVE  FlashInv'
<1> DEFINE call == Head(todo)
           rest == Tail(todo)
<1>1. /\ on /\ todo # <<>> /\ todo' = rest
      /\ UNCHANGED <<on, paired, activeSlot, dev, typing>>
  BY DEF StoreStep, ram
<1>2. call \in Calls
  BY <1>1, FirstCall DEF JInv
<1>3. \/ /\ call.page = "profile" /\ UNCHANGED active
         /\ stored' = [stored EXCEPT ![call.slot] = AfterCall(@, call.op)]
      \/ /\ call.page = "active" /\ active' = call.slot /\ UNCHANGED stored
  BY <1>2, CallFields DEF StoreStep
<1>4. /\ Len(todo) \in Nat /\ call = todo[1] /\ 1 \in 1..Len(todo)
      /\ Len(rest) = Len(todo) - 1
      /\ \A k \in 1..Len(rest) : rest[k] = todo[k + 1]
      /\ \A k \in 1..Len(rest) : k + 1 \in 1..Len(todo) /\ 1 < k + 1
  BY <1>1, RestOfCalls DEF JInv
<1> HIDE DEF call, rest
<1>5. ASSUME NEW k \in 1..Len(todo), k # 1
      PROVE  k - 1 \in 1..Len(rest) /\ rest[k - 1] = todo[k]
  <2>1. k - 1 \in 1..Len(rest) /\ (k - 1) + 1 = k
    BY <1>4, <1>5
  <2> QED
    BY <2>1, <1>4
<1>6. stored \in [Slots -> Loadable] /\ activeSlot \in Slots
      /\ (paired => dev \in AllProfiles)
  BY DEF JInv, IInv, TypeOK, Loadable, PairedHasProfile
<1>7. DistinctSlots'
  <2> SUFFICES ASSUME NEW j \in 1..Len(rest), NEW k \in 1..Len(rest), j < k,
                      rest[j].page = "profile", rest[k].page = "profile"
               PROVE  rest[j].slot # rest[k].slot
    BY <1>1 DEF DistinctSlots
  <2>1. j + 1 < k + 1
    OBVIOUS
  <2> QED
    BY <2>1, <1>4 DEF JInv, FlashInv, DistinctSlots
<1>8. CallsOnActive' /\ ActivePersisted'
  BY <1>1, <1>4 DEF JInv, FlashInv, CallsOnActive, ActivePersisted, OnActive
<1>9. ASSUME NEW k \in 1..Len(rest), rest[k].page = "profile"
      PROVE  stored'[rest[k].slot] = stored[rest[k].slot]
  <2>1. CASE call.page = "active"
    BY <2>1, <1>3
  <2>2. CASE call.page = "profile"
    <3>1. call.slot # rest[k].slot
      BY <2>2, <1>4, <1>9 DEF JInv, FlashInv, DistinctSlots
    <3>2. call.slot \in Slots
      BY <2>2, <1>2, CallFields
    <3>3. rest[k].slot \in Slots
      <4>1. rest[k] \in Calls
        BY <1>4, ElementOfSeq DEF JInv, IInv, TypeOK
      <4> QED
        BY <4>1, <1>9, CallFields
    <3> QED
      BY <2>2, <3>1, <3>2, <3>3, <1>3, <1>6
  <2> QED
    BY <2>1, <2>2, <1>2, CallFields
<1>10. SavesHeld'
  BY <1>1, <1>4, <1>9 DEF JInv, FlashInv, SavesHeld
<1>11. WillAgree' /\ TornInFlash'
  <2>1. CASE OnActive(call)
    <3>1. call.op = IF paired THEN SaveOf(dev) ELSE ClearOp
      BY <1>4, <2>1 DEF JInv, FlashInv, CallsOnActive
    <3>2. stored'[activeSlot] = IF paired THEN dev ELSE None
      BY <3>1, <1>3, <1>6, <2>1 DEF OnActive, AfterCall, SaveOf, ClearOp
    <3>3. paired => dev # None /\ dev.cnt \in Nat
      BY <1>6, NoneAssumption, ProfileFields
    <3>4. CASE paired
      BY <3>2, <3>3, <3>4, <1>1 DEF Agrees, WillAgree, TornInFlash
    <3>5. CASE ~paired
      BY <3>2, <3>5, <1>1 DEF Agrees, WillAgree, TornInFlash
    <3> QED
      BY <3>4, <3>5
  <2>2. CASE ~OnActive(call)
    <3>1. stored'[activeSlot] = stored[activeSlot]
      BY <1>2, <1>3, <1>6, <2>2, CallFields DEF OnActive
    <3>2. TornInFlash'
      BY <3>1, <1>1 DEF JInv, FlashInv, TornInFlash
    <3>3. Agrees => Agrees'
      BY <3>1, <1>1 DEF Agrees
    <3>4. ASSUME NEW k \in 1..Len(todo), OnActive(todo[k])
          PROVE  k - 1 \in 1..Len(rest) /\ OnActive(rest[k - 1])
      BY <3>4, <1>4, <1>5, <2>2
    <3>5. WillAgree'
      BY <3>3, <3>4, <1>1 DEF JInv, FlashInv, WillAgree, OnActive
    <3> QED
      BY <3>2, <3>5
  <2> QED
    BY <2>1, <2>2
<1>12. WillBoot'
  <2>1. CASE call.page = "active"
    BY <2>1, <1>1, <1>3, <1>4, <1>6, NoneAssumption
    DEF JInv, FlashInv, ActivePersisted, WillBoot, BootSlot
  <2>2. CASE call.page = "profile"
    <3>1. ASSUME NEW k \in 1..Len(todo), todo[k].page = "active"
          PROVE  k - 1 \in 1..Len(rest) /\ rest[k - 1].page = "active"
      BY <2>2, <3>1, <1>4, <1>5
    <3> QED
      BY <2>2, <3>1, <1>1, <1>3 DEF JInv, FlashInv, WillBoot, BootSlot
  <2> QED
    BY <2>1, <2>2, <1>2, CallFields
<1>13. TypingIdle'
  BY <1>1 DEF JInv, FlashInv, TypingIdle
<1> QED
  BY <1>7, <1>8, <1>10, <1>11, <1>12, <1>13 DEF FlashInv

LEMMA PowerLossFlashInv == PowerLoss => FlashInv'
<1> SUFFICES ASSUME PowerLoss PROVE FlashInv'
  OBVIOUS
<1>1. on' = FALSE /\ todo' = <<>> /\ paired' = FALSE
  BY DEF PowerLoss
<1>2. Len(todo') = 0
  BY <1>1
<1> QED
  BY <1>1, <1>2
  DEF FlashInv, DistinctSlots, CallsOnActive, ActivePersisted, SavesHeld, TornInFlash,
      WillAgree, WillBoot, TypingIdle

LEMMA BootFlashInv ==
  ASSUME JInv, IInv', Boot
  PROVE  FlashInv'
<1>1. /\ ~paired /\ todo = <<>> /\ typing = 0 /\ activeSlot' = BootSlot
      /\ UNCHANGED <<typing, stored, active>>
  BY DEF Boot, JInv, IInv, OffIsReset
<1>2. (BootSlot = activeSlot)'
  BY <1>1 DEF BootSlot
<1>3. CASE stored[BootSlot] = None
  <2>1. UNCHANGED <<dev, paired, todo>>
    BY <1>3 DEF Boot
  <2>2. Agrees'
    BY <2>1, <1>1, <1>3 DEF Agrees
  <2> QED
    BY <2>1, <2>2, <1>1, <1>2, NoCallsFlashInv
<1>4. CASE stored[BootSlot] # None
  <2>1. /\ dev' = Jump(stored[BootSlot]) /\ paired' = TRUE
        /\ todo' = <<Save(BootSlot, dev')>>
    BY <1>4 DEF Boot, Apply
  <2>2. stored[BootSlot] \in AllProfiles
    BY <1>1, <1>4 DEF JInv, IInv, TypeOK, Loadable, BootSlot, Slots
  <2>3. dev'.id = stored[BootSlot].id
    BY <2>1, <2>2 DEF Jump, AllProfiles
  <2>4. dev' \in AllProfiles /\ activeSlot' \in Slots
    BY <2>1 DEF IInv, TypeOK, Loadable, PairedHasProfile
  <2> QED
    BY <2>1, <2>3, <2>4, <1>1, <1>2, <1>4, SaveActiveFlashInv DEF TornInFlash
<1> QED
  BY <1>3, <1>4

LEMMA NextJInv == JInv /\ [Next]_vars => JInv'
<1> SUFFICES ASSUME JInv, [Next]_vars PROVE JInv'
  OBVIOUS
<1>1. IInv'
  BY NextIInv DEF JInv
<1>2. CASE UNCHANGED vars
  BY <1>1, <1>2
  DEF vars, ram, flash, JInv, FlashInv, DistinctSlots, CallsOnActive, OnActive,
      ActivePersisted, SavesHeld, TornInFlash, Agrees, WillAgree, WillBoot, BootSlot,
      TypingIdle
<1>3. CASE Next
  <2>1. FlashInv'
    BY <1>1, <1>3, LinkFlashInv, SaveFlashInv, ReportFlashInv, UPairFlashInv,
       UDeleteFlashInv, UDeleteAllFlashInv, USwitchFlashInv, StoreStepFlashInv,
       PowerLossFlashInv, BootFlashInv DEF Next
  <2> QED
    BY <1>1, <2>1 DEF JInv
<1> QED
  BY <1>2, <1>3

LEMMA AlwaysJInv == Spec => []JInv
<1>1. Init => JInv
  BY InitIInv, InitFlashInv DEF JInv
<1>2. JInv /\ [Next]_vars => JInv'
  BY NextJInv
<1> QED
  BY <1>1, <1>2, PTL DEF Spec

-----------------------------------------------------------------------------
\* Between commands a restart would come back to the slot and the pairing in use, with
\* a counter that is not ahead (main.rs, the boot code).
THEOREM RestartFinds == Spec => []RestartFindsPairing
<1>1. JInv => RestartFindsPairing
  <2> SUFFICES ASSUME JInv, on, todo = <<>>
               PROVE  IF paired
                        THEN /\ BootSlot = activeSlot
                             /\ stored[activeSlot] # None
                             /\ stored[activeSlot].id = dev.id
                             /\ stored[activeSlot].cnt <= dev.cnt
                        ELSE stored[activeSlot] = None
    BY DEF RestartFindsPairing
  <2>1. Agrees /\ (paired => BootSlot = activeSlot)
    BY BetweenCommands DEF JInv
  <2> QED
    BY <2>1 DEF Agrees
<1> QED
  BY <1>1, AlwaysJInv, PTL

-----------------------------------------------------------------------------
\* Operation o may begin on slot s.
MayBegin(s, o) == o \in {NoOp, ClearOp} \cup { SaveOf(p) : p \in Savable(stored[s]) }

CallsMayBegin == \A s \in Slots : MayBegin(s, CallOn(s))

LEMMA CallMayBegin == JInv => CallsMayBegin
<1> SUFFICES ASSUME JInv, NEW s \in Slots PROVE MayBegin(s, CallOn(s))
  BY DEF CallsMayBegin
<1>1. CASE todo # <<>> /\ Head(todo).page = "profile" /\ Head(todo).slot = s
  <2> DEFINE call == Head(todo)
  <2>1. call \in Calls /\ call = todo[1] /\ 1 \in 1..Len(todo)
    BY <1>1, FirstCall, RestOfCalls DEF JInv
  <2>2. CallOn(s) = call.op
    BY <1>1 DEF CallOn
  <2>3. call.page = "profile" /\ call.slot = s
    BY <1>1
  <2> HIDE DEF call
  <2>4. CASE call.op.kind = "save"
    <3>1. call.op.profile \in AllProfiles /\ call.op = SaveOf(call.op.profile)
      BY <2>1, <2>3, <2>4, CallFields DEF Ops, NoOp, ClearOp, SaveOf
    <3>2. call.op.profile.id \notin Ids =>
            stored[s] # None /\ stored[s].id = call.op.profile.id
      BY <2>1, <2>3, <2>4 DEF JInv, FlashInv, SavesHeld
    <3>3. call.op.profile \in Savable(stored[s])
      BY <3>1, <3>2 DEF AllProfiles, Savable
    <3> QED
      BY <1>1, <2>2, <3>1, <3>3 DEF MayBegin, call
  <2>5. CASE call.op.kind = "clear"
    <3>1. call.op = ClearOp
      BY <2>1, <2>3, <2>5, CallFields DEF Ops, NoOp, ClearOp, SaveOf
    <3> QED
      BY <1>1, <2>2, <3>1 DEF MayBegin, call
  <2> QED
    BY <2>1, <2>3, <2>4, <2>5, CallFields
<1>2. CASE ~(todo # <<>> /\ Head(todo).page = "profile" /\ Head(todo).slot = s)
  BY <1>2 DEF CallOn, MayBegin
<1> QED
  BY <1>1, <1>2

\* A step that leaves a slot alone while no call is under way on it may begin one.
LEMMA BeginStep ==
  ASSUME NEW s \in Slots, JInv', on, on', CallOn(s) = NoOp, stored'[s] = stored[s]
  PROVE  [Slot(s)!Next]_(Slot(s)!vars)
<1>1. MayBegin(s, CallOn(s))'
  <2>1. JInv' => CallsMayBegin'
    BY CallMayBegin, PTL
  <2> QED
    BY <2>1 DEF CallsMayBegin
<1>2. \/ CallOn(s)' = NoOp \/ CallOn(s)' = ClearOp
      \/ \E p \in Savable(stored[s]) : CallOn(s)' = SaveOf(p)
  BY <1>1 DEF MayBegin
<1>3. CASE CallOn(s)' = NoOp
  BY <1>3 DEF Slot!vars, JInv, IInv, TypeOK
<1>4. CASE CallOn(s)' = ClearOp
  BY <1>4 DEF Slot!Next, Slot!Clear, Slot!NoOp, Slot!ClearOp, NoOp, ClearOp
<1>5. CASE \E p \in Savable(stored[s]) : CallOn(s)' = SaveOf(p)
  BY <1>5 DEF Slot!Next, Slot!Save, Slot!NoOp, Slot!SaveOf, Slot!Savable, NoOp, SaveOf, Savable
<1> QED
  BY <1>2, <1>3, <1>4, <1>5

LEMMA StoreStepRefines ==
  ASSUME JInv, JInv', StoreStep, NEW s \in Slots
  PROVE  [Slot(s)!Next]_(Slot(s)!vars)
<1> DEFINE call == Head(todo)
<1>1. on /\ on' /\ todo # <<>> /\ todo' = Tail(todo)
  BY DEF StoreStep
<1>2. call \in Calls /\ call = todo[1] /\ 1 \in 1..Len(todo)
  BY <1>1, FirstCall, RestOfCalls DEF JInv
<1>3. stored \in [Slots -> Loadable]
  BY DEF JInv, IInv, TypeOK
<1>4. CASE call.page = "profile" /\ call.slot = s
  <2>1. CallOn(s) = call.op /\ call.op.kind \in {"clear", "save"} /\ call.op # NoOp
    BY <1>1, <1>2, <1>4, CallFields DEF CallOn, NoOp
  <2>2. stored'[s] = AfterCall(stored[s], call.op)
    BY <1>3, <1>4 DEF StoreStep
  <2>3. CallOn(s)' = NoOp
    <3> SUFFICES ASSUME CallOn(s)' # NoOp PROVE FALSE
      OBVIOUS
    <3>1. /\ todo' # <<>> /\ Head(todo').page = "profile" /\ Head(todo').slot = s
      BY DEF CallOn
    <3>2. Head(todo') = todo'[1] /\ 1 \in 1..Len(todo')
      BY <3>1, RestOfCalls DEF JInv
    <3>3. todo'[1] = todo[2] /\ 2 \in 1..Len(todo)
      BY <1>1, <3>2, RestOfCalls DEF JInv
    <3> QED
      BY <1>2, <1>4, <3>1, <3>2, <3>3 DEF JInv, FlashInv, DistinctSlots
  <2> QED
    BY <1>1, <2>1, <2>2, <2>3
    DEF Slot!Next, Slot!Return, Slot!NoOp, NoOp, AfterCall, StoreStep
<1>5. CASE ~(call.page = "profile" /\ call.slot = s)
  <2>1. CallOn(s) = NoOp
    BY <1>5 DEF CallOn
  <2>2. stored'[s] = stored[s]
    BY <1>2, <1>3, <1>5, CallFields DEF StoreStep
  <2> QED
    BY <1>1, <2>1, <2>2, BeginStep
<1> QED
  BY <1>4, <1>5

LEMMA PowerLossRefines ==
  ASSUME JInv, PowerLoss, NEW s \in Slots
  PROVE  [Slot(s)!Next]_(Slot(s)!vars)
<1> DEFINE call == Head(todo)
<1>1. on /\ on' = FALSE /\ todo' = <<>>
  BY DEF PowerLoss
<1>2. CallOn(s)' = NoOp
  BY <1>1 DEF CallOn
<1>3. stored \in [Slots -> Loadable]
  BY DEF JInv, IInv, TypeOK
<1>4. stored'[s] \in AfterPowerLoss(stored[s], CallOn(s))
  <2>1. CASE todo # <<>> /\ call.page = "profile" /\ call.slot = s
    <3>1. call \in Calls
      BY <2>1, FirstCall DEF JInv
    <3>2. CallOn(s) = call.op /\ call.op.kind \in {"clear", "save"}
      BY <2>1, <3>1, CallFields DEF CallOn
    <3>3. stored'[s] \in Outcomes(stored[s], call.op)
      BY <2>1, <1>3 DEF PowerLoss
    <3> QED
      BY <3>2, <3>3 DEF Outcomes, AfterPowerLoss
  <2>2. CASE ~(todo # <<>> /\ call.page = "profile" /\ call.slot = s)
    <3>1. CallOn(s) = NoOp
      BY <2>2 DEF CallOn
    <3>2. stored'[s] = stored[s]
      BY <2>2, <1>3 DEF PowerLoss
    <3> QED
      BY <3>1, <3>2 DEF AfterPowerLoss, NoOp
  <2> QED
    BY <2>1, <2>2
<1> QED
  BY <1>1, <1>2, <1>4
  DEF Slot!Next, Slot!PowerLoss, Slot!AfterPowerLoss, Slot!NoOp, Slot!Torn, AfterPowerLoss,
      Torn, NoOp

LEMMA BootRefines ==
  ASSUME JInv, JInv', Boot, NEW s \in Slots
  PROVE  [Slot(s)!Next]_(Slot(s)!vars)
<1>1. ~on /\ on' = TRUE /\ UNCHANGED stored
  BY DEF Boot
<1>2. MayBegin(s, CallOn(s))'
  <2>1. JInv' => CallsMayBegin'
    BY CallMayBegin, PTL
  <2> QED
    BY <2>1 DEF CallsMayBegin
<1>3. CallOn(s)' # ClearOp
  <2>1. CASE todo' = <<>>
    BY <2>1 DEF CallOn, NoOp, ClearOp
  <2>2. CASE todo' = <<Save(BootSlot, dev')>>
    <3>1. Head(todo') = Save(BootSlot, dev')
      BY <2>2
    <3> QED
      BY <3>1 DEF CallOn, NoOp, ClearOp, Save, ProfileCall, SaveOf
  <2>3. todo' = <<>> \/ todo' = <<Save(BootSlot, dev')>>
    BY DEF Boot, JInv, IInv, OffIsReset
  <2> QED
    BY <2>1, <2>2, <2>3
<1>4. CallOn(s)' = NoOp \/ \E p \in Savable(stored[s]) : CallOn(s)' = SaveOf(p)
  BY <1>1, <1>2, <1>3 DEF MayBegin
<1> QED
  BY <1>1, <1>4
  DEF Slot!Next, Slot!Boot, Slot!NoOp, Slot!SaveOf, Slot!Savable, NoOp, SaveOf, Savable

LEMMA CommandRefines ==
  ASSUME JInv, JInv', Next, ~StoreStep, ~PowerLoss, ~Boot, NEW s \in Slots
  PROVE  [Slot(s)!Next]_(Slot(s)!vars)
<1>1. on /\ todo = <<>> /\ on' = on /\ stored' = stored
  <2>1. CASE TypeChar
    BY <2>1 DEF TypeChar, JInv, FlashInv, TypingIdle
  <2>2. CASE UPair \/ UPairFails \/ UConnect \/ USleep \/ UDelete \/ UDeleteAll
    BY <2>2 DEF UPair, UPairFails, UConnect, USleep, UDelete, UDeleteAll, Starts, flash
  <2>3. CASE USwitchSame \/ USwitch \/ UKey \/ UKeyDown \/ UType
    BY <2>3 DEF USwitchSame, USwitch, UKey, UKeyDown, UType, Starts, flash
  <2>4. CASE AllUp \/ PollRadio \/ PowerWarning
    BY <2>4 DEF AllUp, PollRadio, PowerWarning, Starts, flash
  <2> QED
    BY <2>1, <2>2, <2>3, <2>4 DEF Next
<1>2. CallOn(s) = NoOp
  BY <1>1 DEF CallOn
<1> QED
  BY <1>1, <1>2, BeginStep

\* Every slot is used as the abstract store allows, which ProfileLog implements: a slot is
\* saved only with a new pairing or the one it holds, and one call at a time (main.rs and
\* storage.rs, save and clear_slot).
THEOREM SlotsImplementStore == Spec => SlotsAreStores
<1>1. Init => \A s \in Slots : Slot(s)!Init
  BY DEF Init, CallOn, Slot!Init, Slot!NoOp, NoOp
<1>2. JInv /\ JInv' /\ [Next]_vars => \A s \in Slots : [Slot(s)!Next]_(Slot(s)!vars)
  <2> SUFFICES ASSUME JInv, JInv', [Next]_vars, NEW s \in Slots
               PROVE  [Slot(s)!Next]_(Slot(s)!vars)
    OBVIOUS
  <2>1. CASE UNCHANGED vars
    BY <2>1 DEF vars, flash, Slot!vars, CallOn
  <2> QED
    BY <2>1, StoreStepRefines, PowerLossRefines, BootRefines, CommandRefines
<1>3. SlotsAreStores <=>
        /\ \A s \in Slots : Slot(s)!Init
        /\ [][ \A s \in Slots : [Slot(s)!Next]_(Slot(s)!vars) ]_vars
  BY DEF SlotsAreStores
<1> QED
  BY <1>1, <1>2, <1>3, AlwaysJInv, PTL DEF Spec

-----------------------------------------------------------------------------
\* A call that saves pairing i.
Saves(call, i) ==
  call.page = "profile" /\ call.op.kind = "save" /\ call.op.profile.id = i

\* What is held once the calls of a command are added: only the pairing in use is saved.
LEMMA CommandHolds ==
  ASSUME JInv, on, todo = <<>>, UNCHANGED stored, todo' \in Seq(Calls), NEW i, ~Held(i),
         \A k \in 1..Len(todo') :
           todo'[k].page = "profile" /\ todo'[k].op.kind = "save" =>
             paired /\ todo'[k].op.profile.id = dev.id
  PROVE  ~Held(i)'
<1>1. paired => stored[activeSlot] # None /\ stored[activeSlot].id = dev.id
  BY BetweenCommands DEF JInv, Agrees
<1>2. activeSlot \in Slots
  BY DEF JInv, IInv, TypeOK
<1>3. paired => dev.id # i
  BY <1>1, <1>2 DEF Held
<1>4. DOMAIN todo' = 1..Len(todo')
  OBVIOUS
<1> QED
  BY <1>3, <1>4 DEF Held

LEMMA OnlyActiveSaved ==
  ASSUME JInv, Next, ~UPair, ~StoreStep, ~PowerLoss, ~Boot
  PROVE  /\ on /\ todo = <<>> /\ UNCHANGED stored
         /\ \A k \in 1..Len(todo') :
              todo'[k].page = "profile" /\ todo'[k].op.kind = "save" =>
                paired /\ todo'[k].op.profile.id = dev.id
<1>1. on /\ todo = <<>> /\ UNCHANGED stored
  <2>1. CASE TypeChar
    BY <2>1 DEF TypeChar, JInv, FlashInv, TypingIdle
  <2>2. CASE UPairFails \/ UConnect \/ USleep \/ UDelete \/ UDeleteAll
    BY <2>2 DEF UPairFails, UConnect, USleep, UDelete, UDeleteAll, Starts, flash
  <2>3. CASE USwitchSame \/ USwitch \/ UKey \/ UKeyDown \/ UType
    BY <2>3 DEF USwitchSame, USwitch, UKey, UKeyDown, UType, Starts, flash
  <2>4. CASE AllUp \/ PollRadio \/ PowerWarning
    BY <2>4 DEF AllUp, PollRadio, PowerWarning, Starts, flash
  <2> QED
    BY <2>1, <2>2, <2>3, <2>4 DEF Next
<1> DEFINE Goal == \A k \in 1..Len(todo') :
                     todo'[k].page = "profile" /\ todo'[k].op.kind = "save" =>
                       paired /\ todo'[k].op.profile.id = dev.id
<1>2. activeSlot \in Slots /\ (paired => dev \in AllProfiles)
  BY DEF JInv, IInv, TypeOK, Loadable, PairedHasProfile
<1>3. CASE todo' = <<>>
  <2>1. Len(todo') = 0
    BY <1>3
  <2> QED
    BY <2>1, <1>1
<1>4. ASSUME NEW p \in AllProfiles, paired, p.id = dev.id, todo' = <<Save(activeSlot, p)>>
      PROVE  Goal
  <2>1. Len(todo') = 1 /\ todo'[1] = Save(activeSlot, p)
    BY <1>4
  <2> QED
    BY <2>1, <1>2, <1>4, SaveIsCall
<1>5. CASE UPairFails \/ UConnect \/ USwitchSame \/ UType \/ PollRadio
  <2>1. todo' = <<>>
    BY <1>1, <1>5 DEF UPairFails, UConnect, USwitchSame, UType, PollRadio, flash
  <2> QED
    BY <2>1, <1>3
<1>6. CASE USleep \/ PowerWarning
  <2>1. paired
    BY <1>6 DEF JInv, IInv, ConnectedIsPaired, USleep, PowerWarning
  <2>2. todo' = <<Save(activeSlot, dev)>>
    BY <1>6, <2>1 DEF USleep, PowerWarning
  <2> QED
    BY <2>1, <2>2, <1>1, <1>2, <1>4
<1>7. CASE UKey \/ UKeyDown \/ TypeChar \/ AllUp
  <2>1. paired
    BY <1>7 DEF JInv, IInv, ConnectedIsPaired, TypingConnected, UKey, UKeyDown, TypeChar, AllUp
  <2>2. PICK n \in Nat : Send(n)
    BY <1>7, Constants DEF UKey, UKeyDown, TypeChar, AllUp
  <2>3. dev' \in AllProfiles /\ dev'.id = dev.id
    BY <1>2, <2>1, <2>2, SendType DEF JInv, IInv, TypeOK
  <2>4. todo' = <<>> \/ todo' = <<Save(activeSlot, dev')>>
    BY <1>1, <1>7 DEF UKey, UKeyDown, TypeChar, AllUp, flash
  <2> QED
    BY <2>1, <2>3, <2>4, <1>1, <1>3, <1>4
<1>8. CASE UDelete
  <2>1. PICK s \in Slots : todo' = <<ProfileCall(s, ClearOp)>>
    BY <1>8 DEF UDelete
  <2>2. Len(todo') = 1 /\ todo'[1] = ProfileCall(s, ClearOp)
    BY <2>1
  <2> QED
    BY <2>2, <1>1, ClearIsCall
<1>9. CASE UDeleteAll
  BY <1>1, <1>9, UDeleteAllCalls
<1>10. CASE USwitch
  <2>1. PICK s \in Slots : todo' = SaveLeaving(s) \o <<ActiveCall(s)>>
    BY <1>10 DEF USwitch
  <2>2. ActiveCall(s) \in Calls /\ ActiveCall(s).page = "active"
    BY ActiveIsCall
  <2>3. CASE ~paired
    <3>1. todo' = <<ActiveCall(s)>>
      BY <2>1, <2>3 DEF SaveLeaving
    <3>2. Len(todo') = 1 /\ todo'[1] = ActiveCall(s)
      BY <3>1
    <3> QED
      BY <3>2, <2>2, <1>1
  <2>4. CASE paired
    <3>1. SaveLeaving(s) = <<Save(activeSlot, dev)>> /\ Save(activeSlot, dev) \in Calls
      BY <2>4, <1>2, SaveIsCall DEF SaveLeaving
    <3>2. todo' = <<Save(activeSlot, dev), ActiveCall(s)>>
      BY <3>1, <2>1, <2>2, TwoCalls
    <3>3. Len(todo') = 2 /\ todo'[1] = Save(activeSlot, dev) /\ todo'[2] = ActiveCall(s)
      BY <3>2
    <3> QED
      BY <3>3, <2>2, <2>4, <1>1, <1>2, SaveIsCall
  <2> QED
    BY <2>3, <2>4
<1> QED
  BY <1>5, <1>6, <1>7, <1>8, <1>9, <1>10 DEF Next

LEMMA CommandGone ==
  ASSUME JInv, JInv', Next, ~StoreStep, ~PowerLoss, ~Boot,
         NEW i \in Ids, owner[i] # None, ~Held(i)
  PROVE  ~Held(i)'
<1>1. todo' \in Seq(Calls)
  BY DEF JInv, IInv, TypeOK
<1>2. CASE UPair
  <2>1. PICK s \in Slots, j \in Ids, c \in {0} \cup (IF dev = None THEN {} ELSE {dev.cnt}) :
          /\ owner[j] = None
          /\ dev' = [id |-> j, cnt |-> c]
          /\ todo' = <<Save(s, dev'), ActiveCall(s)>>
    BY <1>2 DEF UPair, Apply
  <2>2. dev' \in AllProfiles /\ dev'.id # i
    <3>1. c \in Nat
      BY <2>1, ProfileFields DEF JInv, IInv, TypeOK, Loadable
    <3>2. paired' /\ dev' # None
      BY <1>2 DEF UPair, Apply, JInv, IInv, PairedHasProfile
    <3> QED
      BY <2>1, <3>2 DEF JInv, IInv, TypeOK, Loadable
  <2>3. Len(todo') = 2 /\ todo'[1] = Save(s, dev') /\ todo'[2] = ActiveCall(s)
    BY <2>1
  <2>4. ~(\E k \in 1..Len(todo') : Saves(todo'[k], i))
    BY <2>2, <2>3, SaveIsCall, ActiveIsCall DEF Saves
  <2>5. DOMAIN todo' = 1..Len(todo') /\ UNCHANGED stored
    <3>1. DOMAIN todo' = 1..Len(todo')
      BY <1>1, LenProperties
    <3>2. UNCHANGED stored
      BY <1>2 DEF UPair
    <3> QED
      BY <3>1, <3>2
  <2> QED
    BY <2>4, <2>5 DEF Held, Saves
<1>3. CASE ~UPair
  BY <1>1, <1>3, OnlyActiveSaved, CommandHolds
<1> QED
  BY <1>2, <1>3

LEMMA StoreStepGone ==
  ASSUME JInv, StoreStep, NEW i, ~Held(i)
  PROVE  ~Held(i)'
<1> DEFINE call == Head(todo)
           rest == Tail(todo)
<1>1. on /\ todo # <<>> /\ todo' = rest
  BY DEF StoreStep
<1>2. /\ call \in Calls /\ rest \in Seq(Calls) /\ call = todo[1] /\ 1 \in 1..Len(todo)
      /\ \A k \in 1..Len(rest) : rest[k] = todo[k + 1] /\ k + 1 \in 1..Len(todo)
  BY <1>1, FirstCall, RestOfCalls DEF JInv
<1>3. DOMAIN todo = 1..Len(todo) /\ DOMAIN rest = 1..Len(rest)
  BY <1>2, LenProperties DEF JInv, IInv, TypeOK
<1>4. \A k \in 1..Len(todo) : ~Saves(todo[k], i)
  BY <1>3 DEF Held, Saves
<1>5. \A k \in 1..Len(rest) : ~Saves(rest[k], i)
  BY <1>2, <1>4
<1>6. ASSUME NEW s \in Slots, stored'[s] # None PROVE stored'[s].id # i
  <2>1. stored[s] # None => stored[s].id # i
    BY DEF Held
  <2>2. CASE call.page = "profile" /\ call.slot = s
    <3>1. stored'[s] = AfterCall(stored[s], call.op)
      BY <2>2 DEF StoreStep, JInv, IInv, TypeOK
    <3>2. call.op.kind = "save" /\ stored'[s] = call.op.profile
      BY <3>1, <1>6 DEF AfterCall
    <3> QED
      BY <2>2, <3>2, <1>2, <1>4 DEF Saves
  <2>3. CASE ~(call.page = "profile" /\ call.slot = s)
    <3>1. stored'[s] = stored[s]
      BY <1>2, <2>3, CallFields DEF StoreStep, JInv, IInv, TypeOK
    <3> QED
      BY <3>1, <2>1, <1>6
  <2> QED
    BY <2>2, <2>3
<1> QED
  BY <1>1, <1>3, <1>5, <1>6 DEF Held, Saves

LEMMA PowerLossGone ==
  ASSUME JInv, PowerLoss, NEW i \in Ids, ~Held(i)
  PROVE  ~Held(i)'
<1> DEFINE call == Head(todo)
<1>1. DOMAIN todo' = {}
  <2>1. todo' = <<>>
    BY DEF PowerLoss
  <2> QED
    BY <2>1
<1>2. ASSUME NEW s \in Slots, stored'[s] # None PROVE stored'[s].id # i
  <2>1. stored[s] # None => stored[s].id # i
    BY DEF Held
  <2>2. CASE todo # <<>> /\ call.page = "profile" /\ call.slot = s
    <3>1. call \in Calls /\ call = todo[1] /\ 1 \in DOMAIN todo
      BY <2>2, FirstCall, RestOfCalls, LenProperties DEF JInv, IInv, TypeOK
    <3>2. call.op.kind = "save" => call.op.profile.id # i
      BY <2>2, <3>1 DEF Held
    <3>3. stored'[s] \in Outcomes(stored[s], call.op)
      BY <2>2 DEF PowerLoss, JInv, IInv, TypeOK
    <3>4. stored[s] \in Loadable
      BY DEF JInv, IInv, TypeOK
    <3>5. stored'[s] # None /\ stored'[s].id \in Ids =>
            stored'[s] = stored[s]
              \/ (call.op.kind = "save" /\ stored'[s].id = call.op.profile.id)
      BY <2>2, <3>1, <3>3, <3>4, CallFields, OutcomeOwned
    <3> QED
      BY <2>1, <3>2, <3>5, <1>2
  <2>3. CASE ~(todo # <<>> /\ call.page = "profile" /\ call.slot = s)
    <3>1. stored'[s] = stored[s]
      BY <2>3 DEF PowerLoss, JInv, IInv, TypeOK
    <3> QED
      BY <3>1, <2>1, <1>2
  <2> QED
    BY <2>2, <2>3
<1> QED
  BY <1>1, <1>2 DEF Held

LEMMA BootGone ==
  ASSUME JInv, Boot, NEW i, ~Held(i)
  PROVE  ~Held(i)'
<1>1. UNCHANGED stored /\ BootSlot \in Slots
  BY Constants DEF Boot, BootSlot, JInv, IInv, TypeOK
<1>2. CASE stored[BootSlot] = None
  BY <1>1, <1>2 DEF Boot, Held
<1>3. CASE stored[BootSlot] # None
  <2>1. dev' = Jump(stored[BootSlot]) /\ todo' = <<Save(BootSlot, dev')>>
    BY <1>3 DEF Boot, Apply
  <2>2. stored[BootSlot] \in AllProfiles
    BY <1>1, <1>3 DEF JInv, IInv, TypeOK, Loadable
  <2>3. dev'.id = stored[BootSlot].id /\ stored[BootSlot].id # i
    BY <1>1, <1>3, <2>1, <2>2 DEF Jump, AllProfiles, Held
  <2>4. DOMAIN todo' = {1} /\ todo'[1].op.profile = dev'
    BY <2>1 DEF Save, ProfileCall, SaveOf
  <2> QED
    BY <1>1, <2>3, <2>4 DEF Held
<1> QED
  BY <1>2, <1>3

\* A pairing that the store has lost, deleted or replaced never comes back to it: no late
\* save writes it again, with power failures anywhere (main.rs, UDELETE and switch_to).
THEOREM LostStaysLost == Spec => GoneForGood
<1>1. JInv /\ JInv' /\ [Next]_vars =>
        [\A i \in Ids : owner[i] # None /\ ~Held(i) => ~Held(i)']_vars
  <2> SUFFICES ASSUME JInv, JInv', Next, NEW i \in Ids, owner[i] # None, ~Held(i)
               PROVE  ~Held(i)'
    OBVIOUS
  <2> QED
    BY CommandGone, StoreStepGone, PowerLossGone, BootGone
<1> QED
  BY <1>1, AlwaysJInv, PTL DEF Spec, GoneForGood
-----------------------------------------------------------------------------
(* The page of the active slot *)

\* A command writes the active slot at most once, and then it has made its other calls.
ActiveLast == \A k \in 1..Len(todo) : todo[k].page = "active" => k = Len(todo)

LEMMA OneCallLast ==
  ASSUME \/ todo' = <<>>
         \/ \E c \in Calls : todo' = <<c>>
         \/ \E c, d \in Calls : todo' = <<c, d>> /\ c.page = "profile"
  PROVE  ActiveLast'
<1>1. CASE todo' = <<>> BY <1>1 DEF ActiveLast
<1>2. CASE \E c \in Calls : todo' = <<c>> BY <1>2 DEF ActiveLast
<1>3. CASE \E c, d \in Calls : todo' = <<c, d>> /\ c.page = "profile"
  <2>1. PICK c \in Calls, d \in Calls : todo' = <<c, d>> /\ c.page = "profile" BY <1>3
  <2>2. Len(todo') = 2 /\ todo'[1].page # "active" BY <2>1
  <2>3. QED BY <2>2 DEF ActiveLast
<1>4. QED BY <1>1, <1>2, <1>3

LEMMA SavesLast ==
  ASSUME IInv, IInv', \/ USleep \/ PowerWarning \/ UKey \/ UKeyDown \/ TypeChar \/ Boot
  PROVE  ActiveLast'
<1>1. todo' = <<>> \/ todo' = <<Save(activeSlot', dev')>>
  <2>1. CASE USleep BY <2>1 DEF USleep
  <2>2. CASE PowerWarning BY <2>2 DEF PowerWarning, ram
  <2>3. CASE UKey \/ UKeyDown \/ TypeChar BY <2>3 DEF UKey, UKeyDown, TypeChar
  <2>4. CASE Boot BY <2>4 DEF Boot, IInv, OffIsReset
  <2>5. QED BY <2>1, <2>2, <2>3, <2>4
<1>2. CASE todo' = <<>> BY <1>2, OneCallLast
<1>3. CASE todo' = <<Save(activeSlot', dev')>>
  <2>1. Len(todo') = 1 BY <1>3
  <2>2. QED BY <2>1 DEF ActiveLast
<1>4. QED BY <1>1, <1>2, <1>3

LEMMA CommandLast ==
  ASSUME JInv, JInv', \/ UPair \/ UDelete \/ UDeleteAll \/ USwitch
  PROVE  ActiveLast'
<1>1. CASE UPair
  <2>1. PICK s \in Slots : todo' = <<Save(s, dev'), ActiveCall(s)>> BY <1>1 DEF UPair
  <2>2. Len(todo') = 2 /\ todo'[1].page = "profile" BY <2>1 DEF Save, ProfileCall
  <2>3. QED BY <2>2 DEF ActiveLast
<1>2. CASE UDelete
  <2>1. PICK s \in Slots : todo' = <<ProfileCall(s, ClearOp)>> BY <1>2 DEF UDelete
  <2>2. QED BY <2>1, ClearIsCall, OneCallLast
<1>3. CASE UDeleteAll
  <2>1. /\ Len(todo') = MaxProfiles + 1
        /\ \A k \in 1..MaxProfiles : todo'[k].page = "profile"
    BY <1>3, UDeleteAllCalls
  <2>2. QED BY <2>1, Constants DEF ActiveLast
<1>4. CASE USwitch
  <2>1. PICK s \in Slots : todo' = SaveLeaving(s) \o <<ActiveCall(s)>> BY <1>4 DEF USwitch
  <2>2. ActiveCall(s) \in Calls BY ActiveIsCall
  <2>3. CASE paired
    <3>1. activeSlot \in Slots /\ dev \in AllProfiles
      BY <2>3 DEF JInv, IInv, TypeOK, PairedHasProfile, Loadable
    <3>2. Save(activeSlot, dev) \in Calls /\ Save(activeSlot, dev).page = "profile"
      BY <3>1, SaveIsCall
    <3>3. todo' = <<Save(activeSlot, dev), ActiveCall(s)>>
      BY <2>1, <2>2, <2>3, <3>2, TwoCalls DEF SaveLeaving
    <3>4. QED BY <2>2, <3>2, <3>3, OneCallLast
  <2>4. CASE ~paired
    <3>1. todo' = <<>> \o <<ActiveCall(s)>> BY <2>1, <2>4 DEF SaveLeaving
    <3>2. todo' = <<ActiveCall(s)>> BY <2>2, <3>1
    <3>3. QED BY <2>2, <3>2, OneCallLast
  <2>5. QED BY <2>3, <2>4
<1>5. QED BY <1>1, <1>2, <1>3, <1>4

LEMMA StoreStepLast == ASSUME JInv, ActiveLast, StoreStep PROVE ActiveLast'
<1>1. todo # <<>> /\ todo' = Tail(todo) BY DEF StoreStep
<1>2. /\ Len(todo) \in Nat /\ Len(todo') = Len(todo) - 1
      /\ \A k \in 1..Len(todo') : todo'[k] = todo[k + 1] /\ k + 1 \in 1..Len(todo)
  BY <1>1, RestOfCalls DEF JInv
<1>3. QED BY <1>2 DEF ActiveLast

LEMMA NextLast == JInv /\ JInv' /\ ActiveLast /\ [Next]_vars => ActiveLast'
<1> SUFFICES ASSUME JInv, JInv', ActiveLast, [Next]_vars PROVE ActiveLast' OBVIOUS
<1>1. CASE \/ UPairFails \/ UConnect \/ USwitchSame \/ UType \/ AllUp \/ PollRadio
           \/ UNCHANGED vars
  <2>1. todo' = todo
    BY <1>1 DEF UPairFails, UConnect, USwitchSame, UType, AllUp, PollRadio, flash, vars
  <2>2. QED BY <2>1 DEF ActiveLast
<1>2. CASE USleep \/ PowerWarning \/ UKey \/ UKeyDown \/ TypeChar \/ Boot
  BY <1>2, SavesLast DEF JInv
<1>3. CASE UPair \/ UDelete \/ UDeleteAll \/ USwitch BY <1>3, CommandLast
<1>4. CASE StoreStep BY <1>4, StoreStepLast
<1>5. CASE PowerLoss BY <1>5, OneCallLast DEF PowerLoss
<1>6. QED BY <1>1, <1>2, <1>3, <1>4, <1>5 DEF Next

\* The register sees a call only while the device is on.
LEMMA ActiveOps ==
  ASSUME JInv
  PROVE  CallOnActive \in Register!Ops /\ (~on => CallOnActive = NoOp)
<1>1. CASE todo # <<>> /\ Head(todo).page = "active"
  <2>1. Head(todo).slot \in Slots \cup {None} BY <1>1, FirstCall, CallFields DEF JInv
  <2>2. on BY <1>1 DEF JInv, IInv, OffIsReset
  <2>3. QED
    BY <1>1, <2>1, <2>2
    DEF CallOnActive, Register!Ops, Register!SaveOf, Register!ClearOp
<1>2. CASE ~(todo # <<>> /\ Head(todo).page = "active")
  BY <1>2 DEF CallOnActive, Register!Ops, Register!NoOp, NoOp
<1>3. QED BY <1>1, <1>2

LEMMA RegisterBegins ==
  ASSUME JInv', on, on', CallOnActive = NoOp, active' = active
  PROVE  [Register!Next]_(Register!vars)
<1>1. CallOnActive' \in Register!Ops
  <2>1. JInv' => (CallOnActive \in Register!Ops)' BY ActiveOps, PTL
  <2>2. QED BY <2>1
<1>2. QED
  BY <1>1 DEF Register!Next, Register!Call, Register!vars, Register!NoOp, NoOp,
              JInv, IInv, TypeOK

LEMMA RegisterStoreStep ==
  ASSUME JInv, JInv', ActiveLast, StoreStep
  PROVE  [Register!Next]_(Register!vars)
<1> DEFINE call == Head(todo)
<1>1. on /\ on' /\ on' = on /\ todo # <<>> /\ todo' = Tail(todo) BY DEF StoreStep
<1>2. call \in Calls /\ call = todo[1] /\ 1 \in 1..Len(todo) /\ Len(todo') = Len(todo) - 1
  BY <1>1, FirstCall, RestOfCalls DEF JInv
<1>3. CASE call.page = "active"
  <2>1. Len(todo) = 1 BY <1>2, <1>3 DEF ActiveLast
  <2>2. todo' = <<>>
    <3>1. todo' \in Seq(Calls) /\ Len(todo') = 0 BY <1>1, <1>2, <2>1, FirstCall DEF JInv
    <3>2. QED BY <3>1
  <2>3. CallOnActive' = NoOp BY <2>2 DEF CallOnActive
  <2>4. active' = call.slot BY <1>3 DEF StoreStep
  <2>5. CallOnActive # NoOp /\ Register!Result(CallOnActive) = call.slot
    BY <1>1, <1>3 DEF CallOnActive, NoOp, Register!Result
  <2>6. QED
    BY <1>1, <2>3, <2>4, <2>5 DEF Register!Next, Register!Return, Register!NoOp, NoOp
<1>4. CASE call.page # "active"
  <2>1. CallOnActive = NoOp BY <1>4 DEF CallOnActive
  <2>2. active' = active BY <1>2, <1>4, CallFields DEF StoreStep
  <2>3. QED BY <1>1, <2>1, <2>2, RegisterBegins
<1>5. QED BY <1>3, <1>4

LEMMA RegisterPowerLoss ==
  ASSUME JInv, PowerLoss
  PROVE  [Register!Next]_(Register!vars)
<1>1. on /\ on' = FALSE /\ todo' = <<>> BY DEF PowerLoss
<1>2. CallOnActive' = NoOp BY <1>1 DEF CallOnActive
<1>3. active' \in IF CallOnActive = NoOp THEN {active}
                    ELSE {active, Register!Result(CallOnActive), None}
  <2>1. CASE todo # <<>> /\ Head(todo).page = "active"
    <3>1. CallOnActive # NoOp /\ Register!Result(CallOnActive) = Head(todo).slot
      BY <2>1 DEF CallOnActive, NoOp, Register!Result
    <3>2. active' \in {active, Head(todo).slot, None} BY <2>1 DEF PowerLoss
    <3>3. QED BY <3>1, <3>2
  <2>2. CASE ~(todo # <<>> /\ Head(todo).page = "active")
    BY <2>2 DEF CallOnActive, PowerLoss
  <2>3. QED BY <2>1, <2>2
<1>4. QED
  BY <1>1, <1>2, <1>3 DEF Register!Next, Register!PowerLoss, Register!NoOp, NoOp

LEMMA RegisterBoot ==
  ASSUME JInv, Boot
  PROVE  [Register!Next]_(Register!vars)
<1>1. ~on /\ on' = TRUE /\ active' = active BY DEF Boot
<1>2. CallOnActive = NoOp BY <1>1, ActiveOps
<1>3. CallOnActive' = NoOp
  <2>1. todo' = <<>> \/ todo' = <<Save(BootSlot, dev')>>
    BY DEF Boot, JInv, IInv, OffIsReset
  <2>2. CASE todo' = <<>> BY <2>2 DEF CallOnActive
  <2>3. CASE todo' = <<Save(BootSlot, dev')>>
    <3>1. Head(todo') = Save(BootSlot, dev') BY <2>3
    <3>2. QED BY <3>1 DEF CallOnActive, Save, ProfileCall
  <2>4. QED BY <2>1, <2>2, <2>3
<1>4. QED BY <1>1, <1>2, <1>3 DEF Register!Next, Register!Boot

LEMMA RegisterCommand ==
  ASSUME JInv, JInv', Next, ~StoreStep, ~PowerLoss, ~Boot
  PROVE  [Register!Next]_(Register!vars)
<1>1. on /\ todo = <<>> /\ on' = on /\ active' = active
  <2>1. CASE TypeChar
    BY <2>1 DEF TypeChar, JInv, FlashInv, TypingIdle
  <2>2. CASE UPair \/ UPairFails \/ UConnect \/ USleep \/ UDelete \/ UDeleteAll
    BY <2>2 DEF UPair, UPairFails, UConnect, USleep, UDelete, UDeleteAll, Starts, flash
  <2>3. CASE USwitchSame \/ USwitch \/ UKey \/ UKeyDown \/ UType
    BY <2>3 DEF USwitchSame, USwitch, UKey, UKeyDown, UType, Starts, flash
  <2>4. CASE AllUp \/ PollRadio \/ PowerWarning
    BY <2>4 DEF AllUp, PollRadio, PowerWarning, Starts, flash
  <2>5. QED BY <2>1, <2>2, <2>3, <2>4 DEF Next
<1>2. CallOnActive = NoOp BY <1>1 DEF CallOnActive
<1>3. QED BY <1>1, <1>2, RegisterBegins

\* The page of the active slot is used as its abstract register allows, which ActiveSlotLog
\* implements: one call at a time, each with its effect, and none between commands (main.rs
\* and storage.rs, save_active_slot and clear_all).
THEOREM ActiveSlotIsRegister == Spec => ActiveIsRegister
<1>1. Init => Register!Init /\ ActiveLast
  BY DEF Init, CallOnActive, ActiveLast, Register!Init, Register!NoOp, NoOp
<1>2. JInv /\ JInv' /\ ActiveLast /\ [Next]_vars => ActiveLast' BY NextLast
<1>3. JInv /\ JInv' /\ ActiveLast /\ [Next]_vars => [Register!Next]_(Register!vars)
  <2> SUFFICES ASSUME JInv, JInv', ActiveLast, [Next]_vars
               PROVE  [Register!Next]_(Register!vars)
    OBVIOUS
  <2>1. CASE UNCHANGED vars
    BY <2>1 DEF vars, flash, Register!vars, CallOnActive
  <2>2. QED
    BY <2>1, RegisterStoreStep, RegisterPowerLoss, RegisterBoot, RegisterCommand
<1>4. QED
  BY <1>1, <1>2, <1>3, AlwaysJInv, PTL DEF Spec, ActiveIsRegister, Register!Spec
=============================================================================

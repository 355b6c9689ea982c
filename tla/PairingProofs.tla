--------------------------- MODULE PairingProofs ---------------------------
(***************************************************************************)
(* Proofs about the pairing state, for every number of slots, every set of  *)
(* pairings, every choice of counters, and any inputs.                      *)
(***************************************************************************)
EXTENDS Pairing, SequenceTheorems, TLAPS

\* What the calls of a command may be: a call that saves a pairing made by UPAIR saves
\* it in the slot it was made for.
Owned(call) ==
  call.page = "profile" /\ call.op.kind = "save" /\ call.op.profile.id \in Ids =>
    owner[call.op.profile.id] = call.slot

CallsOwned == \A k \in 1..Len(todo) : Owned(todo[k])

PairedHasProfile == paired => dev # None

TypingConnected == typing > 0 => connected

\* A device without power has lost its RAM, and its next boot finds counters it can use.
OffIsReset ==
  ~on => /\ ~paired /\ ~connected /\ typing = 0 /\ todo = <<>>
         /\ \A s \in Slots : stored[s] # None =>
              (stored[s].cnt + BootJump) % Modulus \in 0..MaxCounter

\* The inductive invariant.
IInv ==
  /\ TypeOK
  /\ ConnectedIsPaired /\ SlotOwnership
  /\ CallsOwned /\ PairedHasProfile /\ TypingConnected /\ OffIsReset

LEMMA Constants ==
  /\ MaxProfiles \in Nat \ {0} /\ Attempts \in Nat \ {0} /\ PressTries \in Nat \ {0}
  /\ BootJump \in Nat /\ MaxCounter \in Nat /\ Modulus \in Nat \ {0}
  /\ ErasedCnt \in Nat /\ TornCnt \in Nat
  /\ 0 \in Slots
BY Numbers, TornFields DEF Slots

\* A profile's counter is a natural number, its identity one that `used` covers.
LEMMA ProfileFields ==
  ASSUME NEW p \in AllProfiles
  PROVE  p.id \in AllIds /\ p.cnt \in Nat
BY Constants DEF AllProfiles, AllIds

\* The calls a command makes are calls.
LEMMA SaveIsCall ==
  ASSUME NEW s \in Slots, NEW p \in AllProfiles
  PROVE  /\ Save(s, p) \in Calls
         /\ Save(s, p).page = "profile" /\ Save(s, p).slot = s
         /\ Save(s, p).op.kind = "save" /\ Save(s, p).op.profile = p
BY DEF Save, ProfileCall, SaveOf, Calls, Ops, NoOp, ClearOp

LEMMA ClearIsCall ==
  ASSUME NEW s \in Slots
  PROVE  /\ ProfileCall(s, ClearOp) \in Calls
         /\ ProfileCall(s, ClearOp).page = "profile"
         /\ ProfileCall(s, ClearOp).op.kind = "clear"
BY DEF ProfileCall, Calls, Ops, NoOp, ClearOp

LEMMA ActiveIsCall ==
  ASSUME NEW s \in Slots \cup {None}
  PROVE  ActiveCall(s) \in Calls /\ ActiveCall(s).page = "active"
BY DEF ActiveCall, Calls

\* What a call does depends on its kind.
LEMMA CallFields ==
  ASSUME NEW call \in Calls
  PROVE  /\ call.page \in {"profile", "active"}
         /\ call.page = "profile" =>
              /\ call.slot \in Slots
              /\ call.op \in Ops
              /\ call.op.kind \in {"clear", "save"}
              /\ call.op.kind = "save" => call.op.profile \in AllProfiles
         /\ call.page = "active" => call.slot \in Slots \cup {None}
BY DEF Calls, Ops, NoOp, ClearOp, SaveOf

\* Sending reports leaves a profile a profile, of the same pairing.
LEMMA SendType ==
  ASSUME NEW n \in Nat, dev \in AllProfiles, used \in [AllIds -> Nat], Send(n)
  PROVE  /\ dev' \in AllProfiles /\ dev'.id = dev.id
         /\ used' \in [AllIds -> Nat]
<1>1. dev.id \in AllIds /\ dev.cnt \in Nat
  BY ProfileFields
<1>2. dev.cnt + n \in 0..MaxCounter
  BY <1>1, Constants DEF Send
<1>3. dev' = [id |-> dev.id, cnt |-> dev.cnt + n]
  BY DEF Send, AllProfiles
<1> QED
  BY <1>1, <1>2, <1>3 DEF Send, AllProfiles
-----------------------------------------------------------------------------
LEMMA InitIInv == Init => IInv
<1> SUFFICES ASSUME Init PROVE IInv
  OBVIOUS
<1>1. TypeOK
  BY Constants DEF Init, TypeOK, Loadable
<1> QED
  BY <1>1
  DEF Init, IInv, ConnectedIsPaired, SlotOwnership, CallsOwned, PairedHasProfile,
      TypingConnected, OffIsReset

\* Commands that change neither the profiles nor the calls to make.
LEMMA LinkIInv ==
  ASSUME IInv, UPairFails \/ UConnect \/ USwitchSame \/ UType \/ PollRadio
  PROVE  IInv'
<1> USE DEF flash, ghost
<1>1. UNCHANGED <<on, paired, activeSlot, dev, flash, ghost>>
  BY DEF UPairFails, UConnect, USwitchSame, UType, PollRadio
<1>2. connected' \in BOOLEAN /\ linkUp' \in BOOLEAN /\ (connected' => paired)
  <2>1. connected \in BOOLEAN /\ linkUp \in BOOLEAN /\ (connected => paired)
    BY DEF IInv, TypeOK, ConnectedIsPaired
  <2>2. CASE UPairFails
    <3>1. CASE UNCHANGED <<connected, linkUp>>
      <4>1. connected' = connected /\ linkUp' = linkUp
        BY <3>1
      <4> QED
        BY <2>1, <4>1
    <3>2. CASE linkUp' = (linkUp /\ ~paired) /\ connected' \in {connected, connected /\ ~paired}
      BY <2>1, <3>2
    <3> QED
      BY <2>2, <3>1, <3>2 DEF UPairFails
  <2>3. CASE UConnect \/ USwitchSame \/ UType \/ PollRadio
    BY <2>1, <2>3 DEF UConnect, USwitchSame, UType, PollRadio
  <2> QED
    BY <2>2, <2>3
<1>3. typing' \in Nat /\ (typing' > 0 => connected')
  <2>1. CASE UType
    BY <2>1, Numbers DEF UType
  <2>2. CASE ~UType
    <3>1. typing' = 0
      BY <2>2 DEF UPairFails, UConnect, USwitchSame, PollRadio, Starts
    <3> QED
      BY <3>1
  <2> QED
    BY <2>1, <2>2
<1>4. on
  BY DEF UPairFails, UConnect, USwitchSame, UType, PollRadio, Starts
<1>5. TypeOK'
  BY <1>1, <1>2, <1>3 DEF IInv, TypeOK
<1>6. SlotOwnership' /\ CallsOwned'
  BY <1>1 DEF IInv, SlotOwnership, CallsOwned, Owned
<1> QED
  BY <1>1, <1>2, <1>3, <1>4, <1>5, <1>6
  DEF IInv, ConnectedIsPaired, PairedHasProfile, TypingConnected, OffIsReset

\* A command whose calls are at most one save of the profile in use keeps calls owned.
LEMMA SaveActiveOwned ==
  ASSUME TypeOK', SlotOwnership', paired', dev' # None,
         todo' = <<Save(activeSlot', dev')>>
  PROVE  CallsOwned'
<1>1. dev' \in AllProfiles /\ activeSlot' \in Slots
  BY DEF TypeOK, Loadable
<1>2. Len(todo') = 1 /\ todo'[1] = Save(activeSlot', dev')
  OBVIOUS
<1> QED
  BY <1>1, <1>2, SaveIsCall DEF CallsOwned, Owned, SlotOwnership

LEMMA USleepIInv == IInv /\ USleep => IInv'
<1> SUFFICES ASSUME IInv, USleep PROVE IInv'
  OBVIOUS
<1> USE DEF ghost
<1>1. paired /\ dev \in AllProfiles /\ activeSlot \in Slots /\ on /\ typing = 0
  BY DEF IInv, TypeOK, ConnectedIsPaired, PairedHasProfile, Loadable, USleep, Starts
<1>2. todo' = <<Save(activeSlot, dev)>>
  BY <1>1 DEF USleep
<1>3. todo' \in Seq(Calls)
  BY <1>1, <1>2, SaveIsCall
<1>4. TypeOK'
  BY <1>3 DEF USleep, IInv, TypeOK
<1>5. SlotOwnership'
  BY DEF USleep, IInv, SlotOwnership
<1>6. CallsOwned'
  BY <1>1, <1>2, <1>4, <1>5, SaveActiveOwned DEF USleep, IInv, PairedHasProfile
<1> QED
  BY <1>1, <1>4, <1>5, <1>6
  DEF USleep, IInv, ConnectedIsPaired, PairedHasProfile, TypingConnected, OffIsReset

LEMMA PowerWarningIInv == IInv /\ PowerWarning => IInv'
<1> SUFFICES ASSUME IInv, PowerWarning PROVE IInv'
  OBVIOUS
<1> USE DEF ghost, ram
<1>1. paired /\ dev \in AllProfiles /\ activeSlot \in Slots /\ on /\ typing = 0
  BY DEF IInv, TypeOK, PairedHasProfile, Loadable, PowerWarning, Starts
<1>2. todo' \in Seq(Calls)
  <2>1. todo' = <<Save(activeSlot, dev)>>
    BY DEF PowerWarning
  <2> QED
    BY <1>1, <2>1, SaveIsCall
<1>3. TypeOK'
  BY <1>2 DEF PowerWarning, IInv, TypeOK
<1>4. SlotOwnership'
  BY DEF PowerWarning, IInv, SlotOwnership
<1>5. CallsOwned'
  BY <1>1, <1>3, <1>4, SaveActiveOwned DEF PowerWarning, IInv, PairedHasProfile
<1> QED
  BY <1>1, <1>3, <1>4, <1>5
  DEF PowerWarning, IInv, ConnectedIsPaired, PairedHasProfile, TypingConnected, OffIsReset

\* The commands that send key reports, and then perhaps save.
LEMMA ReportIInv ==
  ASSUME IInv, UKey \/ UKeyDown \/ TypeChar \/ AllUp
  PROVE  IInv'
<1>1. on /\ connected /\ paired /\ dev \in AllProfiles /\ activeSlot \in Slots
  BY DEF IInv, TypeOK, ConnectedIsPaired, PairedHasProfile, TypingConnected, Loadable,
         UKey, UKeyDown, TypeChar, AllUp, Starts
<1>2. PICK n \in Nat : Send(n)
  BY Constants DEF UKey, UKeyDown, TypeChar, AllUp
<1>3. dev' \in AllProfiles /\ dev'.id = dev.id /\ used' \in [AllIds -> Nat]
  BY <1>1, <1>2, SendType DEF IInv, TypeOK
<1>4. UNCHANGED <<on, paired, connected, activeSlot, stored, active, owner>>
  BY DEF UKey, UKeyDown, TypeChar, AllUp, flash
<1>5. typing' \in Nat
  <2>1. CASE TypeChar
    BY <2>1 DEF TypeChar, IInv, TypeOK
  <2> QED
    BY <2>1 DEF UKey, UKeyDown, AllUp, IInv, TypeOK
<1>6. linkUp' \in BOOLEAN
  BY DEF UKey, UKeyDown, TypeChar, AllUp, IInv, TypeOK
<1>7. todo' = todo \/ todo' = <<>> \/ todo' = <<Save(activeSlot, dev')>>
  BY DEF UKey, UKeyDown, TypeChar, AllUp, flash
<1>8. todo' \in Seq(Calls)
  <2>1. todo \in Seq(Calls) /\ <<>> \in Seq(Calls)
    BY DEF IInv, TypeOK
  <2>2. <<Save(activeSlot, dev')>> \in Seq(Calls)
    BY <1>1, <1>3, SaveIsCall
  <2> QED
    BY <1>7, <2>1, <2>2
<1>9. TypeOK'
  BY <1>3, <1>4, <1>5, <1>6, <1>8 DEF IInv, TypeOK, Loadable
<1>10. SlotOwnership'
  BY <1>3, <1>4 DEF IInv, SlotOwnership
<1>11. dev' # None
  BY <1>3, NoneAssumption
<1>12. CallsOwned'
  <2>1. CASE todo' = todo \/ todo' = <<>>
    BY <2>1, <1>4 DEF IInv, CallsOwned, Owned
  <2> QED
    BY <2>1, <1>1, <1>4, <1>7, <1>9, <1>10, <1>11, SaveActiveOwned
<1> QED
  BY <1>1, <1>4, <1>9, <1>10, <1>11, <1>12
  DEF IInv, ConnectedIsPaired, PairedHasProfile, TypingConnected, OffIsReset

LEMMA UPairIInv == IInv /\ UPair => IInv'
<1> SUFFICES ASSUME IInv, UPair PROVE IInv'
  OBVIOUS
<1> USE DEF ghost
<1>1. PICK s \in Slots, i \in Ids, c \in {0} \cup (IF dev = None THEN {} ELSE {dev.cnt}) :
        /\ owner[i] = None
        /\ dev' = [id |-> i, cnt |-> c] /\ paired' = TRUE
        /\ activeSlot' = s
        /\ todo' = <<Save(s, dev'), ActiveCall(s)>>
        /\ owner' = [owner EXCEPT ![i] = s]
  BY DEF UPair, Apply
<1>2. on /\ typing = 0 /\ todo = <<>> /\ connected' = TRUE /\ linkUp' = TRUE
      /\ UNCHANGED <<on, typing, stored, active, used>>
  BY DEF UPair, Starts
<1>3. dev' \in AllProfiles
  BY <1>1, Constants DEF IInv, TypeOK, Loadable, AllProfiles
<1>4. todo' \in Seq(Calls) /\ Len(todo') = 2
      /\ todo'[1] = Save(s, dev') /\ todo'[2] = ActiveCall(s)
  BY <1>1, <1>3, SaveIsCall, ActiveIsCall
<1>5. owner \in [Ids -> Slots \cup {None}] /\ owner' \in [Ids -> Slots \cup {None}]
  BY <1>1 DEF IInv, TypeOK
<1>6. TypeOK'
  BY <1>1, <1>2, <1>3, <1>4, <1>5 DEF IInv, TypeOK, Loadable
<1>7. SlotOwnership'
  BY <1>1, <1>2, <1>5, NoneAssumption DEF IInv, SlotOwnership
<1>8. CallsOwned'
  <2>1. Owned(todo[1])'
    BY <1>1, <1>3, <1>4, <1>5, SaveIsCall DEF Owned
  <2>2. Owned(todo[2])'
    BY <1>4, ActiveIsCall DEF Owned
  <2> QED
    BY <1>4, <2>1, <2>2 DEF CallsOwned
<1> QED
  BY <1>1, <1>2, <1>3, <1>6, <1>7, <1>8, NoneAssumption
  DEF IInv, ConnectedIsPaired, PairedHasProfile, TypingConnected, OffIsReset

\* Calls that save nothing are owned.
LEMMA ClearsOwned ==
  ASSUME \A k \in 1..Len(todo') :
           todo'[k].page = "profile" => todo'[k].op.kind # "save"
  PROVE  CallsOwned'
BY DEF CallsOwned, Owned

LEMMA UDeleteIInv == IInv /\ UDelete => IInv'
<1> SUFFICES ASSUME IInv, UDelete PROVE IInv'
  OBVIOUS
<1> USE DEF ghost
<1>1. PICK s \in Slots :
        /\ todo' = <<ProfileCall(s, ClearOp)>>
        /\ paired' = (paired /\ activeSlot # s)
        /\ connected' = (connected /\ activeSlot # s)
  BY DEF UDelete
<1>2. on /\ typing = 0
      /\ UNCHANGED <<on, linkUp, activeSlot, dev, typing, stored, active, ghost>>
  BY DEF UDelete, Starts
<1>3. todo' \in Seq(Calls) /\ Len(todo') = 1 /\ todo'[1] = ProfileCall(s, ClearOp)
  BY <1>1, ClearIsCall
<1>4. paired' \in BOOLEAN /\ connected' \in BOOLEAN
      /\ (connected' => paired') /\ (paired' => paired)
  BY <1>1 DEF IInv, TypeOK, ConnectedIsPaired
<1>5. TypeOK'
  BY <1>2, <1>3, <1>4 DEF IInv, TypeOK
<1>6. SlotOwnership'
  BY <1>2, <1>4 DEF IInv, SlotOwnership
<1>7. CallsOwned'
  BY <1>3, ClearIsCall, ClearsOwned
<1> QED
  BY <1>2, <1>4, <1>5, <1>6, <1>7
  DEF IInv, ConnectedIsPaired, PairedHasProfile, TypingConnected, OffIsReset

\* UDELETE all clears each slot once, and then the active slot.
LEMMA UDeleteAllCalls ==
  ASSUME UDeleteAll
  PROVE  /\ todo' \in Seq(Calls) /\ Len(todo') = MaxProfiles + 1
         /\ \A k \in 1..MaxProfiles :
              todo'[k].page = "profile" /\ todo'[k].slot = k - 1 /\ todo'[k].op = ClearOp
         /\ todo'[MaxProfiles + 1].page = "active"
         /\ \A k \in 1..Len(todo') : todo'[k].page = "profile" => k \in 1..MaxProfiles
         /\ ClearOp.kind # "save"
<1> DEFINE clears == [k \in 1..MaxProfiles |-> ProfileCall(k - 1, ClearOp)]
           last == <<ActiveCall(None)>>
<1>1. todo' = clears \o last
  BY DEF UDeleteAll
<1>2. \A k \in 1..MaxProfiles : k - 1 \in Slots
  BY Constants DEF Slots
<1>3. clears \in Seq(Calls) /\ Len(clears) = MaxProfiles
  BY <1>2, Constants, ClearIsCall
<1>4. last \in Seq(Calls) /\ Len(last) = 1 /\ last[1] = ActiveCall(None)
  BY ActiveIsCall
<1>5. \A k \in 1..MaxProfiles : clears[k] = ProfileCall(k - 1, ClearOp)
  OBVIOUS
<1> HIDE DEF clears, last
<1>6. /\ clears \o last \in Seq(Calls)
      /\ Len(clears \o last) = Len(clears) + Len(last)
      /\ \A k \in 1..Len(clears) + Len(last) :
           (clears \o last)[k] = IF k <= Len(clears) THEN clears[k] ELSE last[k - Len(clears)]
  BY <1>3, <1>4, ConcatProperties
<1>7. /\ todo' \in Seq(Calls) /\ Len(todo') = MaxProfiles + 1
      /\ \A k \in 1..MaxProfiles : todo'[k] = ProfileCall(k - 1, ClearOp)
      /\ todo'[MaxProfiles + 1] = ActiveCall(None)
  BY <1>1, <1>3, <1>4, <1>5, <1>6, Constants
<1>8. /\ \A k \in 1..MaxProfiles :
           todo'[k].page = "profile" /\ todo'[k].slot = k - 1 /\ todo'[k].op = ClearOp
      /\ todo'[MaxProfiles + 1].page = "active"
  <2>1. ASSUME NEW k \in 1..MaxProfiles
        PROVE  todo'[k].page = "profile" /\ todo'[k].slot = k - 1 /\ todo'[k].op = ClearOp
    <3>1. todo'[k] = ProfileCall(k - 1, ClearOp)
      BY <1>7
    <3> QED
      BY <3>1 DEF ProfileCall
  <2>2. todo'[MaxProfiles + 1].page = "active"
    BY <1>7 DEF ActiveCall
  <2> QED
    BY <2>1, <2>2
<1>9. \A k \in 1..Len(todo') : todo'[k].page = "profile" => k \in 1..MaxProfiles
  BY <1>7, <1>8, Constants
<1>10. ClearOp.kind # "save"
  BY DEF ClearOp
<1> QED
  BY <1>7, <1>8, <1>9, <1>10

LEMMA UDeleteAllIInv == IInv /\ UDeleteAll => IInv'
<1> SUFFICES ASSUME IInv, UDeleteAll PROVE IInv'
  OBVIOUS
<1> USE DEF ghost
<1>1. /\ paired' = FALSE /\ connected' = FALSE /\ on /\ typing = 0
      /\ UNCHANGED <<on, linkUp, activeSlot, dev, typing, stored, active, ghost>>
  BY DEF UDeleteAll, Starts
<1>2. /\ todo' \in Seq(Calls)
      /\ \A k \in 1..Len(todo') : todo'[k].page = "profile" => todo'[k].op.kind # "save"
  BY UDeleteAllCalls
<1>3. CallsOwned'
  BY <1>2, ClearsOwned
<1>4. TypeOK'
  BY <1>1, <1>2 DEF IInv, TypeOK
<1>5. SlotOwnership'
  BY <1>1 DEF IInv, SlotOwnership
<1> QED
  BY <1>1, <1>3, <1>4, <1>5
  DEF IInv, ConnectedIsPaired, PairedHasProfile, TypingConnected, OffIsReset

LEMMA TwoCalls ==
  ASSUME NEW c \in Calls, NEW d \in Calls
  PROVE  <<c>> \o <<d>> = <<c, d>>
<1> DEFINE s == <<c>>
           t == <<d>>
           u == <<c, d>>
<1>1. /\ s \in Seq(Calls) /\ Len(s) = 1 /\ s[1] = c
      /\ t \in Seq(Calls) /\ Len(t) = 1 /\ t[1] = d
      /\ u \in Seq(Calls) /\ Len(u) = 2 /\ u[1] = c /\ u[2] = d
  OBVIOUS
<1> HIDE DEF s, t, u
<1>2. /\ s \o t \in Seq(Calls)
      /\ Len(s \o t) = Len(s) + Len(t)
      /\ \A i \in 1..Len(s) + Len(t) :
           (s \o t)[i] = IF i <= Len(s) THEN s[i] ELSE t[i - Len(s)]
  BY <1>1, ConcatProperties
<1>3. \A i \in 1..Len(s \o t) : (s \o t)[i] = u[i]
  BY <1>1, <1>2
<1>4. s \o t = u
  BY <1>1, <1>2, <1>3, SeqEqual
<1> QED
  BY <1>4 DEF s, t, u

LEMMA USwitchIInv == IInv /\ USwitch => IInv'
<1> SUFFICES ASSUME IInv, USwitch PROVE IInv'
  OBVIOUS
<1> USE DEF ghost
<1>1. PICK s \in Slots \ {activeSlot} :
        /\ activeSlot' = s
        /\ todo' = SaveLeaving(s) \o <<ActiveCall(s)>>
        /\ IF stored[s] # None
             THEN Apply(stored[s])
             ELSE paired' = FALSE /\ UNCHANGED dev
  BY DEF USwitch
<1>2. on /\ typing = 0 /\ connected' \in {FALSE, paired'} /\ linkUp' = FALSE
      /\ UNCHANGED <<on, typing, stored, active, ghost>>
  BY DEF USwitch, Starts
<1>3. /\ paired' \in BOOLEAN /\ dev' \in Loadable
      /\ paired' => stored[s] # None /\ dev' = stored[s]
  BY <1>1 DEF Apply, IInv, TypeOK
<1>4. paired => dev \in AllProfiles /\ (dev.id \in Ids => owner[dev.id] = activeSlot)
  BY DEF IInv, TypeOK, Loadable, PairedHasProfile, SlotOwnership
<1>5. \/ todo' = <<ActiveCall(s)>>
      \/ paired /\ todo' = <<Save(activeSlot, dev), ActiveCall(s)>>
  <2>1. CASE paired
    <3>1. SaveLeaving(s) = <<Save(activeSlot, dev)>>
      BY <2>1 DEF SaveLeaving
    <3>2. Save(activeSlot, dev) \in Calls /\ ActiveCall(s) \in Calls
      BY <2>1, <1>4, SaveIsCall, ActiveIsCall DEF IInv, TypeOK
    <3> QED
      BY <2>1, <3>1, <3>2, <1>1, TwoCalls
  <2>2. CASE ~paired
    BY <2>2, <1>1 DEF SaveLeaving
  <2> QED
    BY <2>1, <2>2
<1>6. activeSlot \in Slots
  BY DEF IInv, TypeOK
<1>7. todo' \in Seq(Calls)
  <2>1. CASE todo' = <<ActiveCall(s)>>
    BY <2>1, ActiveIsCall
  <2>2. CASE paired /\ todo' = <<Save(activeSlot, dev), ActiveCall(s)>>
    BY <2>2, <1>4, <1>6, ActiveIsCall, SaveIsCall
  <2> QED
    BY <1>5, <2>1, <2>2
<1>8. TypeOK'
  BY <1>1, <1>2, <1>3, <1>7 DEF IInv, TypeOK
<1>9. SlotOwnership'
  BY <1>1, <1>2, <1>3 DEF IInv, SlotOwnership
<1>10. CallsOwned'
  <2>1. CASE todo' = <<ActiveCall(s)>>
    <3>1. Len(todo') = 1 /\ todo'[1] = ActiveCall(s)
      BY <2>1
    <3> QED
      BY <3>1, ActiveIsCall, ClearsOwned
  <2>2. CASE paired /\ todo' = <<Save(activeSlot, dev), ActiveCall(s)>>
    <3>1. Len(todo') = 2 /\ todo'[1] = Save(activeSlot, dev) /\ todo'[2] = ActiveCall(s)
      BY <2>2
    <3>2. Owned(todo[1])'
      BY <2>2, <3>1, <1>2, <1>4, <1>6, SaveIsCall DEF Owned
    <3>3. Owned(todo[2])'
      BY <3>1, ActiveIsCall DEF Owned
    <3> QED
      BY <3>1, <3>2, <3>3 DEF CallsOwned
  <2> QED
    BY <1>5, <2>1, <2>2
<1> QED
  <2>1. PairedHasProfile'
    BY <1>3 DEF PairedHasProfile
  <2>2. ConnectedIsPaired'
    BY <1>2 DEF ConnectedIsPaired
  <2> QED
    BY <2>1, <2>2, <1>2, <1>8, <1>9, <1>10 DEF IInv, TypingConnected, OffIsReset

LEMMA FirstCall ==
  ASSUME IInv, todo # <<>>
  PROVE  /\ Head(todo) \in Calls /\ Owned(Head(todo))
         /\ Tail(todo) \in Seq(Calls)
         /\ \A k \in 1..Len(Tail(todo)) : Owned(Tail(todo)[k])
<1>1. todo \in Seq(Calls) /\ \A k \in 1..Len(todo) : Owned(todo[k])
  BY DEF IInv, TypeOK, CallsOwned
<1>2. /\ Head(todo) \in Calls /\ Tail(todo) \in Seq(Calls)
      /\ Len(Tail(todo)) = Len(todo) - 1 /\ Len(todo) \in Nat
      /\ \A k \in 1..Len(Tail(todo)) : Tail(todo)[k] = todo[k + 1]
  BY <1>1, HeadTailProperties, LenProperties
<1>3. Head(todo) = todo[1] /\ 1 \in 1..Len(todo)
  BY <1>1
<1>4. \A k \in 1..Len(Tail(todo)) : k + 1 \in 1..Len(todo)
  BY <1>2
<1> QED
  BY <1>1, <1>2, <1>3, <1>4

LEMMA StoreStepIInv == IInv /\ StoreStep => IInv'
<1> SUFFICES ASSUME IInv, StoreStep PROVE IInv'
  OBVIOUS
<1> USE DEF ghost, ram
<1> DEFINE call == Head(todo)
<1>1. /\ on /\ todo # <<>> /\ todo' = Tail(todo)
      /\ UNCHANGED <<on, ram, ghost>>
  BY DEF StoreStep
<1>2. call \in Calls /\ Owned(call) /\ Tail(todo) \in Seq(Calls)
  BY <1>1, FirstCall
<1>3. \/ /\ call.page = "profile" /\ UNCHANGED active
         /\ stored' = [stored EXCEPT ![call.slot] = AfterCall(@, call.op)]
      \/ /\ call.page = "active" /\ active' = call.slot /\ UNCHANGED stored
  BY <1>2, CallFields DEF StoreStep
<1> HIDE DEF call
<1>4. /\ active' \in Slots \cup {None}
      /\ stored' \in [Slots -> Loadable]
      /\ \A s \in Slots : stored'[s] # None /\ stored'[s].id \in Ids =>
                             owner[stored'[s].id] = s
  <2>1. CASE call.page = "active"
    BY <2>1, <1>2, <1>3, CallFields DEF IInv, TypeOK, SlotOwnership
  <2>2. CASE call.page = "profile"
    <3>1. /\ AfterCall(stored[call.slot], call.op) \in Loadable
          /\ LET c == AfterCall(stored[call.slot], call.op)
             IN  c # None /\ c.id \in Ids => owner[c.id] = call.slot
      BY <2>2, <1>2, CallFields DEF AfterCall, Owned, Loadable
    <3> QED
      BY <2>2, <3>1, <1>2, <1>3, CallFields DEF IInv, TypeOK, SlotOwnership
  <2> QED
    BY <1>2, <2>1, <2>2, CallFields
<1>5. TypeOK'
  BY <1>1, <1>2, <1>4 DEF IInv, TypeOK
<1>6. SlotOwnership'
  BY <1>1, <1>4 DEF IInv, SlotOwnership
<1>7. CallsOwned'
  BY <1>1, FirstCall DEF CallsOwned, Owned
<1> QED
  BY <1>1, <1>5, <1>6, <1>7
  DEF IInv, ConnectedIsPaired, PairedHasProfile, TypingConnected, OffIsReset

\* A call cut short leaves the old profile, the pairing being saved, or one that no
\* UPAIR made.
LEMMA OutcomeOwned ==
  ASSUME NEW c \in Loadable, NEW o \in Ops, o.kind \in {"clear", "save"},
         o.kind = "save" => o.profile \in AllProfiles,
         NEW r \in Outcomes(c, o)
  PROVE  /\ r \in Loadable
         /\ r # None /\ r.id \in Ids =>
              r = c \/ (o.kind = "save" /\ r.id = o.profile.id)
<1>1. \/ r = c \/ r = None
      \/ o.kind = "save" /\ (r = o.profile \/ r \in Torn(o.profile))
  BY DEF Outcomes, AfterPowerLoss
<1>2. CASE r = c \/ r = None
  BY <1>2 DEF Loadable
<1>3. CASE o.kind = "save" /\ r = o.profile
  BY <1>3 DEF Loadable
<1>4. CASE o.kind = "save" /\ r \in Torn(o.profile)
  BY <1>4, TornFields DEF Torn, Loadable, AllProfiles
<1> QED
  BY <1>1, <1>2, <1>3, <1>4

LEMMA PowerLossIInv == IInv /\ PowerLoss => IInv'
<1> SUFFICES ASSUME IInv, PowerLoss PROVE IInv'
  OBVIOUS
<1> USE DEF ghost
<1> DEFINE call == Head(todo)
<1>1. /\ on' = FALSE /\ todo' = <<>>
      /\ paired' = FALSE /\ connected' = FALSE /\ linkUp' = FALSE
      /\ activeSlot' = 0 /\ dev' = None /\ typing' = 0
      /\ UNCHANGED ghost
  BY DEF PowerLoss
<1>2. \A s \in Slots : stored'[s] # None =>
        (stored'[s].cnt + BootJump) % Modulus <= MaxCounter
  BY DEF PowerLoss
<1>3. /\ stored' \in [Slots -> Loadable]
      /\ \A s \in Slots : stored'[s] # None /\ stored'[s].id \in Ids =>
                             owner[stored'[s].id] = s
  <2>1. CASE todo # <<>> /\ call.page = "profile"
    <3>1. call \in Calls /\ Owned(call) /\ call.slot \in Slots
      BY <2>1, FirstCall, CallFields
    <3>2. PICK r \in Outcomes(stored[call.slot], call.op) :
            stored' = [stored EXCEPT ![call.slot] = r]
      BY <2>1 DEF PowerLoss
    <3> HIDE DEF call
    <3>3. stored \in [Slots -> Loadable] /\ stored[call.slot] \in Loadable
      BY <3>1 DEF IInv, TypeOK
    <3>4. /\ r \in Loadable
          /\ r # None /\ r.id \in Ids =>
               r = stored[call.slot]
                 \/ (call.op.kind = "save" /\ r.id = call.op.profile.id)
      BY <2>1, <3>1, <3>3, CallFields, OutcomeOwned
    <3>5. r # None /\ r.id \in Ids => owner[r.id] = call.slot
      BY <2>1, <3>1, <3>4 DEF Owned, IInv, SlotOwnership
    <3> QED
      BY <3>1, <3>2, <3>3, <3>4, <3>5 DEF IInv, SlotOwnership
  <2>2. CASE ~(todo # <<>> /\ call.page = "profile")
    BY <2>2 DEF PowerLoss, IInv, TypeOK, SlotOwnership
  <2> QED
    BY <2>1, <2>2
<1>4. active' \in Slots \cup {None}
  <2>1. CASE todo # <<>> /\ call.page = "active"
    BY <2>1, FirstCall, CallFields DEF PowerLoss, IInv, TypeOK
  <2>2. CASE ~(todo # <<>> /\ call.page = "active")
    BY <2>2 DEF PowerLoss, IInv, TypeOK
  <2> QED
    BY <2>1, <2>2
<1>5. TypeOK'
  <2>1. <<>> \in Seq(Calls)
    OBVIOUS
  <2>2. used' \in [AllIds -> Nat] /\ owner' \in [Ids -> Slots \cup {None}]
    BY <1>1 DEF IInv, TypeOK
  <2> QED
    BY <1>1, <1>3, <1>4, <2>1, <2>2, Constants DEF TypeOK, Loadable
<1>6. SlotOwnership'
  BY <1>1, <1>3 DEF SlotOwnership
<1>7. OffIsReset'
  <2>1. ASSUME NEW s \in Slots, stored'[s] # None
        PROVE  (stored'[s].cnt + BootJump) % Modulus \in 0..MaxCounter
    <3>1. stored'[s].cnt + BootJump \in Nat
      BY <2>1, <1>3, ProfileFields, Constants DEF Loadable
    <3>2. (stored'[s].cnt + BootJump) % Modulus \in 0..(Modulus - 1)
      BY <3>1, Constants
    <3> QED
      BY <2>1, <3>2, <1>2, Constants
  <2> QED
    BY <1>1, <2>1 DEF OffIsReset
<1> QED
  BY <1>1, <1>5, <1>6, <1>7
  DEF IInv, CallsOwned, ConnectedIsPaired, PairedHasProfile, TypingConnected

LEMMA BootIInv == IInv /\ Boot => IInv'
<1> SUFFICES ASSUME IInv, Boot PROVE IInv'
  OBVIOUS
<1> USE DEF ghost
<1>1. /\ on' = TRUE /\ activeSlot' = BootSlot
      /\ UNCHANGED <<connected, linkUp, typing, stored, active, ghost>>
      /\ ~paired /\ ~connected /\ typing = 0 /\ todo = <<>>
  BY DEF Boot, IInv, OffIsReset
<1>2. BootSlot \in Slots
  BY Constants DEF BootSlot, IInv, TypeOK
<1>3. CASE stored[BootSlot] = None
  <2>1. UNCHANGED <<dev, paired, todo>>
    BY <1>3 DEF Boot
  <2>2. TypeOK'
    BY <1>1, <1>2, <2>1 DEF IInv, TypeOK
  <2> QED
    BY <1>1, <2>1, <2>2
    DEF IInv, SlotOwnership, CallsOwned, Owned, ConnectedIsPaired, PairedHasProfile,
        TypingConnected, OffIsReset
<1>4. CASE stored[BootSlot] # None
  <2>1. /\ dev' = Jump(stored[BootSlot]) /\ paired' = TRUE
        /\ todo' = <<Save(BootSlot, dev')>>
    BY <1>4 DEF Boot, Apply
  <2>2. stored[BootSlot] \in AllProfiles
        /\ (stored[BootSlot].cnt + BootJump) % Modulus \in 0..MaxCounter
    BY <1>2, <1>4 DEF Boot, IInv, TypeOK, Loadable, OffIsReset
  <2>3. dev' \in AllProfiles /\ dev'.id = stored[BootSlot].id
    BY <2>1, <2>2 DEF Jump, AllProfiles
  <2>4. todo' \in Seq(Calls)
    BY <1>2, <2>1, <2>3, SaveIsCall
  <2>5. TypeOK'
    BY <1>1, <1>2, <2>1, <2>3, <2>4 DEF IInv, TypeOK, Loadable
  <2>6. SlotOwnership'
    BY <1>1, <1>2, <1>4, <2>3 DEF IInv, SlotOwnership
  <2>7. dev' # None
    BY <2>3, NoneAssumption
  <2>8. CallsOwned'
    BY <1>1, <2>1, <2>5, <2>6, <2>7, SaveActiveOwned
  <2> QED
    BY <1>1, <2>1, <2>5, <2>6, <2>7, <2>8
    DEF ConnectedIsPaired, PairedHasProfile, TypingConnected, OffIsReset, IInv
<1> QED
  BY <1>3, <1>4

LEMMA NextIInv == IInv /\ [Next]_vars => IInv'
<1> SUFFICES ASSUME IInv, [Next]_vars PROVE IInv'
  OBVIOUS
<1>1. CASE UNCHANGED vars
  BY <1>1
  DEF vars, ram, flash, ghost, IInv, TypeOK, SlotOwnership, CallsOwned, Owned,
      ConnectedIsPaired, PairedHasProfile, TypingConnected, OffIsReset
<1> QED
  BY <1>1, LinkIInv, USleepIInv, PowerWarningIInv, ReportIInv, UPairIInv, UDeleteIInv,
     UDeleteAllIInv, USwitchIInv, StoreStepIInv, PowerLossIInv, BootIInv DEF Next

LEMMA AlwaysIInv == Spec => []IInv
<1>1. Init => IInv
  BY InitIInv
<1>2. IInv /\ [Next]_vars => IInv'
  BY NextIInv
<1> QED
  BY <1>1, <1>2, PTL DEF Spec

-----------------------------------------------------------------------------
\* Every variable keeps its type, the counter included: no sequence of commands and
\* power failures makes a report with a counter that is not a number of its width.
THEOREM TypeCorrect == Spec => []TypeOK
<1>1. IInv => TypeOK
  BY DEF IInv
<1> QED
  BY <1>1, AlwaysIInv, PTL

\* The link is never up for a slot that holds no pairing (main.rs, UKEY and UTYPE).
THEOREM ConnectedOnlyIfPaired == Spec => []ConnectedIsPaired
<1>1. IInv => ConnectedIsPaired
  BY DEF IInv
<1> QED
  BY <1>1, AlwaysIInv, PTL

\* No pairing ever reaches a slot it was not made for (main.rs, switch_to).
THEOREM SlotsOwned == Spec => []SlotOwnership
<1>1. IInv => SlotOwnership
  BY DEF IInv
<1> QED
  BY <1>1, AlwaysIInv, PTL
=============================================================================

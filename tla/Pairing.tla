------------------------------ MODULE Pairing ------------------------------
(***************************************************************************)
(* The radio worker's pairing state: the four profile slots, the active     *)
(* slot, and the encryption counter of the pairing in use (app/src/main.rs: *)
(* UnifyingState, handle_unifying_command, poll_radio and the boot code).   *)
(*                                                                         *)
(* Every key report is encrypted under the key of its pairing with the next *)
(* value of a counter, and a receiver ignores a report whose counter it has *)
(* seen.  The counter lives in RAM and is written to flash now and then.    *)
(*                                                                         *)
(* A command changes RAM and then calls the store; `todo` holds the calls   *)
(* it has still to make.  They run without an await in between, so no other *)
(* command starts before the last, but the supply may fail in any of them.  *)
(***************************************************************************)
EXTENDS Integers, Sequences

CONSTANTS
  MaxProfiles, \* MAX_PROFILES: 4
  Ids,         \* pairings that UPAIR can make: their address and key
  ErasedId, ErasedCnt, TornId, TornCnt,  \* fields of a torn record: see Profiles
  None,
  Attempts,    \* attempts of send_report while the link is up: 3
  PressTries,  \* tries of press_key and of release_keys: 20
  TextLengths, \* numbers of characters of one UTYPE: at most 250
  SaveEvery,   \* UKEYDOWN saves a counter that is a multiple of this: 128
  BootJump,    \* what a boot adds to the counter: 512
  Modulus,     \* 2^32
  MaxCounter,  \* bound: no run goes on to use a counter above this
  Inputs       \* the commands and the events of the environment that occur

ASSUME Numbers ==
  /\ {MaxProfiles, Attempts, PressTries, SaveEvery} \subseteq Nat \ {0}
  /\ TextLengths \subseteq Nat \ {0}
  /\ {BootJump, MaxCounter} \subseteq Nat
  /\ Modulus \in Nat /\ MaxCounter < Modulus

ASSUME TornFields ==
  /\ ErasedCnt = Modulus - 1 /\ ErasedCnt > MaxCounter
  /\ TornCnt \in Nat /\ TornCnt > MaxCounter /\ TornCnt < ErasedCnt
  /\ ErasedId \notin Ids /\ TornId \notin Ids /\ ErasedId # TornId

Commands == {"UPAIR", "UCONNECT", "USLEEP", "UDELETE", "UDELETE all", "USWITCH",
             "UKEY", "UKEYDOWN", "UTYPE"}

\* "pair elsewhere": UPAIR names a slot that is not the active one; "all-up": a CDC
\* grant or a damaged UART line makes the worker release all keys; "active erase":
\* the page of the active slot has to be erased before it is written; "torn record":
\* the supply fails while a record is being programmed.
Events == {"pair elsewhere", "all-up", "power warning", "power loss",
           "active erase", "torn record"}

ASSUME InputsAssumption == Inputs \subseteq Commands \cup Events

VARIABLES
  on,          \* the device runs
  paired, connected, linkUp, activeSlot,  \* UnifyingState
  dev,         \* UnifyingState.device: the pairing it holds and its next counter
  typing,      \* characters that UTYPE has still to send
  stored,      \* the profile in each slot
  active,      \* the persisted active slot
  todo,        \* store calls the current command has still to make
  used,        \* for each pairing, the first counter never used (for properties)
  owner        \* for each pairing, the slot it was made for (for properties)

ram   == <<paired, connected, linkUp, activeSlot, dev, typing>>
flash == <<stored, active, todo>>
ghost == <<used, owner>>
vars  == <<on, ram, flash, ghost>>

INSTANCE Profiles WITH Counters <- 0..MaxCounter

Slots == 0..(MaxProfiles - 1)

AllIds == Ids \cup {ErasedId, TornId}

ASSUME NoneAssumption == None \notin Slots /\ None \notin AllProfiles

\* Store calls.
ProfileCall(s, o) == [page |-> "profile", slot |-> s, op |-> o]
ActiveCall(s)     == [page |-> "active", slot |-> s]

Save(s, p) == ProfileCall(s, SaveOf(p))

Calls == [page : {"profile"}, slot : Slots, op : Ops \ {NoOp}]
           \cup [page : {"active"}, slot : Slots \cup {None}]

\* Each variable stays in its range: the counter wraps, and the device holds only
\* profiles that a pairing or the store can give it.
TypeOK ==
  /\ on \in BOOLEAN /\ paired \in BOOLEAN /\ connected \in BOOLEAN
  /\ linkUp \in BOOLEAN
  /\ activeSlot \in Slots
  /\ dev \in Loadable
  /\ typing \in Nat
  /\ stored \in [Slots -> Loadable]
  /\ active \in Slots \cup {None}
  /\ todo \in Seq(Calls)
  /\ used \in [AllIds -> Nat]
  /\ owner \in [Ids -> Slots \cup {None}]

Init ==
  /\ on = TRUE /\ paired = FALSE /\ connected = FALSE /\ linkUp = FALSE
  /\ activeSlot = 0
  /\ dev = None
  /\ typing = 0
  /\ stored = [s \in Slots |-> None]
  /\ active = None
  /\ todo = <<>>
  /\ used = [i \in AllIds |-> 0]
  /\ owner = [i \in Ids |-> None]
-----------------------------------------------------------------------------
\* The worker starts command c when the last one has ended.
Starts(c) == on /\ todo = <<>> /\ typing = 0 /\ c \in Inputs

\* send_encrypted_keystroke, n times: each call uses a counter, acknowledged or not.
Send(n) ==
  /\ dev.cnt + n <= MaxCounter
  /\ dev' = [dev EXCEPT !.cnt = @ + n]
  /\ used' = [used EXCEPT ![dev.id] = IF @ < dev.cnt + n THEN dev.cnt + n ELSE @]

\* UnifyingState::apply_profile
Apply(p) ==
  /\ dev' = p
  /\ paired' = TRUE

\* UPAIR [slot].  The receiver hands out a new address and key.  The counter of the
\* device is either kept or reset by the protocol library.
UPair ==
  /\ Starts("UPAIR")
  /\ \E s \in Slots, i \in Ids, c \in {0} \cup (IF dev = None THEN {} ELSE {dev.cnt}) :
       /\ s = activeSlot \/ "pair elsewhere" \in Inputs
       /\ owner[i] = None
       /\ Apply([id |-> i, cnt |-> c])
       /\ activeSlot' = s
       /\ todo' = <<Save(s, dev'), ActiveCall(s)>>
       /\ owner' = [owner EXCEPT ![i] = s]
  /\ connected' = TRUE /\ linkUp' = TRUE
  /\ UNCHANGED <<on, typing, stored, active, used>>

\* A failed UPAIR restores the pairing it was replacing, and the link if the radio can
\* still be configured; if it could not be configured at first, nothing has changed.
UPairFails ==
  /\ Starts("UPAIR")
  /\ \/ UNCHANGED <<connected, linkUp>>
     \/ /\ linkUp' = (linkUp /\ ~paired)
        /\ connected' \in {connected, connected /\ ~paired}
  /\ UNCHANGED <<on, paired, activeSlot, dev, typing, flash, ghost>>

UConnect ==
  /\ Starts("UCONNECT")
  /\ paired
  /\ connected' = TRUE /\ linkUp' = TRUE
  /\ UNCHANGED <<on, paired, activeSlot, dev, typing, flash, ghost>>

USleep ==
  /\ Starts("USLEEP")
  /\ connected
  /\ connected' = FALSE
  /\ todo' = IF paired THEN <<Save(activeSlot, dev)>> ELSE <<>>
  /\ UNCHANGED <<on, paired, linkUp, activeSlot, dev, typing, stored, active, ghost>>

\* Mutant: UDELETE leaves the RAM copy of the deleted pairing usable.
UDeleteFlashOnly ==
  /\ Starts("UDELETE")
  /\ \E s \in Slots : todo' = <<ProfileCall(s, ClearOp)>>
  /\ UNCHANGED <<on, ram, stored, active, ghost>>

\* Mutant: UDELETE leaves a link to the pairing it deleted.
UDeleteKeepsLink ==
  /\ Starts("UDELETE")
  /\ \E s \in Slots :
       /\ todo' = <<ProfileCall(s, ClearOp)>>
       /\ paired' = (paired /\ activeSlot # s)
  /\ UNCHANGED <<on, connected, linkUp, activeSlot, dev, typing, stored, active, ghost>>

UDelete ==
  /\ Starts("UDELETE")
  /\ \E s \in Slots :
       /\ todo' = <<ProfileCall(s, ClearOp)>>
       /\ paired' = (paired /\ activeSlot # s)
       /\ connected' = (connected /\ activeSlot # s)
  /\ UNCHANGED <<on, linkUp, activeSlot, dev, typing, stored, active, ghost>>

\* clear_all erases the profile pages in order, then the page of the active slot.
UDeleteAll ==
  /\ Starts("UDELETE all")
  /\ todo' = [k \in 1..MaxProfiles |-> ProfileCall(k - 1, ClearOp)]
               \o <<ActiveCall(None)>>
  /\ paired' = FALSE /\ connected' = FALSE
  /\ UNCHANGED <<on, linkUp, activeSlot, dev, typing, stored, active, ghost>>

\* USWITCH to the active slot only reconnects, if the radio can be configured: RAM has
\* the newer counter.
USwitchSame ==
  /\ Starts("USWITCH")
  /\ connected' \in {connected, connected \/ paired}
  /\ UNCHANGED <<on, paired, linkUp, activeSlot, dev, typing, flash, ghost>>

\* Mutant: the profile being left is saved under the slot being entered.
SaveIntoEntered(s) == IF paired THEN <<Save(s, dev)>> ELSE <<>>

\* switch_to saves the profile it leaves.
SaveLeaving(s) == IF paired THEN <<Save(activeSlot, dev)>> ELSE <<>>

\* Mutant: the slot switched to is not persisted.
SwitchUnrecorded ==
  /\ Starts("USWITCH")
  /\ \E s \in Slots \ {activeSlot} :
       /\ activeSlot' = s
       /\ todo' = SaveLeaving(s)
       /\ IF stored[s] # None
            THEN Apply(stored[s])
            ELSE paired' = FALSE /\ UNCHANGED dev
  /\ connected' \in {FALSE, paired'} /\ linkUp' = FALSE
  /\ UNCHANGED <<on, typing, stored, active, ghost>>

\* USWITCH to another slot: the profile being left is saved, the new active slot is
\* persisted, and the profile of that slot is loaded as it was stored.
USwitch ==
  /\ Starts("USWITCH")
  /\ \E s \in Slots \ {activeSlot} :
       /\ activeSlot' = s
       /\ todo' = SaveLeaving(s) \o <<ActiveCall(s)>>
       /\ IF stored[s] # None
            THEN Apply(stored[s])
            ELSE paired' = FALSE /\ UNCHANGED dev
  /\ connected' \in {FALSE, paired'} /\ linkUp' = FALSE
  /\ UNCHANGED <<on, typing, stored, active, ghost>>

\* UKEY: a press and a release, then a save.
UKey ==
  /\ Starts("UKEY")
  /\ connected
  /\ \E n \in 2..(2 * PressTries) : Send(n)
  /\ todo' = IF paired THEN <<Save(activeSlot, dev')>> ELSE <<>>
  /\ UNCHANGED <<on, paired, connected, linkUp, activeSlot, typing, stored, active,
                 owner>>

\* UKEYDOWN sends one report.  It saves the counter only when the counter it has
\* reached is a multiple of SaveEvery.
UKeyDown ==
  /\ Starts("UKEYDOWN")
  /\ connected
  /\ LET most == IF linkUp THEN Attempts ELSE 1 IN
       \/ \E n \in 1..most : Send(n) /\ linkUp' = TRUE   \* the n-th is acknowledged
       \/ Send(most) /\ linkUp' = FALSE                   \* none is
  /\ todo' = IF paired /\ dev'.cnt % SaveEvery = 0
               THEN <<Save(activeSlot, dev')>> ELSE <<>>
  /\ UNCHANGED <<on, paired, connected, activeSlot, typing, stored, active, owner>>

\* UTYPE sends a press and a release for each character, and saves at the end.
UType ==
  /\ Starts("UTYPE")
  /\ connected
  /\ typing' \in TextLengths
  /\ UNCHANGED <<on, paired, connected, linkUp, activeSlot, dev, flash, ghost>>

TypeChar ==
  /\ on /\ typing > 0
  /\ \E n \in 2..(2 * PressTries) : Send(n)
  /\ typing' = typing - 1
  /\ todo' = IF typing' = 0 /\ paired THEN <<Save(activeSlot, dev')>> ELSE <<>>
  /\ UNCHANGED <<on, paired, connected, linkUp, activeSlot, stored, active, owner>>

\* The worker releases all keys, before a CDC grant or after UART damage: press_key
\* with an empty report, without a save.
AllUp ==
  /\ Starts("all-up")
  /\ connected
  /\ \E n \in 1..PressTries : Send(n)
  /\ UNCHANGED <<on, paired, connected, linkUp, activeSlot, typing, flash, owner>>

\* poll_radio: a keep-alive may show that the link is up, or that it is down.
PollRadio ==
  /\ on /\ todo = <<>> /\ typing = 0
  /\ connected
  /\ linkUp' \in BOOLEAN
  /\ UNCHANGED <<on, paired, connected, activeSlot, dev, typing, flash, ghost>>

\* poll_radio: a warning of the supply makes it save.
PowerWarning ==
  /\ Starts("power warning")
  /\ paired
  /\ todo' = <<Save(activeSlot, dev)>>
  /\ UNCHANGED <<on, ram, stored, active, ghost>>
-----------------------------------------------------------------------------
\* Mutant: clear_slot returns without erasing.
KeepWhenCleared(c, o) == IF o.kind = "save" THEN o.profile ELSE c

\* What a slot that held c holds after call o.
AfterCall(c, o) == IF o.kind = "save" THEN o.profile ELSE None

\* Mutant: clear_all leaves the page of the active slot.
KeepActiveWhenCleared ==
  /\ on /\ todo # <<>>
  /\ LET call == Head(todo) IN
       IF call.page = "profile"
         THEN /\ stored' = [stored EXCEPT ![call.slot] = AfterCall(@, call.op)]
              /\ UNCHANGED active
         ELSE /\ active' = IF call.slot = None THEN active ELSE call.slot
              /\ UNCHANGED stored
  /\ todo' = Tail(todo)
  /\ UNCHANGED <<on, ram, ghost>>

\* The next store call of the current command.
StoreStep ==
  /\ on /\ todo # <<>>
  /\ LET call == Head(todo) IN
       IF call.page = "profile"
         THEN /\ stored' = [stored EXCEPT ![call.slot] = AfterCall(@, call.op)]
              /\ UNCHANGED active
         ELSE /\ active' = call.slot
              /\ UNCHANGED stored
  /\ todo' = Tail(todo)
  /\ UNCHANGED <<on, ram, ghost>>

\* What a slot may hold when the supply fails in call o; a record is torn only when
\* the inputs say so.
Outcomes(c, o) ==
  IF "torn record" \in Inputs
    THEN AfterPowerLoss(c, o)
    ELSE {c, None} \cup (IF o.kind = "save" THEN {o.profile} ELSE {})

\* The supply fails, or the device is reset: RAM is lost, and the store call under
\* way is cut short.
PowerLoss ==
  /\ on /\ "power loss" \in Inputs
  /\ on' = FALSE
  /\ IF todo # <<>> /\ Head(todo).page = "profile"
       THEN \E c \in Outcomes(stored[Head(todo).slot], Head(todo).op) :
              stored' = [stored EXCEPT ![Head(todo).slot] = c]
       ELSE UNCHANGED stored
  /\ IF todo # <<>> /\ Head(todo).page = "active"
       THEN active' \in {active, Head(todo).slot}
                          \cup (IF "active erase" \in Inputs THEN {None} ELSE {})
       ELSE UNCHANGED active
  /\ \A s \in Slots : stored'[s] # None =>
                        (stored'[s].cnt + BootJump) % Modulus <= MaxCounter
  /\ todo' = <<>>
  /\ paired' = FALSE /\ connected' = FALSE /\ linkUp' = FALSE
  /\ activeSlot' = 0 /\ dev' = None /\ typing' = 0
  /\ UNCHANGED ghost

\* The slot a boot looks at.
BootSlot == IF active = None THEN 0 ELSE active

\* Mutant: a boot goes on from the stored counter.
NoJump(p) == p

\* Mutant: the counter does not wrap.
JumpUnwrapped(p) == [p EXCEPT !.cnt = @ + BootJump]

\* A boot jumps the counter forward, to pass the values used since the last save.
Jump(p) == [p EXCEPT !.cnt = (@ + BootJump) % Modulus]

Boot ==
  /\ ~on
  /\ on' = TRUE
  /\ activeSlot' = BootSlot
  /\ IF stored[BootSlot] # None
       THEN /\ Apply(Jump(stored[BootSlot]))
            /\ todo' = <<Save(BootSlot, dev')>>
       ELSE UNCHANGED <<dev, paired, todo>>
  /\ UNCHANGED <<connected, linkUp, typing, stored, active, ghost>>

Next ==
  \/ UPair \/ UPairFails \/ UConnect \/ USleep \/ UDelete \/ UDeleteAll
  \/ USwitchSame \/ USwitch \/ UKey \/ UKeyDown \/ UType \/ TypeChar
  \/ AllUp \/ PollRadio \/ PowerWarning
  \/ StoreStep \/ PowerLoss \/ Boot

Spec == Init /\ [][Next]_vars
-----------------------------------------------------------------------------
(* Properties *)

\* No key report is sent for a slot that holds no pairing: whatever deletes or
\* replaces a pairing also disconnects it (main.rs, the guards of UKEY and UTYPE).
ConnectedIsPaired == connected => paired

\* A counter is never used twice with the same key: the next value of the pairing in
\* use is above every value used with it (docs/TECHNICAL.md, the counter section).
NeverReused == paired => dev.cnt >= used[dev.id]

\* A slot holds only a pairing that was made for it, and so does RAM: no save, switch,
\* power warning or failed pairing carries one into another slot (main.rs, switch_to).
SlotOwnership ==
  /\ \A s \in Slots : stored[s] # None /\ stored[s].id \in Ids =>
                         owner[stored[s].id] = s
  /\ paired /\ dev.id \in Ids => owner[dev.id] = activeSlot

\* Between commands flash agrees with RAM: a restart would come back to the slot and
\* the pairing in use, with a counter that is not ahead; and to none when there is
\* none (main.rs, the boot code).
RestartFindsPairing ==
  on /\ todo = <<>> =>
    IF paired
      THEN /\ BootSlot = activeSlot
           /\ stored[activeSlot] # None
           /\ stored[activeSlot].id = dev.id
           /\ stored[activeSlot].cnt <= dev.cnt
      ELSE stored[activeSlot] = None

Held(i) ==
  \/ \E s \in Slots : stored[s] # None /\ stored[s].id = i
  \/ \E k \in DOMAIN todo :
       todo[k].page = "profile" /\ todo[k].op.kind = "save" /\ todo[k].op.profile.id = i

\* A pairing that the store has lost, deleted or replaced never comes back to it
\* (main.rs, UDELETE): no late save writes it again.
GoneForGood ==
  [][ \A i \in Ids : owner[i] # None /\ ~Held(i) => ~Held(i)' ]_vars

\* The call under way on slot s.
CallOn(s) ==
  IF todo # <<>> /\ Head(todo).page = "profile" /\ Head(todo).slot = s
    THEN Head(todo).op ELSE NoOp

Slot(s) == INSTANCE ProfileStore
             WITH Counters <- 0..MaxCounter, committed <- stored[s], op <- CallOn(s)

\* Every slot is used as the abstract store allows: the worker saves only a new
\* pairing, or the one the slot holds (storage.rs, as ProfileLog implements it).
SlotsAreStores ==
  /\ \A s \in Slots : Slot(s)!Init
  /\ [][ \A s \in Slots : [Slot(s)!Next]_(Slot(s)!vars) ]_vars

\* The call under way on the page of the active slot.
CallOnActive ==
  IF todo # <<>> /\ Head(todo).page = "active"
    THEN IF Head(todo).slot = None THEN [kind |-> "clear"]
                                   ELSE [kind |-> "save", slot |-> Head(todo).slot]
    ELSE NoOp

Register == INSTANCE ActiveSlot WITH committed <- active, op <- CallOnActive

\* The page of the active slot is used as its abstract register allows: only UPAIR, USWITCH,
\* clear_all and a power failure in one of them change it, and the call that a command makes
\* has its effect (storage.rs, as ActiveSlotLog implements it).
ActiveIsRegister == Register!Spec
=============================================================================

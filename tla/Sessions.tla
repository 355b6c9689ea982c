------------------------------ MODULE Sessions ------------------------------
(***************************************************************************)
(* The tasks of app/src/main.rs that share one radio worker between a UART  *)
(* forwarder and a CDC maintenance session: the USB lifecycle callbacks,    *)
(* control_fut, worker_fut, serial_fut, uart_rx_fut, uart_tx_fut and        *)
(* reboot_fut.                                                              *)
(*                                                                         *)
(* All tasks run on one executor and yield only at an await, so an action   *)
(* is what a task does between two awaits.  They share atomics, a queue of  *)
(* requests, two one-element reply channels and a signal that grants        *)
(* maintenance.  Signals that only wake a task are left out: a task may run *)
(* whenever what it waits for is there.                                     *)
(*                                                                         *)
(* A UART request is one of                                                 *)
(*   VER     the synchronisation command                                    *)
(*   KEY     a key report, UKEYDOWN: the handler runs without an await      *)
(*   SWITCH  USWITCH and, over CDC, USLEEP and UDELETE: no await either      *)
(*   PAIR    a command whose handler awaits timers: UPAIR, CDC's UCONNECT    *)
(*   BEGIN   OTA BEGIN                                                       *)
(*   OTA     the other OTA commands                                         *)
(* and a line of the CDC host is one of KEY, SWITCH, PAIR, WRITE, BOOT,      *)
(* ABORT and REBOOT, or upload data while an upload is under way.            *)
(*                                                                         *)
(* Key reports go to the receiver in use, if the device is connected to one. *)
(* keysDown says whose report it heard, or may have heard, last:             *)
(*   uart, cdc  a press of that side, and no all-up was sent to it since     *)
(*   none       an all-up, or nothing                                       *)
(*   stray      a key may be down all the same: nobody heard the all-up, or  *)
(*              it was down when the device left this receiver               *)
(***************************************************************************)
EXTENDS Integers, Sequences

CONSTANTS
  QueueCap,     \* capacity of REQUESTS: 8
  MaxSession,   \* bound on the session number
  MaxFaults,    \* bound on the damage generation
  MaxFrames,    \* bound on the UART frames sent
  MaxRing,      \* bound on the frames that wait in the hardware's ring
  MaxLines,     \* bound on the CDC lines and packets sent
  UartKinds,    \* the UART requests that occur
  CdcKinds,     \* the CDC lines that occur
  StartConnected, \* what unifying.connected may be at the start
  QuickReopen,  \* whether DTR may return before serial_fut saw it go (1 ms polling)
  None

ASSUME Bounds ==
  /\ {QueueCap, MaxSession, MaxFaults, MaxFrames, MaxRing, MaxLines} \subseteq Nat
  /\ QueueCap > 0
  /\ UartKinds \subseteq {"VER", "KEY", "SWITCH", "PAIR", "BEGIN", "OTA"}
  /\ CdcKinds \subseteq {"KEY", "SWITCH", "PAIR", "WRITE", "BOOT", "ABORT", "REBOOT"}
  /\ QuickReopen \in BOOLEAN /\ StartConnected \subseteq BOOLEAN
  /\ None \notin Int

VARIABLES
  available, dtrValid,      \* USB_AVAILABLE, USB_DTR_VALID
  cdcActive, session,       \* CDC_ACTIVE, CDC_SESSION
  syncRequired,             \* UART_SYNC_REQUIRED
  damaged, generation,      \* UART_DAMAGED, UART_GENERATION
  uploadActive, otaActive,  \* UPLOAD_ACTIVE, UART_OTA_ACTIVE
  requests,                 \* REQUESTS
  cdcReply,                 \* CDC_REPLIES: the session of the reply, or None
  uartReply,                \* UART_REPLIES: whether it holds a reply
  maintenanceReady,         \* MAINTENANCE_READY: a session, or None
  rebootRequested, down,    \* REBOOT_REQUESTED; the device was reset
  worker,                   \* worker_fut: [pc, seen, request]
  serial,                   \* serial_fut: [pc, session, kind, upload, image]
  ring, readSession,        \* frames uart_rx_fut has still to read; its read_session
  discard,                  \* its parser drops what comes before the next line feed
  txBusy,                   \* uart_tx_fut is writing a reply
  connected,                \* unifying.connected
  keysDown,                 \* what the receiver in use holds down
  pressGeneration,          \* generation of the UART request that pressed it, or 0
  lastVer, lastActive,      \* sessions of the last VER accepted, of the last CDC window
  frames, lines             \* frames and lines sent so far, for the bounds

usbVars    == <<available, dtrValid>>
cdcVars    == <<cdcActive, session>>
faultVars  == <<damaged, generation>>
rebootVars == <<rebootRequested, down>>
rxVars     == <<ring, readSession, discard>>
keyVars    == <<connected, keysDown, pressGeneration>>
ghostVars  == <<lastVer, lastActive>>
vars == <<usbVars, cdcVars, syncRequired, faultVars, uploadActive, otaActive, requests,
          cdcReply, uartReply, maintenanceReady, rebootVars, worker, serial, rxVars,
          txBusy, keyVars, ghostVars, frames, lines>>

SessionNumbers == 0..(MaxSession + 1)
Generations    == 0..(MaxFaults + MaxFrames)    \* faults, and frames that overflow

\* The requests of the queue.  CDC requests carry no generation.
UartRequest == [source : {"uart"}, kind : UartKinds, session : SessionNumbers,
                generation : Generations]
CdcRequest  == [source : {"cdc"}, kind : {"KEY", "SWITCH", "PAIR", "REBOOT"},
                session : SessionNumbers, generation : {0}]

ASSUME NoRequest == None \notin UartRequest \cup CdcRequest

\* Every flag, queue and program counter stays within what the code can hold; REQUESTS
\* never holds more than its capacity.
TypeOK ==
  /\ {available, dtrValid, cdcActive, syncRequired, damaged, uploadActive, otaActive,
      uartReply, rebootRequested, down, txBusy, discard, connected} \subseteq BOOLEAN
  /\ session \in SessionNumbers /\ readSession \in SessionNumbers
  /\ generation \in Generations
  /\ requests \in Seq(UartRequest \cup CdcRequest) /\ Len(requests) <= QueueCap
  /\ cdcReply \in SessionNumbers \cup {None}
  /\ maintenanceReady \in SessionNumbers \cup {None}
  /\ worker \in [pc : {"top", "wait", "run", "reply"}, seen : SessionNumbers,
                 request : UartRequest \cup CdcRequest \cup {None}]
  /\ serial \in [pc : {"idle", "ready", "read", "send", "reply"},
                 session : SessionNumbers, kind : CdcKinds \cup {None},
                 upload : BOOLEAN, image : BOOLEAN]
  /\ ring \in Seq(UartKinds)
  /\ keysDown \in {"none", "uart", "cdc", "stray"}
  /\ pressGeneration \in Generations
  /\ {lastVer, lastActive} \subseteq {-1} \cup SessionNumbers

\* Power-on, where nothing is connected; or the state to which a USWITCH and then an OTA that
\* timed out have led, which differs only in that.
Init ==
  /\ available = FALSE /\ dtrValid = FALSE
  /\ cdcActive = FALSE /\ session = 0
  /\ syncRequired = TRUE
  /\ damaged = FALSE /\ generation = 0
  /\ uploadActive = FALSE /\ otaActive = FALSE
  /\ requests = <<>> /\ cdcReply = None /\ uartReply = FALSE
  /\ maintenanceReady = None
  /\ rebootRequested = FALSE /\ down = FALSE
  /\ worker = [pc |-> "top", seen |-> 0, request |-> None]
  /\ serial = [pc |-> "idle", session |-> 0, kind |-> None, upload |-> FALSE,
               image |-> FALSE]
  /\ ring = <<>> /\ readSession = 0 /\ discard = FALSE
  /\ txBusy = FALSE
  /\ connected \in StartConnected /\ keysDown = "none" /\ pressGeneration = 0
  /\ lastVer = -1 /\ lastActive = -1
  /\ frames = 0 /\ lines = 0
-----------------------------------------------------------------------------
(* USB callbacks and control_fut *)

\* UsbLifecycle::unavailable: reset, disabled or deconfigured, also before it was configured.
UsbUnavailable ==
  /\ ~down
  /\ session < MaxSession
  /\ available' = FALSE /\ dtrValid' = FALSE
  /\ cdcActive' = FALSE
  /\ session' = session + 1
  /\ uploadActive' = FALSE
  /\ cdcReply' = None
  /\ UNCHANGED <<syncRequired, faultVars, otaActive, requests, uartReply,
                 maintenanceReady, rebootVars, worker, serial, rxVars, txBusy, keyVars,
                 ghostVars, frames, lines>>

\* UsbLifecycle::configured(true)
UsbConfigured ==
  /\ ~down /\ ~available
  /\ available' = TRUE
  /\ UNCHANGED <<dtrValid, cdcVars, syncRequired, faultVars, uploadActive, otaActive,
                 requests, cdcReply, uartReply, maintenanceReady, rebootVars, worker,
                 serial, rxVars, txBusy, keyVars, ghostVars, frames, lines>>

\* UsbLifecycle::control_out: the host opens or closes the port.
SetControlLine ==
  /\ ~down /\ available
  /\ dtrValid' = ~dtrValid
  /\ dtrValid' => session < MaxSession
  /\ UNCHANGED <<available, cdcVars, syncRequired, faultVars, uploadActive, otaActive,
                 requests, cdcReply, uartReply, maintenanceReady, rebootVars, worker,
                 serial, rxVars, txBusy, keyVars, ghostVars, frames, lines>>

\* Mutant: a CDC window leaves the synchronisation of the UART in force.
KeepSync(next) == syncRequired

\* A CDC window, however short, makes the UART synchronise again.
SyncAfter(next) == syncRequired \/ next

\* One turn of control_fut that finds a change.  Opened again before serial_fut saw the port
\* go, the worker must be asleep in a handler and its last grant taken: the executor polls
\* control_fut, an idle worker and a serial_fut that can go on in the same pass.
Control ==
  /\ ~down
  /\ LET next == available /\ dtrValid IN
       /\ next # cdcActive
       /\ next => \/ serial.pc = "idle"
                  \/ QuickReopen /\ worker.pc = "run" /\ maintenanceReady = None
       /\ session <= MaxSession
       /\ session' = session + 1
       /\ cdcActive' = next
       /\ syncRequired' = SyncAfter(next)
       /\ IF next
            THEN UNCHANGED <<uploadActive, cdcReply>> /\ lastActive' = session'
            ELSE uploadActive' = FALSE /\ cdcReply' = None /\ UNCHANGED lastActive
  /\ UNCHANGED <<usbVars, faultVars, otaActive, requests, uartReply, maintenanceReady,
                 rebootVars, worker, serial, rxVars, txBusy, keyVars, lastVer, frames,
                 lines>>
-----------------------------------------------------------------------------
(* worker_fut *)

OtaKinds == {"BEGIN", "OTA"}

\* press_key with no key, sent only while connected.  Its result is ignored: after twenty
\* attempts nobody heard it.
AllUp ==
  /\ IF connected
       THEN /\ keysDown' \in {"none", IF keysDown = "none" THEN "none" ELSE "stray"}
            /\ pressGeneration' = 0
       ELSE UNCHANGED <<keysDown, pressGeneration>>
  /\ UNCHANGED connected

\* What a command may do that chooses the receiver: it keeps the one in use, it disconnects, or
\* it connects to another, or to the same again, which may hold a key from the time it was left.
ChoosesReceiver ==
  \/ UNCHANGED keyVars
  \/ /\ connected' \in BOOLEAN
     /\ keysDown' \in {"none"} \cup {k \in {"stray"} : connected'}
     /\ pressGeneration' = 0

\* Mutant: CDC gets the radio without an all-up.
GrantOnly ==
  /\ ~down /\ worker.pc = "top"
  /\ \E expired \in {FALSE, otaActive} :
       /\ otaActive' = (otaActive /\ ~expired)
       /\ syncRequired' = (syncRequired \/ expired)
       /\ lastVer' = IF expired THEN -1 ELSE lastVer
  /\ LET grants == session # worker.seen /\ cdcActive IN
       /\ maintenanceReady' = IF grants THEN session ELSE maintenanceReady
       /\ IF damaged THEN AllUp ELSE UNCHANGED keyVars
  /\ damaged' = FALSE
  /\ worker' = [worker EXCEPT !.pc = "wait", !.seen = session]
  /\ UNCHANGED <<usbVars, cdcVars, generation, uploadActive, requests, cdcReply,
                 uartReply, rebootVars, serial, rxVars, txBusy, lastActive, frames,
                 lines>>

\* Mutant: a grant nobody took yet is not replaced.
GrantIfNoneIsPending ==
  /\ ~down /\ worker.pc = "top"
  /\ \E expired \in {FALSE, otaActive} :
       /\ otaActive' = (otaActive /\ ~expired)
       /\ syncRequired' = (syncRequired \/ expired)
       /\ lastVer' = IF expired THEN -1 ELSE lastVer
  /\ LET grants == session # worker.seen /\ cdcActive /\ maintenanceReady = None IN
       /\ maintenanceReady' = IF grants THEN session ELSE maintenanceReady
       /\ IF grants \/ damaged THEN AllUp ELSE UNCHANGED keyVars
  /\ damaged' = FALSE
  /\ worker' = [worker EXCEPT !.pc = "wait", !.seen = session]
  /\ UNCHANGED <<usbVars, cdcVars, generation, uploadActive, requests, cdcReply,
                 uartReply, rebootVars, serial, rxVars, txBusy, lastActive, frames,
                 lines>>

\* The part of its loop before the select: OTA times out after 60 s without a request,
\* a new CDC window gets an all-up and then the radio, damage gets an all-up; UART_DAMAGED is
\* taken back even if nothing is connected.
WorkerTop ==
  /\ ~down /\ worker.pc = "top"
  /\ \E expired \in {FALSE, otaActive} :
       /\ otaActive' = (otaActive /\ ~expired)
       /\ syncRequired' = (syncRequired \/ expired)
       /\ lastVer' = IF expired THEN -1 ELSE lastVer
  /\ LET grants == session # worker.seen /\ cdcActive IN
       /\ maintenanceReady' = IF grants THEN session ELSE maintenanceReady
       /\ IF grants \/ damaged THEN AllUp ELSE UNCHANGED keyVars
  /\ damaged' = FALSE
  /\ worker' = [worker EXCEPT !.pc = "wait", !.seen = session]
  /\ UNCHANGED <<usbVars, cdcVars, generation, uploadActive, requests, cdcReply,
                 uartReply, rebootVars, serial, rxVars, txBusy, lastActive, frames,
                 lines>>

\* The select ends with the 8 ms deadline or MAINTENANCE_CHANGED; a request comes first.
WorkerWakes ==
  /\ ~down /\ worker.pc = "wait"
  /\ requests = <<>>
  /\ worker' = [worker EXCEPT !.pc = "top"]
  /\ UNCHANGED <<usbVars, cdcVars, syncRequired, faultVars, uploadActive, otaActive,
                 requests, cdcReply, uartReply, maintenanceReady, rebootVars, serial,
                 rxVars, txBusy, keyVars, ghostVars, frames, lines>>

\* Mutant: what was queued before UART damage is executed after it.
DroppedIfCdc(r) ==
  r.source = "cdc" /\ (~cdcActive \/ session # r.session \/ worker.seen # r.session)

\* Requests that get no reply: those of another CDC session, those from before UART damage.
Dropped(r) ==
  \/ r.source = "cdc" /\ (~cdcActive \/ session # r.session \/ worker.seen # r.session)
  \/ r.source = "uart" /\ r.generation # generation

\* Mutant: a UART request of the current session runs although CDC owns the radio.
RefusedIfOld(r) == r.session # session \/ (syncRequired /\ r.kind # "VER")

\* UART requests that come while CDC owns the radio, or were read in another session, or
\* before the UART side synchronised again.
OutOfTurn(r) == cdcActive \/ r.session # session \/ (syncRequired /\ r.kind # "VER")

\* A UART OTA and a CDC upload exclude each other; an OTA excludes every other command.
OtaConflict(r) ==
  \/ r.kind \in OtaKinds /\ uploadActive
  \/ r.kind \notin OtaKinds \cup {"VER"} /\ otaActive

\* Requests answered ERR BUSY without more ado.
Busy(r) == (r.source = "uart" /\ OutOfTurn(r)) \/ OtaConflict(r)

\* Mutant: a reply goes to CDC although the session that asked for it is over.
AnswerLate(r, ran) ==
  IF r.source = "cdc"
    THEN /\ cdcReply' = IF cdcReply = None THEN r.session ELSE cdcReply
         /\ worker' = [worker EXCEPT !.pc = "top", !.request = None]
    ELSE /\ worker' = [worker EXCEPT !.pc = "reply", !.request = ran]
         /\ UNCHANGED cdcReply

\* The reply to r goes out without an await to CDC, if its session is still the one, and
\* is waited for by a UART request.
Answer(r, ran) ==
  IF r.source = "cdc"
    THEN /\ cdcReply' = IF cdcActive /\ session = r.session /\ cdcReply = None
                          THEN session ELSE cdcReply
         /\ worker' = [worker EXCEPT !.pc = "top", !.request = None]
    ELSE /\ worker' = [worker EXCEPT !.pc = "reply", !.request = ran]
         /\ UNCHANGED cdcReply

Takes(r) ==
  /\ ~down /\ worker.pc = "wait"
  /\ requests' = Tail(requests)
  /\ UNCHANGED <<usbVars, cdcVars, faultVars, uploadActive, uartReply, maintenanceReady,
                 down, serial, rxVars, txBusy, lastActive, frames, lines>>

WorkerDrops(r) ==
  /\ Takes(r) /\ Dropped(r)
  /\ worker' = [worker EXCEPT !.pc = "top"]
  /\ UNCHANGED <<syncRequired, otaActive, cdcReply, rebootRequested, keyVars, lastVer>>

WorkerRefuses(r) ==
  /\ Takes(r) /\ ~Dropped(r) /\ Busy(r)
  /\ Answer(r, None)
  /\ UNCHANGED <<syncRequired, otaActive, rebootRequested, keyVars, lastVer>>

\* VER: the UART side knows again what it talks to.  During an OTA the reply is ERR BUSY.
WorkerSyncs(r) ==
  /\ Takes(r) /\ ~Dropped(r) /\ ~Busy(r) /\ r.kind = "VER"
  /\ syncRequired' = FALSE
  /\ lastVer' = session
  /\ Answer(r, None)
  /\ UNCHANGED <<otaActive, rebootRequested, keyVars>>

\* uart_ota::handle.  BEGIN first releases the keys; it may be refused for its arguments.
\* The others leave the transfer as it is or end it, and COMMIT may ask for the reset.
WorkerOta(r) ==
  /\ Takes(r) /\ ~Dropped(r) /\ ~Busy(r) /\ r.kind \in OtaKinds
  /\ IF r.kind = "BEGIN"
       THEN /\ otaActive' \in {otaActive, TRUE}
            /\ AllUp
            /\ UNCHANGED rebootRequested
       ELSE /\ otaActive' \in {otaActive, FALSE}
            /\ rebootRequested' \in {rebootRequested, rebootRequested \/ otaActive # otaActive'}
            /\ UNCHANGED keyVars
  /\ Answer(r, r)
  /\ UNCHANGED <<syncRequired, lastVer>>

\* UKEYDOWN, refused unless connected, presses or releases.  Bad arguments, and a release that
\* nobody heard (ERR SEND), change nothing; nor does a line the handler does not know.
WorkerKeys(r) ==
  /\ Takes(r) /\ ~Dropped(r) /\ ~Busy(r) /\ r.kind \in {"KEY", "REBOOT"}
  /\ \/ UNCHANGED keyVars
     \/ /\ r.kind = "KEY" /\ connected
        /\ keysDown' \in {r.source, "none"}
        /\ pressGeneration' = IF keysDown' = "uart" THEN r.generation ELSE 0
        /\ UNCHANGED connected
  /\ Answer(r, r)
  /\ UNCHANGED <<syncRequired, otaActive, rebootRequested, lastVer>>

\* USWITCH to the slot in use, to another or to an empty one, USLEEP, UDELETE.  Nothing is
\* released on the receiver that is left.
WorkerSwitches(r) ==
  /\ Takes(r) /\ ~Dropped(r) /\ ~Busy(r) /\ r.kind = "SWITCH"
  /\ ChoosesReceiver
  /\ Answer(r, r)
  /\ UNCHANGED <<syncRequired, otaActive, rebootRequested, lastVer>>

\* A handler that awaits timers, and its end: a pairing that succeeded or gave up, a connection.
WorkerStarts(r) ==
  /\ Takes(r) /\ ~Dropped(r) /\ ~Busy(r) /\ r.kind = "PAIR"
  /\ worker' = [worker EXCEPT !.pc = "run", !.request = r]
  /\ UNCHANGED <<syncRequired, otaActive, cdcReply, rebootRequested, keyVars, lastVer>>

WorkerFinishes ==
  /\ ~down /\ worker.pc = "run"
  /\ ChoosesReceiver
  /\ Answer(worker.request, worker.request)
  /\ UNCHANGED <<usbVars, cdcVars, syncRequired, faultVars, uploadActive, otaActive,
                 requests, uartReply, maintenanceReady, rebootVars, serial, rxVars,
                 txBusy, ghostVars, frames, lines>>

\* UART_REPLIES.send: waits for uart_tx_fut to take the reply before it.
WorkerReplies ==
  /\ ~down /\ worker.pc = "reply"
  /\ ~uartReply
  /\ uartReply' = TRUE
  /\ worker' = [worker EXCEPT !.pc = "top", !.request = None]
  /\ UNCHANGED <<usbVars, cdcVars, syncRequired, faultVars, uploadActive, otaActive,
                 requests, cdcReply, maintenanceReady, rebootVars, serial, rxVars,
                 txBusy, keyVars, ghostVars, frames, lines>>

Worker ==
  \/ WorkerTop \/ WorkerWakes \/ WorkerFinishes \/ WorkerReplies
  \/ /\ requests # <<>>
     /\ LET r == Head(requests) IN
       \/ WorkerDrops(r) \/ WorkerRefuses(r) \/ WorkerSyncs(r)
       \/ WorkerOta(r) \/ WorkerKeys(r) \/ WorkerSwitches(r) \/ WorkerStarts(r)
-----------------------------------------------------------------------------
(* serial_fut *)

SerialUnchanged ==
  UNCHANGED <<usbVars, cdcVars, syncRequired, faultVars, otaActive, uartReply, down,
              worker, rxVars, txBusy, keyVars, ghostVars, frames>>

\* A connection with CDC_ACTIVE: the session is read once and the locals are fresh.
SerialConnect ==
  /\ ~down /\ serial.pc = "idle"
  /\ cdcActive
  /\ serial' = [pc |-> "ready", session |-> session, kind |-> None, upload |-> FALSE,
                image |-> FALSE]
  /\ SerialUnchanged
  /\ UNCHANGED <<uploadActive, requests, cdcReply, maintenanceReady, rebootRequested, lines>>

\* MAINTENANCE_READY.wait() takes the signal, whichever session it is for.
SerialReady ==
  /\ ~down /\ serial.pc = "ready"
  /\ maintenanceReady # None
  /\ maintenanceReady' = None
  /\ serial' = [serial EXCEPT !.pc = IF maintenanceReady = serial.session
                                      THEN "read" ELSE "ready"]
  /\ SerialUnchanged
  /\ UNCHANGED <<uploadActive, requests, cdcReply, rebootRequested, lines>>

Reads ==
  /\ ~down /\ serial.pc = "read"
  /\ lines < MaxLines /\ lines' = lines + 1
  /\ SerialUnchanged
  /\ UNCHANGED <<requests, cdcReply, maintenanceReady>>

\* A packet of the image: more to come, the last one, or a failed write.
SerialPacket ==
  /\ Reads /\ serial.upload
  /\ \/ UNCHANGED <<serial, uploadActive>>
     \/ \E complete \in BOOLEAN :
          /\ serial' = [serial EXCEPT !.upload = FALSE, !.image = complete]
          /\ uploadActive' = FALSE
  /\ UNCHANGED rebootRequested

\* Mutant: WRITE does not look for a UART OTA under way.
WriteAnyway ==
  /\ Reads /\ ~serial.upload /\ "WRITE" \in CdcKinds
  /\ serial' = [serial EXCEPT !.upload = TRUE, !.image = FALSE]
  /\ uploadActive' = TRUE
  /\ UNCHANGED rebootRequested

\* WRITE, refused during a UART OTA.
SerialWrite ==
  /\ Reads /\ ~serial.upload /\ "WRITE" \in CdcKinds
  /\ IF otaActive
       THEN UNCHANGED <<serial, uploadActive>>
       ELSE /\ serial' = [serial EXCEPT !.upload = TRUE, !.image = FALSE]
            /\ uploadActive' = TRUE
  /\ UNCHANGED rebootRequested

\* BOOT, refused during a UART OTA and without an image; marking it may fail.
SerialBoot ==
  /\ Reads /\ ~serial.upload /\ "BOOT" \in CdcKinds
  /\ \/ UNCHANGED rebootRequested
     \/ ~otaActive /\ serial.image /\ rebootRequested' = TRUE
  /\ UNCHANGED <<serial, uploadActive>>

\* ABORT; one in the packet of its WRITE, which ends the upload before it began, is left to
\* FirmwareUpdate.
SerialAbort ==
  /\ Reads /\ ~serial.upload /\ "ABORT" \in CdcKinds
  /\ serial' = [serial EXCEPT !.image = FALSE]
  /\ uploadActive' = FALSE
  /\ UNCHANGED rebootRequested

\* REBOOT is answered, and like every line serial_fut does not know itself it goes on to
\* the worker.
SerialLine ==
  /\ Reads /\ ~serial.upload
  /\ \E kind \in CdcKinds \cap {"KEY", "SWITCH", "PAIR", "REBOOT"} :
       /\ rebootRequested' = (rebootRequested \/ kind = "REBOOT")
       /\ serial' = [serial EXCEPT !.pc = "send", !.kind = kind]
  /\ UNCHANGED uploadActive

\* Mutant: a request is queued however full REQUESTS is.
SendAnyway ==
  /\ ~down /\ serial.pc = "send"
  /\ requests' = Append(requests, [source |-> "cdc", kind |-> serial.kind,
                                   session |-> serial.session, generation |-> 0])
  /\ serial' = [serial EXCEPT !.pc = "reply"]
  /\ SerialUnchanged
  /\ UNCHANGED <<uploadActive, cdcReply, maintenanceReady, rebootRequested, lines>>

\* Mutant: a request for which there is no room is lost.
SendIfRoom ==
  /\ ~down /\ serial.pc = "send"
  /\ requests' = IF Len(requests) = QueueCap THEN requests
                 ELSE Append(requests, [source |-> "cdc", kind |-> serial.kind,
                                        session |-> serial.session, generation |-> 0])
  /\ serial' = [serial EXCEPT !.pc = "reply"]
  /\ SerialUnchanged
  /\ UNCHANGED <<uploadActive, cdcReply, maintenanceReady, rebootRequested, lines>>

\* REQUESTS.send: waits for room.
SerialSend ==
  /\ ~down /\ serial.pc = "send"
  /\ Len(requests) < QueueCap
  /\ requests' = Append(requests, [source |-> "cdc", kind |-> serial.kind,
                                   session |-> serial.session, generation |-> 0])
  /\ serial' = [serial EXCEPT !.pc = "reply"]
  /\ SerialUnchanged
  /\ UNCHANGED <<uploadActive, cdcReply, maintenanceReady, rebootRequested, lines>>

\* CDC_REPLIES.receive, until the reply is one of this session.
SerialReply ==
  /\ ~down /\ serial.pc = "reply"
  /\ cdcReply # None
  /\ cdcReply' = None
  /\ serial' = IF cdcReply = serial.session
                 THEN [serial EXCEPT !.pc = "read"]
                 ELSE serial
  /\ SerialUnchanged
  /\ UNCHANGED <<uploadActive, requests, maintenanceReady, rebootRequested, lines>>

\* Mutant: the end of a session takes back the reset it asked for.
EndCancelsReboot ==
  /\ ~down /\ serial.pc # "idle"
  /\ ~cdcActive \/ session # serial.session
  /\ serial' = [serial EXCEPT !.pc = "idle", !.upload = FALSE]
  /\ uploadActive' = FALSE /\ cdcReply' = None
  /\ rebootRequested' = FALSE
  /\ SerialUnchanged
  /\ UNCHANGED <<requests, maintenanceReady, lines>>

\* session_ended wins the select, at most a millisecond late; whatever was awaited is dropped.
SerialEnd ==
  /\ ~down /\ serial.pc # "idle"
  /\ ~cdcActive \/ session # serial.session
  /\ serial' = [serial EXCEPT !.pc = "idle", !.upload = FALSE]
  /\ uploadActive' = FALSE /\ cdcReply' = None
  /\ SerialUnchanged
  /\ UNCHANGED <<requests, maintenanceReady, rebootRequested, lines>>

\* What serial_fut does without a further packet from the host.
SerialGoesOn == SerialConnect \/ SerialReady \/ SerialSend \/ SerialReply \/ SerialEnd

Serial == SerialGoesOn \/ SerialPacket \/ SerialWrite \/ SerialBoot \/ SerialAbort
          \/ SerialLine
-----------------------------------------------------------------------------
(* uart_rx_fut, uart_tx_fut and reboot_fut *)

UartUnchanged ==
  UNCHANGED <<usbVars, cdcVars, syncRequired, uploadActive, otaActive, cdcReply,
              maintenanceReady, rebootRequested, worker, serial, keyVars, ghostVars, lines>>

\* The forwarder sends a frame; the hardware stores it.
UartFrame ==
  /\ ~down
  /\ frames < MaxFrames /\ frames' = frames + 1
  /\ Len(ring) < MaxRing
  /\ \E kind \in UartKinds : ring' = Append(ring, kind)
  /\ UartUnchanged
  /\ UNCHANGED <<faultVars, requests, uartReply, down, readSession, discard, txBusy>>

\* UART_SESSION_CHANGED: the frame being received is cancelled, what is still in the
\* hardware's ring is not.
RxSession ==
  /\ ~down
  /\ readSession # session
  /\ readSession' = session
  /\ UartUnchanged
  /\ UNCHANGED <<faultVars, requests, uartReply, down, ring, discard, txBusy, frames>>

\* Damage: every request queued so far is void, and the worker releases the keys.
Damage == damaged' = TRUE /\ generation' = generation + 1

\* A frame is read.  It is dropped if the session changed under the read (which select
\* prevents) or if its beginning was damaged, and is damage itself if the queue is full.
RxFrame ==
  /\ ~down
  /\ ring # <<>> /\ ring' = Tail(ring)
  /\ readSession' = session
  /\ IF discard \/ readSession # session
       THEN discard' = FALSE /\ UNCHANGED <<faultVars, requests>>
       ELSE IF Len(requests) < QueueCap
       THEN /\ requests' = Append(requests, [source |-> "uart", kind |-> Head(ring),
                                             session |-> readSession,
                                             generation |-> generation])
            /\ UNCHANGED <<faultVars, discard>>
       ELSE Damage /\ discard' = TRUE /\ UNCHANGED requests
  /\ UartUnchanged
  /\ UNCHANGED <<uartReply, down, txBusy, frames>>

\* A framing error or an overrun of the receiver.
RxError ==
  /\ ~down
  /\ generation < MaxFaults
  /\ Damage /\ discard' = TRUE
  /\ UartUnchanged
  /\ UNCHANGED <<requests, uartReply, down, ring, readSession, txBusy, frames>>

\* UART_REPLIES.receive, and the write of the whole frame, which may fail.
TxTake ==
  /\ ~down
  /\ uartReply /\ ~txBusy
  /\ uartReply' = FALSE /\ txBusy' = TRUE
  /\ UartUnchanged
  /\ UNCHANGED <<faultVars, requests, down, rxVars, frames>>

TxDone ==
  /\ ~down
  /\ txBusy /\ txBusy' = FALSE
  /\ UNCHANGED faultVars \/ (generation < MaxFaults /\ Damage)
  /\ UartUnchanged
  /\ UNCHANGED <<requests, uartReply, down, rxVars, frames>>

\* 100 ms after REBOOT_REQUESTED, in a task of its own.
Reset ==
  /\ ~down
  /\ rebootRequested
  /\ down' = TRUE
  /\ UartUnchanged
  /\ UNCHANGED <<faultVars, requests, uartReply, rxVars, txBusy, frames>>

Rx == RxSession \/ RxFrame
Tx == TxTake \/ TxDone

Next ==
  \/ UsbUnavailable \/ UsbConfigured \/ SetControlLine \/ Control
  \/ Worker \/ Serial
  \/ UartFrame \/ Rx \/ RxError \/ Tx
  \/ Reset

Spec == Init /\ [][Next]_vars

\* The executor polls every task whose await is over; the two hosts promise nothing.
Fairness ==
  /\ WF_vars(Control) /\ WF_vars(Worker) /\ WF_vars(SerialGoesOn)
  /\ WF_vars(Rx) /\ WF_vars(Tx) /\ WF_vars(Reset)

LiveSpec == Spec /\ Fairness
-----------------------------------------------------------------------------
\* The session serial_fut serves is the one that CDC_SESSION names and it is active.
Live == cdcActive /\ serial.session = session /\ serial.pc # "idle"

\* Maintenance was granted to the live session: READY was sent.
Granted == Live /\ serial.pc # "ready"

\* While CDC has maintenance, the worker runs no UART command: not one that started
\* before the port was opened, not one queued in the meantime (worker_fut's grant comes
\* after the command under way and OutOfTurn keeps the others away).
ExclusiveGrant == Granted => worker.request = None \/ worker.request.source = "cdc"

\* docs/USAGE.md:359, an all-up to the slot in use before the grant: when maintenance is
\* granted, no press of the UART is the last report sent to the receiver in use, in whatever
\* order commands, switches, damage and the opening of the port came.  It promises nothing of
\* a receiver left with a key down, or of one that did not hear its all-up.
KeysUpWhileGranted == Granted => keysDown # "uart"

\* A UART command other than VER runs only if a VER was accepted after the last CDC
\* window and after the last OTA time-out (UART_SYNC_REQUIRED).
SyncBeforeCommands ==
  [][ /\ worker'.request # worker.request
      /\ worker'.request # None /\ worker'.request.source = "uart"
      => lastVer > lastActive ]_vars

\* The DFU partition has one writer: a CDC upload of the live session and a UART OTA
\* never overlap (UPLOAD_ACTIVE and UART_OTA_ACTIVE, each tested by the other side).
OneImageWriter ==
  /\ ~(uploadActive /\ otaActive)
  /\ Live /\ serial.upload => uploadActive

\* docs/USAGE.md:357, damage cancels the input before it and asks for an all-up: while the
\* receiver in use holds a key that a line from before the damage pressed, the all-up for it is
\* still owed (UART_DAMAGED), however long the line was queued, and although the worker takes
\* that flag back unheeded while nothing is connected.
NoStuckKey == keysDown = "uart" /\ pressGeneration # generation => damaged

\* A host whose port is open has been granted maintenance, or the signal holds its grant, or
\* the worker has yet to look at the session: no grant is lost, however often the port was
\* opened and closed before (worker_fut, which signals once per session).
GrantIsOwed == cdcActive /\ ~Granted => maintenanceReady = session \/ worker.seen # session

\* Where the reply to the live session may be: in its request, queued or running, or in
\* CDC_REPLIES.
FromLive(r) == r # None /\ r.source = "cdc" /\ r.session = session

Replies ==
  {k \in 1..Len(requests) : FromLive(requests[k])}
    \cup {k \in {0} : FromLive(worker.request)}
    \cup {k \in {-1} : cdcReply = session}

\* "CDC submits only one request at a time; stale replies never block" (main.rs, the end of
\* worker_fut): while serial_fut waits, exactly one reply is on its way to it, in one place, and
\* otherwise none is, whatever requests and replies earlier sessions left behind.
OneReplyIsOwed ==
  Live => IF serial.pc = "reply" THEN \E k \in Replies : Replies = {k} ELSE Replies = {}

\* A line of the CDC host is answered unless its session ends: no request of a session
\* is dropped or refused a reply while serial_fut still waits for it.
LineAnswered == serial.pc \in {"send", "reply"} ~> (serial.pc \in {"read", "idle"} \/ down)

\* A host that opens the port and keeps it open is granted maintenance, however often it
\* opened and closed it before.
GrantFollows == <>[](cdcActive /\ ~down) => []<>Granted

\* A reset that was accepted happens, even if the session that asked for it ends.
ResetHappens == rebootRequested ~> down
=============================================================================

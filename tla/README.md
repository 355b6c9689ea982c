# A TLA+ model of the nRF52 Unifying keyboard firmware

The firmware (`src/app`) turns an nRF52840 board into a Logitech Unifying keyboard.
A KVM forwarder drives it over a UART, a PC over a USB serial port (CDC); both ask for
key reports, pairings and firmware updates. This directory holds TLA+ specifications of
its storage, its pairing state, its radio driver, its UART line protocol, its two paths
for firmware updates and the tasks that share them, with TLC configurations and
machine-checked proofs.

## 1. The system

| Part | Source | State | Operations |
| --- | --- | --- | --- |
| Profile store | `app/src/storage.rs` | four flash pages, each an append-only log of 32-byte records | `load`, `save`, `clear_slot`, `clear_all` |
| Active-slot log | `app/src/storage.rs` | one flash page of 4-byte entries | `load_active_slot`, `save_active_slot` |
| Pairing state | `app/src/main.rs`, `UnifyingState` | paired, connected, link up, active slot, the device's address, key, channel and counter | the `U...` commands, `poll_radio`, the boot code |
| Worker | `main.rs`, `worker_fut` | session last seen, the request it runs, OTA transfer | takes requests, runs them, grants maintenance, releases keys |
| USB lifecycle | `main.rs`, `UsbLifecycle`, `control_fut` | availability, DTR, CDC session number | bus reset, configuration, DTR changes |
| CDC session | `main.rs`, `serial_fut` | session, line, upload | uploads, `BOOT`, `REBOOT`, requests to the worker |
| UART tasks | `main.rs`, `uart_rx_fut`, `uart_tx_fut`; `uart_link.rs` | line parser, fault generation | frames in, replies out |
| UART OTA | `uart_ota.rs` | size, offset, CRC of a transfer | `BEGIN`, `DATA`, `COMMIT`, `ABORT` |
| Reset | `main.rs`, `reboot_fut` | a signal | resets the device 100 ms after it was asked to |
| Radio | `esb_radio.rs` | channel, address, encoding, packet identifier, answer | transmissions with acknowledgement, `URADIOTEST` |
| Others | `unifying_hal.rs`, `uart_smoke.rs`, `keymap.rs`, `bootloader`, `src/main.rs`, `tools` | | test build, table, boot loader, example, host tools |

How they interact. All tasks are futures joined on one executor, so code runs without
interruption between two awaits. The host of the CDC port changes DTR; `control_fut` turns
that into a new session number and wakes the worker, which ends its command, sends an
all-keys-up report and signals `MAINTENANCE_READY`; `serial_fut` waits for that signal
before it serves the host. Requests of both sides go through one queue of eight; replies
go back through a channel of one element each. Atomics say whether CDC is active, whether
the UART must synchronise again (`VER`), whether it was damaged, and who writes the update
partition. The worker alone calls the store and the radio. Flash is the only state that
outlives a reset.

What is hard about it:

* *Loss of power* between any two words written to flash, and between the several store
  calls of a command; the counter of a pairing must never go back.
* *Interleaving* of two hosts and six tasks: a port opened while a UART command runs,
  requests queued in an earlier session, replies and grants meant for a session that is over.
* *Damage and overflow* of the UART, which may lose the frame that releases a key, or leave
  the rest of a line that reads like another one.
* *Lost packets and acknowledgements* on air: the same packet is sent again.
* *Uploads that fail, are given up or overlap*: two updaters, each with a memory of what it
  erased, write one partition.
* *Liveness*: nobody may wait for a reply, a grant or a reset that never comes.

What makes each part correct:

* Store: a call that returned took full effect; one that was cut short leaves the old
  contents, the new ones, or what section 4 lists; nothing is programmed over old data.
* Pairing state: no counter is used twice with a key; a slot holds only its own pairing; a
  restart finds what was in use; what was deleted stays deleted.
* Sessions: maintenance excludes UART commands and finds all keys up; the UART synchronises
  after it; one writer of the update partition; every line, grant and reset is seen to.
* Firmware update: what is marked for the boot loader is an announced image, whole.
* UART framing: a frame is one whole line; a whole line arrives.
* Radio: a packet counts once; an acknowledgement and an answer belong to the packet sent last.

## 2. Modules

| Module | Models | Role |
| --- | --- | --- |
| `Profiles` | the values of `storage.rs` | profiles, store calls, what a power failure leaves behind |
| `ProfileStore` | one slot as callers see it | abstract specification |
| `ProfileLog` | one profile page: `load`, `save`, `clear_slot` | implements `ProfileStore` |
| `ActiveSlot` | the number of the active slot as callers see it | abstract specification |
| `ActiveSlotLog` | its page: `load_active_slot`, `save_active_slot` | implements `ActiveSlot` |
| `Storage` | the partition | composes the two logs, adds `clear_all` |
| `StorageProofs` | | theorems about the logs and the partition |
| `Pairing` | `UnifyingState`, the commands, `poll_radio`, boot | uses every slot as `ProfileStore` and the active slot as `ActiveSlot` allow |
| `PairingProofs` | | types, ownership of slots |
| `PairingStoreProofs` | | agreement of RAM and flash, refinement of both stores |
| `PairingCounterProofs` | | no counter is reused, with and without power failures |
| `Sessions` | the tasks of `main` | shares the worker between UART and CDC |
| `SessionsProofs` | | theorems about `Sessions` |
| `FirmwareUpdate` | the CDC upload, `uart_ota.rs`, the update partition | who writes what, and what is marked |
| `FirmwareUpdateProofs` | | theorems about `FirmwareUpdate` |
| `UartLink` | `uart_link.rs`, `uart_rx_fut` | lines and frames |
| `UartLinkProofs` | | theorems about `UartLink` |
| `EsbRadio` | `esb_radio.rs`, `URADIOTEST`, a receiver | transmissions over a lossy channel |
| `EsbRadioProofs` | | theorems about `EsbRadio` |
| `MCStorage`, `MCPairing`, `MCSessions`, `MCFirmwareUpdate`, `MCUartLink`, `MCEsbRadio` | | instances for TLC |

`Sessions` stands at the centre. It decides *when* a request runs and leaves open what it
does; the other modules say what it does and take from `Sessions` that nothing else runs
at the same time. `FirmwareUpdate`, where two sessions can touch the same flash, keeps as much of
the sessions as matters there (`open`, `uploadFlag`, the `tail`).

### ProfileLog

A record is three fields: the marker, the identity (address, channel, key) and the counter,
in the order in which `encode` lays them out and the flash controller programs them. A call
of `save` is the actions `Save` (the scan), `Erase` if the scan asks for it, and one action
per field; `clear_slot` is `Clear` and `Erase`. No other code sees the steps, because the
call has no await; the supply sees them all: `PowerLoss` is enabled in every state and takes
the effect of the interrupted step to be none or a mixture. The constant `EraseTears` says
whether an interrupted *erase* may leave some records erased and some not. The scan of
`load` and `save` is the operator `LogEnd`, the length of the decodable prefix. A page the
firmware never wrote may hold anything that is not a record. Calls with a slot out of range
and errors of the flash driver at valid addresses, which both return at once, are left out.

The device is off between `PowerLoss` and `Boot`, so that an interrupted call cannot be
mistaken for a finished one; a boot may start with the save of the counter it has moved.

The refinement mapping is the identity: `committed` is what `load` returned when the last
call ended, which is exactly what a caller can know.

### ActiveSlotLog and Storage

`ActiveSlotLog` is the same idea with words instead of records. The scans of
`load_active_slot` and `save_active_slot` stop at the first word that is no slot; `save`
goes on there only if that word is erased, and erases the page otherwise. A slot number
differs from an erased word in all but two of its bits, and a word whose programming was cut
short is taken to be `Dirty`: that every bit is programmed except just those which make
it another slot is not considered.

`Storage` takes both by `EXTENDS` and `INSTANCE ... WITH`, lets one call run at a time
(the flash is behind a mutex and the calls do not await) and fails the supply for both
at once. `clear_all`, which neither page can have alone, is `ClearAll` and
`ClearAllGoesOn`: the profile pages first, the active slot last. One profile page stands
for the four, which never touch each other.

### Pairing

A command is one action that changes RAM and puts the store calls it makes, in order, into
`todo`; `StoreStep` performs them one by one, and no command starts before the last.
`PowerLoss` cuts the first of them short and loses RAM, `Boot` starts again. `Send(n)` uses
`n` counters: every attempt of `send_encrypted_keystroke` does, acknowledged or not. A
pairing is a model value (its address, key and channel); the counter is
an integer with the modulus of the code, in reduced size where the property is not about the
number. The key-report commands bound `n` as the code does: `PressTries` for `press_key`
and `release_keys`, `Attempts` or one for `send_report`. `UTYPE` awaits between characters
but the worker takes no other request, so its characters are separate actions `TypeChar`
and a power failure may fall between them. `used` and `owner` are auxiliary: the first counter
never used with a pairing, and the slot it was made for.

`INSTANCE ProfileStore` for every slot, with `CallOn(s)` as its operation, and `INSTANCE
ActiveSlot` tie the two levels together (`SlotsAreStores`, `ActiveIsRegister`): what
`Pairing` does with a page is what the logs implement.

### Sessions

An action is what a task does from one await to the next. `worker.pc` is `top` (the part of
the loop before the select), `wait` (the select), `run` (a handler that awaits timers) and
`reply` (the UART reply channel is full); `serial.pc` is `idle`, `ready` (waiting for the
grant), `read`, `send` (the queue is full) and `reply`. A UART frame is a kind of request;
the actions for it depend on the kind only where the code does. `connected` is
`unifying.connected`: key reports, all-ups included, are sent only while it is set.
`keysDown` is what the receiver in use holds. A press makes it `uart` or `cdc`; an all-up
(`AllUp`) makes it `none`, or `stray` if all its attempts failed, whose result the worker
ignores; a command that chooses the receiver (`ChoosesReceiver`: `USWITCH`, `UPAIR` and the
like) connects to one that may hold a stray key, or to none. `WorkerTop` takes
`UART_DAMAGED` back whether or not anything is connected. A receiver that was left with a key
down is out of the properties' sight, as it is out of the firmware's. `lastVer`,
`lastActive` and `pressGeneration` are auxiliary. `StartConnected` says how a run starts:
`TRUE` spares it the commands that connect.

The executor polls the joined tasks in a fixed order each time it wakes; the model lets them
run in any order. That is more than the code can do, so what the passing runs show
holds of the code, and the violation below was checked against the real order.
The worker's periodic `poll_radio` does not touch this state and is in `Pairing`. An `ABORT`
in the packet of a `WRITE` is left to `FirmwareUpdate`.

### FirmwareUpdate

A byte in flash is `<<image, position>>`, so that a byte of another image, at another
place, or programmed over something else can be told from the right one. Of the updater,
a library whose source is not here, the model has what the code relies on: it erases a
sector when it first comes to it, remembers the last one it erased, and refuses to write
while an image is marked (`Written`, `LastErased`, `Writable`). The CDC updater lives as long
as the device runs; `BEGIN` makes a new one for the UART, a refused `BEGIN` too
(`renewed`). Packets of CDC have any length, words of flash do not: `staging`, `WholeWords`
and `Padded` are the arithmetic of `serial_fut`; what follows a `WRITE` in its packet is still
read as lines, so an `ABORT` there ends an upload at once (`Line`). A write that fails has
programmed some whole words, and may have erased, and remembered, the sector of the next
one (`Failures`). The CRC of `COMMIT` is right exactly if flash holds the announced image; that two
different images have the same CRC is left out.

`serial` is in the `tail` of a session between the drop of DTR and the poll, up to 1 ms later,
that notices it. A UART transfer may begin in it. A block that erases a sector holds the
executor for 85 ms, and `serial_fut` notices the end of its session before it runs again
(`TailAfter`); any other block leaves the tail as it is. `sure` is
auxiliary: the updater was right, when the upload began, about the first sector.

### UartLink

A byte is a character, but the name of a command is one symbol. `Push`, `PushedFrame`
and `SessionChanged` are the parser, `ParseLine` and `Validate` what it does with a line, and the
actions what `uart_rx_fut` does with reads, errors, a full queue and a changed session. Bytes
`Arrive` in the `ring` of `BufferedUarte`, and `Read` takes any number of them out; a change of
session leaves the ring alone, as in the code. Auxiliary, and not looking at the parser,
are: `text`, the line since the last line feed as it was read; `intact`, that no part of
it was damaged, skipped, or *read* before a session change; `before` and `begun`, how many bytes at hand
and whether any of the line were *received* before the last one; and `lost`, that the
queue was full when the last line ended.

### EsbRadio

The driver is its fields and the two registers that matter, channel and address. A call of
`transmit_payload` is `TransmitPayload`, then one of `PacketLost`, `AckLost`, `AckDamaged`
and `AckReceived` for every attempt; between two attempts only the receiver moves. Addresses
are the firmware's real bytes and `HwAddress` puts them in order as `hw_address` does for
each encoding. The receiver is external: it knows a repetition by identifier and contents, as
Enhanced ShockBurst receivers do. `copies`, `delivered` and `acked` are auxiliary. Time is left
out: the windows and gaps are constants that no decision depends on.

## 3. Runs

| Run | Question | Bounds | States |
| --- | --- | --- | --- |
| `Storage` | are the logs a correct slot and a correct register, with a power failure in any step? | 3 records, 3 words, 2 pairings, 2 counters, 2 slots | 1.1 million |
| `PairingUnsteady` | is a counter ever reused, with power failures, if bursts are shorter than the jump? | 2 slots, one attempt per report, counters up to 9 | 0.4 million |
| `PairingEverything` | do slots, RAM and flash stay consistent with all inputs? | 2 slots, 2 pairings, 2 attempts, counters up to 2 and two before the wrap, a jump of 2 | 0.9 million |
| `Sessions` | is maintenance exclusive, are keys released, is there one writer of the image, does the UART synchronise? | connected at first, 1 request queued, 2 session changes, 3 frames, 1 line, 1 fault | 6.5 million |
| `SessionsLive` | is maintenance granted, every line answered and every reset done, and is no grant or reply lost on its way? | not connected, 1 request queued, 3 session changes, 1 frame, 3 lines | 0.3 million |
| `FirmwareUpdate` | is what is marked an image, whole? | words of 2 bytes, sectors of 4, images of 8 and 5, packets up to 3, blocks up to 4 | 0.8 million |
| `UartLink` | is a frame one whole line, and does a whole line arrive? | 2-digit numbers, lines up to 9 symbols, 11 chunks, a ring of 5 | 4.5 million |
| `EsbRadio` | is a packet taken once, and are acknowledgement and answer its own? | 6 packets, 2 contents, 2 channels, 2 and 16 attempts | 0.1 million |

The other four runs are those of section 4.

Why the bounds suffice.

* Storage: a page of three records fills, is erased, and has a tail of more than one
  record behind the end of its log; so does a page of three words.
* Pairing: two slots and two pairings allow every way to confuse them; the code never looks at
  more than the slot it leaves and the one it enters. A counter range of 9 with a save every 2
  and a jump of 3 has room for several saves, jumps and power failures, and a burst stays
  below the jump, which is the case the code is made for. In `PairingEverything` the counter of a record
  cut short is a mixture (62) or was never programmed (63), and the jump of 2 takes both past the
  wrap.
* Sessions: a queue of one makes `full` frequent; three frames fill it, wait behind it and overflow it; a window
  that opens and closes, with frames before, in and after it, is all that a stale UART request or a grant can
  confuse, and `SessionsLive` opens the port twice, with a line of each session and one to
  spare, for stale replies. A press, a switch away and a line of CDC, or a press, damage
  and a line that overflows, are within the bounds. In
  `Sessions` the requests are those that press keys or write images, and a handler under way is one
  that waits to reply; in `SessionsLive` they are those that block longest (`PAIR`, from both sides) or
  reset the device.
* FirmwareUpdate: an image of two sectors and one that ends inside a word; packets shorter and
  longer than a word, blocks of one and two words; a partition one sector longer than the limit,
  as in the code.
* UartLink: the chunks are pieces of lines, ends of one line with the start of
  the next among them, and reads cut the ring anew at any byte; nine symbols are enough for the longest accepted
  command and short of some of what the chunks can form, so overlong lines are frequent. A ring of
  five holds the end of one line and the beginning of another across a change of session.
* EsbRadio: six packets take the two-bit identifier round once and beyond; two contents are
  what tells a repetition from a new packet.

`MaxSession`, `MaxFaults`, `MaxFrames`, `MaxRing`, `MaxLines`, `MaxCounter` and `MaxSent` bound
the environment in guards and nothing else; `LineLimit`, `NumberLen`, `MaxKeys`, `Word`, `Sector`,
`Limit`, `QueueCap`, `RingSize` and the capacities are the code's own constants in reduced size.
`CHECK_DEADLOCK FALSE` is set where the environment may have used up its bound or the
device is reset: in the runs of `Pairing` and `Sessions`.

Fairness (`LiveSpec`): weak fairness for each task. The executor polls each task whose await
is over, and no handler runs for ever: each of its loops is bounded. Nothing is assumed of
the host, of the forwarder or of errors.

## 4. What the code does not keep

Four runs find a statement of the documentation, or of a comment, violated.

| Run | Statement | What happens |
| --- | --- | --- |
| `PairingElsewhere` | a counter is never reused (`docs/TECHNICAL.md:374`) | `UPAIR` into another slot does not save the pairing it leaves |
| `PairingForwarding` | a save every 128 reports (`main.rs:1377`) | a report of several attempts steps over the multiple of 128; repeated, more than 512 counters are lost |
| `SessionsReopen` | maintenance is granted after DTR (`docs/USAGE.md:359`) | a port reopened within the 1 ms poll: the old session consumes the grant of the new one |
| `UartLinkRing` | an old session's part of a command is dropped up to the line feed, the new session cannot complete it (`docs/USAGE.md:445`, `uart_link.rs:37` and the test `cancelled_dma_tail_cannot_be_completed_in_the_new_session`) | the head of the line lies unread in the receive ring, which a change of session does not clear (`main.rs:432-441`, `main.rs:686`): the empty parser discards nothing and the rest completes the command |

`PairingForwarding` uses the firmware's numbers (a jump of 512, a save every 128, three
attempts); its `Modulus` is below 2^31 because TLC's integers are.
`SessionsReopen` supposes `QuickReopen`: the worker sleeps in a `UPAIR` that came over the UART, and
meanwhile the port is opened, closed and opened again, the last two between two polls of `serial_fut`. An
idle worker would not do: the executor polls it in the same pass, and it grants before the port is reopened.
The passing runs exclude it. The safety theorems
about `Sessions` hold with it too, so what they say does not depend on the host's patience;
the liveness properties do.

More places deserve attention, although no run is kept for them:

* A full page is erased before it is written (`storage.rs:154`), and a power failure in between
  loses the pairing, although pairings survive resets (`storage.rs:2`). The marker of a record is
  programmed first (`storage.rs:161`), so a torn record decodes, with an erased key. The abstract
  store allows both, and nothing else.
* If the flash leaves a page half erased when the supply fails (`EraseTears`), a new log may run
  on into records of the old one, and `load` returns one of those: set `EraseTears = TRUE` in
  `Storage.cfg` to see it.
* A record torn behind its key decodes with the counter `0xFFFFFFFF` of an erased word, and the
  jump at boot (`main.rs:416`) wraps it to 511: counters below what the lost RAM had used are used
  again with that key. `PairingUnsteady` and the theorems with power failures exclude torn
  records for this reason (`WholeRecords`); `PairingEverything` has them.
* One `UTYPE` of 250 characters with retries uses more than 512 counters before its only save
  (`main.rs:1415`), so `PairingUnsteady` keeps bursts below the jump.
* The all-up of a session change or of damage uses counters that nothing saves (`main.rs:494`,
  `main.rs:500`); the next command that saves does it. A host that only opens and closes its port
  gets past the jump.
* The all-up of a grant or of damage is sent only while connected, its result is ignored, and the flag
  `UART_DAMAGED` is taken back in any case (`main.rs:493-500`). A key that is pressed when `USWITCH` or
  `UPAIR` changes the receiver is never released on the one that was left, nor on one that is out of
  reach for twenty attempts. `KeysUpWhileGranted` and `NoStuckKey` speak of the receiver in use.
* A full queue costs two lines (`main.rs:721`): the one that finds it full, and, since the parser is told that
  it was damaged although the line had just ended, the next whole one, even if there is room again.
  `WholeLinesArrive` says that it is no more than these.
* `URADIOTEST` ends with address encoding 3 selected and nothing selects 1 again before a restart
  (`main.rs:1060-1082`), while `docs/TECHNICAL.md:184` and `esb_radio.rs:83` name 1 as the one in use. `RadioTest`
  has it; it takes one assignment to see, and no run is kept for it.
* `REBOOT` of a CDC session also goes to the worker, which answers it too (`main.rs:918`).
* The CDC updater is made once (`main.rs:399`). An upload that is given up in its first sector
  leaves it with the memory of having erased that sector, and the next one is programmed over the
  remains; CDC has no checksum, so the upload is answered with OK, and `BOOT` takes it. `MarkedIsImage` and
  `ReadyIsImage` therefore speak of uploads that are `sure`, and neither holds without that
  word: take it out of `MarkedIsImage` to see the trace.
* A `BEGIN` that is refused has already replaced the updater of the transfer under way
  (`main.rs:551`); the next block erases a sector that holds acknowledged bytes.
  `MarkedIsImage` shows that the CRC of `COMMIT` notices.

## 5. Proofs

`StorageProofs`, for one page of profiles of every capacity, every set of pairings and of
counters, and assuming that an erase is not torn (`~EraseTears`):

* `TypeCorrect`, `StaleTailNever`: `Spec => []TypeOK`, `Spec => []NoStaleTail`.
* `ProgramsOnlyErased`: `Spec => []ProgramOnlyErased`, for the partition: each word that a write still has to
  program, of the record and of the active slot, is erased when its turn comes, on the way over an erase and over a
  dirty tail as well as directly behind the log.
* `LogImplementsStore`: `Spec => Store!Spec`, the refinement.

The argument. `NoStaleTail` alone is not inductive: a write cut short leaves an undecodable
record, and only the fact that everything behind the record being written is not decodable
either keeps the prefix a prefix. The invariant `IInv` therefore says, for each phase of a
call, how the page relates to what `load` returned before (`committed`): idle, the page is a
prefix of decodable records whose last is `committed`; in the middle of a write, the record
at `pos` is partly there and those before it are the old log, and so on. `ScanOfPrefix` and
`LoadOfPrefix` determine the scan's result for a page with a given prefix; one lemma per action
preserves `IInv`; the refinement follows from the same invariant, since it says what `Return`
and `PowerLoss` will find.

A power failure turns `on` off and its call ends; `OnInCalls` is the part of `IInv` that says a
call is under way only with power, which `Return` of the abstract store asks for.

The second half of the module lifts this to the partition: every step of `Storage` is a step of each page or
leaves it alone (`PageSteps`, `ActivePageSteps`), so `StorageImplementsStore` follows. For
the other page, `NoSlotIsStale` and `LogImplementsRegister` rest on `ActiveInv`, which has
the same shape as `IInv`, phase by phase, and needs no assumption about erasing: this page is
only erased whole, and an interrupted erase is taken to leave it as it was. `ProfilesFirst`
is `ProfilesGoFirst`, from `ClearingInv` (while `clear_all` is at the profiles, the call under
way on their page is a clear).

`PairingProofs`, `PairingStoreProofs` and `PairingCounterProofs`, for every number of slots, every
set of pairings, every jump, save interval and number of attempts, and any inputs:

* `TypeCorrect`, `ConnectedOnlyIfPaired`, `SlotsOwned`: `TypeOK`, `ConnectedIsPaired` and
  `SlotOwnership` always hold.
* `RestartFinds`, `LostStaysLost`, `SlotsImplementStore`, `ActiveSlotIsRegister`:
  `RestartFindsPairing`, `GoneForGood`, `SlotsAreStores` and `ActiveIsRegister`. With
  `LogImplementsStore` and `LogImplementsRegister`, the last two give the composition: the logs
  keep the promises of the abstract stores to a caller that keeps its side, and `Pairing` does.
* `CounterNeverReused`: `NeverReused`, if the supply is steady (`"power loss"` is not in `Inputs`)
  and `UPAIR` names the active slot (`PairsInPlace`).
* `CounterSurvivesPowerLoss`: `Spec /\ []Lead => []NeverReused`, with power failures at any step,
  those within store calls included. `Lead` says that the counter in use is no more than a boot jump
  beyond the one in flash. Assumed are `PairsInPlace`, `WholeRecords` (no torn record) and `NoWrap`
  (`MaxCounter` and a jump fit in the word). The run `PairingElsewhere` shows why the first is needed,
  `PairingForwarding` why `Lead` is, and section 4 says why `WholeRecords` is.
* `ShortBurstsKeepCounter`: `Spec /\ [][Calm]_vars => []NeverReused`, with power failures, `UKEYDOWN` of any number
  of attempts and all-ups among the steps. `ShortPress` takes the place of `Lead`: what may be unsaved before a
  command, `SaveEvery - 1`, and the counters of one `UKEY` are together at most `BootJump`. The steps are `Calm` if no
  attempt of a `UKEYDOWN` but its last, and no all-up, reaches a multiple of `SaveEvery`, and if what was
  unsaved and the characters typed of a text fit in a jump. The code does not see to
  that; it is what it would have to, and what `PairingForwarding` breaks. With the firmware's
  numbers (a save every 128, 20 tries of a press and of a release, a jump of 512) `ShortPress` holds, and
  texts may have up to nine characters.

The argument has three layers, each an invariant that assumes the one before. `IInv`: types, and that
a profile in RAM, in flash or *in a store call still to be made* belongs to the slot it goes to;
the properties only speak of RAM and flash, but `StoreStep` moves what `todo` holds, so it must
be owned already. `JInv`: what flash will be when the calls in `todo` have returned. A
command never calls the store twice for a slot (`DistinctSlots`), its call for the active slot
brings flash to what RAM holds (`CallsOnActive`), so flash agrees with RAM or a call for
the active slot is still to come (`WillAgree`); a torn pairing, which no `UPAIR` made, is saved
only to the slot that holds it (`SavesHeld`), as `Savable` asks; the call that records the active
slot is the last of a command (`ActiveLast`). `CounterInv`: every profile at
rest or being saved has a counter that is not behind `used`, and every other one, which is that
of the slot the next boot looks at, is behind by a jump at most (`Covered`). Which slot that is changes
in the middle of a command: while the calls of a switch are pending it is the slot being left until
its save has returned (`InUse`, from `Called` and `Recording`). `Made` says that each profile was made by a `UPAIR`
and has a counter that was counted, so that the jump does not wrap. One lemma per command,
or per group that differs only in what the properties do not see, preserves each layer.

`Burst`, a fourth layer, proves `Lead`. Between two values at which `UKEYDOWN` saves there are
`SaveEvery - 1` others: when a command starts, no value between the stored counter and the one in use is a
multiple of `SaveEvery` (`Unmarked`, hence `FewUnmarked`), since a `Calm` report that does not save
has reached none and a `Calm` all-up reaches none. While a text is typed the distance grows by at most `2 * PressTries` for every
character typed (`Reach`), up to its save.

`SessionsProofs`, for every queue length, every bound, every set of requests and, but for
`NoGrantIsLost`, with or without `QuickReopen`: all safety properties of `Sessions` and those of
`SessionsLive`. Assumed is that `None` is no request and no session number. `Typed` is `TypeOK` spelt
out flag by flag, with the count of generations that keeps the numbers in range. `GrantInv` is
the heart: no task has seen a session that is not there yet (`NotAhead`), and a grant that was
given and not taken, or taken by the live session, means that the worker is at rest or
runs a CDC request and that no UART key is down (`GrantHolds`). `ExclusiveGrant` alone is not
inductive because the grant is given two steps before it is used, and lies in the signal
meanwhile. `KeysUpWhileGranted` holds without an assumption that the all-up is heard or
sent, because its conclusion is about the receiver in use: a press counts only there, and the worker
that is not connected has no such receiver (`Typed` has `connected` whenever `keysDown` is `uart` or `cdc`). It
says nothing of a receiver that was left with a key down. `NoStuckKey` and `OneImageWriter` are inductive on top of it. `SyncInv` says that
while `UART_SYNC_REQUIRED` is off, a `VER` was accepted after the last window; the action
property follows because only `VER` starts while it is on (`StartIsSynchronised`).

Two theorems are the safety at the bottom of `GrantFollows` and `LineAnswered`: liveness itself is out
of the prover's reach, but what would make somebody wait for ever is a thing lost on its way.

* `NoGrantIsLost`: `GrantIsOwed`, if `~QuickReopen`. The worker signals once per session, so a
  grant taken by a session that is over is not given again. `SeenInv` says that
  the signal holds no session that the worker has not seen, and `InTime` that `serial_fut` notices the
  end of its session before the next one begins, which is what `~QuickReopen` means: no old session is there to take
  the new one's grant. `SessionsReopen` shows that the condition is needed.
* `ReplyIsOwedOnce`: `OneReplyIsOwed`, without conditions. `Replies` is the set of the places in which
  the reply to the live session may be: an element of the queue, the worker's hand, the
  channel. `ReplyInv` says that it has one member while `serial_fut` waits and none otherwise (`Owed`), for
  a session that is over as well; that nothing is ahead of the session counter and the channel never
  holds the reply of another session (`PastOnly`); and that the worker holds a request whenever it runs one
  (`Running`). So `try_send` into `CDC_REPLIES` never finds it full, which `main.rs:626` relies on as it
  ignores the result.

`UartLinkProofs`, for every set of chunks and every line length: `LinkTypeCorrect`,
`FramesAreWholeLines`, `LinesArrive`, `SlotIsNamed`, `NumbersComeBack`. The invariant is a comparison of the parser with the wire:
while the line is `intact` and clean the parser holds exactly `text` (`Follows`), or discards after a full
queue (`lost`); otherwise
it discards, or a session change is pending that will make it (`Behind`). `FramesAreWholeLines`
is about what was *read* since a change of session, `NoLineOfTwoSessions` about what was received, and only the
first holds. `LinesArrive` excepts the line that finds the queue full and the one after it.

`SlotIsNamed` and `NumbersComeBack` are about what `parse_line`, `validate` and `encode_reply` compute, for
lines, spacings and numbers of any length. Each loop of the code is a function on `0..n` in the
model, `IsLoop` says what its values are, and `LoopExists` that there is such a function. Facts
about a loop are proved by induction for a *set* of rounds (`NatSetInduction`), which follows from the
well-foundedness of the naturals (`WFMin`) and needs no operator parameter. Shifting the value of
some digits right by one digit leaves that of the digits before the last (`ShiftUndoesAdding`), so
`encode_reply` gives back the digits that were read (`DigitsComeBack`). Joining the tokens of
a line puts the second behind exactly one space (`JoinedLine`), where the handler cuts; `AcceptedTokens`
says that `validate` has seen a slot there, and `FrameIsParsed`, the invariant, that every frame
is what some line says.

`FirmwareUpdateProofs`, for every size of words, sectors, packets, blocks and images and every
set of images: `UpdateTypeCorrect`, `MarkedImage`, `ReadyImage`, `AcknowledgedStored`. Assumed
are the sizes of `UpdateNumbers`: whole words in a sector, images within the limit, which is what
the code checks. The heart is one fact about an updater, `CleanWrite`. It remembers only the last
sector it erased, so a write at an offset comes out right if the place is `Clean`: either that
sector is another one, which it will erase, and nothing written before lies in it, or it is the one
remembered and its bytes from the offset on are erased. Then the write stores its bytes, spares
those before, and leaves the next offset clean. The invariant says of each way of writing that its
offset is clean and that what was counted is in flash: `Stored` and `Staged` for the upload, whose
bytes up to `received` are in flash and those up to `taken` in staging; `BlockFree` and
`AcknowledgedIsStored` for the transfer. What keeps the two apart is in `Shape`: an upload beside
a transfer is one in the tail of its session, and the transfer has not written yet: its first
block always erases a sector, since `BEGIN` made the updater forget any (`FirstBlockErases`), and so ends the
tail (`TailAfter`). The theorems have the provisos of the properties: `MarkedImage` and `ReadyImage`
speak of uploads that are `sure`, `AcknowledgedStored` of transfers whose updater no refused `BEGIN`
renewed; section 4 has what the code does otherwise. No property is inductive alone: `MarkedIsImage` holds at `BOOT`
only because of `ReadyIsImage`, and this at the last packet because of `Stored`. `WrittenBytes`
says that whole words, and the padded rest at the end, begin with the bytes at hand.

`EsbRadioProofs`, for every number of packets, attempts and channels: `RadioTypeCorrect`,
`NoDuplicate`, `AckMeansDelivered`, `AnswersFresh`. The identifier is the number of packets
modulo four (`Identifiers`), so that the receiver's equals the driver's only for the same
packet or for one four or more older; a receiver that has taken the packet
under way holds its contents and so knows the next attempt for a repetition (`UnderWay`).

Only model-checked: the liveness properties `GrantFollows`, `LineAnswered` and `ResetHappens`, since
liveness under fairness is out of the prover's reach. Every other property that a passing run checks
is stated by a theorem; `NeverReused` with power failures by one that needs the conditions above.

## 6. Not modelled

* `unifying_hal.rs`: a clock that converts ticks and a call of an AES library, without state or
  decision.
* The protocol library (`rust_unifying`), whose source is not in the repository. `Pairing` has what
  the firmware sees of it (`UPAIR` may keep or reset the counter, a report is acknowledged
  or not); `EsbRadio` lets it call the driver in any order.
* The smoke-test build (`uart_smoke.rs`), which replaces worker and UART tasks for tests of the
  wiring: saturating counters and a parser of the kind in `UartLink`.
* The key map, a table; the boot loader and the swap of images, which are a library; the stand-alone
  example in `src/src`.
* The host tools: the environments of `Sessions` and `FirmwareUpdate` include them.
* Formatting of replies other than their number; diagnostic commands (`UKEEPALIVE`, `USTATUS`,
  `VER`), which change no state that `Pairing` has.
* Time. Time-outs are actions that may happen whenever they are armed; where the code relies on
  a duration the module says so (`TailAfter`, `QuickReopen`).

## 7. What is left

1. A bound on the multiples of `SaveEvery` that `UKEYDOWN` and the all-up may miss between two saves,
   in place of `Calm`, and the counters that are then unsaved.
2. What flash holds after an upload that is not `sure`, as a property of its own.
3. A finer `Data` in `FirmwareUpdate` that lets a session's tail write between two words of a block.
4. `uart_smoke.rs`, if anything in it is worth a property.

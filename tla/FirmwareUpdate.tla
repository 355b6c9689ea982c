--------------------------- MODULE FirmwareUpdate ---------------------------
(***************************************************************************)
(* The two ways a new firmware gets into the DFU partition: the upload of a *)
(* CDC session (serial_fut of app/src/main.rs) and the numbered transfer on *)
(* the UART (app/src/uart_ota.rs, called by the worker).                    *)
(*                                                                         *)
(* Each has an updater of its own, a library object that erases a sector    *)
(* when it first writes to it and remembers the last sector it erased.  The *)
(* updater of CDC lives as long as the device runs; that of the UART is     *)
(* made anew at every BEGIN.  An image that was marked is swapped in by the *)
(* bootloader at the next reset, and until then nothing may be written.     *)
(*                                                                         *)
(* A byte in flash is <<image, position>>.  Programming a byte that is      *)
(* neither erased nor equal leaves a mixture.  The checksum of a transfer   *)
(* is right exactly if the bytes in flash are those of the image that BEGIN *)
(* announced.                                                               *)
(***************************************************************************)
EXTENDS Integers, Sequences

CONSTANTS
  Images,       \* what a host may upload
  Bootable,     \* those whose first two words are a stack pointer and a reset vector
  Size,         \* their sizes in bytes
  Word,         \* bytes of a word: 4
  Sector,       \* bytes of a sector: ERASE_SIZE
  Limit,        \* ACTIVE_IMAGE_LIMIT and LIMIT, a number of sectors smaller than the partition
  MinSize,      \* smallest transfer on the UART: 256
  MaxPacket,    \* largest packet of CDC: 64
  MaxBlock,     \* largest block of the UART: 64
  None

ASSUME UpdateNumbers ==
  /\ Bootable \subseteq Images /\ None \notin Images \cup Nat
  /\ Size \in [Images -> 1..Limit]
  /\ Word \in Nat \ {0} /\ Sector \in Nat \ {0} /\ Sector % Word = 0
  /\ Limit \in Nat /\ MaxPacket \in Nat /\ MaxBlock \in Nat

VARIABLES
  dfu,          \* the partition: position -> byte
  marked,       \* None, or [image, sure] after mark_updated
  open,         \* CDC_ACTIVE
  uploadFlag,   \* UPLOAD_ACTIVE
  serial,       \* serial_fut: "idle", in the "session", or in the "tail" of one that ended
  upload,       \* its locals
  cdcErased,    \* last sector erased by the updater of CDC, None at first
  ota,          \* the Ota of the worker
  otaErased,    \* last sector erased by its updater
  acked,        \* bytes of the transfer answered with OK
  renewed       \* a BEGIN that was refused has replaced the updater of the transfer

cdcVars == <<open, uploadFlag, serial, upload, cdcErased>>
otaVars == <<ota, otaErased, acked, renewed>>
vars == <<dfu, marked, cdcVars, otaVars>>
-----------------------------------------------------------------------------
(* Flash and the updater *)

FF    == <<None, 0>>      \* an erased byte
Mixed == <<None, 1>>
Other == <<None, 2>>      \* of a firmware no host of this model uploads

Partition == 0..(Limit + Sector - 1)

Byte(img, p) == <<img, p>>
Bytes(img, from, n) == [i \in 1..n |-> Byte(img, from + i - 1)]

Program(old, new) ==
  CASE old = FF \/ old = new -> new
    [] old # new /\ new = FF -> old
    [] OTHER                 -> Mixed

SectorOf(p) == p \div Sector

\* The sectors that an updater erases on its way through the first reach bytes from offset: those
\* it comes to, except the first if it is last, the one it erased last.
Erases(last, offset, reach) ==
  {SectorOf(p) : p \in offset..(offset + reach - 1)} \ ({SectorOf(offset)} \cap {last})

\* write_firmware when it has come so far and has programmed bytes.
Written(last, offset, bytes, reach) ==
  LET base == [p \in Partition |->
                 IF SectorOf(p) \in Erases(last, offset, reach) THEN FF ELSE dfu[p]]
  IN  [p \in Partition |-> IF p \in offset..(offset + Len(bytes) - 1)
                             THEN Program(base[p], bytes[p - offset + 1]) ELSE base[p]]

\* What the updater then remembers.
LastErased(last, offset, reach) ==
  IF reach = 0 THEN last ELSE SectorOf(offset + reach - 1)

\* It fails if an image is marked (verify_booted), beyond the partition, and for anything
\* but whole words.
Writable(offset, bytes) ==
  /\ marked = None /\ offset + Len(bytes) - 1 \in Partition
  /\ offset % Word = 0 /\ Len(bytes) % Word = 0

\* How a write may fail: some whole words are programmed, the next one is not, and its sector
\* may be erased already.
Failures(bytes) ==
  {[bytes |-> SubSeq(bytes, 1, Word * k), reach |-> Word * k + i] :
     k \in 0..((Len(bytes) - 1) \div Word), i \in {0, Word}}

Holds(img) == \A p \in 0..(Size[img] - 1) : dfu[p] = Byte(img, p)
-----------------------------------------------------------------------------
\* taken counts the bytes read from the host, sure is explained below.
NoUpload == [active |-> FALSE, image |-> None, received |-> 0, staging |-> <<>>,
             ready |-> FALSE, taken |-> 0, sure |-> FALSE]

NoOta == [active |-> FALSE, image |-> None, received |-> 0]

Init ==
  /\ dfu = [p \in Partition |-> Other]
  /\ marked = None
  /\ open = FALSE /\ uploadFlag = FALSE /\ serial = "idle" /\ upload = NoUpload
  /\ cdcErased = None
  /\ ota = NoOta /\ otaErased = None /\ acked = <<>> /\ renewed = FALSE
-----------------------------------------------------------------------------
(* CDC *)

\* The host opens the port; serial_fut may still be in the session before.
Open ==
  /\ ~open /\ open' = TRUE
  /\ UNCHANGED <<dfu, marked, uploadFlag, serial, upload, cdcErased, otaVars>>

\* The worker has granted the session.
SerialBegins ==
  /\ open /\ serial = "idle"
  /\ serial' = "session" /\ upload' = NoUpload
  /\ UNCHANGED <<dfu, marked, open, uploadFlag, cdcErased, otaVars>>

\* control_fut or the USB callbacks; serial_fut looks once in a millisecond.
Close ==
  /\ open /\ open' = FALSE
  /\ uploadFlag' = FALSE
  /\ serial' = IF serial = "session" THEN "tail" ELSE serial
  /\ UNCHANGED <<dfu, marked, upload, cdcErased, otaVars>>

SerialEnds ==
  /\ serial = "tail"
  /\ serial' = "idle" /\ uploadFlag' = FALSE /\ upload' = NoUpload
  /\ UNCHANGED <<dfu, marked, open, cdcErased, otaVars>>

\* A line of the host, while no upload is active; what follows a WRITE in its packet is read as
\* lines, too.
Line == serial # "idle" /\ (upload.active => upload.taken = 0)

\* An upload that starts in a sector which the updater takes for erased, and which is not,
\* cannot come out right: sure says that it does not.
Sure == cdcErased = 0 => \A p \in 0..(Sector - 1) : dfu[p] = FF

CdcWrite ==
  /\ Line /\ ~ota.active
  /\ \E img \in Images :
       upload' = [NoUpload EXCEPT !.active = TRUE, !.image = img, !.sure = Sure]
  /\ uploadFlag' = TRUE
  /\ UNCHANGED <<dfu, marked, open, serial, cdcErased, otaVars>>

\* Mutant: whole words of the packet, not counting the bytes kept back.
WholeWordsOfPacket(bytes) ==
  LET n == Len(bytes) - Len(upload.staging) IN SubSeq(bytes, 1, n - (n % Word))

\* The bytes of a packet that can be programmed, the rest is kept in staging.
WholeWords(bytes) == SubSeq(bytes, 1, Len(bytes) - (Len(bytes) % Word))

\* Mutant: the rest is not moved to the front of staging.
RestLost(bytes) == <<>>

Rest(bytes) == SubSeq(bytes, Len(WholeWords(bytes)) + 1, Len(bytes))

Padded(bytes) == bytes \o [i \in 1..(Word - Len(bytes)) |-> FF]

\* What is written for a packet: whole words, and at the end of the image the padded rest.
ToWrite(bytes) ==
  IF Rest(bytes) # <<>> /\ upload.received + Len(bytes) >= Size[upload.image]
    THEN WholeWords(bytes) \o Padded(Rest(bytes))
    ELSE WholeWords(bytes)

\* Staging and the next n bytes of the stream; a packet may run past the end of the image.
Arrived(n) ==
  upload.staging \o Bytes(upload.image, upload.taken, n)

CdcPacket ==
  /\ serial # "idle" /\ upload.active
  /\ \E n \in 1..MaxPacket :
       LET bytes == Arrived(n)
           out   == ToWrite(bytes)
           done  == upload.received + Len(bytes) >= Size[upload.image]
       IN  /\ out = <<>> \/ Writable(upload.received, out)
           /\ dfu' = Written(cdcErased, upload.received, out, Len(out))
           /\ cdcErased' = LastErased(cdcErased, upload.received, Len(out))
           /\ upload' =
                IF done THEN [upload EXCEPT !.received = @ + Len(bytes), !.taken = @ + n,
                                !.staging = <<>>, !.active = FALSE, !.ready = TRUE]
                ELSE [upload EXCEPT !.received = @ + Len(WholeWords(bytes)), !.taken = @ + n,
                                !.staging = Rest(bytes)]
           /\ uploadFlag' = IF done THEN FALSE ELSE uploadFlag
  /\ UNCHANGED <<marked, open, serial, otaVars>>

\* ERR WRITE
CdcPacketFails ==
  /\ serial # "idle" /\ upload.active
  /\ \E n \in 1..MaxPacket :
       LET out == ToWrite(Arrived(n))
       IN  /\ out # <<>>
           /\ IF Writable(upload.received, out)
                THEN \E f \in Failures(out) :
                       /\ dfu' = Written(cdcErased, upload.received, f.bytes, f.reach)
                       /\ cdcErased' = LastErased(cdcErased, upload.received, f.reach)
                ELSE UNCHANGED <<dfu, cdcErased>>
  /\ upload' = NoUpload /\ uploadFlag' = FALSE
  /\ UNCHANGED <<marked, open, serial, otaVars>>

\* BOOT; a second one marks the same image again.
CdcBoot ==
  /\ Line /\ ~ota.active
  /\ upload.ready
  /\ marked' = [image |-> upload.image, sure |-> upload.sure]
  /\ UNCHANGED <<dfu, cdcVars, otaVars>>

CdcAbort ==
  /\ Line
  /\ upload' = [upload EXCEPT !.active = FALSE, !.ready = FALSE, !.staging = <<>>]
  /\ uploadFlag' = FALSE
  /\ UNCHANGED <<dfu, marked, open, serial, cdcErased, otaVars>>
-----------------------------------------------------------------------------
(* UART: Ota::handle *)

\* The worker takes OTA lines only outside of maintenance and of an upload.
Served == ~open /\ ~uploadFlag

\* Whatever follows "OTA BEGIN ", the updater is a new one.
NewUpdater == otaErased' = None

AcceptedSize(img) == Size[img] >= MinSize /\ Size[img] % Word = 0

Begin ==
  /\ Served
  /\ NewUpdater
  /\ \E img \in {i \in Images : AcceptedSize(i)} :
       ota' = [active |-> TRUE, image |-> img, received |-> 0]
  /\ acked' = <<>> /\ renewed' = FALSE
  /\ UNCHANGED <<dfu, marked, cdcVars>>

\* ERR ARG or ERR SIZE: a transfer under way goes on, with another updater.
BeginRefused ==
  /\ Served
  /\ NewUpdater /\ renewed' = TRUE
  /\ UNCHANGED <<dfu, marked, cdcVars, ota, acked>>

Blocks == {n \in 1..MaxBlock : n % Word = 0}

\* The block is the next one and its vector is right.
NextBlock(img, offset, n) ==
  /\ ota.active
  /\ offset + n <= Size[ota.image]
  /\ offset = ota.received
  /\ offset = 0 => n >= 2 * Word /\ img \in Bootable

\* A block that erases a sector holds the executor for 85 ms, and after it serial_fut notices first
\* of all that its session had ended.  The others are over sooner.
TailAfter(erased) ==
  /\ serial' = IF serial = "tail" /\ erased # {} THEN "idle" ELSE serial
  /\ upload' = IF serial = "tail" /\ erased # {} THEN NoUpload ELSE upload

\* The next block is written; its bytes may be those of another image.
Data ==
  /\ Served
  /\ \E img \in Images, n \in Blocks :
       LET bytes == Bytes(img, ota.received, n)
       IN  /\ NextBlock(img, ota.received, n)
           /\ Writable(ota.received, bytes)
           /\ dfu' = Written(otaErased, ota.received, bytes, n)
           /\ otaErased' = LastErased(otaErased, ota.received, n)
           /\ ota' = [ota EXCEPT !.received = @ + n]
           /\ acked' = acked \o bytes
           /\ TailAfter(Erases(otaErased, ota.received, n))
  /\ UNCHANGED <<marked, open, uploadFlag, cdcErased, renewed>>

\* ERR WRITE aborts the transfer.
DataFails ==
  /\ Served
  /\ \E img \in Images, n \in Blocks :
       LET bytes == Bytes(img, ota.received, n)
       IN  /\ NextBlock(img, ota.received, n)
           /\ IF Writable(ota.received, bytes)
                THEN \E f \in Failures(bytes) :
                       /\ dfu' = Written(otaErased, ota.received, f.bytes, f.reach)
                       /\ otaErased' = LastErased(otaErased, ota.received, f.reach)
                       /\ TailAfter(Erases(otaErased, ota.received, f.reach))
                ELSE UNCHANGED <<dfu, otaErased, serial, upload>>
  /\ ota' = [ota EXCEPT !.active = FALSE, !.received = 0]
  /\ UNCHANGED <<marked, open, uploadFlag, cdcErased, acked, renewed>>

\* Mutant: a block that was received before is taken for a repetition.
RepeatedByOffset(offset, bytes) == offset + Len(bytes) <= ota.received

\* A block answered before, with the bytes that flash holds.
Repeated(offset, bytes) ==
  /\ offset + Len(bytes) <= ota.received
  /\ \A i \in 1..Len(bytes) : dfu[offset + i - 1] = bytes[i]

\* The answer to a block was lost and the host sends it again: OK, and nothing is written.
\* Any other block gets ERR OFFSET and changes nothing.
DataAgain ==
  /\ Served
  /\ ota.active
  /\ \E img \in Images, n \in Blocks, offset \in 0..(ota.received - 1) :
       LET bytes == Bytes(img, offset, n)
       IN  /\ Repeated(offset, bytes)
           /\ acked' = [i \in DOMAIN acked |->
                          IF i \in (offset + 1)..(offset + n) THEN bytes[i - offset] ELSE acked[i]]
  /\ UNCHANGED <<dfu, marked, cdcVars, ota, otaErased, renewed>>

Complete == ota.active /\ ota.received = Size[ota.image]

\* Mutant: COMMIT trusts the blocks.
TrustBlocks == TRUE

\* The checksum over what flash holds.
CrcMatches == Holds(ota.image)

Commit ==
  /\ Served
  /\ Complete /\ CrcMatches
  /\ marked' = [image |-> ota.image, sure |-> TRUE]
  /\ ota' = [ota EXCEPT !.active = FALSE]
  /\ UNCHANGED <<dfu, cdcVars, otaErased, acked, renewed>>

\* ERR CRC, ERR READ, ERR MARK or ABORT, or 60 seconds without a line, also while CDC is open.
OtaAborts ==
  /\ ota.active
  /\ ota' = [ota EXCEPT !.active = FALSE, !.received = 0]
  /\ UNCHANGED <<dfu, marked, cdcVars, otaErased, acked, renewed>>
-----------------------------------------------------------------------------
\* A reset, asked for or not.  The bootloader swaps in what is marked, and the new firmware
\* confirms it (mark_booted).
Restart ==
  /\ marked' = None
  /\ dfu' = IF marked = None THEN dfu ELSE [p \in Partition |-> Other]
  /\ open' = FALSE /\ uploadFlag' = FALSE /\ serial' = "idle" /\ upload' = NoUpload
  /\ cdcErased' = None
  /\ ota' = NoOta /\ otaErased' = None /\ acked' = <<>> /\ renewed' = FALSE

Next ==
  \/ Open \/ SerialBegins \/ Close \/ SerialEnds
  \/ CdcWrite \/ CdcPacket \/ CdcPacketFails \/ CdcBoot \/ CdcAbort
  \/ Begin \/ BeginRefused \/ Data \/ DataFails \/ DataAgain \/ Commit \/ OtaAborts
  \/ Restart

Spec == Init /\ [][Next]_vars
-----------------------------------------------------------------------------
(* Properties *)

\* Offsets stay in the partition, less than a word is held back, and every answered byte of
\* a transfer is counted.
TypeOK ==
  /\ DOMAIN dfu = Partition
  /\ upload.received \in 0..(Limit + MaxPacket) /\ Len(upload.staging) < Word
  /\ serial \in {"idle", "session", "tail"} /\ open \in BOOLEAN
  /\ ota.active => ota.received \in 0..Size[ota.image] /\ Len(acked) = ota.received
  /\ upload.active => ~upload.ready

\* What the bootloader will swap in is, byte for byte, an image that a host announced and
\* sent: whatever transfers failed, were given up or overlapped before, however packets fell,
\* and whatever is tried between the mark and the reset.  For CDC, which has no checksum, not
\* after an upload that was given up in its first sector: the updater of serial_fut outlives an
\* upload, takes that sector for erased and does not erase it for the next one, which then is
\* not sure.  The code has no check for it and marks the mixture.
MarkedIsImage == marked # None /\ marked.sure => Holds(marked.image)

\* Between the OK of an upload and its BOOT the image is in flash: nobody else writes.  It is not,
\* and serial_fut says OK all the same, for an upload that is not sure.
ReadyIsImage == upload.ready /\ upload.sure => Holds(upload.image)

\* A block of a transfer answered with OK is in flash, repeated ones included, until the
\* transfer ends, unless a refused BEGIN made the updater forget what it has erased.
AcknowledgedIsStored ==
  ota.active /\ ~renewed => \A i \in DOMAIN acked : dfu[i - 1] = acked[i]
=============================================================================

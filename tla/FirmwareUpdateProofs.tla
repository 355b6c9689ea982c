------------------------ MODULE FirmwareUpdateProofs ------------------------
(***************************************************************************)
(* Proofs about FirmwareUpdate, for every size of words, sectors, packets,  *)
(* blocks and images.  Both ways of writing rest on one fact about the      *)
(* updater: if what is behind the bytes written so far is erased as far as  *)
(* the updater believes it is (Clean), the next write stores its bytes,     *)
(* spares those before, and leaves the same fact for the write after it.    *)
(***************************************************************************)
EXTENDS FirmwareUpdate, SequenceTheorems, TLAPS

\* What flash and staging may hold, so that bytes need not be taken apart.
AllBytes == {Byte(img, p) : img \in Images, p \in Nat} \cup {FF}

LEMMA ByteIsByte == \A img \in Images, p \in Nat : Byte(img, p) \in AllBytes
BY DEF AllBytes

LEMMA SectorsAreNumbers == \A p \in Nat : SectorOf(p) \in Nat
BY UpdateNumbers, Z3 DEF SectorOf

LEMMA SectorsInOrder == \A p, q \in Nat : p <= q => SectorOf(p) <= SectorOf(q)
BY UpdateNumbers, Z3 DEF SectorOf

LEMMA FirstSector == SectorOf(0) = 0
BY UpdateNumbers, Z3 DEF SectorOf

LEMMA PartitionIsNumbers == Partition \subseteq Nat
BY UpdateNumbers DEF Partition

LEMMA ProgramErased == \A v : Program(FF, v) = v
BY DEF Program
-----------------------------------------------------------------------------
(* The updater *)

\* d is ready for a write at offset by an updater that remembers last: the sector of offset
\* is one it will erase, or one it has erased and that is free from there; if the sector
\* holds earlier bytes it will not be erased.
Clean(d, last, offset) ==
  /\ last = SectorOf(offset) =>
       \A p \in Partition : p >= offset /\ SectorOf(p) = last => d[p] = FF
  /\ \A p \in Nat : p < offset /\ SectorOf(p) = SectorOf(offset) => last = SectorOf(offset)

\* Where the updater writes, and what it erases for a write that does not fail.
Area(offset, bytes) == offset..(offset + Len(bytes) - 1)
ErasedSectors(last, offset, bytes) == Erases(last, offset, Len(bytes))

LEMMA ErasedForArea ==
  ASSUME NEW last, NEW offset, NEW bytes
  PROVE  ErasedSectors(last, offset, bytes) =
           {SectorOf(p) : p \in Area(offset, bytes)} \ ({SectorOf(offset)} \cap {last})
BY DEF ErasedSectors, Erases, Area

LEMMA WrittenByte ==
  ASSUME NEW last, NEW offset, NEW bytes, NEW p \in Partition
  PROVE  LET old == IF SectorOf(p) \in ErasedSectors(last, offset, bytes) THEN FF ELSE dfu[p]
         IN  Written(last, offset, bytes, Len(bytes))[p] =
               IF p \in Area(offset, bytes) THEN Program(old, bytes[p - offset + 1]) ELSE old
BY DEF Written, ErasedSectors, Area

LEMMA WrittenDomain ==
  \A last, offset, bytes, reach : DOMAIN Written(last, offset, bytes, reach) = Partition
BY DEF Written

\* An empty write does nothing.
LEMMA NothingWritten ==
  ASSUME NEW last, NEW offset \in Nat
  PROVE  /\ \A p \in Partition : Written(last, offset, <<>>, 0)[p] = dfu[p]
         /\ LastErased(last, offset, 0) = last
<1>1. Len(<<>>) = 0 BY EmptySeq
<1>2. Area(offset, <<>>) = {} BY <1>1 DEF Area
<1>3. ErasedSectors(last, offset, <<>>) = {} BY <1>2, ErasedForArea
<1>4. \A p \in Partition : Written(last, offset, <<>>, Len(<<>>))[p] = dfu[p]
  BY <1>2, <1>3, WrittenByte
<1>5. QED BY <1>1, <1>4 DEF LastErased

\* The heart: a write into a clean place.
LEMMA CleanWrite ==
  ASSUME NEW last, NEW offset \in Nat, NEW bytes \in Seq(AllBytes), bytes # <<>>,
         offset + Len(bytes) - 1 \in Partition, Clean(dfu, last, offset),
         NEW d, d = Written(last, offset, bytes, Len(bytes))
  PROVE  /\ \A p \in Partition : p < offset => d[p] = dfu[p]
         /\ \A i \in 1..Len(bytes) : d[offset + i - 1] = bytes[i]
         /\ Clean(d, LastErased(last, offset, Len(bytes)), offset + Len(bytes))
<1> DEFINE n     == Len(bytes)
           final == SectorOf(offset + n - 1)
<1>1. n \in Nat \ {0} /\ offset + n - 1 \in Nat /\ offset + n \in Nat
  BY UpdateNumbers, EmptySeq
<1>2. Area(offset, bytes) \subseteq Partition
  BY <1>1, UpdateNumbers DEF Area, Partition
<1>3. \A p \in Area(offset, bytes) :
        \/ SectorOf(p) \in ErasedSectors(last, offset, bytes)
        \/ SectorOf(p) = SectorOf(offset) /\ last = SectorOf(offset)
  BY ErasedForArea
<1>4. \A p \in Area(offset, bytes) :
        SectorOf(p) \notin ErasedSectors(last, offset, bytes) => dfu[p] = FF
  BY <1>1, <1>2, <1>3 DEF Clean, Area
<1>5. ASSUME NEW p \in Partition, p < offset
      PROVE  d[p] = dfu[p]
  <2>1. p \in Nat /\ p \notin Area(offset, bytes) BY <1>1, <1>5, PartitionIsNumbers DEF Area
  <2>2. SectorOf(p) \notin ErasedSectors(last, offset, bytes)
    <3>1. SUFFICES ASSUME NEW q \in Area(offset, bytes), SectorOf(q) = SectorOf(p),
                          SectorOf(q) \notin {SectorOf(offset)} \cap {last}
                   PROVE  FALSE
      BY ErasedForArea
    <3>2. q \in Nat /\ offset <= q BY <1>1 DEF Area
    <3>3. SectorOf(p) = SectorOf(offset)
      BY <1>5, <2>1, <3>1, <3>2, SectorsInOrder, SectorsAreNumbers
    <3>4. QED BY <1>5, <2>1, <3>1, <3>3 DEF Clean
  <2>3. QED BY <2>1, <2>2, WrittenByte
<1>6. ASSUME NEW i \in 1..n
      PROVE  d[offset + i - 1] = bytes[i]
  <2>1. offset + i - 1 \in Area(offset, bytes) /\ (offset + i - 1) - offset + 1 = i
    BY <1>1 DEF Area
  <2>2. QED BY <1>2, <1>4, <2>1, WrittenByte, ProgramErased
<1>7. LastErased(last, offset, Len(bytes)) = final BY <1>1 DEF LastErased
<1>8. ASSUME NEW p \in Partition, p >= offset + n, SectorOf(p) = final
      PROVE  d[p] = FF
  <2>1. p \notin Area(offset, bytes) BY <1>1, <1>8, PartitionIsNumbers DEF Area
  <2>2. offset + n - 1 \in Area(offset, bytes) BY <1>1 DEF Area
  <2>3. CASE final \in ErasedSectors(last, offset, bytes)
    BY <1>8, <2>1, <2>3, WrittenByte
  <2>4. CASE final \notin ErasedSectors(last, offset, bytes)
    <3>1. final = SectorOf(offset) /\ last = SectorOf(offset) BY <1>3, <2>2, <2>4
    <3>2. dfu[p] = FF BY <1>1, <1>8, <3>1, PartitionIsNumbers DEF Clean
    <3>3. QED BY <1>8, <2>1, <2>4, <3>2, WrittenByte
  <2>5. QED BY <2>3, <2>4
<1>9. ASSUME NEW p \in Nat, p < offset + n, SectorOf(p) = SectorOf(offset + n)
      PROVE  final = SectorOf(offset + n)
  <2>1. p <= offset + n - 1 /\ offset + n - 1 <= offset + n BY <1>1, <1>9
  <2>2. QED BY <1>1, <1>9, <2>1, SectorsInOrder, SectorsAreNumbers
<1>10. Clean(d, final, offset + n) BY <1>8, <1>9 DEF Clean
<1>11. QED BY <1>5, <1>6, <1>7, <1>10
-----------------------------------------------------------------------------
(* Packets and words *)

LEMMA BytesOfImage ==
  ASSUME NEW img \in Images, NEW from \in Nat, NEW n \in Nat
  PROVE  /\ Bytes(img, from, n) \in Seq(AllBytes)
         /\ Len(Bytes(img, from, n)) = n
         /\ \A i \in 1..n : Bytes(img, from, n)[i] = Byte(img, from + i - 1)
<1>1. \A i \in 1..n : Byte(img, from + i - 1) \in AllBytes BY ByteIsByte
<1>2. QED BY <1>1 DEF Bytes

LEMMA WordRest ==
  ASSUME NEW n \in Nat
  PROVE  n % Word \in 0..(Word - 1) /\ n % Word <= n
BY UpdateNumbers, Z3

LEMMA SplitBytes ==
  ASSUME NEW bytes \in Seq(AllBytes)
  PROVE  /\ WholeWords(bytes) \in Seq(AllBytes) /\ Len(WholeWords(bytes)) \in 0..Len(bytes)
         /\ \A i \in 1..Len(WholeWords(bytes)) : WholeWords(bytes)[i] = bytes[i]
         /\ Rest(bytes) \in Seq(AllBytes)
         /\ Len(Rest(bytes)) = Len(bytes) - Len(WholeWords(bytes))
         /\ Len(Rest(bytes)) < Word
         /\ \A i \in 1..Len(Rest(bytes)) : Rest(bytes)[i] = bytes[Len(WholeWords(bytes)) + i]
<1> DEFINE k == Len(bytes) - (Len(bytes) % Word)
<1>1. Len(bytes) % Word \in 0..(Word - 1) /\ Len(bytes) % Word <= Len(bytes)
  BY WordRest, LenProperties
<1>2. k \in 0..Len(bytes) /\ Len(bytes) - k < Word BY <1>1, UpdateNumbers, LenProperties
<1>3. /\ WholeWords(bytes) \in Seq(AllBytes) /\ Len(WholeWords(bytes)) = k
      /\ \A i \in 1..k : WholeWords(bytes)[i] = bytes[i]
  BY <1>2 DEF WholeWords
<1>4. Rest(bytes) = SubSeq(bytes, k + 1, Len(bytes)) BY <1>3 DEF Rest
<1>5. /\ Rest(bytes) \in Seq(AllBytes) /\ Len(Rest(bytes)) = Len(bytes) - k
      /\ \A i \in 1..(Len(bytes) - k) : Rest(bytes)[i] = bytes[k + i]
  BY <1>2, <1>4
<1> HIDE DEF k
<1>6. QED BY <1>2, <1>3, <1>5

LEMMA JoinedBytes ==
  ASSUME NEW s \in Seq(AllBytes), NEW t \in Seq(AllBytes)
  PROVE  /\ s \o t \in Seq(AllBytes)
         /\ Len(s \o t) = Len(s) + Len(t)
         /\ \A i \in 1..Len(s) : (s \o t)[i] = s[i]
         /\ \A i \in 1..Len(t) : (s \o t)[Len(s) + i] = t[i]
OBVIOUS

LEMMA PaddedBytes ==
  ASSUME NEW bytes \in Seq(AllBytes), Len(bytes) < Word
  PROVE  /\ Padded(bytes) \in Seq(AllBytes) /\ Len(Padded(bytes)) = Word
         /\ \A i \in 1..Len(bytes) : Padded(bytes)[i] = bytes[i]
<1> DEFINE pad == [i \in 1..(Word - Len(bytes)) |-> FF]
<1>1. pad \in Seq(AllBytes) /\ Len(pad) = Word - Len(bytes)
  BY UpdateNumbers, LenProperties DEF AllBytes
<1>2. Padded(bytes) = bytes \o pad BY DEF Padded
<1> HIDE DEF pad
<1>3. QED BY <1>1, <1>2, JoinedBytes, LenProperties, UpdateNumbers

\* The last packet: all of it arrived, or goes on.
Done(bytes) == upload.received + Len(bytes) >= Size[upload.image]

\* What is written begins with the bytes, in whole words, and with all of them at the end.
LEMMA WrittenBytes ==
  ASSUME NEW bytes \in Seq(AllBytes), bytes # <<>>
  PROVE  LET out == ToWrite(bytes) IN
         /\ out \in Seq(AllBytes)
         /\ \A i \in 1..Len(bytes) : i <= Len(out) => out[i] = bytes[i]
         /\ Done(bytes) => Len(bytes) <= Len(out) /\ out # <<>>
         /\ ~Done(bytes) => out = WholeWords(bytes)
<1> DEFINE whole == WholeWords(bytes)
           rest  == Rest(bytes)
           out   == ToWrite(bytes)
<1>1. /\ whole \in Seq(AllBytes) /\ Len(whole) \in 0..Len(bytes)
      /\ rest \in Seq(AllBytes) /\ Len(rest) = Len(bytes) - Len(whole) /\ Len(rest) < Word
      /\ \A i \in 1..Len(whole) : whole[i] = bytes[i]
      /\ \A i \in 1..Len(rest) : rest[i] = bytes[Len(whole) + i]
  BY SplitBytes
<1>2. Len(bytes) \in Nat \ {0} BY EmptySeq, LenProperties
<1>3. CASE rest # <<>> /\ Done(bytes)
  <2>1. out = whole \o Padded(rest) BY <1>3 DEF ToWrite, Done
  <2>2. /\ Padded(rest) \in Seq(AllBytes) /\ Len(Padded(rest)) = Word
        /\ \A i \in 1..Len(rest) : Padded(rest)[i] = rest[i]
    BY <1>1, PaddedBytes
  <2>3. /\ out \in Seq(AllBytes) /\ Len(out) = Len(whole) + Word
        /\ \A i \in 1..Len(whole) : out[i] = whole[i]
        /\ \A i \in 1..Word : out[Len(whole) + i] = Padded(rest)[i]
    <3> HIDE DEF whole, rest, out
    <3>1. whole \in Seq(AllBytes) /\ Padded(rest) \in Seq(AllBytes) BY <1>1, <2>2
    <3>2. /\ whole \o Padded(rest) \in Seq(AllBytes)
          /\ Len(whole \o Padded(rest)) = Len(whole) + Len(Padded(rest))
          /\ \A i \in 1..Len(whole) : (whole \o Padded(rest))[i] = whole[i]
          /\ \A i \in 1..Len(Padded(rest)) :
               (whole \o Padded(rest))[Len(whole) + i] = Padded(rest)[i]
      BY ONLY <3>1, JoinedBytes
    <3>3. QED BY ONLY <2>1, <2>2, <3>2
  <2>4. Len(bytes) <= Len(out) /\ out # <<>> BY <1>1, <1>2, <2>3, EmptySeq, UpdateNumbers
  <2>5. ASSUME NEW i \in 1..Len(bytes), i <= Len(out)
        PROVE  out[i] = bytes[i]
    <3>1. CASE i <= Len(whole) BY <1>1, <2>3, <3>1
    <3>2. CASE i > Len(whole)
      <4>1. PICK j \in 1..Len(rest) : i = Len(whole) + j
        <5>1. i - Len(whole) \in 1..Len(rest) /\ i = Len(whole) + (i - Len(whole))
          BY <1>1, <1>2, <3>2
        <5>2. QED BY <5>1
      <4>2. j \in 1..Word BY <1>1, <1>2, UpdateNumbers
      <4>3. QED BY <1>1, <2>2, <2>3, <4>1, <4>2
    <3>3. QED BY <1>1, <1>2, <3>1, <3>2
  <2>6. QED BY <1>3, <2>3, <2>4, <2>5
<1>4. CASE ~(rest # <<>> /\ Done(bytes))
  <2>1. out = whole BY <1>4 DEF ToWrite, Done
  <2>2. Done(bytes) => Len(whole) = Len(bytes) BY <1>1, <1>4, EmptySeq
  <2>3. QED BY <1>1, <1>2, <2>1, <2>2, EmptySeq
<1>5. QED BY <1>3, <1>4
-----------------------------------------------------------------------------
(* The invariant *)

Uploads == [active : BOOLEAN, image : Images \cup {None}, received : Nat,
            staging : Seq(AllBytes), ready : BOOLEAN, taken : Nat, sure : BOOLEAN]

Transfers == [active : BOOLEAN, image : Images \cup {None}, received : Nat]

\* Whom the locals belong to.  An upload goes on beside a transfer only in the tail of its
\* session, before the first block of the transfer.
Shape ==
  /\ upload \in Uploads /\ ota \in Transfers
  /\ acked \in Seq(AllBytes) /\ renewed \in BOOLEAN
  /\ marked = None \/ marked \in [image : Images, sure : BOOLEAN]
  /\ serial = "idle" => upload = NoUpload
  /\ serial = "session" => open
  /\ upload.active \/ upload.ready => upload.image \in Images
  /\ ~upload.active => upload.staging = <<>>
  /\ ota.active => ota.image \in Images
  /\ ota.active /\ (upload.active \/ upload.ready) => ota.received = 0
  /\ ota.active /\ ota.received = 0 => otaErased = None

\* The bytes kept back are the next ones of the image.
Staged ==
  upload.active =>
    /\ upload.taken = upload.received + Len(upload.staging)
    /\ upload.taken < Size[upload.image]
    /\ \A i \in 1..Len(upload.staging) :
         upload.staging[i] = Byte(upload.image, upload.received + i - 1)

\* The others are in flash, and the place behind them is free.
Stored ==
  upload.active /\ upload.sure =>
    /\ Clean(dfu, cdcErased, upload.received)
    /\ \A p \in 0..(upload.received - 1) : dfu[p] = Byte(upload.image, p)

BlockFree == ota.active /\ ~renewed => Clean(dfu, otaErased, ota.received)

IInv ==
  /\ TypeOK /\ Shape /\ Staged /\ Stored /\ BlockFree
  /\ MarkedIsImage /\ ReadyIsImage /\ AcknowledgedIsStored

\* Before anything was programmed the updater of a new transfer erases what it comes to.
LEMMA CleanAtFirst == \A d : Clean(d, None, 0)
BY UpdateNumbers, FirstSector, SectorsAreNumbers DEF Clean

LEMMA ImageSizes == \A img \in Images : Size[img] \in 1..Limit /\ img # None
BY UpdateNumbers

LEMMA NoUploadShape ==
  /\ NoUpload \in Uploads /\ ~NoUpload.active /\ ~NoUpload.ready /\ NoUpload.staging = <<>>
  /\ NoUpload.received = 0
  /\ Len(<<>>) < Word
BY UpdateNumbers, EmptySeq DEF NoUpload, Uploads

LEMMA InitHolds == Init => IInv
<1> SUFFICES ASSUME Init PROVE IInv
  OBVIOUS
<1>1. TypeOK
  <2>1. DOMAIN dfu = Partition BY DEF Init
  <2>2. upload.received \in 0..(Limit + MaxPacket) /\ Len(upload.staging) < Word
    BY NoUploadShape, UpdateNumbers DEF Init
  <2>3. serial \in {"idle", "session", "tail"} /\ open \in BOOLEAN BY DEF Init
  <2>4. ota.active = FALSE BY DEF Init, NoOta
  <2>5. upload.active = FALSE BY NoUploadShape DEF Init, NoUpload
  <2>6. QED BY <2>1, <2>2, <2>3, <2>4, <2>5 DEF TypeOK
<1>2. Shape
  BY NoUploadShape, EmptySeq DEF Init, Shape, NoOta, Transfers
<1>3. Staged /\ Stored /\ BlockFree /\ MarkedIsImage /\ ReadyIsImage /\ AcknowledgedIsStored
  BY NoUploadShape DEF Init, NoOta, Staged, Stored, BlockFree, MarkedIsImage, ReadyIsImage,
     AcknowledgedIsStored
<1>4. QED BY <1>1, <1>2, <1>3 DEF IInv
-----------------------------------------------------------------------------
(* Steps that leave the partition alone *)

LEMMA SessionHolds ==
  IInv /\ (Open \/ SerialBegins \/ Close \/ SerialEnds) => IInv'
<1> SUFFICES ASSUME IInv, Open \/ SerialBegins \/ Close \/ SerialEnds
             PROVE  IInv'
  OBVIOUS
<1> USE DEF IInv
<1>1. UNCHANGED <<dfu, marked, cdcErased, otaVars>> /\ upload' \in {upload, NoUpload}
  BY DEF Open, SerialBegins, Close, SerialEnds
<1>2. TypeOK'
  <2>1. /\ upload'.received \in 0..(Limit + MaxPacket) /\ Len(upload'.staging) < Word
        /\ upload'.active => ~upload'.ready
    BY <1>1, NoUploadShape, UpdateNumbers DEF TypeOK
  <2>2. serial' \in {"idle", "session", "tail"} /\ open' \in BOOLEAN
    BY DEF TypeOK, Open, SerialBegins, Close, SerialEnds
  <2>3. QED BY <1>1, <2>1, <2>2 DEF TypeOK, otaVars
<1>3. Shape'
  BY <1>1, NoUploadShape DEF Shape, Open, SerialBegins, Close, SerialEnds, otaVars
<1>4. (Staged /\ Stored /\ BlockFree)'
  BY <1>1, NoUploadShape DEF Staged, Stored, BlockFree, otaVars, Clean
<1>5. (MarkedIsImage /\ ReadyIsImage /\ AcknowledgedIsStored)'
  BY <1>1, NoUploadShape DEF MarkedIsImage, ReadyIsImage, AcknowledgedIsStored, otaVars, Holds
<1>6. QED BY <1>2, <1>3, <1>4, <1>5

LEMMA CdcWriteHolds == IInv /\ CdcWrite => IInv'
<1> SUFFICES ASSUME IInv, CdcWrite PROVE IInv'
  OBVIOUS
<1> USE DEF IInv
<1>1. PICK img \in Images :
        upload' = [NoUpload EXCEPT !.active = TRUE, !.image = img, !.sure = Sure]
  BY DEF CdcWrite
<1>2. UNCHANGED <<dfu, marked, open, serial, cdcErased, otaVars>> /\ serial # "idle" /\ ~ota.active
  BY DEF CdcWrite, Line
<1>3. Sure \in BOOLEAN BY DEF Sure
<1>4. /\ upload' \in Uploads /\ upload'.active = TRUE /\ upload'.ready = FALSE
      /\ upload'.image = img /\ upload'.received = 0 /\ upload'.taken = 0
      /\ upload'.staging = <<>> /\ upload'.sure = Sure
  BY <1>1, <1>3, EmptySeq DEF NoUpload, Uploads
<1>5. TypeOK' BY <1>2, <1>4, UpdateNumbers DEF TypeOK, otaVars
<1>6. Shape' BY <1>2, <1>4 DEF Shape, otaVars
<1>7. Staged' BY <1>4, ImageSizes DEF Staged
<1>8. Stored'
  <2>1. Sure => Clean(dfu, cdcErased, 0)
    <3>1. SUFFICES ASSUME Sure, cdcErased = 0, NEW p \in Partition, SectorOf(p) = 0
                   PROVE  dfu[p] = FF
      BY FirstSector DEF Clean
    <3>2. p \in 0..(Sector - 1) BY <3>1, PartitionIsNumbers, UpdateNumbers, Z3 DEF SectorOf
    <3>3. QED BY <3>1, <3>2 DEF Sure
  <2>2. QED BY <2>1, <1>2, <1>4 DEF Stored
<1>9. (BlockFree /\ MarkedIsImage /\ ReadyIsImage /\ AcknowledgedIsStored)'
  BY <1>2, <1>4 DEF BlockFree, MarkedIsImage, ReadyIsImage, AcknowledgedIsStored, otaVars, Holds
<1>10. QED BY <1>5, <1>6, <1>7, <1>8, <1>9

\* BOOT marks what ReadyIsImage speaks of.
LEMMA CdcBootHolds == IInv /\ CdcBoot => IInv'
<1> SUFFICES ASSUME IInv, CdcBoot PROVE IInv'
  OBVIOUS
<1> USE DEF IInv
<1>1. /\ UNCHANGED <<dfu, open, uploadFlag, serial, upload, cdcErased, otaVars>>
      /\ upload.ready /\ marked' = [image |-> upload.image, sure |-> upload.sure]
  BY DEF CdcBoot, cdcVars
<1>2. TypeOK' BY <1>1 DEF TypeOK, otaVars
<1>3. marked' \in [image : Images, sure : BOOLEAN] BY <1>1 DEF Shape, Uploads
<1>4. Shape' BY <1>1, <1>3 DEF Shape, otaVars
<1>5. (Staged /\ Stored /\ BlockFree /\ ReadyIsImage /\ AcknowledgedIsStored)'
  BY <1>1 DEF Staged, Stored, BlockFree, Clean, ReadyIsImage, AcknowledgedIsStored, otaVars, Holds
<1>6. MarkedIsImage' BY <1>1 DEF MarkedIsImage, ReadyIsImage, Holds
<1>7. QED BY <1>2, <1>4, <1>5, <1>6

LEMMA CdcAbortHolds == IInv /\ CdcAbort => IInv'
<1> SUFFICES ASSUME IInv, CdcAbort PROVE IInv'
  OBVIOUS
<1> USE DEF IInv
<1>1. /\ UNCHANGED <<dfu, marked, open, serial, cdcErased, otaVars>>
      /\ serial # "idle"
      /\ upload' = [upload EXCEPT !.active = FALSE, !.ready = FALSE, !.staging = <<>>]
  BY DEF CdcAbort, Line
<1>2. /\ upload' \in Uploads /\ ~upload'.active /\ ~upload'.ready /\ upload'.staging = <<>>
      /\ upload'.received = upload.received
  BY <1>1, EmptySeq DEF Shape, Uploads
<1>3. TypeOK' BY <1>1, <1>2, UpdateNumbers DEF TypeOK, otaVars
<1>4. Shape' BY <1>1, <1>2 DEF Shape, otaVars
<1>5. (Staged /\ Stored /\ BlockFree /\ MarkedIsImage /\ ReadyIsImage /\ AcknowledgedIsStored)'
  BY <1>1, <1>2 DEF Staged, Stored, BlockFree, Clean, MarkedIsImage, ReadyIsImage,
     AcknowledgedIsStored, otaVars, Holds
<1>6. QED BY <1>3, <1>4, <1>5
-----------------------------------------------------------------------------
(* Packets of CDC *)

\* What serial_fut has in hand when n bytes have come.
LEMMA ArrivedBytes ==
  ASSUME IInv, upload.active, NEW n \in Nat \ {0}
  PROVE  /\ Arrived(n) \in Seq(AllBytes) /\ Arrived(n) # <<>>
         /\ Len(Arrived(n)) = Len(upload.staging) + n
         /\ \A i \in 1..Len(Arrived(n)) :
              Arrived(n)[i] = Byte(upload.image, upload.received + i - 1)
<1> DEFINE new == Bytes(upload.image, upload.taken, n)
<1>1. /\ upload \in Uploads /\ upload.image \in Images
      /\ upload.taken = upload.received + Len(upload.staging)
      /\ \A i \in 1..Len(upload.staging) :
           upload.staging[i] = Byte(upload.image, upload.received + i - 1)
  BY DEF IInv, Shape, Staged
<1>2. /\ upload.staging \in Seq(AllBytes) /\ upload.taken \in Nat /\ upload.received \in Nat
      /\ Len(upload.staging) \in Nat
  BY <1>1, LenProperties DEF Uploads
<1>3. /\ new \in Seq(AllBytes) /\ Len(new) = n
      /\ \A i \in 1..n : new[i] = Byte(upload.image, upload.taken + i - 1)
  <2>1. upload.image \in Images /\ upload.taken \in Nat /\ n \in Nat BY <1>1, <1>2
  <2>2. QED BY ONLY <2>1, BytesOfImage
<1> HIDE DEF new
<1>4. /\ upload.staging \o new \in Seq(AllBytes)
      /\ Len(upload.staging \o new) = Len(upload.staging) + n
      /\ \A i \in 1..Len(upload.staging) : (upload.staging \o new)[i] = upload.staging[i]
      /\ \A i \in 1..n : (upload.staging \o new)[Len(upload.staging) + i] = new[i]
  BY <1>2, <1>3, JoinedBytes
<1>5. Arrived(n) = upload.staging \o new BY DEF Arrived, new
<1>6. Arrived(n) # <<>> BY <1>2, <1>4, <1>5, EmptySeq
<1>7. ASSUME NEW i \in 1..Len(Arrived(n))
      PROVE  Arrived(n)[i] = Byte(upload.image, upload.received + i - 1)
  <2>1. CASE i <= Len(upload.staging) BY <1>1, <1>2, <1>4, <1>5, <2>1
  <2>2. CASE i > Len(upload.staging)
    <3>1. PICK j \in 1..n : i = Len(upload.staging) + j
      <4>1. i - Len(upload.staging) \in 1..n /\ i = Len(upload.staging) + (i - Len(upload.staging))
        BY <1>2, <1>4, <1>5, <2>2
      <4>2. QED BY <4>1
    <3>2. upload.taken + j - 1 = upload.received + i - 1 BY <1>1, <1>2, <3>1
    <3>3. Arrived(n)[i] = new[j] BY <1>4, <1>5, <3>1
    <3>4. new[j] = Byte(upload.image, upload.taken + j - 1) BY <1>3
    <3>5. QED BY <3>2, <3>3, <3>4
  <2>3. QED BY <1>2, <2>1, <2>2
<1>8. QED BY <1>4, <1>5, <1>6, <1>7

\* What flash holds after they were written.
LEMMA PacketStored ==
  ASSUME IInv, upload.active, upload.sure, NEW bytes \in Seq(AllBytes), NEW out \in Seq(AllBytes),
         \A i \in 1..Len(bytes) : bytes[i] = Byte(upload.image, upload.received + i - 1),
         \A i \in 1..Len(bytes) : i <= Len(out) => out[i] = bytes[i],
         out = <<>> \/ Writable(upload.received, out),
         NEW d, d = Written(cdcErased, upload.received, out, Len(out))
  PROVE  /\ \A p \in 0..(upload.received + Len(bytes) - 1) :
              p < upload.received + Len(out) => d[p] = Byte(upload.image, p)
         /\ Clean(d, LastErased(cdcErased, upload.received, Len(out)), upload.received + Len(out))
<1> DEFINE r == upload.received
<1>1. r \in Nat /\ Len(bytes) \in Nat /\ Len(out) \in Nat
  BY LenProperties DEF IInv, Shape, Uploads
<1>2. /\ Clean(dfu, cdcErased, r)
      /\ \A p \in 0..(r - 1) : dfu[p] = Byte(upload.image, p)
  BY DEF IInv, Stored
<1>3. \A p \in 0..(r - 1) : p \in Partition
  BY <1>1, UpdateNumbers, ImageSizes DEF IInv, Staged, Shape, Partition, Uploads
<1>4. CASE out = <<>>
  <2>1. /\ \A p \in Partition : d[p] = dfu[p]
        /\ LastErased(cdcErased, r, Len(out)) = cdcErased
    BY <1>1, <1>4, NothingWritten, EmptySeq
  <2>2. r + Len(out) = r BY <1>1, <1>4, EmptySeq
  <2>3. Clean(d, cdcErased, r) BY <1>2, <2>1 DEF Clean
  <2>4. \A p \in 0..(r + Len(bytes) - 1) : p < r => d[p] = Byte(upload.image, p)
    BY <1>1, <1>2, <1>3, <2>1
  <2>5. QED BY <2>1, <2>2, <2>3, <2>4
<1>5. CASE out # <<>>
  <2>1. r + Len(out) - 1 \in Partition BY <1>5 DEF Writable
  <2>2. /\ \A p \in Partition : p < r => d[p] = dfu[p]
        /\ \A i \in 1..Len(out) : d[r + i - 1] = out[i]
        /\ Clean(d, LastErased(cdcErased, r, Len(out)), r + Len(out))
    BY <1>1, <1>2, <1>5, <2>1, CleanWrite
  <2>3. ASSUME NEW p \in 0..(r + Len(bytes) - 1), p < r + Len(out)
        PROVE  d[p] = Byte(upload.image, p)
    <3>1. CASE p < r
      <4>1. p \in 0..(r - 1) BY <1>1, <2>3, <3>1
      <4>2. p \in Partition /\ dfu[p] = Byte(upload.image, p) BY <1>2, <1>3, <4>1
      <4>3. QED BY <2>2, <3>1, <4>2
    <3>2. CASE p >= r
      <4>1. PICK i \in 1..Len(bytes) : i <= Len(out) /\ p = r + i - 1
        <5>1. (p - r + 1) \in 1..Len(bytes) /\ p - r + 1 <= Len(out) /\ p = r + (p - r + 1) - 1
          BY <1>1, <2>3, <3>2
        <5>2. QED BY <5>1
      <4>2. i \in 1..Len(out) BY <1>1, <4>1
      <4>3. QED BY <2>2, <4>1, <4>2
    <3>3. QED BY <1>1, <3>1, <3>2
  <2>4. QED BY <2>2, <2>3
<1>6. QED BY <1>4, <1>5

\* Nothing is acknowledged yet in a transfer that begins beside the tail of an upload, and
\* nothing is marked when anything is written.
LEMMA OthersSpared ==
  ASSUME IInv, upload.active, UNCHANGED <<marked, otaVars>>,
         \/ marked = None
         \/ \A p \in Partition : dfu'[p] = dfu[p]
  PROVE  (BlockFree /\ AcknowledgedIsStored /\ MarkedIsImage)'
<1> USE DEF IInv, otaVars
<1>1. BlockFree' BY CleanAtFirst DEF BlockFree, Shape
<1>2. AcknowledgedIsStored'
  <2>1. SUFFICES ASSUME ota.active PROVE DOMAIN acked = {}
    BY DEF AcknowledgedIsStored
  <2>2. Len(acked) = 0 /\ acked \in Seq(AllBytes) BY <2>1 DEF TypeOK, Shape
  <2>3. QED BY <2>2, LenProperties
<1>3. MarkedIsImage'
  <2>1. CASE marked = None BY <2>1 DEF MarkedIsImage
  <2>2. CASE \A p \in Partition : dfu'[p] = dfu[p]
    <3>1. SUFFICES ASSUME marked # None, marked.sure
                   PROVE  \A p \in 0..(Size[marked.image] - 1) : dfu'[p] = Byte(marked.image, p)
      BY DEF MarkedIsImage, Holds
    <3>2. Holds(marked.image) BY <3>1 DEF MarkedIsImage
    <3>3. \A p \in 0..(Size[marked.image] - 1) : p \in Partition
      BY <3>1, ImageSizes, UpdateNumbers DEF Partition, Shape
    <3>4. QED BY <2>2, <3>1, <3>2, <3>3 DEF Holds
  <2>3. QED BY <2>1, <2>2
<1>4. QED BY <1>1, <1>2, <1>3

LEMMA CdcPacketHolds == IInv /\ CdcPacket => IInv'
<1> SUFFICES ASSUME IInv, CdcPacket PROVE IInv'
  OBVIOUS
<1> USE DEF IInv
<1>1. upload.active /\ serial # "idle" /\ UNCHANGED <<marked, open, serial, otaVars>>
  BY DEF CdcPacket
<1>2. PICK n, bytes, out, r, t, kept, img :
        /\ n \in 1..MaxPacket
        /\ bytes = Arrived(n) /\ out = ToWrite(bytes)
        /\ r = upload.received /\ t = upload.taken /\ kept = Len(upload.staging)
        /\ img = upload.image
        /\ out = <<>> \/ Writable(r, out)
        /\ dfu' = Written(cdcErased, r, out, Len(out))
        /\ cdcErased' = LastErased(cdcErased, r, Len(out))
        /\ upload' =
             IF Done(bytes) THEN [upload EXCEPT !.received = @ + Len(bytes), !.taken = @ + n,
                                    !.staging = <<>>, !.active = FALSE, !.ready = TRUE]
             ELSE [upload EXCEPT !.received = @ + Len(WholeWords(bytes)), !.taken = @ + n,
                                    !.staging = Rest(bytes)]
  BY DEF CdcPacket, Done
<1>3. n \in Nat \ {0} /\ n <= MaxPacket BY <1>2, UpdateNumbers
<1>4. /\ bytes \in Seq(AllBytes) /\ bytes # <<>>
      /\ Len(bytes) = kept + n
      /\ \A i \in 1..Len(bytes) : bytes[i] = Byte(img, r + i - 1)
  BY <1>1, <1>2, <1>3, ArrivedBytes
<1>5. /\ out \in Seq(AllBytes)
      /\ \A i \in 1..Len(bytes) : i <= Len(out) => out[i] = bytes[i]
      /\ Done(bytes) => Len(bytes) <= Len(out) /\ out # <<>>
      /\ ~Done(bytes) => out = WholeWords(bytes)
  BY <1>2, <1>4, WrittenBytes
<1>6. /\ Len(WholeWords(bytes)) \in 0..Len(bytes)
      /\ Rest(bytes) \in Seq(AllBytes)
      /\ Len(Rest(bytes)) = Len(bytes) - Len(WholeWords(bytes)) /\ Len(Rest(bytes)) < Word
      /\ \A i \in 1..Len(Rest(bytes)) : Rest(bytes)[i] = bytes[Len(WholeWords(bytes)) + i]
  BY <1>4, SplitBytes
<1>7. /\ r \in Nat /\ t \in Nat /\ kept \in Nat
      /\ img \in Images /\ Size[img] \in 1..Limit
      /\ t = r + kept /\ t < Size[img]
      /\ Len(bytes) \in Nat /\ Len(out) \in Nat
  BY <1>1, <1>2, <1>4, <1>5, ImageSizes, LenProperties DEF Shape, Uploads, Staged
<1>8. Done(bytes) <=> r + Len(bytes) >= Size[img]
  BY <1>2 DEF Done
<1>9. upload.sure =>
        /\ \A p \in 0..(r + Len(bytes) - 1) : p < r + Len(out) => dfu'[p] = Byte(img, p)
        /\ Clean(dfu', cdcErased', r + Len(out))
  <2>1. SUFFICES ASSUME upload.sure
                 PROVE  /\ \A p \in 0..(upload.received + Len(bytes) - 1) :
                             p < upload.received + Len(out) => dfu'[p] = Byte(upload.image, p)
                        /\ Clean(dfu', LastErased(cdcErased, upload.received, Len(out)),
                                 upload.received + Len(out))
    BY <1>2
  <2>2. \A i \in 1..Len(bytes) : bytes[i] = Byte(upload.image, upload.received + i - 1)
    BY <1>2, <1>4
  <2>3. out = <<>> \/ Writable(upload.received, out) BY <1>2
  <2>4. dfu' = Written(cdcErased, upload.received, out, Len(out)) BY <1>2
  <2>5. QED BY <1>1, <1>4, <1>5, <2>1, <2>2, <2>3, <2>4, PacketStored
<1>10. upload'.image = img /\ upload'.sure = upload.sure /\ upload' \in Uploads
  <2>1. upload \in Uploads /\ <<>> \in Seq(AllBytes) BY EmptySeq DEF Shape
  <2>2. r + Len(bytes) \in Nat /\ r + Len(WholeWords(bytes)) \in Nat /\ t + n \in Nat
    BY ONLY <1>3, <1>6, <1>7
  <2>3. /\ upload.received + Len(bytes) \in Nat /\ upload.taken + n \in Nat
        /\ upload.received + Len(WholeWords(bytes)) \in Nat
    BY ONLY <1>2, <2>2
  <2>4. CASE Done(bytes)
    <3>1. upload' = [upload EXCEPT !.received = @ + Len(bytes), !.taken = @ + n,
                       !.staging = <<>>, !.active = FALSE, !.ready = TRUE]
      BY <1>2, <2>4
    <3>2. QED BY <1>2, <2>1, <2>3, <3>1 DEF Uploads
  <2>5. CASE ~Done(bytes)
    <3>1. upload' = [upload EXCEPT !.received = @ + Len(WholeWords(bytes)), !.taken = @ + n,
                       !.staging = Rest(bytes)]
      BY <1>2, <2>5
    <3>2. QED BY <1>2, <1>6, <2>1, <2>3, <3>1 DEF Uploads
  <2>6. QED BY <2>4, <2>5
<1>11. (BlockFree /\ AcknowledgedIsStored /\ MarkedIsImage)'
  <2>1. out # <<>> => marked = None BY <1>2 DEF Writable
  <2>2. out = <<>> => \A p \in Partition : dfu'[p] = dfu[p]
    BY <1>2, <1>7, NothingWritten, EmptySeq
  <2>3. QED BY <1>1, <2>1, <2>2, OthersSpared
<1>12. CASE Done(bytes)
  <2>1. /\ upload'.received = r + Len(bytes) /\ upload'.staging = <<>>
        /\ ~upload'.active /\ upload'.ready
    BY <1>2, <1>12 DEF Shape, Uploads
  <2>2. TypeOK'
    <3>1. r + Len(bytes) \in 0..(Limit + MaxPacket) BY <1>3, <1>4, <1>7, UpdateNumbers
    <3>2. DOMAIN dfu' = Partition BY <1>2, WrittenDomain
    <3>3. QED BY <1>1, <2>1, <3>1, <3>2, NoUploadShape DEF TypeOK, otaVars
  <2>3. Shape' BY <1>1, <1>7, <1>10, <2>1 DEF Shape, otaVars
  <2>4. ReadyIsImage'
    <3>1. SUFFICES ASSUME upload.sure, NEW p \in 0..(Size[img] - 1)
                   PROVE  dfu'[p] = Byte(img, p)
      BY <1>10 DEF ReadyIsImage, Holds
    <3>2. p \in 0..(r + Len(bytes) - 1) /\ p < r + Len(out) BY <1>5, <1>7, <1>8, <1>12
    <3>3. QED BY <1>9, <3>1, <3>2
  <2>5. QED BY <1>1, <1>11, <2>1, <2>2, <2>3, <2>4 DEF Staged, Stored
<1>13. CASE ~Done(bytes)
  <2>1. /\ upload'.received = r + Len(WholeWords(bytes)) /\ upload'.staging = Rest(bytes)
        /\ upload'.taken = t + n /\ upload'.active /\ ~upload'.ready
    BY <1>1, <1>2, <1>13 DEF Shape, Uploads, TypeOK
  <2>2. TypeOK'
    <3>1. r + Len(WholeWords(bytes)) \in 0..(Limit + MaxPacket)
      BY <1>3, <1>4, <1>6, <1>7, UpdateNumbers
    <3>2. DOMAIN dfu' = Partition BY <1>2, WrittenDomain
    <3>3. QED BY <1>1, <1>6, <2>1, <3>1, <3>2 DEF TypeOK, otaVars
  <2>3. Shape' BY <1>1, <1>7, <1>10, <2>1 DEF Shape, otaVars
  <2>4. Staged'
    <3>1. t + n = r + Len(WholeWords(bytes)) + Len(Rest(bytes)) BY <1>3, <1>4, <1>6, <1>7
    <3>2. t + n < Size[img] BY <1>3, <1>4, <1>7, <1>8, <1>13
    <3>3. ASSUME NEW i \in 1..Len(Rest(bytes))
          PROVE  Rest(bytes)[i] = Byte(img, r + Len(WholeWords(bytes)) + i - 1)
      <4>1. Len(WholeWords(bytes)) + i \in 1..Len(bytes) BY <1>6, <1>7
      <4>2. bytes[Len(WholeWords(bytes)) + i] = Byte(img, r + (Len(WholeWords(bytes)) + i) - 1)
        BY <1>4, <4>1
      <4>3. r + (Len(WholeWords(bytes)) + i) - 1 = r + Len(WholeWords(bytes)) + i - 1
        BY <1>6, <1>7
      <4>4. QED BY <1>6, <4>2, <4>3
    <3>4. QED BY <1>10, <2>1, <3>1, <3>2, <3>3 DEF Staged
  <2>5. Stored'
    <3>1. SUFFICES ASSUME upload.sure
                   PROVE  /\ Clean(dfu', cdcErased', upload'.received)
                          /\ \A p \in 0..(upload'.received - 1) : dfu'[p] = Byte(img, p)
      BY <1>10 DEF Stored
    <3>2. upload'.received = r + Len(out) BY <1>5, <1>13, <2>1
    <3>3. Len(out) <= Len(bytes) BY <1>5, <1>6, <1>7, <1>13
    <3>4. \A p \in 0..((r + Len(out)) - 1) : dfu'[p] = Byte(img, p)
      BY <1>7, <1>9, <3>1, <3>3
    <3>5. QED BY <1>9, <3>1, <3>2, <3>4
  <2>6. QED BY <1>11, <2>1, <2>2, <2>3, <2>4, <2>5 DEF ReadyIsImage
<1>14. QED BY <1>12, <1>13

LEMMA CdcPacketFailsHolds == IInv /\ CdcPacketFails => IInv'
<1> SUFFICES ASSUME IInv, CdcPacketFails PROVE IInv'
  OBVIOUS
<1> USE DEF IInv
<1>1. /\ upload.active /\ serial # "idle" /\ UNCHANGED <<marked, open, serial, otaVars>>
      /\ upload' = NoUpload
      /\ dfu' = dfu \/ (marked = None /\ DOMAIN dfu' = Partition)
  BY WrittenDomain DEF CdcPacketFails, Writable
<1>2. TypeOK'
  <2>1. DOMAIN dfu' = Partition BY <1>1 DEF TypeOK
  <2>2. upload'.received \in 0..(Limit + MaxPacket) /\ Len(upload'.staging) < Word
    BY <1>1, NoUploadShape, UpdateNumbers
  <2>3. ~upload'.active BY <1>1, NoUploadShape
  <2>4. QED BY <1>1, <2>1, <2>2, <2>3 DEF TypeOK, otaVars
<1>3. Shape' BY <1>1, NoUploadShape DEF Shape, otaVars
<1>4. (Staged /\ Stored /\ ReadyIsImage)' BY <1>1, NoUploadShape DEF Staged, Stored, ReadyIsImage
<1>5. (BlockFree /\ AcknowledgedIsStored /\ MarkedIsImage)' BY <1>1, OthersSpared
<1>6. QED BY <1>2, <1>3, <1>4, <1>5
-----------------------------------------------------------------------------
(* Blocks of the UART *)

\* BEGIN needs no erased sector: the new updater erases what it comes to.
LEMMA BeginHolds == IInv /\ Begin => IInv'
<1> SUFFICES ASSUME IInv, Begin PROVE IInv'
  OBVIOUS
<1> USE DEF IInv
<1>1. PICK img \in Images : ota' = [active |-> TRUE, image |-> img, received |-> 0]
  BY DEF Begin
<1>2. /\ UNCHANGED <<dfu, marked, open, uploadFlag, serial, upload, cdcErased>>
      /\ acked' = <<>> /\ renewed' = FALSE /\ otaErased' = None
  BY DEF Begin, NewUpdater, cdcVars
<1>3. ota' \in Transfers /\ ota'.active /\ ota'.image = img /\ ota'.received = 0
  BY <1>1 DEF Transfers
<1>4. TypeOK'
  <2>1. Size[img] \in Nat /\ Len(<<>>) = 0 BY ImageSizes, UpdateNumbers, EmptySeq
  <2>2. ota'.received \in 0..Size[ota'.image] /\ Len(acked') = ota'.received
    BY <1>2, <1>3, <2>1
  <2>3. QED BY <1>2, <2>2 DEF TypeOK
<1>5. Shape' BY <1>2, <1>3, EmptySeq DEF Shape
<1>6. BlockFree' BY <1>2, <1>3, CleanAtFirst DEF BlockFree
<1>7. AcknowledgedIsStored' BY <1>2 DEF AcknowledgedIsStored
<1>8. (Staged /\ Stored /\ MarkedIsImage /\ ReadyIsImage)'
  BY <1>2 DEF Staged, Stored, Clean, MarkedIsImage, ReadyIsImage, Holds
<1>9. QED BY <1>4, <1>5, <1>6, <1>7, <1>8

LEMMA BeginRefusedHolds == IInv /\ BeginRefused => IInv'
<1> SUFFICES ASSUME IInv, BeginRefused PROVE IInv'
  OBVIOUS
<1> USE DEF IInv
<1>1. /\ UNCHANGED <<dfu, marked, open, uploadFlag, serial, upload, cdcErased, ota, acked>>
      /\ renewed' = TRUE /\ otaErased' = None
  BY DEF BeginRefused, NewUpdater, cdcVars
<1>2. TypeOK' BY <1>1 DEF TypeOK
<1>3. Shape' BY <1>1 DEF Shape
<1>4. (Staged /\ Stored /\ BlockFree /\ MarkedIsImage /\ ReadyIsImage /\ AcknowledgedIsStored)'
  BY <1>1 DEF Staged, Stored, BlockFree, Clean, MarkedIsImage, ReadyIsImage,
     AcknowledgedIsStored, Holds
<1>5. QED BY <1>2, <1>3, <1>4

\* The first block of a transfer erases a sector, and the session before is over; the others may
\* leave its tail, in which nothing is uploaded.
LEMMA FirstBlockErases ==
  ASSUME NEW n \in Nat \ {0}
  PROVE  Erases(None, 0, n) # {}
<1>1. 0 \in 0..(0 + n - 1) /\ SectorOf(0) = 0 BY FirstSector
<1>2. 0 # None BY UpdateNumbers
<1>3. QED BY <1>1, <1>2 DEF Erases

LEMMA UploadAfterBlock ==
  ASSUME TypeOK, Shape, Served, ota.active, NEW n \in Nat \ {0},
         NEW erased, TailAfter(erased), erased = Erases(otaErased, ota.received, n)
  PROVE  /\ upload' \in Uploads /\ ~upload'.active /\ ~upload'.ready
         /\ upload'.staging = <<>> /\ upload'.received \in 0..(Limit + MaxPacket)
         /\ serial' = "idle" \/ serial' = "tail"
         /\ serial' = "idle" => upload' = NoUpload
<1>1. serial \in {"idle", "tail"} BY DEF TypeOK, Shape, Served
<1>2. CASE upload' = NoUpload
  BY <1>1, <1>2, NoUploadShape, UpdateNumbers DEF TailAfter
<1>3. CASE upload' # NoUpload
  <2>1. serial = "tail" /\ erased = {} /\ upload' = upload /\ serial' = serial
    BY <1>1, <1>3 DEF TailAfter, Shape
  <2>2. ota.received # 0 BY <2>1, FirstBlockErases DEF Shape
  <2>3. ~upload.active /\ ~upload.ready BY <2>2 DEF Shape, Uploads
  <2>4. QED BY <2>1, <2>3 DEF Shape, TypeOK
<1>4. QED BY <1>2, <1>3

LEMMA DataHolds == IInv /\ Data => IInv'
<1> SUFFICES ASSUME IInv, Data PROVE IInv'
  OBVIOUS
<1> USE DEF IInv
<1>2. PICK img, n, bytes, r :
        /\ img \in Images /\ n \in Blocks
        /\ bytes = Bytes(img, r, n) /\ r = ota.received
        /\ NextBlock(img, r, n) /\ Writable(r, bytes)
        /\ dfu' = Written(otaErased, r, bytes, n)
        /\ otaErased' = LastErased(otaErased, r, n)
        /\ ota' = [ota EXCEPT !.received = @ + n]
        /\ acked' = acked \o bytes
        /\ TailAfter(Erases(otaErased, r, n))
  BY DEF Data
<1>3. UNCHANGED <<marked, open, uploadFlag, cdcErased, renewed>> BY DEF Data
<1>4. n \in Nat \ {0} BY <1>2, UpdateNumbers DEF Blocks
<1>5. /\ ota.active /\ ota \in Transfers /\ ota.image \in Images /\ r \in Nat
      /\ r + n <= Size[ota.image] /\ Size[ota.image] \in 1..Limit
      /\ Len(acked) = r /\ acked \in Seq(AllBytes)
      /\ marked = None
  BY <1>2, ImageSizes DEF NextBlock, Writable, TypeOK, Shape, Transfers
<1>1. /\ upload' \in Uploads /\ ~upload'.active /\ ~upload'.ready
      /\ upload'.staging = <<>> /\ upload'.received \in 0..(Limit + MaxPacket)
      /\ serial' = "idle" \/ serial' = "tail"
      /\ serial' = "idle" => upload' = NoUpload
  <2>1. Served /\ ota.active BY <1>5 DEF Data
  <2>2. QED BY <1>2, <1>4, <2>1, UploadAfterBlock
<1>6. bytes \in Seq(AllBytes) /\ Len(bytes) = n /\ bytes # <<>>
  <2>1. bytes \in Seq(AllBytes) /\ Len(bytes) = n BY <1>2, <1>4, <1>5, BytesOfImage
  <2>2. QED BY <1>4, <2>1, EmptySeq
<1>7. r + n \in Nat /\ r + n \in 0..Size[ota.image] /\ r + n # 0
  BY <1>4, <1>5, UpdateNumbers
<1>8. /\ ota' \in Transfers /\ ota'.active /\ ota'.image = ota.image
      /\ ota'.received = r + n
  BY <1>2, <1>5, <1>7 DEF Transfers
<1>9. /\ acked' \in Seq(AllBytes) /\ Len(acked') = r + n
      /\ \A i \in 1..r : acked'[i] = acked[i]
      /\ \A i \in 1..n : acked'[r + i] = bytes[i]
  <2>1. acked \in Seq(AllBytes) /\ bytes \in Seq(AllBytes) BY <1>5, <1>6
  <2>2. /\ acked \o bytes \in Seq(AllBytes)
        /\ Len(acked \o bytes) = Len(acked) + Len(bytes)
        /\ \A i \in 1..Len(acked) : (acked \o bytes)[i] = acked[i]
        /\ \A i \in 1..Len(bytes) : (acked \o bytes)[Len(acked) + i] = bytes[i]
    BY ONLY <2>1, JoinedBytes
  <2>3. acked' = acked \o bytes /\ Len(acked) = r /\ Len(bytes) = n BY <1>2, <1>5, <1>6
  <2>4. QED BY ONLY <2>2, <2>3
<1>10. ~renewed =>
         /\ \A p \in Partition : p < r => dfu'[p] = dfu[p]
         /\ \A i \in 1..n : dfu'[r + i - 1] = bytes[i]
         /\ Clean(dfu', otaErased', r + n)
  <2>1. SUFFICES ASSUME ~renewed
                 PROVE  /\ \A p \in Partition : p < r => dfu'[p] = dfu[p]
                        /\ \A i \in 1..n : dfu'[r + i - 1] = bytes[i]
                        /\ Clean(dfu', otaErased', r + n)
    OBVIOUS
  <2>2. Clean(dfu, otaErased, r) BY <1>2, <1>5, <2>1 DEF BlockFree
  <2>3. r + Len(bytes) - 1 \in Partition BY <1>2 DEF Writable
  <2>4. dfu' = Written(otaErased, r, bytes, n) /\ otaErased' = LastErased(otaErased, r, n)
    BY <1>2
  <2>5. QED BY ONLY <1>5, <1>6, <2>2, <2>3, <2>4, CleanWrite
<1>11. TypeOK'
  <2>1. DOMAIN dfu' = Partition BY <1>2, WrittenDomain
  <2>2. Len(upload'.staging) < Word BY <1>1, NoUploadShape
  <2>3. QED BY <1>1, <1>3, <1>7, <1>8, <1>9, <2>1, <2>2 DEF TypeOK
<1>12. Shape' BY <1>1, <1>3, <1>5, <1>7, <1>8, <1>9 DEF Shape
<1>13. BlockFree' BY <1>3, <1>8, <1>10 DEF BlockFree
<1>14. AcknowledgedIsStored'
  <2>1. SUFFICES ASSUME ~renewed, NEW i \in 1..(r + n)
                 PROVE  dfu'[i - 1] = acked'[i]
    BY <1>3, <1>9, LenProperties DEF AcknowledgedIsStored
  <2>2. CASE i <= r
    <3>1. dfu[i - 1] = acked[i]
      BY <1>5, <2>1, <2>2, LenProperties DEF AcknowledgedIsStored
    <3>2. i - 1 \in Partition /\ i - 1 < r BY <1>5, <1>7, <2>2, UpdateNumbers DEF Partition
    <3>3. i \in 1..r BY <1>5, <2>2
    <3>4. QED BY <1>9, <1>10, <2>1, <3>1, <3>2, <3>3
  <2>3. CASE i > r
    <3>1. PICK j \in 1..n : i = r + j
      <4>1. i - r \in 1..n /\ i = r + (i - r) BY <1>4, <1>5, <2>3
      <4>2. QED BY <4>1
    <3>2. acked'[i] = bytes[j] BY <1>9, <3>1
    <3>3. dfu'[r + j - 1] = bytes[j] BY <1>10, <2>1
    <3>4. i - 1 = r + j - 1 BY <1>5, <3>1
    <3>5. QED BY ONLY <3>2, <3>3, <3>4
  <2>4. QED BY <1>5, <2>2, <2>3
<1>15. (Staged /\ Stored /\ MarkedIsImage /\ ReadyIsImage)'
  BY <1>1, <1>3, <1>5 DEF Staged, Stored, MarkedIsImage, ReadyIsImage
<1>16. QED BY <1>11, <1>12, <1>13, <1>14, <1>15

\* A write that fails at its first word, before it erased anything, has programmed nothing.
LEMMA FailsAtOnce ==
  ASSUME NEW bytes, NEW f \in Failures(bytes)
  PROVE  f.reach \in Nat /\ (f.reach = 0 => f.bytes = <<>>)
<1>1. PICK k \in 0..((Len(bytes) - 1) \div Word), i \in {0, Word} :
        f = [bytes |-> SubSeq(bytes, 1, Word * k), reach |-> Word * k + i]
  BY DEF Failures
<1>2. k \in Nat /\ i \in Nat /\ Word \in Nat BY <1>1, UpdateNumbers
<1>3. Word * k \in Nat BY <1>2, Z3
<1>4. f.reach = Word * k + i /\ f.bytes = SubSeq(bytes, 1, Word * k) BY <1>1
<1>5. f.reach \in Nat /\ (f.reach = 0 => Word * k = 0) BY <1>2, <1>3, <1>4
<1>6. SubSeq(bytes, 1, 0) = <<>> OBVIOUS
<1>7. QED BY <1>4, <1>5, <1>6

\* What is left of an upload in the tail after a block failed: nothing, or the block came to
\* nothing in flash.
LEMMA TailSpared ==
  ASSUME IInv, DataFails, upload' # NoUpload, upload'.active \/ upload'.ready
  PROVE  /\ upload' = upload /\ serial' = serial
         /\ \A p \in Partition : dfu'[p] = dfu[p]
<1>1. PICK img \in Images, n \in Blocks :
        LET bytes == Bytes(img, ota.received, n) IN
          IF Writable(ota.received, bytes)
            THEN \E f \in Failures(bytes) :
                   /\ dfu' = Written(otaErased, ota.received, f.bytes, f.reach)
                   /\ otaErased' = LastErased(otaErased, ota.received, f.reach)
                   /\ TailAfter(Erases(otaErased, ota.received, f.reach))
            ELSE UNCHANGED <<dfu, otaErased, serial, upload>>
  BY DEF DataFails
<1>2. CASE UNCHANGED <<dfu, serial, upload>> BY <1>2
<1>3. CASE ~UNCHANGED <<dfu, serial, upload>>
  <2>1. PICK f \in Failures(Bytes(img, ota.received, n)) :
          /\ dfu' = Written(otaErased, ota.received, f.bytes, f.reach)
          /\ TailAfter(Erases(otaErased, ota.received, f.reach))
    BY <1>1, <1>3
  <2>2. upload' = upload /\ serial' = serial /\ Erases(otaErased, ota.received, f.reach) = {}
    BY <2>1 DEF TailAfter, IInv, Shape, TypeOK, DataFails, Served
  <2>3. ota.active BY DEF DataFails, NextBlock
  <2>4. ota.received = 0 /\ otaErased = None BY <2>2, <2>3 DEF IInv, Shape
  <2>5. f.reach = 0 BY <2>2, <2>4, FailsAtOnce, FirstBlockErases
  <2>6. f.bytes = <<>> BY <2>5, FailsAtOnce
  <2>7. QED BY <2>1, <2>2, <2>4, <2>5, <2>6, NothingWritten
<1>4. QED BY <1>2, <1>3

LEMMA DataFailsHolds == IInv /\ DataFails => IInv'
<1> SUFFICES ASSUME IInv, DataFails PROVE IInv'
  OBVIOUS
<1> USE DEF IInv
<1>1. /\ UNCHANGED <<marked, open, uploadFlag, cdcErased, acked, renewed>>
      /\ ota' = [ota EXCEPT !.active = FALSE, !.received = 0]
      /\ Served /\ ota.active
  BY DEF DataFails, NextBlock
<1>2. \/ UNCHANGED <<dfu, serial, upload>>
      \/ /\ marked = None /\ DOMAIN dfu' = Partition
         /\ \E erased : TailAfter(erased)
  BY WrittenDomain DEF DataFails, Writable
<1>3. DOMAIN dfu' = Partition /\ (marked # None => dfu' = dfu) BY <1>2 DEF TypeOK
<1>4. \/ upload' = upload /\ serial' = serial
      \/ upload' = NoUpload /\ serial' = "idle"
  BY <1>2 DEF TailAfter
<1>5. ota' \in Transfers /\ ~ota'.active BY <1>1 DEF Shape, Transfers
<1>6. TypeOK'
  <2>1. /\ upload'.received \in 0..(Limit + MaxPacket) /\ Len(upload'.staging) < Word
        /\ upload'.active => ~upload'.ready
    BY <1>4, NoUploadShape, UpdateNumbers DEF TypeOK
  <2>2. QED BY <1>1, <1>3, <1>4, <1>5, <2>1 DEF TypeOK
<1>7. Shape' BY <1>1, <1>4, <1>5, NoUploadShape DEF Shape
<1>8. (Staged /\ Stored /\ ReadyIsImage)'
  <2>1. CASE ~(upload'.active \/ upload'.ready)
    BY <2>1 DEF Staged, Stored, ReadyIsImage
  <2>2. CASE upload'.active \/ upload'.ready
    <3>1. upload' # NoUpload BY <2>2, NoUploadShape
    <3>2. /\ upload' = upload /\ \A p \in Partition : dfu'[p] = dfu[p]
          /\ cdcErased' = cdcErased
      BY <1>1, <2>2, <3>1, TailSpared
    <3>3. Staged' BY <3>2 DEF Staged
    <3>4. upload.image \in Images /\ Size[upload.image] \in 1..Limit
      BY <2>2, <3>2, ImageSizes DEF Shape
    <3>5. Stored'
      <4>1. SUFFICES ASSUME upload.active, upload.sure
                     PROVE  /\ Clean(dfu', cdcErased, upload.received)
                            /\ \A p \in 0..(upload.received - 1) :
                                 dfu'[p] = Byte(upload.image, p)
        BY <3>2 DEF Stored
      <4>2. upload.received \in Nat /\ upload.received <= Limit
        <5>1. PICK r, k, t, z : r = upload.received /\ k = Len(upload.staging)
                             /\ t = upload.taken /\ z = Size[upload.image]
          OBVIOUS
        <5>2. r \in Nat /\ k \in Nat BY <5>1, LenProperties DEF Shape, Uploads
        <5>3. t = r + k /\ t < z /\ z \in 1..Limit BY <3>4, <4>1, <5>1 DEF Staged
        <5>4. r <= Limit BY ONLY <5>2, <5>3, UpdateNumbers
        <5>5. QED BY <5>1, <5>2, <5>4
      <4>3. \A p \in 0..(upload.received - 1) : p \in Partition
        BY <4>2, UpdateNumbers DEF Partition
      <4>4. QED BY <3>2, <4>1, <4>3 DEF Stored, Clean
    <3>6. ReadyIsImage'
      <4>1. \A p \in 0..(Size[upload.image] - 1) : p \in Partition
        BY <3>4, UpdateNumbers DEF Partition
      <4>2. QED BY <3>2, <4>1 DEF ReadyIsImage, Holds
    <3>7. QED BY <3>3, <3>5, <3>6
  <2>3. QED BY <2>1, <2>2
<1>9. (BlockFree /\ AcknowledgedIsStored)' BY <1>5 DEF BlockFree, AcknowledgedIsStored
<1>10. MarkedIsImage' BY <1>1, <1>3 DEF MarkedIsImage, Holds
<1>11. QED BY <1>6, <1>7, <1>8, <1>9, <1>10

LEMMA DataAgainHolds == IInv /\ DataAgain => IInv'
<1> SUFFICES ASSUME IInv, DataAgain PROVE IInv'
  OBVIOUS
<1> USE DEF IInv
<1>1. UNCHANGED <<dfu, marked, open, uploadFlag, serial, upload, cdcErased, ota, otaErased,
                  renewed>>
      /\ ota.active
  BY DEF DataAgain, cdcVars
<1>2. PICK img, n, offset, bytes :
        /\ img \in Images /\ n \in Blocks /\ offset \in 0..(ota.received - 1)
        /\ bytes = Bytes(img, offset, n)
        /\ Repeated(offset, bytes)
        /\ acked' = [i \in DOMAIN acked |->
                       IF i \in (offset + 1)..(offset + n) THEN bytes[i - offset] ELSE acked[i]]
  BY DEF DataAgain
<1>3. /\ n \in Nat \ {0} /\ ota.received \in Nat /\ acked \in Seq(AllBytes)
      /\ Len(acked) = ota.received /\ DOMAIN acked = 1..Len(acked)
  BY <1>1, <1>2, UpdateNumbers, LenProperties DEF Blocks, Shape, Transfers, TypeOK
<1>4. offset \in Nat BY <1>2, <1>3
<1>5. /\ bytes \in Seq(AllBytes) /\ Len(bytes) = n
      /\ \A i \in 1..n : dfu[offset + i - 1] = bytes[i]
  <2>1. bytes \in Seq(AllBytes) /\ Len(bytes) = n BY <1>2, <1>3, <1>4, BytesOfImage
  <2>2. QED BY <1>2, <2>1 DEF Repeated
<1>6. \A i \in 1..Len(acked) : i \in (offset + 1)..(offset + n) =>
        i - offset \in 1..n /\ offset + (i - offset) - 1 = i - 1
  BY <1>3, <1>4
<1>7. /\ DOMAIN acked' = 1..Len(acked)
      /\ \A i \in 1..Len(acked) :
           acked'[i] = IF i \in (offset + 1)..(offset + n) THEN bytes[i - offset] ELSE acked[i]
  BY <1>2, <1>3
<1>8. acked' \in Seq(AllBytes) /\ Len(acked') = Len(acked)
  <2>1. \A i \in 1..n : bytes[i] \in AllBytes BY <1>5, ElementOfSeq
  <2>2. \A i \in 1..Len(acked) : acked[i] \in AllBytes BY <1>3, ElementOfSeq
  <2>3. acked' \in [1..Len(acked) -> AllBytes] BY <1>2, <1>3, <1>6, <2>1, <2>2
  <2>4. Len(acked) \in Nat BY <1>3
  <2>5. QED BY <2>3, <2>4
<1>9. AcknowledgedIsStored'
  <2>1. SUFFICES ASSUME ~renewed, NEW i \in 1..Len(acked)
                 PROVE  dfu[i - 1] = acked'[i]
    BY <1>1, <1>7 DEF AcknowledgedIsStored
  <2>2. dfu[i - 1] = acked[i] BY <1>1, <1>3, <2>1 DEF AcknowledgedIsStored
  <2>3. i \in (offset + 1)..(offset + n) => dfu[i - 1] = bytes[i - offset] BY <1>5, <1>6
  <2>4. QED BY <1>7, <2>2, <2>3
<1>10. TypeOK' BY <1>1, <1>8 DEF TypeOK
<1>11. Shape' BY <1>1, <1>8 DEF Shape
<1>12. (Staged /\ Stored /\ BlockFree /\ MarkedIsImage /\ ReadyIsImage)'
  BY <1>1 DEF Staged, Stored, BlockFree, Clean, MarkedIsImage, ReadyIsImage, Holds
<1>13. QED BY <1>9, <1>10, <1>11, <1>12

\* The end of a transfer, with a mark if the checksum was right, or without one.
LEMMA TransferEndHolds == IInv /\ (Commit \/ OtaAborts) => IInv'
<1> SUFFICES ASSUME IInv, Commit \/ OtaAborts PROVE IInv'
  OBVIOUS
<1> USE DEF IInv
<1>1. /\ UNCHANGED <<dfu, open, uploadFlag, serial, upload, cdcErased, otaErased, acked, renewed>>
      /\ ota' \in Transfers /\ ~ota'.active
  <2>1. UNCHANGED <<dfu, open, uploadFlag, serial, upload, cdcErased, otaErased, acked, renewed>>
    BY DEF Commit, OtaAborts, cdcVars
  <2>2. ota \in Transfers BY DEF Shape
  <2>3. CASE Commit
    <3>1. ota' = [ota EXCEPT !.active = FALSE] BY <2>3 DEF Commit
    <3>2. QED BY <2>1, <2>2, <3>1 DEF Transfers
  <2>4. CASE OtaAborts
    <3>1. ota' = [ota EXCEPT !.active = FALSE, !.received = 0] BY <2>4 DEF OtaAborts
    <3>2. QED BY <2>1, <2>2, <3>1 DEF Transfers
  <2>5. QED BY <2>3, <2>4
<1>2. \/ marked' = marked
      \/ /\ marked' = [image |-> ota.image, sure |-> TRUE]
         /\ ota.image \in Images /\ Holds(ota.image)
  BY DEF Commit, OtaAborts, Complete, CrcMatches, Shape
<1>3. MarkedIsImage' BY <1>1, <1>2 DEF MarkedIsImage, Holds
<1>4. TypeOK' BY <1>1 DEF TypeOK
<1>5. marked' = None \/ marked' \in [image : Images, sure : BOOLEAN]
  <2>1. CASE marked' = marked BY <2>1 DEF Shape
  <2>2. CASE ota.image \in Images /\ marked' = [image |-> ota.image, sure |-> TRUE] BY <2>2
  <2>3. QED BY <1>2, <2>1, <2>2
<1>6. Shape' BY <1>1, <1>5 DEF Shape
<1>7. (Staged /\ Stored /\ BlockFree /\ ReadyIsImage /\ AcknowledgedIsStored)'
  BY <1>1 DEF Staged, Stored, BlockFree, Clean, ReadyIsImage, AcknowledgedIsStored, Holds
<1>8. QED BY <1>3, <1>4, <1>6, <1>7

LEMMA RestartHolds == IInv /\ Restart => IInv'
<1> SUFFICES ASSUME IInv, Restart PROVE IInv'
  OBVIOUS
<1> USE DEF IInv
<1>1. /\ upload' = NoUpload /\ ota' = NoOta /\ serial' = "idle" /\ open' = FALSE
      /\ marked' = None /\ acked' = <<>> /\ renewed' = FALSE
      /\ DOMAIN dfu' = Partition
  BY DEF Restart, TypeOK
<1>2. ota' \in Transfers /\ ~ota'.active BY <1>1 DEF NoOta, Transfers
<1>3. TypeOK'
  <2>1. upload'.received \in 0..(Limit + MaxPacket) /\ Len(upload'.staging) < Word
        /\ ~upload'.active
    BY <1>1, NoUploadShape, UpdateNumbers
  <2>2. QED BY <1>1, <1>2, <2>1 DEF TypeOK
<1>4. Shape' BY <1>1, <1>2, NoUploadShape, EmptySeq DEF Shape
<1>5. (Staged /\ Stored /\ BlockFree /\ MarkedIsImage /\ ReadyIsImage /\ AcknowledgedIsStored)'
  BY <1>1, <1>2, NoUploadShape DEF Staged, Stored, BlockFree, MarkedIsImage, ReadyIsImage,
     AcknowledgedIsStored
<1>6. QED BY <1>3, <1>4, <1>5
-----------------------------------------------------------------------------
LEMMA StutterHolds == IInv /\ UNCHANGED vars => IInv'
<1> SUFFICES ASSUME IInv, UNCHANGED vars PROVE IInv'
  OBVIOUS
<1> USE DEF IInv, vars, cdcVars, otaVars
<1>1. TypeOK' BY DEF TypeOK
<1>2. Shape' BY DEF Shape
<1>3. (Staged /\ Stored /\ BlockFree /\ MarkedIsImage /\ ReadyIsImage /\ AcknowledgedIsStored)'
  BY DEF Staged, Stored, BlockFree, Clean, MarkedIsImage, ReadyIsImage, AcknowledgedIsStored, Holds
<1>4. QED BY <1>1, <1>2, <1>3

LEMMA StepHolds == IInv /\ [Next]_vars => IInv'
BY SessionHolds, CdcWriteHolds, CdcPacketHolds, CdcPacketFailsHolds, CdcBootHolds,
   CdcAbortHolds, BeginHolds, BeginRefusedHolds, DataHolds, DataFailsHolds, DataAgainHolds,
   TransferEndHolds, RestartHolds, StutterHolds, Zenon
   DEF Next

LEMMA Invariance == Spec => []IInv
BY InitHolds, StepHolds, PTL DEF Spec

\* Offsets stay in the partition, less than a word is ever held back by serial_fut, and
\* Ota::handle counts every byte it has answered.
THEOREM UpdateTypeCorrect == Spec => []TypeOK
<1>1. IInv => TypeOK BY DEF IInv
<1>2. QED BY Invariance, <1>1, PTL

\* What mark_updated was called for is in the DFU partition, byte for byte, until the reset.  For
\* an image of the UART always, whatever was tried, failed or given up before and after.  For one
\* of CDC only if its upload was sure: it did not begin in a first sector that the updater of
\* serial_fut, which outlives an upload, took for erased while it was not.  That happens after an
\* upload given up in its first sector, and then the theorem says nothing.
THEOREM MarkedImage == Spec => []MarkedIsImage
<1>1. IInv => MarkedIsImage BY DEF IInv
<1>2. QED BY Invariance, <1>1, PTL

\* An upload that is sure and that serial_fut answered with OK is in flash whole, for every way
\* the packets cut it into pieces, and stays there until BOOT or the end of the session.  An
\* upload that follows one given up in its first sector is not sure, and serial_fut may answer OK
\* for a mixture of the two.
THEOREM ReadyImage == Spec => []ReadyIsImage
<1>1. IInv => ReadyIsImage BY DEF IInv
<1>2. QED BY Invariance, <1>1, PTL

\* The blocks that Ota::handle answered with OK, repeated ones included, are in flash until
\* the transfer ends, unless a BEGIN refused during it has replaced its updater: then the next
\* block erases its sector again, with the acknowledged bytes in it.
THEOREM AcknowledgedStored == Spec => []AcknowledgedIsStored
<1>1. IInv => AcknowledgedIsStored BY DEF IInv
<1>2. QED BY Invariance, <1>1, PTL
=============================================================================

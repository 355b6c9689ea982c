--------------------------- MODULE EsbRadioProofs ---------------------------
(***************************************************************************)
(* Proofs about EsbRadio.  The invariant says what the identifiers are: the *)
(* driver's is the number of packets sent modulo 4, the receiver's that of  *)
(* the packet it took last; and that a receiver which has the packet under  *)
(* way holds its contents, so that it knows a repetition.                   *)
(***************************************************************************)
EXTENDS EsbRadio, TLAPS

\* The identifiers stand for numbers of packets.
Identifiers ==
  /\ pid = sent % 4
  /\ receiver.payload # None => delivered > 0 /\ receiver.pid = delivered % 4
  /\ receiver.payload = None => delivered = 0

\* A packet under way: it is the last one, nobody has acknowledged it, and a receiver that
\* has it has its contents.
UnderWay ==
  tx # None =>
    /\ sent > 0 /\ acked = FALSE /\ rx = None
    /\ delivered = sent => receiver.payload = tx.payload

\* The receiver's answer is one to the packet it took last.
Answered == receiver.answer \in {None, TooLong, delivered}

IInv ==
  /\ TypeOK /\ Identifiers /\ UnderWay /\ Answered
  /\ AtMostOnce /\ AckedIsDelivered /\ AnswerIsFresh

\* Addresses are never expanded in what follows.
Air == {HwAddress(a, e) : a \in Addresses, e \in Encodings}
AirConfirmed == {HwAddress(a, Confirmed) : a \in Addresses}

\* A setting of the registers is one of an address and an encoding.
LEMMA AirSettings ==
  /\ \A a \in Addresses, e \in Encodings : HwAddress(a, e) \in Air
  /\ \A a \in Addresses : HwAddress(a, Confirmed) \in AirConfirmed
  /\ PairingAddress \in Addresses /\ DeviceAddress \in Addresses
  /\ Confirmed \in Encodings
BY DEF Air, AirConfirmed, Addresses, Encodings, Confirmed

\* The initial state satisfies the invariant.
LEMMA InitHolds == Init => IInv
<1> SUFFICES ASSUME Init PROVE IInv
  OBVIOUS
<1> USE RadioNumbers
<1>1. PICK c \in Channels, a \in Addresses :
        receiver = [channel |-> c, hw |-> HwAddress(a, Confirmed), pid |-> 0,
                    payload |-> None, answer |-> None]
  BY DEF Init
<1>2. TypeOK
  <2>1. receiver \in [channel : Channels, hw : AirConfirmed,
                      pid : 0..3, payload : Payloads \cup {None}, answer : Answers]
    BY <1>1, AirSettings DEF Answers
  <2>2. /\ rx = None /\ channel = None /\ test = None /\ hw = None /\ tx = None
        /\ pid = 0 /\ retransmitCount = 15 /\ encoding = Confirmed
        /\ sent = 0 /\ delivered = 0 /\ copies = 0
    BY DEF Init
  <2>3. acked \in BOOLEAN BY DEF Init
  <2>4. QED BY <2>1, <2>2, <2>3, AirSettings DEF TypeOK, AirConfirmed
<1>3. Identifiers /\ UnderWay /\ Answered
  BY <1>1 DEF Init, Identifiers, UnderWay, Answered
<1>4. AtMostOnce /\ AckedIsDelivered /\ AnswerIsFresh
  BY DEF Init, AtMostOnce, AckedIsDelivered, AnswerIsFresh
<1>5. QED BY <1>2, <1>3, <1>4 DEF IInv

\* A call that sends nothing keeps the invariant if it keeps the types.
LEMMA QuietCall ==
  ASSUME IInv, TypeOK',
         UNCHANGED <<pid, tx, receiver, ghostVars>>,
         rx' = rx \/ rx' = None
  PROVE  IInv'
<1>1. Identifiers' /\ UnderWay' /\ Answered'
  BY DEF IInv, Identifiers, UnderWay, Answered, ghostVars
<1>2. AtMostOnce' /\ AckedIsDelivered' /\ AnswerIsFresh'
  BY DEF IInv, AtMostOnce, AckedIsDelivered, AnswerIsFresh, ghostVars
<1>3. QED BY <1>1, <1>2 DEF IInv

\* The library's calls and the steps of the test that send nothing.
LEMMA CallHolds ==
  ASSUME IInv,
         ConfigureUnifying \/ SetAddress \/ SetChannel \/ SetRetries \/ ReceivePayload
           \/ RadioTest \/ NextEncoding \/ RadioTestDone
  PROVE  IInv'
<1> USE RadioNumbers DEF LibraryCalls, ghostVars, driverVars, Idle
<1>1. CASE ConfigureUnifying
  <2>1. TypeOK' BY <1>1 DEF IInv, TypeOK, ConfigureUnifying
  <2>2. QED BY <1>1, <2>1, QuietCall DEF ConfigureUnifying
<1>2. CASE SetAddress
  <2>1. hw' \in Air BY <1>2, AirSettings DEF SetAddress, IInv, TypeOK
  <2>2. TypeOK' BY <1>2, <2>1 DEF IInv, TypeOK, SetAddress, Air
  <2>3. QED BY <1>2, <2>2, QuietCall DEF SetAddress
<1>3. CASE SetChannel
  <2>1. TypeOK' BY <1>3 DEF IInv, TypeOK, SetChannel
  <2>2. QED BY <1>3, <2>1, QuietCall DEF SetChannel
<1>4. CASE SetRetries
  <2>1. TypeOK' BY <1>4 DEF IInv, TypeOK, SetRetries
  <2>2. QED BY <1>4, <2>1, QuietCall DEF SetRetries
<1>5. CASE ReceivePayload
  <2>1. TypeOK' BY <1>5 DEF IInv, TypeOK, ReceivePayload
  <2>2. QED BY <1>5, <2>1, QuietCall DEF ReceivePayload
<1>6. CASE RadioTest
  <2>1. hw' \in Air BY <1>6, AirSettings DEF RadioTest, Encodings
  <2>2. TypeOK' BY <1>6, <2>1 DEF IInv, TypeOK, RadioTest, Air, Encodings
  <2>3. QED BY <1>6, <2>2, QuietCall DEF RadioTest
<1>7. CASE NextEncoding
  <2>1. test + 1 \in Encodings
    BY <1>7 DEF NextEncoding, IInv, TypeOK, Encodings
  <2>2. hw' \in Air BY <1>7, <2>1, AirSettings DEF NextEncoding
  <2>3. TypeOK' BY <1>7, <2>1, <2>2 DEF IInv, TypeOK, NextEncoding, Air
  <2>4. QED BY <1>7, <2>3, QuietCall DEF NextEncoding
<1>8. CASE RadioTestDone
  <2>1. TypeOK' BY <1>8 DEF IInv, TypeOK, RadioTestDone
  <2>2. QED BY <1>8, <2>1, QuietCall DEF RadioTestDone
<1>9. QED BY <1>1, <1>2, <1>3, <1>4, <1>5, <1>6, <1>7, <1>8

\* A new packet has an identifier of its own, and no receiver has it yet.
LEMMA NewPacketHolds ==
  ASSUME IInv, Idle, NEW p \in Payloads, NEW n \in Nat, n \in 1..(retransmitCount + 1),
         NewPacket(p, n), channel' \in Channels \cup {None},
         UNCHANGED <<retransmitCount, encoding, hw, test, receiver, delivered, copies>>
  PROVE  IInv'
<1> USE RadioNumbers
<1>1. /\ sent \in Nat /\ delivered \in Nat /\ delivered <= sent /\ sent' = sent + 1
      /\ rx' = None /\ acked' = FALSE /\ tx' = [payload |-> p, left |-> n]
      /\ pid' = (pid + 1) % 4
  BY DEF IInv, TypeOK, NewPacket, NextPid, ForgetAnswer
<1>2. TypeOK'
  <2>1. pid' \in 0..3 BY <1>1 DEF IInv, TypeOK
  <2>2. tx' \in [payload : Payloads, left : 1..(retransmitCount' + 1)] BY <1>1
  <2>3. sent' \in 0..MaxSent /\ delivered' \in 0..sent'
    BY <1>1 DEF NewPacket, IInv, TypeOK
  <2>4. rx' \in {None} \cup 1..MaxSent BY <1>1
  <2>5. acked' \in BOOLEAN BY <1>1
  <2>6. QED BY <2>1, <2>2, <2>3, <2>4, <2>5 DEF IInv, TypeOK
<1>3. pid' = sent' % 4
  BY <1>1 DEF IInv, Identifiers
<1>4. Identifiers' BY <1>3 DEF IInv, Identifiers
<1>5. UnderWay' BY <1>1 DEF UnderWay
<1>6. Answered' BY DEF IInv, Answered
<1>7. AtMostOnce' /\ AckedIsDelivered' /\ AnswerIsFresh'
  BY <1>1 DEF IInv, AtMostOnce, AckedIsDelivered, AnswerIsFresh
<1>8. QED BY <1>2, <1>4, <1>5, <1>6, <1>7 DEF IInv

\* What one attempt does to the receiver, whether or not its acknowledgement arrives.
HearsHolds ==
  /\ receiver' \in [channel : Channels, hw : {HwAddress(a, Confirmed) : a \in Addresses},
                    pid : 0..3, payload : Payloads \cup {None}, answer : Answers]
  /\ delivered' \in 0..sent /\ copies' \in Nat /\ copies' <= 1
  /\ receiver'.payload = tx.payload /\ receiver'.payload # None
  /\ delivered' > 0 /\ receiver'.pid = delivered' % 4
  /\ receiver'.answer \in {None, TooLong, delivered'}
  /\ delivered' = sent \/ sent >= delivered' + 4

\* Hearing a packet keeps the identifiers right: a repetition is recognised.
LEMMA HearsKeeps ==
  ASSUME IInv, tx # None, Hears
  PROVE  HearsHolds
<1> USE RadioNumbers DEF PidOnAir
<1>1. /\ tx.payload \in Payloads /\ tx.payload # None
      /\ sent \in Nat /\ delivered \in 0..sent /\ sent > 0 /\ sent <= MaxSent
      /\ copies \in Nat /\ copies <= 1 /\ pid = sent % 4 /\ pid \in 0..3
      /\ delivered = sent => receiver.payload = tx.payload
  BY DEF IInv, TypeOK, UnderWay, AtMostOnce, Identifiers
<1>2. CASE receiver.payload = tx.payload /\ receiver.pid = pid
  <2>1. UNCHANGED <<receiver, delivered, copies>> BY <1>2 DEF Hears
  <2>2. delivered > 0 /\ receiver.pid = delivered % 4
    BY <1>1, <1>2 DEF IInv, Identifiers
  <2>3. delivered = sent \/ sent >= delivered + 4
    BY <1>1, <1>2, <2>2
  <2>4. QED BY <1>1, <1>2, <2>1, <2>2, <2>3 DEF HearsHolds, IInv, TypeOK, Answered
<1>3. CASE ~(receiver.payload = tx.payload /\ receiver.pid = pid)
  <2>1. PICK a \in {None, TooLong, sent} :
          receiver' = [receiver EXCEPT !.pid = pid, !.payload = tx.payload, !.answer = a]
    BY <1>3 DEF Hears
  <2>2. delivered' = sent /\ copies' = IF delivered = sent THEN copies + 1 ELSE 1
    BY <1>3 DEF Hears
  <2>3. delivered # sent
    BY <1>1, <1>3 DEF IInv, Identifiers
  <2>4. a \in Answers BY <1>1 DEF Answers
  <2>5. receiver' \in [channel : Channels, hw : {HwAddress(b, Confirmed) : b \in Addresses},
                       pid : 0..3, payload : Payloads \cup {None}, answer : Answers]
    <3> DEFINE Confirmeds == {HwAddress(b, Confirmed) : b \in Addresses}
    <3>1. receiver \in [channel : Channels, hw : Confirmeds,
                        pid : 0..3, payload : Payloads \cup {None}, answer : Answers]
      BY DEF IInv, TypeOK
    <3> HIDE DEF Confirmeds
    <3>2. receiver' \in [channel : Channels, hw : Confirmeds,
                         pid : 0..3, payload : Payloads \cup {None}, answer : Answers]
      BY <1>1, <2>1, <2>4, <3>1
    <3>3. QED BY <3>2 DEF Confirmeds
  <2>6. receiver'.payload = tx.payload /\ receiver'.pid = pid /\ receiver'.answer = a
    BY <2>1 DEF IInv, TypeOK
  <2>7. QED BY <1>1, <2>1, <2>2, <2>3, <2>5, <2>6 DEF HearsHolds
<1>4. QED BY <1>2, <1>3

\* Every outcome of an attempt keeps the invariant.
LEMMA AttemptHolds ==
  ASSUME IInv, PacketLost \/ AckLost \/ AckDamaged \/ AckReceived
  PROVE  IInv'
<1> USE RadioNumbers DEF Attempt
<1>1. /\ tx # None /\ rx = None /\ acked = FALSE
      /\ tx.payload \in Payloads /\ tx.left \in 1..(retransmitCount + 1)
      /\ tx \in [payload : Payloads, left : 1..(retransmitCount + 1)]
      /\ retransmitCount \in Nat
      /\ UNCHANGED <<pid, retransmitCount, channel, encoding, hw, test, sent>>
  BY DEF IInv, UnderWay, TypeOK, PacketLost, AckLost, AckDamaged, AckReceived
<1>2. ASSUME Fails
      PROVE  /\ tx' = None \/ tx' \in [payload : Payloads, left : 1..(retransmitCount' + 1)]
             /\ tx' # None => tx'.payload = tx.payload
             /\ acked' = FALSE
  <2>1. CASE tx.left > 1
    <3>1. tx' = [tx EXCEPT !.left = @ - 1] BY <2>1, <1>2 DEF Fails
    <3>2. tx.left - 1 \in 1..(retransmitCount + 1) BY <1>1, <2>1
    <3>3. QED BY <1>1, <1>2, <3>1, <3>2 DEF Fails
  <2>2. CASE ~(tx.left > 1)
    BY <1>1, <1>2, <2>2 DEF Fails
  <2>3. QED BY <2>1, <2>2
<1>3. CASE PacketLost
  <2>1. Fails /\ UNCHANGED <<rx, receiver, delivered, copies>> BY <1>3 DEF PacketLost
  <2>2. TypeOK' BY <1>1, <1>2, <2>1 DEF IInv, TypeOK
  <2>3. Identifiers' /\ UnderWay' /\ Answered'
    BY <1>1, <1>2, <2>1 DEF IInv, Identifiers, UnderWay, Answered
  <2>4. AtMostOnce' /\ AckedIsDelivered' /\ AnswerIsFresh'
    BY <1>1, <1>2, <2>1 DEF IInv, AtMostOnce, AckedIsDelivered, AnswerIsFresh
  <2>5. QED BY <2>2, <2>3, <2>4 DEF IInv
<1>4. CASE AckLost \/ AckDamaged
  <2>1. Fails /\ Hears /\ rx' = None BY <1>1, <1>4 DEF AckLost, AckDamaged
  <2>2. HearsHolds BY <1>1, <2>1, HearsKeeps
  <2>3. TypeOK' BY <1>1, <1>2, <2>1, <2>2 DEF IInv, TypeOK, HearsHolds
  <2>4. Identifiers' BY <1>1, <2>2 DEF HearsHolds, IInv, Identifiers
  <2>5. UnderWay' BY <1>1, <1>2, <2>1, <2>2 DEF HearsHolds, IInv, UnderWay
  <2>6. Answered' BY <2>2 DEF HearsHolds, Answered
  <2>7. AtMostOnce' /\ AckedIsDelivered' /\ AnswerIsFresh'
    BY <1>2, <2>1, <2>2 DEF HearsHolds, AtMostOnce, AckedIsDelivered, AnswerIsFresh
  <2>8. QED BY <2>3, <2>4, <2>5, <2>6, <2>7 DEF IInv
<1>5. CASE AckReceived
  <2>1. /\ Hears /\ tx' = None /\ acked' = TRUE
        /\ rx' = IF receiver'.answer = TooLong THEN None ELSE receiver'.answer
    BY <1>5 DEF AckReceived
  <2>2. HearsHolds BY <1>1, <2>1, HearsKeeps
  <2>3. rx' \in {None, delivered'} BY <2>1, <2>2 DEF HearsHolds
  <2>4. delivered' \in 1..MaxSent BY <2>2 DEF HearsHolds, IInv, TypeOK
  <2>5. TypeOK' BY <1>1, <2>1, <2>2, <2>3, <2>4 DEF IInv, TypeOK, HearsHolds
  <2>6. Identifiers' BY <1>1, <2>2 DEF HearsHolds, IInv, Identifiers
  <2>7. UnderWay' /\ Answered' BY <2>1, <2>2 DEF HearsHolds, UnderWay, Answered
  <2>8. AtMostOnce' /\ AckedIsDelivered' /\ AnswerIsFresh'
    BY <1>1, <2>1, <2>2, <2>3 DEF HearsHolds, AtMostOnce, AckedIsDelivered, AnswerIsFresh
  <2>9. QED BY <2>5, <2>6, <2>7, <2>8 DEF IInv
<1>6. QED BY <1>3, <1>4, <1>5

\* A receiver that moves keeps what it has heard.
LEMMA ReceiverMovesHolds ==
  ASSUME IInv, ReceiverMoves
  PROVE  IInv'
<1> USE RadioNumbers DEF driverVars, ghostVars
<1>1. PICK c \in Channels, a \in Addresses :
        receiver' = [receiver EXCEPT !.channel = c, !.hw = HwAddress(a, Confirmed)]
  BY DEF ReceiverMoves
<1>2. receiver \in [channel : Channels, hw : AirConfirmed,
                    pid : 0..3, payload : Payloads \cup {None}, answer : Answers]
  BY DEF IInv, TypeOK, AirConfirmed
<1>3. receiver' \in [channel : Channels, hw : AirConfirmed,
                     pid : 0..3, payload : Payloads \cup {None}, answer : Answers]
  BY <1>1, <1>2, AirSettings
<1>4. /\ receiver'.pid = receiver.pid /\ receiver'.payload = receiver.payload
      /\ receiver'.answer = receiver.answer
  BY <1>1, <1>2
<1>5. TypeOK' BY <1>3 DEF IInv, TypeOK, ReceiverMoves, AirConfirmed
<1>6. Identifiers' /\ UnderWay' /\ Answered'
  BY <1>4 DEF IInv, Identifiers, UnderWay, Answered, ReceiverMoves
<1>7. AtMostOnce' /\ AckedIsDelivered' /\ AnswerIsFresh'
  BY DEF IInv, AtMostOnce, AckedIsDelivered, AnswerIsFresh, ReceiverMoves
<1>8. QED BY <1>5, <1>6, <1>7 DEF IInv

\* Every step keeps the invariant.
LEMMA StepHolds == IInv /\ [Next]_vars => IInv'
<1> SUFFICES ASSUME IInv, [Next]_vars PROVE IInv'
  OBVIOUS
<1> USE RadioNumbers
<1>1. CASE TransmitPayload
  <2>1. PICK p \in Payloads : NewPacket(p, retransmitCount + 1)
    BY <1>1 DEF TransmitPayload
  <2>2. retransmitCount \in Nat BY DEF IInv, TypeOK
  <2>3. channel' \in Channels \cup {None} BY <1>1 DEF TransmitPayload, IInv, TypeOK
  <2>4. QED BY <1>1, <2>1, <2>2, <2>3, NewPacketHolds DEF TransmitPayload
<1>2. CASE Probe
  <2>1. PICK p \in Payloads : NewPacket(p, 1) BY <1>2 DEF Probe
  <2>2. retransmitCount \in Nat BY DEF IInv, TypeOK
  <2>3. QED BY <1>2, <2>1, <2>2, NewPacketHolds DEF Probe
<1>3. CASE PacketLost \/ AckLost \/ AckDamaged \/ AckReceived
  BY <1>3, AttemptHolds
<1>4. CASE ReceiverMoves
  BY <1>4, ReceiverMovesHolds
<1>5. CASE ConfigureUnifying \/ SetAddress \/ SetChannel \/ SetRetries \/ ReceivePayload
             \/ RadioTest \/ NextEncoding \/ RadioTestDone
  BY <1>5, CallHolds
<1>6. CASE UNCHANGED vars
  BY <1>6 DEF vars, driverVars, ghostVars, IInv, TypeOK, Identifiers, UnderWay, Answered,
              AtMostOnce, AckedIsDelivered, AnswerIsFresh
<1>7. QED BY <1>1, <1>2, <1>3, <1>4, <1>5, <1>6 DEF Next

\* The invariant holds throughout.
LEMMA Invariance == Spec => []IInv
BY InitHolds, StepHolds, PTL DEF Spec

\* The fields of the driver keep their ranges, the two bits of pid among them
\* (esb_radio.rs, EsbRadio).
THEOREM RadioTypeCorrect == Spec => []TypeOK
<1>1. IInv => TypeOK BY DEF IInv
<1>2. QED BY Invariance, <1>1, PTL

\* However many attempts transmit_payload makes and whichever acknowledgements are lost, the
\* receiver takes a packet for a new one at most once, for every number of retries.
THEOREM NoDuplicate == Spec => []AtMostOnce
<1>1. IInv => AtMostOnce BY DEF IInv
<1>2. QED BY Invariance, <1>1, PTL

\* Ok(true) of transmit_payload means that the receiver has this very packet, unless it has
\* missed at least the three before it.
THEOREM AckMeansDelivered == Spec => []AckedIsDelivered
<1>1. IInv => AckedIsDelivered BY DEF IInv
<1>2. QED BY Invariance, <1>1, PTL

\* An answer that payload_available reports belongs to the packet just acknowledged.
THEOREM AnswersFresh == Spec => []AnswerIsFresh
<1>1. IInv => AnswerIsFresh BY DEF IInv
<1>2. QED BY Invariance, <1>1, PTL
=============================================================================

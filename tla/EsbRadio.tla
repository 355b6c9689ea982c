------------------------------ MODULE EsbRadio ------------------------------
(***************************************************************************)
(* The radio driver of app/src/esb_radio.rs, a primary transmitter, and the *)
(* receiver it talks to.                                                    *)
(*                                                                         *)
(* transmit_payload sends a packet with a new 2-bit identifier and repeats  *)
(* it, identifier and all, until an acknowledgement comes back or the       *)
(* attempts are used up.  The packet or the acknowledgement may be lost; a  *)
(* receiver whose acknowledgement was lost gets the packet again and knows  *)
(* it by its identifier and contents.  An acknowledgement may carry an      *)
(* answer.                                                                  *)
(*                                                                         *)
(* The protocol library, whose source is not in the repository, calls the   *)
(* driver through the trait UnifyingRadio in any order; URADIOTEST of       *)
(* app/src/main.rs calls it directly.  A call of the driver blocks, so      *)
(* between two attempts only the receiver moves.                            *)
(***************************************************************************)
EXTENDS Naturals

CONSTANTS
  Payloads,        \* contents of packets
  Channels,        \* channels in use
  RetryCounts,     \* values set_retries is called with
  DeviceAddress,   \* addresses are sequences of five bytes
  PairingAddress,
  MaxSent,         \* bound on the number of packets
  TooLong,         \* an answer longer than MAX_PAYLOAD_LEN
  None

ASSUME RadioNumbers ==
  /\ RetryCounts \subseteq Nat /\ RetryCounts # {}
  /\ MaxSent \in Nat
  /\ Channels # {} /\ Payloads # {}
  /\ None \notin Nat \cup Payloads \cup {TooLong}
  /\ TooLong \notin Nat

VARIABLES
  pid, retransmitCount, channel, encoding,  \* fields and registers of the driver
  hw,         \* BASE0 and PREFIX0, None after the radio was powered off
  rx,         \* the answer that rx_len and rx_buf hold, None when rx_len is 0
  tx,         \* the packet being sent and the attempts left, or None
  test,       \* the encoding URADIOTEST has got to, None when it does not run
  receiver,   \* [channel, hw, pid, payload, answer]
  sent,       \* packets begun so far
  acked,      \* whether the last of them was acknowledged
  delivered,  \* the last packet the receiver took for a new one, 0 before the first
  copies      \* how often it did

driverVars == <<pid, retransmitCount, channel, encoding, hw, rx>>
ghostVars  == <<sent, acked, delivered, copies>>
vars == <<driverVars, tx, test, receiver, ghostVars>>
-----------------------------------------------------------------------------
\* u8::reverse_bits
ReverseBits(b) ==
  LET bit(i) == (b \div (2 ^ i)) % 2
  IN  128 * bit(0) + 64 * bit(1) + 32 * bit(2) + 16 * bit(3)
        + 8 * bit(4) + 4 * bit(5) + 2 * bit(6) + bit(7)

\* The bytes of an address that hw_address puts into BASE0, in the order they go on
\* air, and into PREFIX0, for each encoding.
BaseBytes   == [e \in 0..3 |-> CASE e = 0 -> <<5, 4, 3, 2>> [] e = 1 -> <<4, 3, 2, 1>>
                                 [] e = 2 -> <<1, 2, 3, 4>> [] e = 3 -> <<2, 3, 4, 5>>]
PrefixByte  == [e \in 0..3 |-> CASE e = 0 -> 1 [] e = 1 -> 5 [] e = 2 -> 5 [] e = 3 -> 1]

HwAddress(a, e) == [base   |-> [i \in 1..4 |-> ReverseBits(a[BaseBytes[e][i]])],
                    prefix |-> ReverseBits(a[PrefixByte[e]])]

Encodings == 0..3                      \* ADDR_ENCODINGS

\* The one that real receivers answer to: the value of EsbRadio::new.
Confirmed == 1

Addresses == {DeviceAddress, PairingAddress}

\* An acknowledgement without an answer, with one, or with one longer than a payload.
Answers == {None, TooLong} \cup 1..MaxSent

\* Every field keeps its width (two bits of pid), an answer is one the driver can hold, and
\* attempts never run out unnoticed.
TypeOK ==
  /\ pid \in 0..3
  /\ retransmitCount \in RetryCounts \cup {15}
  /\ channel \in Channels \cup {None}
  /\ encoding \in Encodings
  /\ hw \in {HwAddress(a, e) : a \in Addresses, e \in Encodings} \cup {None}
  /\ rx \in {None} \cup 1..MaxSent
  /\ tx = None \/ tx \in [payload : Payloads, left : 1..(retransmitCount + 1)]
  /\ test \in Encodings \cup {None}
  /\ receiver \in [channel : Channels, hw : {HwAddress(a, Confirmed) : a \in Addresses},
                   pid : 0..3, payload : Payloads \cup {None}, answer : Answers]
  /\ sent \in 0..MaxSent /\ delivered \in 0..sent /\ copies \in Nat
  /\ acked \in BOOLEAN

Init ==
  /\ pid = 0 /\ retransmitCount = 15
  /\ channel = None /\ hw = None
  /\ encoding = Confirmed
  /\ rx = None /\ tx = None /\ test = None
  /\ \E c \in Channels, a \in Addresses :
       receiver = [channel |-> c, hw |-> HwAddress(a, Confirmed), pid |-> 0,
                   payload |-> None, answer |-> None]
  /\ sent = 0 /\ acked = FALSE /\ delivered = 0 /\ copies = 0
-----------------------------------------------------------------------------
(* Calls of the library *)

Idle == tx = None

LibraryCalls ==
  /\ Idle /\ test = None
  /\ UNCHANGED <<tx, test, receiver, ghostVars>>

\* configure_unifying powers the radio off and on, which resets its registers; the fields of
\* the driver, pid and addr_encoding among them, stay as they are.
ConfigureUnifying ==
  /\ LibraryCalls
  /\ channel' = None /\ hw' = None /\ rx' = None
  /\ UNCHANGED <<pid, retransmitCount, encoding>>

\* set_address encodes with the variant selected at the time.
SetAddress ==
  /\ LibraryCalls
  /\ \E a \in Addresses : hw' = HwAddress(a, encoding)
  /\ UNCHANGED <<pid, retransmitCount, channel, encoding, rx>>

SetChannel ==
  /\ LibraryCalls
  /\ channel' \in Channels
  /\ UNCHANGED <<pid, retransmitCount, encoding, hw, rx>>

SetRetries ==
  /\ LibraryCalls
  /\ retransmitCount' \in RetryCounts
  /\ UNCHANGED <<pid, channel, encoding, hw, rx>>

\* receive_payload hands the answer over.
ReceivePayload ==
  /\ LibraryCalls
  /\ rx # None /\ rx' = None
  /\ UNCHANGED <<pid, retransmitCount, channel, encoding, hw>>

\* Mutant: the identifier has one bit.
NextPidOneBit == (pid + 1) % 2

\* Mutant: it wraps after five values, and spills into the next field.
NextPidWide == (pid + 1) % 5

\* The identifier of a new packet.
NextPid == (pid + 1) % 4

\* Mutant: an answer nobody fetched outlives the packet it answered.
ForgetAnswerLater == UNCHANGED rx

\* A new packet voids the answer to an earlier one.
ForgetAnswer == rx' = None

\* What transmit_payload and probe_once do before the first attempt.
NewPacket(p, attempts) ==
  /\ sent < MaxSent
  /\ pid' = NextPid
  /\ tx' = [payload |-> p, left |-> attempts]
  /\ ForgetAnswer
  /\ sent' = sent + 1 /\ acked' = FALSE

\* The library has set an address and a channel.
TransmitPayload ==
  /\ Idle /\ test = None
  /\ hw # None /\ channel # None
  /\ \E p \in Payloads : NewPacket(p, retransmitCount + 1)
  /\ UNCHANGED <<retransmitCount, channel, encoding, hw, test, receiver, delivered, copies>>
-----------------------------------------------------------------------------
(* URADIOTEST *)

\* configure_radio of the library comes before, as ConfigureUnifying and SetAddress; then the
\* first encoding.
RadioTest ==
  /\ Idle /\ test = None
  /\ test' = 0 /\ encoding' = 0
  /\ hw' = HwAddress(PairingAddress, 0)
  /\ UNCHANGED <<pid, retransmitCount, channel, rx, tx, receiver, ghostVars>>

\* A probe on one of the channels: one attempt.  Any number of them stands for the sweeps.
Probe ==
  /\ Idle /\ test # None
  /\ channel' \in Channels
  /\ \E p \in Payloads : NewPacket(p, 1)
  /\ UNCHANGED <<retransmitCount, encoding, hw, test, receiver, delivered, copies>>

NextEncoding ==
  /\ Idle /\ test # None /\ test < 3
  /\ test' = test + 1 /\ encoding' = test + 1
  /\ hw' = HwAddress(PairingAddress, test + 1)
  /\ UNCHANGED <<pid, retransmitCount, channel, rx, tx, receiver, ghostVars>>

RadioTestDone ==
  /\ Idle /\ test = 3
  /\ test' = None
  /\ UNCHANGED <<driverVars, tx, receiver, ghostVars>>
-----------------------------------------------------------------------------
(* One attempt: tx_once *)

\* The attempt failed: the next one, or Ok(false).
Fails ==
  /\ tx' = IF tx.left > 1 THEN [tx EXCEPT !.left = @ - 1] ELSE None
  /\ UNCHANGED acked

\* Mutant: every attempt has an identifier of its own.
PidOfAttempt == (pid + tx.left) % 4

\* The identifier that goes on air: tx_buf is not touched between attempts.
PidOnAir == pid

\* The receiver hears the packet, on its channel and with its address.  It takes it for a
\* repetition if identifier and contents are those of the last one it took, and repeats
\* its acknowledgement; otherwise it hands the packet on.
Hears ==
  /\ channel = receiver.channel /\ hw = receiver.hw
  /\ IF receiver.payload = tx.payload /\ receiver.pid = PidOnAir
       THEN UNCHANGED <<receiver, delivered, copies>>
       ELSE /\ \E a \in {None, TooLong, sent} :
                 receiver' = [receiver EXCEPT !.pid = PidOnAir, !.payload = tx.payload,
                                              !.answer = a]
            /\ delivered' = sent
            /\ copies' = IF delivered = sent THEN copies + 1 ELSE 1

Attempt ==
  /\ tx # None
  /\ UNCHANGED <<pid, retransmitCount, channel, encoding, hw, test, sent>>

\* The packet is lost, or nobody listens.
PacketLost ==
  /\ Attempt /\ Fails
  /\ UNCHANGED <<rx, receiver, delivered, copies>>

\* No END within ACK_WAIT_US.
AckLost ==
  /\ Attempt /\ Hears /\ Fails
  /\ UNCHANGED rx

\* A frame with a bad checksum.
AckDamaged ==
  /\ Attempt /\ Hears /\ Fails
  /\ rx' = None

\* Ok(true), with the answer if there is one of a length that fits.
AckReceived ==
  /\ Attempt /\ Hears
  /\ tx' = None /\ acked' = TRUE
  /\ rx' = IF receiver'.answer = TooLong THEN None ELSE receiver'.answer

\* The receiver hops, or enters or leaves pairing mode.
ReceiverMoves ==
  /\ \E c \in Channels, a \in Addresses :
       receiver' = [receiver EXCEPT !.channel = c, !.hw = HwAddress(a, Confirmed)]
  /\ UNCHANGED <<driverVars, tx, test, ghostVars>>

Next ==
  \/ ConfigureUnifying \/ SetAddress \/ SetChannel \/ SetRetries \/ ReceivePayload
  \/ TransmitPayload
  \/ RadioTest \/ Probe \/ NextEncoding \/ RadioTestDone
  \/ PacketLost \/ AckLost \/ AckDamaged \/ AckReceived
  \/ ReceiverMoves

Spec == Init /\ [][Next]_vars
-----------------------------------------------------------------------------
(* Properties *)

\* However many attempts a packet takes, and wherever its acknowledgements get lost, the
\* receiver takes it for a new one at most once (esb_radio.rs, one identifier per packet).
AtMostOnce == copies <= 1

\* Ok(true) means that the receiver has this packet, not that it took it for a repetition
\* of an older one; only when the three packets before it were all lost can the two-bit
\* identifier have come round.
AckedIsDelivered == acked => delivered = sent \/ sent >= delivered + 4

\* The answer the library is offered is one to the packet it has just sent: it was
\* acknowledged, and the receiver had that packet, or one it cannot tell from it
\* (payload_available after a failed transmission finds nothing).
AnswerIsFresh == rx # None => acked /\ rx = delivered
=============================================================================

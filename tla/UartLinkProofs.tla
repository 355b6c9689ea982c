--------------------------- MODULE UartLinkProofs ---------------------------
(***************************************************************************)
(* Proofs about UartLink, for every set of chunks and every limit.  The     *)
(* invariant relates the parser to the line on the wire: it holds exactly   *)
(* that line, or discards it for a reason; while a change of session is not *)
(* noticed yet, the parser still shows whether a part of the line was read. *)
(* The second half is about what the loops of the parser compute, for       *)
(* lines and numbers of any length, by induction on the rounds of a loop.   *)
(***************************************************************************)
EXTENDS UartLink, SequenceTheorems, WellFoundedInduction, TLAPS

\* The parser has the whole line, or drops what is not whole.
Follows ==
  /\ parser.discard => ~intact \/ Unclean(text) \/ lost
  /\ ~parser.discard => intact /\ ~Unclean(text) /\ ~lost /\ parser.line = text

\* A change of session that the parser does not know of yet.
Behind ==
  /\ packet = <<>>
  /\ intact => text = <<>> /\ parser.line = <<>> /\ (parser.discard <=> lost)
  /\ ~intact => parser.line # <<>> \/ parser.discard

IInv ==
  /\ TypeOK
  /\ ~stale => Follows
  /\ stale => Behind

\* The empty line is clean.
LEMMA EmptyIsClean == ~Unclean(<<>>)
BY LinkNumbers DEF Unclean

\* Append leaves the elements before the last alone.
LEMMA AppendElements ==
  ASSUME NEW S, NEW t \in Seq(S), NEW b \in S
  PROVE  \A i \in 1..Len(t) : Append(t, b)[i] = t[i]
BY AppendProperties

\* One more byte makes a clean line unclean if it is a control byte or one too many.
LEMMA AppendClean ==
  ASSUME NEW t \in Seq(STRING), NEW b \in STRING, ~Unclean(t)
  PROVE  Unclean(Append(t, b)) <=> Len(t) >= LineLimit \/ b = Bad
<1> DEFINE u == Append(t, b)
<1>1. /\ Len(u) = Len(t) + 1 /\ DOMAIN u = 1..(Len(t) + 1) /\ Len(t) \in Nat
      /\ \A i \in 1..Len(t) : u[i] = t[i]
      /\ u[Len(t) + 1] = b
      /\ DOMAIN t = 1..Len(t)
  <2>1. u \in Seq(STRING) /\ Len(u) = Len(t) + 1 BY AppendProperties
  <2>2. DOMAIN u = 1..(Len(t) + 1) /\ DOMAIN t = 1..Len(t) /\ Len(t) \in Nat
    BY <2>1, LenProperties
  <2>3. \A i \in 1..Len(t) : u[i] = t[i] BY AppendElements
  <2>4. u[Len(t) + 1] = b BY AppendProperties, Zenon
  <2>5. QED BY <2>1, <2>2, <2>3, <2>4
<1> HIDE DEF u
<1>2. ASSUME Len(t) >= LineLimit \/ b = Bad PROVE Unclean(u)
  <2>1. CASE Len(t) >= LineLimit BY <1>1, <2>1, LinkNumbers DEF Unclean
  <2>2. CASE b = Bad
    <3>1. Len(t) + 1 \in DOMAIN u BY <1>1
    <3>2. u[Len(t) + 1] = Bad BY <1>1, <2>2
    <3>3. QED BY <3>1, <3>2 DEF Unclean
  <2>3. QED BY <1>2, <2>1, <2>2
<1>3. ASSUME Unclean(u), ~(Len(t) >= LineLimit) PROVE b = Bad
  <2>1. ~(Len(u) > LineLimit) BY <1>1, <1>3, LinkNumbers
  <2>2. PICK i \in DOMAIN u : u[i] = Bad BY <1>3, <2>1 DEF Unclean
  <2>3. i \notin DOMAIN t
    <3>1. ASSUME i \in DOMAIN t PROVE FALSE
      <4>1. t[i] = Bad BY <1>1, <2>2, <3>1
      <4>2. QED BY <3>1, <4>1 DEF Unclean
    <3>2. QED BY <3>1
  <2>4. i = Len(t) + 1 BY <1>1, <2>2, <2>3
  <2>5. QED BY <1>1, <2>2, <2>4
<1>4. QED BY <1>2, <1>3 DEF u

\* The fields of the two parsers that no byte has reached.
LEMMA EmptyParsers ==
  /\ Fresh \in [line : Seq(STRING), discard : BOOLEAN]
  /\ Damaged \in [line : Seq(STRING), discard : BOOLEAN]
  /\ Fresh.line = <<>> /\ Fresh.discard = FALSE
  /\ Damaged.line = <<>> /\ Damaged.discard = TRUE
BY DEF Fresh, Damaged

\* The initial state satisfies the invariant.
LEMMA InitHolds == Init => IInv
<1> SUFFICES ASSUME Init PROVE IInv
  OBVIOUS
<1>1. TypeOK
  <2>1. /\ parser \in [line : Seq(STRING), discard : BOOLEAN]
        /\ Len(parser.line) <= LineLimit /\ parser.line = <<>>
    BY EmptyParsers, LinkNumbers DEF Init
  <2>2. ring \in Seq(STRING) /\ packet \in Seq(STRING) /\ text \in Seq(STRING) BY DEF Init
  <2>3. stale \in BOOLEAN /\ lost \in BOOLEAN /\ intact \in BOOLEAN BY DEF Init
  <2>5. before \in Nat /\ begun \in BOOLEAN BY DEF Init
  <2>4. QED BY <2>1, <2>2, <2>3, <2>5 DEF TypeOK
<1>2. Follows BY EmptyParsers, EmptyIsClean DEF Init, Follows
<1>3. QED BY <1>1, <1>2 DEF Init, IInv

\* What a step leaves of a packet is a packet.
LEMMA PacketRest ==
  ASSUME packet \in Seq(STRING), packet # <<>>
  PROVE  Tail(packet) \in Seq(STRING) /\ Head(packet) \in STRING
OBVIOUS

\* Bytes taken from the unread ones, and what is left of the ring.
LEMMA BytesTaken ==
  ASSUME before \in Nat, NEW n \in Nat, Taken(n)
  PROVE  before' \in Nat
BY DEF Taken

LEMMA RingRest ==
  ASSUME ring \in Seq(STRING), NEW n \in 1..Len(ring)
  PROVE  /\ SubSeq(ring, 1, n) \in Seq(STRING)
         /\ SubSeq(ring, 1, n) # <<>>
         /\ Last(SubSeq(ring, 1, n)) = ring[n]
         /\ SubSeq(ring, n + 1, Len(ring)) \in Seq(STRING)
<1>1. PICK m \in Nat : m = Len(ring) OBVIOUS
<1>2. SubSeq(ring, 1, n) \in Seq(STRING) /\ Len(SubSeq(ring, 1, n)) = n BY <1>1
<1>3. SubSeq(ring, 1, n)[n] = ring[n] BY <1>1
<1>4. SubSeq(ring, 1, n) # <<>> BY <1>2
<1>5. Last(SubSeq(ring, 1, n)) = ring[n] BY <1>2, <1>3 DEF Last
<1>6. SubSeq(ring, n + 1, Len(ring)) \in Seq(STRING) BY <1>1
<1>7. QED BY <1>2, <1>4, <1>5, <1>6

\* After a step that ends with an empty parser the types are right.
LEMMA EmptyTypes ==
  ASSUME parser' \in {Fresh, Damaged}, ring' \in Seq(STRING), packet' \in Seq(STRING),
         text' = <<>>, stale' \in BOOLEAN, lost' \in BOOLEAN, intact' \in BOOLEAN,
         before' \in Nat, begun' \in BOOLEAN
  PROVE  TypeOK'
<1>1. /\ parser' \in [line : Seq(STRING), discard : BOOLEAN]
      /\ Len(parser'.line) <= LineLimit /\ parser'.line = <<>>
  BY EmptyParsers, LinkNumbers
<1>2. text' \in Seq(STRING) OBVIOUS
<1>3. QED BY <1>1, <1>2 DEF TypeOK

\* SessionChanged keeps a parser that holds nothing and was told of no bytes; otherwise it
\* empties it and discards unless the bytes end with LF.
LEMMA SessionChangedCases ==
  ASSUME NEW p, NEW c
  PROVE  \/ p.line = <<>> /\ c = <<>> /\ SessionChanged(p, c) = p
         \/ /\ p.line # <<>> \/ c # <<>>
            /\ c # <<>> /\ Last(c) = LF
            /\ SessionChanged(p, c) = Fresh
         \/ /\ p.line # <<>> \/ c # <<>>
            /\ c = <<>> \/ Last(c) # LF
            /\ SessionChanged(p, c) = Damaged
<1>1. CASE p.line = <<>> /\ c = <<>> BY <1>1 DEF SessionChanged
<1>2. CASE (p.line # <<>> \/ c # <<>>) /\ c # <<>> /\ Last(c) = LF
  <2>1. (c = <<>> \/ Last(c) # LF) = FALSE BY <1>2
  <2>2. QED BY <1>2, <2>1 DEF SessionChanged, Fresh
<1>3. CASE (p.line # <<>> \/ c # <<>>) /\ (c = <<>> \/ Last(c) # LF)
  <2>1. (c = <<>> \/ Last(c) # LF) = TRUE BY <1>3
  <2>2. QED BY <1>3, <2>1 DEF SessionChanged, Damaged
<1>4. QED BY <1>1, <1>2, <1>3

\* A byte other than LF: the parser follows the line, or begins to discard it.
LEMMA PushByteHolds ==
  ASSUME IInv, PushByte
  PROVE  IInv'
<1> DEFINE b == Head(packet)
<1>1. /\ packet # <<>> /\ b \in STRING /\ packet' = Tail(packet) /\ packet' \in Seq(STRING)
      /\ ~stale /\ stale' = stale /\ intact' = intact /\ lost' = lost
      /\ ring' = ring /\ ring \in Seq(STRING)
      /\ Follows /\ text \in Seq(STRING)
      /\ parser \in [line : Seq(STRING), discard : BOOLEAN]
      /\ Len(parser.line) <= LineLimit /\ Len(parser.line) \in Nat
      /\ parser.discard => parser.line = <<>>
      /\ parser' = Push(parser, b)
      /\ text' = IF intact /\ ~Unclean(text) THEN Append(text, b) ELSE text
  BY PacketRest DEF IInv, TypeOK, Behind, PushByte
<1> HIDE DEF b
<1>2. /\ intact' \in BOOLEAN /\ stale' \in BOOLEAN /\ lost' \in BOOLEAN
      /\ ring' \in Seq(STRING) /\ before' \in Nat /\ begun' \in BOOLEAN
  <2>1. Taken(1) /\ before \in Nat /\ begun' = (begun \/ before > 0)
    BY DEF IInv, TypeOK, PushByte
  <2>2. before' \in Nat BY <2>1, BytesTaken
  <2>3. begun' \in BOOLEAN BY <2>1
  <2>4. QED BY <1>1, <2>2, <2>3 DEF IInv, TypeOK
<1>3. text' \in Seq(STRING)
  <2>1. Append(text, b) \in Seq(STRING) BY <1>1, AppendProperties
  <2>2. QED BY <1>1, <2>1
<1>4. CASE parser.discard
  <2>1. parser' = parser BY <1>1, <1>4 DEF Push
  <2>2. ~intact \/ Unclean(text) \/ lost BY <1>1, <1>4 DEF Follows
  <2>3. ~intact \/ Unclean(text) => text' = text BY <1>1
  <2>4. Follows' BY <1>1, <1>4, <2>1, <2>2, <2>3 DEF Follows
  <2>5. TypeOK' BY <1>1, <1>2, <1>3, <2>1 DEF TypeOK
  <2>6. QED BY <1>1, <2>4, <2>5 DEF IInv
<1>5. CASE ~parser.discard /\ (~HasRoom(parser) \/ b = Bad)
  <2>1. parser' = Damaged BY <1>1, <1>5 DEF Push
  <2>2. intact /\ ~Unclean(text) /\ ~lost /\ parser.line = text BY <1>1, <1>5 DEF Follows
  <2>3. text' = Append(text, b) BY <1>1, <2>2
  <2>4. Len(text) >= LineLimit \/ b = Bad
    BY <1>1, <1>5, <2>2, LinkNumbers DEF HasRoom
  <2>5. Unclean(text') BY <1>1, <2>2, <2>3, <2>4, AppendClean
  <2>6. Follows' BY <2>1, <2>5, EmptyParsers DEF Follows
  <2>7. TypeOK' BY <1>1, <1>2, <1>3, <2>1, EmptyParsers, LinkNumbers DEF TypeOK
  <2>8. QED BY <1>1, <2>6, <2>7 DEF IInv
<1>6. CASE ~parser.discard /\ HasRoom(parser) /\ b # Bad
  <2>1. parser' = [parser EXCEPT !.line = Append(parser.line, b)] BY <1>1, <1>6 DEF Push
  <2>2. intact /\ ~Unclean(text) /\ ~lost /\ parser.line = text BY <1>1, <1>6 DEF Follows
  <2>3. text' = Append(text, b) BY <1>1, <2>2
  <2>4. ~Unclean(text')
    BY <1>1, <1>6, <2>2, <2>3, AppendClean, LinkNumbers DEF HasRoom
  <2>5. parser'.line = text' /\ parser'.discard = parser.discard BY <1>1, <2>1, <2>2, <2>3
  <2>6. Follows' BY <1>1, <1>6, <2>2, <2>4, <2>5 DEF Follows
  <2>7. parser' \in [line : Seq(STRING), discard : BOOLEAN]
    <3>1. Append(parser.line, b) \in Seq(STRING) BY <1>1, AppendProperties
    <3>2. QED BY <1>1, <2>1, <3>1
  <2>8. Len(parser'.line) <= LineLimit
    BY <1>1, <1>3, <2>4, <2>5, LinkNumbers DEF Unclean
  <2>9. TypeOK' BY <1>1, <1>2, <1>3, <1>6, <2>5, <2>7, <2>8 DEF TypeOK
  <2>10. QED BY <1>1, <2>6, <2>9 DEF IInv
<1>7. QED BY <1>4, <1>5, <1>6

\* Every step keeps the invariant.
LEMMA StepHolds == IInv /\ [Next]_vars => IInv'
<1> SUFFICES ASSUME IInv, [Next]_vars PROVE IInv'
  OBVIOUS
<1> USE EmptyParsers, EmptyIsClean
<1>0. /\ ring \in Seq(STRING) /\ packet \in Seq(STRING) /\ stale \in BOOLEAN
      /\ intact \in BOOLEAN /\ lost \in BOOLEAN /\ before \in Nat /\ begun \in BOOLEAN
      /\ text \in Seq(STRING) /\ parser \in [line : Seq(STRING), discard : BOOLEAN]
  BY DEF IInv, TypeOK
<1>1. CASE Arrive
  <2>1. PICK c \in Chunks : ring' = ring \o c BY <1>1 DEF Arrive
  <2>2. c \in Seq(STRING) BY LinkNumbers
  <2>3. ring' \in Seq(STRING) BY <1>0, <2>1, <2>2
  <2>4. UNCHANGED <<parser, packet, stale, lost, text, intact, before, begun>>
    BY <1>1 DEF Arrive
  <2>5. TypeOK' BY <2>3, <2>4 DEF IInv, TypeOK
  <2>6. ~stale => Follows' BY <2>4 DEF IInv, Follows
  <2>7. stale => Behind' BY <2>4 DEF IInv, Behind
  <2>8. QED BY <2>4, <2>5, <2>6, <2>7 DEF IInv
<1>2. CASE Read
  <2>1. PICK n \in 1..Len(ring) : /\ packet' = SubSeq(ring, 1, n)
                                  /\ ring' = SubSeq(ring, n + 1, Len(ring))
    BY <1>2 DEF Read
  <2>2. packet' \in Seq(STRING) /\ ring' \in Seq(STRING) BY <1>0, <2>1, RingRest
  <2>3. ~stale' /\ UNCHANGED <<parser, stale, lost, text, intact, before, begun>>
    BY <1>2 DEF Read
  <2>4. TypeOK' BY <2>2, <2>3 DEF IInv, TypeOK
  <2>5. Follows' BY <1>2, <2>3 DEF IInv, Follows, Read
  <2>6. QED BY <2>3, <2>4, <2>5 DEF IInv
<1>3. CASE PushByte BY <1>3, PushByteHolds
<1>4. CASE PushLf \/ PushLfFull
  <2>1. /\ packet # <<>> /\ packet' = Tail(packet) /\ Taken(1) /\ ring' = ring
        /\ stale' = stale /\ text' = <<>> /\ intact' = TRUE /\ begun' = FALSE
    BY <1>4 DEF PushLf, PushLfFull
  <2>2. ~stale' BY <1>0, <2>1 DEF IInv, Behind
  <2>3. packet' \in Seq(STRING) /\ before' \in Nat BY <1>0, <2>1, PacketRest, BytesTaken
  <2>4. (parser' = Fresh /\ lost' = FALSE) \/ (parser' = Damaged /\ lost' = TRUE)
    BY <1>4 DEF PushLf, PushLfFull
  <2>5. lost' \in BOOLEAN /\ intact' \in BOOLEAN /\ begun' \in BOOLEAN /\ stale' \in BOOLEAN
    BY <1>0, <2>1, <2>4
  <2>6. TypeOK' BY <1>0, <2>1, <2>3, <2>4, <2>5, EmptyTypes
  <2>7. Follows' BY <2>1, <2>4 DEF Follows
  <2>8. QED BY <2>2, <2>6, <2>7 DEF IInv
<1>5. CASE RxError
  <2>1. /\ packet' = <<>> /\ packet' \in Seq(STRING) /\ parser' = Damaged /\ text' = <<>>
        /\ ~intact' /\ intact' \in BOOLEAN
        /\ UNCHANGED <<ring, stale, lost, before, begun>>
    BY <1>5 DEF RxError, Waiting
  <2>2. TypeOK' BY <1>0, <2>1, EmptyTypes
  <2>3. Follows' BY <2>1 DEF Follows
  <2>4. Behind' BY <2>1 DEF Behind
  <2>5. QED BY <2>2, <2>3, <2>4 DEF IInv
<1>6. CASE SessionChange
  <2>1. /\ packet' = <<>> /\ packet' = packet /\ parser' = parser /\ ring' = ring
        /\ stale' = TRUE /\ text' = <<>> /\ intact' = (intact /\ text = <<>>) /\ lost' = lost
        /\ before' = Len(ring) /\ begun' = (begun \/ text # <<>>)
    BY <1>6 DEF SessionChange, Waiting
  <2>2. /\ intact' \in BOOLEAN /\ begun' \in BOOLEAN /\ stale' \in BOOLEAN
        /\ text' \in Seq(STRING)
    BY <2>1
  <2>3. before' \in Nat BY <1>0, <2>1
  <2>4. TypeOK' BY <2>1, <2>2, <2>3 DEF IInv, TypeOK
  <2>5. ASSUME intact' PROVE parser.line = <<>> /\ (parser.discard <=> lost)
    <3>1. intact /\ text = <<>> BY <2>1, <2>5
    <3>2. CASE stale BY <3>1, <3>2 DEF IInv, Behind
    <3>3. CASE ~stale
      <4>1. Follows BY <3>3 DEF IInv
      <4>2. CASE parser.discard
        <5>1. parser.line = <<>> BY <4>2 DEF IInv, TypeOK
        <5>2. QED BY <3>1, <4>1, <4>2, <5>1 DEF Follows
      <4>3. CASE ~parser.discard BY <3>1, <4>1, <4>3 DEF Follows
      <4>4. QED BY <4>2, <4>3
    <3>4. QED BY <3>2, <3>3
  <2>6. ASSUME ~intact' PROVE parser.line # <<>> \/ parser.discard
    <3>1. ~intact \/ text # <<>> BY <2>1, <2>6
    <3>2. QED BY <3>1 DEF IInv, Follows, Behind
  <2>7. Behind' BY <2>1, <2>5, <2>6 DEF Behind
  <2>8. QED BY <2>1, <2>4, <2>7 DEF IInv
<1>7. CASE RxCancelled
  <2>1. /\ packet = <<>> /\ stale /\ stale' = FALSE
        /\ parser' = SessionChanged(parser, <<>>)
        /\ UNCHANGED <<ring, packet, lost, text, intact, before, begun>>
    BY <1>7 DEF RxCancelled, Waiting
  <2>2. Behind BY <2>1 DEF IInv
  <2>3. stale' \in BOOLEAN BY <2>1
  <2>4. CASE parser.line = <<>>
    <3>1. parser' = parser BY <2>1, <2>4, SessionChangedCases
    <3>2. TypeOK' BY <2>1, <2>3, <3>1 DEF IInv, TypeOK
    <3>3. Follows' BY <2>1, <2>2, <2>4, <3>1 DEF Follows, Behind
    <3>4. QED BY <2>1, <3>2, <3>3 DEF IInv
  <2>5. CASE parser.line # <<>>
    <3>1. parser' = Damaged BY <2>1, <2>5, SessionChangedCases
    <3>2. TypeOK' BY <2>1, <2>3, <3>1, LinkNumbers DEF IInv, TypeOK
    <3>3. ~intact BY <2>2, <2>5 DEF Behind
    <3>4. Follows' BY <2>1, <3>1, <3>3 DEF Follows
    <3>5. QED BY <2>1, <3>2, <3>4 DEF IInv
  <2>6. QED BY <2>4, <2>5
<1>8. CASE ReadStale
  <2>1. PICK n \in 1..Len(ring) : /\ parser' = SessionChanged(parser, SubSeq(ring, 1, n))
                                  /\ ring' = SubSeq(ring, n + 1, Len(ring)) /\ Taken(n)
                                  /\ intact' = (ring[n] = LF)
    BY <1>8 DEF ReadStale
  <2>2. /\ packet' = packet /\ text' = <<>> /\ stale' = FALSE /\ lost' = FALSE
        /\ begun' = FALSE
    BY <1>8 DEF ReadStale
  <2>3. PICK c \in Seq(STRING) : c = SubSeq(ring, 1, n) /\ c # <<>> /\ Last(c) = ring[n]
    BY <1>0, RingRest
  <2>4. n \in Nat /\ before' \in Nat /\ ring' \in Seq(STRING)
    BY <1>0, <2>1, RingRest, BytesTaken
  <2>5. intact' \in BOOLEAN /\ lost' \in BOOLEAN /\ stale' \in BOOLEAN /\ begun' \in BOOLEAN
    BY <2>1, <2>2
  <2>6. (parser' = Fresh /\ intact') \/ (parser' = Damaged /\ ~intact')
    <3>1. CASE Last(c) = LF
      <4>1. SessionChanged(parser, c) = Fresh BY <2>3, <3>1, SessionChangedCases
      <4>2. QED BY <2>1, <2>3, <3>1, <4>1
    <3>2. CASE Last(c) # LF
      <4>1. SessionChanged(parser, c) = Damaged BY <2>3, <3>2, SessionChangedCases
      <4>2. QED BY <2>1, <2>3, <3>2, <4>1
    <3>3. QED BY <3>1, <3>2
  <2>7. TypeOK' BY <1>0, <2>2, <2>4, <2>5, <2>6, EmptyTypes
  <2>8. Follows' BY <2>2, <2>6 DEF Follows
  <2>9. QED BY <2>2, <2>7, <2>8 DEF IInv
<1>9. CASE UNCHANGED vars
  BY <1>9 DEF vars, IInv, TypeOK, Follows, Behind
<1>10. QED BY <1>1, <1>2, <1>3, <1>4, <1>5, <1>6, <1>7, <1>8, <1>9 DEF Next

\* The invariant holds throughout.
LEMMA Invariance == Spec => []IInv
BY InitHolds, StepHolds, PTL DEF Spec

\* The parser's line never outgrows its buffer of LINE_LIMIT bytes.
THEOREM LinkTypeCorrect == Spec => []TypeOK
<1>1. IInv => TypeOK BY DEF IInv
<1>2. QED BY Invariance, <1>1, PTL

\* Only a step that pushes LF queues a frame; it queues what the parser holds.
LEMMA FrameStep ==
  ASSUME [Next]_vars, ~UNCHANGED vars
  PROVE  \/ frame' = None
         \/ PushLf
BY DEF Next, vars, Arrive, Read, PushByte, PushLf, PushLfFull, RxError, SessionChange,
       RxCancelled, ReadStale

\* A frame is what one whole line on the wire says, for every way the bytes may come in and
\* be read, and wherever damage, a full queue or a new session falls (Parser::damaged,
\* session_changed): nothing of the line was damaged or skipped, and no part of it was read
\* before a change of session.  It may have been received, unread, before one.
THEOREM FramesAreWholeLines == Spec => OnlyWholeLines
<1> DEFINE A == frame' # None => intact /\ ~Unclean(text) /\ frame' = ParseLine(text)
<1>1. IInv /\ [Next]_vars => [A]_vars
  <2> SUFFICES ASSUME IInv, [Next]_vars, ~UNCHANGED vars, frame' # None
               PROVE  intact /\ ~Unclean(text) /\ frame' = ParseLine(text)
    OBVIOUS
  <2>1. PushLf BY FrameStep
  <2>2. ~stale BY <2>1 DEF PushLf, IInv, Behind
  <2>3. ~parser.discard /\ frame' = ParseLine(parser.line)
    BY <2>1 DEF PushLf, PushedFrame
  <2>4. QED BY <2>2, <2>3 DEF IInv, Follows
<1>2. QED BY Invariance, <1>1, PTL DEF Spec, OnlyWholeLines

\* A whole and clean line is queued, unless the queue is full, or was full when the line
\* before it ended: parser.damaged() (main.rs:721) then discards the line that follows too.
THEOREM LinesArrive == Spec => WholeLinesArrive
<1> DEFINE A == packet # <<>> /\ packet' = Tail(packet) /\ Head(packet) = LF /\ intact
                  /\ ~Unclean(text) => frame' = ParseLine(text) \/ lost' \/ lost
<1>1. IInv /\ [Next]_vars => [A]_vars
  <2> SUFFICES ASSUME IInv, [Next]_vars, ~UNCHANGED vars,
                      packet # <<>>, packet' = Tail(packet), Head(packet) = LF, intact,
                      ~Unclean(text), ~lost
               PROVE  frame' = ParseLine(text) \/ lost'
    OBVIOUS
  <2>1. ~parser.discard /\ parser.line = text BY DEF IInv, Behind, Follows
  <2>2. PushLf \/ PushLfFull
    BY DEF Next, vars, Arrive, Read, PushByte, RxError, SessionChange, RxCancelled,
           ReadStale, Waiting
  <2>3. QED BY <2>1, <2>2 DEF PushLf, PushLfFull, PushedFrame
<1>2. QED BY Invariance, <1>1, PTL DEF Spec, WholeLinesArrive
-----------------------------------------------------------------------------
(* Loops over the bytes of a line.  The library's induction theorems take an *)
(* operator; a set does instead: the smallest number outside it would have a  *)
(* predecessor inside.                                                         *)

\* A set of naturals with a member has a least one.
LEMMA NatMin ==
  ASSUME NEW T \in SUBSET Nat, T # {}
  PROVE  \E m \in T : \A k \in T : m <= k
<1> DEFINE R == OpToRel(<, Nat)
<1>1. IsWellFoundedOn(R, Nat) BY NatLessThanWellFounded
<1>2. \A x, y \in Nat : x < y => <<x, y>> \in R BY DEF OpToRel
<1> HIDE DEF R
<1>3. PICK m \in T : \A k \in T : ~(<<k, m>> \in R) BY <1>1, WFMin
<1>4. ASSUME NEW k \in T PROVE m <= k
  <2>1. m \in Nat /\ k \in Nat OBVIOUS
  <2>2. ~(k < m) BY <1>2, <1>3, <2>1
  <2>3. QED BY ONLY <2>1, <2>2
<1>5. QED BY <1>4

\* Induction, for a set.
LEMMA NatSetInduction ==
  ASSUME NEW T, 0 \in T, \A n \in Nat : n \in T => n + 1 \in T
  PROVE  Nat \subseteq T
<1>1. SUFFICES ASSUME Nat \ T # {} PROVE FALSE
  OBVIOUS
<1>2. PICK m \in Nat \ T : \A k \in Nat \ T : m <= k BY <1>1, NatMin
<1>3. m # 0 /\ m - 1 \in Nat /\ (m - 1) + 1 = m OBVIOUS
<1>4. m - 1 \in T BY <1>2, <1>3
<1>5. QED BY <1>2, <1>3, <1>4

\* f is what a loop over 1..n computes, begun with base.
IsLoop(f, n, V, base, step) ==
  /\ f \in [0..n -> V] /\ f[0] = base
  /\ \A k \in 1..n : f[k] = step[k][f[k - 1]]

\* One more round.
LEMMA LoopGoesOn ==
  ASSUME NEW V, NEW n \in Nat, NEW base \in V, NEW step \in [1..(n + 1) -> [V -> V]],
         NEW f, IsLoop(f, n, V, base, step),
         NEW g, g = [k \in 0..(n + 1) |-> IF k = n + 1 THEN step[n + 1][f[n]] ELSE f[k]]
  PROVE  IsLoop(g, n + 1, V, base, step)
<1>1. f \in [0..n -> V] /\ f[0] = base /\ \A k \in 1..n : f[k] = step[k][f[k - 1]]
  BY DEF IsLoop
<1>2. n + 1 \in 1..(n + 1) /\ f[n] \in V BY <1>1
<1>3. step[n + 1][f[n]] \in V BY <1>2
<1>4. g \in [0..(n + 1) -> V] /\ g[0] = base BY <1>1, <1>3
<1>5. ASSUME NEW k \in 1..(n + 1) PROVE g[k] = step[k][g[k - 1]]
  <2>1. CASE k = n + 1
    <3>1. k - 1 = n /\ n \in 0..(n + 1) /\ n # n + 1 /\ k \in 0..(n + 1) BY <2>1
    <3>2. g[k] = step[k][f[n]] /\ g[k - 1] = f[n] BY <2>1, <3>1
    <3>3. QED BY <3>2
  <2>2. CASE k # n + 1
    <3>1. k \in 1..n /\ k - 1 \in 0..(n + 1) /\ k - 1 # n + 1 /\ k \in 0..(n + 1) BY <2>2
    <3>2. g[k] = f[k] /\ g[k - 1] = f[k - 1] BY <2>2, <3>1
    <3>3. QED BY <1>1, <3>1, <3>2
  <2>3. QED BY <2>1, <2>2
<1>6. QED BY <1>4, <1>5 DEF IsLoop

\* Every loop ends.
LEMMA LoopExists ==
  ASSUME NEW V, NEW n \in Nat, NEW base \in V, NEW step \in [1..n -> [V -> V]]
  PROVE  \E f : IsLoop(f, n, V, base, step)
<1> DEFINE T == {m \in Nat : m <= n => \E f : IsLoop(f, m, V, base, step)}
<1>1. 0 \in T
  <2>1. IsLoop([k \in 0..0 |-> base], 0, V, base, step) BY DEF IsLoop
  <2>2. QED BY <2>1
<1>2. ASSUME NEW m \in Nat, m \in T PROVE m + 1 \in T
  <2>1. SUFFICES ASSUME m + 1 <= n PROVE \E f : IsLoop(f, m + 1, V, base, step)
    OBVIOUS
  <2>2. m <= n BY <2>1
  <2>3. PICK f : IsLoop(f, m, V, base, step) BY <1>2, <2>2
  <2> DEFINE part == [k \in 1..(m + 1) |-> step[k]]
             g == [k \in 0..(m + 1) |-> IF k = m + 1 THEN part[m + 1][f[m]] ELSE f[k]]
  <2>4. \A k \in 1..(m + 1) : k \in 1..n BY <2>1
  <2>5. part \in [1..(m + 1) -> [V -> V]] /\ \A k \in 1..(m + 1) : part[k] = step[k] BY <2>4
  <2>6. \A k \in 1..m : k \in 1..(m + 1) OBVIOUS
  <2> HIDE DEF part
  <2>7. IsLoop(f, m, V, base, part) BY <2>3, <2>5, <2>6 DEF IsLoop
  <2>8. IsLoop(g, m + 1, V, base, part) BY <2>5, <2>7, LoopGoesOn
  <2> HIDE DEF g
  <2>9. IsLoop(g, m + 1, V, base, step) BY <2>5, <2>8 DEF IsLoop
  <2>10. QED BY <2>9
<1>3. n \in T
  <2> HIDE DEF T
  <2>1. Nat \subseteq T BY <1>1, <1>2, NatSetInduction
  <2>2. QED BY <2>1
<1>4. QED BY <1>3
-----------------------------------------------------------------------------
(* What the loops of UartLink compute *)

\* A digit is a number, and an upper-case one is the digit of its number.
LEMMA HexDigits ==
  /\ \A b : IsHex(b) => Hex(b) \in Nat
  /\ \A b : IsUpper(b) => IsHex(b) /\ Hex(b) \in 0..15 /\ Upper[Hex(b) + 1] = b
<1>1. ASSUME NEW b, IsUpper(b) PROVE Hex(b) \in 0..15 /\ Upper[Hex(b) + 1] = b
  <2> DEFINE i == CHOOSE j \in 1..16 : Upper[j] = b
  <2>1. \E j \in 1..16 : Upper[j] = b BY <1>1 DEF IsUpper
  <2>2. i \in 1..16 /\ Upper[i] = b BY <2>1, Zenon
  <2>3. Hex(b) = i - 1 BY <1>1 DEF Hex
  <2> HIDE DEF i
  <2>4. i - 1 \in 0..15 /\ (i - 1) + 1 = i BY <2>2
  <2>5. QED BY <2>2, <2>3, <2>4
<1>2. ASSUME NEW b, IsHex(b), ~IsUpper(b) PROVE Hex(b) \in Nat
  <2> DEFINE i == CHOOSE j \in 1..6 : Lower[j] = b
  <2>1. \E j \in 1..6 : Lower[j] = b BY <1>2 DEF IsHex
  <2>2. i \in 1..6 BY <2>1, Zenon
  <2>3. Hex(b) = i + 9 BY <1>2 DEF Hex
  <2> HIDE DEF i
  <2>4. QED BY <2>2, <2>3
<1>3. QED BY <1>1, <1>2 DEF IsHex

\* Value adds the digits up from the left.
LEMMA ValueLoop ==
  ASSUME NEW d \in Seq(STRING), AllHex(d)
  PROVE  \E v \in [0..Len(d) -> Nat] :
           /\ v[0] = 0
           /\ \A k \in 1..Len(d) : v[k] = 16 * v[k - 1] + Hex(d[k])
           /\ Value(d) = v[Len(d)]
<1> DEFINE n == Len(d)
           step == [k \in 1..n |-> [x \in Nat |-> 16 * x + Hex(d[k])]]
           v[k \in 0..n] == IF k = 0 THEN 0 ELSE 16 * v[k - 1] + Hex(d[k])
<1>1. n \in Nat /\ \A k \in 1..n : Hex(d[k]) \in Nat
  BY HexDigits DEF AllHex
<1>2. step \in [1..n -> [Nat -> Nat]]
  <2> HIDE DEF n
  <2>1. QED BY <1>1
<1>3. PICK f : IsLoop(f, n, Nat, 0, step)
  <2> HIDE DEF step, n
  <2>1. QED BY <1>1, <1>2, LoopExists
<1>4. f \in [0..n -> Nat] /\ f[0] = 0 /\ \A k \in 1..n : f[k] = 16 * f[k - 1] + Hex(d[k])
  <2>1. f \in [0..n -> Nat] /\ f[0] = 0 /\ \A k \in 1..n : f[k] = step[k][f[k - 1]]
    <3> HIDE DEF n, step
    <3>1. QED BY <1>3 DEF IsLoop
  <2> HIDE DEF n
  <2>2. \A k \in 1..n : f[k - 1] \in Nat BY <1>1, <2>1
  <2>3. QED BY <2>1, <2>2
<1>5. f = [k \in 0..n |-> IF k = 0 THEN 0 ELSE 16 * f[k - 1] + Hex(d[k])]
  <2> HIDE DEF n
  <2>1. \A k \in 0..n : k = 0 \/ k \in 1..n BY <1>1
  <2>2. QED BY <1>4, <2>1
<1>6. v = [k \in 0..n |-> IF k = 0 THEN 0 ELSE 16 * v[k - 1] + Hex(d[k])]
  BY <1>5
<1>7. Value(d) = v[n] BY DEF Value
<1> HIDE DEF v, n
<1>8. v[0] = 0 /\ \A k \in 1..n : v[k] = 16 * v[k - 1] + Hex(d[k])
  <2>1. 0 \in 0..n /\ \A k \in 1..n : k \in 0..n /\ k # 0 BY <1>1
  <2>2. QED BY <1>6, <2>1
<1>9. \A k \in 0..n : v[k] \in Nat
  <2> DEFINE T == {k \in Nat : k \in 0..n => v[k] \in Nat}
  <2>1. 0 \in T BY <1>8
  <2>2. ASSUME NEW k \in Nat, k \in T PROVE k + 1 \in T
    <3>1. SUFFICES ASSUME k + 1 \in 0..n PROVE v[k + 1] \in Nat
      OBVIOUS
    <3>2. k \in 0..n /\ k + 1 \in 1..n /\ (k + 1) - 1 = k BY <1>1, <3>1
    <3>3. v[k] \in Nat /\ Hex(d[k + 1]) \in Nat BY <1>1, <2>2, <3>2
    <3>4. v[k + 1] = 16 * v[k] + Hex(d[k + 1]) BY <1>8, <3>2
    <3>5. QED BY <3>3, <3>4
  <2> HIDE DEF T
  <2>3. Nat \subseteq T BY <2>1, <2>2, NatSetInduction
  <2>4. QED BY <2>3 DEF T
<1>10. v \in [0..n -> Nat] BY <1>6, <1>9
<1>11. QED BY <1>7, <1>8, <1>10 DEF n

\* The value of a token of hexadecimal digits is a number.
LEMMA HexByteNumber ==
  ASSUME NEW token \in Seq(STRING), HexByte(token) # None
  PROVE  HexByte(token) \in Nat /\ Len(token) \in 1..2
<1>1. Len(token) \in 1..2 /\ AllHex(token) /\ HexByte(token) = Value(token) BY DEF HexByte
<1>2. PICK v \in [0..Len(token) -> Nat] : Value(token) = v[Len(token)] BY <1>1, ValueLoop
<1>3. Len(token) \in 0..Len(token) OBVIOUS
<1>4. v[Len(token)] \in Nat BY <1>2, <1>3
<1>5. QED BY <1>1, <1>2, <1>4

\* Shifted divides by sixteen, n times.
LEMMA ShiftedLoop ==
  ASSUME NEW number \in Nat, NEW n \in Nat
  PROVE  \E left \in [0..n -> Nat] :
           /\ left[0] = number
           /\ \A k \in 1..n : left[k] = left[k - 1] \div 16
           /\ Shifted(number, n) = left[n]
<1> DEFINE step == [k \in 1..n |-> [x \in Nat |-> x \div 16]]
           left[k \in 0..n] == IF k = 0 THEN number ELSE left[k - 1] \div 16
<1>1. step \in [1..n -> [Nat -> Nat]]
  <2>1. \A x \in Nat : x \div 16 \in Nat OBVIOUS
  <2>2. QED BY <2>1
<1>2. PICK f : IsLoop(f, n, Nat, number, step)
  <2> HIDE DEF step
  <2>1. QED BY <1>1, LoopExists
<1>3. f \in [0..n -> Nat] /\ f[0] = number /\ \A k \in 1..n : f[k] = f[k - 1] \div 16
  <2>1. f \in [0..n -> Nat] /\ f[0] = number /\ \A k \in 1..n : f[k] = step[k][f[k - 1]]
    <3> HIDE DEF step
    <3>1. QED BY <1>2 DEF IsLoop
  <2>2. \A k \in 1..n : f[k - 1] \in Nat BY <2>1
  <2>3. QED BY <2>1, <2>2
<1>4. f = [k \in 0..n |-> IF k = 0 THEN number ELSE f[k - 1] \div 16]
  <2>1. \A k \in 0..n : k = 0 \/ k \in 1..n OBVIOUS
  <2>2. QED BY <1>3, <2>1
<1>5. left = [k \in 0..n |-> IF k = 0 THEN number ELSE left[k - 1] \div 16]
  BY <1>4
<1>6. Shifted(number, n) = left[n] BY DEF Shifted
<1> HIDE DEF left
<1>7. left[0] = number /\ \A k \in 1..n : left[k] = left[k - 1] \div 16
  <2>1. 0 \in 0..n /\ \A k \in 1..n : k \in 0..n /\ k # 0 OBVIOUS
  <2>2. QED BY <1>5, <2>1
<1>8. \A k \in 0..n : left[k] \in Nat
  <2> DEFINE T == {k \in Nat : k \in 0..n => left[k] \in Nat}
  <2>1. 0 \in T BY <1>7
  <2>2. ASSUME NEW k \in Nat, k \in T PROVE k + 1 \in T
    <3>1. SUFFICES ASSUME k + 1 \in 0..n PROVE left[k + 1] \in Nat
      OBVIOUS
    <3>2. k \in 0..n /\ k + 1 \in 1..n /\ (k + 1) - 1 = k BY <3>1
    <3>3. left[k] \in Nat BY <2>2, <3>2
    <3>4. left[k + 1] = left[k] \div 16 BY <1>7, <3>2
    <3>5. QED BY <3>3, <3>4
  <2> HIDE DEF T
  <2>3. Nat \subseteq T BY <2>1, <2>2, NatSetInduction
  <2>4. QED BY <2>3 DEF T
<1>9. left \in [0..n -> Nat] BY <1>5, <1>8
<1>10. QED BY <1>6, <1>7, <1>9

\* What n shifts leave of the value of some digits is the value of all but the last n.
LEMMA ShiftUndoesAdding ==
  ASSUME NEW m \in Nat, NEW v \in [0..m -> Nat], NEW h \in [1..m -> 0..15],
         \A k \in 1..m : v[k] = 16 * v[k - 1] + h[k],
         NEW n \in 0..m
  PROVE  Shifted(v[m], n) = v[m - n]
<1>1. m \in 0..m /\ v[m] \in Nat OBVIOUS
<1>2. PICK left \in [0..n -> Nat] :
        /\ left[0] = v[m]
        /\ \A k \in 1..n : left[k] = left[k - 1] \div 16
        /\ Shifted(v[m], n) = left[n]
  <2>1. n \in Nat OBVIOUS
  <2>2. ASSUME NEW x \in Nat
        PROVE  \E left \in [0..n -> Nat] :
                 /\ left[0] = x
                 /\ \A k \in 1..n : left[k] = left[k - 1] \div 16
                 /\ Shifted(x, n) = left[n]
    BY <2>1, ShiftedLoop
  <2>3. QED BY <1>1, <2>2
<1> DEFINE T == {k \in Nat : k \in 0..n => left[k] = v[m - k]}
<1>3. 0 \in T BY <1>2
<1>4. ASSUME NEW k \in Nat, k \in T PROVE k + 1 \in T
  <2>1. SUFFICES ASSUME k + 1 \in 0..n PROVE left[k + 1] = v[m - (k + 1)]
    OBVIOUS
  <2>2. k \in 0..n /\ k + 1 \in 1..n /\ (k + 1) - 1 = k BY <2>1
  <2>3. m - k \in 1..m /\ (m - k) - 1 = m - (k + 1) /\ m - (k + 1) \in 0..m BY <2>1, <2>2
  <2>4. left[k + 1] = v[m - k] \div 16 BY <1>2, <1>4, <2>2
  <2>5. v[m - k] = 16 * v[m - (k + 1)] + h[m - k] BY <2>3
  <2>6. PICK x \in Nat : x = v[m - (k + 1)] BY <2>3
  <2>7. PICK y \in 0..15 : y = h[m - k] BY <2>3
  <2>8. (16 * x + y) \div 16 = x BY ONLY x \in Nat, y \in 0..15
  <2>9. QED BY <2>4, <2>5, <2>6, <2>7, <2>8
<1> HIDE DEF T
<1>5. Nat \subseteq T BY <1>3, <1>4, NatSetInduction
<1>6. left[n] = v[m - n] BY <1>5 DEF T
<1>7. QED BY <1>2, <1>6

\* encode_reply gives back the digits that parse_line read, if they are in upper case.
LEMMA DigitsComeBack ==
  ASSUME NEW d \in Seq(STRING), Len(d) = NumberLen, \A i \in 1..NumberLen : IsUpper(d[i])
  PROVE  EncodeNumber(Value(d)) = d
<1> DEFINE m == NumberLen
           h == [k \in 1..m |-> Hex(d[k])]
<1>1. m \in Nat /\ DOMAIN d = 1..m BY LinkNumbers
<1>2. AllHex(d) BY <1>1, HexDigits DEF AllHex
<1>3. h \in [1..m -> 0..15] BY HexDigits
<1>4. PICK v \in [0..m -> Nat] : /\ \A k \in 1..m : v[k] = 16 * v[k - 1] + Hex(d[k])
                                 /\ Value(d) = v[m]
  BY <1>2, ValueLoop
<1>5. \A k \in 1..m : v[k] = 16 * v[k - 1] + h[k] BY <1>4
<1>6. ASSUME NEW i \in 1..m PROVE Upper[(Shifted(Value(d), m - i) % 16) + 1] = d[i]
  <2>1. m - i \in 0..m /\ m - (m - i) = i /\ i - 1 \in 0..m BY <1>1
  <2>2. Shifted(v[m], m - i) = v[m - (m - i)]
    <3> HIDE DEF m, h
    <3>1. QED BY <1>1, <1>3, <1>5, <2>1, ShiftUndoesAdding
  <2>3. v[i] = 16 * v[i - 1] + Hex(d[i]) BY <1>4
  <2>4. PICK x \in Nat : x = v[i - 1] BY <2>1
  <2>5. PICK y \in 0..15 : y = Hex(d[i]) BY HexDigits
  <2>6. (16 * x + y) % 16 = y BY ONLY x \in Nat, y \in 0..15
  <2>7. Shifted(Value(d), m - i) % 16 = Hex(d[i]) BY <1>4, <2>1, <2>2, <2>3, <2>4, <2>5, <2>6
  <2>8. QED BY <2>7, HexDigits
<1>7. EncodeNumber(Value(d)) = [i \in 1..m |-> d[i]] BY <1>6 DEF EncodeNumber
<1>8. d = [i \in 1..m |-> d[i]] BY <1>1
<1>9. QED BY <1>7, <1>8

\* StripCr leaves a line, or all of it but the last byte.
LEMMA StripCrLine ==
  ASSUME NEW line \in Seq(STRING)
  PROVE  /\ StripCr(line) \in Seq(STRING) /\ Len(StripCr(line)) <= Len(line)
         /\ \A i \in 1..Len(StripCr(line)) : StripCr(line)[i] = line[i]
<1>1. CASE line # <<>> /\ Last(line) = CR
  <2>1. StripCr(line) = SubSeq(line, 1, Len(line) - 1) BY <1>1 DEF StripCr, Front
  <2>2. QED BY <1>1, <2>1
<1>2. CASE ~(line # <<>> /\ Last(line) = CR)
  <2>1. StripCr(line) = line BY <1>2 DEF StripCr
  <2>2. QED BY <2>1
<1>3. QED BY <1>1, <1>2

\* A CR at the end of a numbered line is behind its digits.
LEMMA DigitsBeforeCr ==
  ASSUME NEW line \in Seq(STRING), IsNumbered(StripCr(line))
  PROVE  /\ Digits(StripCr(line)) = Digits(line)
         /\ Digits(line) \in Seq(STRING) /\ Len(Digits(line)) = NumberLen
         /\ \A i \in 1..NumberLen : IsUpper(Digits(line)[i])
<1> DEFINE n == NumberLen
           s == StripCr(line)
<1>1. /\ s \in Seq(STRING) /\ Len(s) <= Len(line)
      /\ \A i \in 1..Len(s) : s[i] = line[i]
  BY StripCrLine
<1>2. Len(s) >= n + 2 /\ \A i \in 2..(n + 1) : IsUpper(s[i]) BY DEF IsNumbered
<1>3. n \in Nat BY LinkNumbers
<1> HIDE DEF s, n
<1>4. ASSUME NEW t \in Seq(STRING), Len(t) >= n + 2
      PROVE  /\ SubSeq(t, 2, n + 1) \in Seq(STRING) /\ Len(SubSeq(t, 2, n + 1)) = n
             /\ \A i \in 1..n : SubSeq(t, 2, n + 1)[i] = t[i + 1]
  BY <1>3, <1>4
<1>5. Len(line) >= n + 2 BY <1>1, <1>2, <1>3
<1>6. /\ Digits(line) = SubSeq(line, 2, n + 1) /\ Digits(s) = SubSeq(s, 2, n + 1)
  BY DEF Digits, n
<1>7. \A i \in 1..n : i + 1 \in 2..(n + 1) /\ i + 1 \in 1..Len(s) BY <1>1, <1>2, <1>3
<1>8. \A i \in 1..n : Digits(line)[i] = s[i + 1] /\ Digits(s)[i] = s[i + 1]
  BY <1>1, <1>2, <1>4, <1>5, <1>6, <1>7
<1>9. /\ Digits(line) \in Seq(STRING) /\ Len(Digits(line)) = n
      /\ Digits(s) \in Seq(STRING) /\ Len(Digits(s)) = n
  BY <1>1, <1>2, <1>4, <1>5, <1>6
<1>10. Digits(s) = Digits(line) BY <1>8, <1>9, SeqEqual
<1>11. \A i \in 1..n : IsUpper(Digits(line)[i]) BY <1>2, <1>7, <1>8
<1>12. QED BY <1>9, <1>10, <1>11 DEF s, n

\* The number in a reply is the number of its request, digit for digit.
THEOREM NumbersComeBack == Spec => NumberComesBack
<1> DEFINE A == frame' # None => EncodeNumber(frame'.number) = Digits(text)
<1>1. IInv /\ [Next]_vars => [A]_vars
  <2> SUFFICES ASSUME IInv, [Next]_vars, ~UNCHANGED vars, frame' # None
               PROVE  EncodeNumber(frame'.number) = Digits(text)
    OBVIOUS
  <2>1. PushLf BY FrameStep
  <2>2. ~stale BY <2>1 DEF PushLf, IInv, Behind
  <2>3. ~parser.discard /\ frame' = ParseLine(parser.line)
    BY <2>1 DEF PushLf, PushedFrame
  <2>4. frame' = ParseLine(text) /\ text \in Seq(STRING)
    BY <2>2, <2>3 DEF IInv, Follows, TypeOK
  <2>5. IsNumbered(StripCr(text)) /\ frame'.number = Value(Digits(StripCr(text)))
    BY <2>4 DEF ParseLine
  <2>6. QED BY <2>4, <2>5, DigitsBeforeCr, DigitsComeBack
<1>2. QED BY Invariance, <1>1, PTL DEF Spec, NumberComesBack

\* Cut makes pieces of pieces.
LEMMA CutPieces ==
  ASSUME NEW c \in Seq(STRING), NEW k \in 1..Len(c), NEW x \in Seq(Seq(STRING))
  PROVE  Cut(x, c, k) \in Seq(Seq(STRING))
<1>1. c[k] \in STRING /\ <<c[k]>> \in Seq(STRING) OBVIOUS
<1>2. CASE c[k] = SP BY <1>2 DEF Cut
<1>3. CASE c[k] # SP /\ (k = 1 \/ c[k - 1] = SP)
  <2>1. Cut(x, c, k) = Append(x, <<c[k]>>) BY <1>3 DEF Cut
  <2>2. QED BY <1>1, <2>1, AppendProperties
<1>4. CASE c[k] # SP /\ ~(k = 1 \/ c[k - 1] = SP)
  <2> DEFINE n == Len(x)
             last == Append(x[n], c[k])
  <2>1. Cut(x, c, k) = [x EXCEPT ![n] = last] BY <1>4 DEF Cut
  <2>2. n \in Nat /\ DOMAIN x = 1..n /\ \A i \in 1..n : x[i] \in Seq(STRING) OBVIOUS
  <2>3. n \in 1..n => last \in Seq(STRING) BY <1>1, <2>2, AppendProperties
  <2> HIDE DEF last, n
  <2>4. x = [i \in 1..n |-> x[i]] BY <2>2
  <2>5. [x EXCEPT ![n] = last] = [i \in 1..n |-> IF i = n THEN last ELSE x[i]]
    BY <2>2, <2>4
  <2>6. [i \in 1..n |-> IF i = n THEN last ELSE x[i]] \in [1..n -> Seq(STRING)]
    BY <2>2, <2>3
  <2>7. [1..n -> Seq(STRING)] \subseteq Seq(Seq(STRING)) BY <2>2
  <2>8. QED BY <2>1, <2>5, <2>6, <2>7
<1>5. QED BY <1>2, <1>3, <1>4

\* The tokens of a command are sequences of bytes.
LEMMA TokensType ==
  ASSUME NEW c \in Seq(STRING)
  PROVE  Tokens(c) \in Seq(Seq(STRING))
<1> DEFINE n == Len(c)
           V == Seq(Seq(STRING))
           step == [k \in 1..n |-> [x \in V |-> Cut(x, c, k)]]
           pieces[k \in 0..n] == IF k = 0 THEN <<>> ELSE Cut(pieces[k - 1], c, k)
<1>1. n \in Nat /\ <<>> \in V OBVIOUS
<1>2. \A k \in 1..n : \A x \in V : Cut(x, c, k) \in V BY CutPieces
<1>3. step \in [1..n -> [V -> V]]
  <2> HIDE DEF n, V
  <2>1. QED BY <1>2
<1>4. PICK f : IsLoop(f, n, V, <<>>, step)
  <2> HIDE DEF step, n, V
  <2>1. QED BY <1>1, <1>3, LoopExists
<1>5. f \in [0..n -> V] /\ f[0] = <<>> /\ \A k \in 1..n : f[k] = Cut(f[k - 1], c, k)
  <2>1. f \in [0..n -> V] /\ f[0] = <<>> /\ \A k \in 1..n : f[k] = step[k][f[k - 1]]
    <3> HIDE DEF n, step, V
    <3>1. QED BY <1>4 DEF IsLoop
  <2> HIDE DEF n, V
  <2>2. \A k \in 1..n : f[k - 1] \in V BY <1>1, <2>1
  <2>3. QED BY <2>1, <2>2
<1>6. f = [k \in 0..n |-> IF k = 0 THEN <<>> ELSE Cut(f[k - 1], c, k)]
  <2> HIDE DEF n, V
  <2>1. \A k \in 0..n : k = 0 \/ k \in 1..n BY <1>1
  <2>2. QED BY <1>5, <2>1
<1>7. pieces = [k \in 0..n |-> IF k = 0 THEN <<>> ELSE Cut(pieces[k - 1], c, k)]
  BY <1>6
<1>8. Tokens(c) = pieces[n] BY DEF Tokens
<1> HIDE DEF pieces, n, V
<1>9. \A k \in 0..n : pieces[k] \in V
  <2> DEFINE T == {k \in Nat : k \in 0..n => pieces[k] \in V}
  <2>1. 0 \in T
    <3>1. 0 \in 0..n BY <1>1
    <3>2. QED BY <1>1, <1>7, <3>1
  <2>2. ASSUME NEW k \in Nat, k \in T PROVE k + 1 \in T
    <3>1. SUFFICES ASSUME k + 1 \in 0..n PROVE pieces[k + 1] \in V
      OBVIOUS
    <3>2. k \in 0..n /\ k + 1 \in 1..n /\ (k + 1) - 1 = k /\ k + 1 # 0 BY <1>1, <3>1
    <3>3. pieces[k] \in V BY <2>2, <3>2
    <3>4. pieces[k + 1] = Cut(pieces[k], c, k + 1) BY <1>7, <3>1, <3>2
    <3>5. QED BY <1>2, <3>2, <3>3, <3>4
  <2> HIDE DEF T
  <2>3. Nat \subseteq T BY <2>1, <2>2, NatSetInduction
  <2>4. QED BY <2>3 DEF T
<1>10. n \in 0..n BY <1>1
<1>11. QED BY <1>8, <1>9, <1>10 DEF V

\* Joining begins with the first token, and puts one space before the second.
LEMMA JoinedLine ==
  ASSUME NEW t \in Seq(Seq(STRING)), t # <<>>, t[1] # <<>>
  PROVE  /\ Joined(t)[1] = t[1][1]
         /\ Len(t) = 1 => Joined(t) = t[1]
         /\ Len(t) = 2 => Joined(t) = t[1] \o <<SP>> \o t[2]
<1> DEFINE n == Len(t)
           B == STRING \cup {SP}
           V == Seq(B)
           step == [k \in 1..n |-> [x \in V |-> Join(x, t, k)]]
           line[k \in 0..n] == IF k = 0 THEN <<>> ELSE Join(line[k - 1], t, k)
<1>1. n \in Nat /\ n >= 1 /\ <<>> \in V /\ \A k \in 1..n : t[k] \in V
  <2>1. Seq(STRING) \subseteq Seq(B) OBVIOUS
  <2>2. QED BY <2>1
<1>2. \A k \in 1..n : \A x \in V : Join(x, t, k) \in V
  <2>1. <<SP>> \in V OBVIOUS
  <2> HIDE DEF B
  <2>2. \A x, y \in V : x \o <<SP>> \o y \in V BY <2>1
  <2> HIDE DEF n, V
  <2>3. QED BY <1>1, <2>2 DEF Join
<1>3. step \in [1..n -> [V -> V]]
  <2> HIDE DEF n, V
  <2>1. QED BY <1>2
<1>4. PICK f : IsLoop(f, n, V, <<>>, step)
  <2> HIDE DEF step, n, V
  <2>1. QED BY <1>1, <1>3, LoopExists
<1>5. f \in [0..n -> V] /\ f[0] = <<>> /\ \A k \in 1..n : f[k] = Join(f[k - 1], t, k)
  <2>1. f \in [0..n -> V] /\ f[0] = <<>> /\ \A k \in 1..n : f[k] = step[k][f[k - 1]]
    <3> HIDE DEF n, step, V
    <3>1. QED BY <1>4 DEF IsLoop
  <2> HIDE DEF n, V
  <2>2. \A k \in 1..n : f[k - 1] \in V BY <1>1, <2>1
  <2>3. QED BY <2>1, <2>2
<1>6. f = [k \in 0..n |-> IF k = 0 THEN <<>> ELSE Join(f[k - 1], t, k)]
  <2> HIDE DEF n, V
  <2>1. \A k \in 0..n : k = 0 \/ k \in 1..n BY <1>1
  <2>2. QED BY <1>5, <2>1
<1>7. line = [k \in 0..n |-> IF k = 0 THEN <<>> ELSE Join(line[k - 1], t, k)]
  BY <1>6
<1>8. Joined(t) = line[n] BY DEF Joined
<1> HIDE DEF line, n
<1>9. 0 \in 0..n /\ 1 \in 0..n /\ n \in 0..n BY <1>1
<1>10. line[1] = t[1] BY <1>7, <1>9 DEF Join
<1>11. ASSUME NEW k \in 2..n PROVE line[k] = line[k - 1] \o <<SP>> \o t[k]
  <2>1. k \in 0..n /\ k # 0 /\ k # 1 BY <1>1
  <2>2. QED BY <1>7, <2>1 DEF Join
<1>12. \A k \in 1..n : line[k] \in V /\ Len(line[k]) >= 1 /\ line[k][1] = t[1][1]
  <2> DEFINE T == {k \in Nat : k + 1 \in 1..n =>
                     /\ line[k + 1] \in V /\ Len(line[k + 1]) >= 1
                     /\ line[k + 1][1] = t[1][1]}
  <2>1. 0 \in T
    <3>1. t[1] \in V /\ Len(t[1]) >= 1 BY <1>1
    <3>2. 0 + 1 = 1 OBVIOUS
    <3>3. QED BY <1>10, <3>1, <3>2
  <2>2. ASSUME NEW k \in Nat, k \in T PROVE k + 1 \in T
    <3>1. SUFFICES ASSUME k + 2 \in 1..n
                   PROVE  /\ line[k + 2] \in V /\ Len(line[k + 2]) >= 1
                          /\ line[k + 2][1] = t[1][1]
      <4>1. (k + 1) + 1 = k + 2 OBVIOUS
      <4>2. QED BY <4>1
    <3>2. k + 1 \in 1..n /\ k + 2 \in 2..n /\ (k + 2) - 1 = k + 1 BY <1>1, <3>1
    <3>3. PICK x \in V : x = line[k + 1] BY <2>2, <3>2
    <3>4. Len(x) >= 1 /\ x[1] = t[1][1] BY <2>2, <3>2, <3>3
    <3>5. PICK y \in V : y = t[k + 2] BY <1>1, <3>1
    <3>6. line[k + 2] = x \o <<SP>> \o y BY <1>11, <3>2, <3>3, <3>5
    <3>7. /\ x \o <<SP>> \o y \in V /\ Len(x \o <<SP>> \o y) >= 1
          /\ (x \o <<SP>> \o y)[1] = x[1]
      <4>1. <<SP>> \in V OBVIOUS
      <4>2. PICK z \in V : z = <<SP>> BY <4>1
      <4> HIDE DEF B
      <4>3. x \o z \in V /\ Len(x \o z) >= 1 /\ (x \o z)[1] = x[1] BY <3>4
      <4>4. PICK w \in V : w = x \o z BY <4>3
      <4>5. /\ w \o y \in V /\ Len(w \o y) >= 1 /\ (w \o y)[1] = w[1]
        BY <4>3, <4>4
      <4>6. QED BY <4>2, <4>3, <4>4, <4>5
    <3>8. QED BY <3>4, <3>6, <3>7
  <2> HIDE DEF T
  <2>3. Nat \subseteq T BY <2>1, <2>2, NatSetInduction
  <2>4. ASSUME NEW k \in 1..n
        PROVE  line[k] \in V /\ Len(line[k]) >= 1 /\ line[k][1] = t[1][1]
    <3>1. k - 1 \in T /\ (k - 1) + 1 = k BY <2>3
    <3>2. QED BY <3>1 DEF T
  <2>5. QED BY <2>4
<1>13. n = 2 => line[2] = t[1] \o <<SP>> \o t[2]
  <2>1. 2 - 1 = 1 /\ (n = 2 => 2 \in 2..n) OBVIOUS
  <2>2. ASSUME n = 2 PROVE line[2] = line[2 - 1] \o <<SP>> \o t[2] BY <1>11, <2>1, <2>2
  <2>3. QED BY <1>10, <2>1, <2>2
<1>14. n = 1 => line[n] = t[1] BY <1>10
<1>15. line[n][1] = t[1][1]
  <2>1. n \in 1..n BY <1>1
  <2>2. QED BY <1>12, <2>1
<1>16. n = 2 => line[n] = t[1] \o <<SP>> \o t[2] BY <1>13
<1>17. QED BY <1>8, <1>14, <1>15, <1>16 DEF n

\* A line that the parser accepts has one of six names, and UPAIR or USWITCH has a second
\* token, which is a slot.
LEMMA AcceptedTokens ==
  ASSUME NEW t \in Seq(Seq(STRING)), Validate(t) = None
  PROVE  /\ t # <<>>
         /\ \E name \in {"OTA", "VER", "USTATUS", "USWITCH", "UPAIR", "UKEYDOWN"} :
              /\ t[1] = <<name>>
              /\ name \in {"USWITCH", "UPAIR"} =>
                   Len(t) = 2 /\ t[2] \in Seq(STRING) /\ HexByte(t[2]) \in 0..3
                     /\ Len(t[2]) \in 1..2
<1>1. "argument" # None /\ "command" # None BY LinkNumbers
<1>2. t # <<>>
  <2>1. t = <<>> => Validate(t) = "command" BY DEF Validate
  <2>2. QED BY <1>1, <2>1
<1>3. CASE t[1] = <<"OTA">> BY <1>2, <1>3
<1>4. CASE t[1] = <<"VER">> BY <1>2, <1>4
<1>5. CASE t[1] = <<"USTATUS">> BY <1>2, <1>5
<1>6. CASE t[1] = <<"UKEYDOWN">> BY <1>2, <1>6
<1>7. CASE t[1] \in {<<"USWITCH">>, <<"UPAIR">>}
  <2>1. <<"OTA">> # t[1] /\ <<"VER">> # t[1] /\ <<"USTATUS">> # t[1] BY <1>7
  <2>2. Validate(t) = IF OneSlot(Tail(t)) THEN None ELSE "argument"
    <3>1. CASE t[1] = <<"USWITCH">> BY <1>2, <2>1, <3>1 DEF Validate
    <3>2. CASE t[1] = <<"UPAIR">> BY <1>2, <2>1, <3>2 DEF Validate
    <3>3. QED BY <1>7, <3>1, <3>2
  <2>3. OneSlot(Tail(t)) BY <1>1, <2>2
  <2>4. Len(Tail(t)) = 1 /\ IsSlot(Tail(t)[1]) BY <2>3 DEF OneSlot
  <2>5. Len(t) = 2 /\ Tail(t)[1] = t[2] /\ t[2] \in Seq(STRING) BY <1>2, <2>4
  <2>6. HexByte(t[2]) # None /\ HexByte(t[2]) < 4 BY <2>4, <2>5 DEF IsSlot
  <2>7. HexByte(t[2]) \in Nat /\ Len(t[2]) \in 1..2 BY <2>5, <2>6, HexByteNumber
  <2>8. HexByte(t[2]) \in 0..3 BY <2>6, <2>7
  <2>9. QED BY <1>2, <1>7, <2>5, <2>7, <2>8
<1>8. CASE t[1] \notin {<<"OTA">>, <<"VER">>, <<"USTATUS">>, <<"UKEYDOWN">>, <<"USWITCH">>,
                        <<"UPAIR">>}
  <2>1. Validate(t) = "command" BY <1>2, <1>8 DEF Validate
  <2>2. QED BY <1>1, <2>1
<1>9. QED BY <1>3, <1>4, <1>5, <1>6, <1>7, <1>8

\* What is behind the first two bytes.
LEMMA BehindTwo ==
  ASSUME NEW B, NEW a \in B, NEW b \in B, NEW u \in Seq(B)
  PROVE  /\ Len(<<a>> \o <<b>> \o u) = Len(u) + 2
         /\ SubSeq(<<a>> \o <<b>> \o u, 3, Len(u) + 2) = u
<1> DEFINE w == <<a>> \o <<b>> \o u
           r == SubSeq(w, 3, Len(u) + 2)
<1>1. PICK x \in Seq(B) : x = <<a>> \o <<b>> /\ Len(x) = 2
  <2> DEFINE y == <<a>>
             z == <<b>>
  <2>1. y \in Seq(B) /\ Len(y) = 1 OBVIOUS
  <2>2. z \in Seq(B) /\ Len(z) = 1 OBVIOUS
  <2> HIDE DEF y, z
  <2>3. y \o z \in Seq(B) /\ Len(y \o z) = Len(y) + Len(z) BY <2>1, <2>2, ConcatProperties
  <2>4. Len(y \o z) = 2 BY <2>1, <2>2, <2>3
  <2>5. QED BY <2>3, <2>4 DEF y, z
<1>2. /\ x \o u \in Seq(B) /\ Len(x \o u) = Len(u) + 2
      /\ \A i \in 1..Len(u) : (x \o u)[i + 2] = u[i]
  BY <1>1
<1>3. /\ w \in Seq(B) /\ Len(w) = Len(u) + 2
      /\ \A i \in 1..Len(u) : w[i + 2] = u[i]
  BY <1>1, <1>2
<1> HIDE DEF w
<1>4. r \in Seq(B) /\ Len(r) = Len(u) /\ \A i \in 1..Len(u) : r[i] = u[i]
  <2>1. PICK n \in Nat : n = Len(u) OBVIOUS
  <2>2. SubSeq(w, 3, n + 2) \in Seq(B) /\ Len(SubSeq(w, 3, n + 2)) = n BY <1>3, <2>1
  <2>3. \A i \in 1..n : SubSeq(w, 3, n + 2)[i] = w[i + 2] BY <1>3, <2>1
  <2>4. QED BY <1>3, <2>1, <2>2, <2>3
<1> HIDE DEF r
<1>5. r = u BY <1>4, SeqEqual
<1>6. QED BY <1>3, <1>5 DEF w, r

\* In the canonical line the command handler finds that slot.
LEMMA AcceptedCommand ==
  ASSUME NEW c \in Seq(STRING), Validate(Tokens(c)) = None
  PROVE  /\ Canonical(c)[1] # "UDELETE"
         /\ Canonical(c)[1] \in {"USWITCH", "UPAIR"} => HandlerSlot(Canonical(c)) \in 0..3
<1> DEFINE t == Tokens(c)
           line == Canonical(c)
<1>1. t \in Seq(Seq(STRING)) BY TokensType
<1>2. PICK name \in {"OTA", "VER", "USTATUS", "USWITCH", "UPAIR", "UKEYDOWN"} :
        /\ t # <<>> /\ t[1] = <<name>>
        /\ name \in {"USWITCH", "UPAIR"} =>
             Len(t) = 2 /\ t[2] \in Seq(STRING) /\ HexByte(t[2]) \in 0..3 /\ Len(t[2]) \in 1..2
  BY <1>1, AcceptedTokens
<1>3. t[1] # <<>> /\ t[1][1] = name BY <1>2
<1>4. line = Joined(t) BY DEF Canonical
<1> HIDE DEF t, line
<1>5. line[1] = name /\ (Len(t) = 2 => line = t[1] \o <<SP>> \o t[2])
  BY <1>1, <1>2, <1>3, <1>4, JoinedLine
<1>6. ASSUME name \in {"USWITCH", "UPAIR"} PROVE HandlerSlot(line) \in 0..3
  <2>1. PICK u \in Seq(STRING) : u = t[2] BY <1>2, <1>6
  <2>2. HexByte(u) \in 0..3 /\ Len(u) \in 1..2 BY <1>2, <1>6, <2>1
  <2>3. line = <<name>> \o <<SP>> \o u BY <1>2, <1>5, <1>6, <2>1
  <2>4. /\ Len(<<name>> \o <<SP>> \o u) = Len(u) + 2
        /\ SubSeq(<<name>> \o <<SP>> \o u, 3, Len(u) + 2) = u
    <3>1. name \in STRING \cup {name, SP} /\ SP \in STRING \cup {name, SP} OBVIOUS
    <3>2. Seq(STRING) \subseteq Seq(STRING \cup {name, SP}) OBVIOUS
    <3>3. u \in Seq(STRING \cup {name, SP}) BY <3>2
    <3>4. QED BY ONLY <3>1, <3>3, BehindTwo
  <2>5. Len(line) > 2 /\ SubSeq(line, 3, Len(line)) = u
    <3>1. Len(line) = Len(u) + 2 BY <2>3, <2>4
    <3>2. SubSeq(line, 3, Len(line)) = u BY <2>3, <2>4, <3>1
    <3>3. Len(u) \in 1..2 BY <2>2
    <3>4. Len(line) > 2
      <4>1. \A i \in 1..2 : i + 2 > 2 OBVIOUS
      <4>2. QED BY <3>1, <3>3, <4>1
    <3>5. QED BY <3>2, <3>4
  <2>6. QED BY <2>2, <2>5 DEF HandlerSlot
<1>7. QED BY <1>5, <1>6 DEF line

\* The frame, while there is one, is what some line says.
FrameIsParsed == frame = None \/ \E line \in Seq(STRING) : frame = ParseLine(line)

\* Every step keeps that: a new frame is the line that the parser holds.
LEMMA FrameStaysParsed == IInv /\ FrameIsParsed /\ [Next]_vars => FrameIsParsed'
<1> SUFFICES ASSUME IInv, FrameIsParsed, [Next]_vars PROVE FrameIsParsed'
  OBVIOUS
<1>1. CASE UNCHANGED vars BY <1>1 DEF vars, FrameIsParsed
<1>2. CASE frame' = None BY <1>2 DEF FrameIsParsed
<1>3. CASE PushLf
  <2>1. frame' = None \/ frame' = ParseLine(parser.line) BY <1>3 DEF PushLf, PushedFrame
  <2>2. parser.line \in Seq(STRING) BY DEF IInv, TypeOK
  <2>3. QED BY <2>1, <2>2 DEF FrameIsParsed
<1>4. QED BY <1>1, <1>2, <1>3, FrameStep

\* A line accepted from the UART deletes nothing, and the slot that the command handler
\* takes from the canonical line is the one that validate saw, for every line and every
\* spacing of it (uart_link.rs, validate; main.rs, UPAIR and USWITCH).
THEOREM SlotIsNamed == Spec => []NamesItsSlot
<1>1. Init => FrameIsParsed BY DEF Init, FrameIsParsed
<1>2. FrameIsParsed => NamesItsSlot
  <2> SUFFICES ASSUME FrameIsParsed, frame # None, frame.error = None
               PROVE  /\ frame.command[1] # "UDELETE"
                      /\ frame.command[1] \in {"USWITCH", "UPAIR"}
                           => HandlerSlot(frame.command) \in 0..3
    BY DEF NamesItsSlot
  <2>1. PICK raw \in Seq(STRING) : frame = ParseLine(raw) BY DEF FrameIsParsed
  <2> DEFINE line == StripCr(raw)
             c == SubSeq(line, NumberLen + 3, Len(line))
  <2>2. /\ frame.command = Canonical(c)
        /\ frame.error = IF Contains(c, CR) THEN "argument" ELSE Validate(Tokens(c))
    BY <2>1 DEF ParseLine
  <2>3. Validate(Tokens(c)) = None BY <2>2, LinkNumbers
  <2>4. line \in Seq(STRING) BY StripCrLine
  <2>5. c \in Seq(STRING)
    <3> HIDE DEF line
    <3>1. QED BY <2>4, LinkNumbers
  <2> HIDE DEF c
  <2>6. QED BY <2>2, <2>3, <2>5, AcceptedCommand
<1>3. QED BY <1>1, <1>2, FrameStaysParsed, Invariance, PTL DEF Spec
=============================================================================

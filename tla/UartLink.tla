------------------------------ MODULE UartLink ------------------------------
(***************************************************************************)
(* Lines on the UART: the ring that the hardware fills, uart_rx_fut of      *)
(* app/src/main.rs, which reads it piece by piece, and the parser of        *)
(* app/src/uart_link.rs, which it feeds.                                    *)
(*                                                                         *)
(* A line is "@", a number of eight hexadecimal digits, a space and a       *)
(* command.  A line that was damaged, was too long, or of which a part was  *)
(* read before a change of the CDC session, must vanish as a whole: no rest *)
(* of it may be taken for a command.  A change of session leaves the ring   *)
(* as it is: what was received before it may be read after it.              *)
(*                                                                         *)
(* A byte is a character, except that the name of a command is one symbol.  *)
(* What becomes of a frame in the queue is the business of Sessions.        *)
(***************************************************************************)
EXTENDS Naturals, SequencesExt

CONSTANTS
  Chunks,      \* what may come in at once
  RingSize,    \* bytes in the ring, at most
  LineLimit,   \* LINE_LIMIT
  NumberLen,   \* digits of a number
  MaxKeys,     \* keys of a UKEYDOWN
  None

LF == "LF"
CR == "CR"
SP == "SP"
Bad == "control"     \* a byte that is neither CR nor printable

ASSUME LinkNumbers ==
  /\ LineLimit \in Nat /\ NumberLen \in Nat /\ MaxKeys \in Nat /\ RingSize \in Nat
  /\ NumberLen + 2 <= LineLimit
  /\ Chunks \subseteq Seq(STRING) \ {<<>>}
  /\ None \notin {"argument", "command"}

VARIABLES
  parser,   \* [line, discard]
  ring,     \* received and not read yet
  packet,   \* what is left of the bytes just read
  stale,    \* the session changed and the parser has not heard of it
  frame,    \* the frame queued in this step, or None
  lost,     \* the queue was full when the last line ended
  text,     \* the line on the wire since the last LF, while it is intact and clean
  intact,   \* nothing of it was damaged, skipped, or read before a change of session
  before,   \* how many bytes of packet and ring came before the last change of session
  begun     \* some byte of the line did

vars == <<parser, ring, packet, stale, frame, lost, text, intact, before, begun>>
-----------------------------------------------------------------------------
(* Numbers and tokens *)

Upper == <<"0", "1", "2", "3", "4", "5", "6", "7", "8", "9", "A", "B", "C", "D", "E", "F">>
Lower == <<"a", "b", "c", "d", "e", "f">>

IsUpper(b) == \E i \in 1..16 : Upper[i] = b
IsHex(b)   == IsUpper(b) \/ \E i \in 1..6 : Lower[i] = b

\* fn hex, of a digit
Hex(b) == IF IsUpper(b) THEN (CHOOSE i \in 1..16 : Upper[i] = b) - 1
                        ELSE (CHOOSE i \in 1..6 : Lower[i] = b) + 9

Value(digits) ==
  LET value[k \in 0..Len(digits)] == IF k = 0 THEN 0 ELSE 16 * value[k - 1] + Hex(digits[k])
  IN  value[Len(digits)]

AllHex(token) == \A i \in DOMAIN token : IsHex(token[i])

\* hex_byte, and parse_u8_hex of the command handler, which is the same function.
HexByte(token) == IF Len(token) \in 1..2 /\ AllHex(token) THEN Value(token) ELSE None

\* The pieces after byte k: a space ends one, and a byte behind a space begins one.
Cut(pieces, command, k) ==
  IF command[k] = SP THEN pieces
  ELSE IF k = 1 \/ command[k - 1] = SP THEN Append(pieces, <<command[k]>>)
  ELSE [pieces EXCEPT ![Len(pieces)] = Append(@, command[k])]

\* split at spaces, and the empty pieces filtered out
Tokens(command) ==
  LET pieces[k \in 0..Len(command)] == IF k = 0 THEN <<>> ELSE Cut(pieces[k - 1], command, k)
  IN  pieces[Len(command)]

\* One space between each two tokens.
Join(line, tokens, k) == IF k = 1 THEN tokens[1] ELSE line \o <<SP>> \o tokens[k]

Joined(tokens) ==
  LET line[k \in 0..Len(tokens)] == IF k = 0 THEN <<>> ELSE Join(line[k - 1], tokens, k)
  IN  line[Len(tokens)]

Canonical(command) == Joined(Tokens(command))

IsSlot(token) == HexByte(token) # None /\ HexByte(token) < 4

\* Mutant: UPAIR without a slot is let through, as the command handler would.
PairAnywhere(args) == args = <<>> \/ (Len(args) = 1 /\ IsSlot(args[1]))

\* The argument of USWITCH and UPAIR.
OneSlot(args) == Len(args) = 1 /\ IsSlot(args[1])

\* A modifier and up to six keys.
Keys(args) ==
  /\ Len(args) \in 1..(MaxKeys + 1)
  /\ \A i \in DOMAIN args : HexByte(args[i]) # None

Validate(tokens) ==
  LET args == Tail(tokens)
      check(ok) == IF ok THEN None ELSE "argument"
  IN  CASE tokens = <<>>                                      -> "command"
        [] tokens # <<>> /\ tokens[1] = <<"OTA">>             -> None
        [] tokens # <<>> /\ tokens[1] \in {<<"VER">>, <<"USTATUS">>} -> check(args = <<>>)
        [] tokens # <<>> /\ tokens[1] \in {<<"USWITCH">>, <<"UPAIR">>} -> check(OneSlot(args))
        [] tokens # <<>> /\ tokens[1] = <<"UKEYDOWN">>        -> check(Keys(args))
        [] OTHER                                              -> "command"

StripCr(line) == IF line # <<>> /\ Last(line) = CR THEN Front(line) ELSE line

Digits(line) == SubSeq(line, 2, NumberLen + 1)

\* Numbered: "@", the digits in upper case, a space.
IsNumbered(line) ==
  /\ Len(line) >= NumberLen + 2
  /\ line[1] = "@" /\ line[NumberLen + 2] = SP
  /\ \A i \in 2..(NumberLen + 1) : IsUpper(line[i])

ParseLine(raw) ==
  LET line    == StripCr(raw)
      command == SubSeq(line, NumberLen + 3, Len(line))
  IN  IF ~IsNumbered(line) THEN None
      ELSE [number  |-> Value(Digits(line)),
            command |-> Canonical(command),
            error   |-> IF Contains(command, CR) THEN "argument"
                        ELSE Validate(Tokens(command))]

\* What is left of a number after n digits were shifted out.
Shifted(number, n) ==
  LET left[k \in 0..n] == IF k = 0 THEN number ELSE left[k - 1] \div 16
  IN  left[n]

\* Mutant: the digits of a reply, last one first.
EncodeBackwards(number) ==
  [i \in 1..NumberLen |-> Upper[(Shifted(number, i - 1) % 16) + 1]]

\* encode_reply: the digits in front of the reply.
EncodeNumber(number) ==
  [i \in 1..NumberLen |-> Upper[(Shifted(number, NumberLen - i) % 16) + 1]]
-----------------------------------------------------------------------------
(* The parser *)

Fresh == [line |-> <<>>, discard |-> FALSE]

Damaged == [line |-> <<>>, discard |-> TRUE]

\* Mutant: what is left of the old line is forgotten, what follows of it is not.
ForgetPartial(p, pending) == IF p.line # <<>> \/ pending # <<>> THEN Fresh ELSE p

\* Mutant: the change also costs the line that begins after it.
DiscardAlways(p, pending) ==
  [line |-> <<>>, discard |-> pending = <<>> \/ Last(pending) # LF]

SessionChanged(p, pending) ==
  IF p.line # <<>> \/ pending # <<>>
    THEN [line |-> <<>>, discard |-> pending = <<>> \/ Last(pending) # LF]
    ELSE p

\* Mutant: one byte too many.
HasRoomForLast(p) == Len(p.line) <= LineLimit

HasRoom(p) == Len(p.line) < LineLimit

\* Parser::push of a byte other than LF.
Push(p, b) ==
  IF p.discard THEN p
  ELSE IF ~HasRoom(p) \/ b = Bad THEN Damaged
  ELSE [p EXCEPT !.line = Append(@, b)]

\* Parser::push of LF.
PushedFrame(p) == IF p.discard THEN None ELSE ParseLine(p.line)

\* A line that the parser may not turn into a frame whatever happens to it.
Unclean(t) == Len(t) > LineLimit \/ \E i \in DOMAIN t : t[i] = Bad
-----------------------------------------------------------------------------
Init ==
  /\ parser = Fresh
  /\ ring = <<>> /\ packet = <<>> /\ stale = FALSE
  /\ frame = None /\ lost = FALSE
  /\ text = <<>> /\ intact = TRUE
  /\ before = 0 /\ begun = FALSE

\* The task waits for bytes, an error or a change of session.
Waiting == packet = <<>>

\* The next n bytes are taken.
Taken(n) == before' = IF before > n THEN before - n ELSE 0

\* The hardware fills the ring.  (It does so too while bytes are pushed, which makes no
\* difference before the next read.  What a full ring loses is an RxError.)
Arrive ==
  /\ Waiting
  /\ \E c \in Chunks : Len(ring) + Len(c) <= RingSize /\ ring' = ring \o c
  /\ frame' = None
  /\ UNCHANGED <<parser, packet, stale, lost, text, intact, before, begun>>

\* uart_rx.read returns what there is, or less of it where the ring wraps; the bytes are
\* pushed one after the other, without an await.
Read ==
  /\ Waiting /\ ~stale
  /\ \E n \in 1..Len(ring) :
       /\ packet' = SubSeq(ring, 1, n)
       /\ ring' = SubSeq(ring, n + 1, Len(ring))
  /\ frame' = None
  /\ UNCHANGED <<parser, stale, lost, text, intact, before, begun>>

PushByte ==
  /\ packet # <<>> /\ Head(packet) # LF
  /\ packet' = Tail(packet) /\ Taken(1)
  /\ parser' = Push(parser, Head(packet))
  /\ text' = IF intact /\ ~Unclean(text) THEN Append(text, Head(packet)) ELSE text
  /\ begun' = (begun \/ before > 0)
  /\ frame' = None
  /\ UNCHANGED <<ring, stale, lost, intact>>

\* The line ends, and its frame goes into the queue.
PushLf ==
  /\ packet # <<>> /\ Head(packet) = LF
  /\ packet' = Tail(packet) /\ Taken(1)
  /\ parser' = Fresh /\ frame' = PushedFrame(parser) /\ lost' = FALSE
  /\ text' = <<>> /\ intact' = TRUE /\ begun' = FALSE
  /\ UNCHANGED <<ring, stale>>

\* The queue is full: the line is lost, and the parser discards the next one too.
PushLfFull ==
  /\ packet # <<>> /\ Head(packet) = LF
  /\ PushedFrame(parser) # None
  /\ packet' = Tail(packet) /\ Taken(1)
  /\ parser' = Damaged /\ frame' = None /\ lost' = TRUE
  /\ text' = <<>> /\ intact' = TRUE /\ begun' = FALSE
  /\ UNCHANGED <<ring, stale>>

\* A read fails.
RxError ==
  /\ Waiting
  /\ parser' = Damaged
  /\ text' = <<>> /\ intact' = FALSE
  /\ frame' = None
  /\ UNCHANGED <<ring, packet, stale, lost, before, begun>>

\* CDC_SESSION goes up, and the ring stays: of a line of which nothing was read yet, all may
\* be read in the new session.
SessionChange ==
  /\ Waiting
  /\ stale' = TRUE
  /\ text' = <<>> /\ intact' = (intact /\ text = <<>>)
  /\ before' = Len(ring) /\ begun' = (begun \/ text # <<>>)
  /\ frame' = None
  /\ UNCHANGED <<parser, ring, packet, lost>>

\* UART_SESSION_CHANGED wakes the task, which looks at the session before it reads.
RxCancelled ==
  /\ Waiting /\ stale
  /\ parser' = SessionChanged(parser, <<>>)
  /\ stale' = FALSE
  /\ frame' = None
  /\ UNCHANGED <<ring, packet, lost, text, intact, before, begun>>

\* A read ended at the same time as the session: its bytes are skipped.  (select looks at
\* the signal first; the code is prepared for both.)
ReadStale ==
  /\ Waiting /\ stale
  /\ \E n \in 1..Len(ring) :
       /\ parser' = SessionChanged(parser, SubSeq(ring, 1, n))
       /\ ring' = SubSeq(ring, n + 1, Len(ring)) /\ Taken(n)
       /\ intact' = (ring[n] = LF)
  /\ text' = <<>> /\ lost' = FALSE /\ begun' = FALSE
  /\ stale' = FALSE
  /\ frame' = None
  /\ UNCHANGED packet

Next ==
  \/ Arrive \/ Read \/ PushByte \/ PushLf \/ PushLfFull
  \/ RxError \/ SessionChange \/ RxCancelled \/ ReadStale

Spec == Init /\ [][Next]_vars
-----------------------------------------------------------------------------
(* Properties *)

\* The line never outgrows its buffer, and a line to be discarded is empty.
TypeOK ==
  /\ parser \in [line : Seq(STRING), discard : BOOLEAN]
  /\ Len(parser.line) <= LineLimit /\ (parser.discard => parser.line = <<>>)
  /\ ring \in Seq(STRING) /\ packet \in Seq(STRING) /\ text \in Seq(STRING)
  /\ stale \in BOOLEAN /\ lost \in BOOLEAN /\ intact \in BOOLEAN
  /\ before \in Nat /\ begun \in BOOLEAN

\* A frame is what one whole line on the wire says, from LF to LF: after damage, a full
\* queue, an overlong line, or a change of session after a part of the line was read, no
\* rest of a line becomes a command (uart_link.rs, damaged and session_changed).
OnlyWholeLines ==
  [][frame' # None => intact /\ ~Unclean(text) /\ frame' = ParseLine(text)]_vars

\* A line that arrives whole after a line end is not lost with an earlier one, nor with an
\* old session, so the probe of a new session gets through; the exception is a full queue,
\* which costs the line that finds it full and the whole line after that, and no more.
WholeLinesArrive ==
  [][packet # <<>> /\ packet' = Tail(packet) /\ Head(packet) = LF /\ intact /\ ~Unclean(text)
       => frame' = ParseLine(text) \/ lost' \/ lost]_vars

\* An old session's part of a command is not completed by the new session: no line is
\* queued that began before the last change of session and ended after it.  "Old partial
\* commands must be dropped up to LF" (docs/USAGE.md:445; uart_link.rs:37 and the test
\* cancelled_dma_tail_cannot_be_completed_in_the_new_session).
NoLineOfTwoSessions ==
  [][frame' # None => ~(begun /\ before = 0)]_vars

\* A reply carries the number of its request, digit for digit (encode_reply).
NumberComesBack ==
  [][frame' # None => EncodeNumber(frame'.number) = Digits(text)]_vars

\* The slot the command handler takes from a line (main.rs, UPAIR and USWITCH): the rest
\* after the name and a space, if there is any.
HandlerSlot(command) ==
  IF Len(command) > 2 THEN HexByte(SubSeq(command, 3, Len(command))) ELSE None

\* A line accepted from the UART deletes nothing, and a pairing or a switch goes to the one
\* slot that the line names, however it is spaced: the handler finds it in the canonical
\* line, so its own choice of a slot is never used (uart_link.rs, validate).
NamesItsSlot ==
  frame # None /\ frame.error = None =>
    /\ frame.command[1] # "UDELETE"
    /\ frame.command[1] \in {"USWITCH", "UPAIR"} => HandlerSlot(frame.command) \in 0..3
=============================================================================

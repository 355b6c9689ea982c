--------------------------- MODULE SessionsProofs ---------------------------
(***************************************************************************)
(* Proofs about Sessions, for every queue capacity, every bound and every   *)
(* set of requests, and, except for NoGrantIsLost, whether or not DTR may   *)
(* return unnoticed.                                                        *)
(***************************************************************************)
EXTENDS Sessions, SequenceTheorems, TLAPS

Request == UartRequest \cup CdcRequest

\* A generation is counted for damage, or for a frame that left the ring.
Counts ==
  /\ frames \in Nat
  /\ Len(ring) <= frames /\ frames <= MaxFrames
  /\ generation + Len(ring) <= MaxFaults + frames

\* The line that serial_fut sends is one for the worker.
ForWorker == serial.pc = "send" => serial.kind \in {"KEY", "SWITCH", "PAIR", "REBOOT"}

\* What TypeOK says of the flags, one by one.
Flags ==
  /\ available \in BOOLEAN /\ dtrValid \in BOOLEAN /\ cdcActive \in BOOLEAN
  /\ syncRequired \in BOOLEAN /\ damaged \in BOOLEAN /\ uploadActive \in BOOLEAN
  /\ otaActive \in BOOLEAN /\ uartReply \in BOOLEAN /\ rebootRequested \in BOOLEAN
  /\ down \in BOOLEAN /\ txBusy \in BOOLEAN /\ discard \in BOOLEAN

Numbered ==
  /\ session \in SessionNumbers /\ readSession \in SessionNumbers
  /\ generation \in Generations
  /\ lastVer \in {-1} \cup SessionNumbers /\ lastActive \in {-1} \cup SessionNumbers

\* A press that still counts was sent to a receiver that is still in use.
Keys ==
  /\ connected \in BOOLEAN
  /\ keysDown \in {"none", "uart", "cdc", "stray"}
  /\ keysDown \in {"uart", "cdc"} => connected
  /\ pressGeneration \in Generations

Channels ==
  /\ requests \in Seq(Request) /\ Len(requests) <= QueueCap
  /\ cdcReply \in SessionNumbers \cup {None}
  /\ maintenanceReady \in SessionNumbers \cup {None}
  /\ ring \in Seq(UartKinds)

WorkerTyped ==
  worker \in [pc : {"top", "wait", "run", "reply"}, seen : SessionNumbers,
              request : Request \cup {None}]

SerialTyped ==
  serial \in [pc : {"idle", "ready", "read", "send", "reply"},
              session : SessionNumbers, kind : CdcKinds \cup {None},
              upload : BOOLEAN, image : BOOLEAN]

Typed ==
  /\ Flags /\ Numbered /\ Keys /\ Channels /\ WorkerTyped /\ SerialTyped
  /\ Counts /\ ForWorker

LEMMA TypedIsTypeOK == Typed => TypeOK
BY DEF Typed, TypeOK, Flags, Numbered, Keys, Channels, WorkerTyped, SerialTyped, Request

\* The bounds, one by one.
LEMMA BoundsAreNumbers ==
  /\ QueueCap \in Nat /\ QueueCap > 0 /\ MaxSession \in Nat /\ MaxFaults \in Nat
  /\ MaxFrames \in Nat /\ None \notin Int
BY Bounds

\* The empty queue.
LEMMA EmptySequence == \A S : <<>> \in Seq(S) /\ Len(<<>>) = 0
OBVIOUS

\* The oldest request is one, and so are those behind it.
LEMMA OldestRequest ==
  ASSUME Typed, requests # <<>>
  PROVE  /\ Head(requests) \in Request
         /\ Tail(requests) \in Seq(Request)
         /\ Len(Tail(requests)) <= QueueCap
BY HeadTailProperties, LenProperties, Bounds DEF Typed, Channels

\* The fields of a request.
LEMMA RequestFields ==
  ASSUME NEW r \in Request
  PROVE  /\ r.source \in {"uart", "cdc"}
         /\ r.session \in SessionNumbers /\ r.generation \in Generations
         /\ r.source = "uart" => r.kind \in UartKinds
         /\ r.source = "cdc" => r.kind \in {"KEY", "SWITCH", "PAIR", "REBOOT"}
BY Bounds DEF Request, UartRequest, CdcRequest, Generations

\* The initial state has the types.
LEMMA InitTyped == Init => Typed
<1> SUFFICES ASSUME Init PROVE Typed OBVIOUS
<1> USE BoundsAreNumbers DEF Init, SessionNumbers, Generations
<1>1. Flags BY DEF Flags
<1>2. Numbered BY DEF Numbered
<1>3. Channels BY EmptySequence DEF Channels
<1>4. WorkerTyped BY DEF WorkerTyped
<1>5. SerialTyped BY DEF SerialTyped
<1>6. Counts BY EmptySequence DEF Counts
<1>7. ForWorker BY DEF ForWorker
<1>8. Keys BY Bounds DEF Keys
<1>9. QED BY <1>1, <1>2, <1>3, <1>4, <1>5, <1>6, <1>7, <1>8 DEF Typed

\* An all-up, or nothing to send it to: no press of a receiver in use still counts.
LEMMA AllUpReleases ==
  ASSUME Typed, AllUp
  PROVE  /\ keysDown' \in {"none", "stray"} /\ connected' = connected
         /\ pressGeneration' \in {0, pressGeneration} /\ pressGeneration' \in Generations
<1>1. Keys /\ 0 \in Generations BY Bounds DEF Typed, Generations
<1>2. CASE connected BY <1>1, <1>2 DEF AllUp, Keys
<1>3. CASE ~connected BY <1>1, <1>3 DEF AllUp, Keys
<1>4. QED BY <1>2, <1>3

\* A receiver that was not in use holds no press that still counts.
LEMMA ChoiceReleases ==
  ASSUME Typed, ChoosesReceiver
  PROVE  \/ UNCHANGED keyVars
         \/ /\ connected' \in BOOLEAN /\ keysDown' \in {"none", "stray"}
            /\ pressGeneration' = 0 /\ pressGeneration' \in Generations
<1>1. 0 \in Generations BY Bounds DEF Generations
<1>2. QED BY <1>1 DEF ChoosesReceiver
-----------------------------------------------------------------------------
\* A USB callback and control_fut keep the types.
LEMMA UsbKeepsTypes ==
  ASSUME Typed, UsbUnavailable \/ UsbConfigured \/ SetControlLine \/ Control
  PROVE  Typed'
<1> USE BoundsAreNumbers DEF Typed, SessionNumbers, Generations, usbVars, cdcVars, faultVars,
                   rebootVars, rxVars, keyVars, ghostVars, SyncAfter
<1>1. Flags'
  <2>1. CASE UsbUnavailable BY <2>1 DEF UsbUnavailable, Flags
  <2>2. CASE UsbConfigured BY <2>2 DEF UsbConfigured, Flags
  <2>3. CASE SetControlLine BY <2>3 DEF SetControlLine, Flags
  <2>4. CASE Control BY <2>4 DEF Control, Flags
  <2>5. QED BY <2>1, <2>2, <2>3, <2>4
<1>2. Numbered'
  <2>1. CASE UsbUnavailable BY <2>1 DEF UsbUnavailable, Numbered, Counts
  <2>2. CASE UsbConfigured BY <2>2 DEF UsbConfigured, Numbered, Counts
  <2>3. CASE SetControlLine BY <2>3 DEF SetControlLine, Numbered, Counts
  <2>4. CASE Control BY <2>4 DEF Control, Numbered, Counts
  <2>5. QED BY <2>1, <2>2, <2>3, <2>4
<1>3. Channels'
  BY DEF Channels, Numbered, UsbUnavailable, UsbConfigured, SetControlLine, Control
<1>4. WorkerTyped'
  BY DEF WorkerTyped, Numbered, UsbUnavailable, UsbConfigured, SetControlLine, Control
<1>5. SerialTyped'
  BY DEF SerialTyped, Numbered, UsbUnavailable, UsbConfigured, SetControlLine, Control
<1>6. Counts'
  BY DEF Counts, Numbered, Channels, UsbUnavailable, UsbConfigured, SetControlLine,
     Control
<1>7. ForWorker'
  BY DEF ForWorker, SerialTyped, UsbUnavailable, UsbConfigured, SetControlLine,
     Control
<1>8. Keys' BY DEF Keys, UsbUnavailable, UsbConfigured, SetControlLine, Control
<1>9. QED BY <1>1, <1>2, <1>3, <1>4, <1>5, <1>6, <1>7, <1>8

\* What worker_fut does without taking a request keeps the types.
LEMMA WorkerKeepsTypes ==
  ASSUME Typed, WorkerTop \/ WorkerWakes \/ WorkerFinishes \/ WorkerReplies
  PROVE  Typed'
<1> USE BoundsAreNumbers DEF Typed, SessionNumbers, Generations, usbVars, cdcVars, faultVars,
                   rebootVars, rxVars, keyVars, ghostVars, Answer
<1>1. Flags'
  <2>1. CASE WorkerTop BY <2>1 DEF WorkerTop, Flags
  <2>2. CASE WorkerWakes BY <2>2 DEF WorkerWakes, Flags
  <2>3. CASE WorkerFinishes BY <2>3 DEF WorkerFinishes, Flags
  <2>4. CASE WorkerReplies BY <2>4 DEF WorkerReplies, Flags
  <2>5. QED BY <2>1, <2>2, <2>3, <2>4
<1>2. Numbered'
  <2>1. CASE WorkerTop BY <2>1 DEF WorkerTop, Numbered, Counts
  <2>2. CASE WorkerWakes BY <2>2 DEF WorkerWakes, Numbered, Counts
  <2>3. CASE WorkerFinishes BY <2>3 DEF WorkerFinishes, Numbered, Counts
  <2>4. CASE WorkerReplies BY <2>4 DEF WorkerReplies, Numbered, Counts
  <2>5. QED BY <2>1, <2>2, <2>3, <2>4
<1>3. Channels'
  BY DEF Channels, Numbered, WorkerTop, WorkerWakes, WorkerFinishes, WorkerReplies
<1>4. WorkerTyped'
  BY DEF WorkerTyped, Numbered, WorkerTop, WorkerWakes, WorkerFinishes, WorkerReplies
<1>5. SerialTyped'
  BY DEF SerialTyped, Numbered, WorkerTop, WorkerWakes, WorkerFinishes, WorkerReplies
<1>6. Counts'
  BY DEF Counts, Numbered, Channels, WorkerTop, WorkerWakes, WorkerFinishes,
     WorkerReplies
<1>7. ForWorker'
  BY DEF ForWorker, SerialTyped, WorkerTop, WorkerWakes, WorkerFinishes, WorkerReplies
<1>8. Keys'
  <2>1. CASE WorkerTop BY <2>1, AllUpReleases DEF WorkerTop, Keys
  <2>2. CASE WorkerFinishes BY <2>2, ChoiceReleases DEF WorkerFinishes, Keys
  <2>3. CASE WorkerWakes \/ WorkerReplies BY <2>3 DEF WorkerWakes, WorkerReplies, Keys
  <2>4. QED BY <2>1, <2>2, <2>3
<1>9. QED BY <1>1, <1>2, <1>3, <1>4, <1>5, <1>6, <1>7, <1>8

\* serial_fut keeps the types.
LEMMA SerialKeepsTypes ==
  ASSUME Typed, SerialConnect \/ SerialReady \/ SerialSend \/ SerialReply \/ SerialEnd
            \/ SerialPacket \/ SerialWrite \/ SerialBoot \/ SerialAbort \/ SerialLine
  PROVE  Typed'
<1> USE BoundsAreNumbers DEF Typed, SessionNumbers, Generations, usbVars, cdcVars, faultVars,
                   rebootVars, rxVars, keyVars, ghostVars, SerialUnchanged, Reads
<1>1. Flags'
  <2>1. CASE SerialConnect BY <2>1 DEF SerialConnect, Flags
  <2>2. CASE SerialReady BY <2>2 DEF SerialReady, Flags
  <2>3. CASE SerialSend BY <2>3 DEF SerialSend, Flags
  <2>4. CASE SerialReply BY <2>4 DEF SerialReply, Flags
  <2>5. CASE SerialEnd BY <2>5 DEF SerialEnd, Flags
  <2>6. CASE SerialPacket BY <2>6 DEF SerialPacket, Flags
  <2>7. CASE SerialWrite BY <2>7 DEF SerialWrite, Flags
  <2>8. CASE SerialBoot BY <2>8 DEF SerialBoot, Flags
  <2>9. CASE SerialAbort BY <2>9 DEF SerialAbort, Flags
  <2>10. CASE SerialLine BY <2>10 DEF SerialLine, Flags
  <2>11. QED BY <2>1, <2>2, <2>3, <2>4, <2>5, <2>6, <2>7, <2>8, <2>9, <2>10
<1>2. Numbered'
  BY DEF Numbered, Counts, SerialConnect, SerialReady, SerialSend, SerialReply,
     SerialEnd, SerialPacket, SerialWrite, SerialBoot, SerialAbort, SerialLine
<1>3. Channels'
  <2>1. CASE SerialConnect BY <2>1 DEF SerialConnect, Channels, Numbered
  <2>2. CASE SerialReady BY <2>2 DEF SerialReady, Channels, Numbered
  <2>3. CASE SerialSend
    <3> DEFINE r == [source |-> "cdc", kind |-> serial.kind,
                     session |-> serial.session, generation |-> 0]
    <3>1. r \in Request BY <2>3 DEF SerialSend, SerialTyped, ForWorker, Request, CdcRequest
    <3>2. /\ requests' = Append(requests, r) /\ Len(requests) < QueueCap
          /\ requests \in Seq(Request)
      BY <2>3 DEF SerialSend, Channels
    <3> HIDE DEF r
    <3>3. requests' \in Seq(Request) /\ Len(requests') <= QueueCap
      BY <3>1, <3>2, AppendProperties, LenProperties
    <3>4. QED BY <2>3, <3>3 DEF SerialSend, Channels, Numbered
  <2>4. CASE SerialReply BY <2>4 DEF SerialReply, Channels, Numbered
  <2>5. CASE SerialEnd BY <2>5 DEF SerialEnd, Channels, Numbered
  <2>6. CASE SerialPacket BY <2>6 DEF SerialPacket, Channels, Numbered
  <2>7. CASE SerialWrite BY <2>7 DEF SerialWrite, Channels, Numbered
  <2>8. CASE SerialBoot BY <2>8 DEF SerialBoot, Channels, Numbered
  <2>9. CASE SerialAbort BY <2>9 DEF SerialAbort, Channels, Numbered
  <2>10. CASE SerialLine BY <2>10 DEF SerialLine, Channels, Numbered
  <2>11. QED BY <2>1, <2>2, <2>3, <2>4, <2>5, <2>6, <2>7, <2>8, <2>9, <2>10
<1>4. WorkerTyped'
  BY DEF WorkerTyped, Numbered, SerialConnect, SerialReady, SerialSend, SerialReply,
     SerialEnd, SerialPacket, SerialWrite, SerialBoot, SerialAbort, SerialLine
<1>5. SerialTyped'
  <2>1. CASE SerialConnect BY <2>1 DEF SerialConnect, SerialTyped, Numbered
  <2>2. CASE SerialReady BY <2>2 DEF SerialReady, SerialTyped, Numbered
  <2>3. CASE SerialSend BY <2>3 DEF SerialSend, SerialTyped, Numbered
  <2>4. CASE SerialReply BY <2>4 DEF SerialReply, SerialTyped, Numbered
  <2>5. CASE SerialEnd BY <2>5 DEF SerialEnd, SerialTyped, Numbered
  <2>6. CASE SerialPacket BY <2>6 DEF SerialPacket, SerialTyped, Numbered
  <2>7. CASE SerialWrite BY <2>7 DEF SerialWrite, SerialTyped, Numbered
  <2>8. CASE SerialBoot BY <2>8 DEF SerialBoot, SerialTyped, Numbered
  <2>9. CASE SerialAbort BY <2>9 DEF SerialAbort, SerialTyped, Numbered
  <2>10. CASE SerialLine BY <2>10 DEF SerialLine, SerialTyped, Numbered
  <2>11. QED BY <2>1, <2>2, <2>3, <2>4, <2>5, <2>6, <2>7, <2>8, <2>9, <2>10
<1>6. Counts'
  BY DEF Counts, Numbered, Channels, SerialConnect, SerialReady, SerialSend,
     SerialReply, SerialEnd, SerialPacket, SerialWrite, SerialBoot, SerialAbort,
     SerialLine
<1>7. ForWorker'
  <2>1. CASE SerialConnect BY <2>1 DEF SerialConnect, ForWorker, SerialTyped
  <2>2. CASE SerialReady BY <2>2 DEF SerialReady, ForWorker, SerialTyped
  <2>3. CASE SerialSend BY <2>3 DEF SerialSend, ForWorker, SerialTyped
  <2>4. CASE SerialReply BY <2>4 DEF SerialReply, ForWorker, SerialTyped
  <2>5. CASE SerialEnd BY <2>5 DEF SerialEnd, ForWorker, SerialTyped
  <2>6. CASE SerialPacket BY <2>6 DEF SerialPacket, ForWorker, SerialTyped
  <2>7. CASE SerialWrite BY <2>7 DEF SerialWrite, ForWorker, SerialTyped
  <2>8. CASE SerialBoot BY <2>8 DEF SerialBoot, ForWorker, SerialTyped
  <2>9. CASE SerialAbort BY <2>9 DEF SerialAbort, ForWorker, SerialTyped
  <2>10. CASE SerialLine BY <2>10 DEF SerialLine, ForWorker, SerialTyped
  <2>11. QED BY <2>1, <2>2, <2>3, <2>4, <2>5, <2>6, <2>7, <2>8, <2>9, <2>10
<1>8. Keys'
  BY DEF Keys, SerialConnect, SerialReady, SerialSend, SerialReply, SerialEnd,
     SerialPacket, SerialWrite, SerialBoot, SerialAbort, SerialLine
<1>9. QED BY <1>1, <1>2, <1>3, <1>4, <1>5, <1>6, <1>7, <1>8

\* The tasks of the UART and the reset keep the types.
LEMMA UartKeepsTypes ==
  ASSUME Typed, UartFrame \/ RxSession \/ RxFrame \/ RxError \/ TxTake \/ TxDone \/
            Reset
  PROVE  Typed'
<1> USE BoundsAreNumbers DEF Typed, SessionNumbers, Generations, usbVars, cdcVars, faultVars,
                   rebootVars, rxVars, keyVars, ghostVars, UartUnchanged, Damage
<1>1. Flags'
  <2>1. CASE UartFrame BY <2>1 DEF UartFrame, Flags
  <2>2. CASE RxSession BY <2>2 DEF RxSession, Flags
  <2>3. CASE RxFrame BY <2>3 DEF RxFrame, Flags
  <2>4. CASE RxError BY <2>4 DEF RxError, Flags
  <2>5. CASE TxTake BY <2>5 DEF TxTake, Flags
  <2>6. CASE TxDone BY <2>6 DEF TxDone, Flags
  <2>7. CASE Reset BY <2>7 DEF Reset, Flags
  <2>8. QED BY <2>1, <2>2, <2>3, <2>4, <2>5, <2>6, <2>7
<1>2. Numbered'
  <2>1. CASE UartFrame BY <2>1 DEF UartFrame, Numbered, Counts
  <2>2. CASE RxSession BY <2>2 DEF RxSession, Numbered, Counts
  <2>3. CASE RxFrame BY <2>3 DEF RxFrame, Numbered, Counts
  <2>4. CASE RxError BY <2>4 DEF RxError, Numbered, Counts
  <2>5. CASE TxTake BY <2>5 DEF TxTake, Numbered, Counts
  <2>6. CASE TxDone BY <2>6 DEF TxDone, Numbered, Counts
  <2>7. CASE Reset BY <2>7 DEF Reset, Numbered, Counts
  <2>8. QED BY <2>1, <2>2, <2>3, <2>4, <2>5, <2>6, <2>7
<1>3. Channels'
  <2>1. CASE UartFrame BY <2>1 DEF UartFrame, Channels, Numbered
  <2>2. CASE RxSession BY <2>2 DEF RxSession, Channels, Numbered
  <2>3. CASE RxFrame
    <3> DEFINE r == [source |-> "uart", kind |-> Head(ring), session |-> readSession,
                     generation |-> generation]
    <3>1. ring \in Seq(UartKinds) /\ ring # <<>> /\ ring' = Tail(ring)
      BY <2>3 DEF RxFrame, Channels
    <3>2. Head(ring) \in UartKinds /\ ring' \in Seq(UartKinds)
      BY <3>1, HeadTailProperties
    <3>3. r \in Request BY <3>2 DEF Numbered, Request, UartRequest
    <3>4. requests \in Seq(Request) /\ Len(requests) <= QueueCap BY DEF Channels
    <3>5. \/ requests' = requests
          \/ requests' = Append(requests, r) /\ Len(requests) < QueueCap
      BY <2>3 DEF RxFrame
    <3> HIDE DEF r
    <3>6. requests' \in Seq(Request) /\ Len(requests') <= QueueCap
      BY <3>3, <3>4, <3>5, AppendProperties, LenProperties
    <3>7. QED BY <2>3, <3>2, <3>6 DEF RxFrame, Channels, Numbered
  <2>4. CASE RxError BY <2>4 DEF RxError, Channels, Numbered
  <2>5. CASE TxTake BY <2>5 DEF TxTake, Channels, Numbered
  <2>6. CASE TxDone BY <2>6 DEF TxDone, Channels, Numbered
  <2>7. CASE Reset BY <2>7 DEF Reset, Channels, Numbered
  <2>8. QED BY <2>1, <2>2, <2>3, <2>4, <2>5, <2>6, <2>7
<1>4. WorkerTyped'
  BY DEF WorkerTyped, Numbered, UartFrame, RxSession, RxFrame, RxError, TxTake,
     TxDone, Reset
<1>5. SerialTyped'
  BY DEF SerialTyped, Numbered, UartFrame, RxSession, RxFrame, RxError, TxTake,
     TxDone, Reset
<1>6. Counts'
  <2>1. CASE UartFrame BY <2>1 DEF UartFrame, Counts, Numbered, Channels
  <2>2. CASE RxSession BY <2>2 DEF RxSession, Counts, Numbered, Channels
  <2>3. CASE RxFrame BY <2>3 DEF RxFrame, Counts, Numbered, Channels
  <2>4. CASE RxError BY <2>4 DEF RxError, Counts, Numbered, Channels
  <2>5. CASE TxTake BY <2>5 DEF TxTake, Counts, Numbered, Channels
  <2>6. CASE TxDone BY <2>6 DEF TxDone, Counts, Numbered, Channels
  <2>7. CASE Reset BY <2>7 DEF Reset, Counts, Numbered, Channels
  <2>8. QED BY <2>1, <2>2, <2>3, <2>4, <2>5, <2>6, <2>7
<1>7. ForWorker'
  BY DEF ForWorker, SerialTyped, UartFrame, RxSession, RxFrame, RxError, TxTake,
     TxDone, Reset
<1>8. Keys'
  BY DEF Keys, UartFrame, RxSession, RxFrame, RxError, TxTake, TxDone, Reset
<1>9. QED BY <1>1, <1>2, <1>3, <1>4, <1>5, <1>6, <1>7, <1>8

\* A request that the worker takes, by how it goes on.
TakesOne(r) ==
  \/ WorkerDrops(r) \/ WorkerRefuses(r) \/ WorkerSyncs(r)
  \/ WorkerOta(r) \/ WorkerKeys(r) \/ WorkerSwitches(r) \/ WorkerStarts(r)

\* A step of the worker takes the oldest request, or none.
LEMMA WorkerSteps ==
  ASSUME Typed, Worker
  PROVE  \/ WorkerTop \/ WorkerWakes \/ WorkerFinishes \/ WorkerReplies
         \/ requests # <<>> /\ TakesOne(Head(requests))
BY DEF Worker, TakesOne

\* Taking a request keeps the types.
LEMMA RequestKeepsTypes ==
  ASSUME Typed, requests # <<>>, TakesOne(Head(requests))
  PROVE  Typed'
<1> DEFINE r == Head(requests)
<1>1. r \in Request /\ requests' \in Seq(Request) /\ Len(requests') <= QueueCap
  BY OldestRequest DEF TakesOne, WorkerDrops, WorkerRefuses, WorkerSyncs, WorkerOta,
                       WorkerKeys, WorkerSwitches, WorkerStarts, Takes
<1>2. /\ r.source \in {"uart", "cdc"}
      /\ r.session \in SessionNumbers /\ r.generation \in Generations
  BY <1>1, RequestFields
<1>3. TakesOne(r) OBVIOUS
<1> HIDE DEF r
<1> USE BoundsAreNumbers DEF Typed, Takes, Answer, SessionNumbers, Generations, usbVars,
        cdcVars, faultVars, rebootVars, rxVars, keyVars, ghostVars
<1>4. Takes(r) BY <1>3 DEF TakesOne, WorkerDrops, WorkerRefuses, WorkerSyncs, WorkerOta,
                           WorkerKeys, WorkerSwitches, WorkerStarts
<1>5. SerialTyped' BY <1>4 DEF SerialTyped
<1>6. Counts' BY <1>4 DEF Counts
<1>7. ForWorker' BY <1>4 DEF ForWorker
<1>8. Flags'
  <2>1. CASE WorkerDrops(r) BY <2>1 DEF WorkerDrops, Flags
  <2>2. CASE WorkerRefuses(r) BY <2>2 DEF WorkerRefuses, Flags
  <2>3. CASE WorkerSyncs(r) BY <2>3 DEF WorkerSyncs, Flags
  <2>4. CASE WorkerOta(r) BY <2>4 DEF WorkerOta, Flags
  <2>5. CASE WorkerKeys(r) BY <2>5 DEF WorkerKeys, Flags
  <2>6. CASE WorkerStarts(r) BY <2>6 DEF WorkerStarts, Flags
  <2>7. CASE WorkerSwitches(r) BY <2>7 DEF WorkerSwitches, Flags
  <2>8. QED BY <1>3, <2>1, <2>2, <2>3, <2>4, <2>5, <2>6, <2>7 DEF TakesOne
<1>9. Numbered'
  <2>1. CASE WorkerDrops(r) BY <1>2, <2>1 DEF WorkerDrops, Numbered
  <2>2. CASE WorkerRefuses(r) BY <1>2, <2>2 DEF WorkerRefuses, Numbered
  <2>3. CASE WorkerSyncs(r) BY <1>2, <2>3 DEF WorkerSyncs, Numbered
  <2>4. CASE WorkerOta(r) BY <1>2, <2>4 DEF WorkerOta, Numbered
  <2>5. CASE WorkerKeys(r) BY <1>2, <2>5 DEF WorkerKeys, Numbered
  <2>6. CASE WorkerStarts(r) BY <1>2, <2>6 DEF WorkerStarts, Numbered
  <2>7. CASE WorkerSwitches(r) BY <1>2, <2>7 DEF WorkerSwitches, Numbered
  <2>8. QED BY <1>3, <2>1, <2>2, <2>3, <2>4, <2>5, <2>6, <2>7 DEF TakesOne
<1>10. Channels'
  <2>1. CASE WorkerDrops(r) BY <1>1, <2>1 DEF WorkerDrops, Channels, Numbered
  <2>2. CASE WorkerRefuses(r) BY <1>1, <2>2 DEF WorkerRefuses, Channels, Numbered
  <2>3. CASE WorkerSyncs(r) BY <1>1, <2>3 DEF WorkerSyncs, Channels, Numbered
  <2>4. CASE WorkerOta(r) BY <1>1, <2>4 DEF WorkerOta, Channels, Numbered
  <2>5. CASE WorkerKeys(r) BY <1>1, <2>5 DEF WorkerKeys, Channels, Numbered
  <2>6. CASE WorkerStarts(r) BY <1>1, <2>6 DEF WorkerStarts, Channels, Numbered
  <2>7. CASE WorkerSwitches(r) BY <1>1, <2>7 DEF WorkerSwitches, Channels, Numbered
  <2>8. QED BY <1>3, <2>1, <2>2, <2>3, <2>4, <2>5, <2>6, <2>7 DEF TakesOne
<1>11. WorkerTyped'
  <2>1. CASE WorkerDrops(r) BY <1>1, <2>1 DEF WorkerDrops, WorkerTyped
  <2>2. CASE WorkerRefuses(r) BY <1>1, <2>2 DEF WorkerRefuses, WorkerTyped
  <2>3. CASE WorkerSyncs(r) BY <1>1, <2>3 DEF WorkerSyncs, WorkerTyped
  <2>4. CASE WorkerOta(r) BY <1>1, <2>4 DEF WorkerOta, WorkerTyped
  <2>5. CASE WorkerKeys(r) BY <1>1, <2>5 DEF WorkerKeys, WorkerTyped
  <2>6. CASE WorkerStarts(r) BY <1>1, <2>6 DEF WorkerStarts, WorkerTyped
  <2>7. CASE WorkerSwitches(r) BY <1>1, <2>7 DEF WorkerSwitches, WorkerTyped
  <2>8. QED BY <1>3, <2>1, <2>2, <2>3, <2>4, <2>5, <2>6, <2>7 DEF TakesOne
<1>12. Keys'
  <2>1. CASE WorkerOta(r)
    <3>1. AllUp \/ UNCHANGED keyVars BY <2>1 DEF WorkerOta
    <3>2. QED BY <3>1, AllUpReleases DEF Keys
  <2>2. CASE WorkerKeys(r)
    <3>1. \/ UNCHANGED keyVars
          \/ /\ connected /\ connected' = connected /\ keysDown' \in {r.source, "none"}
             /\ pressGeneration' \in {0, r.generation}
      BY <2>2 DEF WorkerKeys
    <3>2. QED BY <1>2, <3>1 DEF Keys
  <2>3. CASE WorkerSwitches(r) BY <2>3, ChoiceReleases DEF WorkerSwitches, Keys
  <2>4. CASE WorkerDrops(r) BY <2>4 DEF WorkerDrops, Keys
  <2>5. CASE WorkerRefuses(r) BY <2>5 DEF WorkerRefuses, Keys
  <2>6. CASE WorkerSyncs(r) BY <2>6 DEF WorkerSyncs, Keys
  <2>7. CASE WorkerStarts(r) BY <2>7 DEF WorkerStarts, Keys
  <2>8. QED BY <1>3, <2>1, <2>2, <2>3, <2>4, <2>5, <2>6, <2>7 DEF TakesOne
<1>13. QED BY <1>5, <1>6, <1>7, <1>8, <1>9, <1>10, <1>11, <1>12

\* Every step keeps the types.
LEMMA NextKeepsTypes == Typed /\ [Next]_vars => Typed'
<1> SUFFICES ASSUME Typed, [Next]_vars PROVE Typed' OBVIOUS
<1>1. CASE UsbUnavailable \/ UsbConfigured \/ SetControlLine \/ Control
  BY <1>1, UsbKeepsTypes
<1>2. CASE Worker BY <1>2, WorkerSteps, WorkerKeepsTypes, RequestKeepsTypes
<1>3. CASE Serial BY <1>3, SerialKeepsTypes DEF Serial, SerialGoesOn
<1>4. CASE UartFrame \/ Rx \/ RxError \/ Tx \/ Reset
  BY <1>4, UartKeepsTypes DEF Rx, Tx
<1>5. CASE UNCHANGED vars
  BY <1>5 DEF vars, usbVars, cdcVars, faultVars, rebootVars, rxVars, keyVars, ghostVars,
              Typed, Flags, Numbered, Keys, Channels, WorkerTyped, SerialTyped, Counts,
              ForWorker
<1>6. QED BY <1>1, <1>2, <1>3, <1>4, <1>5 DEF Next

\* Flags, queues and program counters stay within what the code can hold, for every queue
\* capacity; REQUESTS never exceeds its own (main.rs, the statics and the five tasks).
THEOREM TypeCorrect == Spec => []TypeOK
<1>1. Init => Typed BY InitTyped
<1>2. Typed /\ [Next]_vars => Typed' BY NextKeepsTypes
<1>3. Typed => TypeOK BY TypedIsTypeOK
<1>4. QED BY <1>1, <1>2, <1>3, PTL DEF Spec
-----------------------------------------------------------------------------
(* The grant *)

\* No number of a session is ahead of CDC_SESSION, and a new one is ahead of them all.
NotAhead ==
  /\ serial.session <= session
  /\ maintenanceReady # None => maintenanceReady <= session

\* A grant of the live session, under way or received, finds no UART command running and
\* no key of the UART down.
GrantHolds ==
  (cdcActive /\ maintenanceReady = session) \/ Granted =>
    /\ worker.request # None => worker.request.source = "cdc"
    /\ keysDown # "uart"

\* At the top of its loop, and while it waits, the worker runs no request.
AtRest == worker.pc \in {"top", "wait"} => worker.request = None

GrantInv == NotAhead /\ AtRest /\ GrantHolds

LEMMA InitGrant == Init => GrantInv
BY Bounds DEF Init, GrantInv, NotAhead, AtRest, GrantHolds, Granted, Live

\* The USB callbacks and control_fut begin a session no grant was given for.
LEMMA UsbKeepsGrant ==
  ASSUME Typed, GrantInv, UsbUnavailable \/ UsbConfigured \/ SetControlLine \/ Control
  PROVE  GrantInv'
<1> USE BoundsAreNumbers DEF GrantInv, NotAhead, AtRest, GrantHolds, Granted, Live,
          usbVars, cdcVars, faultVars, rebootVars, rxVars, keyVars, ghostVars
<1>0. session \in Int /\ serial.session \in Int /\ maintenanceReady \in Int \cup {None}
  BY DEF Typed, Numbered, SerialTyped, Channels, SessionNumbers
<1>1. CASE UsbUnavailable \/ Control
  <2>1. session' = session + 1 /\ serial' = serial
        /\ maintenanceReady' = maintenanceReady /\ worker' = worker
    BY <1>1 DEF UsbUnavailable, Control
  <2>2. serial'.session # session' /\ maintenanceReady' # session' BY <1>0, <2>1
  <2>3. NotAhead' BY <1>0, <2>1
  <2>4. QED BY <2>1, <2>2, <2>3
<1>2. CASE UsbConfigured \/ SetControlLine BY <1>2 DEF UsbConfigured, SetControlLine
<1>3. QED BY <1>1, <1>2

\* WorkerTop grants after it has released the keys, and no request is running then.
LEMMA WorkerKeepsGrant ==
  ASSUME Typed, GrantInv, WorkerTop \/ WorkerWakes \/ WorkerFinishes \/ WorkerReplies
  PROVE  GrantInv'
<1> USE BoundsAreNumbers DEF GrantInv, NotAhead, AtRest, GrantHolds, Granted, Live,
          usbVars, cdcVars, faultVars, rebootVars, rxVars, keyVars, ghostVars
<1>0. /\ session \in Int /\ serial.session \in Int
      /\ maintenanceReady \in Int \cup {None}
      /\ DOMAIN worker = {"pc", "seen", "request"}
  BY DEF Typed, Numbered, SerialTyped, Channels, WorkerTyped, SessionNumbers
<1>1. CASE WorkerTop
  <2>1. worker.request = None /\ worker'.request = None
    BY <1>1, <1>0 DEF WorkerTop, Typed, WorkerTyped
  <2>2. /\ serial' = serial /\ session' = session /\ cdcActive' = cdcActive
        /\ maintenanceReady' \in {session, maintenanceReady}
    BY <1>1 DEF WorkerTop
  <2>3. NotAhead' BY <1>0, <2>2
  <2>4. AtRest' BY <2>1
  <2>5. keysDown' # "uart" \/ (keysDown' = keysDown /\ maintenanceReady' = maintenanceReady)
    BY <1>1, AllUpReleases DEF WorkerTop
  <2>6. GrantHolds' BY <2>1, <2>2, <2>5
  <2>7. QED BY <2>3, <2>4, <2>6
<1>2. CASE WorkerWakes
  <2>1. worker'.request = worker.request /\ worker.pc = "wait"
    BY <1>2, <1>0 DEF WorkerWakes, Typed, WorkerTyped
  <2>2. QED BY <1>2, <2>1 DEF WorkerWakes
<1>3. CASE WorkerFinishes
  <2>1. worker'.request \in {worker.request, None} /\ (worker'.pc = "top" => worker'.request = None)
        /\ worker'.pc \in {"top", "reply"}
    BY <1>3, <1>0 DEF WorkerFinishes, Answer, Typed, WorkerTyped
  <2>2. keysDown' = keysDown \/ keysDown' # "uart"
    BY <1>3, ChoiceReleases DEF WorkerFinishes
  <2>3. QED BY <1>3, <2>1, <2>2 DEF WorkerFinishes
<1>4. CASE WorkerReplies
  <2>1. worker'.request = None
    BY <1>4, <1>0 DEF WorkerReplies, Typed, WorkerTyped
  <2>2. QED BY <1>4, <2>1 DEF WorkerReplies
<1>5. QED BY <1>1, <1>2, <1>3, <1>4

\* While CDC is active a request of the UART is out of turn.
LEMMA RequestKeepsGrant ==
  ASSUME Typed, GrantInv, requests # <<>>, TakesOne(Head(requests))
  PROVE  GrantInv'
<1> DEFINE r == Head(requests)
<1>1. TakesOne(r) /\ r \in Request /\ r.source \in {"uart", "cdc"}
  BY OldestRequest, RequestFields
<1> HIDE DEF r
<1>2. Takes(r) BY <1>1 DEF TakesOne, WorkerDrops, WorkerRefuses, WorkerSyncs, WorkerOta,
                           WorkerKeys, WorkerSwitches, WorkerStarts
<1>3. /\ session' = session /\ cdcActive' = cdcActive /\ serial' = serial
      /\ maintenanceReady' = maintenanceReady /\ worker.pc = "wait"
  BY <1>2 DEF Takes, cdcVars
<1>4. worker.request = None BY <1>3 DEF GrantInv, AtRest
<1>5. NotAhead' BY <1>3 DEF GrantInv, NotAhead
<1>6. /\ worker'.request \in {None, r}
      /\ worker'.pc \in {"top", "wait"} => worker'.request = None
      /\ worker'.request = r /\ r # None => ~Busy(r)
  <2>1. worker \in [pc : {"top", "wait", "run", "reply"}, seen : SessionNumbers,
                    request : Request \cup {None}]
    BY DEF Typed, WorkerTyped
  <2>2. CASE WorkerDrops(r) BY <1>4, <2>1, <2>2 DEF WorkerDrops
  <2>3. CASE WorkerRefuses(r) BY <1>4, <2>1, <2>3 DEF WorkerRefuses, Answer
  <2>4. CASE WorkerSyncs(r) BY <2>1, <2>4 DEF WorkerSyncs, Answer
  <2>5. CASE WorkerOta(r) BY <2>1, <2>5 DEF WorkerOta, Answer
  <2>6. CASE WorkerKeys(r) BY <2>1, <2>6 DEF WorkerKeys, Answer
  <2>7. CASE WorkerStarts(r) BY <2>1, <2>7 DEF WorkerStarts
  <2>8. CASE WorkerSwitches(r) BY <2>1, <2>8 DEF WorkerSwitches, Answer
  <2>9. QED BY <1>1, <2>2, <2>3, <2>4, <2>5, <2>6, <2>7, <2>8 DEF TakesOne
<1>7. \/ keysDown' = keysDown
      \/ keysDown' \in {"none", "stray"}
      \/ keysDown' = r.source /\ ~Busy(r)
  <2>1. CASE WorkerOta(r)
    <3>1. AllUp \/ UNCHANGED keyVars BY <2>1 DEF WorkerOta
    <3>2. QED BY <3>1, AllUpReleases DEF keyVars
  <2>2. CASE WorkerKeys(r) BY <2>2 DEF WorkerKeys, keyVars
  <2>3. CASE WorkerSwitches(r) BY <2>3, ChoiceReleases DEF WorkerSwitches, keyVars
  <2>4. CASE WorkerDrops(r) \/ WorkerRefuses(r) \/ WorkerSyncs(r) \/ WorkerStarts(r)
    <3>1. UNCHANGED keyVars
      BY <2>4 DEF WorkerDrops, WorkerRefuses, WorkerSyncs, WorkerStarts
    <3>2. QED BY <3>1 DEF keyVars
  <2>5. QED BY <1>1, <2>1, <2>2, <2>3, <2>4 DEF TakesOne
<1>8. ASSUME cdcActive, ~Busy(r) PROVE r.source = "cdc"
  BY <1>1, <1>8 DEF Busy, OutOfTurn
<1>9. GrantHolds'
  <2> SUFFICES ASSUME cdcActive, (maintenanceReady = session) \/ Granted
               PROVE  /\ worker'.request # None => worker'.request.source = "cdc"
                      /\ keysDown' # "uart"
    BY <1>3 DEF GrantHolds, Granted, Live
  <2>1. keysDown # "uart" BY DEF GrantInv, GrantHolds
  <2>2. QED BY <1>6, <1>7, <1>8, <2>1
<1>10. QED BY <1>5, <1>6, <1>9 DEF GrantInv, AtRest

\* serial_fut is granted only what worker_fut signalled for its session.
LEMMA SerialKeepsGrant ==
  ASSUME Typed, GrantInv, Serial
  PROVE  GrantInv'
<1>1. /\ session \in Int /\ serial.session \in Int
      /\ serial \in [pc : {"idle", "ready", "read", "send", "reply"},
                     session : SessionNumbers, kind : CdcKinds \cup {None},
                     upload : BOOLEAN, image : BOOLEAN]
  BY DEF Typed, Numbered, SerialTyped, SessionNumbers
<1>2. /\ session' = session /\ cdcActive' = cdcActive /\ worker' = worker
      /\ keysDown' = keysDown
  BY DEF Serial, SerialGoesOn, SerialConnect, SerialReady, SerialSend, SerialReply,
         SerialEnd, SerialPacket, SerialWrite, SerialBoot, SerialAbort, SerialLine, Reads,
         SerialUnchanged, cdcVars, keyVars
<1>3. /\ \/ serial'.session = serial.session
         \/ serial'.session = session /\ serial'.pc = "ready"
      /\ \/ serial'.pc \in {"idle", "ready"}
         \/ serial.pc \in {"read", "send", "reply"} /\ serial'.session = serial.session
         \/ maintenanceReady = serial.session /\ serial'.session = serial.session
  <2>1. CASE SerialConnect BY <1>1, <2>1 DEF SerialConnect
  <2>2. CASE SerialReady BY <1>1, <2>2 DEF SerialReady
  <2>3. CASE SerialSend BY <1>1, <2>3 DEF SerialSend
  <2>4. CASE SerialReply BY <1>1, <2>4 DEF SerialReply
  <2>5. CASE SerialEnd BY <1>1, <2>5 DEF SerialEnd
  <2>6. CASE SerialPacket BY <1>1, <2>6 DEF SerialPacket, Reads
  <2>7. CASE SerialWrite BY <1>1, <2>7 DEF SerialWrite, Reads
  <2>8. CASE SerialBoot BY <1>1, <2>8 DEF SerialBoot, Reads
  <2>9. CASE SerialAbort BY <1>1, <2>9 DEF SerialAbort, Reads
  <2>10. CASE SerialLine BY <1>1, <2>10 DEF SerialLine, Reads
  <2>11. QED
    BY <2>1, <2>2, <2>3, <2>4, <2>5, <2>6, <2>7, <2>8, <2>9, <2>10
    DEF Serial, SerialGoesOn
<1>4. maintenanceReady' \in {maintenanceReady, None}
  BY DEF Serial, SerialGoesOn, SerialConnect, SerialReady, SerialSend, SerialReply,
         SerialEnd, SerialPacket, SerialWrite, SerialBoot, SerialAbort, SerialLine, Reads
<1>5. NotAhead' BY <1>1, <1>2, <1>3, <1>4 DEF GrantInv, NotAhead
<1>6. GrantHolds'
  <2>1. (cdcActive /\ maintenanceReady' = session) => (cdcActive /\ maintenanceReady = session)
    BY <1>1, <1>4, BoundsAreNumbers
  <2>2. Granted' => (cdcActive /\ maintenanceReady = session) \/ Granted
    BY <1>2, <1>3 DEF Granted, Live
  <2>3. QED BY <1>2, <2>1, <2>2 DEF GrantInv, GrantHolds
<1>7. QED BY <1>2, <1>5, <1>6 DEF GrantInv, AtRest

LEMMA NextKeepsGrant == Typed /\ GrantInv /\ [Next]_vars => GrantInv'
<1> SUFFICES ASSUME Typed, GrantInv, [Next]_vars PROVE GrantInv' OBVIOUS
<1>1. CASE UsbUnavailable \/ UsbConfigured \/ SetControlLine \/ Control
  BY <1>1, UsbKeepsGrant
<1>2. CASE Worker BY <1>2, WorkerSteps, WorkerKeepsGrant, RequestKeepsGrant
<1>3. CASE Serial BY <1>3, SerialKeepsGrant
<1>4. CASE UartFrame \/ Rx \/ RxError \/ Tx \/ Reset \/ UNCHANGED vars
  <2>1. /\ session' = session /\ cdcActive' = cdcActive /\ serial' = serial
        /\ maintenanceReady' = maintenanceReady /\ worker' = worker /\ keysDown' = keysDown
    BY <1>4 DEF UartFrame, Rx, RxSession, RxFrame, RxError, Tx, TxTake, TxDone, Reset,
                UartUnchanged, vars, cdcVars, keyVars
  <2>2. QED BY <2>1 DEF GrantInv, NotAhead, AtRest, GrantHolds, Granted, Live
<1>5. QED BY <1>1, <1>2, <1>3, <1>4 DEF Next

\* While CDC has maintenance the worker runs no UART command, however opening, closing,
\* commands and time-outs interleave (main.rs, worker_fut and serial_fut).
THEOREM GrantIsExclusive == Spec => []ExclusiveGrant
<1>1. Init => Typed /\ GrantInv BY InitTyped, InitGrant
<1>2. Typed /\ GrantInv /\ [Next]_vars => Typed' /\ GrantInv'
  BY NextKeepsTypes, NextKeepsGrant
<1>3. GrantInv => ExclusiveGrant BY DEF GrantInv, GrantHolds, ExclusiveGrant
<1>4. QED BY <1>1, <1>2, <1>3, PTL DEF Spec

\* When maintenance is granted, no press of the UART is the last report sent to the receiver in
\* use (main.rs, the all-up in worker_fut, sent only while connected): a press counts only while
\* its receiver is still in use, which is then connected.  A receiver left with a key down, or
\* deaf to the all-up, is not spoken of.
THEOREM KeysAreUp == Spec => []KeysUpWhileGranted
<1>1. Init => Typed /\ GrantInv BY InitTyped, InitGrant
<1>2. Typed /\ GrantInv /\ [Next]_vars => Typed' /\ GrantInv'
  BY NextKeepsTypes, NextKeepsGrant
<1>3. GrantInv => KeysUpWhileGranted BY DEF GrantInv, GrantHolds, KeysUpWhileGranted
<1>4. QED BY <1>1, <1>2, <1>3, PTL DEF Spec
-----------------------------------------------------------------------------
(* Keys after damage *)

\* A press is of the current generation when it is sent; damage is pending until the
\* worker has released all keys.
LEMMA NextKeepsPress == Typed /\ NoStuckKey /\ [Next]_vars => NoStuckKey'
<1> SUFFICES ASSUME Typed, NoStuckKey, [Next]_vars PROVE NoStuckKey' OBVIOUS
<1>0. ASSUME keysDown' # "uart" PROVE NoStuckKey' BY <1>0 DEF NoStuckKey
<1>1. CASE WorkerTop
  <2>1. CASE AllUp BY <1>0, <2>1, AllUpReleases
  <2>2. CASE ~damaged /\ UNCHANGED keyVars
    BY <1>1, <2>2 DEF WorkerTop, NoStuckKey, keyVars
  <2>3. QED BY <1>1, <2>1, <2>2 DEF WorkerTop
<1>2. ASSUME requests # <<>>, TakesOne(Head(requests)) PROVE NoStuckKey'
  <2> DEFINE r == Head(requests)
  <2>1. TakesOne(r) /\ r.source \in {"uart", "cdc"}
    BY <1>2, OldestRequest, RequestFields
  <2> HIDE DEF r
  <2>2. damaged' = damaged /\ generation' = generation
    BY <2>1 DEF TakesOne, WorkerDrops, WorkerRefuses, WorkerSyncs, WorkerOta, WorkerKeys, WorkerSwitches,
                WorkerStarts, Takes, faultVars
  <2>3. CASE WorkerKeys(r)
    <3>1. \/ keysDown' = "none"
          \/ keysDown' = r.source /\ (r.source = "uart" => pressGeneration' = r.generation)
          \/ UNCHANGED keyVars
      BY <2>3 DEF WorkerKeys
    <3>2. r.source = "uart" => r.generation = generation BY <2>3 DEF WorkerKeys, Dropped
    <3>3. QED BY <2>2, <3>1, <3>2 DEF NoStuckKey, keyVars
  <2>4. CASE WorkerOta(r) \/ WorkerSwitches(r)
    <3>1. keysDown' # "uart" \/ UNCHANGED keyVars
      BY <2>4, AllUpReleases, ChoiceReleases DEF WorkerOta, WorkerSwitches
    <3>2. QED BY <2>2, <3>1 DEF NoStuckKey, keyVars
  <2>5. CASE WorkerDrops(r) \/ WorkerRefuses(r) \/ WorkerSyncs(r) \/ WorkerStarts(r)
    <3>1. UNCHANGED keyVars
      BY <2>5 DEF WorkerDrops, WorkerRefuses, WorkerSyncs, WorkerStarts
    <3>2. QED BY <2>2, <3>1 DEF NoStuckKey, keyVars
  <2>6. QED BY <2>1, <2>3, <2>4, <2>5 DEF TakesOne
<1>3. CASE RxFrame \/ RxError \/ TxDone
  <2>1. UNCHANGED keyVars /\ (UNCHANGED faultVars \/ damaged')
    BY <1>3 DEF RxFrame, RxError, TxDone, Damage, UartUnchanged
  <2>2. QED BY <2>1 DEF NoStuckKey, keyVars, faultVars
<1>4. ASSUME UNCHANGED keyVars, UNCHANGED faultVars PROVE NoStuckKey'
  BY <1>4 DEF NoStuckKey, keyVars, faultVars
<1>5. CASE UsbUnavailable \/ UsbConfigured \/ SetControlLine \/ Control
  BY <1>4, <1>5 DEF UsbUnavailable, UsbConfigured, SetControlLine, Control
<1>6. CASE WorkerWakes \/ WorkerFinishes \/ WorkerReplies
  <2>1. CASE WorkerFinishes
    <3>1. keysDown' # "uart" \/ UNCHANGED keyVars
      BY <2>1, ChoiceReleases DEF WorkerFinishes
    <3>2. QED BY <1>0, <1>4, <2>1, <3>1 DEF WorkerFinishes
  <2>2. QED BY <1>4, <1>6, <2>1 DEF WorkerWakes, WorkerReplies
<1>7. CASE Serial
  BY <1>4, <1>7 DEF Serial, SerialGoesOn, SerialConnect, SerialReady, SerialSend,
                    SerialReply, SerialEnd, SerialPacket, SerialWrite, SerialBoot,
                    SerialAbort, SerialLine, Reads, SerialUnchanged
<1>8. CASE UartFrame \/ RxSession \/ TxTake \/ Reset \/ UNCHANGED vars
  BY <1>4, <1>8 DEF UartFrame, RxSession, TxTake, Reset, UartUnchanged, vars
<1>9. QED
  <2>1. CASE Worker BY <1>1, <1>2, <1>6, <2>1, WorkerSteps
  <2>2. QED BY <1>3, <1>5, <1>7, <1>8, <2>1 DEF Next, Rx, Tx

\* While the receiver in use holds a key that a line from before the damage pressed, the all-up
\* is still owed, whatever was queued in between (main.rs, UART_GENERATION and UART_DAMAGED):
\* the worker may take the flag back unheeded, but only when nothing is connected, and then no
\* press counts.
THEOREM NoKeyIsStuck == Spec => []NoStuckKey
<1>1. Init => Typed /\ NoStuckKey
  <2>1. Init => NoStuckKey BY DEF Init, NoStuckKey
  <2>2. QED BY <2>1, InitTyped
<1>2. Typed /\ NoStuckKey /\ [Next]_vars => Typed' /\ NoStuckKey'
  BY NextKeepsTypes, NextKeepsPress
<1>3. QED BY <1>1, <1>2, PTL DEF Spec
-----------------------------------------------------------------------------
(* One writer of the image *)

\* Either side looks at the flag of the other before it sets its own.
LEMMA NextKeepsWriter == Typed /\ GrantInv /\ OneImageWriter /\ [Next]_vars => OneImageWriter'
<1> SUFFICES ASSUME Typed, GrantInv, OneImageWriter, [Next]_vars PROVE OneImageWriter' OBVIOUS
<1> USE DEF OneImageWriter, Live
<1>0. /\ session \in Int /\ serial.session <= session /\ serial.session \in Int
      /\ serial \in [pc : {"idle", "ready", "read", "send", "reply"},
                     session : SessionNumbers, kind : CdcKinds \cup {None},
                     upload : BOOLEAN, image : BOOLEAN]
  BY DEF Typed, Numbered, SerialTyped, SessionNumbers, GrantInv, NotAhead
<1>1. CASE UsbUnavailable \/ Control
  <2>1. /\ session' = session + 1 /\ serial' = serial /\ otaActive' = otaActive
        /\ uploadActive' = uploadActive \/ uploadActive' = FALSE
    BY <1>1 DEF UsbUnavailable, Control
  <2>2. serial'.session # session' BY <1>0, <2>1
  <2>3. QED BY <2>1, <2>2
<1>2. ASSUME UNCHANGED <<cdcVars, serial, uploadActive>>, otaActive' => otaActive
      PROVE  OneImageWriter'
  BY <1>2 DEF cdcVars
<1>3. CASE WorkerTop
  <2>1. otaActive' => otaActive BY <1>3 DEF WorkerTop
  <2>2. QED BY <1>2, <1>3, <2>1 DEF WorkerTop
<1>4. ASSUME requests # <<>>, TakesOne(Head(requests)) PROVE OneImageWriter'
  <2> DEFINE r == Head(requests)
  <2>1. TakesOne(r) BY <1>4
  <2> HIDE DEF r
  <2>2. UNCHANGED <<cdcVars, serial, uploadActive>>
    BY <2>1 DEF TakesOne, WorkerDrops, WorkerRefuses, WorkerSyncs, WorkerOta, WorkerKeys, WorkerSwitches,
                WorkerStarts, Takes
  <2>3. CASE WorkerOta(r)
    <3>1. ~uploadActive BY <2>3 DEF WorkerOta, Busy, OtaConflict
    <3>2. QED BY <2>2, <3>1 DEF cdcVars
  <2>4. CASE WorkerDrops(r) \/ WorkerRefuses(r) \/ WorkerSyncs(r) \/ WorkerKeys(r)
              \/ WorkerSwitches(r) \/ WorkerStarts(r)
    <3>1. otaActive' = otaActive
      BY <2>4 DEF WorkerDrops, WorkerRefuses, WorkerSyncs, WorkerKeys, WorkerSwitches, WorkerStarts
    <3>2. QED BY <1>2, <2>2, <3>1
  <2>5. QED BY <2>1, <2>3, <2>4 DEF TakesOne
<1>5. CASE Serial
  <2>1. session' = session /\ cdcActive' = cdcActive /\ otaActive' = otaActive
    BY <1>5 DEF Serial, SerialGoesOn, SerialConnect, SerialReady, SerialSend, SerialReply,
       SerialEnd, SerialPacket, SerialWrite, SerialBoot, SerialAbort, SerialLine, Reads,
       SerialUnchanged, cdcVars
  <2>2. CASE SerialWrite BY <1>0, <2>1, <2>2 DEF SerialWrite
  <2>3. CASE SerialPacket
    <3>1. CASE UNCHANGED <<serial, uploadActive>> BY <2>1, <3>1
    <3>2. CASE uploadActive' = FALSE /\ serial'.upload = FALSE BY <2>1, <3>2
    <3>3. QED BY <1>0, <2>3, <3>1, <3>2 DEF SerialPacket
  <2>4. CASE SerialAbort BY <1>0, <2>1, <2>4 DEF SerialAbort
  <2>5. CASE SerialEnd BY <1>0, <2>1, <2>5 DEF SerialEnd
  <2>6. CASE SerialConnect BY <1>0, <2>1, <2>6 DEF SerialConnect
  <2>7. CASE SerialReady \/ SerialSend \/ SerialReply \/ SerialBoot \/ SerialLine
    <3>1. /\ uploadActive' = uploadActive /\ serial.pc # "idle"
          /\ serial'.session = serial.session /\ serial'.upload = serial.upload
      BY <1>0, <2>7 DEF SerialReady, SerialSend, SerialReply, SerialBoot, SerialLine, Reads
    <3>2. QED BY <2>1, <3>1
  <2>8. QED BY <1>5, <2>2, <2>3, <2>4, <2>5, <2>6, <2>7 DEF Serial, SerialGoesOn
<1>6. CASE UsbConfigured \/ SetControlLine \/ WorkerWakes \/ WorkerFinishes \/ WorkerReplies
  BY <1>2, <1>6 DEF UsbConfigured, SetControlLine, WorkerWakes, WorkerFinishes, WorkerReplies
<1>7. CASE UartFrame \/ Rx \/ RxError \/ Tx \/ Reset \/ UNCHANGED vars
  BY <1>2, <1>7 DEF UartFrame, Rx, RxSession, RxFrame, RxError, Tx, TxTake, TxDone, Reset,
                    UartUnchanged, vars
<1>8. QED
  <2>1. CASE Worker BY <1>3, <1>4, <1>6, <2>1, WorkerSteps
  <2>2. QED BY <1>1, <1>5, <1>6, <1>7, <2>1 DEF Next

\* A UART OTA and a CDC upload never write the DFU partition at the same time, whenever
\* sessions end and transfers time out (main.rs, UPLOAD_ACTIVE and UART_OTA_ACTIVE).
THEOREM ImageHasOneWriter == Spec => []OneImageWriter
<1> DEFINE Inv == Typed /\ GrantInv /\ OneImageWriter
<1>1. Init => Inv
  <2>1. Init => OneImageWriter BY DEF Init, OneImageWriter, Live
  <2>2. QED BY <2>1, InitTyped, InitGrant
<1>2. Inv /\ [Next]_vars => Inv' BY NextKeepsTypes, NextKeepsGrant, NextKeepsWriter
<1>3. Inv => OneImageWriter OBVIOUS
<1>4. QED BY <1>1, <1>2, <1>3, PTL DEF Spec
-----------------------------------------------------------------------------
(* Synchronisation *)

\* A VER accepted after the last CDC window, and a number of that window that is not ahead.
SyncInv ==
  /\ ~syncRequired => lastVer > lastActive
  /\ lastActive <= session
  /\ ~cdcActive => lastActive < session

LEMMA InitSync == Init => SyncInv
BY DEF Init, SyncInv

\* A VER is accepted only while no CDC session is active, under a number that no window has.
LEMMA NextKeepsSync == Typed /\ SyncInv /\ [Next]_vars => SyncInv'
<1> SUFFICES ASSUME Typed, SyncInv, [Next]_vars PROVE SyncInv' OBVIOUS
<1>0. session \in Int /\ lastVer \in Int /\ lastActive \in Int /\ cdcActive \in BOOLEAN
  BY DEF Typed, Flags, Numbered, SessionNumbers
<1> USE DEF SyncInv
<1>1. ASSUME UNCHANGED <<syncRequired, lastVer, lastActive, cdcVars>> PROVE SyncInv'
  BY <1>1 DEF cdcVars
<1>2. CASE UsbUnavailable BY <1>0, <1>2 DEF UsbUnavailable, ghostVars
<1>3. CASE Control
  <2>1. session' = session + 1 /\ lastVer' = lastVer BY <1>3 DEF Control
  <2>2. CASE cdcActive'
    <3>1. syncRequired' /\ lastActive' = session' BY <1>3, <2>2 DEF Control, SyncAfter
    <3>2. QED BY <1>0, <2>1, <2>2, <3>1
  <2>3. CASE ~cdcActive'
    <3>1. syncRequired' = syncRequired /\ lastActive' = lastActive
      BY <1>0, <1>3, <2>3 DEF Control, SyncAfter, Typed, Flags
    <3>2. QED BY <1>0, <2>1, <2>3, <3>1
  <2>4. QED BY <2>2, <2>3
<1>4. CASE WorkerTop
  <2>1. \/ syncRequired'
        \/ syncRequired' = syncRequired /\ lastVer' = lastVer
    BY <1>4 DEF WorkerTop, Typed, Flags
  <2>2. lastActive' = lastActive /\ session' = session /\ cdcActive' = cdcActive
    BY <1>4 DEF WorkerTop, cdcVars
  <2>3. QED BY <1>0, <2>1, <2>2
<1>5. ASSUME requests # <<>>, TakesOne(Head(requests)) PROVE SyncInv'
  <2> DEFINE r == Head(requests)
  <2>1. TakesOne(r) /\ r \in Request BY <1>5, OldestRequest
  <2> HIDE DEF r
  <2>2. lastActive' = lastActive /\ session' = session /\ cdcActive' = cdcActive
    BY <2>1 DEF TakesOne, WorkerDrops, WorkerRefuses, WorkerSyncs, WorkerOta, WorkerKeys, WorkerSwitches,
                WorkerStarts, Takes, cdcVars
  <2>3. CASE WorkerSyncs(r)
    <3>1. r.kind = "VER" /\ ~Busy(r) /\ lastVer' = session BY <2>3 DEF WorkerSyncs
    <3>2. r.source = "uart" BY <2>1, <3>1, RequestFields
    <3>3. ~cdcActive BY <3>1, <3>2 DEF Busy, OutOfTurn
    <3>4. QED BY <1>0, <2>2, <3>1, <3>3
  <2>4. CASE WorkerDrops(r) \/ WorkerRefuses(r) \/ WorkerOta(r) \/ WorkerKeys(r)
              \/ WorkerSwitches(r) \/ WorkerStarts(r)
    <3>1. syncRequired' = syncRequired /\ lastVer' = lastVer
      BY <2>4 DEF WorkerDrops, WorkerRefuses, WorkerOta, WorkerKeys, WorkerSwitches, WorkerStarts
    <3>2. QED BY <2>2, <3>1
  <2>5. QED BY <2>1, <2>3, <2>4 DEF TakesOne
<1>6. CASE UsbConfigured \/ SetControlLine \/ WorkerWakes \/ WorkerFinishes \/ WorkerReplies
  BY <1>1, <1>6 DEF UsbConfigured, SetControlLine, WorkerWakes, WorkerFinishes,
                    WorkerReplies, ghostVars
<1>7. CASE Serial
  <2>1. SerialUnchanged
    BY <1>7 DEF Serial, SerialGoesOn, SerialConnect, SerialReady, SerialSend, SerialReply,
       SerialEnd, SerialPacket, SerialWrite, SerialBoot, SerialAbort, SerialLine, Reads
  <2>2. QED BY <1>1, <2>1 DEF SerialUnchanged, ghostVars
<1>8. CASE UartFrame \/ Rx \/ RxError \/ Tx \/ Reset \/ UNCHANGED vars
  BY <1>1, <1>8 DEF UartFrame, Rx, RxSession, RxFrame, RxError, Tx, TxTake, TxDone, Reset,
                    UartUnchanged, vars, ghostVars
<1>9. QED
  <2>1. CASE Worker BY <1>4, <1>5, <1>6, <2>1, WorkerSteps
  <2>2. QED BY <1>2, <1>3, <1>6, <1>7, <1>8, <2>1 DEF Next

\* A step that starts a UART command.
StartsUart ==
  /\ worker'.request # worker.request
  /\ worker'.request # None /\ worker'.request.source = "uart"

\* Only a request other than VER is run, and only when no synchronisation is asked for.
LEMMA StartIsSynchronised ==
  Typed /\ SyncInv /\ [Next]_vars => (StartsUart => lastVer > lastActive)
<1> SUFFICES ASSUME Typed, SyncInv, [Next]_vars, StartsUart PROVE lastVer > lastActive
  OBVIOUS
<1>0. worker \in [pc : {"top", "wait", "run", "reply"}, seen : SessionNumbers,
                  request : Request \cup {None}]
  BY DEF Typed, WorkerTyped
<1>1. CASE Worker
  <2>1. requests # <<>> /\ TakesOne(Head(requests))
    <3>1. CASE WorkerTop
      <4>1. worker'.request = worker.request BY <1>0, <3>1 DEF WorkerTop
      <4>2. QED BY <4>1 DEF StartsUart
    <3>2. CASE WorkerWakes
      <4>1. worker'.request = worker.request BY <1>0, <3>2 DEF WorkerWakes
      <4>2. QED BY <4>1 DEF StartsUart
    <3>3. CASE WorkerFinishes
      <4>1. worker'.request \in {worker.request, None} BY <1>0, <3>3 DEF WorkerFinishes, Answer
      <4>2. QED BY <4>1 DEF StartsUart
    <3>4. CASE WorkerReplies
      <4>1. worker'.request = None BY <1>0, <3>4 DEF WorkerReplies
      <4>2. QED BY <4>1 DEF StartsUart
    <3>5. QED BY <1>1, <3>1, <3>2, <3>3, <3>4, WorkerSteps
  <2> DEFINE r == Head(requests)
  <2>2. TakesOne(r) BY <2>1
  <2> HIDE DEF r
  <2>3. CASE WorkerOta(r) \/ WorkerKeys(r) \/ WorkerSwitches(r) \/ WorkerStarts(r)
    <3>1. ~Busy(r) /\ r.kind # "VER"
      BY <2>3 DEF WorkerOta, WorkerKeys, WorkerSwitches, WorkerStarts, OtaKinds
    <3>2. worker'.request \in {r, None}
      <4>1. CASE WorkerOta(r) BY <1>0, <4>1 DEF WorkerOta, Answer
      <4>2. CASE WorkerKeys(r) BY <1>0, <4>2 DEF WorkerKeys, Answer
      <4>3. CASE WorkerStarts(r) BY <1>0, <4>3 DEF WorkerStarts
      <4>4. CASE WorkerSwitches(r) BY <1>0, <4>4 DEF WorkerSwitches, Answer
      <4>5. QED BY <2>3, <4>1, <4>2, <4>3, <4>4
    <3>3. r.source = "uart" BY <3>2 DEF StartsUart
    <3>4. ~syncRequired BY <3>1, <3>3 DEF Busy, OutOfTurn
    <3>5. QED BY <3>4 DEF SyncInv
  <2>4. CASE WorkerDrops(r)
    <3>1. worker'.request = worker.request BY <1>0, <2>4 DEF WorkerDrops
    <3>2. QED BY <3>1 DEF StartsUart
  <2>5. CASE WorkerRefuses(r)
    <3>1. worker'.request = None BY <1>0, <2>5 DEF WorkerRefuses, Answer
    <3>2. QED BY <3>1 DEF StartsUart
  <2>6. CASE WorkerSyncs(r)
    <3>1. worker'.request = None BY <1>0, <2>6 DEF WorkerSyncs, Answer
    <3>2. QED BY <3>1 DEF StartsUart
  <2>7. QED BY <2>2, <2>3, <2>4, <2>5, <2>6 DEF TakesOne
<1>2. CASE UsbUnavailable \/ UsbConfigured \/ SetControlLine \/ Control
  <2>1. worker' = worker
    BY <1>2 DEF UsbUnavailable, UsbConfigured, SetControlLine, Control
  <2>2. QED BY <2>1 DEF StartsUart
<1>3. CASE Serial
  <2>1. worker' = worker
    BY <1>3 DEF Serial, SerialGoesOn, SerialConnect, SerialReady, SerialSend, SerialReply,
       SerialEnd, SerialPacket, SerialWrite, SerialBoot, SerialAbort, SerialLine, Reads,
       SerialUnchanged
  <2>2. QED BY <2>1 DEF StartsUart
<1>4. CASE UartFrame \/ Rx \/ RxError \/ Tx \/ Reset \/ UNCHANGED vars
  <2>1. worker' = worker
    BY <1>4 DEF UartFrame, Rx, RxSession, RxFrame, RxError, Tx, TxTake, TxDone, Reset,
                UartUnchanged, vars
  <2>2. QED BY <2>1 DEF StartsUart
<1>5. QED BY <1>1, <1>2, <1>3, <1>4 DEF Next

\* No UART command but VER starts before a VER was accepted after the last CDC window and
\* after the last time-out of an OTA (main.rs, UART_SYNC_REQUIRED).
THEOREM SyncFirst == Spec => SyncBeforeCommands
<1>1. Init => Typed /\ SyncInv BY InitTyped, InitSync
<1>2. Typed /\ SyncInv /\ [Next]_vars => Typed' /\ SyncInv'
  BY NextKeepsTypes, NextKeepsSync
<1>3. Typed /\ SyncInv /\ [Next]_vars =>
        [worker'.request # worker.request /\ worker'.request # None
           /\ worker'.request.source = "uart" => lastVer > lastActive]_vars
  BY StartIsSynchronised DEF StartsUart
<1>4. QED BY <1>1, <1>2, <1>3, PTL DEF Spec, SyncBeforeCommands
-----------------------------------------------------------------------------
(* No grant is lost *)

\* The worker has seen no session before it began, and has signalled none it has not seen.
SeenInv ==
  /\ worker.seen <= session
  /\ maintenanceReady # None => maintenanceReady <= worker.seen
  /\ Granted => worker.seen = session

\* With a host that leaves DTR low long enough, the session served is over before another begins.
InTime == cdcActive => serial.pc = "idle" \/ serial.session = session

\* Numbers and records as they are used below.
LEMMA SessionTypes ==
  ASSUME Typed
  PROVE  /\ session \in Int /\ serial.session \in Int /\ worker.seen \in Int
         /\ maintenanceReady \in Int \cup {None} /\ None \notin Int
         /\ worker \in [pc : {"top", "wait", "run", "reply"}, seen : SessionNumbers,
                        request : Request \cup {None}]
         /\ serial \in [pc : {"idle", "ready", "read", "send", "reply"},
                        session : SessionNumbers, kind : CdcKinds \cup {None},
                        upload : BOOLEAN, image : BOOLEAN]
BY BoundsAreNumbers
DEF Typed, Numbered, SerialTyped, WorkerTyped, Channels, SessionNumbers

\* Only the top of the worker's loop looks at the session.
LEMMA OthersSeeNothing ==
  ASSUME Typed, \/ WorkerWakes \/ WorkerFinishes \/ WorkerReplies
                \/ requests # <<>> /\ TakesOne(Head(requests))
  PROVE  /\ worker'.seen = worker.seen
         /\ UNCHANGED <<session, cdcActive, serial, maintenanceReady>>
<1>0. worker \in [pc : {"top", "wait", "run", "reply"}, seen : SessionNumbers,
                  request : Request \cup {None}]
  BY SessionTypes
<1>1. CASE WorkerWakes BY <1>0, <1>1 DEF WorkerWakes, cdcVars
<1>2. CASE WorkerFinishes BY <1>0, <1>2 DEF WorkerFinishes, Answer, cdcVars
<1>3. CASE WorkerReplies BY <1>0, <1>3 DEF WorkerReplies, cdcVars
<1>4. CASE requests # <<>> /\ TakesOne(Head(requests))
  <2> DEFINE r == Head(requests)
  <2>1. TakesOne(r) BY <1>4
  <2> HIDE DEF r
  <2>2. UNCHANGED <<session, cdcActive, serial, maintenanceReady>>
    BY <2>1 DEF TakesOne, WorkerDrops, WorkerRefuses, WorkerSyncs, WorkerOta, WorkerKeys, WorkerSwitches,
                WorkerStarts, Takes, cdcVars
  <2>3. worker'.seen = worker.seen
    <3>1. CASE WorkerDrops(r) BY <1>0, <3>1 DEF WorkerDrops
    <3>2. CASE WorkerRefuses(r) BY <1>0, <3>2 DEF WorkerRefuses, Answer
    <3>3. CASE WorkerSyncs(r) BY <1>0, <3>3 DEF WorkerSyncs, Answer
    <3>4. CASE WorkerOta(r) BY <1>0, <3>4 DEF WorkerOta, Answer
    <3>5. CASE WorkerKeys(r) BY <1>0, <3>5 DEF WorkerKeys, Answer
    <3>6. CASE WorkerStarts(r) BY <1>0, <3>6 DEF WorkerStarts
    <3>7. CASE WorkerSwitches(r) BY <1>0, <3>7 DEF WorkerSwitches, Answer
    <3>8. QED BY <2>1, <3>1, <3>2, <3>3, <3>4, <3>5, <3>6, <3>7 DEF TakesOne
  <2>4. QED BY <2>2, <2>3
<1>5. QED BY <1>1, <1>2, <1>3, <1>4

\* serial_fut takes the session's number once, when it connects, and gives it up when it ends.
LEMMA SerialSteps ==
  ASSUME Typed, Serial
  PROVE  /\ UNCHANGED <<session, cdcActive, worker>>
         /\ \/ /\ serial.pc = "idle" /\ cdcActive /\ serial'.pc = "ready"
               /\ serial'.session = session /\ UNCHANGED maintenanceReady
            \/ /\ serial'.pc = "idle" /\ (~cdcActive \/ session # serial.session)
               /\ serial.pc # "idle" /\ serial'.session = serial.session
               /\ UNCHANGED maintenanceReady
            \/ /\ serial.pc = "ready" /\ maintenanceReady # None /\ maintenanceReady' = None
               /\ serial'.session = serial.session
               /\ serial'.pc = IF maintenanceReady = serial.session THEN "read" ELSE "ready"
            \/ /\ serial.pc \in {"read", "send", "reply"}
               /\ serial'.pc \in {"read", "send", "reply"}
               /\ serial'.session = serial.session /\ UNCHANGED maintenanceReady
<1>0. serial \in [pc : {"idle", "ready", "read", "send", "reply"},
                  session : SessionNumbers, kind : CdcKinds \cup {None},
                  upload : BOOLEAN, image : BOOLEAN]
  BY SessionTypes
<1>1. UNCHANGED <<session, cdcActive, worker>>
  BY DEF Serial, SerialGoesOn, SerialConnect, SerialReady, SerialSend, SerialReply,
         SerialEnd, SerialPacket, SerialWrite, SerialBoot, SerialAbort, SerialLine, Reads,
         SerialUnchanged, cdcVars
<1>2. CASE SerialConnect BY <1>0, <1>1, <1>2 DEF SerialConnect
<1>3. CASE SerialReady BY <1>0, <1>1, <1>3 DEF SerialReady
<1>4. CASE SerialSend BY <1>0, <1>1, <1>4 DEF SerialSend
<1>5. CASE SerialReply BY <1>0, <1>1, <1>5 DEF SerialReply
<1>6. CASE SerialEnd BY <1>0, <1>1, <1>6 DEF SerialEnd
<1>7. CASE SerialPacket BY <1>0, <1>1, <1>7 DEF SerialPacket, Reads
<1>8. CASE SerialWrite BY <1>0, <1>1, <1>8 DEF SerialWrite, Reads
<1>9. CASE SerialBoot BY <1>0, <1>1, <1>9 DEF SerialBoot, Reads
<1>10. CASE SerialAbort BY <1>0, <1>1, <1>10 DEF SerialAbort, Reads
<1>11. CASE SerialLine BY <1>0, <1>1, <1>11 DEF SerialLine, Reads
<1>12. QED
  BY <1>2, <1>3, <1>4, <1>5, <1>6, <1>7, <1>8, <1>9, <1>10, <1>11 DEF Serial, SerialGoesOn

LEMMA InitSeen == Init => SeenInv
BY Bounds DEF Init, SeenInv, Granted, Live

LEMMA NextKeepsSeen == Typed /\ GrantInv /\ SeenInv /\ [Next]_vars => SeenInv'
<1> SUFFICES ASSUME Typed, GrantInv, SeenInv, [Next]_vars PROVE SeenInv' OBVIOUS
<1>0. /\ session \in Int /\ serial.session \in Int /\ worker.seen \in Int
      /\ maintenanceReady \in Int \cup {None} /\ None \notin Int
      /\ serial.session <= session
  BY SessionTypes DEF GrantInv, NotAhead
<1>1. ASSUME UNCHANGED <<session, cdcActive, serial, maintenanceReady>>,
             worker'.seen = worker.seen
      PROVE  SeenInv'
  BY <1>1 DEF SeenInv, Granted, Live
<1>2. CASE UsbUnavailable \/ Control
  <2>1. /\ session' = session + 1 /\ serial' = serial /\ worker' = worker
        /\ maintenanceReady' = maintenanceReady
    BY <1>2 DEF UsbUnavailable, Control
  <2>2. ~Granted' BY <1>0, <2>1 DEF Granted, Live
  <2>3. QED BY <1>0, <2>1, <2>2 DEF SeenInv
<1>3. CASE WorkerTop
  <2>1. /\ UNCHANGED <<session, cdcActive, serial>> /\ worker'.seen = session
        /\ maintenanceReady' \in {session, maintenanceReady}
    BY <1>3, SessionTypes DEF WorkerTop, cdcVars
  <2>2. QED BY <1>0, <2>1 DEF SeenInv
<1>4. CASE Serial
  <2>1. UNCHANGED <<session, worker>> /\ maintenanceReady' \in {maintenanceReady, None}
    BY <1>4, SerialSteps
  <2>2. Granted' => Granted \/ maintenanceReady = session
    BY <1>4, SerialSteps DEF Granted, Live
  <2>3. QED BY <1>0, <2>1, <2>2 DEF SeenInv
<1>5. CASE UsbConfigured \/ SetControlLine \/ UartFrame \/ Rx \/ RxError \/ Tx \/ Reset
           \/ UNCHANGED vars
  BY <1>1, <1>5 DEF UsbConfigured, SetControlLine, UartFrame, Rx, RxSession, RxFrame,
     RxError, Tx, TxTake, TxDone, Reset, UartUnchanged, vars, cdcVars
<1>6. QED
  <2>1. CASE Worker BY <1>1, <1>3, <2>1, WorkerSteps, OthersSeeNothing
  <2>2. QED BY <1>2, <1>4, <1>5, <2>1 DEF Next

\* The worker signals once for a session, and only the serial task of that session takes it.
LEMMA NextKeepsOwed ==
  ASSUME ~QuickReopen
  PROVE  Typed /\ SeenInv /\ InTime /\ GrantIsOwed /\ [Next]_vars => InTime' /\ GrantIsOwed'
<1> SUFFICES ASSUME Typed, SeenInv, InTime, GrantIsOwed, [Next]_vars
             PROVE  InTime' /\ GrantIsOwed'
  OBVIOUS
<1>0. /\ session \in Int /\ serial.session \in Int /\ worker.seen \in Int
      /\ worker.seen <= session
  BY SessionTypes DEF SeenInv
<1>1. ASSUME UNCHANGED <<session, cdcActive, serial, maintenanceReady>>,
             worker'.seen = worker.seen
      PROVE  InTime' /\ GrantIsOwed'
  BY <1>1 DEF InTime, GrantIsOwed, Granted, Live
<1>2. CASE UsbUnavailable BY <1>2 DEF UsbUnavailable, InTime, GrantIsOwed
<1>3. CASE Control
  <2>1. session' = session + 1 /\ serial' = serial /\ worker' = worker
    BY <1>3 DEF Control
  <2>2. cdcActive' => serial.pc = "idle" BY <1>3 DEF Control
  <2>3. worker'.seen # session' BY <1>0, <2>1
  <2>4. QED BY <2>1, <2>2, <2>3 DEF InTime, GrantIsOwed
<1>4. CASE WorkerTop
  <2>1. /\ UNCHANGED <<session, cdcActive, serial>>
        /\ maintenanceReady' = IF session # worker.seen /\ cdcActive
                                 THEN session ELSE maintenanceReady
    BY <1>4 DEF WorkerTop, cdcVars
  <2>2. QED BY <2>1 DEF InTime, GrantIsOwed, Granted, Live
<1>5. CASE Serial
  <2>1. UNCHANGED <<session, cdcActive, worker>> BY <1>5, SerialSteps
  <2>2. InTime' BY <1>5, SerialSteps DEF InTime
  <2>3. ASSUME cdcActive, ~Granted', ~Granted, maintenanceReady = session
        PROVE  maintenanceReady' = session
    BY <1>5, <2>1, <2>3, SerialSteps DEF InTime, Granted, Live
  <2>4. cdcActive /\ Granted => Granted'
    BY <1>5, SerialSteps DEF Granted, Live
  <2>5. QED BY <2>1, <2>2, <2>3, <2>4 DEF GrantIsOwed
<1>6. CASE UsbConfigured \/ SetControlLine \/ UartFrame \/ Rx \/ RxError \/ Tx \/ Reset
           \/ UNCHANGED vars
  BY <1>1, <1>6 DEF UsbConfigured, SetControlLine, UartFrame, Rx, RxSession, RxFrame,
     RxError, Tx, TxTake, TxDone, Reset, UartUnchanged, vars, cdcVars
<1>7. QED
  <2>1. CASE Worker BY <1>1, <1>4, <2>1, WorkerSteps, OthersSeeNothing
  <2>2. QED BY <1>2, <1>3, <1>5, <1>6, <2>1 DEF Next

\* With a host that leaves DTR low for a poll of serial_fut, no grant is ever lost, however
\* sessions, commands and time-outs fall (main.rs, MAINTENANCE_READY).
THEOREM NoGrantIsLost ==
  ASSUME ~QuickReopen
  PROVE  Spec => []GrantIsOwed
<1> DEFINE Inv == Typed /\ GrantInv /\ SeenInv /\ InTime /\ GrantIsOwed
<1>1. Init => Inv
  <2>1. Init => InTime /\ GrantIsOwed BY DEF Init, InTime, GrantIsOwed
  <2>2. QED BY <2>1, InitTyped, InitGrant, InitSeen
<1>2. Inv /\ [Next]_vars => Inv'
  BY NextKeepsTypes, NextKeepsGrant, NextKeepsSeen, NextKeepsOwed
<1>3. Inv => GrantIsOwed OBVIOUS
<1>4. QED BY <1>1, <1>2, <1>3, PTL DEF Spec
-----------------------------------------------------------------------------
(* One reply is owed *)

\* Nothing comes from a session that is still to begin, and a reply is one of the live session.
PastOnly ==
  /\ \A k \in 1..Len(requests) : requests[k].session <= session
  /\ worker.request # None => worker.request.session <= session
  /\ serial.pc # "idle" /\ serial.session = session => cdcActive
  /\ cdcReply # None => cdcActive /\ cdcReply = session

\* The worker runs a request, and waits only to reply to the UART.
Running ==
  /\ worker.pc = "run" => worker.request # None
  /\ worker.pc = "reply" => worker.request = None \/ worker.request.source = "uart"

\* OneReplyIsOwed, and that none is owed to a session that is over.
Owed ==
  /\ \A j, k \in Replies : j = k
  /\ (\E k \in Replies : TRUE) <=> (Live /\ serial.pc = "reply")

LEMMA OwedIsOneReply == Owed => OneReplyIsOwed
BY DEF Owed, OneReplyIsOwed

ReplyInv == PastOnly /\ Running /\ Owed

LEMMA QueueWithoutOldest ==
  ASSUME Typed, requests # <<>>, requests' = Tail(requests)
  PROVE  /\ Len(requests) \in Nat /\ Head(requests) = requests[1] /\ 1 \in 1..Len(requests)
         /\ Len(requests') \in Nat
         /\ \A k \in 1..Len(requests') :
              k + 1 \in 1..Len(requests) /\ requests'[k] = requests[k + 1]
         /\ \A k \in 1..Len(requests) :
              k = 1 \/ (k - 1 \in 1..Len(requests') /\ requests'[k - 1] = requests[k])
<1>1. requests \in Seq(Request) BY DEF Typed, Channels
<1>2. /\ Len(requests) \in Nat /\ Len(requests') = Len(requests) - 1
      /\ \A k \in 1..Len(requests') : requests'[k] = requests[k + 1]
  BY <1>1, HeadTailProperties, LenProperties
<1>3. Head(requests) = requests[1] /\ 1 \in 1..Len(requests) BY <1>1
<1>4. \A k \in 1..Len(requests) : k = 1 \/ (k - 1 \in 1..Len(requests') /\ (k - 1) + 1 = k)
  BY <1>2
<1>5. QED BY <1>2, <1>3, <1>4

LEMMA QueueWithAnother ==
  ASSUME Typed, NEW r, requests' = Append(requests, r)
  PROVE  /\ Len(requests) \in Nat /\ Len(requests') = Len(requests) + 1
         /\ \A k \in 1..Len(requests) : requests'[k] = requests[k]
         /\ requests'[Len(requests) + 1] = r
<1>1. requests \in Seq(Request) BY DEF Typed, Channels
<1>2. QED BY <1>1, AppendProperties, LenProperties

\* A new session begins without requests and replies.
LEMMA NewSessionOwesNothing ==
  ASSUME Typed, GrantInv, ReplyInv, UsbUnavailable \/ Control
  PROVE  ReplyInv'
<1>0. /\ session \in Int /\ serial.session \in Int /\ serial.session <= session
      /\ None \notin Int /\ cdcActive \in BOOLEAN
  BY SessionTypes DEF GrantInv, NotAhead, Typed, Flags
<1>1. /\ session' = session + 1 /\ UNCHANGED <<serial, worker, requests>>
      /\ cdcReply' = None
  <2>1. CASE UsbUnavailable BY <2>1 DEF UsbUnavailable
  <2>2. CASE Control
    <3>1. cdcActive' => ~cdcActive /\ cdcReply' = cdcReply BY <1>0, <2>2 DEF Control
    <3>2. ~cdcActive' => cdcReply' = None BY <2>2 DEF Control
    <3>3. QED BY <2>2, <3>1, <3>2 DEF Control, ReplyInv, PastOnly
  <2>3. QED BY <2>1, <2>2
<1>2. /\ \A k \in 1..Len(requests) : requests[k].session \in Int
      /\ worker.request # None => worker.request.session \in Int
  BY RequestFields, SessionTypes DEF Typed, Channels, SessionNumbers
<1>3. \A k \in 1..Len(requests) : ~FromLive(requests[k])'
  BY <1>0, <1>1, <1>2 DEF ReplyInv, PastOnly, FromLive
<1>4. ~FromLive(worker.request)' BY <1>0, <1>1, <1>2 DEF ReplyInv, PastOnly, FromLive
<1>5. cdcReply' # session' BY <1>0, <1>1
<1>6. ~Live' BY <1>0, <1>1 DEF Live
<1>7. \A k : k \notin Replies' BY <1>1, <1>3, <1>4, <1>5 DEF Replies
<1>8. Owed' BY <1>6, <1>7 DEF Owed
<1>9. PastOnly' BY <1>0, <1>1, <1>2 DEF ReplyInv, PastOnly
<1>10. QED BY <1>1, <1>8, <1>9 DEF ReplyInv, Running

\* Each place owes at most one reply, and one of them owes it if serial_fut waits.
LEMMA OnePlace ==
  ASSUME Owed, FromLive(worker.request) \/ cdcReply = session
         \/ \E k \in 1..Len(requests) : FromLive(requests[k])
  PROVE  /\ Live /\ serial.pc = "reply"
         /\ FromLive(worker.request) =>
              cdcReply # session /\ \A k \in 1..Len(requests) : ~FromLive(requests[k])
         /\ cdcReply = session => \A k \in 1..Len(requests) : ~FromLive(requests[k])
         /\ \A j, k \in 1..Len(requests) : FromLive(requests[j]) /\ FromLive(requests[k]) => j = k
<1>1. \A k \in 1..Len(requests) : k # 0 /\ k # -1 OBVIOUS
<1>2. FromLive(worker.request) => 0 \in Replies BY DEF Replies
<1>3. cdcReply = session => -1 \in Replies BY DEF Replies
<1>4. \A k \in 1..Len(requests) : FromLive(requests[k]) => k \in Replies BY DEF Replies
<1>5. \E k : k \in Replies BY <1>2, <1>3, <1>4
<1>6. QED BY <1>1, <1>2, <1>3, <1>4, <1>5 DEF Owed

LEMMA NoPlace ==
  ASSUME Owed, ~(Live /\ serial.pc = "reply")
  PROVE  /\ ~FromLive(worker.request) /\ cdcReply # session
         /\ \A k \in 1..Len(requests) : ~FromLive(requests[k])
BY OnePlace

\* What an answer does to the places.
LEMMA AnswerMoves ==
  ASSUME Typed, PastOnly, NEW r \in Request, NEW ran \in {None, r}, Answer(r, ran),
         UNCHANGED <<session, cdcActive>>
  PROVE  /\ FromLive(r) /\ cdcActive /\ cdcReply = None =>
              cdcReply' = session /\ worker'.request = None
         /\ ~FromLive(r) => cdcReply' = cdcReply
         /\ worker'.request = None \/ (worker'.request = r /\ r.source = "uart")
         /\ worker'.pc \in {"top", "reply"}
         /\ cdcReply' = cdcReply \/ (cdcActive /\ cdcReply' = session)
<1>0. /\ worker \in [pc : {"top", "wait", "run", "reply"}, seen : SessionNumbers,
                     request : Request \cup {None}]
      /\ r # None /\ r.source \in {"uart", "cdc"}
  BY SessionTypes, RequestFields, NoRequest DEF Request
<1>1. CASE r.source = "cdc"
  <2>1. worker' = [worker EXCEPT !.pc = "top", !.request = None] BY <1>1 DEF Answer
  <2>2. cdcReply' = IF cdcActive /\ session = r.session /\ cdcReply = None
                      THEN session ELSE cdcReply
    BY <1>1 DEF Answer
  <2>3. QED BY <1>0, <1>1, <2>1, <2>2 DEF FromLive
<1>2. CASE r.source = "uart"
  <2>1. worker' = [worker EXCEPT !.pc = "reply", !.request = ran] /\ cdcReply' = cdcReply
    BY <1>2 DEF Answer
  <2>2. QED BY <1>0, <1>2, <2>1 DEF FromLive
<1>3. QED BY <1>0, <1>1, <1>2

LEMMA WorkerOwes ==
  ASSUME Typed, GrantInv, ReplyInv, WorkerTop \/ WorkerWakes \/ WorkerFinishes \/ WorkerReplies
  PROVE  ReplyInv'
<1>0. worker \in [pc : {"top", "wait", "run", "reply"}, seen : SessionNumbers,
                  request : Request \cup {None}]
  BY SessionTypes
<1>1. UNCHANGED <<session, cdcActive, serial, requests>>
  BY DEF WorkerTop, WorkerWakes, WorkerFinishes, WorkerReplies, cdcVars
<1>2. ASSUME cdcReply' = cdcReply, FromLive(worker'.request) <=> FromLive(worker.request),
             worker'.request = worker.request \/ worker'.request = None,
             Running'
      PROVE  ReplyInv'
  <2>1. FromLive(worker.request)' <=> FromLive(worker.request) BY <1>1, <1>2 DEF FromLive
  <2>2. \A k : k \in Replies' <=> k \in Replies BY <1>1, <1>2, <2>1 DEF Replies, FromLive
  <2>3. Owed' BY <1>1, <2>2 DEF ReplyInv, Owed, Live
  <2>4. PastOnly' BY <1>1, <1>2 DEF ReplyInv, PastOnly
  <2>5. QED BY <1>2, <2>3, <2>4 DEF ReplyInv
<1>3. CASE WorkerTop \/ WorkerWakes
  <2>1. worker'.request = worker.request /\ worker'.pc \in {"top", "wait"} /\ cdcReply' = cdcReply
    BY <1>0, <1>3 DEF WorkerTop, WorkerWakes
  <2>2. QED BY <1>2, <2>1 DEF Running
<1>4. CASE WorkerReplies
  <2>1. /\ worker'.request = None /\ worker'.pc = "top" /\ cdcReply' = cdcReply
        /\ worker.request = None \/ worker.request.source = "uart"
    BY <1>0, <1>4 DEF WorkerReplies, ReplyInv, Running
  <2>2. QED BY <1>2, <2>1 DEF Running, FromLive
<1>5. CASE WorkerFinishes
  <2> DEFINE r == worker.request
  <2>1. r # None /\ r \in Request /\ Answer(r, r)
    BY <1>0, <1>5 DEF WorkerFinishes, ReplyInv, Running
  <2>2. /\ FromLive(r) /\ cdcActive /\ cdcReply = None =>
             cdcReply' = session /\ worker'.request = None
        /\ ~FromLive(r) => cdcReply' = cdcReply
        /\ worker'.request = None \/ (worker'.request = r /\ r.source = "uart")
        /\ worker'.pc \in {"top", "reply"}
        /\ cdcReply' = cdcReply \/ (cdcActive /\ cdcReply' = session)
    BY <1>1, <2>1, AnswerMoves DEF ReplyInv
  <2>3. Running' BY <2>2 DEF Running
  <2>4. CASE ~FromLive(r)
    <3>1. ~FromLive(worker'.request) BY <2>2, <2>4 DEF FromLive
    <3>2. QED BY <1>2, <2>2, <2>3, <2>4, <3>1
  <2>5. CASE FromLive(r)
    <3>1. /\ Live /\ serial.pc = "reply" /\ cdcReply # session
          /\ \A k \in 1..Len(requests) : ~FromLive(requests[k])
      BY <2>5, OnePlace DEF ReplyInv
    <3>2. cdcReply = None BY <3>1 DEF ReplyInv, PastOnly
    <3>3. cdcReply' = session /\ worker'.request = None BY <2>2, <2>5, <3>1, <3>2 DEF Live
    <3>4. \A k : k \in Replies' <=> k = -1
      BY <1>1, <3>1, <3>3 DEF Replies, FromLive
    <3>5. Owed' BY <1>1, <3>1, <3>4 DEF Owed, Live
    <3>6. PastOnly' BY <1>1, <2>2, <3>3 DEF ReplyInv, PastOnly
    <3>7. QED BY <2>3, <3>5, <3>6 DEF ReplyInv
  <2>6. QED BY <2>4, <2>5
<1>6. QED BY <1>3, <1>4, <1>5

\* The oldest request, if it is one of the live session, is run and answered.
LEMMA TakingOwes ==
  ASSUME Typed, GrantInv, SeenInv, ReplyInv, requests # <<>>, TakesOne(Head(requests))
  PROVE  ReplyInv'
<1> DEFINE r == Head(requests)
<1>1. TakesOne(r) /\ r \in Request
  BY OldestRequest
<1>2. Takes(r)
  BY <1>1 DEF TakesOne, WorkerDrops, WorkerRefuses, WorkerSyncs, WorkerOta, WorkerKeys, WorkerSwitches,
              WorkerStarts
<1>3. /\ requests' = Tail(requests) /\ worker.pc = "wait"
      /\ UNCHANGED <<session, cdcActive, serial>>
  BY <1>2 DEF Takes, cdcVars
<1>4. /\ r = requests[1] /\ 1 \in 1..Len(requests)
      /\ \A k \in 1..Len(requests') :
           k + 1 \in 1..Len(requests) /\ requests'[k] = requests[k + 1]
      /\ \A k \in 1..Len(requests) :
           k = 1 \/ (k - 1 \in 1..Len(requests') /\ requests'[k - 1] = requests[k])
  BY <1>3, QueueWithoutOldest
<1> HIDE DEF r
<1>5. /\ r # None /\ r.session <= session /\ worker.request = None
  BY <1>1, <1>3, <1>4, NoRequest DEF Request, ReplyInv, PastOnly, GrantInv, AtRest
<1>6. /\ worker \in [pc : {"top", "wait", "run", "reply"}, seen : SessionNumbers,
                     request : Request \cup {None}]
  BY SessionTypes
<1>7. FromLive(r) => /\ Live /\ serial.pc = "reply" /\ cdcReply = None
                     /\ \A k \in 1..Len(requests) : FromLive(requests[k]) => k = 1
  BY <1>4, OnePlace DEF ReplyInv, PastOnly
<1>8. FromLive(r) => ~Dropped(r)
  BY <1>7 DEF FromLive, Dropped, SeenInv, Granted, Live
\* What becomes of it: it is dropped, started or answered.
<1>9. \/ WorkerDrops(r) /\ worker'.request = None /\ worker'.pc = "top" /\ cdcReply' = cdcReply
      \/ worker'.request = r /\ worker'.pc = "run" /\ cdcReply' = cdcReply
      \/ \E ran \in {None, r} : Answer(r, ran)
  <2>1. CASE WorkerDrops(r) BY <1>5, <1>6, <2>1 DEF WorkerDrops
  <2>2. CASE WorkerRefuses(r) BY <2>2 DEF WorkerRefuses
  <2>3. CASE WorkerSyncs(r) BY <2>3 DEF WorkerSyncs
  <2>4. CASE WorkerOta(r) BY <2>4 DEF WorkerOta
  <2>5. CASE WorkerKeys(r) BY <2>5 DEF WorkerKeys
  <2>6. CASE WorkerStarts(r) BY <1>6, <2>6 DEF WorkerStarts
  <2>7. CASE WorkerSwitches(r) BY <2>7 DEF WorkerSwitches
  <2>8. QED BY <1>1, <2>1, <2>2, <2>3, <2>4, <2>5, <2>6, <2>7 DEF TakesOne
<1>10. /\ FromLive(r) => \/ worker'.request = r /\ cdcReply' = None
                         \/ worker'.request = None /\ cdcReply' = session
       /\ ~FromLive(r) => cdcReply' = cdcReply
       /\ worker'.request = None \/ worker'.request = r
       /\ cdcReply' = cdcReply \/ (cdcActive /\ cdcReply' = session)
       /\ Running'
  <2>1. CASE WorkerDrops(r) /\ worker'.request = None /\ worker'.pc = "top"
               /\ cdcReply' = cdcReply
    <3>1. ~FromLive(r) BY <1>8, <2>1 DEF WorkerDrops
    <3>2. QED BY <2>1, <3>1 DEF Running
  <2>2. CASE worker'.request = r /\ worker'.pc = "run" /\ cdcReply' = cdcReply
    BY <1>5, <1>7, <2>2 DEF Running
  <2>3. CASE \E ran \in {None, r} : Answer(r, ran)
    <3>1. /\ FromLive(r) /\ cdcActive /\ cdcReply = None =>
               cdcReply' = session /\ worker'.request = None
          /\ ~FromLive(r) => cdcReply' = cdcReply
          /\ worker'.request = None \/ (worker'.request = r /\ r.source = "uart")
          /\ worker'.pc \in {"top", "reply"}
          /\ cdcReply' = cdcReply \/ (cdcActive /\ cdcReply' = session)
      BY <1>1, <1>3, <2>3, AnswerMoves DEF ReplyInv
    <3>2. QED BY <1>7, <3>1 DEF Running, Live
  <2>4. QED BY <1>9, <2>1, <2>2, <2>3
<1>11. \A x : FromLive(x)' <=> FromLive(x) BY <1>3 DEF FromLive
<1>12. PastOnly'
  <2>1. \A k \in 1..Len(requests') : requests'[k].session <= session
    BY <1>4 DEF ReplyInv, PastOnly
  <2>2. QED BY <1>3, <1>5, <1>10, <2>1 DEF ReplyInv, PastOnly
<1>13. Owed'
  <2>1. CASE FromLive(r)
    <3>0. Live' /\ serial'.pc = "reply" BY <1>3, <1>7, <2>1 DEF Live
    <3>1. \A k \in 1..Len(requests') : ~FromLive(requests'[k])
      <4> SUFFICES ASSUME NEW k \in 1..Len(requests'), FromLive(requests'[k]) PROVE FALSE
        OBVIOUS
      <4>1. k + 1 \in 1..Len(requests) /\ FromLive(requests[k + 1]) BY <1>4
      <4>2. k + 1 = 1 BY <1>7, <2>1, <4>1
      <4>3. QED BY <4>2
    <3>2. CASE worker'.request = r /\ cdcReply' = None
      <4>1. None # session BY SessionTypes
      <4>2. \A k : k \in Replies' <=> k = 0
        BY <1>3, <2>1, <3>1, <3>2, <4>1 DEF Replies, FromLive
      <4>3. QED BY <3>0, <4>2 DEF Owed
    <3>3. CASE worker'.request = None /\ cdcReply' = session
      <4>1. \A k : k \in Replies' <=> k = -1
        BY <1>3, <3>1, <3>3 DEF Replies, FromLive
      <4>2. QED BY <3>0, <4>1 DEF Owed
    <3>4. QED BY <1>10, <2>1, <3>2, <3>3
  <2>2. CASE ~FromLive(r)
    <3>1. ~FromLive(worker'.request) /\ ~FromLive(worker.request)
      BY <1>5, <1>10, <2>2 DEF FromLive
    <3>2. \A k : k \in Replies' <=>
            \/ k \in 1..Len(requests') /\ FromLive(requests'[k])
            \/ k = -1 /\ cdcReply = session
      BY <1>3, <1>10, <2>2, <3>1 DEF Replies, FromLive
    <3>3. ASSUME NEW k \in Replies'
          PROVE  \/ k = -1 /\ k \in Replies
                 \/ k \in 1..Len(requests') /\ k + 1 \in Replies
      BY <1>4, <3>2 DEF Replies
    <3>4. ASSUME NEW k \in Replies PROVE \E j : j \in Replies'
      <4>1. CASE k = -1 /\ cdcReply = session BY <3>2, <4>1
      <4>2. CASE k \in 1..Len(requests) /\ FromLive(requests[k])
        <5>1. k - 1 \in 1..Len(requests') /\ requests'[k - 1] = requests[k]
          BY <1>4, <2>2, <4>2
        <5>2. QED BY <3>2, <4>2, <5>1
      <4>3. QED BY <3>1, <4>1, <4>2 DEF Replies
    <3>5. \A j, k \in Replies' : j = k
      <4> SUFFICES ASSUME NEW j \in Replies', NEW k \in Replies' PROVE j = k OBVIOUS
      <4>1. CASE j = -1 /\ k = -1 BY <4>1
      <4>2. CASE j = -1 /\ -1 \in Replies /\ k \in 1..Len(requests') /\ k + 1 \in Replies
        <5>1. k + 1 = -1 BY <4>2 DEF ReplyInv, Owed
        <5>2. QED BY <4>2, <5>1
      <4>3. CASE k = -1 /\ -1 \in Replies /\ j \in 1..Len(requests') /\ j + 1 \in Replies
        <5>1. j + 1 = -1 BY <4>3 DEF ReplyInv, Owed
        <5>2. QED BY <4>3, <5>1
      <4>4. CASE /\ j \in 1..Len(requests') /\ j + 1 \in Replies
                 /\ k \in 1..Len(requests') /\ k + 1 \in Replies
        <5>1. j + 1 = k + 1 BY <4>4 DEF ReplyInv, Owed
        <5>2. QED BY <4>4, <5>1
      <4>5. QED BY <3>3, <4>1, <4>2, <4>3, <4>4
    <3>6. (\E k \in Replies' : TRUE) <=> (\E k \in Replies : TRUE) BY <3>3, <3>4
    <3>7. QED BY <1>3, <3>5, <3>6 DEF ReplyInv, Owed, Live
  <2>3. QED BY <2>1, <2>2
<1>14. QED BY <1>10, <1>12, <1>13 DEF ReplyInv

\* A frame of the UART owes CDC nothing.
LEMMA UartOwes ==
  ASSUME Typed, ReplyInv,
         UartFrame \/ Rx \/ RxError \/ Tx \/ Reset \/ UsbConfigured \/ SetControlLine
           \/ UNCHANGED vars
  PROVE  ReplyInv'
<1>1. UNCHANGED <<session, cdcActive, serial, worker, cdcReply>>
  BY DEF UartFrame, Rx, RxSession, RxFrame, RxError, Tx, TxTake, TxDone, Reset,
         UartUnchanged, UsbConfigured, SetControlLine, vars, cdcVars
<1>2. CASE requests' = requests
  BY <1>1, <1>2
  DEF ReplyInv, PastOnly, Running, Owed, Replies, FromLive, Live
<1>3. CASE RxFrame /\ requests' # requests
  <2>1. PICK r : /\ requests' = Append(requests, r)
                 /\ r.source = "uart" /\ r.session = session
    BY <1>3 DEF RxFrame
  <2>2. /\ Len(requests) \in Nat /\ Len(requests') = Len(requests) + 1
        /\ \A k \in 1..Len(requests) : requests'[k] = requests[k]
        /\ requests'[Len(requests) + 1] = r
    BY <2>1, QueueWithAnother
  <2>3. \A k \in 1..Len(requests') :
          k \in 1..Len(requests) \/ (k = Len(requests) + 1 /\ ~FromLive(requests'[k]))
    BY <2>1, <2>2 DEF FromLive
  <2>4. \A k \in 1..Len(requests) : k \in 1..Len(requests')
    BY <2>2
  <2>5. \A k : k \in 1..Len(requests') /\ FromLive(requests'[k]) <=>
                 k \in 1..Len(requests) /\ FromLive(requests[k])
    BY <2>2, <2>3, <2>4
  <2>6. \A k : k \in Replies' <=> k \in Replies
    BY <1>1, <2>5 DEF Replies, FromLive
  <2>7. session <= session BY SessionTypes
  <2>8. PastOnly' BY <1>1, <2>1, <2>2, <2>3, <2>7 DEF ReplyInv, PastOnly
  <2>9. QED BY <1>1, <2>6, <2>8 DEF ReplyInv, Running, Owed, Live
<1>4. CASE ~RxFrame
  BY <1>2, <1>4 DEF UartFrame, Rx, RxSession, RxError, Tx, TxTake, TxDone, Reset,
     UsbConfigured, SetControlLine, vars
<1>5. QED BY <1>2, <1>3, <1>4

\* serial_fut sends a request when none is owed a reply, and takes the reply of its session.
LEMMA SerialOwes ==
  ASSUME Typed, GrantInv, ReplyInv, Serial
  PROVE  ReplyInv'
<1>0. /\ serial \in [pc : {"idle", "ready", "read", "send", "reply"},
                     session : SessionNumbers, kind : CdcKinds \cup {None},
                     upload : BOOLEAN, image : BOOLEAN]
      /\ serial.session <= session /\ session \in Int /\ None # session
  BY SessionTypes DEF GrantInv, NotAhead
<1>1. UNCHANGED <<session, cdcActive, worker>> BY SerialSteps
<1>2. Running' BY <1>1 DEF ReplyInv, Running
<1>3. ASSUME requests' = requests, cdcReply' \in {cdcReply, None},
             serial'.pc # "idle" /\ serial'.session = session => cdcActive
      PROVE  PastOnly'
  BY <1>1, <1>3 DEF ReplyInv, PastOnly
<1>4. ASSUME UNCHANGED <<requests, cdcReply>>,
             Live' /\ serial'.pc = "reply" <=> Live /\ serial.pc = "reply"
      PROVE  Owed'
  BY <1>1, <1>4 DEF ReplyInv, Owed, Replies, FromLive
<1>5. CASE SerialConnect
  <2>1. /\ serial.pc = "idle" /\ serial'.pc = "ready" /\ cdcActive
        /\ UNCHANGED <<requests, cdcReply>>
    BY <1>0, <1>5 DEF SerialConnect
  <2>2. QED BY <1>2, <1>3, <1>4, <2>1 DEF ReplyInv
<1>6. CASE SerialReady \/ SerialPacket \/ SerialWrite \/ SerialBoot \/ SerialAbort \/ SerialLine
  <2>1. /\ serial.pc \in {"ready", "read"} /\ serial'.pc \in {"ready", "read", "send"}
        /\ serial'.session = serial.session /\ UNCHANGED <<requests, cdcReply>>
    <3>1. CASE SerialReady BY <1>0, <3>1 DEF SerialReady
    <3>2. CASE SerialPacket BY <1>0, <3>2 DEF SerialPacket, Reads
    <3>3. CASE SerialWrite BY <1>0, <3>3 DEF SerialWrite, Reads
    <3>4. CASE SerialBoot BY <1>0, <3>4 DEF SerialBoot, Reads
    <3>5. CASE SerialAbort BY <1>0, <3>5 DEF SerialAbort, Reads
    <3>6. CASE SerialLine BY <1>0, <3>6 DEF SerialLine, Reads
    <3>7. QED BY <1>6, <3>1, <3>2, <3>3, <3>4, <3>5, <3>6
  <2>2. serial'.pc # "idle" /\ serial'.session = session => cdcActive
    BY <2>1 DEF ReplyInv, PastOnly
  <2>3. QED BY <1>2, <1>3, <1>4, <2>1, <2>2 DEF ReplyInv
<1>7. CASE SerialEnd
  <2>1. /\ serial'.pc = "idle" /\ ~Live /\ requests' = requests /\ cdcReply' = None
    BY <1>0, <1>7 DEF SerialEnd, Live
  <2>2. /\ ~FromLive(worker.request)
        /\ \A k \in 1..Len(requests) : ~FromLive(requests[k])
    BY <2>1, NoPlace DEF ReplyInv
  <2>3. \A k : k \notin Replies' BY <1>0, <1>1, <2>1, <2>2 DEF Replies, FromLive
  <2>4. Owed' BY <2>1, <2>3 DEF Owed, Live
  <2>5. QED BY <1>2, <1>3, <2>1, <2>4 DEF ReplyInv
<1>8. CASE SerialReply
  <2>1. /\ serial.pc = "reply" /\ cdcReply # None /\ cdcReply' = None /\ requests' = requests
        /\ serial'.session = serial.session
        /\ serial'.pc = IF cdcReply = serial.session THEN "read" ELSE "reply"
    BY <1>0, <1>8 DEF SerialReply
  <2>2. cdcReply = session BY <2>1 DEF ReplyInv, PastOnly
  <2>3. Live /\ \A k \in 1..Len(requests) : ~FromLive(requests[k]) BY <2>2, OnePlace DEF ReplyInv
  <2>4. ~FromLive(worker.request) BY <2>2, OnePlace DEF ReplyInv
  <2>5. serial'.pc = "read" BY <2>1, <2>2, <2>3 DEF Live
  <2>6. \A k : k \notin Replies' BY <1>0, <1>1, <2>1, <2>3, <2>4 DEF Replies, FromLive
  <2>7. Owed' BY <2>5, <2>6 DEF Owed
  <2>8. QED BY <1>2, <1>3, <2>1, <2>3, <2>7 DEF ReplyInv, Live
<1>9. CASE SerialSend
  <2> DEFINE r == [source |-> "cdc", kind |-> serial.kind,
                   session |-> serial.session, generation |-> 0]
  <2>1. /\ serial.pc = "send" /\ serial'.pc = "reply" /\ serial'.session = serial.session
        /\ requests' = Append(requests, r) /\ cdcReply' = cdcReply
    BY <1>0, <1>9 DEF SerialSend
  <2>2. /\ r.source = "cdc" /\ r.session = serial.session OBVIOUS
  <2>3. r # None
    <3>1. r \in CdcRequest
      BY <1>0, <2>1 DEF Typed, ForWorker, CdcRequest
    <3>2. QED BY <3>1, NoRequest
  <2> HIDE DEF r
  <2>4. /\ Len(requests) \in Nat /\ Len(requests') = Len(requests) + 1
        /\ \A k \in 1..Len(requests) : requests'[k] = requests[k]
        /\ requests'[Len(requests) + 1] = r
    BY <2>1, QueueWithAnother
  <2>5. \A k \in 1..Len(requests') : k \in 1..Len(requests) \/ k = Len(requests) + 1
    BY <2>4
  <2>6. Len(requests) + 1 \in 1..Len(requests') BY <2>4
  <2>7. FromLive(r) <=> Live
    BY <2>1, <2>2, <2>3 DEF FromLive, Live, ReplyInv, PastOnly
  <2>8. /\ ~FromLive(worker.request) /\ cdcReply # session
        /\ \A k \in 1..Len(requests) : ~FromLive(requests[k])
    BY <2>1, NoPlace DEF ReplyInv
  <2>9. \A k : k \in 1..Len(requests') /\ FromLive(requests'[k])
                 <=> k = Len(requests) + 1 /\ FromLive(r)
    BY <2>4, <2>5, <2>6, <2>8
  <2>10. \A k : k \in Replies' <=> k = Len(requests) + 1 /\ Live
    BY <1>1, <2>1, <2>7, <2>8, <2>9 DEF Replies, FromLive
  <2>11. Live' <=> Live BY <1>1, <2>1 DEF Live
  <2>12. Owed'
    <3>1. \A j, k \in Replies' : j = k BY <2>10
    <3>2. (\E k \in Replies' : TRUE) <=> Live BY ONLY <2>10
    <3>3. (\E k \in Replies' : TRUE) <=> (Live' /\ serial'.pc = "reply")
      BY ONLY <3>2, <2>1, <2>11
    <3>4. QED BY ONLY <3>1, <3>3 DEF Owed
  <2>13. \A k \in 1..Len(requests') : requests'[k].session <= session
    BY <1>0, <2>2, <2>4, <2>5 DEF ReplyInv, PastOnly
  <2>14. PastOnly' BY <1>1, <2>1, <2>13 DEF ReplyInv, PastOnly
  <2>15. QED BY <1>2, <2>12, <2>14 DEF ReplyInv
<1>10. QED BY <1>5, <1>6, <1>7, <1>8, <1>9 DEF Serial, SerialGoesOn

LEMMA InitReply == Init => ReplyInv
<1> SUFFICES ASSUME Init PROVE ReplyInv OBVIOUS
<1>1. /\ Len(requests) = 0 /\ worker.request = None /\ worker.pc = "top"
      /\ serial.pc = "idle" /\ cdcReply = None /\ session = 0
  BY EmptySequence DEF Init
<1>2. None # 0 BY Bounds
<1>3. \A k : k \notin Replies BY <1>1, <1>2 DEF Replies, FromLive
<1>4. Owed BY <1>1, <1>3 DEF Owed
<1>5. QED BY <1>1, <1>4 DEF ReplyInv, PastOnly, Running

\* While serial_fut waits for a reply exactly one is on its way, in a request or in the channel,
\* and otherwise none is: a line is answered once, the channel has room for it, and no reply of
\* an earlier session is taken for it (main.rs, CDC_REPLIES).
THEOREM ReplyIsOwedOnce == Spec => []OneReplyIsOwed
<1> DEFINE Inv == Typed /\ GrantInv /\ SeenInv /\ ReplyInv
<1>1. Init => Inv BY InitTyped, InitGrant, InitSeen, InitReply
<1>2. Typed /\ GrantInv /\ SeenInv /\ ReplyInv /\ [Next]_vars => ReplyInv'
  <2> SUFFICES ASSUME Typed, GrantInv, SeenInv, ReplyInv, [Next]_vars PROVE ReplyInv' OBVIOUS
  <2>1. CASE Worker BY <2>1, WorkerSteps, WorkerOwes, TakingOwes
  <2>2. CASE UsbUnavailable \/ Control BY <2>2, NewSessionOwesNothing
  <2>3. CASE Serial BY <2>3, SerialOwes
  <2>4. QED BY <2>1, <2>2, <2>3, UartOwes DEF Next
<1>3. Inv /\ [Next]_vars => Inv' BY <1>2, NextKeepsTypes, NextKeepsGrant, NextKeepsSeen
<1>4. Inv => OneReplyIsOwed BY OwedIsOneReply DEF ReplyInv
<1>5. QED BY <1>1, <1>3, <1>4, PTL DEF Spec
=============================================================================

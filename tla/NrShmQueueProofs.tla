-------------------------- MODULE NrShmQueueProofs --------------------------
(***************************************************************************)
(* What NrShmQueue promises for every number of segments, both write types *)
(* and any number of messages and boots.                                   *)
(*                                                                         *)
(* The invariant relates the two indices to the number of messages in      *)
(* flight (Lag) without any modulus: the write index is Lag places ahead   *)
(* of the read index, once round the ring at most.  From there the slot    *)
(* the sender writes is never among those that hold unread messages.       *)
(***************************************************************************)
EXTENDS NrShmQueue, SequenceTheorems, TLAPS

(* The slot j places after the read index.                                 *)
Pos(j) == IF nReadIdx + j < NumSeg THEN nReadIdx + j ELSE nReadIdx + j - NumSeg

Writing == spc \in {"len", "payload", "index"}

SenderLocal == Writing => sOffset = nWriteIdx /\ nWriteIdx < NumSeg

(* Room for the message being written, and for the one just published.     *)
LagBounds ==
  /\ Lag \in 0 .. NumSeg
  /\ Lag = NumSeg => NumSeg = 1 \/ (WriteType = 1 /\ spc = "accident")
  /\ NumSeg = 1 /\ Writing => Lag = 0
  /\ WriteType = 0 => Lag < NumSeg
  /\ WriteType = 0 /\ Writing => Lag < NumSeg - 1

IndexDistance ==
  IF NumSeg = 1 THEN nWriteIdx = Lag
  ELSE nWriteIdx = nReadIdx + Lag \/ nWriteIdx = nReadIdx + Lag - NumSeg

UnreadIntact ==
  \A j \in Slots : j < Lag => pMsgBuf[Pos(j)] = Msg(Len(received) + 1 + j)

BeingWritten ==
  /\ spc \in {"payload", "index"} => pMsgBuf[nWriteIdx].len = sent + 1
  /\ spc = "index" => pMsgBuf[nWriteIdx] = Msg(sent + 1)

BeingRead ==
  /\ rpc # "idle" => Lag > 0 /\ rOffset = nReadIdx
  /\ rpc \in {"payload", "index"} => rBuf.len = Len(received) + 1
  /\ rpc = "index" => rBuf = Msg(Len(received) + 1)

Booting == spc = "reset" => Lag = 0

InOrder == \A k \in 1 .. Len(received) : received[k] = Msg(k)

Good == /\ LagBounds /\ IndexDistance /\ UnreadIntact
        /\ BeingWritten /\ BeingRead /\ Booting /\ InOrder

IInv == TypeOK /\ SenderLocal /\ (Undisturbed => Good)

-----------------------------------------------------------------------------
(* (idx + 1) % num_seg is the next slot, and the first after the last.     *)
LEMMA AdvanceWraps ==
  ASSUME NEW idx \in Slots
  PROVE  Advance(idx) = IF idx + 1 < NumSeg THEN idx + 1 ELSE 0
  <1>1. CASE idx + 1 < NumSeg
    BY <1>1, NumSegAssumption DEF Advance, Slots
  <1>2. CASE idx + 1 = NumSeg
    BY <1>2, NumSegAssumption DEF Advance, Slots
  <1> QED
    BY <1>1, <1>2, NumSegAssumption DEF Slots

LEMMA InitIInv == Init => IInv
  <1> SUFFICES ASSUME Init PROVE IInv
    OBVIOUS
  <1> USE NumSegAssumption, WriteTypeAssumption
  <1>1. Zeroed \in Message /\ 0 \in Slots
    BY DEF Message, Zeroed, Slots
  <1>2. received = <<>>
    BY DEF Init
  <1>3. sent = 0 /\ Len(received) = 0 /\ Lag = 0
    <2>1. Len(received) = 0
      BY <1>2
    <2>2. sent = 0
      BY DEF Init
    <2>3. sent - Len(received) = 0
      BY <2>1, <2>2
    <2> QED
      BY <2>1, <2>2, <2>3 DEF Lag
  <1>4. TypeOK
    <2>1. received \in Seq(Message)
      BY <1>2
    <2>2. pMsgBuf \in [Slots -> Message] /\ rBuf \in Message
      BY <1>1 DEF Init
    <2>3. rc \in {0, -1} /\ sent \in Nat /\ restarts \in Nat /\ accidentNum \in Nat
      BY DEF Init
    <2>4. nWriteIdx \in 0 .. NumSeg /\ (NumSeg > 1 => nWriteIdx < NumSeg)
      BY DEF Init
    <2>5. nReadIdx \in Slots /\ sOffset \in Slots /\ rOffset \in Slots
      BY <1>1 DEF Init
    <2> QED
      BY <2>1, <2>2, <2>3, <2>4, <2>5 DEF TypeOK, Init
  <1>5. SenderLocal
    BY DEF SenderLocal, Writing, Init
  <1>6. Good
    <2>1. nWriteIdx = 0 /\ nReadIdx = 0 /\ spc = "idle" /\ rpc = "idle"
      BY DEF Init
    <2> QED
      BY <1>3, <2>1 DEF Good, LagBounds, IndexDistance, UnreadIntact,
                BeingWritten, BeingRead, Booting, InOrder, Writing, Slots
  <1> QED
    BY <1>4, <1>5, <1>6 DEF IInv

-----------------------------------------------------------------------------
(* Storing one half of a slot leaves the other.                            *)
LEMMA HalfStore ==
  ASSUME NEW m \in Message, NEW x \in Nat
  PROVE  /\ [m EXCEPT !.len = x] = [len |-> x, payload |-> m.payload]
         /\ [m EXCEPT !.payload = x] = [len |-> m.len, payload |-> x]
         /\ [m EXCEPT !.len = x] \in Message
         /\ [m EXCEPT !.payload = x] \in Message
  BY DEF Message

LEMMA TypeStep == TypeOK /\ [Next]_vars => TypeOK'
  <1> SUFFICES ASSUME TypeOK, [Next]_vars PROVE TypeOK'
    OBVIOUS
  <1> USE NumSegAssumption, WriteTypeAssumption DEF TypeOK
  <1>a. Zeroed \in Message
    BY DEF Zeroed, Message
  <1>b. ASSUME NEW i \in Slots PROVE Advance(i) \in Slots
    BY AdvanceWraps, <1>b DEF Slots
  <1>1. CASE SendRefused
    BY <1>1 DEF SendRefused, shm, receiver, history
  <1>2. CASE SendBegin
    <2>1. nWriteIdx \in Slots
      BY <1>2 DEF SendBegin, Refused, Slots
    <2> QED
      BY <1>2, <2>1 DEF SendBegin, shm, receiver, history
  <1>3. CASE SendLen
    <2>1. [pMsgBuf[sOffset] EXCEPT !.len = sent + 1] \in Message
      BY HalfStore, pMsgBuf[sOffset] \in Message, sent + 1 \in Nat
    <2>2. pMsgBuf' \in [Slots -> Message]
      BY <1>3, <2>1 DEF SendLen
    <2> QED
      BY <1>3, <2>2 DEF SendLen, receiver, history
  <1>4. CASE SendPayload
    <2>1. [pMsgBuf[sOffset] EXCEPT !.payload = sent + 1] \in Message
      BY HalfStore, pMsgBuf[sOffset] \in Message, sent + 1 \in Nat
    <2>2. pMsgBuf' \in [Slots -> Message]
      BY <1>4, <2>1 DEF SendPayload
    <2> QED
      BY <1>4, <2>2 DEF SendPayload, receiver, history
  <1>5. CASE SendIndex
    <2>1. /\ nWriteIdx' \in 0 .. NumSeg
          /\ NumSeg > 1 => nWriteIdx' < NumSeg
      <3>1. CASE NumSeg = 1
        BY <1>5, <3>1 DEF SendIndex
      <3>2. CASE NumSeg > 1
        <4>1. nWriteIdx \in Slots
          BY <3>2 DEF Slots
        <4>2. nWriteIdx' = Advance(nWriteIdx)
          BY <1>5, <3>2 DEF SendIndex
        <4>3. nWriteIdx' \in Slots
          BY <4>1, <4>2, <1>b
        <4> QED
          BY <4>3, <3>2 DEF Slots
      <3> QED
        BY <3>1, <3>2
    <2> QED
      BY <1>5, <2>1 DEF SendIndex, receiver
  <1>6. CASE SendAccident
    BY <1>6 DEF SendAccident, receiver, history
  <1>7. CASE RecvNoMsg
    BY <1>7 DEF RecvNoMsg, shm, sender, history
  <1>8. CASE RecvBegin
    BY <1>8 DEF RecvBegin, shm, sender, history
  <1>9. CASE RecvLen
    <2>1. [rBuf EXCEPT !.len = pMsgBuf[rOffset].len] \in Message
      BY HalfStore, pMsgBuf[rOffset] \in Message DEF Message
    <2> QED
      BY <1>9, <2>1 DEF RecvLen, shm, sender, history
  <1>10. CASE RecvPayload
    <2>1. [rBuf EXCEPT !.payload = pMsgBuf[rOffset].payload] \in Message
      BY HalfStore, pMsgBuf[rOffset] \in Message DEF Message
    <2> QED
      BY <1>10, <2>1 DEF RecvPayload, shm, sender, history
  <1>11. CASE RecvIndex
    <2>1. nReadIdx' \in Slots
      BY <1>11, <1>b DEF RecvIndex
    <2>2. received' \in Seq(Message)
      BY <1>11 DEF RecvIndex
    <2> QED
      BY <1>11, <2>1, <2>2 DEF RecvIndex, sender, Slots
  <1>12. CASE ResetHeader
    BY <1>12 DEF ResetHeader, receiver, Slots
  <1>13. CASE ResetSlots
    BY <1>13, <1>a DEF ResetSlots, receiver, history
  <1>14. CASE UNCHANGED vars
    BY <1>14 DEF vars, shm, sender, receiver, history
  <1> QED
    BY <1>1, <1>2, <1>3, <1>4, <1>5, <1>6, <1>7, <1>8, <1>9, <1>10, <1>11,
       <1>12, <1>13, <1>14 DEF Next, Send, SendStep, Recv, Reset

LEMMA SenderLocalStep == TypeOK /\ SenderLocal /\ [Next]_vars => SenderLocal'
  <1> SUFFICES ASSUME TypeOK, SenderLocal, [Next]_vars PROVE SenderLocal'
    OBVIOUS
  <1> USE NumSegAssumption DEF TypeOK, SenderLocal, Writing
  <1>1. CASE SendRefused \/ RecvNoMsg \/ RecvBegin \/ RecvLen \/ RecvPayload
    BY <1>1 DEF SendRefused, RecvNoMsg, RecvBegin, RecvLen, RecvPayload,
                shm, sender
  <1>2. CASE SendBegin
    BY <1>2 DEF SendBegin, Refused, shm
  <1>3. CASE SendLen \/ SendPayload
    BY <1>3 DEF SendLen, SendPayload
  <1>4. CASE SendIndex \/ SendAccident
    BY <1>4 DEF SendIndex, SendAccident
  <1>5. CASE RecvIndex
    BY <1>5 DEF RecvIndex, sender
  <1>6. CASE ResetHeader \/ ResetSlots
    BY <1>6 DEF ResetHeader, ResetSlots
  <1>7. CASE UNCHANGED vars
    BY <1>7 DEF vars, shm, sender
  <1> QED
    BY <1>1, <1>2, <1>3, <1>4, <1>5, <1>6, <1>7
    DEF Next, Send, SendStep, Recv, Reset

-----------------------------------------------------------------------------
(* The steps of the sender keep the queue in order.                        *)
LEMMA GoodSendBegin ==
  ASSUME TypeOK, Good, SendBegin
  PROVE  Good'
  <1> USE NumSegAssumption, WriteTypeAssumption
  <1>1. /\ spc = "idle" /\ spc' = "len" /\ nWriteIdx < NumSeg
        /\ WriteType = 0 => Advance(nWriteIdx) # nReadIdx
        /\ UNCHANGED <<nWriteIdx, nReadIdx, pMsgBuf, rpc, rOffset, rBuf,
                       sent, received>>
    BY DEF SendBegin, Refused, shm, receiver, history, TypeOK
  <1>2. Len(received) \in Nat /\ Lag' = Lag
    BY <1>1 DEF Lag, TypeOK
  <1>3. nWriteIdx \in Slots /\ nReadIdx \in Slots
    BY <1>1 DEF TypeOK, Slots
  <1>4. LagBounds'
    <2>1. NumSeg = 1 => Lag = 0
      BY <1>1 DEF Good, IndexDistance, LagBounds, TypeOK
    <2>2. WriteType = 0 => Lag < NumSeg - 1
      <3> SUFFICES ASSUME WriteType = 0, Lag = NumSeg - 1 PROVE FALSE
        BY DEF Good, LagBounds
      <3>1. Advance(nWriteIdx) = nReadIdx
        BY <1>3, AdvanceWraps DEF Good, IndexDistance, TypeOK, Slots
      <3> QED
        BY <1>1, <3>1
    <2> QED
      BY <1>1, <1>2, <2>1, <2>2 DEF Good, LagBounds, Writing
  <1>5. IndexDistance' /\ Booting' /\ BeingWritten'
    BY <1>1, <1>2 DEF Good, IndexDistance, Booting, BeingWritten
  <1>6. UnreadIntact' /\ BeingRead' /\ InOrder'
    BY <1>1, <1>2 DEF Good, UnreadIntact, BeingRead, InOrder, Pos
  <1> QED
    BY <1>4, <1>5, <1>6 DEF Good

(* The slot being written is beyond the unread ones.                       *)
LEMMA WriteSlotFree ==
  ASSUME TypeOK, SenderLocal, Good, Writing
  PROVE  /\ sOffset = nWriteIdx /\ nWriteIdx \in Slots
         /\ \A j \in Slots : j < Lag => Pos(j) \in Slots /\ Pos(j) # nWriteIdx
         /\ Lag > 0 => nWriteIdx # nReadIdx
  <1> USE NumSegAssumption, WriteTypeAssumption
  <1>1. sOffset = nWriteIdx /\ nWriteIdx \in Slots
    BY DEF SenderLocal, TypeOK, Slots
  <1>2. Lag \in 0 .. NumSeg - 1 /\ nReadIdx \in 0 .. NumSeg - 1
    BY DEF Good, LagBounds, Writing, TypeOK, Slots
  <1>3. CASE NumSeg = 1
    BY <1>1, <1>2, <1>3 DEF Good, LagBounds, Writing, Slots
  <1>4. CASE NumSeg > 1
    BY <1>1, <1>2, <1>4 DEF Good, IndexDistance, Pos, Slots
  <1> QED
    BY <1>1, <1>3, <1>4

LEMMA GoodSendLen ==
  ASSUME TypeOK, SenderLocal, Good, SendLen
  PROVE  Good'
  <1> USE NumSegAssumption
  <1>1. /\ spc = "len" /\ spc' = "payload"
        /\ pMsgBuf' = [pMsgBuf EXCEPT ![sOffset].len = sent + 1]
        /\ UNCHANGED <<nWriteIdx, nReadIdx, rpc, rOffset, rBuf, sent, received>>
    BY DEF SendLen, receiver, history
  <1>2. Lag' = Lag
    BY <1>1 DEF Lag
  <1>3. /\ sOffset = nWriteIdx /\ nWriteIdx \in Slots
        /\ \A j \in Slots : j < Lag => Pos(j) \in Slots /\ Pos(j) # nWriteIdx
    BY <1>1, WriteSlotFree DEF Writing
  <1>4. pMsgBuf'[nWriteIdx].len = sent + 1
    <2>1. pMsgBuf[nWriteIdx] \in Message /\ sent + 1 \in Nat
      BY <1>3 DEF TypeOK
    <2>2. pMsgBuf'[nWriteIdx] = [pMsgBuf[nWriteIdx] EXCEPT !.len = sent + 1]
      BY <1>1, <1>3 DEF TypeOK
    <2> QED
      BY <2>1, <2>2, HalfStore
  <1>5. \A i \in Slots : i # nWriteIdx => pMsgBuf'[i] = pMsgBuf[i]
    BY <1>1, <1>3 DEF TypeOK
  <1>6. LagBounds' /\ IndexDistance' /\ Booting' /\ BeingRead' /\ InOrder'
    BY <1>1, <1>2 DEF Good, LagBounds, IndexDistance, Booting, BeingRead,
                      InOrder, Writing
  <1>7. BeingWritten'
    BY <1>1, <1>4 DEF BeingWritten
  <1>8. UnreadIntact'
    BY <1>1, <1>2, <1>3, <1>5 DEF Good, UnreadIntact, Pos
  <1> QED
    BY <1>6, <1>7, <1>8 DEF Good

LEMMA GoodSendPayload ==
  ASSUME TypeOK, SenderLocal, Good, SendPayload
  PROVE  Good'
  <1> USE NumSegAssumption
  <1>1. /\ spc = "payload" /\ spc' = "index"
        /\ pMsgBuf' = [pMsgBuf EXCEPT ![sOffset].payload = sent + 1]
        /\ UNCHANGED <<nWriteIdx, nReadIdx, rpc, rOffset, rBuf, sent, received>>
    BY DEF SendPayload, receiver, history
  <1>2. Lag' = Lag
    BY <1>1 DEF Lag
  <1>3. /\ sOffset = nWriteIdx /\ nWriteIdx \in Slots
        /\ \A j \in Slots : j < Lag => Pos(j) \in Slots /\ Pos(j) # nWriteIdx
    BY <1>1, WriteSlotFree DEF Writing
  <1>4. pMsgBuf'[nWriteIdx] = Msg(sent + 1)
    <2>1. pMsgBuf[nWriteIdx] \in Message /\ sent + 1 \in Nat
      BY <1>3 DEF TypeOK
    <2>2. pMsgBuf'[nWriteIdx] = [pMsgBuf[nWriteIdx] EXCEPT !.payload = sent + 1]
      BY <1>1, <1>3 DEF TypeOK
    <2>3. pMsgBuf[nWriteIdx].len = sent + 1
      BY <1>1 DEF Good, BeingWritten
    <2>4. pMsgBuf'[nWriteIdx] = [len |-> pMsgBuf[nWriteIdx].len,
                                 payload |-> sent + 1]
      BY <2>1, <2>2, HalfStore
    <2> QED
      BY <2>3, <2>4 DEF Msg
  <1>5. \A i \in Slots : i # nWriteIdx => pMsgBuf'[i] = pMsgBuf[i]
    BY <1>1, <1>3 DEF TypeOK
  <1>6. LagBounds' /\ IndexDistance' /\ Booting' /\ BeingRead' /\ InOrder'
    BY <1>1, <1>2 DEF Good, LagBounds, IndexDistance, Booting, BeingRead,
                      InOrder, Writing
  <1>7. BeingWritten'
    BY <1>1, <1>4 DEF BeingWritten, Msg
  <1>8. UnreadIntact'
    BY <1>1, <1>2, <1>3, <1>5 DEF Good, UnreadIntact, Pos
  <1> QED
    BY <1>6, <1>7, <1>8 DEF Good

(* Publishing the message makes the slot just written the newest unread.   *)
LEMMA GoodSendIndex ==
  ASSUME TypeOK, SenderLocal, Good, SendIndex
  PROVE  Good'
  <1> USE NumSegAssumption, WriteTypeAssumption
  <1>1. /\ spc = "index" /\ spc' = "accident" /\ sent' = sent + 1
        /\ nWriteIdx' = IF NumSeg = 1 THEN 1 ELSE Advance(nWriteIdx)
        /\ UNCHANGED <<nReadIdx, pMsgBuf, rpc, rOffset, rBuf, received>>
    BY DEF SendIndex, receiver
  <1>2. Len(received) \in Nat /\ sent \in Nat /\ Lag' = Lag + 1
        /\ sent = Len(received) + Lag
    BY <1>1 DEF Lag, TypeOK
  <1>3. Lag \in 0 .. NumSeg - 1 /\ nReadIdx \in 0 .. NumSeg - 1
        /\ (NumSeg = 1 => Lag = 0)
    BY <1>1 DEF Good, LagBounds, Writing, TypeOK, Slots
  <1>4. nWriteIdx \in Slots /\ nWriteIdx = Pos(Lag)
    <2>1. nWriteIdx \in Slots
      BY <1>1, WriteSlotFree DEF Writing
    <2> QED
      BY <2>1, <1>3 DEF Good, IndexDistance, Pos, Slots
  <1>5. IndexDistance'
    <2>1. CASE NumSeg = 1
      BY <2>1, <1>1, <1>2, <1>3 DEF IndexDistance
    <2>2. CASE NumSeg > 1
      BY <2>2, <1>1, <1>2, <1>3, <1>4, AdvanceWraps
      DEF IndexDistance, Good, Slots
    <2> QED
      BY <2>1, <2>2
  <1>6. LagBounds'
    <2>1. WriteType = 0 => Lag + 1 < NumSeg
      BY <1>1 DEF Good, LagBounds, Writing
    <2> QED
      BY <1>1, <1>2, <1>3, <2>1 DEF LagBounds, Writing
  <1>7. UnreadIntact'
    <2>1. pMsgBuf[nWriteIdx] = Msg(Len(received) + 1 + Lag)
      <3>1. pMsgBuf[nWriteIdx] = Msg(sent + 1)
        BY <1>1 DEF Good, BeingWritten
      <3>2. sent + 1 = Len(received) + 1 + Lag
        BY <1>2, <1>3
      <3> QED
        BY <3>1, <3>2
    <2> SUFFICES ASSUME NEW j \in Slots, j < Lag + 1
                 PROVE  pMsgBuf[Pos(j)] = Msg(Len(received) + 1 + j)
      BY <1>1, <1>2 DEF UnreadIntact, Pos
    <2>2. CASE j = Lag
      BY <2>1, <2>2, <1>4
    <2>3. CASE j < Lag
      BY <2>3 DEF Good, UnreadIntact
    <2> QED
      BY <2>2, <2>3, <1>3 DEF Slots
  <1>8. BeingWritten' /\ Booting' /\ InOrder' /\ BeingRead'
    BY <1>1, <1>2, <1>3 DEF Good, BeingWritten, Booting, InOrder, BeingRead
  <1> QED
    BY <1>5, <1>6, <1>7, <1>8 DEF Good

(* A ring that has just become full is counted, which ends the promise of  *)
(* a queue that covers; nothing else is disturbed.                         *)
LEMMA GoodSendAccident ==
  ASSUME TypeOK, Good, SendAccident, Undisturbed'
  PROVE  Good'
  <1> USE NumSegAssumption, WriteTypeAssumption
  <1>1. /\ spc = "accident" /\ spc' = "idle"
        /\ nWriteIdx = nReadIdx => accidentNum' = accidentNum + 1
        /\ UNCHANGED <<nWriteIdx, nReadIdx, pMsgBuf, rpc, rOffset, rBuf,
                       sent, received>>
    BY DEF SendAccident, receiver, history
  <1>2. Lag' = Lag
    BY <1>1 DEF Lag
  <1>3. NumSeg = 1 \/ Lag # NumSeg
    <2> SUFFICES ASSUME NumSeg > 1, Lag = NumSeg PROVE FALSE
      OBVIOUS
    <2>1. nWriteIdx = nReadIdx
      BY DEF Good, IndexDistance, TypeOK, Slots
    <2>2. accidentNum' # 0 /\ WriteType = 1
      BY <1>1, <2>1 DEF TypeOK, Good, LagBounds
    <2> QED
      BY <2>2 DEF Undisturbed
  <1>4. LagBounds'
    BY <1>1, <1>2, <1>3 DEF Good, LagBounds, Writing
  <1>5. IndexDistance' /\ UnreadIntact' /\ BeingWritten' /\ BeingRead'
        /\ Booting' /\ InOrder'
    BY <1>1, <1>2 DEF Good, IndexDistance, UnreadIntact, BeingWritten,
                      BeingRead, Booting, InOrder, Pos
  <1> QED
    BY <1>4, <1>5 DEF Good

-----------------------------------------------------------------------------
(* The steps of the receiver keep the queue in order.                      *)
LEMMA GoodRecvBegin ==
  ASSUME TypeOK, Good, RecvBegin
  PROVE  Good'
  <1> USE NumSegAssumption, WriteTypeAssumption
  <1>1. /\ rpc' = "len" /\ rOffset' = nReadIdx /\ nReadIdx # nWriteIdx
        /\ UNCHANGED <<nWriteIdx, nReadIdx, pMsgBuf, spc, rBuf, sent, received>>
    BY DEF RecvBegin, shm, sender, history
  <1>2. Lag' = Lag
    BY <1>1 DEF Lag
  <1>3. Lag > 0
    BY <1>1 DEF Good, LagBounds, IndexDistance, TypeOK, Slots
  <1> QED
    BY <1>1, <1>2, <1>3 DEF Good, LagBounds, Writing, IndexDistance,
       UnreadIntact, BeingWritten, BeingRead, Booting, InOrder, Pos

(* What the receiver copies is the oldest unread message.                  *)
LEMMA OldestUnread ==
  ASSUME TypeOK, Good, rpc # "idle"
  PROVE  /\ rOffset = nReadIdx /\ Lag > 0
         /\ pMsgBuf[nReadIdx] = Msg(Len(received) + 1)
  <1> USE NumSegAssumption
  <1>1. rOffset = nReadIdx /\ Lag > 0
    BY DEF Good, BeingRead
  <1>2. 0 \in Slots /\ nReadIdx \in 0 .. NumSeg - 1
    BY DEF Slots, TypeOK
  <1>3. Pos(0) = nReadIdx
    BY <1>2 DEF Pos
  <1>4. pMsgBuf[Pos(0)] = Msg(Len(received) + 1 + 0)
    BY <1>1, <1>2 DEF Good, UnreadIntact
  <1>5. Len(received) + 1 + 0 = Len(received) + 1
    BY DEF TypeOK
  <1> QED
    BY <1>1, <1>3, <1>4, <1>5

LEMMA GoodRecvLen ==
  ASSUME TypeOK, Good, RecvLen
  PROVE  Good'
  <1>1. rpc = "len"
        /\ UNCHANGED <<nWriteIdx, nReadIdx, pMsgBuf, spc, rOffset, sent, received>>
    BY DEF RecvLen, shm, sender, history
  <1>2. Lag' = Lag
    BY <1>1 DEF Lag
  <1>3. rpc' = "idle" \/ (rpc' = "payload" /\ rBuf'.len = Len(received) + 1)
    <2> SUFFICES ASSUME rpc' # "idle"
                 PROVE  rpc' = "payload" /\ rBuf'.len = Len(received) + 1
      OBVIOUS
    <2>1. rpc' = "payload" /\ rBuf' = [rBuf EXCEPT !.len = pMsgBuf[rOffset].len]
      BY DEF RecvLen
    <2>2. pMsgBuf[rOffset].len = Len(received) + 1 /\ Len(received) + 1 \in Nat
      BY <1>1, OldestUnread DEF Msg, TypeOK
    <2>3. rBuf \in Message
      BY DEF TypeOK
    <2>4. rBuf' = [len |-> Len(received) + 1, payload |-> rBuf.payload]
      BY <2>1, <2>2, <2>3, HalfStore
    <2> QED
      BY <2>1, <2>4
  <1>4. BeingRead'
    BY <1>1, <1>2, <1>3 DEF Good, BeingRead
  <1> QED
    BY <1>1, <1>2, <1>4 DEF Good, LagBounds, Writing, IndexDistance,
       UnreadIntact, BeingWritten, Booting, InOrder, Pos

LEMMA GoodRecvPayload ==
  ASSUME TypeOK, Good, RecvPayload
  PROVE  Good'
  <1>1. rpc = "payload" /\ rpc' = "index"
        /\ rBuf' = [rBuf EXCEPT !.payload = pMsgBuf[rOffset].payload]
        /\ UNCHANGED <<nWriteIdx, nReadIdx, pMsgBuf, spc, rOffset, sent, received>>
    BY DEF RecvPayload, shm, sender, history
  <1>2. Lag' = Lag
    BY <1>1 DEF Lag
  <1>3. rBuf' = Msg(Len(received) + 1)
    <2>1. rBuf.len = Len(received) + 1
      BY <1>1 DEF Good, BeingRead
    <2>2. pMsgBuf[rOffset].payload = Len(received) + 1 /\ Len(received) + 1 \in Nat
      BY <1>1, OldestUnread DEF Msg, TypeOK
    <2>3. rBuf \in Message
      BY DEF TypeOK
    <2>4. [rBuf EXCEPT !.payload = Len(received) + 1]
             = [len |-> rBuf.len, payload |-> Len(received) + 1]
      BY <2>2, <2>3, HalfStore
    <2>5. rBuf' = [rBuf EXCEPT !.payload = Len(received) + 1]
      BY <1>1, <2>2
    <2> QED
      BY <2>1, <2>4, <2>5 DEF Msg
  <1>4. BeingRead'
    BY <1>1, <1>2, <1>3 DEF Good, BeingRead, Msg
  <1> QED
    BY <1>1, <1>2, <1>4 DEF Good, LagBounds, Writing, IndexDistance,
       UnreadIntact, BeingWritten, Booting, InOrder, Pos

(* Advancing the read index hands over the oldest message and frees its    *)
(* slot; the others move one place nearer.                                 *)
LEMMA GoodRecvIndex ==
  ASSUME TypeOK, Good, RecvIndex
  PROVE  Good'
  <1> USE NumSegAssumption, WriteTypeAssumption
  <1>1. /\ rpc = "index" /\ rpc' = "idle"
        /\ nReadIdx' = Advance(nReadIdx)
        /\ nWriteIdx' = IF NumSeg = 1 THEN 0 ELSE nWriteIdx
        /\ received' = Append(received, rBuf)
        /\ UNCHANGED <<pMsgBuf, spc, sent>>
    BY DEF RecvIndex, sender
  <1>2. /\ Len(received) \in Nat /\ Len(received') = Len(received) + 1
        /\ \A k \in 1 .. Len(received) : received'[k] = received[k]
        /\ received'[Len(received) + 1] = rBuf
    BY <1>1 DEF TypeOK
  <1>3. Lag' = Lag - 1 /\ Lag \in 1 .. NumSeg
    BY <1>1, <1>2 DEF Lag, Good, LagBounds, BeingRead, TypeOK
  <1>4. /\ nReadIdx \in 0 .. NumSeg - 1
        /\ nReadIdx' = IF nReadIdx + 1 < NumSeg THEN nReadIdx + 1 ELSE 0
    BY <1>1, AdvanceWraps DEF TypeOK, Slots
  <1>5. NumSeg = 1 => ~Writing
    BY <1>3 DEF Good, LagBounds
  <1>6. LagBounds'
    BY <1>1, <1>3, <1>5 DEF Good, LagBounds, Writing
  <1>7. IndexDistance'
    BY <1>1, <1>3, <1>4 DEF Good, IndexDistance, TypeOK
  <1>8. UnreadIntact'
    <2> SUFFICES ASSUME NEW j \in Slots, j < Lag - 1
                 PROVE  pMsgBuf[Pos(j)'] = Msg(Len(received) + 1 + 1 + j)
      BY <1>1, <1>2, <1>3 DEF UnreadIntact, Pos
    <2>1. j + 1 \in Slots /\ j + 1 < Lag
      BY <1>3 DEF Slots
    <2>2. Pos(j)' = Pos(j + 1)
      BY <1>3, <1>4, <2>1 DEF Pos, Slots
    <2>3. pMsgBuf[Pos(j + 1)] = Msg(Len(received) + 1 + (j + 1))
      BY <2>1 DEF Good, UnreadIntact
    <2>4. Len(received) + 1 + (j + 1) = Len(received) + 1 + 1 + j
      BY <1>2 DEF Slots
    <2> QED
      BY <2>2, <2>3, <2>4
  <1>9. BeingWritten'
    BY <1>1, <1>5 DEF Good, BeingWritten, Writing
  <1>10. BeingRead' /\ Booting'
    BY <1>1, <1>3 DEF Good, BeingRead, Booting
  <1>11. InOrder'
    <2> SUFFICES ASSUME NEW k \in 1 .. Len(received) + 1
                 PROVE  received'[k] = Msg(k)
      BY <1>2 DEF InOrder
    <2>1. CASE k = Len(received) + 1
      BY <1>1, <1>2, <2>1 DEF Good, BeingRead
    <2>2. CASE k \in 1 .. Len(received)
      BY <1>2, <2>2 DEF Good, InOrder
    <2> QED
      BY <1>2, <2>1, <2>2
  <1> QED
    BY <1>6, <1>7, <1>8, <1>9, <1>10, <1>11 DEF Good

-----------------------------------------------------------------------------
(* A boot that finds the receiver between two messages empties the queue.  *)
LEMMA GoodResetHeader ==
  ASSUME TypeOK, ResetHeader, Undisturbed'
  PROVE  Good'
  <1> USE NumSegAssumption, WriteTypeAssumption
  <1>1. /\ nWriteIdx' = 0 /\ nReadIdx' = 0 /\ spc' = "reset" /\ sent' = 0
        /\ rpc' = rpc /\ disturbed' = (rpc # "idle")
    BY DEF ResetHeader, receiver
  <1>2. Len(received') = 0
    <2>1. received' = <<>>
      BY DEF ResetHeader
    <2> QED
      BY <2>1
  <1>3. rpc' = "idle"
    BY <1>1 DEF Undisturbed
  <1>4. sent' - Len(received') = 0
    BY <1>1, <1>2
  <1>5. Lag' = 0
    BY <1>4 DEF Lag
  <1>6. nWriteIdx' = 0 /\ nReadIdx' = 0 /\ spc' = "reset"
    BY <1>1
  <1> QED
    BY <1>2, <1>3, <1>5, <1>6 DEF Good, LagBounds, Writing, IndexDistance,
       UnreadIntact, BeingWritten, BeingRead, Booting, InOrder, Slots

LEMMA GoodResetSlots ==
  ASSUME TypeOK, Good, ResetSlots
  PROVE  Good'
  <1> USE NumSegAssumption, WriteTypeAssumption
  <1>1. /\ spc = "reset" /\ spc' = "idle"
        /\ UNCHANGED <<nWriteIdx, nReadIdx, rpc, rOffset, rBuf, sent, received>>
    BY DEF ResetSlots, receiver, history
  <1>2. Lag = 0 /\ Lag' = Lag
    BY <1>1 DEF Good, Booting, Lag
  <1>3. rpc = "idle"
    BY <1>2 DEF Good, BeingRead, TypeOK
  <1> QED
    BY <1>1, <1>2, <1>3 DEF Good, LagBounds, Writing, IndexDistance,
       UnreadIntact, BeingWritten, BeingRead, Booting, InOrder, Slots

LEMMA GoodIdle ==
  ASSUME TypeOK, Good, SendRefused \/ RecvNoMsg \/ UNCHANGED vars
  PROVE  Good'
  <1>1. UNCHANGED <<nWriteIdx, nReadIdx, pMsgBuf, spc, rpc, rOffset, rBuf,
                    sent, received>>
    BY DEF SendRefused, RecvNoMsg, vars, shm, sender, receiver, history
  <1>2. Lag' = Lag
    BY <1>1 DEF Lag
  <1> QED
    BY <1>1, <1>2 DEF Good, LagBounds, Writing, IndexDistance, UnreadIntact,
       BeingWritten, BeingRead, Booting, InOrder, Pos

(* Only a boot restores a queue that has been disturbed.                   *)
LEMMA StaysDisturbed ==
  ASSUME TypeOK, [Next]_vars, ~ResetHeader, Undisturbed'
  PROVE  Undisturbed
  <1>1. disturbed' = disturbed /\ (accidentNum' = 0 => accidentNum = 0)
    BY DEF TypeOK, Next, Send, SendStep, Recv, Reset, vars, shm, history,
       SendRefused, SendBegin, SendLen, SendPayload, SendIndex, SendAccident,
       RecvNoMsg, RecvBegin, RecvLen, RecvPayload, RecvIndex, ResetSlots
  <1> QED
    BY <1>1 DEF Undisturbed

LEMMA GoodStep == IInv /\ [Next]_vars /\ Undisturbed' => Good'
  <1> SUFFICES ASSUME IInv, [Next]_vars, Undisturbed' PROVE Good'
    OBVIOUS
  <1>1. TypeOK /\ SenderLocal
    BY DEF IInv
  <1>2. CASE ResetHeader
    BY <1>1, <1>2, GoodResetHeader
  <1>3. CASE ~ResetHeader
    <2>1. Good
      BY <1>1, <1>3, StaysDisturbed DEF IInv
    <2>2. CASE SendRefused \/ RecvNoMsg \/ UNCHANGED vars
      BY <1>1, <2>1, <2>2, GoodIdle
    <2>3. CASE SendBegin
      BY <1>1, <2>1, <2>3, GoodSendBegin
    <2>4. CASE SendLen
      BY <1>1, <2>1, <2>4, GoodSendLen
    <2>5. CASE SendPayload
      BY <1>1, <2>1, <2>5, GoodSendPayload
    <2>6. CASE SendIndex
      BY <1>1, <2>1, <2>6, GoodSendIndex
    <2>7. CASE SendAccident
      BY <1>1, <2>1, <2>7, GoodSendAccident
    <2>8. CASE RecvBegin
      BY <1>1, <2>1, <2>8, GoodRecvBegin
    <2>9. CASE RecvLen
      BY <1>1, <2>1, <2>9, GoodRecvLen
    <2>10. CASE RecvPayload
      BY <1>1, <2>1, <2>10, GoodRecvPayload
    <2>11. CASE RecvIndex
      BY <1>1, <2>1, <2>11, GoodRecvIndex
    <2>12. CASE ResetSlots
      BY <1>1, <2>1, <2>12, GoodResetSlots
    <2> QED
      BY <1>3, <2>2, <2>3, <2>4, <2>5, <2>6, <2>7, <2>8, <2>9, <2>10, <2>11,
         <2>12 DEF Next, Send, SendStep, Recv, Reset
  <1> QED
    BY <1>2, <1>3

-----------------------------------------------------------------------------
(* Every reachable state is of the declared type.                          *)
THEOREM TypeCorrect == Spec => []TypeOK
  <1>1. Init => TypeOK
    BY InitIInv DEF IInv
  <1> QED
    BY <1>1, TypeStep, PTL DEF Spec

LEMMA Invariance == Spec => []IInv
  <1>1. IInv /\ [Next]_vars => IInv'
    BY TypeStep, SenderLocalStep, GoodStep DEF IInv
  <1> QED
    BY <1>1, InitIInv, PTL DEF Spec

(* For every ring size and either write type: messages arrive in order,    *)
(* whole, once each and without a gap, until an accident is counted or a   *)
(* boot cuts into a receive.                                               *)
THEOREM FifoOrder == Spec => []FifoUnlessAccident
  <1>1. IInv => FifoUnlessAccident
    <2> SUFFICES ASSUME IInv, Undisturbed PROVE InOrder /\ Len(received) <= sent
      BY DEF FifoUnlessAccident, InOrder
    <2>1. sent - Len(received) \in 0 .. NumSeg /\ Len(received) \in Nat
      BY DEF IInv, TypeOK, Good, LagBounds, Lag
    <2> QED
      BY <2>1, NumSegAssumption DEF IInv, TypeOK, Good
  <1> QED
    BY <1>1, Invariance, PTL

(* The two cores never access the same slot at the same time.              *)
THEOREM SlotExclusion == Spec => []NoSlotRace
  <1>1. IInv => NoSlotRace
    <2> SUFFICES ASSUME IInv, Undisturbed, spc \in {"len", "payload"},
                        rpc \in {"len", "payload"}
                 PROVE  sOffset # rOffset
      BY DEF NoSlotRace
    <2>1. TypeOK /\ SenderLocal /\ Good /\ Writing /\ rpc # "idle"
      BY DEF IInv, Writing
    <2> QED
      BY <2>1, WriteSlotFree, OldestUnread
  <1> QED
    BY <1>1, Invariance, PTL

(* Equal indices hide no message from the receiver.                        *)
THEOREM EmptyTest == Spec => []EqualMeansEmpty
  <1>1. IInv => EqualMeansEmpty
    <2> SUFFICES ASSUME IInv, Undisturbed, nReadIdx = nWriteIdx
                 PROVE  Lag = 0 \/ (WriteType = 1 /\ spc = "accident")
      BY DEF EqualMeansEmpty
    <2> QED
      BY NumSegAssumption
      DEF IInv, TypeOK, Good, LagBounds, IndexDistance, Slots
  <1> QED
    BY <1>1, Invariance, PTL

(* A receiver is turned away by a length word only in a disturbed queue.   *)
THEOREM LengthUsable == Spec => NoPhantomLength
  <1>1. IInv /\ [Next]_vars => [(rpc = "len" /\ rpc' = "idle") => ~Undisturbed]_vars
    <2> SUFFICES ASSUME IInv, Next, rpc = "len", rpc' = "idle", Undisturbed
                 PROVE  FALSE
      OBVIOUS
    <2>1. RecvLen
      BY DEF Next, Send, SendStep, Recv, Reset, receiver, SendRefused,
         SendBegin, SendLen, SendPayload, SendIndex, SendAccident, RecvNoMsg,
         RecvBegin, RecvPayload, RecvIndex, ResetHeader, ResetSlots
    <2>2. pMsgBuf[rOffset].len = 0
      BY <2>1 DEF RecvLen
    <2>3. pMsgBuf[rOffset].len = Len(received) + 1 /\ Len(received) \in Nat
      BY OldestUnread DEF IInv, Msg, TypeOK
    <2> QED
      BY <2>2, <2>3
  <1> QED
    BY <1>1, Invariance, PTL DEF Spec, NoPhantomLength

-----------------------------------------------------------------------------
(* The queue that discards when full is the bounded channel.               *)

Unread == [i \in 1 .. Lag |-> Msg(Len(received) + i)]

LEMMA PendingIsUnread ==
  ASSUME TypeOK, Good, WriteType = 0
  PROVE  Pending = Unread /\ Lag \in 0 .. NumSeg - 1
  <1> USE NumSegAssumption
  <1>1. Lag \in 0 .. NumSeg - 1 /\ nReadIdx \in 0 .. NumSeg - 1
    BY DEF Good, LagBounds, TypeOK, Slots
  <1>2. ASSUME NEW x \in 0 .. NumSeg - 1
        PROVE  x % NumSeg = x /\ (x + NumSeg) % NumSeg = x
    BY <1>2
  <1>3. Visible = Lag
    <2>1. nWriteIdx - nReadIdx + NumSeg = Lag \/ nWriteIdx - nReadIdx + NumSeg = Lag + NumSeg
      BY <1>1 DEF Good, IndexDistance, TypeOK
    <2> QED
      BY <1>1, <1>2, <2>1 DEF Visible
  <1>4. ASSUME NEW i \in 1 .. Lag
        PROVE  pMsgBuf[(nReadIdx + i - 1) % NumSeg] = Msg(Len(received) + i)
    <2>1. i - 1 \in Slots /\ i - 1 < Lag
      BY <1>1, <1>4 DEF Slots
    <2>2. (nReadIdx + i - 1) % NumSeg = Pos(i - 1)
      <3>1. CASE nReadIdx + (i - 1) < NumSeg
        BY <1>1, <1>2, <2>1, <3>1 DEF Pos, Slots
      <3>2. CASE nReadIdx + (i - 1) >= NumSeg
        <4> DEFINE x == nReadIdx + (i - 1) - NumSeg
        <4>1. x \in 0 .. NumSeg - 1 /\ nReadIdx + i - 1 = x + NumSeg
          BY <1>1, <2>1, <3>2 DEF Slots
        <4>2. Pos(i - 1) = x
          BY <1>1, <2>1, <3>2 DEF Pos, Slots
        <4> HIDE DEF x
        <4> QED
          BY <4>1, <4>2, <1>2
      <3> QED
        BY <1>1, <2>1, <3>1, <3>2 DEF Slots
    <2>3. pMsgBuf[Pos(i - 1)] = Msg(Len(received) + 1 + (i - 1))
      BY <2>1 DEF Good, UnreadIntact
    <2>4. Len(received) + 1 + (i - 1) = Len(received) + i
      BY DEF TypeOK
    <2> QED
      BY <2>2, <2>3, <2>4
  <1> QED
    BY <1>1, <1>3, <1>4 DEF Pending, Unread

LEMMA PendingIsUnreadThen ==
  (TypeOK /\ Good /\ WriteType = 0 => Pending = Unread)'
  <1>1. TypeOK /\ Good /\ WriteType = 0 => Pending = Unread
    BY PendingIsUnread
  <1> QED
    BY <1>1, PTL

LEMMA UnreadIsSeq ==
  ASSUME TypeOK, Lag \in Nat
  PROVE  /\ Unread \in Seq(Message) /\ Len(Unread) = Lag
         /\ \A i \in 1 .. Lag : Unread[i] = Msg(Len(received) + i)
  <1>1. \A i \in 1 .. Lag : Msg(Len(received) + i) \in Message
    BY DEF TypeOK, Msg, Message
  <1> QED
    BY <1>1 DEF Unread

LEMMA SendPuts ==
  ASSUME IInv, Undisturbed, WriteType = 0, SendIndex
  PROVE  Len(Unread) < NumSeg - 1 /\ Unread' = Append(Unread, Msg(Len(received) + Len(Unread) + 1))
         /\ UNCHANGED received
  <1> USE NumSegAssumption
  <1>1. TypeOK /\ Good /\ spc = "index"
    BY DEF IInv, SendIndex
  <1>2. Lag \in Nat /\ Lag < NumSeg - 1
    BY <1>1 DEF Good, LagBounds, Writing
  <1>3. received' = received /\ sent' = sent + 1
    BY DEF SendIndex
  <1>4. Lag' = Lag + 1
    BY <1>1, <1>3 DEF Lag, TypeOK
  <1>5. Len(Unread) = Lag /\ Unread \in Seq(Message)
    BY <1>1, <1>2, UnreadIsSeq
  <1>6. Unread' = [i \in 1 .. Lag + 1 |-> Msg(Len(received) + i)]
    BY <1>3, <1>4 DEF Unread
  <1>7. Append(Unread, Msg(Len(received) + Lag + 1)) =
          [i \in 1 .. Lag + 1 |-> Msg(Len(received) + i)]
    <2>1. Append(Unread, Msg(Len(received) + Lag + 1)) =
            [i \in 1 .. Lag + 1 |-> IF i \in 1 .. Lag THEN Unread[i]
                                    ELSE Msg(Len(received) + Lag + 1)]
      BY <1>2, <1>5
    <2>2. ASSUME NEW i \in 1 .. Lag + 1
          PROVE  (IF i \in 1 .. Lag THEN Unread[i] ELSE Msg(Len(received) + Lag + 1))
                   = Msg(Len(received) + i)
      <3>1. CASE i \in 1 .. Lag
        BY <3>1 DEF Unread
      <3>2. CASE i = Lag + 1
        <4>1. Len(received) + Lag + 1 = Len(received) + i /\ i \notin 1 .. Lag
          BY <3>2, <1>1, <1>2 DEF TypeOK
        <4> QED
          BY <4>1
      <3> QED
        BY <1>2, <3>1, <3>2
    <2> QED
      BY <2>1, <2>2
  <1> QED
    BY <1>2, <1>3, <1>5, <1>6, <1>7

LEMMA RecvTakes ==
  ASSUME IInv, Undisturbed, RecvIndex
  PROVE  Unread # <<>> /\ received' = Append(received, Head(Unread))
         /\ Unread' = Tail(Unread)
  <1>1. TypeOK /\ Good /\ rpc = "index"
    BY DEF IInv, RecvIndex
  <1>2. Lag \in Nat /\ Lag > 0 /\ rBuf = Msg(Len(received) + 1)
    BY <1>1, NumSegAssumption DEF Good, LagBounds, BeingRead
  <1>3. received' = Append(received, rBuf) /\ sent' = sent
    BY DEF RecvIndex
  <1>4. Len(received') = Len(received) + 1 /\ Len(received) \in Nat
    BY <1>1, <1>3 DEF TypeOK
  <1>5. Lag' = Lag - 1
    BY <1>1, <1>3, <1>4 DEF Lag, TypeOK
  <1>6. Len(Unread) = Lag /\ Unread \in Seq(Message) /\ Unread[1] = Msg(Len(received) + 1)
    BY <1>1, <1>2, UnreadIsSeq
  <1>7. Unread # <<>> /\ Head(Unread) = rBuf
    BY <1>2, <1>6
  <1>8. Unread' = [i \in 1 .. Lag - 1 |-> Msg(Len(received) + 1 + i)]
    BY <1>4, <1>5 DEF Unread
  <1>9. Tail(Unread) = [i \in 1 .. Lag - 1 |-> Unread[i + 1]]
    <2>1. /\ Tail(Unread) \in Seq(Message) /\ Len(Tail(Unread)) = Lag - 1
          /\ \A i \in 1 .. Len(Tail(Unread)) : Tail(Unread)[i] = Unread[i + 1]
      BY <1>6, <1>7, HeadTailProperties
    <2>2. Tail(Unread) = [i \in 1 .. Len(Tail(Unread)) |-> Tail(Unread)[i]]
      <3> DEFINE t == Tail(Unread)
      <3>1. t \in Seq(Message)
        BY <2>1
      <3> HIDE DEF t
      <3>2. t \in [1 .. Len(t) -> Message]
        BY <3>1, LenProperties
      <3>3. t = [i \in 1 .. Len(t) |-> t[i]]
        BY <3>2
      <3> QED
        BY <3>3 DEF t
    <2> QED
      BY <2>1, <2>2
  <1>10. ASSUME NEW i \in 1 .. Lag - 1
         PROVE  Unread[i + 1] = Msg(Len(received) + 1 + i)
    <2>1. i + 1 \in 1 .. Lag /\ Len(received) + (i + 1) = Len(received) + 1 + i
      BY <1>2, <1>4
    <2> QED
      BY <2>1 DEF Unread
  <1> QED
    BY <1>3, <1>7, <1>8, <1>9, <1>10

LEMMA OthersStutter ==
  ASSUME [Next]_vars, ~SendIndex, ~RecvIndex, ~ResetHeader
  PROVE  UNCHANGED <<Unread, received>>
  <1>1. UNCHANGED <<sent, received>>
    BY DEF Next, Send, SendStep, Recv, Reset, vars, history, SendRefused,
       SendBegin, SendLen, SendPayload, SendAccident, RecvNoMsg, RecvBegin,
       RecvLen, RecvPayload, ResetSlots
  <1> QED
    BY <1>1 DEF Unread, Lag

(* Where nobody boots again, no boot ever cuts into a receive.             *)
LEMMA NeverDisturbed ==
  ASSUME MaxRestarts = 0
  PROVE  Spec => [](~disturbed /\ restarts \in Nat)
  <1>1. Init => ~disturbed /\ restarts \in Nat
    <2> SUFFICES ASSUME Init PROVE ~disturbed /\ restarts \in Nat
      OBVIOUS
    <2>1. disturbed = FALSE /\ restarts = 0
      BY DEF Init
    <2> QED
      BY <2>1
  <1>2. ~disturbed /\ restarts \in Nat /\ [Next]_vars => (~disturbed /\ restarts \in Nat)'
    BY DEF Next, Send, SendStep, Recv, Reset, vars, history, SendRefused,
       SendBegin, SendLen, SendPayload, SendIndex, SendAccident, RecvNoMsg,
       RecvBegin, RecvLen, RecvPayload, RecvIndex, ResetHeader, ResetSlots
  <1> QED
    BY <1>1, <1>2, PTL DEF Spec

(* With write_type 0 and no second boot, every behaviour of the two cores  *)
(* is a behaviour of the bounded first-in first-out channel: publishing is *)
(* Put, advancing the read index is Take, all else is invisible.           *)
THEOREM DiscardQueueIsChannel ==
  ASSUME WriteType = 0, MaxRestarts = 0
  PROVE  Spec => Channel!CInit /\ [][Channel!CNext]_(Channel!cvars)
  <1>1. Init => Channel!CInit
    <2> SUFFICES ASSUME Init PROVE Pending = <<>> /\ received = <<>>
      BY DEF Channel!CInit
    <2>1. IInv /\ Undisturbed
      BY InitIInv DEF Init, Undisturbed
    <2>2. received = <<>>
      BY DEF Init
    <2>3. Lag = 0
      <3>1. Len(received) = 0
        BY <2>2
      <3>2. sent = 0
        BY DEF Init
      <3> QED
        BY <3>1, <3>2 DEF Lag
    <2>4. Pending = Unread
      BY <2>1, PendingIsUnread DEF IInv
    <2>5. Len(Unread) = 0 /\ Unread \in Seq(Message)
      BY <2>1, <2>3, UnreadIsSeq DEF IInv
    <2> QED
      BY <2>2, <2>4, <2>5
  <1>2. IInv /\ IInv' /\ ~disturbed /\ ~disturbed' /\ [Next]_vars
          => [Channel!CNext]_(Channel!cvars)
    <2> SUFFICES ASSUME IInv, IInv', ~disturbed, ~disturbed', [Next]_vars
                 PROVE  [Channel!CNext]_(Channel!cvars)
      OBVIOUS
    <2>1. Undisturbed /\ Undisturbed'
      BY DEF Undisturbed
    <2>2. Pending = Unread
      BY <2>1, PendingIsUnread DEF IInv
    <2>3. Pending' = Unread'
      <3>1. TypeOK' /\ Good'
        BY <2>1 DEF IInv
      <3> QED
        BY <3>1, PendingIsUnreadThen
    <2>4. CASE SendIndex
      BY <2>1, <2>2, <2>3, <2>4, SendPuts DEF Channel!CNext, Channel!Put
    <2>5. CASE RecvIndex
      BY <2>1, <2>2, <2>3, <2>5, RecvTakes DEF Channel!CNext, Channel!Take
    <2>6. CASE ~SendIndex /\ ~RecvIndex
      <3>1. ~ResetHeader
        BY DEF ResetHeader, IInv, TypeOK
      <3> QED
        BY <2>2, <2>3, <2>6, <3>1, OthersStutter DEF Channel!cvars
    <2> QED
      BY <2>4, <2>5, <2>6
  <1> QED
    BY <1>1, <1>2, Invariance, NeverDisturbed, PTL DEF Spec

-----------------------------------------------------------------------------
(* What an overrun leaves: an invariant that says nothing of the order of  *)
(* what was received and holds after accidents too.                        *)

(* The slot k places before the write index, and how far that is ahead of  *)
(* the read index.                                                         *)
Back(k) == IF k <= nWriteIdx THEN nWriteIdx - k ELSE nWriteIdx - k + NumSeg
Distance == IF nReadIdx <= nWriteIdx THEN nWriteIdx - nReadIdx ELSE nWriteIdx - nReadIdx + NumSeg

(* The ring holds the last messages that were sent, whatever was received. *)
LastSent == \A k \in 1 .. NumSeg - 1 : k <= sent => pMsgBuf[Back(k)] = Msg(sent + 1 - k)

(* A receiver that takes a message from a queue that was written over in   *)
(* the meantime finds it full.                                             *)
Newest ==
  /\ LastSent /\ BeingWritten
  /\ Distance <= sent
  /\ rpc # "idle" /\ Distance = 0 => sent >= NumSeg - 1
  /\ spc = "reset" => sent = 0

NewestInv == TypeOK /\ SenderLocal /\ (~disturbed /\ NumSeg > 1 => Newest)

LEMMA BackIsAnother ==
  ASSUME NEW w \in Slots, NEW k \in 1 .. NumSeg - 1, nWriteIdx = w, NumSeg > 1
  PROVE  Back(k) \in Slots /\ Back(k) # nWriteIdx
  BY NumSegAssumption DEF Back, Slots

LEMMA NewestStart == Init => NewestInv
  <1> SUFFICES ASSUME Init PROVE NewestInv
    OBVIOUS
  <1>1. TypeOK /\ SenderLocal
    BY InitIInv DEF IInv
  <1>2. Newest
    BY NumSegAssumption DEF Newest, LastSent, BeingWritten, Distance, Init
  <1> QED
    BY <1>1, <1>2 DEF NewestInv

(* The stores into a slot are before the write index, in front of all that *)
(* was sent.                                                               *)
LEMMA NewestStores ==
  ASSUME TypeOK, SenderLocal, Newest, NumSeg > 1, SendLen \/ SendPayload
  PROVE  Newest'
  <1> USE NumSegAssumption
  <1>1. /\ sOffset = nWriteIdx /\ nWriteIdx \in Slots /\ sent \in Nat /\ sent + 1 \in Nat
        /\ pMsgBuf \in [Slots -> Message]
    BY DEF SendLen, SendPayload, SenderLocal, Writing, TypeOK, Slots
  <1>2. UNCHANGED <<nWriteIdx, nReadIdx, sent, rpc>>
    BY DEF SendLen, SendPayload, receiver, history
  <1>3. \A i \in Slots : i # nWriteIdx => pMsgBuf'[i] = pMsgBuf[i]
    BY <1>1 DEF SendLen, SendPayload
  <1>4. LastSent'
    <2> SUFFICES ASSUME NEW k \in 1 .. NumSeg - 1, k <= sent
                 PROVE  pMsgBuf'[Back(k)] = Msg(sent + 1 - k)
      BY <1>2 DEF LastSent, Back
    <2> QED
      BY <1>1, <1>3, BackIsAnother DEF Newest, LastSent
  <1>5. BeingWritten'
    <2> DEFINE m == pMsgBuf[nWriteIdx]
    <2>1. m \in Message
      BY <1>1
    <2>2. CASE SendLen
      <3>1. pMsgBuf'[nWriteIdx] = [m EXCEPT !.len = sent + 1]
        BY <1>1, <2>2 DEF SendLen
      <3>2. pMsgBuf'[nWriteIdx].len = sent + 1
        BY <1>1, <2>1, <3>1, HalfStore
      <3> QED
        BY <1>2, <2>2, <3>2 DEF BeingWritten, SendLen
    <2>3. CASE SendPayload
      <3>1. pMsgBuf'[nWriteIdx] = [m EXCEPT !.payload = sent + 1]
        BY <1>1, <2>3 DEF SendPayload
      <3>2. m.len = sent + 1
        BY <2>3 DEF SendPayload, Newest, BeingWritten
      <3>3. [m EXCEPT !.payload = sent + 1] = [len |-> m.len, payload |-> sent + 1]
        BY <1>1, <2>1, HalfStore
      <3>4. pMsgBuf'[nWriteIdx] = Msg(sent + 1)
        BY <3>1, <3>2, <3>3 DEF Msg
      <3> QED
        BY <1>2, <3>4 DEF BeingWritten, Msg
    <2> QED
      BY <2>2, <2>3
  <1>6. spc' # "reset"
    BY DEF SendLen, SendPayload
  <1> QED
    BY <1>2, <1>4, <1>5, <1>6 DEF Newest, Distance

(* Publishing moves every message one place back.                          *)
LEMMA NewestSendIndex ==
  ASSUME TypeOK, Newest, NumSeg > 1, SendIndex
  PROVE  Newest'
  <1> USE NumSegAssumption
  <1>1. /\ nWriteIdx \in Slots /\ nReadIdx \in Slots /\ sent \in Nat
        /\ nWriteIdx' = Advance(nWriteIdx) /\ sent' = sent + 1 /\ spc' = "accident"
        /\ UNCHANGED <<nReadIdx, rpc, pMsgBuf>> /\ pMsgBuf[nWriteIdx] = Msg(sent + 1)
    BY DEF SendIndex, receiver, TypeOK, Slots, Newest, BeingWritten
  <1>2. nWriteIdx' = IF nWriteIdx + 1 < NumSeg THEN nWriteIdx + 1 ELSE 0
    BY <1>1, AdvanceWraps
  <1>3. LastSent'
    <2> SUFFICES ASSUME NEW k \in 1 .. NumSeg - 1, k <= sent + 1
                 PROVE  pMsgBuf[Back(k)'] = Msg(sent + 2 - k)
      BY <1>1 DEF LastSent
    <2>1. CASE k = 1
      <3>1. Back(k)' = nWriteIdx
        BY <1>1, <1>2, <2>1 DEF Back, Slots
      <3> QED
        BY <3>1, <2>1, <1>1
    <2>2. CASE k > 1
      <3>1. Back(k)' = Back(k - 1)
        BY <1>1, <1>2, <2>2 DEF Back, Slots
      <3>2. k - 1 \in 1 .. NumSeg - 1 /\ k - 1 <= sent /\ sent + 1 - (k - 1) = sent + 2 - k
        BY <2>2, <1>1
      <3> QED
        BY <3>1, <3>2 DEF Newest, LastSent
    <2> QED
      BY <2>1, <2>2
  <1>4. BeingWritten'
    BY <1>1 DEF BeingWritten
  <1>5. /\ Distance' = IF Distance + 1 < NumSeg THEN Distance + 1 ELSE 0
        /\ Distance \in 0 .. NumSeg - 1 /\ Distance <= sent
    BY <1>1, <1>2 DEF Distance, Slots, Newest
  <1>6. Distance' <= sent' /\ (Distance' = 0 => sent' >= NumSeg - 1)
    BY <1>1, <1>5
  <1> QED
    BY <1>1, <1>3, <1>4, <1>6 DEF Newest

(* The receiver only changes its index.                                    *)
LEMMA NewestRecvIndex ==
  ASSUME TypeOK, Newest, NumSeg > 1, RecvIndex
  PROVE  Newest'
  <1> USE NumSegAssumption
  <1>1. /\ nWriteIdx \in Slots /\ nReadIdx \in Slots /\ sent \in Nat
        /\ nReadIdx' = Advance(nReadIdx) /\ rpc = "index" /\ rpc' = "idle"
        /\ UNCHANGED <<nWriteIdx, sent, spc, pMsgBuf>>
    BY DEF RecvIndex, sender, TypeOK, Slots
  <1>2. nReadIdx' = IF nReadIdx + 1 < NumSeg THEN nReadIdx + 1 ELSE 0
    BY <1>1, AdvanceWraps
  <1>3. /\ Distance' = IF Distance = 0 THEN NumSeg - 1 ELSE Distance - 1
        /\ Distance \in 0 .. NumSeg - 1
    BY <1>1, <1>2 DEF Distance, Slots
  <1>4. Distance' <= sent
    BY <1>1, <1>3 DEF Newest
  <1>5. LastSent' /\ BeingWritten'
    BY <1>1 DEF Newest, LastSent, BeingWritten, Back
  <1>6. spc' = "reset" => sent' = 0
    BY <1>1 DEF Newest
  <1> QED
    BY <1>1, <1>4, <1>5, <1>6 DEF Newest

LEMMA NewestStep == NewestInv /\ [Next]_vars => NewestInv'
  <1> SUFFICES ASSUME NewestInv, [Next]_vars, ~disturbed', NumSeg > 1, SenderLocal', TypeOK'
               PROVE  Newest'
    BY TypeStep, SenderLocalStep DEF NewestInv
  <1> USE NumSegAssumption
  <1>1. TypeOK /\ SenderLocal
    BY DEF NewestInv
  <1>2. CASE ResetHeader
    <2>1. /\ nWriteIdx' = 0 /\ nReadIdx' = 0 /\ sent' = 0 /\ spc' = "reset" /\ rpc' = rpc
          /\ rpc = "idle"
      BY <1>2 DEF ResetHeader, receiver
    <2>2. Distance' = 0
      BY <2>1 DEF Distance
    <2>3. LastSent' /\ BeingWritten'
      BY <2>1 DEF LastSent, BeingWritten
    <2> QED
      BY <2>1, <2>2, <2>3 DEF Newest
  <1>3. CASE ~ResetHeader
    <2>1. disturbed' = disturbed
      BY <1>3 DEF Next, Send, SendStep, Recv, Reset, vars, history, SendRefused,
         SendBegin, SendLen, SendPayload, SendIndex, SendAccident, RecvNoMsg,
         RecvBegin, RecvLen, RecvPayload, RecvIndex, ResetSlots
    <2>2. Newest
      BY <2>1 DEF NewestInv
    <2>3. CASE SendLen \/ SendPayload
      BY <1>1, <2>2, <2>3, NewestStores
    <2>4. CASE SendIndex
      BY <1>1, <2>2, <2>4, NewestSendIndex
    <2>5. CASE RecvIndex
      BY <1>1, <2>2, <2>5, NewestRecvIndex
    <2>6. CASE ResetSlots
      <3>1. /\ spc = "reset" /\ spc' = "idle" /\ sent' = sent /\ sent = 0
            /\ UNCHANGED <<nWriteIdx, nReadIdx, rpc>>
        BY <2>2, <2>6 DEF ResetSlots, receiver, history, Newest
      <3> QED
        BY <3>1, <2>2 DEF Newest, LastSent, BeingWritten, Distance
    <2>7. CASE SendBegin \/ SendAccident \/ SendRefused
      <3>1. UNCHANGED <<nWriteIdx, nReadIdx, pMsgBuf, sent, rpc>> /\ spc' \in {"len", "idle"}
        BY <2>7 DEF SendBegin, SendAccident, SendRefused, shm, receiver, history
      <3> QED
        BY <3>1, <2>2 DEF Newest, LastSent, BeingWritten, Distance, Back
    <2>8. CASE RecvBegin
      <3>1. /\ UNCHANGED <<nWriteIdx, nReadIdx, pMsgBuf, sent, spc>>
            /\ nReadIdx # nWriteIdx
        BY <2>8 DEF RecvBegin, shm, sender, history
      <3>2. Distance # 0
        BY <1>1, <3>1 DEF Distance, TypeOK, Slots
      <3>3. Distance' = Distance
        BY <3>1 DEF Distance
      <3> QED
        BY <3>1, <3>2, <3>3, <2>2 DEF Newest, LastSent, BeingWritten, Back
    <2>9. CASE RecvNoMsg \/ RecvLen \/ RecvPayload \/ UNCHANGED vars
      <3>1. /\ UNCHANGED <<nWriteIdx, nReadIdx, pMsgBuf, sent, spc>>
            /\ rpc' # "idle" => rpc # "idle"
        BY <2>9 DEF RecvNoMsg, RecvLen, RecvPayload, vars, shm, sender, receiver, history
      <3>2. Distance' = Distance
        BY <3>1 DEF Distance
      <3> QED
        BY <3>1, <3>2, <2>2 DEF Newest, LastSent, BeingWritten, Back
    <2> QED
      BY <1>3, <2>3, <2>4, <2>5, <2>6, <2>7, <2>8, <2>9 DEF Next, Send, SendStep, Recv, Reset
  <1> QED
    BY <1>2, <1>3

(* A queue that was written over any number of times holds, whenever no    *)
(* message is being written, the newest ones, whole and in order: cover    *)
(* write loses the oldest.                                                 *)
THEOREM OverrunLosesOldest == Spec => []OverrunKeepsNewest
  <1> USE NumSegAssumption
  <1>1. NewestInv => OverrunKeepsNewest
    <2> SUFFICES ASSUME NewestInv, ~disturbed, NumSeg > 1
                 PROVE  Pending = [i \in 1 .. Visible |-> Msg(sent - Visible + i)]
      BY DEF OverrunKeepsNewest
    <2>1. Newest /\ nWriteIdx \in Slots /\ nReadIdx \in Slots /\ sent \in Nat
      BY DEF NewestInv, TypeOK, Slots
    <2>2. Visible = Distance /\ Distance \in 0 .. NumSeg - 1 /\ Distance <= sent
      <3>1. CASE nReadIdx <= nWriteIdx
        <4>1. Distance = nWriteIdx - nReadIdx /\ Distance \in 0 .. NumSeg - 1
          BY <2>1, <3>1 DEF Distance, Slots
        <4>2. (Distance + NumSeg) % NumSeg = Distance
          BY <4>1
        <4>3. nWriteIdx - nReadIdx + NumSeg = Distance + NumSeg
          BY <4>1
        <4> QED
          BY <4>1, <4>2, <4>3, <2>1 DEF Visible, Newest
      <3>2. CASE nReadIdx > nWriteIdx
        <4>1. Distance = nWriteIdx - nReadIdx + NumSeg /\ Distance \in 0 .. NumSeg - 1
          BY <2>1, <3>2 DEF Distance, Slots
        <4>2. Distance % NumSeg = Distance
          BY <4>1
        <4> QED
          BY <4>1, <4>2, <2>1 DEF Visible, Newest
      <3> QED
        BY <2>1, <3>1, <3>2 DEF Slots
    <2>3. ASSUME NEW i \in 1 .. Visible
          PROVE  pMsgBuf[(nReadIdx + i - 1) % NumSeg] = Msg(sent - Visible + i)
      <3> DEFINE k == Distance - i + 1
      <3>1. k \in 1 .. NumSeg - 1 /\ k <= sent /\ sent + 1 - k = sent - Visible + i
        BY <2>1, <2>2
      <3>2. (nReadIdx + i - 1) % NumSeg = Back(k)
        <4>1. CASE nReadIdx + i - 1 < NumSeg
          <5>1. (nReadIdx + i - 1) % NumSeg = nReadIdx + i - 1
            BY <2>1, <2>2, <4>1 DEF Slots
          <5>2. Back(k) = nReadIdx + i - 1
            BY <2>1, <2>2, <4>1 DEF Back, Distance, Slots
          <5> QED
            BY <5>1, <5>2
        <4>2. CASE nReadIdx + i - 1 >= NumSeg
          <5>1. (nReadIdx + i - 1) % NumSeg = nReadIdx + i - 1 - NumSeg
            BY <2>1, <2>2, <4>2 DEF Slots
          <5>2. Back(k) = nReadIdx + i - 1 - NumSeg
            BY <2>1, <2>2, <4>2 DEF Back, Distance, Slots
          <5> QED
            BY <5>1, <5>2
        <4> QED
          BY <2>1, <2>2, <4>1, <4>2 DEF Slots
      <3> HIDE DEF k
      <3> QED
        BY <3>1, <3>2, <2>1 DEF Newest, LastSent
    <2> QED
      BY <2>3 DEF Pending
  <1> QED
    BY <1>1, NewestStart, NewestStep, PTL DEF Spec
=============================================================================

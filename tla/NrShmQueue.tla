----------------------------- MODULE NrShmQueue -----------------------------
(***************************************************************************)
(* One message queue of nr_shm_oam.c: a header with two indices and an     *)
(* accident counter, and NumSeg slots, in memory that two cores share      *)
(* without a lock.  OamShmSend/LogShmSend run on one core, OamShmRecv/     *)
(* LogShmRecv on the other; each access to shared memory is one step, so   *)
(* the two interleave at every point where they could disturb each other.  *)
(*                                                                         *)
(* A slot holds a length word and a payload.  The k-th message accepted    *)
(* by the sender is Msg(k): a slot whose two halves carry different        *)
(* numbers is a torn message, and a length of 0 is what memset leaves.     *)
(* sent and received are history variables, counted from the last boot of  *)
(* the core that owns the memory.                                          *)
(***************************************************************************)
EXTENDS Integers, Sequences

CONSTANTS NumSeg,        (* num_seg of the queue's ipc_queue_s             *)
          WriteType,     (* write_type: 0 discard when full, 1 cover write *)
          MaxSent,       (* bound: messages sent since the last boot       *)
          MaxRestarts    (* bound: boots of the sender's core              *)

ASSUME NumSegAssumption      == NumSeg \in Nat \ {0}
ASSUME WriteTypeAssumption   == WriteType \in {0, 1}
ASSUME MaxSentAssumption     == MaxSent \in Nat
ASSUME MaxRestartsAssumption == MaxRestarts \in Nat

VARIABLES nWriteIdx, nReadIdx, accidentNum, pMsgBuf,   (* shared memory    *)
          spc, sOffset, rc,             (* sender: step, msgOffset, result *)
          rpc, rOffset, rBuf, rtc,      (* receiver: step, msgOffset, pBuf, *rtc *)
          sent, received,               (* history since the last boot     *)
          restarts,
          disturbed       (* history: a reset hit the receiver mid-message *)

shm      == <<nWriteIdx, nReadIdx, accidentNum, pMsgBuf>>
sender   == <<spc, sOffset, rc>>
receiver == <<rpc, rOffset, rBuf, rtc>>
history  == <<sent, received, restarts, disturbed>>
vars     == <<shm, sender, receiver, history>>

Slots  == 0 .. NumSeg - 1
Message == [len : Nat, payload : Nat]
Msg(k)  == [len |-> k, payload |-> k]
Zeroed  == [len |-> 0, payload |-> 0]

(* Mutant: an index that forgets to wrap.                                  *)
AdvanceNoWrap(idx) == idx + 1

(* The advance of an index: (idx + 1) % num_seg.                           *)
Advance(idx) == (idx + 1) % NumSeg

Init == /\ nWriteIdx = 0 /\ nReadIdx = 0 /\ accidentNum = 0
        /\ pMsgBuf = [i \in Slots |-> Zeroed]
        /\ spc = "idle" /\ sOffset = 0 /\ rc = 0
        /\ rpc = "idle" /\ rOffset = 0 /\ rBuf = Zeroed /\ rtc = "IPC_NOMSG"
        /\ sent = 0 /\ received = <<>> /\ restarts = 0 /\ disturbed = FALSE

-----------------------------------------------------------------------------
(* The sender: OamShmSend / LogShmSend.                                    *)

(* Mutant: the full test is made for no queue.                             *)
RefusedNever == nWriteIdx >= NumSeg

(* The tests before anything is written.  A queue of one segment whose     *)
(* message is unread has nWriteIdx = 1 and fails the first; an empty one   *)
(* fails the second, because (0 + 1) % 1 is the read index.                *)
Refused == \/ nWriteIdx >= NumSeg
           \/ WriteType = 0 /\ Advance(nWriteIdx) = nReadIdx

SendRefused == /\ spc = "idle" /\ Refused
               /\ rc' = -1
               /\ UNCHANGED <<shm, spc, sOffset, receiver, history>>

(* Mutant: the slot is taken at the read index.                            *)
SendBeginAtReader == /\ spc = "idle" /\ ~Refused /\ sent < MaxSent
                     /\ spc' = "len" /\ sOffset' = nReadIdx /\ rc' = 0
                     /\ UNCHANGED <<shm, receiver, history>>

SendBegin == /\ spc = "idle" /\ ~Refused
             /\ sent < MaxSent
             /\ spc' = "len" /\ sOffset' = nWriteIdx /\ rc' = 0
             /\ UNCHANGED <<shm, receiver, history>>

(* Mutant: the index is stored before the payload is copied.               *)
SendLenPublishes == /\ spc = "len"
                    /\ pMsgBuf' = [pMsgBuf EXCEPT ![sOffset].len = sent + 1]
                    /\ nWriteIdx' = Advance(nWriteIdx)
                    /\ spc' = "payload"
                    /\ UNCHANGED <<nReadIdx, accidentNum, sOffset, rc,
                                   receiver, history>>

SendLen == /\ spc = "len"
           /\ pMsgBuf' = [pMsgBuf EXCEPT ![sOffset].len = sent + 1]
           /\ spc' = "payload"
           /\ UNCHANGED <<nWriteIdx, nReadIdx, accidentNum, sOffset, rc,
                          receiver, history>>

SendPayload == /\ spc = "payload"
               /\ pMsgBuf' = [pMsgBuf EXCEPT ![sOffset].payload = sent + 1]
               /\ spc' = "index"
               /\ UNCHANGED <<nWriteIdx, nReadIdx, accidentNum, sOffset, rc,
                              receiver, history>>

(* After the barrier the message is published.                             *)
SendIndex == /\ spc = "index"
             /\ nWriteIdx' = IF NumSeg = 1 THEN 1 ELSE Advance(nWriteIdx)
             /\ sent' = sent + 1
             /\ spc' = "accident"
             /\ UNCHANGED <<nReadIdx, accidentNum, pMsgBuf, sOffset, rc,
                            receiver, received, restarts, disturbed>>

(* Mutant: an overrun is not counted.                                      *)
SendAccidentUncounted == /\ spc = "accident" /\ spc' = "idle"
                         /\ UNCHANGED <<shm, sOffset, rc, receiver, history>>

(* Equal indices after a send are counted as an accident.  LogShmSend      *)
(* also reports every hundredth of them as a failure, OamShmSend never:    *)
(* rc may be either.                                                       *)
SendAccident == /\ spc = "accident"
                /\ spc' = "idle"
                /\ IF nWriteIdx = nReadIdx
                   THEN accidentNum' = accidentNum + 1 /\ rc' \in {0, -1}
                   ELSE UNCHANGED <<accidentNum, rc>>
                /\ UNCHANGED <<nWriteIdx, nReadIdx, pMsgBuf, sOffset,
                               receiver, history>>

-----------------------------------------------------------------------------
(* The receiver: OamShmRecv / LogShmRecv.                                  *)

RecvNoMsg == /\ rpc = "idle" /\ nReadIdx = nWriteIdx
             /\ rtc' = "IPC_NOMSG"
             /\ UNCHANGED <<shm, sender, rpc, rOffset, rBuf, history>>

(* Mutant: the indices are not compared.                                   *)
RecvBeginUnchecked == /\ rpc = "idle"
                      /\ rpc' = "len" /\ rOffset' = nReadIdx
                      /\ UNCHANGED <<shm, sender, rBuf, rtc, history>>

RecvBegin == /\ rpc = "idle" /\ nReadIdx # nWriteIdx
             /\ rpc' = "len" /\ rOffset' = nReadIdx
             /\ UNCHANGED <<shm, sender, rBuf, rtc, history>>

(* An impossible length makes the receiver give up; the read index stays.  *)
RecvLen == /\ rpc = "len"
           /\ IF pMsgBuf[rOffset].len = 0
              THEN rpc' = "idle" /\ rtc' = "IPC_RECV_BUF_ERR" /\ UNCHANGED rBuf
              ELSE /\ rpc' = "payload"
                   /\ rBuf' = [rBuf EXCEPT !.len = pMsgBuf[rOffset].len]
                   /\ UNCHANGED rtc
           /\ UNCHANGED <<shm, sender, rOffset, history>>

RecvPayload == /\ rpc = "payload"
               /\ rBuf' = [rBuf EXCEPT !.payload = pMsgBuf[rOffset].payload]
               /\ rpc' = "index"
               /\ UNCHANGED <<shm, sender, rOffset, rtc, history>>

(* With one segment the receiver also takes the write index back.          *)
RecvIndex == /\ rpc = "index"
             /\ nReadIdx' = Advance(nReadIdx)
             /\ nWriteIdx' = IF NumSeg = 1 THEN 0 ELSE nWriteIdx
             /\ rtc' = "IPC_SUCCESS" /\ rpc' = "idle"
             /\ received' = Append(received, rBuf)
             /\ UNCHANGED <<accidentNum, pMsgBuf, sender, rOffset, rBuf,
                            sent, restarts, disturbed>>

-----------------------------------------------------------------------------
(* The A53 boots: shm_ipc_init_oam takes every OAM queue from the pool and *)
(* shm_get_buf_oam clears it with memset, header first, while the R5 that  *)
(* receives from it is running.  Whatever the A53 was sending is gone.     *)

(* Mutants: one of the indices keeps its value.                            *)
ResetHeaderKeepsWrite ==
  /\ restarts < MaxRestarts
  /\ nReadIdx' = 0 /\ accidentNum' = 0
  /\ spc' = "reset" /\ rc' = 0
  /\ sent' = 0 /\ received' = <<>> /\ restarts' = restarts + 1
  /\ disturbed' = (rpc # "idle")
  /\ UNCHANGED <<nWriteIdx, pMsgBuf, sOffset, receiver>>

ResetHeaderKeepsRead ==
  /\ restarts < MaxRestarts
  /\ nWriteIdx' = 0 /\ accidentNum' = 0
  /\ spc' = "reset" /\ rc' = 0
  /\ sent' = 0 /\ received' = <<>> /\ restarts' = restarts + 1
  /\ disturbed' = (rpc # "idle")
  /\ UNCHANGED <<nReadIdx, pMsgBuf, sOffset, receiver>>

ResetHeader == /\ restarts < MaxRestarts
               /\ nWriteIdx' = 0 /\ nReadIdx' = 0 /\ accidentNum' = 0
               /\ spc' = "reset" /\ rc' = 0
               /\ sent' = 0 /\ received' = <<>> /\ restarts' = restarts + 1
               /\ disturbed' = (rpc # "idle")
               /\ UNCHANGED <<pMsgBuf, sOffset, receiver>>

ResetSlots == /\ spc = "reset"
              /\ pMsgBuf' = [i \in Slots |-> Zeroed]
              /\ spc' = "idle"
              /\ UNCHANGED <<nWriteIdx, nReadIdx, accidentNum, sOffset, rc,
                             receiver, history>>

-----------------------------------------------------------------------------
SendStep == SendLen \/ SendPayload \/ SendIndex \/ SendAccident
Send  == SendRefused \/ SendBegin \/ SendStep
Recv  == RecvNoMsg \/ RecvBegin \/ RecvLen \/ RecvPayload \/ RecvIndex
Reset == ResetHeader \/ ResetSlots

Next == Send \/ Recv \/ Reset

Spec == Init /\ [][Next]_vars

(* A core that is inside a call finishes it, and the receiving task polls. *)
(* Nobody is obliged to send.                                              *)
FairSpec == Spec /\ WF_vars(SendStep) /\ WF_vars(ResetSlots) /\ WF_vars(Recv)

-----------------------------------------------------------------------------
TypeOK ==
  /\ nWriteIdx \in 0 .. NumSeg /\ (NumSeg > 1 => nWriteIdx < NumSeg)
  /\ nReadIdx \in Slots
  /\ accidentNum \in Nat
  /\ pMsgBuf \in [Slots -> Message]
  /\ spc \in {"idle", "len", "payload", "index", "accident", "reset"}
  /\ sOffset \in Slots
  /\ rc \in {0, -1}
  /\ rpc \in {"idle", "len", "payload", "index"}
  /\ rOffset \in Slots
  /\ rBuf \in Message
  /\ rtc \in {"IPC_NOMSG", "IPC_RECV_BUF_ERR", "IPC_SUCCESS"}
  /\ sent \in Nat
  /\ received \in Seq(Message)
  /\ restarts \in Nat
  /\ disturbed \in BOOLEAN

(* Messages published and not yet received.                                *)
Lag == sent - Len(received)

(* The queue has behaved so far: it discards when full, or no accident has *)
(* been counted since the last boot; and no boot cut into a receive.       *)
Undisturbed == (WriteType = 0 \/ accidentNum = 0) /\ ~disturbed

(* Messages arrive complete, in order, once each, without a gap, and none  *)
(* before it is published, as long as the queue is undisturbed.  This is   *)
(* what accidentNum is good for: a full queue that is written over is      *)
(* counted before anything can be lost, whatever the interleaving.         *)
FifoUnlessAccident ==
  Undisturbed => /\ \A k \in 1 .. Len(received) : received[k] = Msg(k)
                 /\ Len(received) <= sent

(* While the queue is undisturbed the two cores never touch the same slot: *)
(* the sender is not writing where the receiver is reading.                *)
NoSlotRace ==
  Undisturbed => ~ (spc \in {"len", "payload"} /\ rpc \in {"len", "payload"}
                    /\ sOffset = rOffset)

(* Equal indices mean "no message" to the receiver.  They never hide one   *)
(* from it in a queue that discards, and in a queue that covers only       *)
(* between the last store of a send and the count that follows it.         *)
EqualMeansEmpty ==
  (Undisturbed /\ nReadIdx = nWriteIdx) =>
     (Lag = 0 \/ (WriteType = 1 /\ spc = "accident"))

(* A receiver that has seen a message is never turned away by a length it  *)
(* cannot use, unless a boot cut into its receive or the queue was written *)
(* over: the read index would stay where it is and block all that follows. *)
NoPhantomLength ==
  [][(rpc = "len" /\ rpc' = "idle") => ~Undisturbed]_vars

(* Every message published is eventually received, in a queue that         *)
(* discards when full and whose owner does not boot again.                 *)
AllDelivered ==
  \A k \in 1 .. MaxSent : (sent >= k) ~> (Len(received) >= k)

-----------------------------------------------------------------------------
(* The queue as a channel: the slots between the indices are its content.  *)
Visible == (nWriteIdx - nReadIdx + NumSeg) % NumSeg
Pending == [i \in 1 .. Visible |-> pMsgBuf[(nReadIdx + i - 1) % NumSeg]]

Channel == INSTANCE MsgChannel
             WITH Capacity <- NumSeg - 1, chan <- Pending, taken <- received

(* A queue that was written over resumes with a contiguous run of messages *)
(* up to the newest one, each of them whole: what an overrun loses is      *)
(* always the oldest part.                                                 *)
OverrunKeepsNewest ==
  (~disturbed /\ NumSeg > 1 /\ spc \in {"idle", "accident"}) =>
     Pending = [i \in 1 .. Visible |-> Msg(sent - Visible + i)]

(* A queue that discards when full implements the channel, with one slot   *)
(* always left free.                                                       *)
ImplementsChannel == Channel!CSpec
=============================================================================

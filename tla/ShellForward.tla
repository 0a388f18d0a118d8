---------------------------- MODULE ShellForward ----------------------------
(***************************************************************************)
(* Shell commands typed on the A53 and executed on an R5.  The A53's shell *)
(* task puts the command in the core's shared-memory queue and triggers an *)
(* inter-processor interrupt; the R5's handler turns the interrupt into a  *)
(* wake-up (a flag on R50, a binary semaphore on R51), and the R5's loop   *)
(* receives ONE message per wake-up and feeds it to its shell.             *)
(*                                                                         *)
(* The queue is taken at the level NrShmQueue establishes: a first-in      *)
(* first-out sequence whose content disappears when the write index        *)
(* catches up with the read index.  Commands to one core are numbered.     *)
(***************************************************************************)
EXTENDS Integers, Sequences

CONSTANTS Flag,       (* cores whose wake-up is a polled flag: {R50}       *)
          Semaphore,  (* cores whose wake-up is a semaphore: {R51}         *)
          NumSeg,     (* segments of a command queue                       *)
          NoCore,     (* no core: nothing is waiting to be triggered       *)
          MaxCmd      (* bound: commands forwarded to one core             *)

ASSUME CoresAssumption  == Flag \cap Semaphore = {}
ASSUME NumSegAssumption == NumSeg \in Nat \ {0, 1}
ASSUME MaxCmdAssumption == MaxCmd \in Nat

Cores == Flag \cup Semaphore

ASSUME NoCoreAssumption == NoCore \notin Cores

VARIABLES fwd,          (* the core whose IPI the A53 must trigger next    *)
          forwarded,    (* commands put in each core's queue               *)
          queue,        (* unread commands the read index can see          *)
          accident,     (* accidentNum of each queue                       *)
          status,       (* IPI status bit of each core                     *)
          ready,        (* the core has initialised its IPI                *)
          wake,         (* RecvFlagA53 or the semaphore's count            *)
          loop,         (* where the R5's loop is                          *)
          executed,     (* commands each core has executed                 *)
          swallowed     (* history: triggers that produced no wake-up      *)

vars == <<fwd, forwarded, queue, accident, status, ready, wake, loop,
          executed, swallowed>>

Init == /\ fwd = NoCore
        /\ forwarded = [c \in Cores |-> 0]
        /\ queue = [c \in Cores |-> <<>>]
        /\ accident = [c \in Cores |-> 0]
        /\ status = [c \in Cores |-> 0]
        /\ ready = [c \in Cores |-> FALSE]
        /\ wake = [c \in Cores |-> 0]
        /\ loop = [c \in Cores |-> "wait"]
        /\ executed = [c \in Cores |-> <<>>]
        /\ swallowed = [c \in Cores |-> 0]

(* Adds to the swallowed triggers of core c.                               *)
Swallow(c, n) == swallowed' = [swallowed EXCEPT ![c] = @ + n]

-----------------------------------------------------------------------------
(* The A53: _shell_fwd_r50 / _shell_fwd_r51.                               *)

(* L1cSendToOam.  A write index that reaches the read index leaves nothing *)
(* for the receiver to see.                                                *)
Forward(c) ==
  /\ fwd = NoCore /\ forwarded[c] < MaxCmd
  /\ forwarded' = [forwarded EXCEPT ![c] = @ + 1]
  /\ IF Len(queue[c]) + 1 = NumSeg
     THEN /\ queue' = [queue EXCEPT ![c] = <<>>]
          /\ accident' = [accident EXCEPT ![c] = @ + 1]
     ELSE /\ queue' = [queue EXCEPT ![c] = Append(@, forwarded[c] + 1)]
          /\ UNCHANGED accident
  /\ fwd' = c
  /\ UNCHANGED <<status, ready, wake, loop, executed, swallowed>>

(* IpiPsu_TriggerIpi, whatever the send returned.  The status is one bit.  *)
Trigger(c) ==
  /\ fwd = c
  /\ fwd' = NoCore
  /\ status' = [status EXCEPT ![c] = 1]
  /\ Swallow(c, status[c])
  /\ UNCHANGED <<forwarded, queue, accident, ready, wake, loop, executed>>

-----------------------------------------------------------------------------
(* The R5.                                                                 *)

(* IPI_Init enables the interrupt and clears what was already pending.     *)
IpiInit(c) ==
  /\ ~ready[c]
  /\ ready' = [ready EXCEPT ![c] = TRUE]
  /\ status' = [status EXCEPT ![c] = 0]
  /\ Swallow(c, status[c])
  /\ UNCHANGED <<fwd, forwarded, queue, accident, wake, loop, executed>>

(* Mutant: the wake-up is not raised.                                     *)
IsrSilent(c) ==
  /\ ready[c] /\ status[c] = 1
  /\ status' = [status EXCEPT ![c] = 0]
  /\ UNCHANGED <<fwd, forwarded, queue, accident, ready, wake, loop, executed,
                 swallowed>>

(* Ipi_Irq_Handler_A53: clear the status, then raise the flag or give the  *)
(* semaphore; both stay at 1 when they are already there.                  *)
Isr(c) ==
  /\ ready[c] /\ status[c] = 1
  /\ status' = [status EXCEPT ![c] = 0]
  /\ wake' = [wake EXCEPT ![c] = 1]
  /\ Swallow(c, wake[c])
  /\ UNCHANGED <<fwd, forwarded, queue, accident, ready, loop, executed>>

(* R50 tests the flag and clears it in two steps; the interrupt may come   *)
(* between them.                                                           *)
SeeFlag(c) ==
  /\ c \in Flag /\ ready[c] /\ loop[c] = "wait" /\ wake[c] = 1
  /\ loop' = [loop EXCEPT ![c] = "clear"]
  /\ UNCHANGED <<fwd, forwarded, queue, accident, status, ready, wake,
                 executed, swallowed>>

ClearFlag(c) ==
  /\ loop[c] = "clear"
  /\ wake' = [wake EXCEPT ![c] = 0]
  /\ loop' = [loop EXCEPT ![c] = "recv"]
  /\ UNCHANGED <<fwd, forwarded, queue, accident, status, ready, executed,
                 swallowed>>

(* R51 takes the semaphore in one step.                                    *)
TakeSemaphore(c) ==
  /\ c \in Semaphore /\ ready[c] /\ loop[c] = "wait" /\ wake[c] = 1
  /\ wake' = [wake EXCEPT ![c] = 0]
  /\ loop' = [loop EXCEPT ![c] = "recv"]
  /\ UNCHANGED <<fwd, forwarded, queue, accident, status, ready, executed,
                 swallowed>>

(* Mutants: the wake-up is cleared after the receive; the message stays.   *)
ReceiveThenClear(c) ==
  /\ loop[c] = "recv"
  /\ loop' = [loop EXCEPT ![c] = "wait"] /\ wake' = [wake EXCEPT ![c] = 0]
  /\ IF queue[c] = <<>>
     THEN UNCHANGED <<queue, executed>>
     ELSE /\ executed' = [executed EXCEPT ![c] = Append(@, Head(queue[c]))]
          /\ queue' = [queue EXCEPT ![c] = Tail(@)]
  /\ UNCHANGED <<fwd, forwarded, accident, status, ready, swallowed>>

ReceiveTwice(c) ==
  /\ loop[c] = "recv"
  /\ loop' = [loop EXCEPT ![c] = "wait"]
  /\ queue[c] # <<>>
  /\ executed' = [executed EXCEPT ![c] = Append(@, Head(queue[c]))]
  /\ UNCHANGED <<fwd, forwarded, queue, accident, status, ready, wake, swallowed>>

(* L1cRecvFromOam once; on IPC_SUCCESS the command goes to shellHandler.   *)
Receive(c) ==
  /\ loop[c] = "recv"
  /\ loop' = [loop EXCEPT ![c] = "wait"]
  /\ IF queue[c] = <<>>
     THEN UNCHANGED <<queue, executed>>
     ELSE /\ executed' = [executed EXCEPT ![c] = Append(@, Head(queue[c]))]
          /\ queue' = [queue EXCEPT ![c] = Tail(@)]
  /\ UNCHANGED <<fwd, forwarded, accident, status, ready, wake, swallowed>>

-----------------------------------------------------------------------------
Loop(c) == SeeFlag(c) \/ ClearFlag(c) \/ TakeSemaphore(c) \/ Receive(c)

Next == \E c \in Cores : Forward(c) \/ Trigger(c) \/ IpiInit(c) \/ Isr(c) \/ Loop(c)

Spec == Init /\ [][Next]_vars

(* Every core initialises its IPI, takes a pending interrupt and runs its  *)
(* loop; the A53 triggers what it has sent.  Nobody has to type.           *)
FairSpec == /\ Spec
            /\ \A c \in Cores : /\ WF_vars(Trigger(c)) /\ WF_vars(IpiInit(c))
                                /\ WF_vars(Isr(c)) /\ WF_vars(Loop(c))

-----------------------------------------------------------------------------
TypeOK ==
  /\ fwd \in Cores \cup {NoCore}
  /\ forwarded \in [Cores -> Nat] /\ accident \in [Cores -> Nat]
  /\ queue \in [Cores -> Seq(Nat \ {0})]
  /\ status \in [Cores -> {0, 1}] /\ wake \in [Cores -> {0, 1}]
  /\ ready \in [Cores -> BOOLEAN]
  /\ loop \in [Cores -> {"wait", "clear", "recv"}]
  /\ executed \in [Cores -> Seq(Nat \ {0})]
  /\ swallowed \in [Cores -> Nat]

(* Wake-ups under way for core c, from the send to the receive.            *)
UnderWay(c) == (IF fwd = c THEN 1 ELSE 0) + status[c] + wake[c]
               + (IF loop[c] = "recv" THEN 1 ELSE 0)

(* No wake-up is ever lost other than by merging with one still pending or *)
(* by arriving before the core was ready: until the queue overruns, the    *)
(* commands a core is behind are exactly the wake-ups under way plus the   *)
(* swallowed ones.  Clearing the flag before receiving is what makes it so.*)
BacklogIsSwallowed ==
  TypeOK /\ \A c \in Cores :
     accident[c] = 0 => forwarded[c] = Len(executed[c]) + UnderWay(c) + swallowed[c]

(* Until the queue overruns, a core executes the commands in the order they *)
(* were typed, none twice and none skipped.                                *)
InTypedOrder ==
  \A c \in Cores : accident[c] = 0 =>
     executed[c] \o queue[c] = [k \in 1 .. forwarded[c] |-> k]

(* Every trigger that is not swallowed leads to an execution.              *)
WakeupsDrain ==
  \A c \in Cores :
     \A k \in 1 .. MaxCmd :
        (forwarded[c] = k) ~>
            (accident[c] > 0 \/ Len(executed[c]) >= k - swallowed[c])

=============================================================================

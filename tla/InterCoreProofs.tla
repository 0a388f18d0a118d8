-------------------------- MODULE InterCoreProofs --------------------------
(***************************************************************************)
(* The two ways that lead through shared memory from one core to another:  *)
(* the shell commands that the A53 hands to the R5s, and the byte ring     *)
(* that an R5 logs through.                                                *)
(*                                                                         *)
(* ShellForward, for any cores, any length of the command queues and any   *)
(* number of commands.  The two invariants need each other: counting the   *)
(* wake-ups says that a core about to receive has a command in its queue,  *)
(* and the order of the commands says how many are in that queue.  A third *)
(* conjunct is about R50's polled flag: between the test and the clear it  *)
(* is still set, so that clearing it uses up exactly one wake-up.          *)
(*                                                                         *)
(* RingBuffer, with one producer and one consumer, for every size of the   *)
(* ring, every range of the free-running indices that is a multiple of it, *)
(* and any number of bytes.  Everything is counted from the bytes that     *)
(* have left: the k-th byte between the two indices is the producer's byte *)
(* Len(gone) + k, the ones being copied in follow it, and the ones being   *)
(* copied out are the first.  The producer writes outside the content      *)
(* because the room it computed can only grow, the consumer reads inside   *)
(* it because the filling it computed can only grow.                       *)
(***************************************************************************)
EXTENDS ShellForward, RingBuffer, SequenceTheorems, TLAPS

Command == Nat \ {0}

Backlog == \A c \in Cores : accident[c] = 0 =>
             forwarded[c] = Len(executed[c]) + UnderWay(c) + swallowed[c]

SeenFlagIsSet == \A c \in Cores : loop[c] = "clear" => wake[c] = 1

IInv == TypeOK /\ Backlog /\ InTypedOrder /\ SeenFlagIsSet

-----------------------------------------------------------------------------
LEMMA InitIInv == Init => IInv
  <1> SUFFICES ASSUME Init PROVE IInv
    OBVIOUS
  <1>1. TypeOK
    BY DEF Init, TypeOK
  <1>2. Backlog
    BY NoCoreAssumption DEF Init, Backlog, UnderWay
  <1>3. InTypedOrder
    <2> SUFFICES ASSUME NEW c \in Cores
                 PROVE  executed[c] \o queue[c] = [k \in 1 .. forwarded[c] |-> k]
      BY DEF InTypedOrder
    <2>1. executed[c] = <<>> /\ queue[c] = <<>> /\ forwarded[c] = 0
      BY DEF Init
    <2>2. <<>> \o <<>> = <<>> /\ <<>> \in Seq(Nat)
      BY ConcatEmptySeq
    <2>3. [k \in 1 .. 0 |-> k] = <<>>
      OBVIOUS
    <2> QED
      BY <2>1, <2>2, <2>3
  <1>4. SeenFlagIsSet
    BY DEF Init, SeenFlagIsSet
  <1> QED
    BY <1>1, <1>2, <1>3, <1>4 DEF IInv

(* The counters of a core are numbers.                                     *)
LEMMA Numbers ==
  ASSUME TypeOK, NEW c \in Cores
  PROVE  /\ status[c] \in {0, 1} /\ wake[c] \in {0, 1} /\ swallowed[c] \in Nat
         /\ UnderWay(c) \in Nat /\ (loop[c] = "recv" => UnderWay(c) > 0)
         /\ forwarded[c] \in Nat /\ accident[c] \in Nat
         /\ executed[c] \in Seq(Nat) /\ queue[c] \in Seq(Nat)
         /\ Len(executed[c]) \in Nat /\ Len(queue[c]) \in Nat
  <1>1. /\ status[c] \in {0, 1} /\ wake[c] \in {0, 1} /\ swallowed[c] \in Nat
        /\ forwarded[c] \in Nat /\ accident[c] \in Nat
        /\ executed[c] \in Seq(Command) /\ queue[c] \in Seq(Command)
    BY DEF TypeOK, Command
  <1>2. executed[c] \in Seq(Nat) /\ queue[c] \in Seq(Nat)
    BY <1>1, SeqMonotonic DEF Command
  <1>3. UnderWay(c) \in Nat /\ (loop[c] = "recv" => UnderWay(c) > 0)
    BY <1>1 DEF UnderWay
  <1> QED
    BY <1>1, <1>2, <1>3, LenProperties

LEMMA TypeStep == TypeOK /\ [Next]_vars => TypeOK'
  <1> SUFFICES ASSUME TypeOK, [Next]_vars PROVE TypeOK'
    OBVIOUS
  <1> USE DEF TypeOK, Swallow
  <1>1. CASE UNCHANGED vars
    BY <1>1 DEF vars
  <1> SUFFICES ASSUME NEW c \in Cores,
                      Forward(c) \/ Trigger(c) \/ IpiInit(c) \/ Isr(c) \/ Loop(c)
               PROVE  TypeOK'
    BY <1>1 DEF Next
  <1>2. CASE Forward(c)
    <2>1. forwarded[c] + 1 \in Command
      BY DEF Command
    <2>2. Append(queue[c], forwarded[c] + 1) \in Seq(Command) /\ <<>> \in Seq(Command)
      BY <2>1, AppendProperties DEF Command
    <2>3. queue' \in [Cores -> Seq(Command)]
      BY <1>2, <2>2 DEF Forward, Command
    <2>4. accident[c] + 1 \in Nat /\ forwarded[c] + 1 \in Nat
      OBVIOUS
    <2>5. accident' \in [Cores -> Nat] /\ forwarded' \in [Cores -> Nat]
      BY <1>2, <2>4 DEF Forward
    <2> QED
      BY <1>2, <2>3, <2>5 DEF Forward, Command
  <1>a. swallowed[c] + status[c] \in Nat /\ swallowed[c] + wake[c] \in Nat
    <2>1. swallowed[c] \in Nat /\ status[c] \in {0, 1} /\ wake[c] \in {0, 1}
      OBVIOUS
    <2>2. \A x \in Nat, y \in {0, 1} : x + y \in Nat
      OBVIOUS
    <2> HIDE DEF TypeOK
    <2> QED
      BY <2>1, <2>2
  <1>3. CASE Trigger(c)
    BY <1>3, <1>a DEF Trigger
  <1>4. CASE IpiInit(c)
    BY <1>4, <1>a DEF IpiInit
  <1>5. CASE Isr(c)
    BY <1>5, <1>a DEF Isr
  <1>6. CASE SeeFlag(c)
    BY <1>6 DEF SeeFlag
  <1>7. CASE ClearFlag(c)
    BY <1>7 DEF ClearFlag
  <1>8. CASE TakeSemaphore(c)
    BY <1>8 DEF TakeSemaphore
  <1>9. CASE Receive(c)
    <2>1. CASE queue[c] = <<>>
      BY <1>9, <2>1 DEF Receive
    <2>2. CASE queue[c] # <<>>
      <3>1. Head(queue[c]) \in Command /\ Tail(queue[c]) \in Seq(Command)
        BY <2>2, HeadTailProperties DEF Command
      <3>2. Append(executed[c], Head(queue[c])) \in Seq(Command)
        BY <3>1, AppendProperties DEF Command
      <3> QED
        BY <1>9, <2>2, <3>1, <3>2 DEF Receive, Command
    <2> QED
      BY <2>1, <2>2
  <1> QED
    BY <1>2, <1>3, <1>4, <1>5, <1>6, <1>7, <1>8, <1>9 DEF Loop

-----------------------------------------------------------------------------
(* Commands in the queue of a core that never overran: those it is behind. *)
LEMMA QueueIsBacklog ==
  ASSUME IInv, NEW c \in Cores, accident[c] = 0
  PROVE  Len(queue[c]) = UnderWay(c) + swallowed[c]
  <1>1. executed[c] \in Seq(Nat) /\ queue[c] \in Seq(Nat) /\ forwarded[c] \in Nat
        /\ UnderWay(c) \in Nat /\ swallowed[c] \in Nat
        /\ Len(executed[c]) \in Nat /\ Len(queue[c]) \in Nat
    BY Numbers DEF IInv
  <1>2. Len(executed[c] \o queue[c]) = Len(executed[c]) + Len(queue[c])
    BY <1>1, ConcatProperties
  <1>3. Len([k \in 1 .. forwarded[c] |-> k]) = forwarded[c]
    BY <1>1
  <1>4. Len(executed[c]) + Len(queue[c]) = forwarded[c]
    BY <1>2, <1>3 DEF IInv, InTypedOrder
  <1>5. forwarded[c] = Len(executed[c]) + UnderWay(c) + swallowed[c]
    BY DEF IInv, Backlog
  <1> DEFINE e == Len(executed[c])  q == Len(queue[c])  f == forwarded[c]
             u == UnderWay(c)  s == swallowed[c]
  <1>6. e \in Nat /\ q \in Nat /\ f \in Nat /\ u \in Nat /\ s \in Nat
        /\ e + q = f /\ f = e + u + s
    BY <1>1, <1>4, <1>5
  <1> HIDE DEF e, q, f, u, s
  <1>7. q = u + s
    BY <1>6
  <1> QED
    BY <1>7 DEF q, u, s

(* A core that is about to receive has something to receive.               *)
LEMMA ReceiveFindsCommand ==
  ASSUME IInv, NEW c \in Cores, accident[c] = 0, loop[c] = "recv"
  PROVE  queue[c] # <<>>
  <1>1. UnderWay(c) \in Nat /\ UnderWay(c) > 0 /\ swallowed[c] \in Nat
    BY Numbers DEF IInv
  <1>2. Len(queue[c]) # 0
    BY <1>1, QueueIsBacklog
  <1> QED
    BY <1>2

(* Moving the head of the second sequence to the end of the first.         *)
LEMMA MoveHead ==
  ASSUME NEW S, NEW s \in Seq(S), NEW t \in Seq(S), t # <<>>
  PROVE  Append(s, Head(t)) \o Tail(t) = s \o t
  <1> DEFINE u == Append(s, Head(t))
  <1>1. Head(t) \in S /\ Tail(t) \in Seq(S) /\ Len(Tail(t)) = Len(t) - 1
        /\ \A i \in 1 .. Len(Tail(t)) : Tail(t)[i] = t[i + 1]
    BY HeadTailProperties
  <1>2. u \in Seq(S) /\ Len(u) = Len(s) + 1 /\ u[Len(s) + 1] = Head(t)
        /\ \A i \in 1 .. Len(s) : u[i] = s[i]
    BY <1>1, AppendProperties
  <1>3. Len(s) \in Nat /\ Len(t) \in Nat /\ Len(t) > 0 /\ Head(t) = t[1]
    BY LenProperties, EmptySeq
  <1> HIDE DEF u
  <1>4. u \o Tail(t) \in Seq(S) /\ Len(u \o Tail(t)) = Len(s) + Len(t)
        /\ \A i \in 1 .. Len(s) + Len(t) :
              (u \o Tail(t))[i] = IF i <= Len(s) + 1 THEN u[i] ELSE Tail(t)[i - (Len(s) + 1)]
    <2>1. u \o Tail(t) \in Seq(S) /\ Len(u \o Tail(t)) = Len(u) + Len(Tail(t))
          /\ \A i \in 1 .. Len(u) + Len(Tail(t)) :
                (u \o Tail(t))[i] = IF i <= Len(u) THEN u[i] ELSE Tail(t)[i - Len(u)]
      BY <1>1, <1>2, ConcatProperties
    <2>2. Len(u) + Len(Tail(t)) = Len(s) + Len(t)
      BY <1>1, <1>2, <1>3
    <2> QED
      BY <1>2, <2>1, <2>2
  <1>5. s \o t \in Seq(S) /\ Len(s \o t) = Len(s) + Len(t)
        /\ \A i \in 1 .. Len(s) + Len(t) :
              (s \o t)[i] = IF i <= Len(s) THEN s[i] ELSE t[i - Len(s)]
    BY ConcatProperties
  <1>6. ASSUME NEW i \in 1 .. Len(s) + Len(t)
        PROVE  (u \o Tail(t))[i] = (s \o t)[i]
    BY <1>1, <1>2, <1>3, <1>4, <1>5
  <1>7. u \o Tail(t) = s \o t
    BY <1>3, <1>4, <1>5, <1>6, SeqEqual
  <1> QED
    BY <1>7 DEF u

-----------------------------------------------------------------------------
LEMMA FlagStep == IInv /\ [Next]_vars => SeenFlagIsSet'
  <1> SUFFICES ASSUME IInv, [Next]_vars PROVE SeenFlagIsSet'
    OBVIOUS
  <1> USE DEF SeenFlagIsSet, IInv, TypeOK
  <1>1. CASE UNCHANGED vars
    BY <1>1 DEF vars
  <1>2. CASE Next
    <2> SUFFICES ASSUME NEW c \in Cores,
                        Forward(c) \/ Trigger(c) \/ IpiInit(c) \/ Isr(c) \/ Loop(c)
                 PROVE  SeenFlagIsSet'
      BY <1>2 DEF Next
    <2>1. CASE Forward(c) \/ Trigger(c) \/ IpiInit(c)
      BY <2>1 DEF Forward, Trigger, IpiInit
    <2>2. CASE Isr(c)
      BY <2>2 DEF Isr
    <2>3. CASE SeeFlag(c)
      BY <2>3 DEF SeeFlag
    <2>4. CASE ClearFlag(c) \/ TakeSemaphore(c)
      BY <2>4 DEF ClearFlag, TakeSemaphore
    <2>5. CASE Receive(c)
      BY <2>5 DEF Receive
    <2> QED
      BY <2>1, <2>2, <2>3, <2>4, <2>5 DEF Loop
  <1> QED
    BY <1>1, <1>2

(* A step of core c touches nothing of another core d.                     *)
LEMMA OthersUntouched ==
  ASSUME TypeOK, NEW c \in Cores, NEW d \in Cores, c # d,
         Forward(c) \/ Trigger(c) \/ IpiInit(c) \/ Isr(c) \/ Loop(c)
  PROVE  /\ forwarded'[d] = forwarded[d] /\ accident'[d] = accident[d]
         /\ queue'[d] = queue[d] /\ executed'[d] = executed[d]
         /\ status'[d] = status[d] /\ wake'[d] = wake[d]
         /\ loop'[d] = loop[d] /\ swallowed'[d] = swallowed[d]
         /\ fwd' = d <=> fwd = d
  <1> USE DEF TypeOK, Swallow
  <1>1. CASE Forward(c)
    BY <1>1, NoCoreAssumption DEF Forward
  <1>2. CASE Trigger(c)
    BY <1>2, NoCoreAssumption DEF Trigger
  <1>3. CASE IpiInit(c)
    BY <1>3 DEF IpiInit
  <1>4. CASE Isr(c)
    BY <1>4 DEF Isr
  <1>5. CASE SeeFlag(c) \/ ClearFlag(c) \/ TakeSemaphore(c)
    BY <1>5 DEF SeeFlag, ClearFlag, TakeSemaphore
  <1>6. CASE Receive(c)
    BY <1>6 DEF Receive
  <1> QED
    BY <1>1, <1>2, <1>3, <1>4, <1>5, <1>6 DEF Loop

-----------------------------------------------------------------------------
LEMMA BacklogStep == IInv /\ [Next]_vars => Backlog'
  <1> SUFFICES ASSUME IInv, [Next]_vars PROVE Backlog'
    OBVIOUS
  <1>1. CASE UNCHANGED vars
    BY <1>1 DEF vars, IInv, Backlog, UnderWay
  <1>2. CASE Next
    <2> SUFFICES ASSUME NEW c \in Cores,
                        Forward(c) \/ Trigger(c) \/ IpiInit(c) \/ Isr(c) \/ Loop(c),
                        NEW d \in Cores, accident'[d] = 0
                 PROVE  forwarded'[d] = Len(executed'[d]) + UnderWay(d)' + swallowed'[d]
      BY <1>2 DEF Next, Backlog
    <2>1. CASE c # d
      <3>1. accident[d] = 0
        BY <2>1, OthersUntouched DEF IInv
      <3>2. forwarded[d] = Len(executed[d]) + UnderWay(d) + swallowed[d]
        BY <3>1 DEF IInv, Backlog
      <3>3. UnderWay(d)' = UnderWay(d)
        BY <2>1, OthersUntouched DEF IInv, UnderWay
      <3> QED
        BY <2>1, <3>2, <3>3, OthersUntouched DEF IInv
    <2>2. CASE c = d
      <3> DEFINE e == Len(executed[c])
                 f == IF fwd = c THEN 1 ELSE 0
                 r == IF loop[c] = "recv" THEN 1 ELSE 0
      <3>0. /\ status[c] \in {0, 1} /\ wake[c] \in {0, 1} /\ swallowed[c] \in Nat
            /\ forwarded[c] \in Nat /\ accident[c] \in Nat /\ e \in Nat
            /\ accident \in [Cores -> Nat] /\ forwarded \in [Cores -> Nat]
            /\ status \in [Cores -> {0, 1}] /\ wake \in [Cores -> {0, 1}]
            /\ loop \in [Cores -> {"wait", "clear", "recv"}]
            /\ executed \in [Cores -> Seq(Nat \ {0})] /\ swallowed \in [Cores -> Nat]
        BY Numbers DEF IInv, TypeOK
      <3>a. (accident[c] = 0) => forwarded[c] = e + (f + status[c] + wake[c] + r) + swallowed[c]
        BY DEF IInv, Backlog, UnderWay
      <3>b. UnderWay(c)' = (IF fwd' = c THEN 1 ELSE 0) + status'[c] + wake'[c]
                           + (IF loop'[c] = "recv" THEN 1 ELSE 0)
        BY DEF UnderWay
      <3>c. f \in {0, 1} /\ r \in {0, 1}
        OBVIOUS
      <3>d. \A a, g, s, w, q, x \in Int :
               /\ a + (g + s + w + q) + x = a + (g + 0 + w + q) + (x + s)
               /\ s = 1 => a + (g + s + w + q) + x = a + (g + 0 + 1 + q) + (x + w)
        OBVIOUS
      <3> HIDE DEF e
      <3>1. CASE Forward(c)
        <4>1. accident[c] = 0 /\ fwd = NoCore /\ fwd' = c /\ c # NoCore
          BY <2>2, <3>0, <3>1, NoCoreAssumption DEF Forward
        <4>2. forwarded'[c] = forwarded[c] + 1 /\ executed' = executed
              /\ status' = status /\ wake' = wake /\ loop' = loop /\ swallowed' = swallowed
          BY <3>0, <3>1 DEF Forward
        <4> QED
          BY <2>2, <3>0, <3>a, <3>b, <4>1, <4>2 DEF e
      <3>2. CASE Trigger(c)
        <4>1. accident' = accident /\ fwd = c /\ fwd' = NoCore /\ c # NoCore
          BY <3>2, NoCoreAssumption DEF Trigger
        <4>2. status'[c] = 1 /\ swallowed'[c] = swallowed[c] + status[c]
              /\ forwarded' = forwarded /\ executed' = executed /\ wake' = wake /\ loop' = loop
          BY <3>0, <3>2 DEF Trigger, Swallow
        <4> QED
          BY <2>2, <3>0, <3>a, <3>b, <4>1, <4>2 DEF e
      <3>3. CASE IpiInit(c)
        <4>1. status'[c] = 0 /\ swallowed'[c] = swallowed[c] + status[c] /\ fwd' = fwd
              /\ accident' = accident
              /\ forwarded' = forwarded /\ executed' = executed /\ wake' = wake /\ loop' = loop
          BY <3>0, <3>3 DEF IpiInit, Swallow
        <4>2. UnderWay(c)' = f + 0 + wake[c] + r
          BY <3>b, <4>1
        <4>3. forwarded[c] = e + (f + status[c] + wake[c] + r) + swallowed[c]
          BY <2>2, <3>a, <4>1
        <4>4. Len(executed'[c]) = e
          BY <4>1 DEF e
        <4> HIDE DEF f, r
        <4>5. forwarded[c] = e + UnderWay(c)' + swallowed'[c]
          <5>1. e \in Int /\ f \in Int /\ status[c] \in Int /\ wake[c] \in Int /\ r \in Int
                /\ swallowed[c] \in Int
            BY <3>0, <3>c
          <5>2. e + (f + status[c] + wake[c] + r) + swallowed[c]
                  = e + (f + 0 + wake[c] + r) + (swallowed[c] + status[c])
            BY <3>d, <5>1
          <5>3. forwarded[c] = e + (f + 0 + wake[c] + r) + (swallowed[c] + status[c])
            BY <4>3, <5>2, Zenon
          <5>4. swallowed'[c] = swallowed[c] + status[c]
            BY <4>1, Zenon
          <5> QED
            BY <4>2, <5>3, <5>4, Zenon
        <4> QED
          BY <2>2, <4>1, <4>4, <4>5
      <3>4. CASE Isr(c)
        <4>1. status[c] = 1 /\ status'[c] = 0 /\ wake'[c] = 1
              /\ swallowed'[c] = swallowed[c] + wake[c] /\ fwd' = fwd /\ accident' = accident
              /\ forwarded' = forwarded /\ executed' = executed /\ loop' = loop
          BY <3>0, <3>4 DEF Isr, Swallow
        <4>2. UnderWay(c)' = f + 0 + 1 + r
          BY <3>b, <4>1
        <4>3. forwarded[c] = e + (f + status[c] + wake[c] + r) + swallowed[c]
          BY <2>2, <3>a, <4>1
        <4>4. Len(executed'[c]) = e
          BY <4>1 DEF e
        <4> HIDE DEF f, r
        <4>5. forwarded[c] = e + UnderWay(c)' + swallowed'[c]
          <5>1. e \in Int /\ f \in Int /\ status[c] \in Int /\ wake[c] \in Int /\ r \in Int
                /\ swallowed[c] \in Int
            BY <3>0, <3>c
          <5>2. e + (f + status[c] + wake[c] + r) + swallowed[c]
                  = e + (f + 0 + 1 + r) + (swallowed[c] + wake[c])
            BY <3>d, <4>1, <5>1
          <5>3. forwarded[c] = e + (f + 0 + 1 + r) + (swallowed[c] + wake[c])
            BY <4>3, <5>2, Zenon
          <5>4. swallowed'[c] = swallowed[c] + wake[c]
            BY <4>1, Zenon
          <5> QED
            BY <4>2, <5>3, <5>4, Zenon
        <4> QED
          BY <2>2, <4>1, <4>4, <4>5
      <3>5. CASE SeeFlag(c)
        <4>1. loop[c] = "wait" /\ loop'[c] = "clear" /\ status' = status /\ wake' = wake
              /\ swallowed' = swallowed /\ fwd' = fwd /\ accident' = accident
              /\ forwarded' = forwarded /\ executed' = executed
          BY <3>0, <3>5 DEF SeeFlag
        <4> QED
          BY <2>2, <3>0, <3>a, <3>b, <4>1 DEF e
      <3>6. CASE ClearFlag(c)
        <4>1. wake[c] = 1
          BY <3>6 DEF ClearFlag, IInv, SeenFlagIsSet
        <4>2. loop[c] = "clear" /\ loop'[c] = "recv" /\ status' = status /\ wake'[c] = 0
              /\ swallowed' = swallowed /\ fwd' = fwd /\ accident' = accident
              /\ forwarded' = forwarded /\ executed' = executed
          BY <3>0, <3>6 DEF ClearFlag
        <4> QED
          BY <2>2, <3>0, <3>a, <3>b, <4>1, <4>2 DEF e
      <3>7. CASE TakeSemaphore(c)
        <4>1. wake[c] = 1 /\ loop[c] = "wait" /\ loop'[c] = "recv" /\ status' = status
              /\ wake'[c] = 0 /\ swallowed' = swallowed /\ fwd' = fwd
              /\ accident' = accident /\ forwarded' = forwarded /\ executed' = executed
          BY <3>0, <3>7 DEF TakeSemaphore
        <4> QED
          BY <2>2, <3>0, <3>a, <3>b, <4>1 DEF e
      <3>8. CASE Receive(c)
        <4>1. loop[c] = "recv" /\ loop'[c] = "wait" /\ status' = status /\ wake' = wake
              /\ swallowed' = swallowed /\ fwd' = fwd /\ accident' = accident
              /\ forwarded' = forwarded
          BY <3>0, <3>8 DEF Receive
        <4>2. queue[c] # <<>>
          BY <2>2, <4>1, ReceiveFindsCommand
        <4>3. executed'[c] = Append(executed[c], Head(queue[c]))
          BY <3>0, <3>8, <4>2 DEF Receive
        <4>4. Head(queue[c]) \in Nat /\ executed[c] \in Seq(Nat)
          BY <4>2, Numbers, HeadTailProperties DEF IInv
        <4>5. Len(executed'[c]) = e + 1
          BY <4>3, <4>4, AppendProperties DEF e
        <4> QED
          BY <2>2, <3>0, <3>a, <3>b, <4>1, <4>5
      <3> QED
        BY <2>2, <3>1, <3>2, <3>3, <3>4, <3>5, <3>6, <3>7, <3>8 DEF Loop
    <2> QED
      BY <2>1, <2>2
  <1> QED
    BY <1>1, <1>2

-----------------------------------------------------------------------------
LEMMA OrderStep == IInv /\ [Next]_vars => InTypedOrder'
  <1> SUFFICES ASSUME IInv, [Next]_vars PROVE InTypedOrder'
    OBVIOUS
  <1>1. CASE UNCHANGED vars
    BY <1>1 DEF vars, IInv, InTypedOrder
  <1>2. CASE Next
    <2> SUFFICES ASSUME NEW c \in Cores,
                        Forward(c) \/ Trigger(c) \/ IpiInit(c) \/ Isr(c) \/ Loop(c),
                        NEW d \in Cores, accident'[d] = 0
                 PROVE  executed'[d] \o queue'[d] = [k \in 1 .. forwarded'[d] |-> k]
      BY <1>2 DEF Next, InTypedOrder
    <2>0. /\ executed[d] \in Seq(Nat) /\ queue[d] \in Seq(Nat)
          /\ forwarded[d] \in Nat /\ accident[d] \in Nat
      BY Numbers DEF IInv
    <2>a. (accident[d] = 0) => executed[d] \o queue[d] = [k \in 1 .. forwarded[d] |-> k]
      BY DEF IInv, InTypedOrder
    <2>1. CASE c # d
      BY <2>1, <2>a, OthersUntouched DEF IInv
    <2>2. CASE c = d /\ Forward(c)
      <3>1. /\ accident[d] = 0 /\ executed'[d] = executed[d]
            /\ queue'[d] = Append(queue[d], forwarded[d] + 1)
            /\ forwarded'[d] = forwarded[d] + 1
        BY <2>2, <2>0 DEF Forward, IInv, TypeOK
      <3> DEFINE e == executed[d]  q == queue[d]  n == forwarded[d]
                 typed == [k \in 1 .. n |-> k]
                 more == [k \in 1 .. n + 1 |-> k]
      <3>2. e \o q = typed
        BY <2>a, <3>1
      <3>3. e \in Seq(Nat) /\ q \in Seq(Nat) /\ n \in Nat
        BY <2>0
      <3> HIDE DEF e, q, n
      <3>4. <<n + 1>> \in Seq(Nat) /\ Append(q, n + 1) = q \o <<n + 1>>
        BY <3>3, AppendIsConcat
      <3>5. e \o Append(q, n + 1) = (e \o q) \o <<n + 1>>
        BY <3>3, <3>4, ConcatAssociative
      <3>6. typed \in Seq(Nat) /\ Append(typed, n + 1) = typed \o <<n + 1>>
        BY <3>3, AppendIsConcat
      <3>7. Append(typed, n + 1) = more
        BY <3>3
      <3> QED
        BY <3>1, <3>2, <3>5, <3>6, <3>7 DEF e, q, n
    <2>3. CASE c = d /\ Receive(c)
      <3>1. accident[d] = 0 /\ forwarded' = forwarded /\ loop[d] = "recv"
        BY <2>3 DEF Receive
      <3>2. queue[d] # <<>>
        BY <3>1, ReceiveFindsCommand
      <3>3. executed'[d] = Append(executed[d], Head(queue[d])) /\ queue'[d] = Tail(queue[d])
        BY <2>3, <3>2 DEF Receive, IInv, TypeOK
      <3>4. executed'[d] \o queue'[d] = executed[d] \o queue[d]
        BY <2>0, <3>2, <3>3, MoveHead
      <3> QED
        BY <2>a, <3>1, <3>4
    <2>4. CASE Trigger(c) \/ IpiInit(c) \/ Isr(c) \/ SeeFlag(c) \/ ClearFlag(c)
               \/ TakeSemaphore(c)
      BY <2>a, <2>4 DEF Trigger, IpiInit, Isr, SeeFlag, ClearFlag, TakeSemaphore
    <2> QED
      BY <2>1, <2>2, <2>3, <2>4 DEF Loop
  <1> QED
    BY <1>1, <1>2

-----------------------------------------------------------------------------
(* The invariant is inductive.                                             *)
THEOREM Invariance == Spec => []IInv
  <1>1. IInv /\ [Next]_vars => IInv'
    BY TypeStep, FlagStep, BacklogStep, OrderStep DEF IInv
  <1> QED
    BY InitIInv, <1>1, PTL DEF Spec

(* _shell_fwd_r50/_r51 to the R5's loop: as long as no queue overran, the  *)
(* commands a core is behind are the wake-ups under way for it and those   *)
(* that merged with another or came before the core was ready.             *)
THEOREM WakeupsAreCounted == Spec => []BacklogIsSwallowed
  <1>1. IInv => BacklogIsSwallowed
    BY DEF IInv, Backlog, BacklogIsSwallowed
  <1> QED
    BY Invariance, <1>1, PTL

(* As long as no queue overran, every core executes its commands in the    *)
(* order they were typed, none twice and none skipped.                     *)
THEOREM CommandsInOrder == Spec => []InTypedOrder
  <1>1. IInv => InTypedOrder
    BY DEF IInv
  <1> QED
    BY Invariance, <1>1, PTL

(* A core that wakes up to receive finds a command, unless its queue has   *)
(* overrun: the wake-up of L1cRecvFromOam is never spurious.               *)
THEOREM NoSpuriousWakeup ==
  Spec => [](\A c \in Cores : loop[c] = "recv" /\ accident[c] = 0 => queue[c] # <<>>)
  <1>1. IInv => \A c \in Cores : loop[c] = "recv" /\ accident[c] = 0 => queue[c] # <<>>
    BY ReceiveFindsCommand
  <1> QED
    BY Invariance, <1>1, PTL

-----------------------------------------------------------------------------
(* The byte ring.                                                          *)

(* The users of the ring: one thread puts.                                 *)
OneProducer == \E p \in Producers : Producers = {p}

Cell == {NoByte} \cup {Byte(p, k) : p \in Producers, k \in Nat}

P == prod[TheProducer]
Fill == Filled(head, tail)
Taken == Len(gone)

(* count bytes of the producer, the first one after the base-th.           *)
Stretch(base, count) == [k \in 1 .. count |-> StreamByte(base + k)]

Pcs == {"idle", "tail", "copy", "store"}

PutCalls == [pc : Pcs, op : PutOps, len : 0 .. Size, head : 0 .. Wrap - 1,
             n : 0 .. Size, i : 0 .. Size, room : 0 .. Size]

GetCalls == [pc : Pcs, op : GetOps, len : 0 .. Size, head : 0 .. Wrap - 1,
             tail : 0 .. Wrap - 1, n : 0 .. Size, data : Seq(Cell), avail : 0 .. Size]

Types ==
  /\ head \in 0 .. Wrap - 1 /\ tail \in 0 .. Wrap - 1
  /\ buffer \in [0 .. Size - 1 -> Cell]
  /\ prod \in [Producers -> PutCalls]
  /\ cons \in GetCalls
  /\ published \in [Producers -> Nat]
  /\ gone \in Seq(Cell)

(* What has passed: as many bytes as were put, in order; what lies between *)
(* the indices comes next.                                                 *)
Counts == Fill <= Size /\ published[TheProducer] = Taken + Fill

InOrder == \A k \in 1 .. Taken : gone[k] = StreamByte(k)

Intact == \A k \in 1 .. Fill : buffer[Index(tail + k - 1)] = StreamByte(Taken + k)

Passing == Counts /\ InOrder /\ Intact

(* The producer's call.                                                    *)
PutCall ==
  /\ P.pc # "idle" => P.head = head /\ P.len >= 1 /\ P.room = 0
  /\ P.pc \in {"copy", "store"} => P.n >= 1 /\ P.n <= Size - Fill
  /\ P.pc = "copy" => P.i < P.n
  /\ P.pc = "store" => P.i = P.n
  /\ P.room <= Size - Fill

Copied ==
  P.pc \in {"copy", "store"} =>
    \A k \in 1 .. P.i : buffer[Index(head + k - 1)] = StreamByte(Taken + Fill + k)

PutSide == PutCall /\ Copied

(* The consumer's call.                                                    *)
GetCall ==
  /\ cons.pc # "idle" => cons.avail = 0 /\ cons.len >= 1
  /\ cons.pc = "tail" => Filled(cons.head, tail) <= Fill /\ cons.data = <<>>
  /\ cons.pc \in {"copy", "store"} => cons.tail = tail /\ cons.n >= 1 /\ cons.n <= Fill
  /\ cons.pc = "copy" => cons.op # "discard" /\ Len(cons.data) < cons.n
  /\ cons.pc = "store" => cons.op # "peek" /\ (cons.op # "discard" => Len(cons.data) = cons.n)
  /\ cons.op = "peek" => cons.len = 1 /\ (cons.pc = "copy" => cons.n = 1)
  /\ cons.avail <= Fill /\ Len(cons.data) <= Size

CopiedOut ==
  cons.pc \in {"copy", "store"} =>
    \A k \in 1 .. Len(cons.data) : cons.data[k] = StreamByte(Taken + k)

Peeked ==
  (cons.op = "peek" /\ cons.pc = "idle" /\ cons.data # <<>>) =>
     Fill >= 1 /\ Len(cons.data) = 1 /\ cons.data[1] = StreamByte(Taken + 1)

GetSide == GetCall /\ CopiedOut /\ Peeked

RingIInv == Types /\ Passing /\ PutSide /\ GetSide

-----------------------------------------------------------------------------
(* Division.                                                               *)

LEMMA DivMod ==
  ASSUME NEW S \in Nat \ {0}, NEW x \in Int
  PROVE  x % S \in 0 .. S - 1 /\ x \div S \in Int /\ x = S * (x \div S) + (x % S)
  <1>1. x % S \in 0 .. S - 1
    OBVIOUS
  <1>2. x \div S \in Int
    OBVIOUS
  <1>3. x = S * (x \div S) + (x % S)
    OBVIOUS
  <1> QED
    BY <1>1, <1>2, <1>3

(* A multiple of S between -S and S is 0.                                  *)
LEMMA SmallMultiple ==
  ASSUME NEW S \in Nat \ {0}, NEW q \in Int, S * q < S, 0 - S < S * q
  PROVE  q = 0
  <1>1. CASE q > 0
    <2> DEFINE z == q - 1
    <2>1. z \in Nat
      BY <1>1
    <2>2. S * q = S * z + S
      OBVIOUS
    <2> HIDE DEF z
    <2>3. S * z \in Nat
      BY <2>1
    <2> QED
      BY <2>2, <2>3
  <1>2. CASE q < 0
    <2> DEFINE z == 0 - q - 1
    <2>1. z \in Nat
      BY <1>2
    <2>2. S * q = 0 - S * z - S
      OBVIOUS
    <2> HIDE DEF z
    <2>3. S * z \in Nat
      BY <2>1
    <2> QED
      BY <2>2, <2>3
  <1> QED
    BY <1>1, <1>2

LEMMA ModApart ==
  ASSUME NEW S \in Nat \ {0}, NEW x \in Int, NEW y \in Int, x < y, y < x + S
  PROVE  x % S # y % S
  <1> SUFFICES ASSUME x % S = y % S PROVE FALSE
    OBVIOUS
  <1> DEFINE a == x \div S  b == y \div S  r == x % S
  <1>1. a \in Int /\ b \in Int /\ r \in Int /\ x = S * a + r /\ y = S * b + r
    BY DivMod
  <1> HIDE DEF a, b, r
  <1>2. S * (b - a) = S * b - S * a
    BY <1>1
  <1>3. S * a \in Int /\ S * b \in Int
    BY <1>1
  <1>4. S * (b - a) = y - x
    BY <1>1, <1>2, <1>3
  <1>5. b - a = 0
    BY <1>1, <1>4, SmallMultiple
  <1> QED
    BY <1>1, <1>4, <1>5

LEMMA ModPlusMultiple ==
  ASSUME NEW S \in Nat \ {0}, NEW x \in Int, NEW w \in Nat, w % S = 0
  PROVE  (x + w) % S = x % S
  <1> DEFINE a == x \div S  b == (x + w) \div S  c == w \div S
             r == x % S  s == (x + w) % S
  <1>1. a \in Int /\ b \in Int /\ c \in Int /\ r \in 0 .. S - 1 /\ s \in 0 .. S - 1
         /\ x = S * a + r /\ x + w = S * b + s /\ w = S * c
    BY DivMod
  <1> HIDE DEF a, b, c, r, s
  <1>2. S * a \in Int /\ S * b \in Int /\ S * c \in Int
    BY <1>1
  <1>3. S * (a + c - b) = S * a + S * c - S * b
    BY <1>1
  <1>4. S * (a + c - b) = s - r
    BY <1>1, <1>2, <1>3
  <1>5. a + c - b = 0
    BY <1>1, <1>4, SmallMultiple
  <1>6. s = r
    BY <1>1, <1>4, <1>5
  <1> QED
    BY <1>6 DEF r, s

-----------------------------------------------------------------------------
(* The free-running indices.                                               *)

LEMMA SizeFacts == Size \in Nat \ {0} /\ Wrap \in Nat /\ Wrap > Size /\ Wrap % Size = 0
  BY SizeAssumption, WrapAssumption

(* Both ways of subtracting indices are the distance from t up to h.       *)
LEMMA FilledIs ==
  ASSUME NEW h \in 0 .. Wrap - 1, NEW t \in 0 .. Wrap - 1
  PROVE  /\ Filled(h, t) = IF h >= t THEN h - t ELSE h - t + Wrap
         /\ Filled(h, t) \in 0 .. Wrap - 1
         /\ RingSize(h, t) = Filled(h, t)
  <1>1. CASE h >= t
    <2>1. (h - t) % Wrap = h - t
      BY <1>1, SizeFacts
    <2> QED
      BY <1>1, <2>1, SizeFacts DEF Filled, RingSize
  <1>2. CASE h < t
    <2>1. (h - t) % Wrap = h - t + Wrap
      BY <1>2, SizeFacts
    <2> QED
      BY <1>2, <2>1, SizeFacts DEF Filled, RingSize
  <1> QED
    BY <1>1, <1>2

LEMMA WrapIs ==
  ASSUME NEW x \in 0 .. Wrap - 1, NEW n \in 0 .. Size
  PROVE  /\ (x + n) % Wrap = IF x + n < Wrap THEN x + n ELSE x + n - Wrap
         /\ (x + n) % Wrap \in 0 .. Wrap - 1
  <1> DEFINE g == (x + n) % Wrap
  <1>1. ASSUME x + n < Wrap PROVE g = x + n
    BY <1>1, SizeFacts
  <1>2. ASSUME x + n >= Wrap PROVE g = x + n - Wrap
    BY <1>2, SizeFacts
  <1> HIDE DEF g
  <1>3. g = IF x + n < Wrap THEN x + n ELSE x + n - Wrap
    BY <1>1, <1>2, SizeFacts
  <1>4. g \in 0 .. Wrap - 1
    BY <1>3, SizeFacts
  <1> QED
    BY <1>3, <1>4 DEF g

(* Storing head, and storing tail.                                         *)
LEMMA FilledMore ==
  ASSUME NEW h \in 0 .. Wrap - 1, NEW t \in 0 .. Wrap - 1, NEW n \in 0 .. Size,
         Filled(h, t) + n <= Size
  PROVE  Filled((h + n) % Wrap, t) = Filled(h, t) + n
  <1> DEFINE g == (h + n) % Wrap
  <1>1. g \in 0 .. Wrap - 1 /\ g = IF h + n < Wrap THEN h + n ELSE h + n - Wrap
    BY WrapIs
  <1> HIDE DEF g
  <1>2. /\ Filled(h, t) = IF h >= t THEN h - t ELSE h - t + Wrap
        /\ Filled(g, t) = IF g >= t THEN g - t ELSE g - t + Wrap
    BY <1>1, FilledIs
  <1>3. Filled(g, t) = Filled(h, t) + n
    BY <1>1, <1>2, SizeFacts
  <1> QED
    BY <1>3 DEF g

LEMMA FilledLess ==
  ASSUME NEW h \in 0 .. Wrap - 1, NEW t \in 0 .. Wrap - 1, NEW n \in 0 .. Size,
         n <= Filled(h, t)
  PROVE  Filled(h, (t + n) % Wrap) = Filled(h, t) - n
  <1> DEFINE g == (t + n) % Wrap
  <1>1. g \in 0 .. Wrap - 1 /\ g = IF t + n < Wrap THEN t + n ELSE t + n - Wrap
    BY WrapIs
  <1> HIDE DEF g
  <1>2. /\ Filled(h, t) = IF h >= t THEN h - t ELSE h - t + Wrap
        /\ Filled(h, g) = IF h >= g THEN h - g ELSE h - g + Wrap
    BY <1>1, FilledIs
  <1>3. Filled(h, g) = Filled(h, t) - n
    BY <1>1, <1>2, SizeFacts
  <1> QED
    BY <1>3 DEF g

(* Where bytes lie: the wrap at Wrap is invisible, and positions less than *)
(* a ring apart are different cells.                                       *)
LEMMA IndexFacts ==
  /\ \A x \in Int : Index(x) \in 0 .. Size - 1 /\ Index(x + Wrap) = Index(x)
  /\ \A x, y \in Int : x < y /\ y < x + Size => Index(x) # Index(y)
  <1>1. ASSUME NEW x \in Int PROVE Index(x) \in 0 .. Size - 1 /\ Index(x + Wrap) = Index(x)
    BY SizeFacts, DivMod, ModPlusMultiple DEF Index
  <1>2. ASSUME NEW x \in Int, NEW y \in Int, x < y, y < x + Size PROVE Index(x) # Index(y)
    BY <1>2, SizeFacts, ModApart DEF Index
  <1> QED
    BY <1>1, <1>2

LEMMA IndexAfterWrap ==
  ASSUME NEW x \in 0 .. Wrap - 1, NEW n \in 0 .. Size, NEW k \in Int
  PROVE  Index(((x + n) % Wrap) + k) = Index(x + n + k)
  <1> DEFINE g == (x + n) % Wrap
  <1> SUFFICES Index(g + k) = Index(x + n + k)
    OBVIOUS
  <1>1. g = x + n \/ g = x + n - Wrap
    BY WrapIs
  <1>2. g \in Int /\ Wrap \in Int
    BY WrapIs, SizeFacts
  <1> HIDE DEF g
  <1>3. CASE g = x + n
    BY <1>3
  <1>4. CASE g = x + n - Wrap
    <2>1. g + k + Wrap = x + n + k
      BY <1>2, <1>4, SizeFacts
    <2>2. g + k \in Int
      BY <1>2
    <2>3. Index(g + k + Wrap) = Index(g + k)
      BY <2>2, IndexFacts
    <2> QED
      BY <2>1, <2>3
  <1> QED
    BY <1>1, <1>3, <1>4

(* The cell k places after head is the one Fill + k places after tail.     *)
LEMMA IndexFromTail ==
  ASSUME NEW h \in 0 .. Wrap - 1, NEW t \in 0 .. Wrap - 1, NEW k \in Int
  PROVE  Index(h + k) = Index(t + Filled(h, t) + k)
  <1>1. Filled(h, t) = IF h >= t THEN h - t ELSE h - t + Wrap
    BY FilledIs
  <1>2. CASE h >= t
    BY <1>1, <1>2, SizeFacts
  <1>3. CASE h < t
    <2>1. t + Filled(h, t) + k = h + k + Wrap
      BY <1>1, <1>3, SizeFacts
    <2> QED
      BY <2>1, IndexFacts
  <1> QED
    BY <1>2, <1>3

-----------------------------------------------------------------------------
LEMMA OnlyProducer ==
  ASSUME OneProducer
  PROVE  TheProducer \in Producers /\ \A p \in Producers : p = TheProducer
  BY DEF OneProducer, TheProducer

LEMMA CellFacts ==
  ASSUME OneProducer
  PROVE  NoByte \in Cell /\ \A k \in Nat : StreamByte(k) \in Cell
  BY OnlyProducer DEF Cell, StreamByte

(* The numbers the invariant speaks of.                                    *)
LEMMA RingNumbers ==
  ASSUME OneProducer, Types
  PROVE  /\ Fill \in Nat /\ Taken \in Nat /\ P \in PutCalls
         /\ published[TheProducer] \in Nat
         /\ cons.data \in Seq(Cell) /\ Len(cons.data) \in Nat
  <1>1. Fill \in Nat
    <2>1. head \in 0 .. Wrap - 1 /\ tail \in 0 .. Wrap - 1
      BY DEF Types
    <2>2. Fill \in 0 .. Wrap - 1
      BY <2>1, FilledIs DEF Fill
    <2> QED
      BY <2>2, SizeFacts
  <1>2. Taken \in Nat
    BY LenProperties DEF Types, Taken
  <1>3. P \in PutCalls /\ published[TheProducer] \in Nat
    BY OnlyProducer DEF Types, P
  <1>4. cons.data \in Seq(Cell)
    BY DEF Types, GetCalls
  <1> QED
    BY <1>1, <1>2, <1>3, <1>4, LenProperties

LEMMA RingInitIInv == OneProducer /\ RingInit => RingIInv
  <1> SUFFICES ASSUME OneProducer, RingInit PROVE RingIInv
    OBVIOUS
  <1>1. Fill = 0 /\ Taken = 0 /\ gone = <<>>
    BY FilledIs, SizeFacts DEF RingInit, Fill, Taken
  <1>2. P = [pc |-> "idle", op |-> "put", len |-> 0, head |-> 0, n |-> 0, i |-> 0,
             room |-> 0]
    BY OnlyProducer DEF RingInit, P
  <1>3. published[TheProducer] = 0
    BY OnlyProducer DEF RingInit
  <1>4. Types
    <2>1. head \in 0 .. Wrap - 1 /\ tail \in 0 .. Wrap - 1 /\ 0 \in 0 .. Size
          /\ 0 \in 0 .. Wrap - 1
      BY SizeFacts DEF RingInit
    <2>2. buffer \in [0 .. Size - 1 -> Cell]
      BY CellFacts DEF RingInit
    <2>3. prod \in [Producers -> PutCalls]
      BY <2>1 DEF RingInit, PutCalls, Pcs, PutOps
    <2>4. <<>> \in Seq(Cell)
      OBVIOUS
    <2>5. cons \in GetCalls
      BY <2>1, <2>4 DEF RingInit, GetCalls, Pcs, GetOps
    <2>6. published \in [Producers -> Nat] /\ gone \in Seq(Cell)
      BY <2>4 DEF RingInit
    <2> QED
      BY <2>1, <2>2, <2>3, <2>5, <2>6 DEF Types
  <1>5. Passing
    BY <1>1, <1>3, SizeFacts DEF Passing, Counts, InOrder, Intact
  <1>6. PutSide
    BY <1>1, <1>2, SizeFacts DEF PutSide, PutCall, Copied
  <1>7. GetSide
    BY <1>1, SizeFacts DEF GetSide, GetCall, CopiedOut, Peeked, RingInit
  <1> QED
    BY <1>4, <1>5, <1>6, <1>7 DEF RingIInv

(* What each part of the invariant depends on.                             *)
LEMMA PassingKept ==
  ASSUME Passing, UNCHANGED <<head, tail, buffer, published, gone>>
  PROVE  Passing' /\ Fill' = Fill /\ Taken' = Taken
  BY DEF Passing, Counts, InOrder, Intact, Fill, Taken

LEMMA PutSideKept ==
  ASSUME PutSide, UNCHANGED <<head, tail, buffer, prod, gone>>
  PROVE  PutSide'
  BY DEF PutSide, PutCall, Copied, Fill, Taken, P

LEMMA GetSideKept ==
  ASSUME GetSide, UNCHANGED <<head, tail, gone, cons>>
  PROVE  GetSide'
  BY DEF GetSide, GetCall, CopiedOut, Peeked, Fill, Taken

-----------------------------------------------------------------------------
(* The producer's steps.                                                   *)
LEMMA PutHeadKeeps ==
  ASSUME OneProducer, RingIInv, NEW p \in Producers, NEW op \in PutOps, NEW len \in 1 .. Size,
         PutHead(p, op, len)
  PROVE  RingIInv'
  <1>1. p = TheProducer
    BY OnlyProducer
  <1>2. UNCHANGED <<head, tail, buffer, cons, published, gone>>
    BY DEF PutHead
  <1>3. P' = [P EXCEPT !.pc = "tail", !.op = op, !.len = len, !.head = head, !.room = 0]
    BY <1>1, OnlyProducer DEF PutHead, P, RingIInv, Types
  <1>4. P \in PutCalls /\ Fill \in Nat
    BY RingNumbers DEF RingIInv
  <1>5. P' \in PutCalls /\ P'.pc = "tail" /\ P'.head = head /\ P'.len = len /\ P'.room = 0
    <2>1. len \in 0 .. Size /\ 0 \in 0 .. Size /\ head \in 0 .. Wrap - 1 /\ "tail" \in Pcs
      BY SizeFacts DEF RingIInv, Types, Pcs
    <2> QED
      BY <1>3, <1>4, <2>1 DEF PutCalls
  <1>6. Types'
    <2>1. prod' \in [Producers -> PutCalls]
      BY <1>1, <1>5 DEF P, RingIInv, Types, PutHead
    <2> QED
      BY <1>2, <2>1 DEF RingIInv, Types
  <1>7. Passing' /\ Fill' = Fill
    BY <1>2, PassingKept DEF RingIInv
  <1>8. GetSide'
    BY <1>2, GetSideKept DEF RingIInv
  <1>9. PutSide'
    BY <1>2, <1>4, <1>5, <1>7, SizeFacts DEF PutSide, PutCall, Copied, RingIInv, Passing, Counts
  <1> QED
    BY <1>6, <1>7, <1>8, <1>9 DEF RingIInv

LEMMA PutTailKeeps ==
  ASSUME OneProducer, RingIInv, NEW p \in Producers, PutTail(p)
  PROVE  RingIInv'
  <1>1. p = TheProducer /\ P.pc = "tail"
    BY OnlyProducer DEF PutTail, P
  <1>2. UNCHANGED <<head, tail, buffer, cons, published, gone>>
    BY DEF PutTail
  <1>3. /\ P \in PutCalls /\ Fill \in Nat /\ Fill <= Size /\ P.head = head
        /\ P.len >= 1 /\ P.room = 0
    BY <1>1, RingNumbers DEF RingIInv, Passing, Counts, PutSide, PutCall
  <1> DEFINE free == Size - Fill
  <1>4. free \in 0 .. Size /\ RingSize(head, tail) = Fill
    <2>1. head \in 0 .. Wrap - 1 /\ tail \in 0 .. Wrap - 1
      BY DEF RingIInv, Types
    <2>2. RingSize(head, tail) = Fill
      BY <2>1, FilledIs DEF Fill
    <2> QED
      BY <1>3, <2>2, SizeFacts
  <1> DEFINE n == Least(P.len, free)
  <1>5. prod' = [prod EXCEPT ![p] = P'] /\ P' \in {[P EXCEPT !.pc = "idle", !.room = free],
                                                    [P EXCEPT !.pc = "idle"],
                                                    [P EXCEPT !.pc = "copy", !.n = n, !.i = 0]}
        /\ (P'.pc = "copy" => free # 0)
    <2> DEFINE next == CASE P.op = "free_space"         -> [P EXCEPT !.pc = "idle", !.room = free]
                         [] P.op = "put" /\ free = 0  -> [P EXCEPT !.pc = "idle"]
                         [] OTHER -> [P EXCEPT !.pc = "copy", !.n = n, !.i = 0]
    <2>1. prod' = [prod EXCEPT ![p] = next]
      BY <1>1, <1>3, <1>4 DEF PutTail, P, Fill
    <2>2. P' = next
      BY <1>1, <2>1, OnlyProducer DEF P, RingIInv, Types
    <2> HIDE DEF free, n
    <2>3. P.op \in {"put", "free_space"}
      BY <1>3 DEF PutCalls, PutOps
    <2>4. CASE P.op = "free_space"
      BY <1>3, <2>1, <2>2, <2>4 DEF PutCalls
    <2>5. CASE P.op = "put" /\ free = 0
      BY <1>3, <2>1, <2>2, <2>5 DEF PutCalls
    <2>6. CASE P.op = "put" /\ free # 0
      BY <1>3, <2>1, <2>2, <2>6 DEF PutCalls
    <2> QED
      BY <2>3, <2>4, <2>5, <2>6
  <1>6. free # 0 => n \in 1 .. Size /\ n <= Size - Fill
    <2>1. P.len \in 1 .. Size
      BY <1>3, SizeFacts DEF PutCalls
    <2> QED
      BY <1>3, <1>4, <2>1, SizeFacts DEF Least
  <1> HIDE DEF n
  <1>7. P' \in PutCalls
    <2>1. 0 \in 0 .. Size /\ "idle" \in Pcs /\ "copy" \in Pcs /\ (free # 0 => n \in 0 .. Size)
      BY <1>6, SizeFacts DEF Pcs
    <2> HIDE DEF free
    <2> QED
      BY <1>3, <1>4, <1>5, <2>1 DEF PutCalls
  <1>8. \/ P'.pc = "idle" /\ P'.room \in {0, free}
        \/ P'.pc = "copy" /\ P'.n = n /\ P'.i = 0 /\ P'.head = head /\ P'.len = P.len
                          /\ P'.room = 0 /\ free # 0
    <2> HIDE DEF free
    <2> QED
      BY <1>3, <1>5 DEF PutCalls
  <1>9. Types'
    <2>1. prod' \in [Producers -> PutCalls]
      BY <1>1, <1>5, <1>7 DEF RingIInv, Types
    <2> QED
      BY <1>2, <2>1 DEF RingIInv, Types
  <1>10. Passing' /\ Fill' = Fill
    BY <1>2, PassingKept DEF RingIInv
  <1>11. GetSide'
    BY <1>2, GetSideKept DEF RingIInv
  <1>12. PutSide'
    <2>1. CASE P'.pc = "idle" /\ P'.room \in {0, free}
      <3>1. P'.room <= Size - Fill /\ P'.pc = "idle"
        BY <1>3, <2>1, SizeFacts
      <3> HIDE DEF free
      <3> QED
        BY <1>10, <3>1 DEF PutSide, PutCall, Copied
    <2>2. CASE P'.pc = "copy" /\ P'.n = n /\ P'.i = 0 /\ P'.head = head /\ P'.len = P.len
                             /\ P'.room = 0 /\ free # 0
      <3>1. n \in Int /\ n >= 1 /\ n <= Size - Fill /\ 0 < n /\ 0 <= Size - Fill
        BY <1>3, <1>6, <2>2, SizeFacts
      <3>2. head' = head /\ P'.room <= Size - Fill /\ P'.len >= 1
        BY <1>2, <1>3, <2>2, <3>1
      <3>3. PutCall'
        BY <1>10, <2>2, <3>1, <3>2 DEF PutCall
      <3>4. Copied'
        BY <2>2 DEF Copied
      <3> QED
        BY <3>3, <3>4 DEF PutSide
    <2> QED
      BY <1>8, <2>1, <2>2
  <1> QED
    BY <1>9, <1>10, <1>11, <1>12 DEF RingIInv

(* The cell being written is neither in the content nor one of the cells   *)
(* already copied.                                                         *)
LEMMA PutCopyKeeps ==
  ASSUME OneProducer, RingIInv, NEW p \in Producers, PutCopy(p)
  PROVE  RingIInv'
  <1>1. p = TheProducer /\ P.pc = "copy"
    BY OnlyProducer DEF PutCopy, P
  <1>2. UNCHANGED <<head, tail, cons, published, gone>> /\ Fill' = Fill /\ Taken' = Taken
    BY DEF PutCopy, Fill, Taken
  <1>3. /\ P \in PutCalls /\ Fill \in Nat /\ Fill <= Size /\ P.head = head /\ Taken \in Nat
        /\ P.len >= 1 /\ P.room = 0 /\ P.n >= 1 /\ P.n <= Size - Fill /\ P.i < P.n
        /\ P.i \in Nat /\ P.n \in Nat /\ P.room <= Size - Fill
    BY <1>1, RingNumbers, SizeFacts DEF RingIInv, Passing, Counts, PutSide, PutCall, PutCalls
  <1> DEFINE at == Index(head + P.i)
             new == StreamByte(Taken + Fill + P.i + 1)
             pc == IF P.i + 1 = P.n THEN "store" ELSE "copy"
  <1>4. head \in Int /\ tail \in Int /\ at \in 0 .. Size - 1 /\ at = Index(tail + Fill + P.i)
    <2>1. head \in 0 .. Wrap - 1 /\ tail \in 0 .. Wrap - 1
      BY DEF RingIInv, Types
    <2>2. head \in Int /\ tail \in Int /\ P.i \in Int /\ head + P.i \in Int
      BY <1>3, <2>1, SizeFacts
    <2>3. at \in 0 .. Size - 1
      BY <2>2, IndexFacts
    <2>4. at = Index(tail + Fill + P.i)
      BY <2>1, <2>2, IndexFromTail DEF Fill
    <2> QED
      BY <2>2, <2>3, <2>4
  <1>5. buffer' = [buffer EXCEPT ![at] = new]
    <2>1. published[p] = Taken + Fill
      BY <1>1 DEF RingIInv, Passing, Counts
    <2> QED
      BY <1>1, <1>3, <2>1 DEF PutCopy, StreamByte, P
  <1>6. new \in Cell
    BY <1>3, CellFacts
  <1>7. prod' = [prod EXCEPT ![p] = P'] /\ P' = [P EXCEPT !.i = P.i + 1, !.pc = pc]
    BY <1>1, <1>3, OnlyProducer DEF PutCopy, P, PutCalls, RingIInv, Types
  <1>8. P' \in PutCalls /\ P'.i = P.i + 1 /\ P'.pc = pc /\ P'.n = P.n /\ P'.head = head
        /\ P'.room = 0 /\ P'.len = P.len
    <2>1. P.i + 1 \in 0 .. Size /\ pc \in Pcs
      BY <1>3, SizeFacts DEF Pcs
    <2> HIDE DEF pc
    <2> QED
      BY <1>3, <1>7, <2>1 DEF PutCalls
  <1>9. Types'
    <2>1. buffer' \in [0 .. Size - 1 -> Cell]
      BY <1>4, <1>5, <1>6 DEF RingIInv, Types
    <2>2. prod' \in [Producers -> PutCalls]
      BY <1>1, <1>7, <1>8 DEF RingIInv, Types
    <2> QED
      BY <1>2, <2>1, <2>2 DEF RingIInv, Types
  <1>10. Passing'
    <2>1. ASSUME NEW k \in 1 .. Fill
          PROVE  buffer'[Index(tail + k - 1)] = StreamByte(Taken + k)
      <3>1. tail + k - 1 < tail + Fill + P.i /\ tail + Fill + P.i < tail + k - 1 + Size
        BY <1>3, <1>4, SizeFacts
      <3>2. Index(tail + k - 1) # at
        BY <1>3, <1>4, <3>1, IndexFacts
      <3>3. buffer[Index(tail + k - 1)] = StreamByte(Taken + k)
        BY DEF RingIInv, Passing, Intact
      <3>4. Index(tail + k - 1) \in 0 .. Size - 1
        BY <1>4, IndexFacts
      <3> QED
        BY <1>5, <3>2, <3>3, <3>4 DEF RingIInv, Types
    <2>2. Intact'
      BY <1>2, <2>1 DEF Intact
    <2> QED
      BY <1>2, <2>2 DEF RingIInv, Passing, Counts, InOrder
  <1>11. Copied'
    <2>1. ASSUME NEW k \in 1 .. P.i + 1
          PROVE  buffer'[Index(head + k - 1)] = StreamByte(Taken + Fill + k)
      <3>1. Index(head + k - 1) \in 0 .. Size - 1
        BY <1>3, <1>4, IndexFacts
      <3>2. CASE k = P.i + 1
        <4>1. head + k - 1 = head + P.i /\ Taken + Fill + k = Taken + Fill + P.i + 1
          BY <1>3, <1>4, <3>2
        <4> QED
          BY <1>4, <1>5, <4>1 DEF RingIInv, Types
      <3>3. CASE k # P.i + 1
        <4>1. k \in 1 .. P.i /\ head + k - 1 < head + P.i /\ head + P.i < head + k - 1 + Size
          BY <1>3, <1>4, <3>3, SizeFacts
        <4>2. Index(head + k - 1) # at
          BY <1>3, <1>4, <4>1, IndexFacts
        <4>3. buffer[Index(head + k - 1)] = StreamByte(Taken + Fill + k)
          BY <1>1, <4>1 DEF RingIInv, PutSide, Copied
        <4> QED
          BY <1>5, <3>1, <4>2, <4>3 DEF RingIInv, Types
      <3> QED
        BY <3>2, <3>3
    <2> QED
      BY <1>2, <1>8, <2>1 DEF Copied
  <1>12. PutCall'
    BY <1>2, <1>3, <1>8 DEF PutCall
  <1>13. GetSide'
    BY <1>2, GetSideKept DEF RingIInv
  <1> QED
    BY <1>9, <1>10, <1>11, <1>12, <1>13 DEF RingIInv, PutSide

LEMMA PutStoreKeeps ==
  ASSUME OneProducer, RingIInv, NEW p \in Producers, PutStore(p)
  PROVE  /\ RingIInv' /\ Taken' = Taken /\ gone' = gone
         /\ Fill' = Fill + P.n /\ P.n \in 1 .. Size - Fill
  <1>1. p = TheProducer /\ P.pc = "store"
    BY OnlyProducer DEF PutStore, P
  <1>2. UNCHANGED <<tail, buffer, cons, gone>> /\ Taken' = Taken
    BY DEF PutStore, Taken
  <1>3. /\ P \in PutCalls /\ Fill \in Nat /\ Fill <= Size /\ P.head = head /\ Taken \in Nat
        /\ P.room = 0 /\ P.n \in 1 .. Size - Fill /\ P.i = P.n
        /\ published[p] = Taken + Fill /\ published[p] \in Nat
    BY <1>1, RingNumbers, SizeFacts DEF RingIInv, Passing, Counts, PutSide, PutCall, PutCalls
  <1> DEFINE n == P.n
  <1>4. head \in 0 .. Wrap - 1 /\ tail \in 0 .. Wrap - 1 /\ n \in 0 .. Size /\ n \in 1 .. Size - Fill
    BY <1>3, SizeFacts DEF RingIInv, Types
  <1>5. head' = (head + n) % Wrap
    BY <1>1, <1>3 DEF PutStore, P
  <1>6. prod' = [prod EXCEPT ![p] = P'] /\ P' = [P EXCEPT !.pc = "idle"]
    BY <1>1, <1>3, OnlyProducer DEF PutStore, P, PutCalls, RingIInv, Types
  <1>7. published' = [published EXCEPT ![p] = @ + n]
    BY <1>1 DEF PutStore, P
  <1> HIDE DEF n
  <1>8. head' \in 0 .. Wrap - 1
    BY <1>4, <1>5, WrapIs
  <1>9. Fill' = Fill + n
    <2>1. Filled(head, tail) + n <= Size
      BY <1>3, <1>4, SizeFacts DEF Fill
    <2> QED
      BY <1>2, <1>4, <1>5, <2>1, FilledMore DEF Fill
  <1>10. P' \in PutCalls /\ P'.pc = "idle" /\ P'.room = 0
    BY <1>3, <1>6 DEF PutCalls, Pcs
  <1>11. Types'
    <2>1. published[p] + n \in Nat
      BY <1>3, <1>4
    <2>2. published' \in [Producers -> Nat]
      BY <1>7, <2>1 DEF RingIInv, Types
    <2>3. prod' \in [Producers -> PutCalls]
      BY <1>6, <1>10 DEF RingIInv, Types
    <2> QED
      BY <1>2, <1>8, <2>2, <2>3 DEF RingIInv, Types
  <1>12. Intact'
    <2>1. ASSUME NEW k \in 1 .. Fill + n
          PROVE  buffer[Index(tail + k - 1)] = StreamByte(Taken + k)
      <3>1. CASE k <= Fill
        <4>1. k \in 1 .. Fill
          BY <1>3, <3>1
        <4> QED
          BY <4>1 DEF RingIInv, Passing, Intact
      <3>2. CASE k > Fill
        <4> DEFINE j == k - Fill
        <4>1. j \in 1 .. n /\ k = Fill + j
          BY <1>3, <1>4, <3>2, SizeFacts
        <4> HIDE DEF j
        <4>2. j - 1 \in Int /\ tail + Fill + (j - 1) = tail + k - 1
              /\ head + (j - 1) = head + j - 1 /\ Taken + k = Taken + Fill + j
          BY <1>3, <1>4, <4>1, SizeFacts
        <4>3. Index(head + j - 1) = Index(tail + k - 1)
          BY <1>4, <4>2, IndexFromTail DEF Fill
        <4>4. buffer[Index(head + j - 1)] = StreamByte(Taken + Fill + j)
          BY <1>1, <1>3, <4>1 DEF RingIInv, PutSide, Copied, n
        <4> QED
          BY <4>2, <4>3, <4>4
      <3> QED
        BY <1>3, <3>1, <3>2
    <2> QED
      BY <1>2, <1>9, <2>1 DEF Intact
  <1>13. Passing'
    <2>1. published'[TheProducer] = Taken + Fill + n
      BY <1>1, <1>3, <1>7 DEF RingIInv, Types
    <2>2. Fill + n <= Size /\ Taken + Fill + n = Taken + (Fill + n)
      BY <1>3, <1>4, SizeFacts
    <2>3. Counts'
      BY <1>2, <1>9, <2>1, <2>2 DEF Counts
    <2> QED
      BY <1>2, <1>12, <2>3 DEF RingIInv, Passing, InOrder
  <1>14. PutSide'
    <2>1. 0 <= Size - (Fill + n)
      BY <1>3, <1>4, SizeFacts
    <2> QED
      BY <1>9, <1>10, <2>1 DEF PutSide, PutCall, Copied
  <1>15. GetSide'
    <2>1. \A x \in Int : x <= Fill => x <= Fill + n
      BY <1>3, <1>4
    <2>2. cons.n \in Int /\ cons.avail \in Int /\ 1 \in Int
      BY SizeFacts DEF RingIInv, Types, GetCalls
    <2>3. cons.pc = "tail" => Filled(cons.head, tail) \in Int
      <3>1. cons.head \in 0 .. Wrap - 1
        BY DEF RingIInv, Types, GetCalls
      <3>2. Filled(cons.head, tail) \in 0 .. Wrap - 1
        BY <1>4, <3>1, FilledIs
      <3> QED
        BY <3>2, SizeFacts
    <2>4. GetCall'
      BY <1>2, <1>9, <2>1, <2>2, <2>3 DEF RingIInv, GetSide, GetCall
    <2>5. CopiedOut'
      BY <1>2 DEF RingIInv, GetSide, CopiedOut
    <2>6. Peeked'
      BY <1>2, <1>3, <1>4, <1>9 DEF RingIInv, GetSide, Peeked
    <2> QED
      BY <2>4, <2>5, <2>6 DEF GetSide
  <1> QED
    BY <1>2, <1>3, <1>9, <1>11, <1>13, <1>14, <1>15 DEF RingIInv, n

-----------------------------------------------------------------------------
(* The consumer's steps.                                                   *)
LEMMA GetHeadKeeps ==
  ASSUME OneProducer, RingIInv, NEW op \in GetOps, NEW len \in 1 .. Size, GetHead(op, len)
  PROVE  RingIInv'
  <1>1. UNCHANGED <<head, tail, buffer, prod, published, gone>>
    BY DEF GetHead
  <1>2. Passing' /\ PutSide' /\ Fill' = Fill
    BY <1>1, PassingKept, PutSideKept DEF RingIInv
  <1>3. cons' = [cons EXCEPT !.pc = "tail", !.op = op, !.len = len, !.head = head,
                             !.data = <<>>, !.avail = 0]
    BY DEF GetHead
  <1>4. len \in 0 .. Size /\ 0 \in 0 .. Size /\ head \in 0 .. Wrap - 1 /\ "tail" \in Pcs
        /\ <<>> \in Seq(Cell)
    BY SizeFacts DEF RingIInv, Types, Pcs
  <1>5. /\ cons' \in GetCalls /\ cons'.pc = "tail" /\ cons'.op = op /\ cons'.len = len
        /\ cons'.head = head /\ cons'.data = <<>> /\ cons'.avail = 0
    BY <1>3, <1>4 DEF RingIInv, Types, GetCalls
  <1>6. GetSide'
    <2>1. Filled(cons'.head, tail') <= Fill' /\ 0 <= Fill' /\ 0 <= Size /\ len >= 1
      BY <1>1, <1>2, <1>5, RingNumbers, SizeFacts DEF RingIInv, Fill
    <2>2. op = "peek" => len = 1
      BY DEF GetHead
    <2> QED
      BY <1>5, <2>1, <2>2 DEF GetSide, GetCall, CopiedOut, Peeked
  <1> QED
    BY <1>1, <1>2, <1>5, <1>6 DEF RingIInv, Types

LEMMA GetTailKeeps ==
  ASSUME OneProducer, RingIInv, GetTail
  PROVE  RingIInv'
  <1>1. UNCHANGED <<head, tail, buffer, prod, published, gone>> /\ cons.pc = "tail"
    BY DEF GetTail
  <1>2. Passing' /\ PutSide' /\ Fill' = Fill /\ Taken' = Taken
    BY <1>1, PassingKept, PutSideKept DEF RingIInv
  <1> DEFINE filled == Filled(cons.head, tail)
             n == Least(cons.len, filled)
  <1>3. /\ cons \in GetCalls /\ cons.avail = 0 /\ cons.len \in 1 .. Size /\ cons.data = <<>>
        /\ filled <= Fill /\ (cons.op = "peek" => cons.len = 1)
    BY <1>1, SizeFacts DEF RingIInv, Types, GetCalls, GetSide, GetCall
  <1>4. tail \in 0 .. Wrap - 1 /\ cons.head \in 0 .. Wrap - 1
    BY <1>3 DEF RingIInv, Types, GetCalls
  <1>5. filled \in 0 .. Fill /\ RingSize(cons.head, tail) = filled /\ Fill \in 0 .. Size
    <2>1. filled \in 0 .. Wrap - 1 /\ RingSize(cons.head, tail) = filled
      BY <1>4, FilledIs
    <2> QED
      BY <1>3, <2>1, RingNumbers, SizeFacts DEF RingIInv, Passing, Counts
  <1>6. filled # 0 => n \in 1 .. Size /\ n <= Fill /\ n <= cons.len
    BY <1>3, <1>5, SizeFacts DEF Least
  <1>7. \/ /\ cons' = [cons EXCEPT !.pc = "idle", !.avail = filled]
           /\ cons.op = "size"
        \/ cons' = [cons EXCEPT !.pc = "idle"]
        \/ /\ cons' = [cons EXCEPT !.pc = "store", !.tail = tail, !.n = n]
           /\ cons.op = "discard" /\ filled # 0
        \/ /\ cons' = [cons EXCEPT !.pc = "copy", !.tail = tail, !.n = n]
           /\ cons.op # "discard" /\ filled # 0
    <2>1. cons' = CASE cons.op = "size"    -> [cons EXCEPT !.pc = "idle", !.avail = filled]
                    [] cons.op # "size" /\ filled = 0 -> [cons EXCEPT !.pc = "idle"]
                    [] cons.op = "discard" /\ filled # 0 ->
                         [cons EXCEPT !.pc = "store", !.tail = tail, !.n = n]
                    [] OTHER -> [cons EXCEPT !.pc = "copy", !.tail = tail, !.n = n]
      BY <1>5 DEF GetTail
    <2> HIDE DEF filled, n
    <2>2. CASE cons.op = "size"
      BY <2>1, <2>2
    <2>3. CASE cons.op # "size" /\ filled = 0
      BY <2>1, <2>3
    <2>4. CASE cons.op = "discard" /\ filled # 0
      BY <2>1, <2>4
    <2>5. CASE cons.op # "size" /\ cons.op # "discard" /\ filled # 0
      BY <2>1, <2>5
    <2> QED
      BY <2>2, <2>3, <2>4, <2>5
  <1> HIDE DEF filled, n
  <1>8. Len(cons.data) = 0 /\ 0 <= Fill /\ 0 <= Size
    BY <1>3, <1>5, SizeFacts
  <1>9. CASE cons' = [cons EXCEPT !.pc = "idle", !.avail = filled] \/ cons' = [cons EXCEPT !.pc = "idle"]
    <2>1. filled \in 0 .. Size
      BY <1>5, SizeFacts
    <2>2. /\ cons' \in GetCalls /\ cons'.pc = "idle" /\ cons'.op = cons.op /\ cons'.len = cons.len
          /\ cons'.data = <<>> /\ cons'.avail \in {0, filled}
      BY <1>3, <1>9, <2>1 DEF GetCalls, Pcs
    <2>3. cons'.avail <= Fill
      BY <1>5, <2>2
    <2>4. GetSide'
      BY <1>2, <1>3, <1>8, <2>2, <2>3 DEF GetSide, GetCall, CopiedOut, Peeked
    <2> QED
      BY <1>1, <1>2, <2>2, <2>4 DEF RingIInv, Types
  <1>10. CASE /\ cons' = [cons EXCEPT !.pc = "store", !.tail = tail, !.n = n]
             /\ cons.op = "discard" /\ filled # 0
    <2>1. n \in 0 .. Size
      BY <1>6, <1>10, SizeFacts
    <2>2. /\ cons' \in GetCalls /\ cons'.pc = "store" /\ cons'.op = cons.op /\ cons'.len = cons.len
          /\ cons'.data = <<>> /\ cons'.avail = 0 /\ cons'.tail = tail /\ cons'.n = n
      BY <1>3, <1>4, <1>10, <2>1 DEF GetCalls, Pcs
    <2>3. n >= 1 /\ n <= Fill /\ cons.len >= 1
      BY <1>3, <1>6, <1>10, SizeFacts
    <2>4. GetCall'
      BY <1>1, <1>2, <1>8, <1>10, <2>2, <2>3 DEF GetCall
    <2>5. CopiedOut' /\ Peeked'
      BY <2>2 DEF CopiedOut, Peeked
    <2> QED
      BY <1>1, <1>2, <2>2, <2>4, <2>5 DEF RingIInv, Types, GetSide
  <1>11. CASE /\ cons' = [cons EXCEPT !.pc = "copy", !.tail = tail, !.n = n]
             /\ cons.op # "discard" /\ filled # 0
    <2>1. n \in 0 .. Size
      BY <1>6, <1>11, SizeFacts
    <2>2. /\ cons' \in GetCalls /\ cons'.pc = "copy" /\ cons'.op = cons.op /\ cons'.len = cons.len
          /\ cons'.data = <<>> /\ cons'.avail = 0 /\ cons'.tail = tail /\ cons'.n = n
      BY <1>3, <1>4, <1>11, <2>1 DEF GetCalls, Pcs
    <2>3. n >= 1 /\ n <= Fill /\ cons.len >= 1 /\ 0 < n /\ (cons.op = "peek" => n = 1)
      BY <1>3, <1>6, <1>11, SizeFacts
    <2>4. GetCall'
      BY <1>1, <1>2, <1>3, <1>8, <1>11, <2>2, <2>3 DEF GetCall
    <2>5. CopiedOut' /\ Peeked'
      BY <2>2 DEF CopiedOut, Peeked
    <2> QED
      BY <1>1, <1>2, <2>2, <2>4, <2>5 DEF RingIInv, Types, GetSide
  <1> QED
    BY <1>7, <1>9, <1>10, <1>11

LEMMA GetCopyKeeps ==
  ASSUME OneProducer, RingIInv, GetCopy
  PROVE  RingIInv'
  <1>1. UNCHANGED <<head, tail, buffer, prod, published, gone>> /\ cons.pc = "copy"
    BY DEF GetCopy
  <1>2. Passing' /\ PutSide' /\ Fill' = Fill /\ Taken' = Taken
    BY <1>1, PassingKept, PutSideKept DEF RingIInv
  <1> DEFINE got == Len(cons.data)
             cell == buffer[Index(cons.tail + got)]
             next == CASE got + 1 < cons.n -> "copy"
                       [] cons.op = "peek" -> "idle"
                       [] OTHER            -> "store"
  <1>3. /\ cons \in GetCalls /\ cons.avail = 0 /\ cons.len >= 1 /\ cons.data \in Seq(Cell)
        /\ got \in Nat /\ got < cons.n /\ cons.n \in 1 .. Size /\ cons.n <= Fill
        /\ cons.tail = tail /\ cons.op # "discard"
        /\ (cons.op = "peek" => cons.len = 1 /\ cons.n = 1)
    BY <1>1, RingNumbers, SizeFacts DEF RingIInv, Types, GetCalls, GetSide, GetCall
  <1>4. Fill \in Nat /\ Taken \in Nat /\ Fill <= Size
    BY RingNumbers DEF RingIInv, Passing, Counts
  <1>5. cell = StreamByte(Taken + got + 1) /\ cell \in Cell
    <2>1. got + 1 \in 1 .. Fill
      BY <1>3, <1>4, SizeFacts
    <2>2. buffer[Index(tail + (got + 1) - 1)] = StreamByte(Taken + (got + 1))
      BY <2>1 DEF RingIInv, Passing, Intact
    <2>3. tail \in Int
      BY SizeFacts DEF RingIInv, Types
    <2>4. tail + (got + 1) - 1 = tail + got /\ Taken + (got + 1) = Taken + got + 1
          /\ Taken + got + 1 \in Nat
      BY <1>3, <1>4, <2>3
    <2> QED
      BY <1>3, <2>2, <2>4, CellFacts
  <1> DEFINE data == Append(cons.data, cell)
  <1>6. data \in Seq(Cell) /\ Len(data) = got + 1
        /\ \A k \in 1 .. Len(data) : data[k] = StreamByte(Taken + k)
    <2> HIDE DEF cell
    <2>1. /\ data \in Seq(Cell) /\ Len(data) = got + 1 /\ data[got + 1] = cell
          /\ \A k \in 1 .. got : data[k] = cons.data[k]
      BY <1>3, <1>5, AppendProperties
    <2>2. \A k \in 1 .. got : cons.data[k] = StreamByte(Taken + k)
      BY <1>1 DEF RingIInv, GetSide, CopiedOut
    <2> HIDE DEF data, got
    <2>3. ASSUME NEW k \in 1 .. got + 1 PROVE data[k] = StreamByte(Taken + k)
      <3>1. CASE k = got + 1
        BY <1>3, <1>4, <1>5, <2>1, <3>1
      <3>2. CASE k # got + 1
        BY <1>3, <2>1, <2>2, <3>2
      <3> QED
        BY <3>1, <3>2
    <2> QED
      BY <2>1, <2>3
  <1>7. cons' = [cons EXCEPT !.data = data, !.pc = next]
    BY <1>3 DEF GetCopy
  <1>8. /\ next \in Pcs
        /\ next = "copy" => got + 1 < cons.n
        /\ next = "idle" => cons.op = "peek"
        /\ next = "store" => got + 1 = cons.n /\ cons.op # "peek"
        /\ next \in {"copy", "idle", "store"}
    BY <1>3, SizeFacts DEF Pcs
  <1> HIDE DEF data, next, got, cell
  <1>9. /\ cons' \in GetCalls /\ cons'.pc = next /\ cons'.op = cons.op /\ cons'.len = cons.len
        /\ cons'.data = data /\ cons'.avail = 0 /\ cons'.tail = tail /\ cons'.n = cons.n
    BY <1>3, <1>6, <1>7, <1>8 DEF GetCalls
  <1>10. got + 1 <= Size /\ 0 <= Fill /\ cons.n >= 1 /\ (cons.op = "peek" => got + 1 = 1)
    BY <1>3, <1>4, SizeFacts
  <1>11. GetCall'
    BY <1>1, <1>2, <1>3, <1>6, <1>8, <1>9, <1>10 DEF GetCall
  <1>12. CopiedOut'
    BY <1>2, <1>6, <1>9 DEF CopiedOut
  <1>13. Peeked'
    <2>1. cons.op = "peek" => Fill >= 1 /\ Len(data) = 1 /\ 1 \in 1 .. Len(data)
      BY <1>3, <1>4, <1>6, <1>10, SizeFacts
    <2> QED
      BY <1>2, <1>6, <1>9, <2>1 DEF Peeked
  <1> QED
    BY <1>1, <1>2, <1>9, <1>11, <1>12, <1>13 DEF RingIInv, Types, GetSide

(* The content is a stretch of the stream.                                 *)
LEMMA ContentIs ==
  ASSUME OneProducer, RingIInv
  PROVE  Content = Stretch(Taken, Fill) /\ Content \in Seq(Cell) /\ Len(Content) = Fill
  <1>1. Content = Stretch(Taken, Fill)
    BY DEF Content, Stretch, Fill, RingIInv, Passing, Intact
  <1>2. Fill \in Nat /\ Taken \in Nat
    BY RingNumbers DEF RingIInv
  <1>3. \A k \in 1 .. Fill : StreamByte(Taken + k) \in Cell
    BY <1>2, CellFacts
  <1> QED
    BY <1>1, <1>2, <1>3 DEF Stretch

(* What the consumer takes away is the beginning of the content.           *)
LEMMA GetStoreKeeps ==
  ASSUME OneProducer, RingIInv, GetStore
  PROVE  /\ RingIInv' /\ cons.n \in 1 .. Fill
         /\ gone' = gone \o SubSeq(Content, 1, cons.n)
         /\ Taken' = Taken + cons.n /\ Fill' = Fill - cons.n
  <1> DEFINE n == cons.n
             bytes == SubSeq(Content, 1, n)
  <1>1. UNCHANGED <<head, buffer, prod, published>> /\ cons.pc = "store"
    BY DEF GetStore
  <1>2. /\ cons \in GetCalls /\ cons.avail = 0 /\ cons.tail = tail /\ cons.op # "peek"
        /\ n \in 0 .. Size /\ n >= 1 /\ n <= Fill /\ cons.data \in Seq(Cell)
        /\ (cons.op # "discard" => Len(cons.data) = n) /\ Len(cons.data) <= Size
    BY <1>1, RingNumbers, SizeFacts DEF RingIInv, Types, GetCalls, GetSide, GetCall
  <1>3. Fill \in Nat /\ Taken \in Nat /\ Fill <= Size /\ n \in 1 .. Fill /\ n \in Nat
    BY <1>2, RingNumbers, SizeFacts DEF RingIInv, Passing, Counts
  <1>4. head \in 0 .. Wrap - 1 /\ tail \in 0 .. Wrap - 1
    BY DEF RingIInv, Types
  <1>5. tail' = (tail + n) % Wrap /\ tail' \in 0 .. Wrap - 1
    BY <1>2, <1>4, WrapIs DEF GetStore
  <1>6. Fill' = Fill - n
    BY <1>1, <1>2, <1>4, <1>5, FilledLess DEF Fill
  <1>7. bytes \in Seq(Cell) /\ Len(bytes) = n /\ \A k \in 1 .. n : bytes[k] = StreamByte(Taken + k)
    <2>1. \A k \in 1 .. n : Content[k] \in Cell /\ Content[k] = StreamByte(Taken + k)
      BY <1>3, ContentIs, CellFacts DEF Stretch
    <2>2. bytes \in Seq(Cell) /\ Len(bytes) = n - 1 + 1
          /\ \A k \in 1 .. n - 1 + 1 : bytes[k] = Content[1 + k - 1]
      BY <1>3, <2>1, SubSeqProperties
    <2> HIDE DEF bytes, n
    <2> QED
      BY <1>3, <2>1, <2>2
  <1>8. gone' = gone \o bytes
    <2>1. CASE cons.op = "discard"
      BY <2>1 DEF GetStore
    <2>2. CASE cons.op # "discard"
      <3>1. \A k \in 1 .. Len(cons.data) : cons.data[k] = StreamByte(Taken + k)
        BY <1>1 DEF RingIInv, GetSide, CopiedOut
      <3>2. cons.data = bytes
        <4> HIDE DEF bytes, n
        <4> QED
          BY <1>2, <1>7, <2>2, <3>1, SeqEqual
      <3> QED
        BY <2>2, <3>2 DEF GetStore
    <2> QED
      BY <2>1, <2>2
  <1>9. /\ cons' \in GetCalls /\ cons'.pc = "idle" /\ cons'.op = cons.op /\ cons'.len = cons.len
        /\ cons'.data = cons.data /\ cons'.avail = 0
    BY <1>2 DEF GetStore, GetCalls, Pcs
  <1> HIDE DEF bytes, n
  <1>10. /\ gone' \in Seq(Cell) /\ Taken' = Taken + n
         /\ \A k \in 1 .. Taken + n : gone'[k] = IF k <= Taken THEN gone[k] ELSE bytes[k - Taken]
    BY <1>7, <1>8, ConcatProperties DEF Taken, RingIInv, Types
  <1>11. Types'
    BY <1>1, <1>5, <1>9, <1>10 DEF RingIInv, Types
  <1>12. InOrder'
    <2>1. ASSUME NEW k \in 1 .. Taken + n PROVE gone'[k] = StreamByte(k)
      <3>1. CASE k <= Taken
        <4>1. k \in 1 .. Taken
          BY <1>3, <3>1
        <4> QED
          BY <1>10, <3>1, <4>1 DEF RingIInv, Passing, InOrder
      <3>2. CASE k > Taken
        <4>1. k - Taken \in 1 .. n /\ Taken + (k - Taken) = k /\ ~(k <= Taken)
          BY <1>3, <3>2
        <4>2. bytes[k - Taken] = StreamByte(k)
          BY <1>7, <4>1
        <4> QED
          BY <1>10, <4>1, <4>2
      <3> QED
        BY <1>3, <3>1, <3>2
    <2> QED
      BY <1>10, <2>1 DEF InOrder
  <1>13. Intact'
    <2>1. ASSUME NEW k \in 1 .. Fill - n
          PROVE  buffer[Index(tail' + k - 1)] = StreamByte(Taken + n + k)
      <3>1. n + k \in 1 .. Fill /\ k - 1 \in Int
        BY <1>3
      <3>2. buffer[Index(tail + (n + k) - 1)] = StreamByte(Taken + (n + k))
        BY <3>1 DEF RingIInv, Passing, Intact
      <3>3. Index(tail' + (k - 1)) = Index(tail + n + (k - 1))
        BY <1>2, <1>4, <1>5, <3>1, IndexAfterWrap
      <3>4. /\ tail' + (k - 1) = tail' + k - 1 /\ tail + n + (k - 1) = tail + (n + k) - 1
            /\ Taken + (n + k) = Taken + n + k
        BY <1>3, <1>4, <1>5, SizeFacts
      <3> QED
        BY <3>2, <3>3, <3>4
    <2> QED
      BY <1>1, <1>6, <1>10, <2>1 DEF Intact
  <1>14. Counts'
    <2>1. Fill - n <= Size /\ Taken + Fill = (Taken + n) + (Fill - n)
      BY <1>3, SizeFacts
    <2> QED
      BY <1>1, <1>6, <1>10, <2>1 DEF Counts, RingIInv, Passing
  <1>15. PutSide'
    <2>1. P' = P /\ P \in PutCalls
      BY <1>1, RingNumbers DEF P, RingIInv
    <2>2. \A x \in Int : x <= Size - Fill => x <= Size - (Fill - n)
      BY <1>3, SizeFacts
    <2>3. P.n \in Int /\ P.room \in Int /\ P.i \in Int
      BY <2>1, SizeFacts DEF PutCalls
    <2>4. PutCall'
      BY <1>1, <1>6, <2>1, <2>2, <2>3 DEF RingIInv, PutSide, PutCall
    <2>5. Taken' + Fill' = Taken + Fill
      BY <1>3, <1>6, <1>10
    <2>6. Copied'
      BY <1>1, <2>1, <2>5 DEF RingIInv, PutSide, Copied
    <2> QED
      BY <2>4, <2>6 DEF PutSide
  <1>16. GetSide'
    <2>1. 0 <= Fill - n
      BY <1>3
    <2>2. GetCall'
      BY <1>2, <1>6, <1>9, <2>1 DEF GetCall
    <2>3. CopiedOut' /\ Peeked'
      BY <1>2, <1>9 DEF CopiedOut, Peeked
    <2> QED
      BY <2>2, <2>3 DEF GetSide
  <1>17. RingIInv'
    BY <1>11, <1>12, <1>13, <1>14, <1>15, <1>16 DEF RingIInv, Passing
  <1> QED
    BY <1>3, <1>6, <1>8, <1>10, <1>17 DEF bytes, n

-----------------------------------------------------------------------------
LEMMA Inductive == OneProducer /\ RingIInv /\ [RingNext]_ringVars => RingIInv'
  <1> SUFFICES ASSUME OneProducer, RingIInv, [RingNext]_ringVars PROVE RingIInv'
    OBVIOUS
  <1>1. ASSUME NEW p \in Producers, Put(p) PROVE RingIInv'
    BY <1>1, PutHeadKeeps, PutTailKeeps, PutCopyKeeps, PutStoreKeeps DEF Put
  <1>2. CASE Get
    BY <1>2, GetHeadKeeps, GetTailKeeps, GetCopyKeeps, GetStoreKeeps DEF Get, GetStep
  <1>3. CASE UNCHANGED ringVars
    <2>1. UNCHANGED <<head, tail, buffer, prod, cons, published, gone>>
      BY <1>3 DEF ringVars
    <2>2. Types'
      BY <2>1 DEF RingIInv, Types
    <2> QED
      BY <2>1, <2>2, PassingKept, PutSideKept, GetSideKept DEF RingIInv
  <1> QED
    BY <1>1, <1>2, <1>3 DEF RingNext

THEOREM RingInvariance == OneProducer => (RingSpec => []RingIInv)
  <1> SUFFICES ASSUME OneProducer PROVE RingSpec => []RingIInv
    OBVIOUS
  <1>1. RingInit => RingIInv
    BY RingInitIInv
  <1>2. RingIInv /\ [RingNext]_ringVars => RingIInv'
    BY Inductive
  <1> QED
    BY <1>1, <1>2, PTL DEF RingSpec

LEMMA IInvAnswers ==
  ASSUME OneProducer, RingIInv
  PROVE  AnswersStayTrue
  <1>1. RingTypeOK
    <2>1. \A x \in Cell : x = NoByte \/ x.by \in Producers
      BY DEF Cell, Byte
    <2>2. \A i \in 0 .. Size - 1 : buffer[i] = NoByte \/ buffer[i].by \in Producers
      BY <2>1 DEF RingIInv, Types
    <2>3. \A p \in Producers : /\ prod[p].pc \in {"idle", "tail", "copy", "store"}
                              /\ prod[p].n \in 0 .. Size /\ prod[p].i \in 0 .. Size
                              /\ published[p] \in Nat
      BY DEF RingIInv, Types, PutCalls, Pcs
    <2>4. /\ cons.pc \in {"idle", "tail", "copy", "store"}
          /\ cons.n \in 0 .. Size /\ Len(cons.data) <= Size
      BY DEF RingIInv, Types, GetCalls, Pcs, GetSide, GetCall
    <2>5. Filled(head, tail) <= Size
      BY DEF RingIInv, Passing, Counts, Fill
    <2> QED
      BY <2>2, <2>3, <2>4, <2>5 DEF RingTypeOK, RingIInv, Types
  <1>2. ASSUME NEW p \in Producers PROVE prod[p].room <= Size - Filled(head, tail)
    BY OnlyProducer DEF RingIInv, PutSide, PutCall, P, Fill
  <1>3. cons.avail <= Filled(head, tail)
    BY DEF RingIInv, GetSide, GetCall, Fill
  <1>4. ASSUME cons.op = "peek", cons.pc = "idle", cons.data # <<>>
        PROVE  cons.data = SubSeq(Content, 1, 1)
    <2>1. Fill \in Nat /\ Fill >= 1 /\ Len(cons.data) = 1 /\ cons.data \in Seq(Cell)
          /\ cons.data[1] = StreamByte(Taken + 1)
      BY <1>4, RingNumbers DEF RingIInv, GetSide, Peeked
    <2>2. 1 \in 1 .. Fill
      BY <2>1
    <2>3. Content[1] = StreamByte(Taken + 1) /\ Content[1] \in Cell
      BY <2>2, ContentIs, CellFacts, RingNumbers DEF Stretch, RingIInv
    <2>4. SubSeq(Content, 1, 1) \in Seq(Cell) /\ Len(SubSeq(Content, 1, 1)) = 1
          /\ SubSeq(Content, 1, 1)[1] = Content[1]
      <3>1. \A i \in 1 .. 1 : Content[i] \in Cell
        BY <2>3
      <3>2. 1 - 1 + 1 = 1 /\ 1 + 1 - 1 = 1 /\ 1 \in 1 .. 1
        OBVIOUS
      <3> QED
        BY <3>1, <3>2, SubSeqProperties
    <2>5. \A i \in 1 .. 1 : cons.data[i] = SubSeq(Content, 1, 1)[i]
      BY <2>1, <2>3, <2>4
    <2> QED
      BY <2>1, <2>4, <2>5, SeqEqual
  <1> QED
    BY <1>1, <1>2, <1>3, <1>4 DEF AnswersStayTrue

(* ring_buffer_free_space, _size and _peek: what they answered stays a     *)
(* safe promise until the asker's next call.                               *)
THEOREM AnswersKept == OneProducer => (RingSpec => []AnswersStayTrue)
  <1> SUFFICES ASSUME OneProducer PROVE RingSpec => []AnswersStayTrue
    OBVIOUS
  <1>1. RingIInv => AnswersStayTrue
    BY IInvAnswers
  <1>2. RingSpec => []RingIInv
    BY RingInvariance
  <1> QED
    BY <1>1, <1>2, PTL

(* The bytes that left the ring are the producer's first, in order.        *)
THEOREM BytesLeaveInOrder == OneProducer => (RingSpec => []InOrder)
  <1> SUFFICES ASSUME OneProducer PROVE RingSpec => []InOrder
    OBVIOUS
  <1>1. RingIInv => InOrder
    BY DEF RingIInv, Passing
  <1>2. RingSpec => []RingIInv
    BY RingInvariance
  <1> QED
    BY <1>1, <1>2, PTL

-----------------------------------------------------------------------------
(* The refinement: storing head is a chunk put, storing tail a chunk       *)
(* taken; every other step leaves the stream alone.                        *)

(* The content after a step is a stretch as well.                          *)
LEMMA NextContentIs == OneProducer => (RingIInv' => Content' = Stretch(Taken', Fill'))
  <1> SUFFICES ASSUME OneProducer PROVE RingIInv' => Content' = Stretch(Taken', Fill')
    OBVIOUS
  <1>1. RingIInv => Content = Stretch(Taken, Fill)
    BY ContentIs
  <1>2. (RingIInv => Content = Stretch(Taken, Fill))'
    BY <1>1, PTL
  <1> QED
    BY <1>2 DEF Stretch

LEMMA StreamInit ==
  ASSUME OneProducer, RingInit
  PROVE  Stream!SInit
  <1>1. Content = Stretch(Taken, Fill) /\ gone = <<>> /\ Fill = 0
    BY RingInitIInv, ContentIs, FilledIs, SizeFacts DEF RingInit, Fill
  <1>2. Content = <<>>
    BY <1>1 DEF Stretch
  <1> QED
    BY <1>1, <1>2 DEF Stream!SInit

LEMMA PutIsPutChunk ==
  ASSUME OneProducer, RingIInv, NEW p \in Producers, PutStore(p)
  PROVE  Stream!PutChunk
  <1> DEFINE n == P.n
             more == [k \in 1 .. n |-> StreamByte(Taken + Fill + k)]
  <1>1. /\ n \in 1 .. Size - Fill /\ Fill' = Fill + n /\ Taken' = Taken /\ gone' = gone
        /\ Content = Stretch(Taken, Fill) /\ Content' = Stretch(Taken, Fill + n)
        /\ Fill \in Nat /\ Taken \in Nat /\ n \in Nat /\ Fill <= Size
    <2>1. RingIInv' /\ Taken' = Taken /\ gone' = gone /\ Fill' = Fill + n /\ n \in 1 .. Size - Fill
      BY PutStoreKeeps
    <2>2. Content' = Stretch(Taken', Fill')
      BY <2>1, NextContentIs
    <2>3. Fill \in Nat /\ Taken \in Nat /\ Fill <= Size
      BY RingNumbers DEF RingIInv, Passing, Counts
    <2> QED
      BY <2>1, <2>2, <2>3, ContentIs, SizeFacts
  <1> HIDE DEF n
  <1>2. /\ Content \in Seq(Cell) /\ Len(Content) = Fill
        /\ \A k \in 1 .. Fill : Content[k] = StreamByte(Taken + k)
    BY <1>1, ContentIs DEF Stretch
  <1>3. /\ Content' \in Seq(Cell) /\ Len(Content') = Fill + n
        /\ \A k \in 1 .. Fill + n : Content'[k] = StreamByte(Taken + k)
    <2>1. \A k \in 1 .. Fill + n : StreamByte(Taken + k) \in Cell
      BY <1>1, CellFacts
    <2> QED
      BY <1>1, <2>1 DEF Stretch
  <1>4. more \in Seq(Cell) /\ Len(more) = n /\ \A k \in 1 .. n : more[k] = StreamByte(Taken + Fill + k)
    <2>1. \A k \in 1 .. n : StreamByte(Taken + Fill + k) \in Cell
      BY <1>1, CellFacts
    <2> QED
      BY <1>1, <2>1
  <1> HIDE DEF more
  <1>5. /\ Content \o more \in Seq(Cell) /\ Len(Content \o more) = Fill + n
        /\ \A k \in 1 .. Fill + n :
              (Content \o more)[k] = IF k <= Fill THEN Content[k] ELSE more[k - Fill]
    BY <1>2, <1>4, ConcatProperties
  <1>6. ASSUME NEW k \in 1 .. Fill + n PROVE (Content \o more)[k] = Content'[k]
    <2>1. CASE k <= Fill
      <3>1. k \in 1 .. Fill
        BY <1>1, <2>1
      <3>2. Content'[k] = StreamByte(Taken + k) /\ Content[k] = StreamByte(Taken + k)
        BY <1>2, <1>3, <3>1
      <3>3. (Content \o more)[k] = Content[k]
        BY <1>5, <2>1
      <3> QED
        BY <3>2, <3>3
    <2>2. CASE k > Fill
      <3>1. k - Fill \in 1 .. n /\ ~(k <= Fill) /\ Taken + Fill + (k - Fill) = Taken + k
        BY <1>1, <2>2
      <3>2. more[k - Fill] = StreamByte(Taken + k)
        BY <1>4, <3>1
      <3>3. (Content \o more)[k] = more[k - Fill]
        BY <1>5, <3>1
      <3>4. Content'[k] = StreamByte(Taken + k)
        BY <1>3
      <3> QED
        BY <3>2, <3>3, <3>4
    <2>3. k <= Fill \/ k > Fill
      BY <1>1
    <2> QED
      BY <2>1, <2>2, <2>3
  <1>7. Content' = Content \o more
    BY <1>3, <1>5, <1>6, SeqEqual
  <1>8. n \in 1 .. Size - Len(Content) /\ Content' = Content \o [k \in 1 .. n |->
                                             StreamByte((Len(gone) + Len(Content)) + k)]
    BY <1>1, <1>2, <1>7 DEF more, Taken
  <1> QED
    BY <1>1, <1>8 DEF Stream!PutChunk

LEMMA GetIsTakeChunk ==
  ASSUME OneProducer, RingIInv, GetStore
  PROVE  Stream!TakeChunk
  <1> DEFINE n == cons.n
             rest == SubSeq(Content, n + 1, Len(Content))
  <1>1. /\ n \in 1 .. Fill /\ Fill' = Fill - n /\ Taken' = Taken + n
        /\ gone' = gone \o SubSeq(Content, 1, n)
        /\ Content = Stretch(Taken, Fill) /\ Content' = Stretch(Taken + n, Fill - n)
        /\ Fill \in Nat /\ Taken \in Nat
    <2>1. RingIInv' /\ n \in 1 .. Fill /\ Fill' = Fill - n /\ Taken' = Taken + n
          /\ gone' = gone \o SubSeq(Content, 1, n)
      BY GetStoreKeeps
    <2>2. Content' = Stretch(Taken', Fill')
      BY <2>1, NextContentIs
    <2>3. Fill \in Nat /\ Taken \in Nat
      BY RingNumbers DEF RingIInv
    <2> QED
      BY <2>1, <2>2, <2>3, ContentIs
  <1> HIDE DEF n
  <1>2. /\ Content \in Seq(Cell) /\ Len(Content) = Fill
        /\ \A k \in 1 .. Fill : Content[k] = StreamByte(Taken + k)
    BY <1>1, ContentIs DEF Stretch
  <1>3. /\ Content' \in Seq(Cell) /\ Len(Content') = Fill - n
        /\ \A k \in 1 .. Fill - n : Content'[k] = StreamByte(Taken + n + k)
    <2>1. \A k \in 1 .. Fill - n : StreamByte(Taken + n + k) \in Cell
      BY <1>1, CellFacts
    <2> QED
      BY <1>1, <2>1 DEF Stretch
  <1>4. /\ rest \in Seq(Cell) /\ Len(rest) = Fill - n
        /\ \A k \in 1 .. Fill - n : rest[k] = Content[n + k]
    <2>1. \A k \in n + 1 .. Fill : Content[k] \in Cell
      BY <1>1, <1>2, CellFacts
    <2>2. /\ rest \in Seq(Cell)
          /\ Len(rest) = IF n + 1 <= Fill THEN Fill - (n + 1) + 1 ELSE 0
          /\ \A k \in 1 .. Fill - (n + 1) + 1 : rest[k] = Content[(n + 1) + k - 1]
      BY <1>1, <1>2, <2>1, SubSeqProperties
    <2> HIDE DEF rest
    <2>3. Fill - (n + 1) + 1 = Fill - n /\ (n + 1 <= Fill \/ Fill - n = 0)
      BY <1>1
    <2>4. Len(rest) = Fill - n
      BY <2>2, <2>3
    <2>5. ASSUME NEW k \in 1 .. Fill - n PROVE rest[k] = Content[n + k]
      <3>1. (n + 1) + k - 1 = n + k
        BY <1>1
      <3> QED
        BY <2>2, <2>3, <3>1
    <2> QED
      BY <2>2, <2>4, <2>5
  <1> HIDE DEF rest
  <1>5. ASSUME NEW k \in 1 .. Fill - n PROVE rest[k] = Content'[k]
    <2>1. n + k \in 1 .. Fill /\ Taken + (n + k) = Taken + n + k
      BY <1>1
    <2> QED
      BY <1>2, <1>3, <1>4, <2>1
  <1>6. Content' = rest
    BY <1>3, <1>4, <1>5, SeqEqual
  <1>7. n \in 1 .. Len(Content) /\ Content' = SubSeq(Content, n + 1, Len(Content))
    BY <1>1, <1>2, <1>6 DEF rest
  <1> QED
    BY <1>1, <1>7 DEF Stream!TakeChunk

LEMMA StreamStep ==
  ASSUME OneProducer, RingIInv, RingIInv', [RingNext]_ringVars
  PROVE  [Stream!SNext]_<<Content, gone>>
  <1>1. ASSUME UNCHANGED <<head, tail, gone>>
        PROVE  UNCHANGED <<Content, gone>>
    <2>1. Content = Stretch(Taken, Fill) /\ Content' = Stretch(Taken', Fill')
      BY ContentIs, NextContentIs
    <2>2. Taken' = Taken /\ Fill' = Fill
      BY <1>1 DEF Taken, Fill
    <2> QED
      BY <1>1, <2>1, <2>2
  <1>2. ASSUME NEW p \in Producers, Put(p)
        PROVE  [Stream!SNext]_<<Content, gone>>
    <2>1. CASE PutStore(p)
      BY <2>1, PutIsPutChunk DEF Stream!SNext
    <2>2. CASE \/ \E op \in PutOps, len \in 1 .. Size : PutHead(p, op, len)
               \/ PutTail(p) \/ PutCopy(p)
      BY <1>1, <2>2 DEF PutHead, PutTail, PutCopy
    <2> QED
      BY <1>2, <2>1, <2>2 DEF Put
  <1>3. CASE Get
    <2>1. CASE GetStore
      BY <2>1, GetIsTakeChunk DEF Stream!SNext
    <2>2. CASE \/ \E op \in GetOps, len \in 1 .. Size : GetHead(op, len)
               \/ GetTail \/ GetCopy
      BY <1>1, <2>2 DEF GetHead, GetTail, GetCopy
    <2> QED
      BY <1>3, <2>1, <2>2 DEF Get, GetStep
  <1>4. CASE UNCHANGED ringVars
    BY <1>1, <1>4 DEF ringVars
  <1> QED
    BY <1>2, <1>3, <1>4 DEF RingNext

(* The ring implements a stream of bytes: whatever the interleaving of the *)
(* copies, and when head and tail wrap, bytes leave whole and in order,    *)
(* none lost, repeated or read too early.                                  *)
THEOREM RingIsStream == OneProducer => (RingSpec => ImplementsStream)
  <1> SUFFICES ASSUME OneProducer PROVE RingSpec => ImplementsStream
    OBVIOUS
  <1>1. RingInit => Stream!SInit
    BY StreamInit
  <1>2. RingIInv /\ RingIInv' /\ [RingNext]_ringVars => [Stream!SNext]_<<Content, gone>>
    BY StreamStep
  <1>3. RingSpec => []RingIInv
    BY RingInvariance
  <1>4. RingSpec => Stream!SInit /\ [][Stream!SNext]_<<Content, gone>>
    BY <1>1, <1>2, <1>3, PTL DEF RingSpec
  <1> QED
    BY <1>4 DEF ImplementsStream, Stream!SSpec, Stream!svars
=============================================================================

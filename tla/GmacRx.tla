------------------------------- MODULE GmacRx -------------------------------
(***************************************************************************)
(* The receiving half of the A53's Ethernet: the ring of buffer            *)
(* descriptors that the GMAC fills, its interrupt (gmacps_recv_handler),   *)
(* the queue between interrupt and task (fmsh_pqueue.c) and the task that  *)
(* gives the frames to lwIP (fmsh_gmacpsif_input).                         *)
(*                                                                         *)
(* The interrupt and the tasks share core 0: the interrupt is one step,    *)
(* which falls between any two steps of the task.  A pass of the           *)
(* interrupt's loop is an interrupt of its own.  A frame is its number, in *)
(* the order of arrival.  Once a buffer is in two places, or in none, what *)
(* the program does is undefined and the model stops.                      *)
(***************************************************************************)
EXTENDS Integers, Sequences, FiniteSets

CONSTANTS Ring,        (* FLWIP_CONFIG_N_RX_DESC, 512                      *)
          QueueSize,   (* PQ_QUEUE_SIZE, 4096                              *)
          PoolSize,    (* the pbufs of lwIP's pool                         *)
          MaxFrames    (* bound: frames that arrive                        *)

ASSUME SizesAssumption == /\ {Ring, QueueSize, MaxFrames} \subseteq Nat \ {0}
                          /\ PoolSize \in Nat /\ PoolSize >= Ring

Pbufs == 1 .. PoolSize
Bds == 0 .. Ring - 1
Frames == 0 .. MaxFrames          (* 0: nothing was ever received in it    *)

VARIABLES
  pool,                           (* pbufs that pbuf_alloc may give        *)
  content,                        (* the frame in each pbuf                *)
  slot,                           (* rx_pbufs_storage                      *)
  new,                            (* FGMACPS_RXBUF_NEW_MASK of each BD     *)
  hwHead, hwCnt, freeHead, freeCnt,   (* FGmacPs_BdRing                    *)
  arrived, dma,                   (* frames stored; the BD filled next     *)
  irq,                            (* FGMACPS_IXR_FRAMERX_MASK              *)
  data, head, tail, len,          (* pq_queue_t                            *)
  sem,                            (* sem_rx_data_available, binary         *)
  task,                           (* the task's place and local variables  *)
  stack,                          (* pbufs that lwIP or a user holds       *)
  backlog,                        (* history: frames queued and not taken  *)
  last,                           (* history: the last frame given to lwIP *)
  uncounted,                      (* history: increments of len lost       *)
  starved, brimmed                (* history: an allocation failed; a slot *)
                                  (* of the queue was used while in use    *)

hardware == <<content, new, arrived, dma>>
ring     == <<slot, hwHead, hwCnt, freeHead, freeCnt>>
queue    == <<data, head, tail, len>>
history  == <<backlog, last, uncounted, starved, brimmed>>
vars == <<pool, hardware, ring, irq, queue, sem, task, stack, history>>

Ahead(bd, n) == (bd + n) % Ring                  (* FGMACPS_RING_SEEKAHEAD *)
Least(a, b) == IF a < b THEN a ELSE b

(* init_dma's receive part: every BD has a pbuf and is with the GMAC.      *)
Init ==
  /\ pool = Ring + 1 .. PoolSize
  /\ content = [b \in Pbufs |-> 0]
  /\ slot = [i \in Bds |-> i + 1] /\ new = [i \in Bds |-> FALSE]
  /\ hwHead = 0 /\ hwCnt = Ring /\ freeHead = 0 /\ freeCnt = 0
  /\ arrived = 0 /\ dma = 0 /\ irq = FALSE
  /\ data = [i \in 0 .. QueueSize - 1 |-> 0] /\ head = 0 /\ tail = 0 /\ len = 0
  /\ sem = FALSE
  /\ task = [pc |-> "wait", n |-> 0, r |-> 0, ptail |-> 0, p |-> 0]
  /\ stack = {}
  /\ backlog = <<>> /\ last = 0 /\ uncounted = 0 /\ starved = FALSE /\ brimmed = FALSE

(* Where each pbuf is.  The slots of free BDs keep stale pointers.         *)
InRing  == {slot[Ahead(hwHead, k)] : k \in 0 .. hwCnt - 1}
InQueue == {data[(tail + k) % QueueSize] : k \in 0 .. Len(backlog) - 1}
InTask  == CASE task.pc = "take"  -> {data[task.ptail]}
             [] task.pc = "input" -> {task.p}
             [] OTHER             -> {}

(* Every pbuf is in exactly one place.                                     *)
Sound ==
  /\ hwCnt \in 0 .. Ring            (* a u32: it goes below 0 by wrapping   *)
  /\ pool \cup InRing \cup InQueue \cup InTask \cup stack = Pbufs
  /\ Cardinality(pool) + hwCnt + Len(backlog) + Cardinality(InTask) + Cardinality(stack) = PoolSize

-----------------------------------------------------------------------------
(* The GMAC stores the next frame; it stops at a BD whose NEW bit is set.  *)
Receive ==
  /\ arrived < MaxFrames /\ ~new[dma]
  /\ arrived' = arrived + 1
  /\ content' = [content EXCEPT ![slot[dma]] = arrived + 1]
  /\ new' = [new EXCEPT ![dma] = TRUE]
  /\ dma' = Ahead(dma, 1)
  /\ irq' = TRUE
  /\ UNCHANGED <<pool, ring, queue, sem, task, stack, history>>

(* FGmacPs_BdRingFromHwRx: the BDs from hwHead on whose NEW bit is set,    *)
(* not limited by hwCnt: past the BDs of the GMAC the bits of free BDs     *)
(* count too.                                                              *)
Processed ==
  IF hwCnt = 0 THEN 0
  ELSE CHOOSE n \in 0 .. Ring : /\ \A k \in 0 .. n - 1 : new[Ahead(hwHead, k)]
                                /\ n = Ring \/ ~new[Ahead(hwHead, n)]

(* The pbufs of the processed BDs, in the order of the ring.               *)
Taken(done) == [k \in 1 .. done |-> slot[Ahead(hwHead, k - 1)]]

(* pbuf_alloc, n times: which pbufs it gives, of those it may, is lwIP's.  *)
Alloc(spare, n) ==
  CHOOSE f \in [1 .. n -> spare] : \A j, k \in 1 .. n : f[j] = f[k] => j = k

(* Mutant: a frame that finds the queue full is not freed.                 *)
ForgottenWhenFull(bufs, kept) == {}

(* The frames that find the queue full are freed.                          *)
FreedWhenFull(bufs, kept) == {bufs[k] : k \in kept + 1 .. Len(bufs)}

(* Mutant: the task is woken only when the queue was empty.                *)
SignalIfEmpty(kept) == sem' = (sem \/ (len = 0 /\ kept > 0))

Signal(kept) == sem' = TRUE

(* Mutant: frames that were not queued are counted.                        *)
CountAll(done, kept) == (len + done) % (QueueSize + 1)

Counted(done, kept) == len + kept

(* gmacps_recv_handler, one pass, with pq_enqueue, FGmacPs_BdRingFree and  *)
(* setup_rx_bds, which gives a pbuf to every free BD while there is one.   *)
RecvHandler ==
  LET done   == Processed
      bufs   == Taken(done)
      kept   == Least(done, QueueSize - len)
      spare  == pool \cup FreedWhenFull(bufs, kept)
      free   == freeCnt + done
      filled == IF done = 0 THEN 0 ELSE Least(free, Cardinality(spare))
      fresh  == Alloc(spare, filled)
      FreshOf(bd) == {k \in 1 .. filled : Ahead(freeHead, k - 1) = bd}
      QueuedIn(i) == {k \in 1 .. kept : (head + k - 1) % QueueSize = i}
      queued == {(head + k - 1) % QueueSize : k \in 1 .. kept}
      busy   == IF task.pc = "take" THEN 1 ELSE 0
  IN /\ irq /\ irq' = FALSE
     /\ data' = [i \in DOMAIN data |-> IF QueuedIn(i) = {} THEN data[i]
                                       ELSE bufs[CHOOSE k \in QueuedIn(i) : TRUE]]
     /\ head' = (head + kept) % QueueSize
     /\ len' = Counted(done, kept)
     /\ pool' = spare \ {fresh[k] : k \in 1 .. filled}
     /\ slot' = [i \in Bds |-> IF FreshOf(i) = {} THEN slot[i]
                               ELSE fresh[CHOOSE k \in FreshOf(i) : \A j \in FreshOf(i) : j <= k]]
     /\ new' = [i \in Bds |-> new[i] /\ FreshOf(i) = {}]
     /\ hwHead' = Ahead(hwHead, done)
     /\ hwCnt' = hwCnt - done + filled
     /\ freeHead' = Ahead(freeHead, filled)
     /\ freeCnt' = free - filled
     /\ Signal(kept)
     /\ backlog' = backlog \o [k \in 1 .. kept |-> content[bufs[k]]]
     /\ starved' = (starved \/ (done > 0 /\ filled < free))
     /\ brimmed' = (brimmed \/ Len(backlog) + busy + kept > QueueSize)
     /\ UNCHANGED <<content, arrived, dma, tail, task, stack, last, uncounted>>

-----------------------------------------------------------------------------
(* The task: sys_sem_wait, then fmsh_gmacpsif_input.                       *)
Wait ==
  /\ task.pc = "wait" /\ sem
  /\ sem' = FALSE
  /\ task' = [task EXCEPT !.pc = "length"]
  /\ UNCHANGED <<pool, hardware, ring, irq, queue, stack, history>>

Length ==
  /\ task.pc = "length"
  /\ task' = [task EXCEPT !.pc = "next", !.n = len]
  /\ UNCHANGED <<pool, hardware, ring, irq, queue, sem, stack, history>>

(* The loop's test, low_level_input's and the load of len in pq_dequeue.   *)
LowLevelInput ==
  /\ task.pc = "next"
  /\ task' = IF task.n = 0 \/ len = 0 THEN [task EXCEPT !.pc = "wait", !.n = 0, !.r = 0]
             ELSE [task EXCEPT !.pc = "store", !.n = @ - 1, !.r = len]
  /\ UNCHANGED <<pool, hardware, ring, irq, queue, sem, stack, history>>

(* pq_dequeue moves tail and stores the decremented len: what the          *)
(* interrupt has added since the load is lost.                             *)
Store ==
  /\ task.pc = "store"
  /\ tail' = (tail + 1) % QueueSize
  /\ len' = task.r - 1
  /\ task' = [task EXCEPT !.pc = "take", !.ptail = tail, !.r = 0]
  /\ backlog' = Tail(backlog)
  /\ uncounted' = uncounted + (len - task.r)
  /\ UNCHANGED <<pool, hardware, ring, irq, data, head, sem, stack, last, starved, brimmed>>

(* ... and reads the slot that it has given back already.                  *)
Take ==
  /\ task.pc = "take"
  /\ task' = [task EXCEPT !.pc = "input", !.p = data[task.ptail], !.ptail = 0]
  /\ UNCHANGED <<pool, hardware, ring, irq, queue, sem, stack, history>>

(* netif->input: lwIP takes an IP or ARP frame; when it cannot, and when   *)
(* the frame is of another type, it is freed.                              *)
Input(accepted) ==
  /\ task.pc = "input"
  /\ stack' = IF accepted THEN stack \cup {task.p} ELSE stack
  /\ pool' = IF accepted THEN pool ELSE pool \cup {task.p}
  /\ task' = [task EXCEPT !.pc = "next", !.p = 0]
  /\ last' = content[task.p]
  /\ UNCHANGED <<hardware, ring, irq, queue, sem, backlog, uncounted, starved, brimmed>>

(* Mutant: a pbuf that is freed goes to the ring when that is empty.       *)
FreeRefills(b) ==
  /\ b \in stack
  /\ stack' = stack \ {b}
  /\ IF hwCnt # 0 THEN pool' = pool \cup {b} /\ UNCHANGED <<ring, new>>
     ELSE /\ hwCnt' = 1 /\ freeCnt' = freeCnt - 1 /\ freeHead' = Ahead(freeHead, 1)
          /\ slot' = [slot EXCEPT ![freeHead] = b] /\ new' = [new EXCEPT ![freeHead] = FALSE]
          /\ UNCHANGED <<pool, hwHead>>
  /\ UNCHANGED <<content, arrived, dma, irq, queue, sem, task, history>>

(* lwIP or its user is done with a frame.                                  *)
Free(b) ==
  /\ b \in stack
  /\ stack' = stack \ {b}
  /\ pool' = pool \cup {b}
  /\ UNCHANGED <<hardware, ring, irq, queue, sem, task, history>>

-----------------------------------------------------------------------------
Task == Wait \/ Length \/ LowLevelInput \/ Store \/ Take \/ \E a \in BOOLEAN : Input(a)

Next == Sound /\ (Receive \/ RecvHandler \/ Task \/ \E b \in stack : Free(b))

(* The task and the interrupt run when they can; what arrives, and when    *)
(* lwIP lets go of a frame, is up to others.                               *)
Spec == Init /\ [][Next]_vars /\ WF_vars(Sound /\ RecvHandler) /\ WF_vars(Sound /\ Task)

-----------------------------------------------------------------------------
TypeOK ==
  /\ pool \subseteq Pbufs /\ stack \subseteq Pbufs
  /\ content \in [Pbufs -> 0 .. MaxFrames] /\ slot \in [Bds -> Pbufs] /\ new \in [Bds -> BOOLEAN]
  /\ {hwHead, freeHead, dma} \subseteq Bds
  /\ Sound => /\ freeCnt = Ring - hwCnt
              /\ freeHead = Ahead(hwHead, hwCnt)
  /\ arrived \in 0 .. MaxFrames /\ irq \in BOOLEAN /\ sem \in BOOLEAN
  /\ data \in [0 .. QueueSize - 1 -> 0 .. PoolSize]
  /\ {head, tail} \subseteq 0 .. QueueSize - 1 /\ len \in 0 .. QueueSize
  /\ task \in [pc : {"wait", "length", "next", "store", "take", "input"},
               n : 0 .. QueueSize, r : 0 .. QueueSize, ptail : 0 .. QueueSize - 1, p : 0 .. PoolSize]
  /\ last \in 0 .. MaxFrames /\ uncounted \in Nat /\ {starved, brimmed} \subseteq BOOLEAN

(* A pbuf is never lost and never in two hands (the pool, the ring, the    *)
(* queue, the task, lwIP), as long as no allocation of the interrupt has   *)
(* failed and no slot of the queue was used again too early.  Without the  *)
(* conditions it does not hold: setup_rx_bds leaves the NEW bit of the BDs *)
(* it cannot fill, FGmacPs_BdRingFromHwRx takes them for received frames;  *)
(* pq_dequeue gives its slot back before it has read it.  On the same      *)
(* conditions the frames reach lwIP in the order of their arrival, none    *)
(* twice.                                                                  *)
OwnedOnce ==
  ~starved /\ ~brimmed => Sound /\ (task.pc = "input" => content[task.p] > last)

(* The queue's length falls behind its content by exactly the frames that  *)
(* the interrupt queued between a load and a store of pq_dequeue, and      *)
(* never runs ahead: the task takes no empty slot.                         *)
CountTrails == TypeOK /\ (Sound => Len(backlog) = len + uncounted)

(* However interrupts and task interleave, the task drains the queue when  *)
(* the frames stop, down to the frames that were not counted: those wait   *)
(* for a later frame, one each, for ever.                                  *)
OnlyUncountedWait == <>[](~Sound \/ Len(backlog) <= uncounted)

(* The ring is refilled only for the frames just received: when every BD   *)
(* has run out of pbufs nothing is ever received again, whatever is freed. *)
DryForGood == [][hwCnt = 0 => hwCnt' = 0]_vars
=============================================================================

------------------------------- MODULE GmacTx -------------------------------
(***************************************************************************)
(* The sending half of the A53's Ethernet: low_level_output, which lwIP's  *)
(* core lock admits one task at a time, the GMAC and its interrupt         *)
(* (gmacps_send_handler), and the ring of buffer descriptors between them. *)
(* process_sent_bds gives back what was sent; it runs in the interrupt     *)
(* and, with interrupts enabled, in the task.  The interrupt is on the     *)
(* task's core: while it runs the task does not, the GMAC does.            *)
(*                                                                         *)
(* A frame is its number; it is a chain of one or two pbufs, a BD each.    *)
(* Overwriting the BDs of a set and moving the ring's pointers are a step  *)
(* each; the latter falls apart when the interrupt cuts into it.           *)
(***************************************************************************)
EXTENDS Integers, FiniteSets

CONSTANTS Ring,        (* FLWIP_CONFIG_N_TX_DESC, 512                      *)
          Low,         (* the 5 of low_level_output                        *)
          Word,        (* 2^32: the counters of FGmacPs_BdRing             *)
          MaxFrames    (* bound: frames that lwIP sends                    *)

ASSUME SizesAssumption == /\ {Ring, Word, MaxFrames} \subseteq Nat \ {0}
                          /\ Low \in Nat /\ Low < Ring /\ 2 * Ring < Word

Bds == 0 .. Ring - 1
Procs == {"task", "isr"}

VARIABLES
  used, lastBd,                   (* TXBUF_USED and TXBUF_LAST of each BD  *)
  store,                          (* tx_pbufs_storage: whose pbuf, or 0    *)
  hwHead, hwCnt, preHead, preCnt, postHead, postCnt, freeHead, freeCnt,
  dma,                            (* the BD that the GMAC reads next       *)
  irq,                            (* TXCOMPL                               *)
  run,                            (* process_sent_bds in each context      *)
  frame, chain,                   (* the frame lwIP sends, its pbufs       *)
  queued, sent,                   (* history: frames given to the GMAC and *)
                                  (* sent by it                            *)
  raced, crowded, torn     (* history: see Interrupt, Start, Update        *)

bds     == <<used, lastBd, store>>
ring    == <<hwHead, hwCnt, preHead, preCnt, postHead, postCnt, freeHead, freeCnt>>
history == <<queued, sent, raced, crowded, torn>>
vars == <<bds, ring, dma, irq, run, frame, chain, history>>

Ahead(bd, n) == (bd + n) % Ring                  (* FGMACPS_RING_SEEKAHEAD *)
Least(a, b) == IF a < b THEN a ELSE b
Span(bd, n) == {Ahead(bd, k) : k \in 0 .. n - 1}

Idle == [pc |-> "idle", cur |-> 0, limit |-> 0, count |-> 0, partial |-> 0,
         sop |-> FALSE, set |-> 0, n |-> 0]

(* init_dma's send part: every BD is free and USED.                        *)
Init ==
  /\ used = [i \in Bds |-> TRUE] /\ lastBd = [i \in Bds |-> FALSE]
  /\ store = [i \in Bds |-> 0]
  /\ hwHead = 0 /\ hwCnt = 0 /\ preHead = 0 /\ preCnt = 0
  /\ postHead = 0 /\ postCnt = 0 /\ freeHead = 0 /\ freeCnt = Ring
  /\ dma = 0 /\ irq = FALSE
  /\ run = [p \in Procs |-> Idle] /\ frame = 0 /\ chain = 0
  /\ queued = {} /\ sent = {} /\ raced = FALSE /\ crowded = FALSE /\ torn = FALSE

-----------------------------------------------------------------------------
(* The GMAC sends the frame at dma, if that is not USED, and marks the     *)
(* first of its BDs.                                                       *)
Transmit ==
  LET length == CHOOSE n \in 1 .. Ring : /\ lastBd[Ahead(dma, n - 1)]
                                         /\ \A k \in 1 .. n - 1 : ~lastBd[Ahead(dma, k - 1)]
  IN /\ ~used[dma] /\ \E bd \in Bds : lastBd[bd]
     /\ \A bd \in Span(dma, length) : ~used[bd]
     /\ used' = [used EXCEPT ![dma] = TRUE]
     /\ sent' = sent \cup {store[dma]}
     /\ dma' = Ahead(dma, length)
     /\ irq' = TRUE
     /\ UNCHANGED <<lastBd, store, ring, run, frame, chain, queued, raced, crowded, torn>>

(* The interrupt calls gmacps_send_handler.                                *)
Interrupt ==
  /\ irq /\ run["isr"].pc = "idle"
  /\ irq' = FALSE
  /\ run' = [run EXCEPT !["isr"].pc = "start"]
  /\ raced' = (raced \/ run["task"].pc \notin {"idle", "send"})
  /\ UNCHANGED <<bds, ring, dma, frame, chain, queued, sent, crowded, torn>>

-----------------------------------------------------------------------------
(* process_sent_bds in context p.                                          *)
MayRun(p) == p = "isr" \/ run["isr"].pc = "idle"

(* Mutants: the limit is one BD too few; the BDs of a frame without end    *)
(* are taken; a set must leave another behind.                             *)
LimitLessOne == Least(Ring, hwCnt - 1)
TakenAll(r) == r.count
InStepStrictly(r) == postCnt > r.n /\ postHead = r.set

Limit == Least(Ring, hwCnt)                      (* BdLimitLoc             *)
Taken(r) == r.count - r.partial                  (* BdCount in the end     *)
InStep(r) == postCnt >= r.n /\ postHead = r.set
Less(count, n) == (count - n) % Word

Return(p) == [Idle EXCEPT !.pc = IF p = "task" THEN "send" ELSE "idle"]

Unsent == {bd \in Span(hwHead, Least(hwCnt, Ring)) : store[bd] \in queued \ sent}

(* FGmacPs_BdRingFromHwTx, before its loop.                                *)
Start(p) ==
  /\ MayRun(p) /\ run[p].pc = "start"
  /\ run' = [run EXCEPT ![p] = IF hwCnt = 0 THEN Return(p)
                               ELSE [Idle EXCEPT !.pc = "scan", !.cur = hwHead,
                                                 !.limit = Limit]]
  /\ crowded' = (crowded \/ Cardinality(Unsent) > freeCnt)
  /\ UNCHANGED <<bds, ring, dma, irq, frame, chain, queued, sent, raced, torn>>

(* Its loop looks at one BD after the other until it has counted as many   *)
(* as the GMAC has: it passes over BDs that are not sent and goes on into  *)
(* free ones, which are USED, and around.                                  *)
Scan(p) ==
  LET r    == run[p]
      sop  == r.sop \/ used[r.cur]
      seen == [r EXCEPT !.cur = Ahead(@, 1)]
  IN /\ MayRun(p) /\ r.pc = "scan" /\ r.count < r.limit
     /\ run' = [run EXCEPT ![p] =
          IF ~sop THEN seen
          ELSE [seen EXCEPT !.count = @ + 1, !.sop = ~lastBd[r.cur],
                            !.partial = IF lastBd[r.cur] THEN 0 ELSE @ + 1]]
     /\ UNCHANGED <<bds, ring, dma, irq, frame, chain, history>>

(* After the loop: the BDs counted, less those of a frame without end, are *)
(* taken from hwHead on.                                                   *)
Update(p) ==
  LET r == run[p]
      n == Taken(r)
  IN /\ MayRun(p) /\ r.pc = "scan" /\ r.count = r.limit
     /\ IF n = 0 THEN run' = [run EXCEPT ![p] = Return(p)] /\ UNCHANGED <<ring, torn>>
        ELSE /\ run' = [run EXCEPT ![p] = [Idle EXCEPT !.pc = "wipe", !.set = hwHead, !.n = n]]
             /\ hwCnt' = Less(hwCnt, n)
             /\ postCnt' = (postCnt + n) % Word
             /\ hwHead' = Ahead(hwHead, n)
             /\ torn' = (torn \/ ~lastBd[Ahead(hwHead, n - 1)])
             /\ UNCHANGED <<preHead, preCnt, postHead, freeHead, freeCnt>>
     /\ UNCHANGED <<bds, dma, irq, frame, chain, queued, sent, raced, crowded>>

(* The BDs become USED and their pbufs are freed.                          *)
Wipe(p) ==
  LET r == run[p]
      set == Span(r.set, r.n)
  IN /\ MayRun(p) /\ r.pc = "wipe"
     /\ used' = [bd \in Bds |-> used[bd] \/ bd \in set]
     /\ lastBd' = [bd \in Bds |-> lastBd[bd] /\ bd \notin set]
     /\ store' = [bd \in Bds |-> IF bd \in set THEN 0 ELSE store[bd]]
     /\ run' = [run EXCEPT ![p].pc = "free"]
     /\ UNCHANGED <<ring, dma, irq, frame, chain, history>>

(* FGmacPs_BdRingFree refuses a set that is not the oldest one taken; the  *)
(* loop of process_sent_bds starts again in either case.                   *)
BdRingFree(p) ==
  LET r == run[p] IN
  /\ MayRun(p) /\ r.pc = "free"
  /\ IF InStep(r)
     THEN /\ freeCnt' = (freeCnt + r.n) % Word
          /\ postCnt' = postCnt - r.n
          /\ postHead' = Ahead(postHead, r.n)
     ELSE UNCHANGED <<freeCnt, postCnt, postHead>>
  /\ run' = [run EXCEPT ![p] = [Idle EXCEPT !.pc = "start"]]
  /\ UNCHANGED <<bds, hwHead, hwCnt, preHead, preCnt, freeHead, dma, irq, frame, chain, history>>

(* Update and BdRingFree are three stores each, of which the GMAC reads    *)
(* none.  The interrupt may come before, between and after them.  Where it *)
(* cuts in, the task has done the first few and does the others when the   *)
(* interrupt has returned.                                                 *)
CutsIn(pc, set, n) ==
  /\ irq /\ run["isr"].pc = "idle"
  /\ irq' = FALSE /\ raced' = TRUE
  /\ run' = [task |-> [Idle EXCEPT !.pc = pc, !.set = set, !.n = n],
             isr  |-> [Idle EXCEPT !.pc = "start"]]
  /\ UNCHANGED <<bds, hwHead, preHead, preCnt, postHead, freeHead, dma, frame, chain,
                 queued, sent, crowded>>

CutsInUpdate ==
  LET r == run["task"]
      n == Taken(r)
  IN /\ r.pc = "scan" /\ r.count = r.limit /\ n # 0
     /\ \E k \in 1 .. 3 : /\ CutsIn(<<"take", "post", "head">>[k], hwHead, n)
                          /\ hwCnt' = IF k > 1 THEN Less(hwCnt, n) ELSE hwCnt
                          /\ postCnt' = IF k > 2 THEN (postCnt + n) % Word ELSE postCnt
     /\ torn' = (torn \/ ~lastBd[Ahead(hwHead, n - 1)])
     /\ UNCHANGED freeCnt

CutsInFree ==
  LET r == run["task"] IN
  /\ r.pc = "free" /\ InStep(r)
  /\ \E k \in 1 .. 3 : /\ CutsIn(<<"give", "unpost", "tail">>[k], r.set, r.n)
                       /\ freeCnt' = IF k > 1 THEN (freeCnt + r.n) % Word ELSE freeCnt
                       /\ postCnt' = IF k > 2 THEN postCnt - r.n ELSE postCnt
  /\ UNCHANGED <<hwCnt, torn>>

GoOn(p) ==
  LET r == run[p]
      Then(pc) == run' = [run EXCEPT ![p].pc = pc]
  IN /\ MayRun(p)
     /\ \/ /\ r.pc = "take" /\ Then("post") /\ hwCnt' = Less(hwCnt, r.n)
           /\ UNCHANGED <<hwHead, postCnt, postHead, freeCnt>>
        \/ /\ r.pc = "post" /\ Then("head") /\ postCnt' = (postCnt + r.n) % Word
           /\ UNCHANGED <<hwCnt, hwHead, postHead, freeCnt>>
        \/ /\ r.pc = "head" /\ Then("wipe") /\ hwHead' = Ahead(hwHead, r.n)
           /\ UNCHANGED <<hwCnt, postCnt, postHead, freeCnt>>
        \/ /\ r.pc = "give" /\ Then("unpost") /\ freeCnt' = (freeCnt + r.n) % Word
           /\ UNCHANGED <<hwCnt, hwHead, postCnt, postHead>>
        \/ /\ r.pc = "unpost" /\ Then("tail") /\ postCnt' = Less(postCnt, r.n)
           /\ UNCHANGED <<hwCnt, hwHead, postHead, freeCnt>>
        \/ /\ r.pc = "tail" /\ postHead' = Ahead(postHead, r.n)
           /\ run' = [run EXCEPT ![p] = [Idle EXCEPT !.pc = "start"]]
           /\ UNCHANGED <<hwCnt, hwHead, postCnt, freeCnt>>
     /\ UNCHANGED <<bds, preHead, preCnt, freeHead, dma, irq, frame, chain, history>>

ProcessSentBds(p) ==
  Start(p) \/ Scan(p) \/ Update(p) \/ Wipe(p) \/ BdRingFree(p) \/ GoOn(p)

-----------------------------------------------------------------------------
(* low_level_output: with few free BDs it first looks for sent ones.       *)
LowLevelOutput(pbufs) ==
  /\ MayRun("task") /\ run["task"].pc = "idle" /\ frame < MaxFrames
  /\ frame' = frame + 1 /\ chain' = pbufs
  /\ run' = [run EXCEPT !["task"].pc = IF freeCnt <= Low THEN "start" ELSE "send"]
  /\ UNCHANGED <<bds, ring, dma, irq, history>>

(* gmacps_sgsend, with interrupts masked.  A frame that does not get its   *)
(* BDs, or meets one in use, is dropped; in the latter case, and when      *)
(* FGmacPs_BdRingToHw refuses, the BDs stay allocated.                     *)
Sgsend ==
  LET set  == Span(freeHead, chain)
      busy == {k \in 0 .. chain - 1 : store[Ahead(freeHead, k)] # 0}
      mine == IF busy = {} THEN set ELSE Span(freeHead, CHOOSE k \in busy : \A j \in busy : k <= j)
      toHw == busy = {} /\ preHead = freeHead
  IN /\ MayRun("task") /\ run["task"].pc = "send"
     /\ run' = [run EXCEPT !["task"] = Idle]
     /\ IF freeCnt < chain THEN UNCHANGED <<bds, ring, queued>>
        ELSE /\ store' = [bd \in Bds |-> IF bd \in mine THEN frame ELSE store[bd]]
             /\ used' = [bd \in Bds |-> used[bd] /\ (busy # {} \/ bd \notin set)]
             /\ lastBd' = [bd \in Bds |-> IF bd \in mine THEN busy = {} /\ bd = Ahead(freeHead, chain - 1)
                                          ELSE lastBd[bd]]
             /\ freeHead' = Ahead(freeHead, chain)
             /\ freeCnt' = freeCnt - chain
             /\ IF toHw THEN /\ preHead' = Ahead(preHead, chain)
                             /\ hwCnt' = (hwCnt + chain) % Word
                             /\ queued' = queued \cup {frame}
                             /\ UNCHANGED preCnt
                ELSE preCnt' = (preCnt + chain) % Word /\ UNCHANGED <<preHead, hwCnt, queued>>
             /\ UNCHANGED <<hwHead, postHead, postCnt>>
     /\ UNCHANGED <<dma, irq, frame, chain, sent, raced, crowded, torn>>

-----------------------------------------------------------------------------
Next ==
  \/ Transmit \/ Interrupt \/ CutsInUpdate \/ CutsInFree \/ Sgsend
  \/ \E p \in Procs : ProcessSentBds(p)
  \/ \E pbufs \in 1 .. 2 : LowLevelOutput(pbufs)

(* The GMAC, the interrupt and a task that has begun to send go on.        *)
Spec == /\ Init /\ [][Next]_vars
        /\ WF_vars(Transmit) /\ WF_vars(Interrupt) /\ WF_vars(Sgsend)
        /\ \A p \in Procs : WF_vars(ProcessSentBds(p))

-----------------------------------------------------------------------------
TypeOK ==
  /\ used \in [Bds -> BOOLEAN] /\ lastBd \in [Bds -> BOOLEAN] /\ store \in [Bds -> 0 .. MaxFrames]
  /\ {hwHead, preHead, postHead, freeHead, dma} \subseteq Bds
  /\ {hwCnt, preCnt, postCnt, freeCnt} \subseteq 0 .. Word - 1
  /\ run \in [Procs -> [pc : {"idle", "start", "scan", "take", "post", "head", "wipe", "free",
                              "give", "unpost", "tail", "send"},
                        cur : Bds, limit : 0 .. Ring, count : 0 .. Ring, partial : 0 .. Ring,
                        sop : BOOLEAN, set : Bds, n : 0 .. Ring]]
  /\ frame \in 0 .. MaxFrames /\ chain \in 0 .. 2
  /\ queued \subseteq 1 .. MaxFrames /\ sent \subseteq 0 .. MaxFrames

(* The pbufs of a frame are not freed before the GMAC has sent it: unless  *)
(* the interrupt fell into the task's process_sent_bds, or that of either  *)
(* began when the GMAC had more BDs to send than there were free ones, or  *)
(* one of the two BDs of a frame was taken.  (The other is not USED: the   *)
(* next scan passes over it, and if it goes round the ring takes it for    *)
(* the end of a frame that began with the free BDs.)                       *)
FreedWasSent ==
  TypeOK /\ (~raced /\ ~crowded /\ ~torn =>
                \A f \in queued \ sent : \E bd \in Unsent : store[bd] = f)

(* The BDs that were taken and whose set is in nobody's hands.             *)
Leaked == postCnt - run["task"].n - run["isr"].n

(* BDs get lost only when the interrupt falls into the task's              *)
(* process_sent_bds.  (They stay lost: the sets taken later are then never *)
(* the oldest one, so that FGmacPs_BdRingFree refuses them all.)           *)
NoLeak == ~raced => Leaked = 0 /\ freeCnt + hwCnt + postCnt = Ring

(* When lwIP stops sending, everything is sent and freed, unless the       *)
(* interrupt fell into the task's process_sent_bds (between hwCnt and      *)
(* hwHead it makes hwHead pass BDs that nobody then counts), or the GMAC   *)
(* once had more to send than was free, or one of a frame's two BDs was    *)
(* taken.                                                                  *)
AllFreed == <>[](raced \/ crowded \/ torn \/ \A bd \in Bds : store[bd] = 0)
=============================================================================

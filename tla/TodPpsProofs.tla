---------------------------- MODULE TodPpsProofs ----------------------------
(***************************************************************************)
(* What holds of the FPGA's second counter for any interval of             *)
(* calibration and any number of pulses, with messages cut, lost, garbled, *)
(* late or invalid as they may be.                                         *)
(*                                                                         *)
(* Three invariants, one for each property.  No second is from the future  *)
(* but one that was read from noise (Past).  A good second's time goes     *)
(* from step to step of the task: it is the only frame, then total_sec,    *)
(* then the prepared second and the baseline for the next (OnTrack).  With *)
(* NMEA, when all is in time, what the buffer and the frames hold is of    *)
(* this very second, noise excepted (Current).                             *)
(***************************************************************************)
EXTENDS TodPps, SequenceTheorems, WellFoundedInduction, TLAPS

XlStates == {"WAIT_SYNC", "WAIT_VALID_FRAME", "RECVING"}
HalfMsg  == [kind : {"head", "tail", "noise", "zero"}, sec : Seconds, valid : BOOLEAN,
             to : XlStates, ends : BOOLEAN]
FrameMsg == [sec : Seconds, valid : BOOLEAN, clean : BOOLEAN]
DataMsg  == [sec : Seconds, clean : BOOLEAN]

Handling == {"parse", "check", "add"}

Typed ==
  /\ TypeOK
  /\ now >= 1
  /\ ~modify_sec_en => g_cali_cnt = 1
  /\ pc \in Handling => frames # << >>
  /\ pc = "wipe" => ~std
  /\ pc \in {"poll", "empty"} => frames = << >>
  /\ pc = "empty" => good = 0
  /\ pc = "add" => aligned \in Seconds

(* No second but one read from noise is from the future.                   *)
Past ==
  /\ \A i \in DOMAIN tod_recv_buf :
       tod_recv_buf[i].kind # "noise" => tod_recv_buf[i].sec <= now
  /\ \A i \in DOMAIN frames : frames[i].clean => frames[i].sec <= now
  /\ ~misread => total_sec <= now
  /\ ~misprepared => aligned <= now + 1 /\ (pc = "add" => aligned <= now)

(* The receiver has nothing to send after the tail.                        *)
TailIsLast == \A i \in DOMAIN tod_recv_buf :
                tod_recv_buf[i].kind = "tail" /\ tod_recv_buf[i].sec = now => sent = 2

Baseline(s) == first_tod_check /\ last_valid_tod = s

(* The state of a second that is good, and of the pulse after one.         *)
OnTrack ==
  /\ pc = "poll" \/ (pc = "wait" /\ tod_sem) =>
       Baseline(now - 1) \/ (sent = 2 /\ tod_recv_buf = << >>)
  /\ pc = "wait" /\ ~tod_sem =>
       Baseline(now) /\ (good >= 2 => status /\ aligned = now + 1)
  /\ pc \in {"clear", "wipe"} \cup Handling =>
       /\ sent = 2 /\ frames = << [sec |-> now, valid |-> TRUE, clean |-> TRUE] >>
       /\ pc # "clear" => tod_recv_buf = << >>
       /\ good >= 2 /\ pc # "add" => Baseline(now - 1)
  /\ pc = "check" => status /\ total_sec = now
  /\ pc = "add" => /\ total_sec = now /\ aligned = now /\ first_tod_check
                   /\ good >= 2 => status

RecoverInv == Typed /\ Past /\ TailIsLast /\ (~verbose /\ good >= 1 => OnTrack)

(* With NMEA, when no byte came late and the task was always in time.      *)
Current ==
  /\ tod_sem => pc = "wait"
  /\ \A i \in DOMAIN tod_recv_buf : tod_recv_buf[i].kind # "noise" => tod_recv_buf[i].sec = now
  /\ tod_recv_buf # << >> => tod_sem \/ pc \in {"poll", "clear"}
  /\ pc = "empty" => ~status
  /\ Len(frames) <= 1 /\ \A i \in DOMAIN frames : frames[i].clean => frames[i].sec = now
  /\ pc = "check" => status /\ (misread \/ total_sec = now)
  /\ pc = "add" => first_tod_check /\ (misprepared \/ aligned = now)
  /\ ~first_tod_check => aligned = 0
  /\ pc = "wait" /\ ~tod_sem /\ status => misprepared \/ aligned \in {0, now + 1}

IInv == RecoverInv /\ (std /\ ~late => Current)

-----------------------------------------------------------------------------
(* What is found in the buffer.                                            *)

LEMMA LeastNatural ==
  ASSUME NEW T \in SUBSET Nat, T # {}
  PROVE  \E n \in T : \A m \in T : n <= m
<1> DEFINE R == {ss \in Nat \X Nat : ss[1] < ss[2]}
<1>1. IsWellFoundedOn(R, Nat)
  BY NatLessThanWellFounded DEF OpToRel
<1>2. \A m, n \in Nat : m < n => <<m, n>> \in R
  OBVIOUS
<1> HIDE DEF R
<1>3. PICK n \in T : \A m \in T : <<m, n>> \notin R
  BY <1>1, WFMin
<1>4. \A m \in T : ~(m < n)
  BY <1>2, <1>3
<1> QED
  BY <1>4

LEMMA GreatestIndex ==
  ASSUME NEW n \in Nat, NEW S \in SUBSET (1 .. n), S # {}
  PROVE  \E i \in S : \A j \in S : j <= i
<1> DEFINE T == {n - i : i \in S}
<1>0. \A i \in S : n - i \in Nat
  OBVIOUS
<1>1. T \in SUBSET Nat /\ T # {}
  BY <1>0
<1>2. PICK d \in T : \A e \in T : d <= e
  BY <1>1, LeastNatural
<1>3. PICK i \in S : d = n - i
  BY <1>2
<1>4. \A j \in S : n - j \in T /\ j \in Nat
  OBVIOUS
<1>5. \A j \in S : j <= i
  BY <1>2, <1>3, <1>4
<1> QED
  BY <1>5

(* The last line that has a head.                                          *)
StdFrame(half) == [sec |-> half.sec, valid |-> half.valid, clean |-> half.kind # "noise"]

LEMMA StdFramesAre ==
  ASSUME NEW buf \in Seq(HalfMsg)
  PROVE  \/ StdFrames(buf) = << >>
         \/ \E i \in DOMAIN buf :
              buf[i].kind \in {"head", "noise"} /\ StdFrames(buf) = << StdFrame(buf[i]) >>
<1> DEFINE IsNoise(i) == buf[i].kind = "noise"
           Heads  == {i \in DOMAIN buf : buf[i].kind = "head" \/ (IsNoise(i) /\ buf[i].to = "RECVING")}
           last   == CHOOSE i \in Heads : \A j \in Heads : j <= i
           Ends   == {i \in last .. Len(buf) : buf[i].kind = "tail" \/ (IsNoise(i) /\ buf[i].ends)}
           Noises == {i \in last .. Len(buf) : IsNoise(i) /\ \A j \in Ends : i <= j}
           from   == IF Noises = {} THEN last ELSE CHOOSE i \in Noises : TRUE
<1>1. SUFFICES ASSUME Heads # {} PROVE from \in DOMAIN buf /\ buf[from].kind \in {"head", "noise"}
  BY DEF StdFrames, StdFrame
<1>2. DOMAIN buf = 1 .. Len(buf) /\ Len(buf) \in Nat
  OBVIOUS
<1>3. \E i \in Heads : \A j \in Heads : j <= i
  BY <1>1, <1>2, GreatestIndex
<1>4. last \in DOMAIN buf /\ buf[last].kind \in {"head", "noise"}
  BY <1>3
<1>5. ASSUME NEW i \in Noises PROVE i \in DOMAIN buf /\ buf[i].kind \in {"head", "noise"}
  BY <1>2, <1>4
<1> HIDE DEF last, Noises
<1> QED
  BY <1>4, <1>5

LEMMA StdWhole ==
  ASSUME NEW buf \in Seq(HalfMsg), Len(buf) >= 2,
         buf[Len(buf) - 1].kind = "head", buf[Len(buf)].kind = "tail"
  PROVE  StdFrames(buf) = << StdFrame(buf[Len(buf) - 1]) >>
<1> DEFINE IsNoise(i) == buf[i].kind = "noise"
           Heads  == {i \in DOMAIN buf : buf[i].kind = "head" \/ (IsNoise(i) /\ buf[i].to = "RECVING")}
           last   == CHOOSE i \in Heads : \A j \in Heads : j <= i
           Ends   == {i \in last .. Len(buf) : buf[i].kind = "tail" \/ (IsNoise(i) /\ buf[i].ends)}
           Noises == {i \in last .. Len(buf) : IsNoise(i) /\ \A j \in Ends : i <= j}
           from   == IF Noises = {} THEN last ELSE CHOOSE i \in Noises : TRUE
<1>1. DOMAIN buf = 1 .. Len(buf) /\ Len(buf) \in Nat
  OBVIOUS
<1>2. Len(buf) - 1 \in Heads /\ Len(buf) \notin Heads
  BY <1>1
<1>3. \A j \in Heads : j \in Int /\ j <= Len(buf) - 1
  BY <1>1, <1>2
<1>4. last \in Heads /\ Len(buf) - 1 <= last
  BY <1>2, <1>3
<1>5. last = Len(buf) - 1
  BY <1>1, <1>3, <1>4
<1>6. Len(buf) \in Ends
  BY <1>1, <1>5
<1>7. Noises = {}
  <2>1. \A n \in Nat : \A i \in (n - 1) .. n : i = n - 1 \/ i = n
    OBVIOUS
  <2>2. \A i \in (Len(buf) - 1) .. Len(buf) : ~IsNoise(i)
    BY <1>1, <2>1
  <2> HIDE DEF IsNoise, last
  <2> QED
    BY <2>2, <1>5
<1>8. from = Len(buf) - 1
  BY <1>5, <1>7
<1>9. StdFrames(buf) = IF Heads = {} \/ Ends = {} THEN << >> ELSE << StdFrame(buf[from]) >>
  BY DEF StdFrames, StdFrame
<1> HIDE DEF from, Heads, Ends
<1> QED
  BY <1>2, <1>6, <1>8, <1>9

XlAccs == [state : XlStates, data : DataMsg, frames : Seq(FrameMsg)]

XlWalk(w, buf, n) == [k \in 0 .. n |-> IF k = 0 THEN XlBegin ELSE XlStep(w[k - 1], buf[k])]

LEMMA XlWalkExists ==
  ASSUME NEW buf, NEW n \in Nat
  PROVE  \E w : w = XlWalk(w, buf, n)
<1> DEFINE Wrong == {m \in Nat : ~\E w : w = XlWalk(w, buf, m)}
<1>1. SUFFICES ASSUME Wrong # {} PROVE FALSE
  OBVIOUS
<1>2. PICK m \in Wrong : \A l \in Wrong : m <= l
  BY <1>1, LeastNatural
<1>3. CASE m = 0
  <2> DEFINE w == [k \in 0 .. 0 |-> XlBegin]
  <2>1. w = XlWalk(w, buf, 0)
    BY DEF XlWalk
  <2> QED
    BY <1>2, <1>3, <2>1
<1>4. CASE m # 0
  <2>1. m - 1 \in Nat /\ ~(m <= m - 1) /\ m \in Nat
    BY <1>4
  <2>2. PICK v : v = XlWalk(v, buf, m - 1)
    BY <2>1, <1>2
  <2> DEFINE w == [k \in 0 .. m |-> IF k = 0 THEN XlBegin ELSE XlStep(v[k - 1], buf[k])]
  <2>3. \A k \in 0 .. m - 1 : v[k] = IF k = 0 THEN XlBegin ELSE XlStep(v[k - 1], buf[k])
    BY <2>2 DEF XlWalk
  <2>4. \A k \in 0 .. m - 1 : k \in 0 .. m
    BY <2>1
  <2>5. \A k \in 0 .. m - 1 : w[k] = v[k]
    BY <2>3, <2>4
  <2>6. \A k \in 0 .. m : k # 0 => k - 1 \in 0 .. m - 1
    BY <2>1
  <2>7. \A k \in 0 .. m : w[k] = IF k = 0 THEN XlBegin ELSE XlStep(v[k - 1], buf[k])
    OBVIOUS
  <2>8. w = [k \in 0 .. m |-> w[k]]
    OBVIOUS
  <2> HIDE DEF w
  <2>9. \A k \in 0 .. m : w[k] = IF k = 0 THEN XlBegin ELSE XlStep(w[k - 1], buf[k])
    BY <2>5, <2>6, <2>7
  <2>10. w = XlWalk(w, buf, m)
    BY <2>8, <2>9 DEF XlWalk
  <2> QED
    BY <1>2, <2>10
<1> QED
  BY <1>3, <1>4

LEMMA XlFramesAreWalked ==
  ASSUME NEW buf \in Seq(HalfMsg)
  PROVE  \E w : /\ XlFrames(buf) = w[Len(buf)].frames
                /\ w[0] = XlBegin
                /\ \A k \in 1 .. Len(buf) : w[k] = XlStep(w[k - 1], buf[k])
<1> DEFINE w == CHOOSE w : w = XlWalk(w, buf, Len(buf))
<1>0. Len(buf) \in Nat
  OBVIOUS
<1>1. w = XlWalk(w, buf, Len(buf))
  BY <1>0, XlWalkExists
<1>2. XlFrames(buf) = w[Len(buf)].frames
  BY DEF XlFrames, XlWalk, XlBegin
<1> HIDE DEF w
<1>3. \A k \in 0 .. Len(buf) : w[k] = IF k = 0 THEN XlBegin ELSE XlStep(w[k - 1], buf[k])
  BY <1>1 DEF XlWalk
<1>4. w[0] = XlBegin
  BY <1>0, <1>3
<1>5. \A k \in 1 .. Len(buf) : w[k] = XlStep(w[k - 1], buf[k])
  BY <1>0, <1>3
<1> QED
  BY <1>2, <1>4, <1>5

(* A step of the walk adds one frame at most, with data already collected, *)
(* with this half's or with none.                                          *)
XlFrame(data) == [sec |-> data.sec, valid |-> TRUE, clean |-> data.clean]

LEMMA XlStepIs ==
  ASSUME NEW acc \in XlAccs, NEW half \in HalfMsg
  PROVE  \E s \in XlStates, d \in {NoData, acc.data, Data(half)}, e \in {NoData, acc.data, Data(half)} :
           \/ XlStep(acc, half) = [state |-> s, data |-> d, frames |-> acc.frames]
           \/ XlStep(acc, half) =
                [state |-> s, data |-> d, frames |-> Append(acc.frames, XlFrame(e))]
<1> DEFINE D == {NoData, acc.data, Data(half)}
           Collected == IF acc.data.sec = Nothing THEN Data(half) ELSE acc.data
           Stays(x) == \E s \in XlStates, d \in D : x = [state |-> s, data |-> d, frames |-> acc.frames]
           Frames1(x) == \E s \in XlStates, d \in D, e \in D :
                           x = [state |-> s, data |-> d, frames |-> Append(acc.frames, XlFrame(e))]
<1>1. acc = [state |-> acc.state, data |-> acc.data, frames |-> acc.frames] /\ acc.state \in XlStates
  BY DEF XlAccs
<1>2. half.kind \in {"head", "tail", "noise", "zero"} /\ half.to \in XlStates /\ half.ends \in BOOLEAN
  BY DEF HalfMsg
<1>3. Collected \in D /\ NoData \in D /\ acc.data \in D
  OBVIOUS
<1>4. ASSUME NEW s \in XlStates PROVE Stays([state |-> s, data |-> NoData, frames |-> acc.frames])
  BY <1>3
<1>5. Stays([state |-> "RECVING", data |-> Collected, frames |-> acc.frames])
  BY <1>3 DEF XlStates
<1>6. ASSUME NEW s \in XlStates, NEW e \in D
      PROVE  Frames1([state |-> s, data |-> NoData,
                      frames |-> Append(acc.frames, [sec |-> e.sec, valid |-> TRUE, clean |-> e.clean])])
  BY <1>3 DEF XlFrame
<1>7. Stays(acc)
  BY <1>1, <1>3
<1>8. Stays(XlStep(acc, half)) \/ Frames1(XlStep(acc, half))
  <2> HIDE DEF Stays, Frames1, D
  <2>1. CASE half.kind = "noise" /\ half.ends
    BY <1>2, <1>3, <1>6, <2>1 DEF XlStep
  <2>2. CASE half.kind = "noise" /\ ~half.ends /\ half.to = "RECVING"
    BY <1>5, <2>2 DEF XlStep
  <2>3. CASE half.kind = "noise" /\ ~half.ends /\ half.to # "RECVING"
    BY <1>2, <1>4, <2>3 DEF XlStep
  <2>4. CASE half.kind # "noise" /\ acc.state = "WAIT_SYNC"
    <3>1. [head |-> "RECVING", tail |-> "WAIT_VALID_FRAME", zero |-> "WAIT_SYNC"][half.kind] \in XlStates
      BY <1>2, <2>4 DEF XlStates
    <3> QED
      BY <3>1, <1>4, <2>4 DEF XlStep
  <2>5. CASE half.kind # "noise" /\ acc.state = "WAIT_VALID_FRAME"
    <3>1. (IF half.kind = "tail" THEN "WAIT_VALID_FRAME" ELSE "WAIT_SYNC") \in XlStates
      BY DEF XlStates
    <3> QED
      BY <3>1, <1>4, <2>5 DEF XlStep
  <2>6. CASE half.kind # "noise" /\ acc.state = "RECVING"
    <3>1. "WAIT_SYNC" \in XlStates
      BY DEF XlStates
    <3>2. CASE half.kind = "head"
      BY <3>1, <3>2, <1>3, <1>6, <2>6 DEF XlStep
    <3>3. CASE half.kind = "tail"
      BY <3>1, <3>3, <1>3, <1>6, <2>6 DEF XlStep
    <3>4. CASE half.kind = "zero"
      BY <3>4, <1>7, <2>6 DEF XlStep
    <3> QED
      BY <3>2, <3>3, <3>4, <1>2, <2>6
  <2> QED
    BY <2>1, <2>2, <2>3, <2>4, <2>5, <2>6, <1>1, <1>2 DEF XlStates
<1> QED
  BY <1>3, <1>8

LEMMA XlFramesAre ==
  ASSUME NEW buf \in Seq(HalfMsg), NEW m \in Nat,
         \A i \in DOMAIN buf : buf[i].kind # "noise" => buf[i].sec <= m
  PROVE  /\ XlFrames(buf) \in Seq(FrameMsg)
         /\ \A i \in DOMAIN XlFrames(buf) : XlFrames(buf)[i].clean => XlFrames(buf)[i].sec <= m
<1> DEFINE True(x) == x.clean => x.sec <= m
           Good == {acc \in XlAccs : True(acc.data) /\ \A i \in DOMAIN acc.frames : True(acc.frames[i])}
<1>1. PICK w : /\ XlFrames(buf) = w[Len(buf)].frames
               /\ w[0] = XlBegin
               /\ \A k \in 1 .. Len(buf) : w[k] = XlStep(w[k - 1], buf[k])
  BY XlFramesAreWalked
<1>2. NoData \in DataMsg /\ True(NoData)
  BY TodPpsAssumption DEF NoData, DataMsg, Nothing, Seconds
<1>3. XlBegin \in Good
  <2>1. XlBegin.data = NoData /\ XlBegin.frames = << >>
    BY DEF XlBegin
  <2>2. XlBegin \in XlAccs
    BY <1>2 DEF XlBegin, XlAccs, XlStates
  <2> QED
    BY <2>1, <2>2, <1>2
<1>4. ASSUME NEW acc \in Good, NEW half \in HalfMsg, half.kind # "noise" => half.sec <= m
      PROVE  XlStep(acc, half) \in Good
  <2>1. /\ acc \in XlAccs /\ acc.frames \in Seq(FrameMsg) /\ acc.data \in DataMsg
        /\ True(acc.data) /\ \A i \in DOMAIN acc.frames : True(acc.frames[i])
    BY DEF XlAccs
  <2>2. Data(half) \in DataMsg /\ True(Data(half))
    BY <1>4 DEF HalfMsg, Data, DataMsg
  <2>3. \A d \in {NoData, acc.data, Data(half)} : d \in DataMsg /\ True(d)
    BY <1>2, <2>1, <2>2
  <2>4. ASSUME NEW s \in XlStates, NEW d \in DataMsg, True(d)
        PROVE  [state |-> s, data |-> d, frames |-> acc.frames] \in Good
    BY <2>1, <2>4 DEF XlAccs
  <2>5. ASSUME NEW s \in XlStates, NEW d \in DataMsg, True(d), NEW e \in DataMsg, True(e)
        PROVE  [state |-> s, data |-> d, frames |-> Append(acc.frames, XlFrame(e))] \in Good
    <3> DEFINE f == XlFrame(e)
               fs == Append(acc.frames, f)
    <3>1. f \in FrameMsg /\ True(f)
      BY <2>5 DEF XlFrame, FrameMsg, DataMsg
    <3> HIDE DEF f
    <3>2. fs \in Seq(FrameMsg)
      BY <2>1, <3>1
    <3>3. \A i \in DOMAIN fs : fs[i] = f \/ (i \in DOMAIN acc.frames /\ fs[i] = acc.frames[i])
      BY <2>1, <3>1
    <3>4. \A i \in DOMAIN fs : True(fs[i])
      BY <3>1, <3>3, <2>1
    <3>5. [state |-> s, data |-> d, frames |-> fs] \in XlAccs
      BY <3>2 DEF XlAccs
    <3> HIDE DEF fs, True
    <3>6. [state |-> s, data |-> d, frames |-> fs] \in Good
      BY <3>4, <3>5, <2>5
    <3> QED
      BY <3>6 DEF fs, f
  <2> HIDE DEF Good, True
  <2> QED
    BY <2>1, <2>3, <2>4, <2>5, XlStepIs
<1> HIDE DEF Good
<1>5. \A k \in 0 .. Len(buf) : w[k] \in Good
  <2> DEFINE Wrong == {k \in 0 .. Len(buf) : w[k] \notin Good}
  <2>1. SUFFICES ASSUME Wrong # {} PROVE FALSE
    OBVIOUS
  <2>2. Wrong \in SUBSET Nat
    OBVIOUS
  <2>3. PICK k \in Wrong : \A l \in Wrong : k <= l
    BY <2>1, <2>2, LeastNatural
  <2>4. k \in 1 .. Len(buf)
    BY <1>1, <1>3
  <2>5. k - 1 \in 0 .. Len(buf) /\ ~(k <= k - 1)
    BY <2>4
  <2>6. w[k - 1] \in Good
    BY <2>3, <2>5
  <2>7. buf[k] \in HalfMsg /\ (buf[k].kind # "noise" => buf[k].sec <= m)
    BY <2>4
  <2>8. w[k] \in Good
    BY <1>1, <1>4, <2>4, <2>6, <2>7
  <2> QED
    BY <2>8
<1>6. w[Len(buf)] \in Good
  BY <1>5
<1> QED
  BY <1>1, <1>6 DEF Good, XlAccs

LEMMA XlWhole ==
  ASSUME NEW buf \in Seq(HalfMsg), Len(buf) = 2,
         buf[1].kind = "head", buf[2].kind = "tail"
  PROVE  XlFrames(buf) = << [sec |-> buf[2].sec, valid |-> TRUE, clean |-> TRUE] >>
<1> DEFINE f == [sec |-> buf[2].sec, valid |-> TRUE, clean |-> TRUE]
<1>1. PICK w : /\ XlFrames(buf) = w[Len(buf)].frames
               /\ w[0] = XlBegin
               /\ \A k \in 1 .. Len(buf) : w[k] = XlStep(w[k - 1], buf[k])
  BY XlFramesAreWalked
<1>2. w[1] = XlStep(w[0], buf[1]) /\ w[2] = XlStep(w[1], buf[2])
  BY <1>1
<1>3. w[1] = [state |-> "RECVING", data |-> NoData, frames |-> << >>]
  <2>1. [head |-> "RECVING", tail |-> "WAIT_VALID_FRAME", zero |-> "WAIT_SYNC"][buf[1].kind] = "RECVING"
    OBVIOUS
  <2>2. w[0].state = "WAIT_SYNC" /\ w[0].frames = << >>
    BY <1>1 DEF XlBegin
  <2> QED
    BY <2>1, <2>2, <1>2 DEF XlStep
<1>4. w[2].frames = Append(w[1].frames, f)
  <2>1. w[1].state = "RECVING" /\ w[1].data.sec = Nothing
    BY <1>3 DEF NoData
  <2>2. Data(buf[2]) = [sec |-> buf[2].sec, clean |-> TRUE]
    BY DEF Data
  <2>3. Data(buf[2]).sec = buf[2].sec /\ Data(buf[2]).clean = TRUE
    BY <2>2
  <2>4. XlStep(w[1], buf[2]).frames = Append(w[1].frames, f)
    BY <2>1, <2>3 DEF XlStep
  <2> QED
    BY <2>4, <1>2
<1>5. w[1].frames = << >>
  BY <1>3
<1>6. Append(<< >>, f) = << f >>
  OBVIOUS
<1> HIDE DEF f
<1>7. XlFrames(buf) = << f >>
  BY <1>1, <1>4, <1>5, <1>6
<1> QED
  BY <1>7 DEF f

(* What the task takes from the buffer.                                    *)
LEMMA FramesAre ==
  ASSUME TypeOK, Past
  PROVE  /\ Frames(tod_recv_buf) \in Seq(FrameMsg)
         /\ \A i \in DOMAIN Frames(tod_recv_buf) :
              Frames(tod_recv_buf)[i].clean => Frames(tod_recv_buf)[i].sec <= now
<1>1. tod_recv_buf \in Seq(HalfMsg) /\ now \in Nat
  BY DEF TypeOK, HalfMsg, XlStates, Seconds
<1>2. \A i \in DOMAIN tod_recv_buf : tod_recv_buf[i].kind # "noise" => tod_recv_buf[i].sec <= now
  BY DEF Past
<1>3. CASE std
  <2>1. ASSUME NEW i \in DOMAIN tod_recv_buf,
               StdFrames(tod_recv_buf) = << StdFrame(tod_recv_buf[i]) >>
        PROVE  /\ StdFrames(tod_recv_buf) \in Seq(FrameMsg)
               /\ \A j \in DOMAIN StdFrames(tod_recv_buf) :
                    StdFrames(tod_recv_buf)[j].clean => StdFrames(tod_recv_buf)[j].sec <= now
    <3> DEFINE f == StdFrame(tod_recv_buf[i])
    <3>1. tod_recv_buf[i] \in HalfMsg
      BY <1>1
    <3>2. f \in FrameMsg
      BY <3>1 DEF HalfMsg, FrameMsg, StdFrame
    <3>3. f.clean => f.sec <= now
      BY <1>2 DEF StdFrame
    <3> HIDE DEF f
    <3>4. << f >> \in Seq(FrameMsg) /\ DOMAIN << f >> = {1} /\ << f >>[1] = f
      BY <3>2
    <3> QED
      BY <3>3, <3>4, <2>1 DEF f
  <2>2. CASE StdFrames(tod_recv_buf) = << >>
    BY <2>2, <1>3 DEF Frames
  <2>3. CASE \E i \in DOMAIN tod_recv_buf :
               StdFrames(tod_recv_buf) = << StdFrame(tod_recv_buf[i]) >>
    BY <2>1, <2>3, <1>3 DEF Frames
  <2> QED
    BY <2>2, <2>3, <1>1, StdFramesAre
<1>4. CASE ~std
  BY <1>1, <1>2, <1>4, XlFramesAre DEF Frames
<1> QED
  BY <1>3, <1>4

-----------------------------------------------------------------------------
(* Types.                                                                  *)

LEMMA InitTypes == Init => Typed
<1> SUFFICES ASSUME Init PROVE Typed
  OBVIOUS
<1> USE TodPpsAssumption
<1>1. now \in Seconds /\ now >= 1 /\ sent \in 0 .. 2 /\ garbled \in 0 .. MaxGarbled
  BY DEF Init, Seconds
<1>2. /\ std \in BOOLEAN /\ verbose \in BOOLEAN /\ fix \in BOOLEAN /\ tod_sem \in BOOLEAN
      /\ status \in BOOLEAN /\ first_tod_check \in BOOLEAN /\ modify_sec_en \in BOOLEAN
      /\ late \in BOOLEAN /\ misread \in BOOLEAN /\ misprepared \in BOOLEAN
  BY DEF Init
<1>3. tod_recv_buf \in Seq(HalfMsg) /\ frames \in Seq(FrameMsg) /\ pc = "wait" /\ frames = << >>
  BY DEF Init
<1>4. /\ total_sec \in Seconds /\ last_valid_tod \in Seconds /\ aligned \in 0 .. MaxSecond + 1
      /\ good \in Nat /\ good = 0
  BY DEF Init, Seconds
<1>5. g_cali_cnt \in 1 .. CaliSecond + 1 /\ g_cali_cnt = 1 /\ fpga \in -1 .. MaxSecond + 1
  BY DEF Init
<1> QED
  BY <1>1, <1>2, <1>3, <1>4, <1>5 DEF Typed, TypeOK, HalfMsg, XlStates, FrameMsg, Handling

LEMMA HalfIsMsg ==
  ASSUME TypeOK
  PROVE  /\ Half \in HalfMsg /\ Half.sec = now /\ Half.kind \in {"head", "tail"}
         /\ \A k \in {"head", "tail"} : Message(k).kind = k /\ Message(k).sec = now /\ Message(k).valid = fix
         /\ Half.kind = "tail" => sent # 0
BY DEF TypeOK, Half, Message, HalfMsg, XlStates

LEMMA NoiseIsMsg ==
  ASSUME NEW sec \in Seconds, NEW to \in XlStates, NEW ends \in BOOLEAN
  PROVE  Noise(sec, to, ends) \in HalfMsg /\ Noise(sec, to, ends).kind = "noise"
BY DEF Noise, HalfMsg

(* What comes is a half of this second's message, or noise.                *)
LEMMA ComesAs ==
  ASSUME TypeOK, Receive \/ Garble
  PROVE  \E half \in HalfMsg :
           /\ Arrives(half) /\ garbled' \in 0 .. MaxGarbled
           /\ half = Half \/ half.kind = "noise"
<1>1. CASE Receive
  BY <1>1, HalfIsMsg DEF Receive, TypeOK
<1>2. CASE Garble
  <2>1. PICK sec \in GarbledAs, ends \in BOOLEAN, to \in XlStates : Arrives(Noise(sec, to, ends))
    BY <1>2 DEF Garble, XlStates
  <2>2. sec \in Seconds
    BY TodPpsAssumption DEF Seconds
  <2>3. garbled' \in 0 .. MaxGarbled
    BY <1>2, TodPpsAssumption DEF Garble, TypeOK
  <2> QED
    BY <2>1, <2>2, <2>3, NoiseIsMsg
<1> QED
  BY <1>1, <1>2

LEMMA NextFrameTypes ==
  ASSUME frames \in Seq(FrameMsg), frames # << >>, NextFrame
  PROVE  /\ frames' \in Seq(FrameMsg) /\ pc' \in {"wait", "parse"}
         /\ pc' = "wait" => frames' = << >>
         /\ pc' = "parse" => frames' # << >>
         /\ \A i \in DOMAIN frames' : \E j \in DOMAIN frames : frames'[i] = frames[j]
         /\ Len(frames') = Len(frames) - 1
<1>1. /\ Tail(frames) \in Seq(FrameMsg) /\ Len(Tail(frames)) = Len(frames) - 1
      /\ \A i \in DOMAIN Tail(frames) : i + 1 \in DOMAIN frames /\ Tail(frames)[i] = frames[i + 1]
  OBVIOUS
<1>2. frames' = Tail(frames) /\ pc' = IF Tail(frames) = << >> THEN "wait" ELSE "parse"
  BY DEF NextFrame
<1> HIDE DEF NextFrame
<1> QED
  BY <1>1, <1>2

LEMMA PpsTypes == ASSUME Typed, Pps PROVE Typed'
<1>1. TypeOK /\ CaliSecond \in Nat \ {0} /\ MaxSecond \in Nat \ {0}
  BY TodPpsAssumption DEF Typed
<1>2. now' \in Seconds /\ now' >= 1 /\ sent' \in 0 .. 2 /\ fix' \in BOOLEAN
  <2>1. now \in Seconds /\ now < MaxSecond /\ now' = now + 1 /\ sent' = 0
    BY <1>1 DEF Pps, TypeOK
  <2>2. fix' \in BOOLEAN
    BY <1>1 DEF Pps, TypeOK
  <2> QED
    BY <1>1, <2>1, <2>2 DEF Seconds
<1>3. fpga' \in -1 .. MaxSecond + 1
  BY <1>1 DEF Pps, TypeOK
<1>4. g_cali_cnt' \in 1 .. CaliSecond + 1 /\ (~modify_sec_en' => g_cali_cnt' = 1)
  <2>1. g_cali_cnt \in 1 .. CaliSecond + 1 /\ (~modify_sec_en => g_cali_cnt = 1)
    BY DEF Typed, TypeOK
  <2>2. CASE ~status
    BY <2>1, <2>2 DEF Pps
  <2>3. CASE status /\ modify_sec_en /\ Calibrate
    <3>1. g_cali_cnt' = 1
      BY <2>3 DEF Pps
    <3>2. modify_sec_en'
      BY <2>3 DEF Pps
    <3> QED
      BY <3>1, <3>2, <1>1
  <2>4. CASE status /\ ~modify_sec_en
    <3>1. g_cali_cnt' = g_cali_cnt + 1
      BY <2>4 DEF Pps
    <3>2. modify_sec_en' /\ g_cali_cnt = 1
      BY <2>1, <2>4 DEF Pps
    <3> QED
      BY <3>1, <3>2, <1>1
  <2>5. CASE status /\ modify_sec_en /\ ~Calibrate
    <3>1. g_cali_cnt < CaliSecond
      BY <2>1, <2>5, <1>1 DEF Calibrate
    <3>2. g_cali_cnt' = g_cali_cnt + 1
      BY <2>5 DEF Pps
    <3>3. modify_sec_en'
      BY <2>5 DEF Pps
    <3> QED
      BY <3>1, <3>2, <3>3, <2>1, <1>1
  <2> QED
    BY <2>2, <2>3, <2>4, <2>5
<1>5. modify_sec_en' \in BOOLEAN /\ tod_sem' \in BOOLEAN /\ late' \in BOOLEAN /\ good' \in Nat
  <2>1. modify_sec_en' \in BOOLEAN /\ tod_sem' \in BOOLEAN
    BY DEF Pps
  <2>2. late' \in BOOLEAN
    BY <1>1 DEF Pps, TypeOK, history
  <2>3. good' \in Nat
    BY <1>1 DEF Pps, TypeOK, history
  <2> QED
    BY <2>1, <2>2, <2>3
<1>6. UNCHANGED <<settings, garbled, tod_recv_buf, pc, frames, info, check>>
  BY DEF Pps
<1>7. pc = "empty" => good' = 0
  BY <1>1 DEF Pps, Typed, history
<1> QED
  BY <1>1, <1>2, <1>3, <1>4, <1>5, <1>6, <1>7
     DEF Typed, TypeOK, Seconds, Handling, settings, info, check

LEMMA UartTypes == ASSUME Typed, Receive \/ Garble \/ Lose PROVE Typed'
<1>1. TypeOK
  BY DEF Typed
<1>2. CASE Receive \/ Garble
  <2>1. PICK half \in HalfMsg : Arrives(half) /\ garbled' \in 0 .. MaxGarbled
    BY <1>1, <1>2, ComesAs
  <2>2. sent' \in 0 .. 2
    BY <1>1, <2>1 DEF Arrives, TypeOK
  <2>3. tod_recv_buf' \in Seq(HalfMsg)
    <3>1. tod_recv_buf \in Seq(HalfMsg)
      BY <1>1 DEF TypeOK, HalfMsg, XlStates
    <3> QED
      BY <2>1, <3>1 DEF Arrives
  <2>4. late' \in BOOLEAN
    BY <1>1, <2>1 DEF Arrives, TypeOK
  <2>5. UNCHANGED <<settings, now, fix, tod_sem, pc, frames, info, check, cali, good>>
    BY <2>1 DEF Arrives
  <2> QED
    BY <1>1, <2>1, <2>2, <2>3, <2>4, <2>5
       DEF Typed, TypeOK, Seconds, HalfMsg, XlStates, Handling, settings, info, check, cali
<1>3. CASE Lose
  <2>1. sent' \in 0 .. 2
    BY <1>1, <1>3 DEF Lose, TypeOK
  <2>2. UNCHANGED <<settings, now, fix, garbled, tod_recv_buf, tod_sem, pc, frames, info, check, cali, history>>
    BY <1>3 DEF Lose
  <2> QED
    BY <1>1, <2>1, <2>2 DEF Typed, TypeOK, Seconds, Handling, settings, info, check, cali, history
<1> QED
  BY <1>2, <1>3

LEMMA PollTypes == ASSUME Typed, Take \/ Timeout \/ ClearEmpty PROVE Typed'
<1>1. TypeOK
  BY DEF Typed
<1>2. CASE Take
  <2>1. /\ UNCHANGED << std, verbose, now, sent, fix, garbled, tod_recv_buf, frames >>
        /\ UNCHANGED << status, total_sec, misread, first_tod_check, last_valid_tod, aligned >>
        /\ UNCHANGED << misprepared, modify_sec_en, g_cali_cnt, fpga, good, late >>
    BY <1>2 DEF Take, settings, receiver, info, check, cali, history
  <2>2. pc = "wait" /\ pc' = "poll" /\ tod_sem' = FALSE
    BY <1>2 DEF Take
  <2>3. frames = << >> /\ frames' = << >>
    BY <1>1, <2>1, <2>2 DEF TypeOK
  <2>4. TypeOK'
    BY <1>1, <2>1, <2>2 DEF TypeOK, Seconds
  <2> QED
    BY <2>1, <2>2, <2>3, <2>4 DEF Typed, Handling
<1>3. CASE Timeout
  <2>1. /\ UNCHANGED << std, verbose, now, sent, fix, garbled, tod_recv_buf, tod_sem, frames >>
        /\ UNCHANGED << total_sec, misread, first_tod_check, last_valid_tod, aligned >>
        /\ UNCHANGED << misprepared, modify_sec_en, g_cali_cnt, fpga, late >>
    BY <1>3 DEF Timeout, settings, receiver, check, cali
  <2>2. pc = "poll" /\ pc' = "empty" /\ status' = FALSE /\ good' = 0
    BY <1>3 DEF Timeout
  <2>3. frames = << >> /\ frames' = << >>
    BY <2>1, <2>2 DEF Typed
  <2>4. TypeOK'
    BY <1>1, <2>1, <2>2, <2>3 DEF TypeOK, Seconds
  <2> QED
    BY <2>1, <2>2, <2>3, <2>4 DEF Typed, Handling
<1>4. CASE ClearEmpty
  BY <1>1, <1>4 DEF ClearEmpty, Typed, TypeOK, Seconds, Handling, settings, receiver, info, check, cali, history
<1> QED
  BY <1>2, <1>3, <1>4

LEMMA CopyTypes == ASSUME Typed, Past, Copy PROVE Typed'
<1>1. TypeOK
  BY DEF Typed
<1>2. frames' \in Seq(FrameMsg) /\ good' \in Nat
  BY <1>1, FramesAre DEF Copy, TypeOK
<1>3. pc' = "clear" /\ UNCHANGED <<settings, receiver, tod_recv_buf, tod_sem, info, check, cali, late>>
  BY DEF Copy
<1> QED
  BY <1>1, <1>2, <1>3 DEF Typed, TypeOK, Seconds, FrameMsg, Handling, settings, receiver, info, check, cali

(* What Wipe leaves of every half.                                         *)
LEMMA ZeroIsMsg == Zero \in HalfMsg /\ Zero.kind = "zero" /\ Zero.sec = Nothing
<1>1. Nothing \in Seconds
  BY TodPpsAssumption DEF Nothing, Seconds
<1> QED
  BY <1>1 DEF Zero, HalfMsg, XlStates

LEMMA ClearTypes == ASSUME Typed, Clear \/ Wipe PROVE Typed'
<1>1. TypeOK
  BY DEF Typed
<1>2. CASE Clear
  BY <1>1, <1>2 DEF Clear, Typed, TypeOK, Seconds, Handling, settings, receiver, check, cali, history
<1>3. CASE Wipe
  <2>1. tod_recv_buf' \in Seq(HalfMsg)
    <3>1. tod_recv_buf \in Seq(HalfMsg)
      BY <1>1 DEF TypeOK, HalfMsg, XlStates
    <3>2. DOMAIN tod_recv_buf = 1 .. Len(tod_recv_buf) /\ Len(tod_recv_buf) \in Nat
      BY <3>1
    <3>3. tod_recv_buf' = [i \in DOMAIN tod_recv_buf |-> Zero]
      BY <1>3 DEF Wipe, Zero
    <3> QED
      BY <3>2, <3>3, ZeroIsMsg
  <2>2. /\ pc' = IF frames = << >> THEN "wait" ELSE "parse"
        /\ UNCHANGED <<settings, receiver, tod_sem, frames, info, check, cali, history>>
    BY <1>3 DEF Wipe
  <2> QED
    BY <1>1, <2>1, <2>2
       DEF Typed, TypeOK, Seconds, HalfMsg, XlStates, Handling, settings, receiver, info, check, cali, history
<1> QED
  BY <1>2, <1>3

LEMMA HandleTypes == ASSUME Typed, Past, Parse \/ Check \/ Add PROVE Typed'
<1>1. TypeOK /\ frames \in Seq(FrameMsg) /\ pc \in Handling /\ frames # << >>
  BY DEF Typed, TypeOK, FrameMsg, Parse, Check, Add, Handling
<1>2. /\ frames' \in Seq(FrameMsg)
      /\ pc' \in {"wait"} \cup Handling
      /\ pc' = "wait" => frames' = << >>
      /\ pc' \in Handling => frames' # << >>
  <2>1. CASE NextFrame
    BY <2>1, <1>1, NextFrameTypes DEF Handling
  <2>2. CASE pc' \in {"check", "add"} /\ UNCHANGED frames
    BY <2>2, <1>1 DEF Handling
  <2> QED
    BY <2>1, <2>2 DEF Parse, Check, Add
<1>3. status' \in BOOLEAN /\ total_sec' \in Seconds /\ misread' \in BOOLEAN /\ misprepared' \in BOOLEAN
  <2>1. Head(frames) \in FrameMsg
    BY <1>1
  <2>2. /\ Head(frames).sec \in Seconds /\ Head(frames).valid \in BOOLEAN
        /\ Head(frames).clean \in BOOLEAN
    BY <2>1 DEF FrameMsg
  <2>3. /\ status \in BOOLEAN /\ total_sec \in Seconds /\ misread \in BOOLEAN
        /\ misprepared \in BOOLEAN
    BY <1>1 DEF TypeOK
  <2>4. CASE Parse
    BY <2>2, <2>3, <2>4 DEF Parse, check
  <2>5. CASE Check
    <3>1. status' \in {status, FALSE, status /\ total_sec = last_valid_tod + 1}
      BY <2>5 DEF Check, info
    <3>2. UNCHANGED <<total_sec, misread>> /\ misprepared' \in {misprepared, misread}
      BY <2>5 DEF Check, info
    <3> QED
      BY <3>1, <3>2, <2>3
  <2>6. CASE Add
    BY <2>3, <2>6 DEF Add, info
  <2> QED
    BY <2>4, <2>5, <2>6
<1>4. /\ first_tod_check' \in BOOLEAN /\ last_valid_tod' \in Seconds
      /\ aligned' \in 0 .. MaxSecond + 1 /\ (pc' = "add" => aligned' \in Seconds)
  <2>1. /\ first_tod_check \in BOOLEAN /\ last_valid_tod \in Seconds /\ total_sec \in Seconds
        /\ aligned \in 0 .. MaxSecond + 1 /\ now \in 0 .. MaxSecond /\ MaxSecond \in Nat
    BY <1>1, TodPpsAssumption DEF TypeOK, Seconds
  <2>2. first_tod_check' \in BOOLEAN
    BY <2>1 DEF Parse, Check, Add, check
  <2>3. last_valid_tod' \in {last_valid_tod, total_sec}
    BY DEF Parse, Check, Add, check
  <2>4. CASE Add
    <3>1. aligned \in Seconds /\ aligned' = aligned + 1 /\ pc' # "add"
      BY <2>4 DEF Typed, Add, NextFrame
    <3>2. aligned' \in 0 .. MaxSecond + 1
      BY <3>1, <2>1 DEF Seconds
    <3> QED
      BY <3>1, <3>2, <2>1, <2>2, <2>3
  <2>5. CASE Parse
    <3>1. aligned' = aligned /\ pc' # "add"
      BY <2>5 DEF Parse, check, NextFrame
    <3> QED
      BY <3>1, <2>1, <2>2, <2>3
  <2>6. CASE Check
    <3>1. (aligned' = aligned /\ pc' # "add") \/ aligned' = total_sec
      BY <2>6 DEF Check, check, NextFrame
    <3>2. total_sec \in 0 .. MaxSecond + 1
      BY <2>1 DEF Seconds
    <3> QED
      BY <3>1, <3>2, <2>1, <2>2, <2>3
  <2> QED
    BY <2>4, <2>5, <2>6
<1>5. UNCHANGED <<settings, receiver, tod_recv_buf, tod_sem, cali, history>>
  BY DEF Parse, Check, Add
<1> QED
  BY <1>1, <1>2, <1>3, <1>4, <1>5
     DEF Typed, TypeOK, FrameMsg, Handling, settings, receiver, cali, history

LEMMA StepTypes == ASSUME Typed, Past, [Next]_vars PROVE Typed'
<1>1. CASE UNCHANGED vars
  <2>1. UNCHANGED << <<std, verbose>>, <<now, sent, fix, garbled>>, tod_recv_buf, tod_sem, pc, frames >>
    BY <1>1 DEF vars, settings, receiver
  <2>2. UNCHANGED << <<status, total_sec, misread>>,
                     <<first_tod_check, last_valid_tod, aligned, misprepared>>,
                     <<modify_sec_en, g_cali_cnt, fpga>>, <<good, late>> >>
    BY <1>1 DEF vars, info, check, cali, history
  <2> QED
    BY <2>1, <2>2 DEF Typed, TypeOK, Seconds, Handling
<1> QED
  BY <1>1, PpsTypes, UartTypes, PollTypes, CopyTypes, ClearTypes, HandleTypes DEF Next, Task

-----------------------------------------------------------------------------
(* No second but one read from noise is from the future.                   *)

LEMMA Numbers ==
  ASSUME Typed
  PROVE  /\ now \in Nat /\ now >= 1 /\ sent \in 0 .. 2 /\ good \in Nat
         /\ total_sec \in Nat /\ last_valid_tod \in Nat /\ aligned \in Nat /\ fpga \in Int
         /\ tod_recv_buf \in Seq(HalfMsg) /\ frames \in Seq(FrameMsg)
         /\ \A i \in DOMAIN tod_recv_buf : tod_recv_buf[i] \in HalfMsg /\ tod_recv_buf[i].sec \in Nat
         /\ \A i \in DOMAIN frames : frames[i] \in FrameMsg /\ frames[i].sec \in Nat
<1>1. /\ now \in Nat /\ now >= 1 /\ sent \in 0 .. 2 /\ good \in Nat
      /\ total_sec \in Nat /\ last_valid_tod \in Nat /\ aligned \in Nat /\ fpga \in Int
  BY TodPpsAssumption DEF Typed, TypeOK, Seconds
<1>2. tod_recv_buf \in Seq(HalfMsg) /\ frames \in Seq(FrameMsg)
  BY DEF Typed, TypeOK, HalfMsg, XlStates, FrameMsg
<1>3. \A h \in HalfMsg : h.sec \in Nat
  BY DEF HalfMsg, Seconds
<1>4. \A f \in FrameMsg : f.sec \in Nat
  BY DEF FrameMsg, Seconds
<1> QED
  BY <1>1, <1>2, <1>3, <1>4

LEMMA InitPast == Init => Past /\ TailIsLast
BY DEF Init, Past, TailIsLast

LEMMA ArrivesPast ==
  ASSUME Typed, NEW half \in HalfMsg, Arrives(half)
  PROVE  \A i \in DOMAIN tod_recv_buf' :
           \/ i \in DOMAIN tod_recv_buf /\ tod_recv_buf'[i] = tod_recv_buf[i]
           \/ tod_recv_buf'[i] = half
BY Numbers DEF Arrives

LEMMA WipePast ==
  ASSUME Typed, Wipe
  PROVE  \A i \in DOMAIN tod_recv_buf' : tod_recv_buf'[i] = Zero
BY DEF Wipe, Zero

LEMMA PastStep == ASSUME Typed, Past, [Next]_vars PROVE Past'
<1>1. SUFFICES /\ \A i \in DOMAIN tod_recv_buf' :
                    tod_recv_buf'[i].kind # "noise" => tod_recv_buf'[i].sec <= now'
               /\ \A i \in DOMAIN frames' : frames'[i].clean => frames'[i].sec <= now'
               /\ ~misread' => total_sec' <= now'
               /\ ~misprepared' => aligned' <= now' + 1 /\ (pc' = "add" => aligned' <= now')
  BY DEF Past
<1>2. /\ \A i \in DOMAIN tod_recv_buf : tod_recv_buf[i].kind # "noise" => tod_recv_buf[i].sec <= now
      /\ \A i \in DOMAIN frames : frames[i].clean => frames[i].sec <= now
      /\ ~misread => total_sec <= now
      /\ ~misprepared => aligned <= now + 1 /\ (pc = "add" => aligned <= now)
  BY DEF Past
<1>3. CASE Pps
  <2>1. UNCHANGED <<tod_recv_buf, pc, frames, total_sec, misread, aligned, misprepared>> /\ now' = now + 1
    BY <1>3 DEF Pps, info, check
  <2>2. \A x \in Nat : x <= now => x <= now'
    BY <2>1, Numbers
  <2>3. aligned <= now + 1 => aligned <= now' + 1
    BY <2>1, Numbers
  <2> QED
    BY <2>1, <2>2, <2>3, <1>2, Numbers
<1>4. CASE Receive \/ Garble
  <2>1. PICK half \in HalfMsg : Arrives(half) /\ (half = Half \/ half.kind = "noise")
    BY <1>4, ComesAs DEF Typed
  <2>2. UNCHANGED <<now, pc, frames, total_sec, misread, aligned, misprepared>>
    BY <2>1 DEF Arrives, info, check
  <2>3. half.kind # "noise" => half.sec <= now
    BY <2>1, HalfIsMsg, Numbers DEF Typed
  <2>4. \A i \in DOMAIN tod_recv_buf' : tod_recv_buf'[i].kind # "noise" => tod_recv_buf'[i].sec <= now
    BY <1>2, <2>1, <2>3, ArrivesPast
  <2> QED
    BY <2>2, <2>4, <1>2
<1>5. CASE Lose \/ Take \/ Timeout \/ UNCHANGED vars
  <2>1. UNCHANGED <<now, tod_recv_buf, frames, total_sec, misread, aligned, misprepared>>
    BY <1>5 DEF Lose, Take, Timeout, vars, receiver, info, check
  <2>2. pc' = pc \/ pc' # "add"
    BY <1>5 DEF Lose, Take, Timeout, vars
  <2> QED
    BY <2>1, <2>2, <1>2
<1>6. CASE ClearEmpty \/ Clear
  <2>1. /\ UNCHANGED <<now, frames, total_sec, misread, aligned, misprepared>>
        /\ tod_recv_buf' = << >> /\ pc' # "add"
    BY <1>6 DEF ClearEmpty, Clear, receiver, info, check
  <2> QED
    BY <2>1, <1>2
<1>7. CASE Copy
  <2>1. UNCHANGED <<now, tod_recv_buf, total_sec, misread, aligned, misprepared>> /\ pc' # "add"
    BY <1>7 DEF Copy, receiver, info, check
  <2>2. \A i \in DOMAIN frames' : frames'[i].clean => frames'[i].sec <= now
    BY <1>7, FramesAre DEF Copy, Typed
  <2> QED
    BY <2>1, <2>2, <1>2
<1>8. CASE Wipe
  <2>1. UNCHANGED <<now, frames, total_sec, misread, aligned, misprepared>> /\ pc' # "add"
    BY <1>8 DEF Wipe, receiver, info, check
  <2>2. Zero.sec <= now
    BY ZeroIsMsg, Numbers DEF Nothing
  <2>3. \A i \in DOMAIN tod_recv_buf' : tod_recv_buf'[i].sec <= now
    BY <1>8, <2>2, WipePast
  <2> QED
    BY <2>1, <2>3, <1>2
<1>9. CASE Parse \/ Check \/ Add
  <2>1. frames # << >> /\ frames \in Seq(FrameMsg)
    BY <1>9, Numbers DEF Typed, Handling, Parse, Check, Add
  <2>2. UNCHANGED <<now, tod_recv_buf>>
    BY <1>9 DEF Parse, Check, Add, receiver
  <2>3. \A i \in DOMAIN frames' : frames'[i].clean => frames'[i].sec <= now
    BY <2>1, <1>2, <1>9, NextFrameTypes DEF Parse, Check, Add
  <2>4. Head(frames).clean \in BOOLEAN /\ (Head(frames).clean => Head(frames).sec <= now)
    <3>1. Head(frames) = frames[1] /\ 1 \in DOMAIN frames /\ frames[1] \in FrameMsg
      BY <2>1
    <3> QED
      BY <3>1, <1>2 DEF FrameMsg
  <2>5. ~misread' => total_sec' <= now
    <3>1. CASE UNCHANGED <<total_sec, misread>>
      BY <3>1, <1>2
    <3>2. CASE total_sec' = Head(frames).sec /\ misread' = ~Head(frames).clean
      BY <3>2, <2>4
    <3> QED
      BY <3>1, <3>2, <1>9 DEF Parse, Check, Add, info
  <2>6. CASE Parse
    <3>1. aligned' = aligned /\ misprepared' = misprepared /\ pc' # "add"
      BY <2>6 DEF Parse, check, NextFrame
    <3> QED
      BY <3>1, <2>2, <2>3, <2>5, <1>2
  <2>7. CASE Check
    <3>1. CASE aligned' = aligned /\ misprepared' = misprepared /\ pc' # "add"
      BY <3>1, <2>2, <2>3, <2>5, <1>2
    <3>2. CASE aligned' = total_sec /\ misprepared' = misread
      <4>1. ~misprepared' => aligned' <= now
        BY <3>2, <1>2
      <4>2. aligned' \in Nat
        BY <3>2, Numbers
      <4>3. aligned' <= now => aligned' <= now + 1
        BY <4>2, Numbers
      <4>4. ~misprepared' => aligned' <= now + 1 /\ aligned' <= now
        BY <4>1, <4>3
      <4> QED
        BY <4>4, <1>2, <2>2, <2>3, <2>5
    <3> QED
      BY <3>1, <3>2, <2>7 DEF Check, check, NextFrame
  <2>8. CASE Add
    <3>1. aligned' = aligned + 1 /\ misprepared' = misprepared /\ pc' # "add" /\ pc = "add"
      BY <2>8 DEF Add, NextFrame
    <3>2. aligned <= now => aligned' <= now + 1
      BY <3>1, Numbers
    <3> QED
      BY <3>1, <3>2, <2>2, <2>3, <2>5, <1>2
  <2> QED
    BY <1>9, <2>6, <2>7, <2>8
<1> QED
  BY <1>3, <1>4, <1>5, <1>6, <1>7, <1>8, <1>9 DEF Next, Task

LEMMA TailStep == ASSUME Typed, Past, TailIsLast, [Next]_vars PROVE TailIsLast'
<1>1. \A i \in DOMAIN tod_recv_buf :
        tod_recv_buf[i].kind = "tail" => tod_recv_buf[i].sec \in Nat /\ tod_recv_buf[i].sec <= now
  BY Numbers DEF Past
<1>2. CASE Pps
  <2>1. tod_recv_buf' = tod_recv_buf /\ now' = now + 1
    BY <1>2 DEF Pps
  <2>2. \A i \in DOMAIN tod_recv_buf : tod_recv_buf[i].kind = "tail" => tod_recv_buf[i].sec # now'
    BY <1>1, <2>1, Numbers
  <2> QED
    BY <2>1, <2>2 DEF TailIsLast
<1>3. CASE Receive \/ Garble
  <2>1. PICK half \in HalfMsg : Arrives(half) /\ (half = Half \/ half.kind = "noise")
    BY <1>3, ComesAs DEF Typed
  <2>2. now' = now /\ sent' = sent + 1 /\ sent < 2
    BY <2>1 DEF Arrives
  <2>3. half.kind = "tail" => sent' = 2
    <3>1. half.kind = "tail" => sent # 0
      BY <2>1, HalfIsMsg DEF Typed
    <3> QED
      BY <3>1, <2>2, Numbers
  <2>4. \A i \in DOMAIN tod_recv_buf :
          ~(tod_recv_buf[i].kind = "tail" /\ tod_recv_buf[i].sec = now)
    BY <2>2 DEF TailIsLast
  <2> QED
    BY <2>1, <2>2, <2>3, <2>4, ArrivesPast DEF TailIsLast
<1>4. CASE Lose
  <2>1. now' = now /\ tod_recv_buf' = tod_recv_buf /\ sent < 2
    BY <1>4 DEF Lose
  <2> QED
    BY <2>1, Numbers DEF TailIsLast
<1>5. CASE UNCHANGED <<now, sent, tod_recv_buf>>
  BY <1>5 DEF TailIsLast
<1>6. CASE UNCHANGED <<now, sent>> /\ tod_recv_buf' = << >>
  BY <1>6 DEF TailIsLast
<1>7. CASE Wipe
  <2>1. ASSUME NEW i \in DOMAIN tod_recv_buf' PROVE tod_recv_buf'[i].kind # "tail"
    BY <1>7, ZeroIsMsg, WipePast
  <2> QED
    BY <2>1 DEF TailIsLast
<1> QED
  BY <1>2, <1>3, <1>4, <1>5, <1>6, <1>7
     DEF Next, Task, Take, Timeout, ClearEmpty, Copy, Clear, Parse, Check, Add, vars, receiver

-----------------------------------------------------------------------------
(* A good second's time on its way.                                        *)

LEMMA WholeFrames ==
  ASSUME Typed, TailIsLast, Whole(tod_recv_buf)
  PROVE  sent = 2 /\ Frames(tod_recv_buf) = << [sec |-> now, valid |-> TRUE, clean |-> TRUE] >>
<1> DEFINE n == Len(tod_recv_buf)
<1>1. tod_recv_buf \in Seq(HalfMsg) /\ n \in Nat /\ n >= 2 /\ DOMAIN tod_recv_buf = 1 .. n
  BY Numbers DEF Whole
<1>2. tod_recv_buf[n - 1] = Message("head") /\ tod_recv_buf[n] = Message("tail")
  BY DEF Whole
<1>3. /\ tod_recv_buf[n - 1].kind = "head" /\ tod_recv_buf[n].kind = "tail"
      /\ tod_recv_buf[n - 1].sec = now /\ tod_recv_buf[n].sec = now
      /\ tod_recv_buf[n - 1].valid = fix
  BY <1>2, HalfIsMsg DEF Typed
<1>4. sent = 2
  BY <1>1, <1>3 DEF TailIsLast
<1>5. CASE std
  <2>1. fix = TRUE
    BY <1>5 DEF Whole, Typed, TypeOK
  <2>2. StdFrames(tod_recv_buf) = << StdFrame(tod_recv_buf[n - 1]) >>
    BY <1>1, <1>3, StdWhole
  <2>3. StdFrame(tod_recv_buf[n - 1]) = [sec |-> now, valid |-> TRUE, clean |-> TRUE]
    BY <1>3, <2>1 DEF StdFrame
  <2> QED
    BY <1>4, <1>5, <2>2, <2>3 DEF Frames
<1>6. CASE ~std
  <2>1. n = 2
    BY <1>6 DEF Whole
  <2>2. XlFrames(tod_recv_buf) = << [sec |-> tod_recv_buf[2].sec, valid |-> TRUE, clean |-> TRUE] >>
    BY <1>1, <1>3, <2>1, XlWhole
  <2> QED
    BY <1>3, <1>4, <1>6, <2>1, <2>2 DEF Frames
<1> QED
  BY <1>5, <1>6

(* The only frame is handled.                                              *)
LEMMA OnlyFrame ==
  ASSUME NEW f, frames = << f >>
  PROVE  /\ frames # << >> /\ Head(frames) = f /\ Tail(frames) = << >>
         /\ NextFrame => pc' = "wait" /\ frames' = << >>
BY DEF NextFrame

LEMMA OnTrackPps ==
  ASSUME Typed, OnTrack, good >= 1, Pps, good' >= 1
  PROVE  OnTrack'
<1>1. pc = "wait" /\ ~tod_sem
  BY DEF Pps
<1>2. Baseline(now)
  BY <1>1 DEF OnTrack
<1>3. pc' = "wait" /\ tod_sem' /\ now' = now + 1 /\ UNCHANGED <<first_tod_check, last_valid_tod>>
  BY <1>1 DEF Pps, check
<1>4. Baseline(now - 1)'
  BY <1>2, <1>3, Numbers DEF Baseline
<1> QED
  BY <1>3, <1>4 DEF OnTrack, Handling

LEMMA OnTrackUart ==
  ASSUME Typed, OnTrack, Receive \/ Garble \/ Lose \/ Take
  PROVE  OnTrack'
<1>1. CASE Receive \/ Garble \/ Lose
  <2>1. UNCHANGED <<now, tod_sem, pc, frames, status, total_sec, first_tod_check, last_valid_tod, aligned, good>>
    BY <1>1 DEF Receive, Garble, Arrives, Lose, info, check, history
  <2>2. sent < 2 /\ sent # 2
    BY <1>1, Numbers DEF Receive, Garble, Arrives, Lose
  <2>3. pc \notin {"clear", "wipe"} \cup Handling
    BY <2>2 DEF OnTrack
  <2> QED
    BY <2>1, <2>2, <2>3 DEF OnTrack, Baseline, Handling
<1>2. CASE Take
  <2>1. UNCHANGED <<now, sent, tod_recv_buf, first_tod_check, last_valid_tod>>
    BY <1>2 DEF Take, receiver, check
  <2>2. pc = "wait" /\ tod_sem /\ pc' = "poll"
    BY <1>2 DEF Take
  <2> QED
    BY <2>1, <2>2 DEF OnTrack, Baseline, Handling
<1> QED
  BY <1>1, <1>2

LEMMA OnTrackCopy ==
  ASSUME Typed, TailIsLast, good >= 1 => OnTrack, Copy, good' >= 1
  PROVE  OnTrack'
<1>1. Whole(tod_recv_buf) /\ good' = good + 1
  BY DEF Copy
<1>2. sent = 2 /\ frames' = << [sec |-> now, valid |-> TRUE, clean |-> TRUE] >>
  BY <1>1, WholeFrames DEF Copy
<1>3. UNCHANGED <<now, sent, first_tod_check, last_valid_tod>> /\ pc' = "clear"
  BY DEF Copy, receiver, check
<1>4. good' >= 2 => Baseline(now - 1)
  <2>1. SUFFICES ASSUME good' >= 2 PROVE Baseline(now - 1)
    OBVIOUS
  <2>2. OnTrack
    BY <1>1, <2>1, Numbers
  <2> QED
    BY <2>2 DEF OnTrack, Copy
<1> QED
  BY <1>2, <1>3, <1>4 DEF OnTrack, Baseline, Handling

LEMMA OnTrackClear ==
  ASSUME Typed, OnTrack, Clear \/ Wipe
  PROVE  OnTrack'
<1>1. /\ pc \in {"clear", "wipe"}
      /\ UNCHANGED <<now, sent, frames, first_tod_check, last_valid_tod, good>>
  BY DEF Clear, Wipe, receiver, check, history
<1>2. /\ sent = 2 /\ frames = << [sec |-> now, valid |-> TRUE, clean |-> TRUE] >>
      /\ good >= 2 => Baseline(now - 1)
  BY <1>1 DEF OnTrack
<1>3. frames # << >>
  BY <1>2
<1>4. tod_recv_buf' = << >>
  <2>1. CASE Clear
    BY <2>1 DEF Clear
  <2>2. CASE Wipe
    <3>1. tod_recv_buf = << >>
      BY <2>2 DEF Wipe, OnTrack
    <3> QED
      BY <2>2, <3>1 DEF Wipe
  <2> QED
    BY <2>1, <2>2
<1>5. pc' \in {"wipe", "parse"}
  BY <1>3 DEF Clear, Wipe
<1> QED
  BY <1>1, <1>2, <1>4, <1>5 DEF OnTrack, Baseline, Handling

LEMMA OnTrackHandle ==
  ASSUME Typed, ~verbose, OnTrack, Parse \/ Check \/ Add
  PROVE  OnTrack'
<1> DEFINE f == [sec |-> now, valid |-> TRUE, clean |-> TRUE]
<1>1. /\ sent = 2 /\ frames = << f >> /\ tod_recv_buf = << >>
      /\ good >= 2 /\ pc # "add" => Baseline(now - 1)
  BY DEF OnTrack, Handling, Parse, Check, Add
<1>2. Head(frames) = f /\ (NextFrame => pc' = "wait" /\ frames' = << >>)
  BY <1>1, OnlyFrame
<1>3. f.sec = now /\ f.valid = TRUE
  OBVIOUS
<1>4. UNCHANGED <<now, sent, tod_recv_buf, tod_sem, good>>
  BY DEF Parse, Check, Add, receiver, history
<1> HIDE DEF f
<1>5. CASE Parse
  <2>1. Head(frames).sec = now /\ now # Nothing /\ Head(frames).valid = TRUE
    BY <1>2, <1>3, Numbers DEF Nothing
  <2>2. status' /\ total_sec' = now
    BY <1>5, <2>1 DEF Parse
  <2>3. pc' = "check" /\ frames' = frames /\ UNCHANGED <<first_tod_check, last_valid_tod>>
    BY <1>5, <2>2 DEF Parse, check
  <2>4. pc = "parse" /\ (good' >= 2 => first_tod_check' /\ last_valid_tod' = now' - 1)
    BY <1>1, <1>4, <1>5, <2>3 DEF Parse, Baseline
  <2>5. sent' = 2 /\ frames' = << [sec |-> now', valid |-> TRUE, clean |-> TRUE] >> /\ tod_recv_buf' = << >>
    BY <1>1, <1>4, <2>3 DEF f
  <2>6. total_sec' = now'
    BY <1>4, <2>2
  <2> QED
    BY <2>2, <2>3, <2>4, <2>5, <2>6 DEF OnTrack, Baseline, Handling
<1>6. CASE Check
  <2>1. status /\ total_sec = now
    BY <1>6 DEF OnTrack, Check
  <2>2. CASE ~first_tod_check
    <3>1. pc' = "wait" /\ first_tod_check' /\ last_valid_tod' = now
      BY <1>2, <1>6, <2>1, <2>2 DEF Check
    <3>2. ~(good >= 2)
      BY <1>1, <1>6, <2>2 DEF Check, Baseline
    <3> QED
      BY <1>1, <1>4, <3>1, <3>2 DEF OnTrack, Baseline, Handling
  <2>3. CASE first_tod_check
    <3>1. /\ status' = (status /\ total_sec = last_valid_tod + 1) /\ total_sec' = total_sec
          /\ aligned' = total_sec /\ pc' = "add" /\ UNCHANGED <<last_valid_tod, frames>>
          /\ first_tod_check'
      BY <1>6, <2>3 DEF Check
    <3>2. good >= 2 => status'
      <4>1. SUFFICES ASSUME good >= 2 PROVE total_sec = last_valid_tod + 1
        BY <2>1, <3>1
      <4>2. last_valid_tod = now - 1
        BY <4>1, <1>1, <1>6 DEF Check, Baseline
      <4> QED
        BY <4>2, <2>1, Numbers
    <3> QED
      BY <1>1, <1>4, <2>1, <3>1, <3>2 DEF OnTrack, Handling, f
  <2> QED
    BY <2>2, <2>3
<1>7. CASE Add
  <2>1. /\ total_sec = now /\ aligned = now /\ first_tod_check /\ (good >= 2 => status)
    BY <1>7 DEF OnTrack, Add
  <2>2. /\ aligned' = now + 1 /\ last_valid_tod' = now /\ pc' = "wait"
        /\ UNCHANGED <<first_tod_check, status>>
    BY <1>2, <1>7, <2>1 DEF Add, info
  <2> QED
    BY <1>1, <1>4, <2>1, <2>2 DEF OnTrack, Baseline, Handling
<1> QED
  BY <1>5, <1>6, <1>7

LEMMA OnTrackStep ==
  ASSUME RecoverInv, [Next]_vars, ~verbose', good' >= 1
  PROVE  OnTrack'
<1>0. verbose' = verbose
  BY DEF Next, Task, Pps, Receive, Garble, Arrives, Lose, Take, Timeout, ClearEmpty, Copy, Clear,
         Wipe, Parse, Check, Add, vars, settings
<1>1. Typed /\ Past /\ TailIsLast /\ ~verbose /\ (good >= 1 => OnTrack)
  BY <1>0 DEF RecoverInv
<1>2. CASE Copy
  BY <1>1, <1>2, OnTrackCopy
<1>3. CASE Timeout \/ ClearEmpty
  <2>1. good' = 0
    BY <1>1, <1>3 DEF Timeout, ClearEmpty, Typed, history
  <2> QED
    BY <2>1
<1>4. CASE UNCHANGED vars
  BY <1>1, <1>4 DEF vars, receiver, info, check, history, OnTrack, Baseline, Handling
<1>5. CASE Pps
  <2>1. good >= 1
    BY <1>5 DEF Pps, history
  <2> QED
    BY <1>1, <1>5, <2>1, OnTrackPps
<1>6. CASE Receive \/ Garble \/ Lose \/ Take \/ Clear \/ Wipe \/ Parse \/ Check \/ Add
  <2>1. good' = good
    BY <1>6 DEF Receive, Garble, Arrives, Lose, Take, Clear, Wipe, Parse, Check, Add, history
  <2> QED
    BY <1>1, <1>6, <2>1, OnTrackUart, OnTrackClear, OnTrackHandle
<1> QED
  BY <1>2, <1>3, <1>4, <1>5, <1>6 DEF Next, Task

-----------------------------------------------------------------------------
(* With NMEA and all in time.                                              *)

LEMMA InitCurrent == Init => Current
BY DEF Init, Current

LEMMA CurrentPps == ASSUME Typed, Current, Pps, ~late' PROVE Current'
<1>1. pc = "wait" /\ ~tod_sem
  BY DEF Pps
<1>2. tod_recv_buf = << >> /\ frames = << >>
  BY <1>1 DEF Current, Typed, TypeOK
<1>3. /\ tod_sem' /\ UNCHANGED <<tod_recv_buf, pc, frames, first_tod_check, aligned, misprepared>>
  BY DEF Pps, check
<1> QED
  BY <1>1, <1>2, <1>3 DEF Current

LEMMA CurrentUart ==
  ASSUME Typed, Current, Receive \/ Garble \/ Lose, ~late'
  PROVE  Current'
<1>1. /\ UNCHANGED <<now, tod_sem, pc, frames, status, total_sec, misread>>
      /\ UNCHANGED <<first_tod_check, aligned, misprepared>>
  BY DEF Receive, Garble, Arrives, Lose, info, check
<1>2. \A i \in DOMAIN tod_recv_buf' : tod_recv_buf'[i].kind # "noise" => tod_recv_buf'[i].sec = now
  <2>1. \A i \in DOMAIN tod_recv_buf : tod_recv_buf[i].kind # "noise" => tod_recv_buf[i].sec = now
    BY DEF Current
  <2>2. CASE Receive \/ Garble
    <3>1. PICK half \in HalfMsg : Arrives(half) /\ (half = Half \/ half.kind = "noise")
      BY <2>2, ComesAs DEF Typed
    <3>2. half.kind # "noise" => half.sec = now
      BY <3>1, HalfIsMsg DEF Typed
    <3> QED
      BY <2>1, <3>1, <3>2, ArrivesPast
  <2>3. CASE Lose
    BY <2>1, <2>3 DEF Lose
  <2> QED
    BY <2>2, <2>3
<1>3. tod_recv_buf' # << >> => tod_sem \/ pc \in {"poll", "clear"}
  BY DEF Receive, Garble, Arrives, Lose, Current
<1> QED
  BY <1>1, <1>2, <1>3 DEF Current

LEMMA CurrentPoll ==
  ASSUME Typed, Current, Take \/ Timeout \/ ClearEmpty
  PROVE  Current'
<1>1. UNCHANGED <<now, frames, total_sec, misread, first_tod_check, aligned, misprepared>>
  BY DEF Take, Timeout, ClearEmpty, receiver, info, check
<1>2. CASE Take
  BY <1>1, <1>2 DEF Take, Current
<1>3. CASE Timeout
  BY <1>1, <1>3 DEF Timeout, Current
<1>4. CASE ClearEmpty
  <2>1. status' = status /\ ~status /\ tod_sem' = tod_sem /\ ~tod_sem /\ pc' = "wait" /\ tod_recv_buf' = << >>
    BY <1>4 DEF ClearEmpty, Current, info
  <2> QED
    BY <1>1, <2>1 DEF Current
<1> QED
  BY <1>2, <1>3, <1>4

LEMMA CurrentCopy == ASSUME Typed, Current, std, Copy PROVE Current'
<1>1. frames' = StdFrames(tod_recv_buf) /\ tod_recv_buf \in Seq(HalfMsg)
  BY Numbers DEF Copy, Frames
<1>2. /\ UNCHANGED <<now, tod_recv_buf, tod_sem, first_tod_check, aligned, misprepared>>
      /\ pc = "poll" /\ pc' = "clear"
  BY DEF Copy, receiver, check
<1>3. Len(frames') <= 1 /\ \A j \in DOMAIN frames' : frames'[j].clean => frames'[j].sec = now
  <2>1. CASE frames' = << >>
    BY <2>1
  <2>2. ASSUME NEW i \in DOMAIN tod_recv_buf, frames' = << StdFrame(tod_recv_buf[i]) >>
        PROVE  Len(frames') <= 1 /\ \A j \in DOMAIN frames' : frames'[j].clean => frames'[j].sec = now
    <3> DEFINE f == StdFrame(tod_recv_buf[i])
    <3>1. f.clean => f.sec = now
      BY DEF Current, StdFrame
    <3> HIDE DEF f
    <3>2. frames' = << f >>
      BY <2>2 DEF f
    <3> QED
      BY <3>1, <3>2
  <2> QED
    BY <1>1, <2>1, <2>2, StdFramesAre
<1> QED
  BY <1>2, <1>3 DEF Current

LEMMA CurrentClear == ASSUME Typed, Current, std, Clear PROVE Current'
<1>1. /\ UNCHANGED <<now, tod_sem, frames, first_tod_check, aligned, misprepared>>
      /\ tod_recv_buf' = << >> /\ pc = "clear"
  BY DEF Clear, receiver, check
<1>2. pc' \in {"wait", "parse"} /\ (pc' = "wait" => ~status')
  BY DEF Clear
<1> QED
  BY <1>1, <1>2 DEF Current

LEMMA CurrentHandle ==
  ASSUME Typed, Current, std, Parse \/ Check \/ Add
  PROVE  Current'
<1>1. frames # << >> /\ frames \in Seq(FrameMsg) /\ pc \in Handling /\ now \in Nat /\ now # Nothing
  BY Numbers DEF Typed, Handling, Parse, Check, Add, Nothing
<1>2. Len(frames) <= 1 /\ \A i \in DOMAIN frames : frames[i].clean => frames[i].sec = now
  BY DEF Current
<1>3. /\ ~tod_sem /\ tod_recv_buf = << >>
      /\ ~first_tod_check => aligned = 0
      /\ pc = "check" => status /\ (misread \/ total_sec = now)
      /\ pc = "add" => first_tod_check /\ (misprepared \/ aligned = now)
  BY <1>1 DEF Current, Handling
<1>4. UNCHANGED <<now, tod_recv_buf, tod_sem>>
  BY DEF Parse, Check, Add, receiver
<1>5. (Head(frames).clean => Head(frames).sec = now) /\ Tail(frames) = << >>
  BY <1>1, <1>2
<1>6. NextFrame => pc' = "wait" /\ frames' = << >>
  BY <1>5 DEF NextFrame
<1>7. ASSUME UNCHANGED frames, pc' \in {"check", "add"},
             ~first_tod_check' => aligned' = 0,
             pc' = "check" => status' /\ (misread' \/ total_sec' = now),
             pc' = "add" => first_tod_check' /\ (misprepared' \/ aligned' = now)
      PROVE  Current'
  BY <1>2, <1>3, <1>4, <1>7 DEF Current
<1>8. ASSUME NextFrame,
             ~first_tod_check' => aligned' = 0,
             status' => misprepared' \/ aligned' \in {0, now + 1}
      PROVE  Current'
  BY <1>3, <1>4, <1>6, <1>8 DEF Current
<1>9. CASE Parse
  <2>1. UNCHANGED <<first_tod_check, aligned>>
    BY <1>9 DEF Parse, check
  <2>2. CASE status'
    <3>1. pc' = "check" /\ UNCHANGED frames
      BY <2>2, <1>9 DEF Parse
    <3>2. Head(frames).sec # Nothing
      BY <2>2, <1>9 DEF Parse
    <3>3. total_sec' = Head(frames).sec /\ misread' = ~Head(frames).clean
      BY <3>2, <1>9 DEF Parse
    <3>4. misread' \/ total_sec' = now
      BY <3>3, <1>5
    <3> QED
      BY <1>3, <1>7, <2>1, <2>2, <3>1, <3>4
  <2>3. CASE ~status'
    <3>1. NextFrame
      BY <2>3, <1>9 DEF Parse
    <3> QED
      BY <1>3, <1>8, <2>1, <2>3, <3>1
  <2> QED
    BY <2>2, <2>3
<1>10. CASE Check
  <2>1. status /\ (misread \/ total_sec = now) /\ first_tod_check'
    BY <1>3, <1>10 DEF Check
  <2>2. CASE ~first_tod_check
    <3>1. NextFrame /\ aligned' = 0
      BY <1>3, <1>10, <2>2 DEF Check
    <3> QED
      BY <1>8, <2>1, <3>1
  <2>3. CASE first_tod_check /\ ~(total_sec = last_valid_tod + 1) /\ verbose
    <3>1. NextFrame /\ ~status'
      BY <1>10, <2>3 DEF Check
    <3> QED
      BY <1>8, <2>1, <3>1
  <2>4. CASE first_tod_check /\ ~(~(total_sec = last_valid_tod + 1) /\ verbose)
    <3>1. aligned' = total_sec /\ misprepared' = misread /\ pc' = "add" /\ UNCHANGED frames
      BY <1>10, <2>4 DEF Check
    <3> QED
      BY <1>7, <2>1, <3>1
  <2> QED
    BY <2>2, <2>3, <2>4
<1>11. CASE Add
  <2>1. /\ NextFrame /\ aligned' = aligned + 1
        /\ UNCHANGED <<first_tod_check, misprepared>> /\ first_tod_check
    BY <1>3, <1>11 DEF Add
  <2>2. misprepared' \/ aligned' = now + 1
    BY <1>3, <1>11, <2>1 DEF Add
  <2> QED
    BY <1>8, <2>1, <2>2
<1> QED
  BY <1>9, <1>10, <1>11

LEMMA CurrentStep ==
  ASSUME Typed, std /\ ~late => Current, [Next]_vars, std', ~late'
  PROVE  Current'
<1>1. std /\ ~late
  <2>1. std' = std
    BY DEF Next, Task, Pps, Receive, Garble, Arrives, Lose, Take, Timeout, ClearEmpty, Copy, Clear,
           Wipe, Parse, Check, Add, vars, settings
  <2>2. late => late'
    BY DEF Next, Task, Pps, Receive, Garble, Arrives, Lose, Take, Timeout, ClearEmpty, Copy, Clear,
           Wipe, Parse, Check, Add, vars, history
  <2> QED
    BY <2>1, <2>2
<1>2. Current
  BY <1>1
<1>3. CASE Wipe
  BY <1>1, <1>3 DEF Wipe, Typed
<1>4. CASE UNCHANGED vars
  BY <1>2, <1>4 DEF vars, receiver, info, check, Current
<1> QED
  BY <1>1, <1>2, <1>3, <1>4, CurrentPps, CurrentUart, CurrentPoll, CurrentCopy, CurrentClear,
     CurrentHandle DEF Next, Task

-----------------------------------------------------------------------------
(* The invariant of every reachable state.                                 *)
THEOREM Invariance == Spec => []IInv
<1>1. Init => IInv
  <2>1. Init => good = 0
    BY DEF Init
  <2> QED
    BY <2>1, InitTypes, InitPast, InitCurrent DEF IInv, RecoverInv
<1>2. IInv /\ [Next]_vars => IInv'
  <2> SUFFICES ASSUME IInv, [Next]_vars PROVE IInv'
    OBVIOUS
  <2>1. RecoverInv /\ Typed /\ Past /\ TailIsLast /\ (std /\ ~late => Current)
    BY DEF IInv, RecoverInv
  <2>2. Typed' /\ Past' /\ TailIsLast'
    BY <2>1, StepTypes, PastStep, TailStep
  <2>3. ~verbose' /\ good' >= 1 => OnTrack'
    BY <2>1, OnTrackStep
  <2>4. std' /\ ~late' => Current'
    BY <2>1, CurrentStep
  <2> QED
    BY <2>2, <2>3, <2>4 DEF IInv, RecoverInv
<1> QED
  BY <1>1, <1>2, PTL DEF Spec

(* Two seconds in a row whose messages came whole and in time make the     *)
(* time valid and the prepared second the next one, for any interval of    *)
(* calibration and any history of lost, cut, garbled, late or invalid      *)
(* messages before, unless errors are printed (check_leap_second).         *)
THEOREM TwoGoodSecondsRecover == Spec => []RecoversInTwo
<1>1. IInv => RecoversInTwo
  <2> SUFFICES ASSUME IInv, ~verbose, pc = "wait", ~tod_sem, good >= 2
               PROVE  status /\ aligned = now + 1
    BY DEF RecoversInTwo, IInv, RecoverInv, Typed
  <2>1. good >= 1
    BY Numbers DEF IInv, RecoverInv
  <2> QED
    BY <2>1 DEF IInv, RecoverInv, OnTrack
<1> QED
  BY <1>1, Invariance, PTL

(* With NMEA nothing stale is written to the FPGA while every byte comes   *)
(* before the task is done with its second and the task is in time: for    *)
(* any messages lost, cut, garbled or invalid, but for a prepared second   *)
(* that was itself read from a garbled one (pps_intr).                     *)
THEOREM WritesTheNextSecond == Spec => NoStaleWrite
<1> DEFINE Fresh == std /\ now' # now /\ Calibrate /\ ~late' /\ ~misprepared => aligned \in {0, now'}
<1>1. IInv /\ [Next]_vars => [Fresh]_vars
  <2> SUFFICES ASSUME IInv, Next, std, now' # now, Calibrate, ~late', ~misprepared
               PROVE  aligned \in {0, now'}
    OBVIOUS
  <2>1. Pps
    BY DEF Next, Task, Receive, Garble, Arrives, Lose, Take, Timeout, ClearEmpty, Copy, Clear, Wipe,
           Parse, Check, Add, receiver
  <2>2. pc = "wait" /\ ~tod_sem /\ ~late /\ now' = now + 1
    BY <2>1 DEF Pps, history
  <2>3. Current /\ status
    BY <2>2 DEF IInv, Calibrate
  <2> QED
    BY <2>2, <2>3 DEF Current
<1> QED
  BY <1>1, Invariance, PTL DEF Spec, NoStaleWrite

(* The FPGA is never set ahead of the true second but by a second that was *)
(* itself read from a garbled message: with either receiver, and whatever  *)
(* is late, lost, cut or mixed with noise (pps_intr).                      *)
THEOREM NeverWritesAhead == Spec => NeverAhead
<1> DEFINE Behind == fpga' # fpga /\ ~misprepared => fpga' <= now'
<1>1. IInv /\ [Next]_vars => [Behind]_vars
  <2> SUFFICES ASSUME IInv, Next, fpga' # fpga, ~misprepared PROVE fpga' <= now'
    OBVIOUS
  <2>1. Pps
    BY DEF Next, Task, Receive, Garble, Arrives, Lose, Take, Timeout, ClearEmpty, Copy, Clear, Wipe,
           Parse, Check, Add, cali
  <2>2. fpga' = aligned /\ now' = now + 1
    BY <2>1 DEF Pps
  <2> QED
    BY <2>2 DEF IInv, RecoverInv, Past
<1> QED
  BY <1>1, Invariance, PTL DEF Spec, NeverAhead
=============================================================================

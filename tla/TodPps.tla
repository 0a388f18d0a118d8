------------------------------- MODULE TodPps -------------------------------
(***************************************************************************)
(* Keeping the FPGA's second counter right (CA53/a53/uartns550): every     *)
(* second the receiver raises the PPS line and then sends, over a UART,    *)
(* the time of day of that pulse.  The UART's interrupt collects the       *)
(* bytes; a task, woken by the PPS interrupt, waits until no more come,    *)
(* parses the message and prepares the second that begins at the next      *)
(* pulse; the PPS interrupt writes it to the FPGA, the first time it can   *)
(* and then every CaliSecond pulses.                                       *)
(*                                                                         *)
(* A message is cut in two halves: the head, and the tail that ends it.    *)
(* Each comes, is lost, or comes with bytes lost or turned: the code checks *)
(* neither the length nor the checksum of what it parses.                  *)
(* Time is the count of pulses; how long a task or the receiver takes      *)
(* within a second is not limited.  All run on one core, so interrupts     *)
(* fall between two steps of the task and never into one another.          *)
(***************************************************************************)
EXTENDS Integers, Sequences

CONSTANTS CaliSecond,   (* CALI_FPGA_SECOND                                 *)
          MaxSecond,    (* bound: the pulses of a run                       *)
          GarbledAs,    (* the seconds that noise may be parsed to, other    *)
                        (* than the true one                                *)
          MaxGarbled    (* bound: the halves of a run that come as noise    *)

ASSUME TodPpsAssumption ==
  /\ CaliSecond \in Nat \ {0} /\ MaxSecond \in Nat \ {0}
  /\ GarbledAs \subseteq 0 .. MaxSecond /\ MaxGarbled \in Nat

VARIABLES std, verbose, (* settings that stay: g_ant_type is STD_TYPE (NMEA *)
                        (* messages), else XL_TYPE; g_print_type is ERRORS  *)
                        (* or ALL                                           *)
          now, sent, fix,     (* the receiver: pulses so far, halves of the  *)
          garbled,            (* message sent, whether it says valid, halves *)
                              (* that came as noise so far                  *)
          tod_recv_buf, tod_sem,
          pc, frames,         (* the task: its step, frames to handle        *)
          status, total_sec,  (* g_gps_info                                 *)
          first_tod_check, last_valid_tod, aligned,
          modify_sec_en, g_cali_cnt,
          fpga,               (* W_SECOND_REG                               *)
          misread,            (* history: total_sec was read from noise      *)
          misprepared,        (* history: the prepared second was            *)
          good, late          (* history: seconds in a row whose message    *)
                              (* was handled within them; a byte came when  *)
                              (* the task was done with the second, or the  *)
                              (* task was not done by the end of it         *)

settings == <<std, verbose>>
receiver == <<now, sent, fix, garbled>>
info     == <<status, total_sec, misread>>
check    == <<first_tod_check, last_valid_tod, aligned, misprepared>>
cali     == <<modify_sec_en, g_cali_cnt, fpga>>
history  == <<good, late>>
vars     == <<settings, receiver, tod_recv_buf, tod_sem, pc, frames, info, check, cali, history>>

Nothing == 0     (* fpga before its first write, and the second of a frame  *)
                 (* in which no data is found                               *)

Init ==
  /\ std \in BOOLEAN /\ verbose \in BOOLEAN
  /\ now = 1 /\ sent = 2 /\ fix = FALSE /\ garbled = 0
  /\ tod_recv_buf = << >> /\ tod_sem = FALSE
  /\ pc = "wait" /\ frames = << >>
  /\ status = FALSE /\ total_sec = 0 /\ misread = FALSE
  /\ first_tod_check = FALSE /\ last_valid_tod = 0 /\ aligned = 0 /\ misprepared = FALSE
  /\ modify_sec_en = FALSE /\ g_cali_cnt = 1 /\ fpga = -1
  /\ good = 0 /\ late = FALSE

-----------------------------------------------------------------------------
(* pps_intr.                                                               *)
Calibrate == status /\ (~modify_sec_en \/ CaliSecond <= g_cali_cnt)

Pps ==
  /\ now < MaxSecond
  /\ now' = now + 1 /\ sent' = 0 /\ fix' \in {TRUE, ~std}
  /\ fpga' = IF Calibrate THEN aligned ELSE fpga
  /\ modify_sec_en' = (modify_sec_en \/ status)
  /\ g_cali_cnt' = CASE ~status -> g_cali_cnt
                     [] status /\ modify_sec_en /\ Calibrate -> 1
                     [] OTHER -> g_cali_cnt + 1
  /\ tod_sem' = TRUE
  /\ IF pc = "wait" /\ ~tod_sem
     THEN UNCHANGED history
     ELSE good' = 0 /\ late' = TRUE
  /\ UNCHANGED <<settings, garbled, tod_recv_buf, pc, frames, info, check>>

(* A half of the message comes, or is lost.                                *)
Message(kind) == [kind |-> kind, sec |-> now, valid |-> fix, to |-> "WAIT_SYNC", ends |-> FALSE]

Half == Message(IF sent = 0 THEN "head" ELSE "tail")

Arrives(half) ==
  /\ sent < 2 /\ sent' = sent + 1
  /\ tod_recv_buf' = Append(tod_recv_buf, half)
  /\ late' = (late \/ ~(tod_sem \/ pc = "poll"))
  /\ UNCHANGED <<settings, now, fix, tod_sem, pc, frames, info, check, cali, good>>

Receive == Arrives(Half) /\ UNCHANGED garbled

(* Bytes of it are lost or turned.  What is left ends a frame or not,      *)
(* leaves the parser in any state, and may hold any second, or none: which *)
(* also stands for a time that is read as invalid.                         *)
Noise(sec, to, ends) ==
  [kind |-> "noise", sec |-> sec, valid |-> TRUE, to |-> to, ends |-> ends]

Garble ==
  /\ garbled < MaxGarbled /\ garbled' = garbled + 1
  /\ \E sec \in GarbledAs, ends \in BOOLEAN,
        to \in {"WAIT_SYNC", "WAIT_VALID_FRAME", "RECVING"} :
       /\ std => to # "WAIT_VALID_FRAME"
       /\ Arrives(Noise(sec, to, ends))

Lose ==
  /\ sent < 2 /\ sent' = sent + 1
  /\ UNCHANGED <<settings, now, fix, garbled, tod_recv_buf, tod_sem, pc, frames, info, check,
                 cali, history>>

-----------------------------------------------------------------------------
(* What is found in the buffer.  NMEA: the last line that has a head, up   *)
(* to the first end of line after it; its second is in its head, or it is  *)
(* what noise in the line makes of it.                                     *)
StdFrames(buf) ==
  LET IsNoise(i) == buf[i].kind = "noise"
      Heads  == {i \in DOMAIN buf : buf[i].kind = "head" \/ (IsNoise(i) /\ buf[i].to = "RECVING")}
      last   == CHOOSE i \in Heads : \A j \in Heads : j <= i
      Ends   == {i \in last .. Len(buf) : buf[i].kind = "tail" \/ (IsNoise(i) /\ buf[i].ends)}
      Noises == {i \in last .. Len(buf) : IsNoise(i) /\ \A j \in Ends : i <= j}
      from   == IF Noises = {} THEN last ELSE CHOOSE i \in Noises : TRUE
  IN  IF Heads = {} \/ Ends = {} THEN << >>
      ELSE << [sec |-> buf[from].sec, valid |-> buf[from].valid, clean |-> ~IsNoise(from)] >>

(* XL: frames begin and end with the same byte.  A tail that comes first   *)
(* is taken for a beginning, and costs the head after it; a head within a  *)
(* frame ends it before its data.  The second is in the tail, or in noise  *)
(* before that: the first data found in a frame count.                     *)
NoData == [sec |-> Nothing, clean |-> TRUE]

Data(half) == [sec |-> half.sec, clean |-> half.kind # "noise"]

XlStep(acc, half) ==
  LET To(state, data) == [state |-> state, data |-> data, frames |-> acc.frames]
      Collected == IF acc.data.sec = Nothing THEN Data(half) ELSE acc.data
      Frame(state, data) ==
        [state |-> state, data |-> NoData,
         frames |-> Append(acc.frames, [sec |-> data.sec, valid |-> TRUE, clean |-> data.clean])]
  IN  CASE half.kind = "noise" /\ half.ends -> Frame(half.to, Collected)
        [] half.kind = "noise" /\ ~half.ends /\ half.to = "RECVING" ->
             To("RECVING", Collected)
        [] half.kind = "noise" /\ ~half.ends /\ half.to # "RECVING" -> To(half.to, NoData)
        [] half.kind # "noise" /\ acc.state = "WAIT_SYNC" ->
             To([head |-> "RECVING", tail |-> "WAIT_VALID_FRAME",
                 zero |-> "WAIT_SYNC"][half.kind], NoData)
        [] half.kind # "noise" /\ acc.state = "WAIT_VALID_FRAME" ->
             To(IF half.kind = "tail" THEN "WAIT_VALID_FRAME" ELSE "WAIT_SYNC", NoData)
        [] half.kind # "noise" /\ acc.state = "RECVING" ->
             CASE half.kind = "head" -> Frame("WAIT_SYNC", acc.data)
               [] half.kind = "tail" -> Frame("WAIT_SYNC", Collected)
               [] half.kind = "zero" -> acc

XlBegin == [state |-> "WAIT_SYNC", data |-> NoData, frames |-> << >>]

XlFrames(buf) ==
  LET walk[n \in 0 .. Len(buf)] == IF n = 0 THEN XlBegin ELSE XlStep(walk[n - 1], buf[n])
  IN  walk[Len(buf)].frames

Frames(buf) == IF std THEN StdFrames(buf) ELSE XlFrames(buf)

(* For the properties: the buffer ends with this second's message, whole   *)
(* and valid; with XL, nothing comes before it.                            *)
Whole(buf) ==
  LET n == Len(buf) IN
  /\ n >= 2 /\ (std \/ n = 2)
  /\ buf[n - 1] = Message("head") /\ buf[n] = Message("tail")
  /\ std => fix

-----------------------------------------------------------------------------
(* uartns550_intr_handle.                                                  *)
Take ==
  /\ pc = "wait" /\ tod_sem
  /\ pc' = "poll" /\ tod_sem' = FALSE
  /\ UNCHANGED <<settings, receiver, tod_recv_buf, frames, info, check, cali, history>>

(* Mutant: the time stays valid when nothing comes.                        *)
TimeoutKeepsValid ==
  /\ pc = "poll" /\ tod_recv_buf = << >>
  /\ pc' = "empty" /\ good' = 0
  /\ UNCHANGED <<settings, receiver, tod_recv_buf, tod_sem, frames, info, check, cali, late>>

(* Nothing came: the time is invalid, and the buffer is cleared.           *)
Timeout ==
  /\ pc = "poll" /\ tod_recv_buf = << >>
  /\ pc' = "empty" /\ status' = FALSE
  /\ good' = 0
  /\ UNCHANGED <<settings, receiver, tod_recv_buf, tod_sem, frames, total_sec, misread, check, cali, late>>

ClearEmpty ==
  /\ pc = "empty"
  /\ tod_recv_buf' = << >> /\ pc' = "wait"
  /\ UNCHANGED <<settings, receiver, tod_sem, frames, info, check, cali, history>>

(* Bytes came and stopped, or time is up.  They are copied, and cleared    *)
(* after that: what the interrupt adds in between is lost.                 *)
Copy ==
  /\ pc = "poll" /\ tod_recv_buf # << >>
  /\ pc' = "clear" /\ frames' = Frames(tod_recv_buf)
  /\ good' = IF Whole(tod_recv_buf) THEN good + 1 ELSE 0
  /\ UNCHANGED <<settings, receiver, tod_recv_buf, tod_sem, info, check, cali, late>>

Clear ==
  /\ pc = "clear"
  /\ tod_recv_buf' = << >>
  /\ status' = (status /\ (std => frames # << >>))
  /\ pc' = CASE ~std -> "wipe"
             [] std /\ frames = << >> -> "wait"
             [] OTHER -> "parse"
  /\ UNCHANGED <<settings, receiver, tod_sem, frames, total_sec, misread, check, cali, history>>

(* With XL the buffer is filled with zeros once more; the count stays.     *)
Zero == [kind |-> "zero", sec |-> Nothing, valid |-> FALSE, to |-> "WAIT_SYNC", ends |-> FALSE]

Wipe ==
  /\ pc = "wipe"
  /\ tod_recv_buf' = [i \in DOMAIN tod_recv_buf |-> Zero]
  /\ pc' = IF frames = << >> THEN "wait" ELSE "parse"
  /\ UNCHANGED <<settings, receiver, tod_sem, frames, info, check, cali, history>>

NextFrame == /\ frames' = Tail(frames)
             /\ pc' = IF Tail(frames) = << >> THEN "wait" ELSE "parse"

(* parse_gps_info, parse_xl_gps_info: the fields of g_gps_info.  Without a *)
(* time NMEA makes it invalid, XL leaves it as it was.                     *)
Parse ==
  /\ pc = "parse"
  /\ LET frame == Head(frames) IN
     IF frame.sec = Nothing
     THEN status' = (status /\ ~std) /\ UNCHANGED <<total_sec, misread>>
     ELSE status' = frame.valid /\ total_sec' = frame.sec /\ misread' = ~frame.clean
  /\ IF status' \/ ~std THEN pc' = "check" /\ UNCHANGED frames
                        ELSE NextFrame
  /\ UNCHANGED <<settings, receiver, tod_recv_buf, tod_sem, check, cali, history>>

(* check_leap_second: the first time is only kept, a time that does not    *)
(* follow the one before makes the time invalid.                           *)
Check ==
  /\ pc = "check"
  /\ first_tod_check' = TRUE
  /\ LET follows == total_sec = last_valid_tod + 1 IN
     CASE ~first_tod_check ->
            /\ last_valid_tod' = total_sec
            /\ NextFrame
            /\ UNCHANGED <<info, aligned, misprepared>>
       [] first_tod_check /\ ~follows /\ verbose ->
            /\ status' = FALSE /\ UNCHANGED <<total_sec, misread, last_valid_tod, aligned, misprepared>>
            /\ NextFrame
       [] OTHER ->
            /\ status' = (status /\ follows) /\ UNCHANGED <<total_sec, misread>>
            /\ aligned' = total_sec /\ misprepared' = misread
            /\ pc' = "add" /\ UNCHANGED <<last_valid_tod, frames>>
  /\ UNCHANGED <<settings, receiver, tod_recv_buf, tod_sem, cali, history>>

(* Mutant: the baseline is kept.                                           *)
AddKeepsBaseline ==
  /\ pc = "add"
  /\ aligned' = aligned + 1
  /\ NextFrame
  /\ UNCHANGED <<settings, receiver, tod_recv_buf, tod_sem, info, first_tod_check,
                 last_valid_tod, misprepared, cali, history>>

(* Mutant: a second is added to the time that was already moved on.        *)
AddTwice ==
  /\ pc = "add"
  /\ aligned' = aligned + 2 /\ last_valid_tod' = total_sec
  /\ NextFrame
  /\ UNCHANGED <<settings, receiver, tod_recv_buf, tod_sem, info, first_tod_check, misprepared,
                 cali, history>>

(* gps_time_add_1_second, and the new baseline.                            *)
Add ==
  /\ pc = "add"
  /\ aligned' = aligned + 1 /\ last_valid_tod' = total_sec
  /\ NextFrame
  /\ UNCHANGED <<settings, receiver, tod_recv_buf, tod_sem, info, first_tod_check, misprepared,
                 cali, history>>

Task == Take \/ Timeout \/ ClearEmpty \/ Copy \/ Clear \/ Wipe \/ Parse \/ Check \/ Add

Next == Pps \/ Receive \/ Garble \/ Lose \/ Task

Spec == Init /\ [][Next]_vars
-----------------------------------------------------------------------------
Seconds == 0 .. MaxSecond

TypeOK ==
  /\ std \in BOOLEAN /\ verbose \in BOOLEAN
  /\ now \in Seconds /\ sent \in 0 .. 2 /\ fix \in BOOLEAN /\ garbled \in 0 .. MaxGarbled
  /\ tod_recv_buf \in
       Seq([kind : {"head", "tail", "noise", "zero"}, sec : Seconds, valid : BOOLEAN,
            to : {"WAIT_SYNC", "WAIT_VALID_FRAME", "RECVING"}, ends : BOOLEAN])
  /\ tod_sem \in BOOLEAN
  /\ pc \in {"wait", "poll", "empty", "clear", "wipe", "parse", "check", "add"}
  /\ frames \in Seq([sec : Seconds, valid : BOOLEAN, clean : BOOLEAN])
  /\ (pc = "wait") => frames = << >>
  /\ status \in BOOLEAN /\ total_sec \in Seconds /\ misread \in BOOLEAN
  /\ first_tod_check \in BOOLEAN /\ last_valid_tod \in Seconds
  /\ aligned \in 0 .. MaxSecond + 1 /\ misprepared \in BOOLEAN
  /\ modify_sec_en \in BOOLEAN /\ g_cali_cnt \in 1 .. CaliSecond + 1
  /\ fpga \in -1 .. MaxSecond + 1
  /\ good \in Nat /\ late \in BOOLEAN

(* Whatever was lost, garbled, late or invalid before: after two seconds   *)
(* in a row whose messages came whole and in time, the time is valid and   *)
(* the second prepared for the FPGA is the one that begins at the next     *)
(* pulse.  It is so unless errors are printed: the print's branch then has *)
(* taken the place of the one that keeps the new baseline                  *)
(* (uartns550.c:321-331).                                                  *)
RecoversInTwo ==
  /\ TypeOK
  /\ (~verbose /\ pc = "wait" /\ ~tod_sem /\ good >= 2)
       => status /\ aligned = now + 1

(* With NMEA, a second written to the FPGA is the one that begins, even    *)
(* when messages are lost, cut, garbled or invalid, if none comes after    *)
(* the task was done with the second, the task always is in time, and the  *)
(* prepared second itself was not read from a garbled message.  (Before    *)
(* the second valid message the value written is 0: no second is prepared  *)
(* yet when the first makes the time valid.)                               *)
NoStaleWrite ==
  [][(std /\ now' # now /\ Calibrate /\ ~late' /\ ~misprepared) => aligned \in {0, now'}]_vars

(* The FPGA's second is set ahead of the true one only by a second that    *)
(* was itself read from a garbled message, which nothing in the parsers    *)
(* refuses (gps.c:322-336, 389-431).  However else messages are cut, late  *)
(* or lost, invalid or mixed with noise, and whenever a pulse finds the    *)
(* task, with either receiver, it is not.                                  *)
NeverAhead == [][fpga' # fpga /\ ~misprepared => fpga' <= now']_vars
=============================================================================

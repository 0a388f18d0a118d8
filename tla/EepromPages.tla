---------------------------- MODULE EepromPages ----------------------------
(***************************************************************************)
(* freq_offset_calibration.c: the pages of calibration data in the R50's   *)
(* EEPROM and their copies in RAM.  A page has a header (signature, count, *)
(* checksum, a reserved word) and items.  A word is written as two halves, *)
(* 5 ms apart; either write may fail, which no caller looks at, and the    *)
(* power may go at any time.  The commands come from the shell, one after  *)
(* the other.                                                              *)
(*                                                                         *)
(* A checksum stands for the content it was computed over; its halves are  *)
(* those of two contents when its writing was cut short.  What the code    *)
(* reads back after a write is what it wrote.                              *)
(***************************************************************************)
EXTENDS Integers, Sequences

CONSTANTS Pages,       (* FREQ_OFF_TARGET_PAGES, in order                  *)
          MaxCount,    (* FREQ_OFF_MAX_DATA_COUNT, 252                     *)
          Half,        (* 2^16: the values of half a word                  *)
          Signature,   (* g_freq_off_signature                             *)
          Start,       (* the tables that were saved before, by page       *)
          Residue,     (* what the stack may hold in an unread word        *)
          Values, Counts,         (* bounds: the items and counts written  *)
          MaxCommand, MaxFault    (* bounds: commands; failures and cuts   *)

PageSet == {Pages[i] : i \in DOMAIN Pages}

ASSUME PagesAssumption == Pages \in Seq(Nat) /\ Pages # <<>>
ASSUME WordsAssumption == /\ {MaxCount, Half} \subseteq Nat \ {0} /\ {MaxCommand, MaxFault} \subseteq Nat
                          /\ Values \cup Residue \subseteq Int /\ Counts \subseteq 0 .. MaxCount - 1
                          /\ Signature \in Int \ {-1} /\ Start \in [PageSet -> Seq(Int)]

Blank == -1                       (* EEPROM_DEFAULT_VALUE                  *)
SignatureOff == 0
CountOff == 1
CrcOff == 2
ReservedOff == 3
Item(k) == k + 4                  (* the offset of item k, from 0          *)
Items == {Item(k) : k \in 0 .. MaxCount - 1}
WordOffs == {SignatureOff, CountOff, ReservedOff} \cup Items

VARIABLES
  word,                           (* the EEPROM: words by page and offset  *)
  crc,                            (* ... and the checksum of each page     *)
  cache,                          (* g_freq_off_cache                      *)
  frame,                          (* header and calib_data_temp of         *)
                                  (* freq_off_single_page_init             *)
  job,                            (* the command under way                 *)
  commands, faults,               (* bounds                                *)
  saved                           (* history: what each page was saved as, *)
                                  (* that is, what was read for the sum    *)

pageVars == <<word, crc, cache, frame, job, commands, faults, saved>>

(* What the checksum covers: the data, and the reserved word behind it.    *)
Content(w) == [i \in 1 .. w[CountOff] + 1 |->
                 IF i > w[CountOff] THEN w[ReservedOff] ELSE w[Item(i - 1)]]
NoSum == <<>>                                    (* a blank checksum       *)
Sum(c) == [high |-> c, low |-> c]

Filled(table) == [o \in WordOffs |->
  CASE o = SignatureOff          -> Signature
    [] o = CountOff              -> Len(table)
    [] o - 3 \in DOMAIN table    -> table[o - 3]
    [] OTHER                     -> Blank]

NoCopy == [valid |-> FALSE, data |-> NoSum, misread |-> FALSE]
NoFrame == [signature |-> Blank, count |-> Blank, crc |-> Sum(NoSum),
            temp |-> [k \in 0 .. MaxCount - 1 |-> Blank]]
NoJob == [cmd |-> "none", page |-> Pages[1], todo |-> <<>>, low |-> FALSE, next |-> 1]

PagesInit ==
  /\ word = [p \in PageSet |-> Filled(Start[p])]
  /\ crc = [p \in PageSet |-> Sum(Content(Filled(Start[p])))]
  /\ saved = [p \in PageSet |-> {Content(Filled(Start[p]))}]
  /\ cache = [p \in PageSet |-> NoCopy] /\ frame = NoFrame
  /\ job = NoJob /\ commands = 0 /\ faults = 0

-----------------------------------------------------------------------------
(* The commands of the shell: each is a list of words to write.            *)
Command(cmd, p, todo) ==
  /\ job = NoJob /\ commands < MaxCommand
  /\ job' = [NoJob EXCEPT !.cmd = cmd, !.page = p, !.todo = todo]
  /\ commands' = commands + 1
  /\ UNCHANGED <<word, crc, cache, frame, faults, saved>>

To(o, v) == [off |-> o, val |-> v]

(* freq_off_set_item writes nothing beyond the count.                      *)
SetItem(p, k, v) == k < word[p][CountOff] /\ Command("set", p, <<To(Item(k), v)>>)
SetCnt(p, n)      == Command("set", p, <<To(CountOff, n)>>)
SetReserved(p, v) == Command("set", p, <<To(ReservedOff, v)>>)
ResetPage(p)      == Command("set", p, [i \in 1 .. MaxCount + 4 |->
                                          To(i - 1, IF i - 1 = CrcOff THEN NoSum ELSE Blank)])
SavePageCfg(p)    == Command("save", p, <<To(SignatureOff, Signature)>>)
PagesInitCmd      == Command("init", Pages[1], <<>>)

High(v, old) == (v \div Half) * Half + (old % Half)
Low(v, old)  == (old \div Half) * Half + (v % Half)

(* eeprom_write_dac_calib_table, one eeprom_write_u16 of it: half a word,  *)
(* stored or (an I2C error) not.                                           *)
WriteU16(ok) ==
  LET w == Head(job.todo)
      p == job.page
  IN /\ job.todo # <<>>
     /\ ok \/ faults < MaxFault
     /\ faults' = IF ok THEN faults ELSE faults + 1
     /\ IF ok /\ w.off = CrcOff
        THEN crc' = IF job.low THEN [crc EXCEPT ![p].low = w.val] ELSE [crc EXCEPT ![p].high = w.val]
        ELSE UNCHANGED crc
     /\ IF ok /\ w.off # CrcOff
        THEN word' = [word EXCEPT ![p][w.off] = IF job.low THEN Low(w.val, @) ELSE High(w.val, @)]
        ELSE UNCHANGED word
     /\ job' = IF job.cmd = "set" /\ Len(job.todo) = 1 /\ job.low THEN NoJob
               ELSE [job EXCEPT !.low = ~@, !.todo = IF job.low THEN Tail(@) ELSE @]
     /\ UNCHANGED <<cache, frame, commands, saved>>

(* freq_off_save_page_cfg with the signature written: data and checksum.   *)
(* A read that fails (the offsets in bad) leaves the count 0, and of the   *)
(* data what the stack held.                                               *)
ComputeCrc(bad, residue) ==
  LET p == job.page
      n == IF CountOff \in bad THEN 0 ELSE word[p][CountOff]
      read(o) == IF o \in bad THEN residue ELSE word[p][o]
      c == [i \in 1 .. n + 1 |-> IF i > n THEN read(ReservedOff) ELSE read(Item(i - 1))]
  IN /\ job.cmd = "save" /\ job.todo = <<>>
     /\ bad # {} => faults < MaxFault
     /\ faults' = IF bad = {} THEN faults ELSE faults + 1
     /\ IF n \notin 0 .. MaxCount THEN job' = NoJob /\ UNCHANGED saved
        ELSE /\ job' = [NoJob EXCEPT !.cmd = "set", !.page = p, !.todo = <<To(CrcOff, c)>>]
             /\ saved' = [saved EXCEPT ![p] = @ \cup {c}]
     /\ UNCHANGED <<word, crc, cache, frame, commands>>

-----------------------------------------------------------------------------
(* Mutant: the checksum is not compared.                                   *)
AcceptableUnsummed(f) == f.signature = Signature /\ f.count <= MaxCount

(* What freq_off_single_page_init accepts.  (The code lets a negative      *)
(* count pass; the checksum of nothing then is not the page's.)            *)
Acceptable(f) ==
  /\ f.signature = Signature /\ f.count \in 0 .. MaxCount
  /\ f.crc = Sum([i \in 1 .. f.count + 1 |-> f.temp[i - 1]])

(* The locals of freq_off_single_page_init once page p is read, the        *)
(* offsets in bad without success: those keep what the page before left on *)
(* the stack.  Data is read only under a good header.                      *)
Loaded(p, bad) ==
  LET keep(o, old, new) == IF o \in bad THEN old ELSE new
      n  == keep(CountOff, frame.count, word[p][CountOff])
      sg == keep(SignatureOff, frame.signature, word[p][SignatureOff])
  IN [signature |-> sg, count |-> n, crc |-> keep(CrcOff, frame.crc, crc[p]),
      temp |-> [k \in 0 .. MaxCount - 1 |->
        IF sg # Signature \/ k > n THEN frame.temp[k]
        ELSE IF k = n THEN keep(ReservedOff, frame.temp[k], word[p][ReservedOff])
        ELSE keep(Item(k), frame.temp[k], word[p][Item(k)])]]

(* freq_off_pages_init, one page.  The first page that is not accepted     *)
(* ends it; the copies of that and of later pages stay.                    *)
SinglePageInit(bad) ==
  LET p == Pages[job.next]
      f == Loaded(p, bad)
  IN /\ job.cmd = "init"
     /\ bad # {} => faults < MaxFault
     /\ faults' = IF bad = {} THEN faults ELSE faults + 1
     /\ IF Acceptable(f)
        THEN cache' = [cache EXCEPT ![p] = [valid |-> TRUE, misread |-> bad # {},
                         data |-> [i \in 1 .. f.count + 1 |-> f.temp[i - 1]]]]
        ELSE UNCHANGED cache
     /\ IF Acceptable(f) /\ job.next < Len(Pages)
        THEN job' = [job EXCEPT !.next = @ + 1] /\ frame' = f
        ELSE job' = NoJob /\ frame' = NoFrame
     /\ UNCHANGED <<word, crc, commands, saved>>

(* The power goes; RAM is lost.                                            *)
PowerCut ==
  /\ faults < MaxFault /\ faults' = faults + 1
  /\ cache' = [p \in PageSet |-> NoCopy] /\ frame' = NoFrame /\ job' = NoJob
  /\ UNCHANGED <<word, crc, commands, saved>>

PagesNext ==
  \/ \E p \in PageSet, k \in 0 .. MaxCount - 1, v \in Values : SetItem(p, k, v)
  \/ \E p \in PageSet, n \in Counts : SetCnt(p, n)
  \/ \E p \in PageSet, v \in Values : SetReserved(p, v)
  \/ \E p \in PageSet : ResetPage(p) \/ SavePageCfg(p)
  \/ PagesInitCmd
  \/ \E ok \in BOOLEAN : WriteU16(ok)
  \/ \E bad \in {{}, WordOffs} \cup {{o} : o \in WordOffs}, residue \in Residue :
       ComputeCrc(bad, residue)
  \/ \E bad \in {{}, WordOffs \cup {CrcOff}} \cup {{o} : o \in WordOffs \cup {CrcOff}} :
       SinglePageInit(bad)

-----------------------------------------------------------------------------
(* A valid copy in RAM is what its page held, complete, when it was saved, *)
(* as far as the save could read it: never a half-written word, an edit    *)
(* without a save or a mixture of two saves.  When reads failed in the     *)
(* load it is what some page was saved as: that of the page before, when   *)
(* they all did.                                                           *)
LoadedWasSaved ==
  \A p \in PageSet : cache[p].valid =>
    cache[p].data \in IF cache[p].misread THEN UNION {saved[q] : q \in PageSet} ELSE saved[p]
=============================================================================

------------------------------ MODULE TrxGain ------------------------------
(***************************************************************************)
(* set_trx_gain.c: the gain of the transmitter and the two levels of the   *)
(* receiver, set from tables that are calibration pages (EepromPages) and  *)
(* read from the EEPROM on every look, whether or not their page is valid. *)
(* A read that fails gives 0.  The tables should fall from the first entry *)
(* to the last.  The index found goes to the FPGA and, with the gain, to   *)
(* the EEPROM.                                                             *)
(***************************************************************************)
EXTENDS EepromPages

CONSTANTS DsaMax,      (* DSA_INDEX_MAX, 0x3f                              *)
          PowerUp,     (* what the FPGA's registers may hold at first      *)
          Gains        (* bound: the gains that are asked for              *)

TxPage == 5                       (* TX_GAIN_PAGE                          *)
Rx1Page == 6                      (* RX_LEVEL1_GAIN_PAGE                   *)
Rx2Page == 7                      (* RX_LEVEL2_GAIN_PAGE                   *)
First == Item(0)                  (* TRX_GAIN_REG_START                    *)
Last == Item(DsaMax)              (* TRX_GAIN_REG_END                      *)

ASSUME DsaAssumption == /\ DsaMax \in 0 .. 127 /\ DsaMax < MaxCount /\ PowerUp \subseteq 0 .. 255
                        /\ {TxPage, Rx1Page, Rx2Page} \subseteq PageSet

VARIABLES reg,                    (* the FPGA's registers                  *)
          dsa,                    (* what the EEPROM keeps of the gains    *)
          call                    (* the gain command under way            *)

gainVars == <<reg, dsa, call>>
vars == <<pageVars, gainVars>>

Outs == {"tx", "rx1", "rx2"}
NoCall == [gain |-> 0, sets |-> <<>>, saves |-> <<>>, table |-> 0, misread |-> FALSE]

(* Reads a word of page p; bad: the offset whose read fails.               *)
GetFromEeprom(p, o, bad) == IF o = bad THEN 0 ELSE word[p][o]

(* Where a search stands.                                                  *)
Spot == [left : First .. Last + 1, right : First - 1 .. Last, result : {0} \cup First .. Last]

(* Mutant: the nearest entry above the gain asked for is taken.            *)
SearchAbove(at, gain) ==
  LET search[s \in Spot] ==
        LET mid == s.left + ((s.right - s.left) \div 2)
        IN IF s.left > s.right THEN s.result
           ELSE IF at[mid] = gain THEN mid
           ELSE IF at[mid] > gain THEN search[[s EXCEPT !.left = mid + 1, !.result = mid]]
           ELSE search[[s EXCEPT !.right = mid - 1]]
  IN search[[left |-> First, right |-> Last, result |-> 0]]

(* The binary search of get_closest_tx_dsa_index and of                    *)
(* get_closest_rx_dsa_index in the table that is read as at.               *)
Search(at, gain) ==
  LET search[s \in Spot] ==
        LET mid == s.left + ((s.right - s.left) \div 2)
        IN IF s.left > s.right THEN s.result
           ELSE IF at[mid] = gain THEN mid
           ELSE IF at[mid] > gain THEN search[[s EXCEPT !.left = mid + 1]]
           ELSE search[[left |-> s.left, right |-> mid - 1, result |-> mid]]
  IN search[[left |-> First, right |-> Last, result |-> 0]]

(* Their result: twice the entry's place, as a uint8_t.                    *)
Closest(p, gain, bad) ==
  ((Search([o \in First .. Last |-> GetFromEeprom(p, o, bad)], gain) - 4) * 2) % 256

Begin(gain, p, bad, sets, saves) ==
  /\ job = NoJob /\ call = NoCall /\ commands < MaxCommand
  /\ bad # Blank => faults < MaxFault
  /\ commands' = commands + 1
  /\ faults' = IF bad = Blank THEN faults ELSE faults + 1
  /\ call' = [gain |-> gain, sets |-> sets, saves |-> saves, table |-> p, misread |-> bad # Blank]
  /\ UNCHANGED <<word, crc, cache, frame, job, saved, reg, dsa>>

Put(o, index) == [out |-> o, idx |-> index]
Save(o) == <<[out |-> o, part |-> "dsa_idx"], [out |-> o, part |-> "gain_val"]>>

(* eeprom_set_tx_gain.                                                     *)
SetTxGain(gain, bad) ==
  /\ gain \in GetFromEeprom(TxPage, Last, bad) .. GetFromEeprom(TxPage, First, bad)
  /\ Begin(gain, TxPage, bad, <<Put("tx", Closest(TxPage, gain, bad))>>, Save("tx"))

(* Mutant: level 1 is set before level 2 is at its end.                    *)
LowSetsSwapped(index) == <<Put("rx1", index), Put("rx2", DsaMax * 2)>>

(* What eeprom_set_rx_gain writes: above the mid gain level 2's index with *)
(* level 1 at its highest gain, else level 1's with level 2 at its lowest. *)
HighSets(index) == <<Put("rx1", 0), Put("rx2", index)>>
LowSets(index) == <<Put("rx2", DsaMax * 2), Put("rx1", index)>>

SetRxGain(gain, bad) ==
  LET high == gain > GetFromEeprom(Rx1Page, First, bad)
      p    == IF high THEN Rx2Page ELSE Rx1Page
      sets == IF high THEN HighSets(Closest(p, gain, bad)) ELSE LowSets(Closest(p, gain, bad))
  IN /\ gain \in GetFromEeprom(Rx1Page, Last, bad) .. GetFromEeprom(Rx2Page, First, bad)
     /\ Begin(gain, p, bad, sets, Save("rx1") \o Save("rx2"))

(* FMSH_WriteReg.                                                          *)
WriteReg ==
  /\ call.sets # <<>>
  /\ reg' = [reg EXCEPT ![Head(call.sets).out] = Head(call.sets).idx]
  /\ call' = [call EXCEPT !.sets = Tail(@)]
  /\ UNCHANGED <<pageVars, dsa>>

(* eeprom_set_tx_dsa and eeprom_set_rx_dsa: the index, then the gain of an *)
(* output; an index that is not stored leaves out the gain.                *)
SaveDsa(ok) ==
  LET s    == Head(call.saves)
      left == IF ok \/ s.part = "gain_val" THEN Tail(call.saves) ELSE Tail(Tail(call.saves))
  IN /\ call.sets = <<>> /\ call.saves # <<>>
     /\ ok \/ faults < MaxFault
     /\ faults' = IF ok THEN faults ELSE faults + 1
     /\ dsa' = IF ok THEN [dsa EXCEPT ![s.out][s.part] = IF s.part = "dsa_idx" THEN reg[s.out] ELSE call.gain]
               ELSE dsa
     /\ call' = IF left = <<>> THEN NoCall ELSE [call EXCEPT !.saves = left]
     /\ UNCHANGED <<word, crc, cache, frame, job, commands, saved, reg>>

(* The power goes: nothing brings the gains that were kept back.           *)
Restart ==
  /\ PowerCut
  /\ \E r \in PowerUp : reg' = [o \in Outs |-> r]
  /\ call' = NoCall /\ UNCHANGED dsa

-----------------------------------------------------------------------------
Init ==
  /\ PagesInit
  /\ \E r \in PowerUp : reg = [o \in Outs |-> r]
  /\ dsa = [o \in Outs |-> [dsa_idx |-> 0, gain_val |-> 0]] /\ call = NoCall

Next ==
  \/ call = NoCall /\ PagesNext /\ UNCHANGED gainVars
  \/ \E gain \in Gains, bad \in {Blank} \cup First .. Last : SetTxGain(gain, bad)
  \/ \E gain \in Gains, bad \in {Blank} \cup First .. Last : SetRxGain(gain, bad)
  \/ WriteReg
  \/ \E ok \in BOOLEAN : SaveDsa(ok)
  \/ Restart

Spec == Init /\ [][Next]_vars

-----------------------------------------------------------------------------
TypeOK ==
  /\ word \in [PageSet -> [WordOffs -> Int]] /\ faults \in 0 .. MaxFault
  /\ job.cmd \in {"none", "set", "save", "init"} /\ job.next \in DOMAIN Pages
  /\ reg \in [Outs -> 0 .. 255] /\ (call # NoCall => job = NoJob)

Falls(p) == \A i, j \in First .. Last : i < j => word[p][i] >= word[p][j]
Meets(p) == p = Rx2Page => word[Rx2Page][Last] <= word[Rx1Page][First]

(* The index that get_closest_.._dsa_index finds, once it is on its way:   *)
(* with tables that fall and meet and reads that succeed it is that of the *)
(* highest gain not above the one asked for.  With any tables that meet    *)
(* and reads that succeed it is one of the table; where the receiver's     *)
(* tables leave a gap it may be 248.                                       *)
GainIsFloor ==
  /\ TypeOK
  /\ (call.sets # <<>> /\ ~call.misread /\ Meets(call.table)) =>
       LET index == call.sets[Len(call.sets)].idx
           at(k) == word[call.table][Item(k)]
       IN /\ index \in {2 * k : k \in 0 .. DsaMax}
          /\ Falls(call.table) =>
               /\ at(index \div 2) <= call.gain
               /\ \A k \in 0 .. DsaMax : at(k) <= call.gain => at(k) <= at(index \div 2)

(* The receiver's levels are calibrated with level 1 at its highest gain   *)
(* or level 2 at its lowest.  A gain command ends in such a setting and,   *)
(* between its two writes as well, never leaves one.                       *)
AtEnd == reg["rx1"] = 0 \/ reg["rx2"] = DsaMax * 2
OneLevelAtEnd ==
  [][(call.sets # <<>> /\ call' # NoCall) =>
       /\ AtEnd => AtEnd'
       /\ (call.table # TxPage /\ Len(call.sets) = 1) => AtEnd']_vars
=============================================================================

----------------------------- MODULE MCTrxGain -----------------------------
(* A small instance of TrxGain: three pages with tables of four entries.   *)
(* The receiver's leave no gap until a command changes an entry.           *)
EXTENDS TrxGain, TLC

MCPages == <<5, 6, 7>>
MCStart == 5 :> <<3, 2, 0, -1>> @@ 6 :> <<1, 0, -1, -2>> @@ 7 :> <<4, 3, 1, 1>>
MCValues == {-2, 20}
MCResidue == {-2}
MCGains == {-2, 0, 1, 2, 4}
=============================================================================

------------------------------- MODULE AntFrame -------------------------------
(***************************************************************************)
(* The framing of the antenna's messages (ant_ctrl.c): a frame begins and  *)
(* ends with the flag 7E, and a 7E or 7D between them travels as 7D 5E or  *)
(* 7D 5D.  One frame is escaped, byte by byte, and the result is undone by *)
(* the gateway's receive function: it counts the pairs, walks over the     *)
(* message up to as many bytes before its end, and copies as many bytes    *)
(* more as they are.                                                       *)
(*                                                                         *)
(* Five bytes stand for all: the four the code tests, and any other.       *)
(* Positions are counted from 1, as TLA+ does; the code counts from 0.     *)
(***************************************************************************)
EXTENDS Integers, Sequences, FiniteSets

CONSTANTS Plain,        (* a byte that is none of the four                 *)
          Foreign,      (* what lies behind the end of a received message  *)
          MaxBody       (* bound: bytes between the flags of a frame       *)

Flag    == "7E"
Esc     == "7D"
EscFlag == "5E"
EscEsc  == "5D"
Byte    == {Flag, Esc, EscFlag, EscEsc, Plain}

ASSUME AntFrameAssumption == /\ MaxBody \in Nat
                             /\ Foreign \notin Byte
                             /\ Plain \notin {Flag, Esc, EscFlag, EscEsc}

VARIABLES pc,       (* "escape", "count", "walk", "done"                   *)
          frame,    (* the frame to send                                   *)
          i,        (* the position the running loop is at                 *)
          msg,      (* the message, escaped                                *)
          count,    (* escape pairs in the message                         *)
          dst       (* what the receiver has written                       *)

frameVars == <<pc, frame, i, msg, count, dst>>

Body == UNION {[1 .. n -> Byte] : n \in 0 .. MaxBody}

FrameInit ==
  /\ pc = "escape" /\ i = 2
  /\ \E b \in Body : frame = <<Flag>> \o b \o <<Flag>>
  /\ msg = <<Flag>>
  /\ count = 0 /\ dst = << >>

-----------------------------------------------------------------------------
(* ant_ctrl_escape_bytes_to_send_msg.                                      *)
(* Mutant: the flag is forgotten.                                          *)
EscapedNoFlag(b) == IF b = Esc THEN <<Esc, EscEsc>> ELSE <<b>>

Escaped(b) == CASE b = Esc  -> <<Esc, EscEsc>>
                [] b = Flag -> <<Esc, EscFlag>>
                [] OTHER    -> <<b>>

EscapeByte ==
  /\ pc = "escape" /\ i < Len(frame)
  /\ msg' = msg \o Escaped(frame[i])
  /\ i' = i + 1
  /\ UNCHANGED <<pc, frame, count, dst>>

EscapeEnd ==
  /\ pc = "escape" /\ i = Len(frame)
  /\ msg' = Append(msg, frame[i])
  /\ pc' = "count"
  /\ UNCHANGED <<frame, i, count, dst>>

(* ant_ctrl_escape_bytes_to_recv_msg.                                      *)
IsPair(z) == z < Len(msg) /\ msg[z] = Esc /\ msg[z + 1] \in {EscFlag, EscEsc}

(* Mutant: only one of the two pairs is counted.                           *)
PairsOfFlag == {z \in 2 .. Len(msg) - 1 : IsPair(z) /\ msg[z + 1] = EscFlag}

Pairs == {z \in 2 .. Len(msg) - 1 : IsPair(z)}

CountPairs ==
  /\ pc = "count"
  /\ count' = Cardinality(Pairs)
  /\ dst' = <<msg[1]>> /\ i' = 2 /\ pc' = "walk"
  /\ UNCHANGED <<frame, msg>>

(* The last position the walk may be at.                                  *)
WalkEnd == Len(msg) - count

(* Mutant: the two bytes are exchanged.                                    *)
UnescapedSwapped(z) == IF msg[z + 1] = EscFlag THEN Esc ELSE Flag

Unescaped(z) == IF msg[z + 1] = EscFlag THEN Flag ELSE Esc

(* A byte as the code reads it, which may be past the message's end.       *)
Read(z) == IF z <= Len(msg) THEN msg[z] ELSE Foreign

Walk ==
  /\ pc = "walk" /\ i <= WalkEnd
  /\ IF IsPair(i) THEN dst' = Append(dst, Unescaped(i)) /\ i' = i + 2
                  ELSE dst' = Append(dst, Read(i)) /\ i' = i + 1
  /\ UNCHANGED <<pc, frame, msg, count>>

CopyRest ==
  /\ pc = "walk" /\ i > WalkEnd
  /\ dst' = dst \o [k \in 1 .. count |-> Read(i + k - 1)]
  /\ pc' = "done"
  /\ UNCHANGED <<frame, i, msg, count>>

FrameNext == EscapeByte \/ EscapeEnd \/ CountPairs \/ Walk \/ CopyRest

FrameSpec == FrameInit /\ [][FrameNext]_frameVars

-----------------------------------------------------------------------------
(* The length the receiver reports, and the frame it goes on with.        *)
FinalLen == Len(msg) - count

Received == SubSeq(dst, 1, FinalLen)

(* Types; the walk itself reads nothing behind the message.                *)
FrameTypeOK ==
  /\ pc \in {"escape", "count", "walk", "done"}
  /\ frame \in Seq(Byte) /\ msg \in Seq(Byte)
  /\ i \in 2 .. Len(frame) + Len(msg)
  /\ count \in 0 .. Len(msg)
  /\ dst \in Seq(IF pc = "done" THEN Byte \cup {Foreign} ELSE Byte)

(* A message has the flag at its two ends and nowhere else                 *)
(* (ant_ctrl_escape_bytes_to_send_msg): whoever looks for the end of a     *)
(* frame in it finds the right one.  What lies behind the message, which   *)
(* the copy of the rest may read when the walk ended with a pair, never    *)
(* gets into the frame received; nor is the frame longer than what was     *)
(* written (ant_ctrl.c:247-253).                                           *)
Framed ==
  /\ FrameTypeOK
  /\ pc # "escape" => {z \in 1 .. Len(msg) : msg[z] = Flag} = {1, Len(msg)}
  /\ pc = "done" => /\ FinalLen <= Len(dst)
                    /\ \A z \in 1 .. FinalLen : dst[z] # Foreign

(* Receiving does not undo sending exactly when a pair begins where the    *)
(* walk does not reach, among the last count bytes: in the checksum or the *)
(* data next to it.  The length comes out right even then.  It takes three *)
(* pairs at least, so that any frame with at most two bytes to escape is   *)
(* safe (ant_ctrl.c:226-253, whose comments promise it for every frame).   *)
RestoredUnlessLate ==
  pc = "done" => LET late == \E z \in Pairs : z > WalkEnd IN
                 /\ Received # frame <=> late
                 /\ late => count >= 3
                 /\ FinalLen = Len(frame)
==============================================================================

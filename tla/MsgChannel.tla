----------------------------- MODULE MsgChannel -----------------------------
(***************************************************************************)
(* What a shared-memory message queue promises to the two cores that use   *)
(* it: a bounded first-in first-out channel between one sender and one     *)
(* receiver.  Messages are numbered in the order in which the sender hands *)
(* them over; nothing is lost, duplicated, reordered or torn.              *)
(***************************************************************************)
EXTENDS Naturals, Sequences

CONSTANTS Capacity,   (* how many messages the channel holds               *)
          Msg(_)      (* the k-th message the sender hands over            *)

VARIABLES chan,       (* messages handed over and not yet taken            *)
          taken       (* messages the receiver has taken, in order         *)

cvars == <<chan, taken>>

CInit == chan = <<>> /\ taken = <<>>

(* A message enters only while there is room for it.                       *)
Put == /\ Len(chan) < Capacity
       /\ chan' = Append(chan, Msg(Len(taken) + Len(chan) + 1))
       /\ UNCHANGED taken

Take == /\ chan # <<>>
        /\ taken' = Append(taken, Head(chan))
        /\ chan' = Tail(chan)

CNext == Put \/ Take

CSpec == CInit /\ [][CNext]_cvars /\ WF_cvars(Take)
=============================================================================

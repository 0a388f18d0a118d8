----------------------------- MODULE ByteStream -----------------------------
(***************************************************************************)
(* What a byte ring promises one producer and one consumer: a stream of    *)
(* bytes that enter and leave in chunks, in order, none lost or repeated.  *)
(***************************************************************************)
EXTENDS Naturals, Sequences

CONSTANTS Capacity,   (* how many bytes the ring holds                     *)
          Byte(_)     (* the k-th byte the producer hands over             *)

VARIABLES chan,       (* bytes handed over and not yet taken               *)
          taken       (* bytes the consumer has taken or discarded         *)

svars == <<chan, taken>>

SInit == chan = <<>> /\ taken = <<>>

(* A chunk enters as far as there is room for it.                          *)
PutChunk == \E n \in 1 .. Capacity - Len(chan) :
              LET next == Len(taken) + Len(chan)
              IN /\ chan' = chan \o [k \in 1 .. n |-> Byte(next + k)]
                 /\ UNCHANGED taken

TakeChunk == \E n \in 1 .. Len(chan) :
               /\ taken' = taken \o SubSeq(chan, 1, n)
               /\ chan' = SubSeq(chan, n + 1, Len(chan))

SNext == PutChunk \/ TakeChunk

SSpec == SInit /\ [][SNext]_svars
=============================================================================

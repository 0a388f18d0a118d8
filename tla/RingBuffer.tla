----------------------------- MODULE RingBuffer -----------------------------
(***************************************************************************)
(* ring_buffer.c: a byte ring between cores.  head and tail run freely     *)
(* through all the values of a uint32_t; the byte at position k lives in   *)
(* buffer[k & RING_BUFFER_MASK].  Every load and store of shared memory is *)
(* a step of its own.  ring_buffer_put and _get are the bulk operations    *)
(* with a length of 1.                                                     *)
(*                                                                         *)
(* A byte is known by the producer that handed it over and its number      *)
(* among that producer's bytes.                                            *)
(***************************************************************************)
EXTENDS Integers, Sequences

CONSTANTS Producers,   (* threads that put; the code's users have one      *)
          Size,        (* RING_BUFFER_SIZE                                 *)
          Wrap,        (* 2^32: the values of head and tail                *)
          MaxBytes     (* bound: bytes a producer puts                     *)

ASSUME SizeAssumption == Size \in Nat \ {0}
ASSUME WrapAssumption == Wrap \in Nat /\ Wrap > Size /\ Wrap % Size = 0
ASSUME BoundAssumption == MaxBytes \in Nat

VARIABLES head, tail, buffer,     (* shared memory                         *)
          prod,                   (* each producer's call                  *)
          cons,                   (* the consumer's call                   *)
          published, gone         (* history: bytes put; bytes that left   *)

ringVars == <<head, tail, buffer, prod, cons, published, gone>>

Index(pos) == pos % Size                         (* & RING_BUFFER_MASK     *)
Filled(h, t) == (h - t) % Wrap                   (* uint32_t subtraction   *)

(* Mutant: the wrapped difference is one too large.                        *)
RingSizePlusOne(h, t) == IF h >= t THEN h - t ELSE (Wrap - 1) - t + h + 2

(* ring_buffer_size, and ring_buffer_free_space with it, avoid a negative  *)
(* difference instead of relying on the type.                              *)
RingSize(h, t) == IF h >= t THEN h - t ELSE (Wrap - 1) - t + h + 1

Least(a, b) == IF a < b THEN a ELSE b
Byte(p, k) == [by |-> p, no |-> k]
NoByte == [no |-> 0]
PutOps == {"put", "free_space"}
GetOps == {"get", "peek", "discard", "size"}

(* ring_buffer_init.                                                       *)
RingInit ==
  /\ head = 0 /\ tail = 0
  /\ buffer = [i \in 0 .. Size - 1 |-> NoByte]
  /\ prod = [p \in Producers |-> [pc |-> "idle", op |-> "put", len |-> 0,
                                  head |-> 0, n |-> 0, i |-> 0, room |-> 0]]
  /\ cons = [pc |-> "idle", op |-> "get", len |-> 0, head |-> 0, tail |-> 0,
             n |-> 0, data |-> <<>>, avail |-> 0]
  /\ published = [p \in Producers |-> 0]
  /\ gone = <<>>

-----------------------------------------------------------------------------
(* A producer: ring_buffer_put, _put_bulk and _free_space.  A new call     *)
(* forgets what an earlier ring_buffer_free_space said.                    *)
PutHead(p, op, len) ==
  /\ prod[p].pc = "idle"
  /\ IF op = "put" THEN published[p] + len <= MaxBytes ELSE len = 1
  /\ prod' = [prod EXCEPT ![p] = [@ EXCEPT !.pc = "tail", !.op = op, !.len = len,
                                           !.head = head, !.room = 0]]
  /\ UNCHANGED <<head, tail, buffer, cons, published, gone>>

PutTail(p) ==
  LET call == prod[p]
      free == Size - Filled(call.head, tail)
      next == CASE call.op = "free_space"         -> [call EXCEPT !.pc = "idle", !.room = Size - RingSize(call.head, tail)]
                [] call.op = "put" /\ free = 0   -> [call EXCEPT !.pc = "idle"]
                [] OTHER -> [call EXCEPT !.pc = "copy", !.n = Least(call.len, free), !.i = 0]
  IN /\ call.pc = "tail"
     /\ prod' = [prod EXCEPT ![p] = next]
     /\ UNCHANGED <<head, tail, buffer, cons, published, gone>>

(* Mutant: head is stored before the last byte is copied.                  *)
PutCopyShort(p) ==
  LET call == prod[p]
  IN /\ call.pc = "copy"
     /\ buffer' = [buffer EXCEPT ![Index(call.head + call.i)] =
                                    Byte(p, published[p] + call.i + 1)]
     /\ prod' = [prod EXCEPT ![p].i = @ + 1,
                             ![p].pc = IF call.i + 1 >= call.n - 1 THEN "store" ELSE "copy"]
     /\ UNCHANGED <<head, tail, cons, published, gone>>

PutCopy(p) ==
  LET call == prod[p]
  IN /\ call.pc = "copy"
     /\ buffer' = [buffer EXCEPT ![Index(call.head + call.i)] =
                                    Byte(p, published[p] + call.i + 1)]
     /\ prod' = [prod EXCEPT ![p].i = @ + 1,
                             ![p].pc = IF call.i + 1 = call.n THEN "store" ELSE "copy"]
     /\ UNCHANGED <<head, tail, cons, published, gone>>

PutStore(p) ==
  /\ prod[p].pc = "store"
  /\ head' = (prod[p].head + prod[p].n) % Wrap
  /\ published' = [published EXCEPT ![p] = @ + prod[p].n]
  /\ prod' = [prod EXCEPT ![p].pc = "idle"]
  /\ UNCHANGED <<tail, buffer, cons, gone>>

-----------------------------------------------------------------------------
(* The consumer: ring_buffer_get, _get_bulk, _peek, _discard and _size.    *)
GetHead(op, len) ==
  /\ cons.pc = "idle"
  /\ op \in {"peek", "size"} => len = 1
  /\ cons' = [cons EXCEPT !.pc = "tail", !.op = op, !.len = len, !.head = head,
                          !.data = <<>>, !.avail = 0]
  /\ UNCHANGED <<head, tail, buffer, prod, published, gone>>

GetTail ==
  LET filled == Filled(cons.head, tail)
      n == Least(cons.len, filled)
  IN /\ cons.pc = "tail"
     /\ cons' = CASE cons.op = "size"    -> [cons EXCEPT !.pc = "idle", !.avail = RingSize(cons.head, tail)]
                  [] cons.op # "size" /\ filled = 0 -> [cons EXCEPT !.pc = "idle"]
                  [] cons.op = "discard" /\ filled # 0 ->
                       [cons EXCEPT !.pc = "store", !.tail = tail, !.n = n]
                  [] OTHER -> [cons EXCEPT !.pc = "copy", !.tail = tail, !.n = n]
     /\ UNCHANGED <<head, tail, buffer, prod, published, gone>>

GetCopy ==
  LET got == Len(cons.data)
      next == CASE got + 1 < cons.n -> "copy"
                [] cons.op = "peek" -> "idle"
                [] OTHER            -> "store"
  IN /\ cons.pc = "copy"
     /\ cons' = [cons EXCEPT !.data = Append(@, buffer[Index(cons.tail + got)]),
                             !.pc = next]
     /\ UNCHANGED <<head, tail, buffer, prod, published, gone>>

(* The bytes of the ring between the two indices.                          *)
Content == [k \in 1 .. Filled(head, tail) |-> buffer[Index(tail + k - 1)]]

GetStore ==
  /\ cons.pc = "store"
  /\ tail' = (cons.tail + cons.n) % Wrap
  /\ gone' = gone \o (IF cons.op = "discard" THEN SubSeq(Content, 1, cons.n)
                                              ELSE cons.data)
  /\ cons' = [cons EXCEPT !.pc = "idle"]
  /\ UNCHANGED <<head, buffer, prod, published>>

-----------------------------------------------------------------------------
Put(p) == \/ \E op \in PutOps, len \in 1 .. Size : PutHead(p, op, len)
          \/ PutTail(p) \/ PutCopy(p) \/ PutStore(p)
GetStep == GetTail \/ GetCopy \/ GetStore
Get == (\E op \in GetOps, len \in 1 .. Size : GetHead(op, len)) \/ GetStep

RingNext == (\E p \in Producers : Put(p)) \/ Get

RingSpec == RingInit /\ [][RingNext]_ringVars

-----------------------------------------------------------------------------
RingTypeOK ==
  /\ head \in 0 .. Wrap - 1 /\ tail \in 0 .. Wrap - 1
  /\ Filled(head, tail) <= Size
  /\ \A i \in 0 .. Size - 1 : buffer[i] = NoByte \/ buffer[i].by \in Producers
  /\ \A p \in Producers : /\ prod[p].pc \in {"idle", "tail", "copy", "store"}
                          /\ prod[p].n \in 0 .. Size /\ prod[p].i \in 0 .. Size
                          /\ published[p] \in Nat
  /\ cons.pc \in {"idle", "tail", "copy", "store"}
  /\ cons.n \in 0 .. Size /\ Len(cons.data) <= Size

(* With one producer the ring is a stream of bytes: whatever the           *)
(* interleaving of the copies, and when head and tail wrap at 2^32, bytes  *)
(* leave whole and in order, none lost, repeated or read too early.        *)
TheProducer == CHOOSE p \in Producers : TRUE
StreamByte(k) == Byte(TheProducer, k)

Stream == INSTANCE ByteStream
            WITH Capacity <- Size, Byte <- StreamByte, chan <- Content, taken <- gone

ImplementsStream == Stream!SSpec

(* What ring_buffer_free_space, _size and _peek answered stays a safe      *)
(* promise until the asker's next call, whatever the other side does: the  *)
(* room is still there, the bytes are still there, the byte peeked at is   *)
(* the next one.  LogAgentRecvTinyLogFromL1c takes a whole chunk after     *)
(* ring_buffer_size said that there is one.                                *)
AnswersStayTrue ==
  /\ RingTypeOK
  /\ \A p \in Producers : prod[p].room <= Size - Filled(head, tail)
  /\ cons.avail <= Filled(head, tail)
  /\ (cons.op = "peek" /\ cons.pc = "idle" /\ cons.data # <<>>) =>
        cons.data = SubSeq(Content, 1, 1)
=============================================================================

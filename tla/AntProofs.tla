------------------------------ MODULE AntProofs ------------------------------
(***************************************************************************)
(* What holds of the antenna gateway for any clients, any number of        *)
(* requests and any losses and doublings of datagrams; and of the framing  *)
(* of its messages, for frames of any length.                              *)
(*                                                                         *)
(* The gateway.  web_waiting_combo is a debt: it is raised by a request    *)
(* for everything and paid by the one message that answers it.  Counting   *)
(* it with the answers makes the bound on the answers inductive.           *)
(*                                                                         *)
(* The framing: what the escaping makes of a frame, what the receiver's    *)
(* walk restores of it, and exactly when the copy of the rest spoils it.   *)
(* A byte of the message that is not the second of a pair stands for the   *)
(* byte of the frame whose place is that in the message less the number of *)
(* pairs before it.  This one relation, built up by the escaping, carries  *)
(* the walk and the copy.                                                  *)
(***************************************************************************)
EXTENDS AntGateway, AntFrame, FiniteSetTheorems, SequenceTheorems, TLAPS

Message == [to : Client, frames : SUBSET Frame({"81", "83", "87"})]
Request == [by : Client, what : {"all", "set", "other"}]

Types == TypeOK /\ answers \in Seq(Message)

(* Somebody is there to be answered.                                       *)
Known == web_waiting_combo => web_udp_ip # NoClient

(* What is kept has come since everything was last asked for.              *)
Recent == {all_check, factory} \subseteq heard \cup {NoFrame}

Combos   == {n \in 1 .. Len(answers) : IsCombo(answers[n])}
ForAll   == {n \in 1 .. Len(asked) : asked[n].what = "all"}
Debt     == IF web_waiting_combo THEN 1 ELSE 0
Balanced == Cardinality(Combos) + Debt <= Cardinality(ForAll)

IInv == Types /\ Known /\ Recent /\ Balanced

-----------------------------------------------------------------------------
(* Appending an element that is in T, or is not, to a sequence.            *)
LEMMA CountAppend ==
  ASSUME NEW S, NEW s \in Seq(S), NEW e \in S, NEW T,
         NEW A, A = {n \in 1 .. Len(s) : s[n] \in T},
         NEW B, B = {n \in 1 .. Len(Append(s, e)) : Append(s, e)[n] \in T}
  PROVE  Cardinality(B) = Cardinality(A) + (IF e \in T THEN 1 ELSE 0)
<1>1. IsFiniteSet(A) /\ Cardinality(A) \in Nat
  <2>1. IsFiniteSet(1 .. Len(s))
    BY FS_Interval
  <2> QED BY <2>1, FS_Subset, FS_CardinalityType
<1>2. /\ Len(s) \in Nat /\ Len(Append(s, e)) = Len(s) + 1
      /\ \A n \in 1 .. Len(s) : Append(s, e)[n] = s[n]
      /\ Append(s, e)[Len(s) + 1] = e
  BY AppendProperties
<1>3. CASE e \in T
  <2>1. B = A \cup {Len(s) + 1} /\ Len(s) + 1 \notin A
    BY <1>2, <1>3
  <2> QED BY <1>1, <1>3, <2>1, FS_AddElement
<1>4. CASE e \notin T
  <2>1. B = A
    BY <1>2, <1>4
  <2>2. Cardinality(A) + 0 = Cardinality(A)
    BY <1>1
  <2> QED BY <1>4, <2>1, <2>2, Zenon
<1> QED BY <1>3, <1>4

(* The two numbers that are compared.                                      *)
LEMMA CombosAre ==
  ASSUME answers \in Seq(Message)
  PROVE  /\ Combos = {n \in 1 .. Len(answers) : answers[n] \in {a \in Message : IsCombo(a)}}
         /\ Count(answers, IsCombo) = Cardinality(Combos)
<1>1. DOMAIN answers = 1 .. Len(answers) /\ \A n \in 1 .. Len(answers) : answers[n] \in Message
  BY LenProperties, ElementOfSeq
<1> QED BY <1>1 DEF Combos, Count

LEMMA ForAllAre ==
  ASSUME asked \in Seq(Request)
  PROVE  /\ ForAll = {n \in 1 .. Len(asked) : asked[n] \in {r \in Request : r.what = "all"}}
         /\ Count(asked, LAMBDA a : a.what = "all") = Cardinality(ForAll)
<1>1. DOMAIN asked = 1 .. Len(asked) /\ \A n \in 1 .. Len(asked) : asked[n] \in Request
  BY LenProperties, ElementOfSeq
<1> QED BY <1>1 DEF ForAll, Count

LEMMA Naturals ==
  ASSUME Types
  PROVE  Cardinality(Combos) \in Nat /\ Cardinality(ForAll) \in Nat
<1>1. IsFiniteSet(1 .. Len(answers)) /\ IsFiniteSet(1 .. Len(asked))
  BY FS_Interval, LenProperties DEF Types, TypeOK
<1>2. IsFiniteSet(Combos) /\ IsFiniteSet(ForAll)
  BY <1>1, FS_Subset DEF Combos, ForAll
<1> QED BY <1>2, FS_CardinalityType

(* A message of one frame is no combo.                                     *)
LEMMA SingleIsNoCombo == \A c, g : ~IsCombo([to |-> c, frames |-> {g}])
<1> SUFFICES ASSUME NEW c, NEW g PROVE ~IsCombo([to |-> c, frames |-> {g}])
  OBVIOUS
<1>1. Cardinality({g}) = 1
  BY FS_Singleton
<1> QED BY <1>1 DEF IsCombo

LEMMA FrameIsNotNone == \A kinds \in SUBSET {"81", "83", "87"} : NoFrame \notin Frame(kinds)
  BY AntGatewayAssumption DEF Frame

-----------------------------------------------------------------------------
(* What receiving a frame does: nothing for the web, an answer to a set    *)
(* command, one frame more of a combo, or the combo.                       *)
Kept(g)   == /\ web_waiting_combo' = web_waiting_combo /\ answers' = answers
             /\ {all_check', factory'} \subseteq {all_check, factory, g}
             /\ all_check' \in Frame({"83"}) \cup {NoFrame}
             /\ factory' \in Frame({"87"}) \cup {NoFrame}
             /\ ~Complete(all_check', factory')

Single(g) == /\ UNCHANGED combo
             /\ answers' = Append(answers, [to |-> web_udp_ip, frames |-> {g}])
             /\ web_udp_ip # NoClient

Pair(g)   == /\ web_waiting_combo /\ ~web_waiting_combo'
             /\ all_check' = NoFrame /\ factory' = NoFrame
             /\ \E a \in Frame({"83"}), f \in Frame({"87"}) :
                  /\ {a, f} \subseteq {all_check, factory, g}
                  /\ answers' = Append(answers, [to |-> web_udp_ip, frames |-> {a, f}])

LEMMA CollectIs ==
  ASSUME TypeOK, NEW g \in Frame({"81", "83", "87"}), Collect(g)
  PROVE  Kept(g) \/ Single(g) \/ Pair(g)
<1> DEFINE kept == web_waiting_combo /\ g.form # "moved" /\ g.kind \in {"83", "87"}
<1>0. /\ all_check \in Frame({"83"}) \cup {NoFrame} /\ factory \in Frame({"87"}) \cup {NoFrame}
      /\ ~Complete(all_check, factory)
  BY DEF TypeOK
<1>1. ~Complete(NoFrame, NoFrame)
  BY DEF Complete
<1>2. ASSUME NEW a \in Frame({"83"}) \cup {NoFrame}, NEW f \in Frame({"87"}) \cup {NoFrame},
             {a, f} \subseteq {all_check, factory, g}, web_waiting_combo, TrySend(a, f)
      PROVE  Kept(g) \/ Pair(g)
  <2>1. CASE Complete(a, f)
    <3>1. a \in Frame({"83"}) /\ f \in Frame({"87"})
      BY <1>2, <2>1 DEF Complete
    <3>2. /\ answers' = Append(answers, [to |-> web_udp_ip, frames |-> {a, f}])
          /\ all_check' = NoFrame /\ factory' = NoFrame /\ web_waiting_combo' = FALSE
      BY <1>2, <2>1 DEF TrySend, Answer
    <3> QED BY <1>2, <3>1, <3>2 DEF Pair
  <2>2. CASE ~Complete(a, f)
    BY <1>2, <2>2 DEF TrySend, Kept
  <2> QED BY <2>1, <2>2
<1>3. CASE kept /\ g.kind = "83"
  <2>1. g \in Frame({"83"})
    BY <1>3 DEF Frame
  <2>2. TrySend(g, factory)
    BY <1>3 DEF Collect
  <2> QED BY <1>0, <1>2, <1>3, <2>1, <2>2
<1>4. CASE kept /\ g.kind # "83"
  <2>1. g \in Frame({"87"})
    BY <1>4 DEF Frame
  <2>2. TrySend(all_check, g)
    BY <1>4 DEF Collect
  <2> QED BY <1>0, <1>2, <1>4, <2>1, <2>2
<1>5. CASE ~kept
  <2>1. /\ UNCHANGED combo
        /\ UNCHANGED answers \/ (Answer({g}) /\ web_udp_ip # NoClient)
    BY <1>5 DEF Collect
  <2>2. CASE UNCHANGED answers
    BY <1>0, <2>1, <2>2 DEF combo, Kept
  <2>3. CASE Answer({g}) /\ web_udp_ip # NoClient
    BY <2>1, <2>3 DEF Answer, Single
  <2> QED BY <2>1, <2>2, <2>3
<1> QED BY <1>3, <1>4, <1>5

-----------------------------------------------------------------------------
LEMMA InitInv == Init => IInv
<1> SUFFICES ASSUME Init PROVE IInv
  OBVIOUS
<1>1. answers = << >> /\ asked = << >> /\ Len(answers) = 0 /\ Len(asked) = 0
  BY DEF Init
<1>2. answers \in Seq(Message) /\ asked \in Seq(Request) /\ DOMAIN answers = {}
  BY <1>1
<1>3. ~Complete(all_check, factory)
  BY DEF Init, Complete
<1>4. Types
  <2>1. web_waiting_combo \in BOOLEAN /\ hurt \in BOOLEAN
    BY DEF Init
  <2>2. faults \in 0 .. MaxFault
    BY AntGatewayAssumption DEF Init
  <2> QED BY <1>2, <1>3, <2>1, <2>2 DEF Init, Types, TypeOK, Request
<1>5. Combos = {} /\ ForAll = {}
  BY <1>1 DEF Combos, ForAll
<1>6. Cardinality(Combos) = 0 /\ Cardinality(ForAll) = 0
  BY <1>5, FS_EmptySet
<1>7. Debt = 0
  BY DEF Init, Debt
<1> QED BY <1>4, <1>6, <1>7 DEF Init, IInv, Known, Recent, Balanced

(* A request of a web client.                                              *)
LEMMA FromWebInv ==
  ASSUME IInv, NEW c \in Client, NEW what \in {"all", "set", "other"}, FromWeb(c, what)
  PROVE  /\ asked' \in Seq(Request) /\ web_udp_ip' \in Client /\ web_udp_ip' # NoClient
         /\ Len(asked) + 1 \in 1 .. MaxAsk
         /\ Cardinality(ForAll') = Cardinality(ForAll) + (IF what = "all" THEN 1 ELSE 0)
<1> DEFINE r == [by |-> c, what |-> what]
<1>1. asked \in Seq(Request) /\ r \in Request /\ asked' = Append(asked, r)
  BY DEF IInv, Types, TypeOK, FromWeb, Request
<1>2. asked' \in Seq(Request) /\ Len(asked) \in Nat
  BY <1>1, AppendProperties, LenProperties
<1>3. r.what = what
  OBVIOUS
<1>4. ForAll' = {n \in 1 .. Len(asked') : asked'[n] \in {x \in Request : x.what = "all"}}
  <2>1. \A n \in 1 .. Len(asked') : asked'[n] \in Request
    BY <1>2, ElementOfSeq
  <2> QED BY <2>1 DEF ForAll
<1>5. Cardinality(ForAll') = Cardinality(ForAll) + (IF what = "all" THEN 1 ELSE 0)
  <2> DEFINE T == {x \in Request : x.what = "all"}
  <2>1. /\ ForAll = {n \in 1 .. Len(asked) : asked[n] \in T}
        /\ ForAll' = {n \in 1 .. Len(Append(asked, r)) : Append(asked, r)[n] \in T}
    BY <1>1, <1>4, ForAllAre
  <2>2. r \in T <=> what = "all"
    BY <1>1, <1>3
  <2> HIDE DEF r, T
  <2>3. Cardinality(ForAll') = Cardinality(ForAll) + (IF r \in T THEN 1 ELSE 0)
    BY <1>1, <2>1, CountAppend
  <2> QED BY <2>2, <2>3
<1>6. Len(asked) + 1 \in 1 .. MaxAsk
  BY <1>2, AntGatewayAssumption DEF FromWeb
<1> QED BY <1>2, <1>5, <1>6, AntGatewayAssumption DEF FromWeb

LEMMA WebInv ==
  ASSUME IInv, NEW c \in Client, WebAll(c) \/ WebSet(c) \/ WebOther(c)
  PROVE  IInv'
<1>0. /\ Types /\ Cardinality(Combos) \in Nat /\ Cardinality(ForAll) \in Nat
      /\ Cardinality(Combos) + Debt <= Cardinality(ForAll)
  BY Naturals DEF IInv, Balanced
<1>1. UNCHANGED <<fromAnt, answers, faults>> /\ Combos' = Combos
  BY DEF WebAll, WebSet, WebOther, Combos, combo
<1>2. CASE WebAll(c)
  <2>1. /\ asked' \in Seq(Request) /\ web_udp_ip' \in Client /\ web_udp_ip' # NoClient
        /\ Len(asked) + 1 \in 1 .. MaxAsk
        /\ Cardinality(ForAll') = Cardinality(ForAll) + 1
    BY <1>2, FromWebInv DEF WebAll
  <2>2. /\ web_waiting_combo' = TRUE /\ all_check' = NoFrame /\ factory' = NoFrame
        /\ toAnt' = toAnt \cup Ask({"82", "86"}) /\ hurt' = FALSE
    BY <1>2 DEF WebAll
  <2>3. toAnt' \subseteq Datagram
    BY <1>0, <2>1, <2>2 DEF Types, TypeOK, Ask, Datagram
  <2>4. ~Complete(all_check', factory')
    BY <2>2 DEF Complete
  <2>5. web_waiting_combo' \in BOOLEAN /\ hurt' \in BOOLEAN
    BY <2>2
  <2>6. Types'
    BY <1>0, <1>1, <2>1, <2>2, <2>3, <2>4, <2>5 DEF Types, TypeOK, Request
  <2>7. Debt' = 1 /\ Debt \in {0, 1}
    BY <2>2 DEF Debt
  <2>8. Balanced'
    BY <1>0, <1>1, <2>1, <2>7 DEF Balanced
  <2> QED BY <2>1, <2>2, <2>6, <2>8 DEF IInv, Known, Recent
<1>3. CASE WebSet(c) \/ WebOther(c)
  <2>1. /\ asked' \in Seq(Request) /\ web_udp_ip' \in Client /\ web_udp_ip' # NoClient
        /\ Len(asked) + 1 \in 1 .. MaxAsk
        /\ Cardinality(ForAll') = Cardinality(ForAll) + 0
    BY <1>3, FromWebInv DEF WebSet, WebOther
  <2>2. UNCHANGED <<combo, history>> /\ (toAnt' = toAnt \/ toAnt' = toAnt \cup Ask({"80"}))
    BY <1>3 DEF WebSet, WebOther
  <2>3. toAnt' \subseteq Datagram
    BY <1>0, <2>1, <2>2 DEF Types, TypeOK, Ask, Datagram
  <2>4. Types'
    BY <1>0, <1>1, <2>1, <2>2, <2>3 DEF Types, TypeOK, Request, combo, history, Complete
  <2>5. Debt' = Debt /\ Debt \in {0, 1}
    BY <2>2 DEF Debt, combo
  <2>6. Balanced'
    BY <1>0, <1>1, <2>1, <2>5 DEF Balanced
  <2> QED BY <2>1, <2>2, <2>4, <2>6 DEF IInv, Known, Recent, combo, history
<1> QED BY <1>2, <1>3

(* An answer to the web is counted when it is a combo.                     *)
LEMMA AnswerCounts ==
  ASSUME Types, NEW a \in Message, answers' = Append(answers, a)
  PROVE  /\ answers' \in Seq(Message)
         /\ \A n \in DOMAIN answers' : answers'[n].to \in Client
         /\ Cardinality(Combos') = Cardinality(Combos) + (IF IsCombo(a) THEN 1 ELSE 0)
<1>1. answers' \in Seq(Message)
  BY AppendProperties DEF Types
<1>2. \A n \in DOMAIN answers' : answers'[n].to \in Client
  <2>1. \A n \in DOMAIN answers' : answers'[n] \in Message
    BY <1>1, ElementOfSeq, LenProperties
  <2> QED BY <2>1 DEF Message
<1> DEFINE T == {x \in Message : IsCombo(x)}
<1>3. Combos = {n \in 1 .. Len(answers) : answers[n] \in T}
  BY CombosAre DEF Types
<1>4. Combos' = {n \in 1 .. Len(Append(answers, a)) : Append(answers, a)[n] \in T}
  <2>1. \A n \in 1 .. Len(answers') : answers'[n] \in Message
    BY <1>1, ElementOfSeq
  <2> QED BY <2>1 DEF Combos
<1>5. a \in T <=> IsCombo(a)
  OBVIOUS
<1> HIDE DEF T
<1>6. Cardinality(Combos') = Cardinality(Combos) + (IF a \in T THEN 1 ELSE 0)
  BY <1>3, <1>4, CountAppend DEF Types
<1> QED BY <1>1, <1>2, <1>5, <1>6

LEMMA AntMsgInv ==
  ASSUME IInv, NEW g \in fromAnt, AntMsg(g)
  PROVE  IInv'
<1>0. /\ Types /\ Cardinality(Combos) \in Nat /\ Cardinality(ForAll) \in Nat
      /\ Cardinality(Combos) + Debt <= Cardinality(ForAll)
      /\ g \in Frame({"81", "83", "87"}) /\ Known /\ Recent
  BY Naturals DEF IInv, Balanced, Types, TypeOK
<1>1. /\ UNCHANGED <<asked, web_udp_ip, toAnt, hurt>> /\ heard' = heard \cup {g}
      /\ ForAll' = ForAll
  BY DEF AntMsg, ForAll
<1>2. fromAnt' \subseteq fromAnt /\ faults' \in 0 .. MaxFault
  BY <1>0, AntGatewayAssumption DEF AntMsg, Taken, Types, TypeOK
<1>3. Kept(g) \/ Single(g) \/ Pair(g)
  BY <1>0, CollectIs DEF AntMsg, Types
<1>4. CASE Kept(g)
  <2>1. Combos' = Combos /\ Debt' = Debt
    BY <1>4 DEF Kept, Combos, Debt
  <2>2. Types'
    BY <1>0, <1>1, <1>2, <1>4 DEF Kept, Types, TypeOK
  <2>3. Recent' /\ Known'
    BY <1>0, <1>1, <1>4 DEF Kept, Recent, Known
  <2>4. Balanced'
    BY <1>0, <1>1, <2>1 DEF Balanced
  <2> QED BY <2>2, <2>3, <2>4 DEF IInv
<1>5. CASE Single(g)
  <2> DEFINE a == [to |-> web_udp_ip, frames |-> {g}]
  <2>1. a \in Message /\ ~IsCombo(a)
    BY <1>0, <1>5, SingleIsNoCombo DEF Single, Message, Types, TypeOK
  <2>2. answers' = Append(answers, a) /\ UNCHANGED combo
    BY <1>5 DEF Single
  <2> HIDE DEF a
  <2>3. /\ answers' \in Seq(Message)
        /\ \A n \in DOMAIN answers' : answers'[n].to \in Client
        /\ Cardinality(Combos') = Cardinality(Combos) + 0
    BY <1>0, <2>1, <2>2, AnswerCounts
  <2>4. Types'
    BY <1>0, <1>1, <1>2, <2>2, <2>3 DEF Types, TypeOK, combo, Complete
  <2>5. Debt' = Debt /\ Debt \in {0, 1}
    BY <2>2 DEF Debt, combo
  <2>6. Balanced'
    BY <1>0, <1>1, <2>3, <2>5 DEF Balanced
  <2>7. Recent' /\ Known'
    BY <1>0, <1>1, <2>2 DEF Recent, Known, combo
  <2> QED BY <2>4, <2>6, <2>7 DEF IInv
<1>6. CASE Pair(g)
  <2>1. PICK f1 \in Frame({"83"}), f2 \in Frame({"87"}) :
          answers' = Append(answers, [to |-> web_udp_ip, frames |-> {f1, f2}])
    BY <1>6 DEF Pair
  <2> DEFINE a == [to |-> web_udp_ip, frames |-> {f1, f2}]
  <2>2. a \in Message
    <3>1. web_udp_ip \in Client
      BY <1>0, <1>6 DEF Pair, Known, Types, TypeOK
    <3>2. {f1, f2} \subseteq Frame({"81", "83", "87"})
      BY DEF Frame
    <3> QED BY <3>1, <3>2 DEF Message
  <2> HIDE DEF a
  <2>3. /\ answers' \in Seq(Message)
        /\ \A n \in DOMAIN answers' : answers'[n].to \in Client
        /\ Cardinality(Combos') = Cardinality(Combos) + (IF IsCombo(a) THEN 1 ELSE 0)
    BY <1>0, <2>1, <2>2, AnswerCounts DEF a
  <2>4. /\ web_waiting_combo /\ ~web_waiting_combo' /\ all_check' = NoFrame
        /\ factory' = NoFrame
    BY <1>6 DEF Pair
  <2>5. Debt' = 0 /\ Debt = 1
    BY <2>4 DEF Debt
  <2>6. web_waiting_combo' \in BOOLEAN
    <3>1. Collect(g)
      BY DEF AntMsg
    <3> QED BY <3>1, <2>4, <1>0 DEF Collect, TrySend, combo, Types, TypeOK
  <2>7. Types'
    BY <1>0, <1>1, <1>2, <2>3, <2>4, <2>6 DEF Types, TypeOK, Complete
  <2>8. Balanced'
    BY <1>0, <1>1, <2>3, <2>5 DEF Balanced
  <2>9. Recent' /\ Known'
    BY <2>4 DEF Recent, Known
  <2> QED BY <2>7, <2>8, <2>9 DEF IInv
<1> QED BY <1>3, <1>4, <1>5, <1>6

LEMMA NetInv ==
  ASSUME IInv, Lose \/ (\E q \in toAnt : AntAnswers(q)) \/ UNCHANGED vars
  PROVE  IInv'
<1>1. /\ UNCHANGED <<asked, web_udp_ip, combo, answers, heard>>
      /\ toAnt' \subseteq toAnt /\ faults' \in 0 .. MaxFault
  BY AntGatewayAssumption DEF Lose, AntAnswers, Taken, vars, combo, IInv, Types, TypeOK
<1>2. fromAnt' \subseteq Frame({"81", "83", "87"})
  <2>1. ASSUME NEW q \in toAnt, AntAnswers(q)
        PROVE  fromAnt' \subseteq Frame({"81", "83", "87"})
    <3>1. q.kind \in {"80", "82", "86"} /\ q.ask \in 1 .. MaxAsk
      BY DEF IInv, Types, TypeOK, Datagram
    <3>2. Reply[q.kind] \in {"81", "83", "87"}
      BY <3>1 DEF Reply
    <3> QED BY <2>1, <3>1, <3>2 DEF AntAnswers, IInv, Types, TypeOK, Frame
  <2> QED BY <2>1 DEF Lose, vars, IInv, Types, TypeOK
<1>3. hurt' \in BOOLEAN
  BY DEF Lose, AntAnswers, vars, IInv, Types, TypeOK
<1>4. Combos' = Combos /\ ForAll' = ForAll /\ Debt' = Debt
  BY <1>1 DEF Combos, ForAll, Debt, combo
<1> QED BY <1>1, <1>2, <1>3, <1>4
     DEF IInv, Types, TypeOK, Known, Recent, Balanced, combo, Complete

-----------------------------------------------------------------------------
(* The inductive invariant, for any clients, forms, requests and faults.   *)
THEOREM Invariance == Spec => []IInv
<1>1. IInv /\ [Next]_vars => IInv'
  BY WebInv, AntMsgInv, NetInv DEF Next
<1> QED BY <1>1, InitInv, PTL DEF Spec

(* The web gets no more combos than it asked for, however many datagrams   *)
(* are doubled or late (web_waiting_combo, ant_ctrl.c).                    *)
THEOREM NoMoreThanAsked == Spec => []NoUnaskedCombo
<1>1. IInv => NoUnaskedCombo
  <2> SUFFICES ASSUME IInv PROVE NoUnaskedCombo
    OBVIOUS
  <2>1. /\ Cardinality(Combos) \in Nat /\ Cardinality(ForAll) \in Nat
        /\ Cardinality(Combos) + Debt <= Cardinality(ForAll) /\ Debt \in {0, 1}
    BY Naturals DEF IInv, Balanced, Debt
  <2>2. /\ Count(answers, IsCombo) = Cardinality(Combos)
        /\ Count(asked, LAMBDA a : a.what = "all") = Cardinality(ForAll)
    BY CombosAre, ForAllAre DEF IInv, Types, TypeOK, Request
  <2> QED BY <2>1, <2>2 DEF IInv, Types, NoUnaskedCombo
<1> QED BY <1>1, Invariance, PTL

(* A combo has one frame of each kind, both received after everything was  *)
(* last asked for: what was collected for an earlier request is dropped.   *)
THEOREM CombosAreRecent == Spec => ComboIsRecent
<1> DEFINE Fresh == \A n \in DOMAIN answers' \ DOMAIN answers :
                       IsCombo(answers'[n]) =>
                         /\ answers'[n].frames \subseteq heard'
                         /\ {g.kind : g \in answers'[n].frames} = {"83", "87"}
<1>1. ASSUME IInv, [Next]_vars
      PROVE  Fresh
  <2> SUFFICES ASSUME NEW n \in DOMAIN answers' \ DOMAIN answers, IsCombo(answers'[n])
               PROVE  /\ answers'[n].frames \subseteq heard'
                      /\ {g.kind : g \in answers'[n].frames} = {"83", "87"}
    OBVIOUS
  <2>1. answers' # answers
    OBVIOUS
  <2>2. PICK g \in fromAnt : AntMsg(g)
    BY <1>1, <2>1 DEF Next, WebAll, WebSet, WebOther, AntAnswers, Lose, vars
  <2>3. Kept(g) \/ Single(g) \/ Pair(g)
    BY <1>1, <2>2, CollectIs DEF AntMsg, IInv, Types, TypeOK
  <2>4. ASSUME NEW a \in Message, answers' = Append(answers, a)
        PROVE  answers'[n] = a
    <3>1. n = Len(answers) + 1
      BY <1>1, <2>4, AppendProperties, LenProperties DEF IInv, Types
    <3> QED BY <1>1, <2>4, <3>1, AppendProperties DEF IInv, Types
  <2>5. /\ g \in Frame({"81", "83", "87"}) /\ heard' = heard \cup {g}
        /\ web_udp_ip \in Client \cup {NoClient} /\ Known
    BY <1>1, <2>2 DEF AntMsg, IInv, Types, TypeOK
  <2>6. CASE Single(g)
    <3> DEFINE a == [to |-> web_udp_ip, frames |-> {g}]
    <3>1. a \in Message
      BY <2>5, <2>6 DEF Single, Message
    <3>2. answers'[n] = a
      BY <2>4, <2>6, <3>1 DEF Single
    <3> QED BY <3>2, SingleIsNoCombo
  <2>7. CASE Pair(g)
    <3>1. PICK f1 \in Frame({"83"}), f2 \in Frame({"87"}) :
            /\ {f1, f2} \subseteq {all_check, factory, g}
            /\ answers' = Append(answers, [to |-> web_udp_ip, frames |-> {f1, f2}])
      BY <2>7 DEF Pair
    <3>2. {f1, f2} \subseteq Frame({"81", "83", "87"}) /\ web_udp_ip \in Client
      BY <2>5, <2>7 DEF Frame, Pair, Known
    <3>3. answers'[n].frames = {f1, f2}
      BY <2>4, <3>1, <3>2 DEF Message
    <3>4. f1 # NoFrame /\ f2 # NoFrame
      BY FrameIsNotNone
    <3>5. {f1, f2} \subseteq heard'
      BY <1>1, <2>5, <3>1, <3>4 DEF IInv, Recent
    <3>6. f1.kind = "83" /\ f2.kind = "87"
      BY DEF Frame
    <3> QED BY <3>3, <3>5, <3>6
  <2> QED BY <2>1, <2>3, <2>6, <2>7 DEF Kept
<1>2. IInv /\ [Next]_vars => [Fresh]_vars
  BY <1>1
<1> QED BY <1>2, Invariance, PTL DEF Spec, ComboIsRecent

-----------------------------------------------------------------------------
(* The framing.                                                            *)

(* The pairs before place z, and the place in the frame of the byte that   *)
(* begins there.                                                           *)
PairsBefore(z) == {p \in Pairs : p < z}
Place(z) == z - Cardinality(PairsBefore(z))
Meaning(z) == IF z \in Pairs THEN Unescaped(z) ELSE msg[z]

(* The bytes of the frame that are in the message.                         *)
Done == IF pc = "escape" THEN i - 1 ELSE Len(frame)

Shapes ==
  /\ pc \in {"escape", "count", "walk", "done"}
  /\ frame \in Seq(Byte) /\ msg \in Seq(Byte)
  /\ Len(frame) >= 2 /\ frame[1] = Flag /\ frame[Len(frame)] = Flag
  /\ pc \in {"escape", "count"} => i \in 2 .. Len(frame) /\ count = 0 /\ dst = << >>

(* The message stands for the bytes of the frame that are in it.           *)
Stands ==
  /\ Len(msg) >= 1 /\ msg[1] = Flag
  /\ \A z \in 2 .. Len(msg) : msg[z] = Flag <=> (z = Len(msg) /\ pc # "escape")
  /\ \A z \in 1 .. Len(msg) : msg[z] = Esc => z \in Pairs
  /\ Len(msg) - Cardinality(Pairs) = Done
  /\ \A z \in 1 .. Len(msg) : z - 1 \notin Pairs =>
       Place(z) \in 1 .. Done /\ frame[Place(z)] = Meaning(z)

(* The walk is at the beginning of a byte and has restored those before.   *)
Walked ==
  pc = "walk" =>
    /\ count = Cardinality(Pairs)
    /\ i \in 2 .. Len(msg) + 1 /\ i <= WalkEnd + 2 /\ i - 1 \notin Pairs
    /\ dst \in Seq(Byte) /\ Place(i) = Len(dst) + 1
    /\ \A k \in 1 .. Len(dst) : dst[k] = frame[k]

Ended ==
  pc = "done" =>
    /\ count = Cardinality(Pairs) /\ i \in 2 .. Len(msg) + 1
    /\ dst \in Seq(Byte \cup {Foreign})
    /\ FinalLen <= Len(dst) /\ \A z \in 1 .. FinalLen : dst[z] # Foreign
    /\ RestoredUnlessLate

FrameInv == Shapes /\ Stands /\ Walked /\ Ended

-----------------------------------------------------------------------------
LEMMA Bytes ==
  /\ Flag # Esc /\ EscFlag # EscEsc
  /\ Flag # EscFlag /\ Flag # EscEsc /\ Esc # EscFlag /\ Esc # EscEsc
  /\ {Flag, Esc, EscFlag, EscEsc} \subseteq Byte /\ Foreign \notin Byte
BY AntFrameAssumption DEF Byte, Flag, Esc, EscFlag, EscEsc

(* The pairs are a finite set, so that they can be counted.                *)
LEMMA PairsCount ==
  ASSUME msg \in Seq(Byte)
  PROVE  /\ Pairs \subseteq 2 .. Len(msg) - 1
         /\ IsFiniteSet(Pairs) /\ Cardinality(Pairs) \in Nat
         /\ \A z : /\ IsFiniteSet(PairsBefore(z)) /\ Cardinality(PairsBefore(z)) \in Nat
                   /\ Cardinality(PairsBefore(z)) <= Cardinality(Pairs)
<1>1. Pairs \subseteq 2 .. Len(msg) - 1
  BY DEF Pairs
<1>2. IsFiniteSet(2 .. Len(msg) - 1)
  BY FS_Interval
<1>3. IsFiniteSet(Pairs)
  BY <1>1, <1>2, FS_Subset
<1>4. ASSUME NEW z
      PROVE  /\ IsFiniteSet(PairsBefore(z)) /\ Cardinality(PairsBefore(z)) \in Nat
             /\ Cardinality(PairsBefore(z)) <= Cardinality(Pairs)
  <2>1. PairsBefore(z) \subseteq Pairs
    BY DEF PairsBefore
  <2> QED
    BY <2>1, <1>3, FS_Subset, FS_CardinalityType
<1> QED
  BY <1>1, <1>3, <1>4, FS_CardinalityType

(* A pair's two bytes are not the beginning of another.                    *)
LEMMA PairsApart ==
  ASSUME NEW z \in Pairs
  PROVE  z + 1 \notin Pairs /\ z - 1 \notin Pairs
<1>1. z \in Int /\ msg[z] = Esc /\ msg[z + 1] \in {EscFlag, EscEsc}
  BY DEF Pairs, IsPair
<1>2. msg[z + 1] # Esc
  BY <1>1, Bytes
<1>3. \A y \in Pairs : msg[y] = Esc /\ msg[y + 1] # Esc
  BY Bytes DEF Pairs, IsPair
<1>4. (z - 1) + 1 = z
  BY <1>1
<1> QED
  BY <1>1, <1>2, <1>3, <1>4

(* Escaping adds one byte as it is: no pair begins or ends there.          *)
LEMMA AddByte ==
  ASSUME Shapes, Stands, pc = "escape", NEW b \in Byte, b # Esc, frame[i] = b,
         msg' = Append(msg, b), UNCHANGED frame, Done' = i
  PROVE  /\ Len(msg') = Len(msg) + 1 /\ msg'[Len(msg) + 1] = b
         /\ \A z \in 1 .. Len(msg) : msg'[z] = msg[z]
         /\ Pairs' = Pairs
         /\ Len(msg') - Cardinality(Pairs') = Done'
         /\ \A z \in 1 .. Len(msg') : z - 1 \notin Pairs' =>
              Place(z)' \in 1 .. Done' /\ frame'[Place(z)'] = Meaning(z)'
<1> DEFINE L == Len(msg)
<1>1. /\ L \in Nat /\ L >= 1 /\ Len(msg') = L + 1 /\ msg'[L + 1] = b
      /\ \A z \in 1 .. L : msg'[z] = msg[z]
      /\ Done = i - 1 /\ i \in Int /\ i >= 2
  BY DEF Shapes, Stands, Done
<1>2. Pairs \subseteq 2 .. L - 1 /\ Cardinality(Pairs) \in Nat
  BY PairsCount DEF Shapes
<1>3. msg[L] # Esc
  BY <1>1, <1>2 DEF Stands
<1>4. ASSUME NEW z \in 1 .. L - 1
      PROVE  z \in Pairs' <=> z \in Pairs
  BY <1>1 DEF Pairs, IsPair
<1>5. Pairs' \subseteq 1 .. L - 1
  <2> SUFFICES ASSUME NEW z \in Pairs' PROVE z \in 1 .. L - 1
    OBVIOUS
  <2>1. z \in 2 .. L /\ msg'[z] = Esc
    BY <1>1 DEF Pairs, IsPair
  <2> QED
    BY <2>1, <1>1, <1>3
<1>6. Pairs' = Pairs
  <2>1. ASSUME NEW z \in Pairs PROVE z \in Pairs'
    BY <1>2, <1>4
  <2>2. ASSUME NEW z \in Pairs' PROVE z \in Pairs
    BY <1>4, <1>5
  <2> QED
    BY <2>1, <2>2
<1>7. Len(msg') - Cardinality(Pairs') = Done'
  <2>1. L - Cardinality(Pairs) = i - 1
    BY <1>1 DEF Stands
  <2> QED
    BY <2>1, <1>1, <1>2, <1>6
<1>8. ASSUME NEW z \in 1 .. L + 1, z - 1 \notin Pairs
      PROVE  Place(z)' \in 1 .. i /\ frame[Place(z)'] = Meaning(z)'
  <2>1. PairsBefore(z)' = PairsBefore(z)
    BY <1>6 DEF PairsBefore
  <2>2. Place(z)' = Place(z)
    BY <2>1 DEF Place
  <2>3. CASE z \in 1 .. L
    <3>1. Place(z) \in 1 .. i - 1 /\ frame[Place(z)] = Meaning(z)
      BY <1>1, <1>8, <2>3 DEF Stands
    <3>2. z \in Pairs => z + 1 \in 1 .. L
      BY <1>1, <1>2
    <3>3. Meaning(z)' = Meaning(z)
      BY <1>1, <1>6, <2>3, <3>2 DEF Meaning, Unescaped
    <3> QED
      BY <2>2, <3>1, <3>3, <1>1
  <2>4. CASE z = L + 1
    <3>0. \A p \in Pairs : p < z
      BY <1>1, <1>2, <2>4
    <3>1. PairsBefore(z) = Pairs
      BY <3>0 DEF PairsBefore
    <3>2. Place(z) = z - Cardinality(Pairs)
      BY <3>1 DEF Place
    <3>3. L - Cardinality(Pairs) = i - 1
      BY <1>1 DEF Stands
    <3>4. Place(z) = i
      <4>1. L \in Int /\ i \in Int /\ Cardinality(Pairs) \in Int /\ z = L + 1
        BY <1>1, <1>2, <2>4
      <4> HIDE DEF L
      <4> QED
        BY <3>2, <3>3, <4>1
    <3>5. z \notin Pairs'
      BY <1>1, <1>2, <1>6, <2>4
    <3>6. Meaning(z)' = b
      BY <1>1, <2>4, <3>5 DEF Meaning
    <3> QED
      BY <2>2, <3>4, <3>6, <1>1
  <2> QED
    BY <1>1, <2>3, <2>4
<1> QED
  BY <1>1, <1>6, <1>7, <1>8

(* Escaping adds a pair, which stands for the byte of the frame.           *)
LEMMA AddPair ==
  ASSUME Shapes, Stands, pc = "escape", NEW c \in {EscFlag, EscEsc},
         frame[i] = IF c = EscFlag THEN Flag ELSE Esc,
         msg' = msg \o <<Esc, c>>, UNCHANGED frame, Done' = i
  PROVE  /\ Len(msg') = Len(msg) + 2 /\ msg'[Len(msg) + 1] = Esc /\ msg'[Len(msg) + 2] = c
         /\ \A z \in 1 .. Len(msg) : msg'[z] = msg[z]
         /\ Pairs' = Pairs \cup {Len(msg) + 1}
         /\ Len(msg') - Cardinality(Pairs') = Done'
         /\ \A z \in 1 .. Len(msg') : z - 1 \notin Pairs' =>
              Place(z)' \in 1 .. Done' /\ frame'[Place(z)'] = Meaning(z)'
<1> DEFINE L == Len(msg)
<1>0. c \in Byte /\ Esc \in Byte /\ c # Esc /\ <<Esc, c>> \in Seq(Byte)
  BY Bytes
<1>1. /\ L \in Nat /\ L >= 1 /\ Len(msg') = L + 2 /\ msg'[L + 1] = Esc /\ msg'[L + 2] = c
      /\ \A z \in 1 .. L : msg'[z] = msg[z]
      /\ Done = i - 1 /\ i \in Int /\ i >= 2
  BY <1>0 DEF Shapes, Stands, Done
<1>2. Pairs \subseteq 2 .. L - 1 /\ Cardinality(Pairs) \in Nat /\ IsFiniteSet(Pairs)
  BY PairsCount DEF Shapes
<1>3. msg[L] # Esc
  BY <1>1, <1>2 DEF Stands
<1>4. ASSUME NEW z \in 1 .. L - 1
      PROVE  z \in Pairs' <=> z \in Pairs
  BY <1>1 DEF Pairs, IsPair
<1>5. L + 1 \in Pairs'
  <2>1. msg'[(L + 1) + 1] = c
    BY <1>1
  <2> QED
    BY <1>1, <2>1 DEF Pairs, IsPair
<1>6. Pairs' \subseteq 1 .. L - 1 \cup {L + 1}
  <2> SUFFICES ASSUME NEW z \in Pairs' PROVE z \in 1 .. L - 1 \/ z = L + 1
    OBVIOUS
  <2>1. z \in 2 .. L + 1 /\ msg'[z] = Esc
    BY <1>1 DEF Pairs, IsPair
  <2>2. z # L
    BY <2>1, <1>1, <1>3
  <2> QED
    BY <2>1, <2>2, <1>1
<1>7. Pairs' = Pairs \cup {L + 1}
  <2>1. ASSUME NEW z \in Pairs PROVE z \in Pairs'
    BY <1>2, <1>4
  <2>2. ASSUME NEW z \in Pairs' PROVE z \in Pairs \/ z = L + 1
    BY <1>4, <1>6
  <2> QED
    BY <1>5, <2>1, <2>2
<1>8. Cardinality(Pairs') = Cardinality(Pairs) + 1
  <2>1. L + 1 \notin Pairs
    BY <1>1, <1>2
  <2> QED
    BY <1>2, <1>7, <2>1, FS_AddElement
<1>9. Len(msg') - Cardinality(Pairs') = Done'
  <2>1. L - Cardinality(Pairs) = i - 1
    BY <1>1 DEF Stands
  <2> QED
    BY <2>1, <1>1, <1>2, <1>8
<1>10. ASSUME NEW z \in 1 .. L + 2, z - 1 \notin Pairs'
       PROVE  Place(z)' \in 1 .. i /\ frame[Place(z)'] = Meaning(z)'
  <2>1. z \in 1 .. L + 1
    <3>1. (L + 2) - 1 = L + 1
      BY <1>1
    <3> QED
      BY <1>1, <1>5, <1>10, <3>1
  <2>2. PairsBefore(z)' = PairsBefore(z)
    BY <1>1, <1>7, <2>1 DEF PairsBefore
  <2>3. Place(z)' = Place(z)
    BY <2>2 DEF Place
  <2>4. CASE z \in 1 .. L
    <3>1. Place(z) \in 1 .. i - 1 /\ frame[Place(z)] = Meaning(z)
      BY <1>1, <1>7, <1>10, <2>4 DEF Stands
    <3>2. z \in Pairs => z + 1 \in 1 .. L
      BY <1>1, <1>2
    <3>3. z \in Pairs' <=> z \in Pairs
      BY <1>1, <1>7, <2>4
    <3>4. Meaning(z)' = Meaning(z)
      BY <1>1, <3>3, <2>4, <3>2 DEF Meaning, Unescaped
    <3> QED
      BY <2>3, <3>1, <3>4, <1>1
  <2>5. CASE z = L + 1
    <3>0. \A p \in Pairs : p < z
      BY <1>1, <1>2, <2>5
    <3>1. PairsBefore(z) = Pairs
      BY <3>0 DEF PairsBefore
    <3>2. Place(z) = z - Cardinality(Pairs)
      BY <3>1 DEF Place
    <3>3. L - Cardinality(Pairs) = i - 1
      BY <1>1 DEF Stands
    <3>4. Place(z) = i
      BY <3>2, <3>3, <1>1, <1>2, <2>5
    <3>5. msg'[z + 1] = c
      BY <1>1, <2>5
    <3>6. Meaning(z)' = IF c = EscFlag THEN Flag ELSE Esc
      BY <1>5, <2>5, <3>5 DEF Meaning, Unescaped
    <3> QED
      BY <2>3, <3>4, <3>6, <1>1
  <2> QED
    BY <1>1, <2>1, <2>4, <2>5
<1> QED
  BY <1>1, <1>7, <1>9, <1>10

LEMMA BodyIsSeq == ASSUME NEW b \in Body PROVE b \in Seq(Byte)
<1>1. PICK n \in 0 .. MaxBody : b \in [1 .. n -> Byte]
  BY DEF Body
<1>2. n \in Nat
  BY <1>1, AntFrameAssumption
<1> QED
  BY <1>1, <1>2

LEMMA FrameInitInv == FrameInit => FrameInv
<1> SUFFICES ASSUME FrameInit PROVE FrameInv
  OBVIOUS
<1>1. PICK b \in Body : frame = <<Flag>> \o b \o <<Flag>>
  BY DEF FrameInit
<1>2. b \in Seq(Byte) /\ Flag \in Byte
  BY <1>1, BodyIsSeq, Bytes
<1>3. /\ frame \in Seq(Byte) /\ Len(frame) = Len(b) + 2 /\ Len(b) \in Nat
      /\ frame[1] = Flag /\ frame[Len(frame)] = Flag
  <2>1. <<Flag>> \in Seq(Byte) /\ Len(<<Flag>>) = 1 /\ <<Flag>>[1] = Flag
    BY <1>2
  <2>2. <<Flag>> \o b \in Seq(Byte) /\ Len(<<Flag>> \o b) = Len(b) + 1
    BY <1>2, <2>1
  <2>3. (<<Flag>> \o b)[1] = Flag
    BY <1>2, <2>1
  <2> QED
    BY <1>1, <1>2, <2>1, <2>2, <2>3
<1>4. msg = <<Flag>> /\ msg \in Seq(Byte) /\ Len(msg) = 1 /\ msg[1] = Flag /\ i = 2 /\ pc = "escape"
  BY <1>2 DEF FrameInit
<1>5. Shapes
  BY <1>3, <1>4 DEF Shapes, FrameInit
<1>6. Pairs = {} /\ Cardinality(Pairs) = 0
  <2>1. Pairs = {}
    BY <1>4 DEF Pairs
  <2> QED
    BY <2>1, FS_EmptySet
<1>7. Stands
  <2>1. Done = 1
    BY <1>4 DEF Done
  <2>2. PairsBefore(1) = {} /\ Cardinality(PairsBefore(1)) = 0
    <3>1. PairsBefore(1) = {}
      BY <1>6 DEF PairsBefore
    <3> QED
      BY <3>1, FS_EmptySet
  <2>3. Place(1) = 1
    BY <2>2 DEF Place
  <2>4. Meaning(1) = Flag
    BY <1>4, <1>6 DEF Meaning
  <2> QED
    BY <1>3, <1>4, <1>6, <2>1, <2>3, <2>4, Bytes DEF Stands
<1> QED
  BY <1>4, <1>5, <1>7 DEF FrameInv, Walked, Ended

(* The relation is about the frame and the message alone.                  *)
LEMMA MessageStays ==
  ASSUME UNCHANGED <<msg, frame>>
  PROVE  /\ Pairs' = Pairs
         /\ \A z : /\ PairsBefore(z)' = PairsBefore(z) /\ Place(z)' = Place(z)
                   /\ Meaning(z)' = Meaning(z) /\ IsPair(z)' = IsPair(z)
         /\ Done' = Done => (pc' # "escape" /\ pc # "escape" /\ Stands => Stands')
<1>1. Pairs' = Pairs
  BY DEF Pairs, IsPair
<1>2. ASSUME NEW z
      PROVE  /\ PairsBefore(z)' = PairsBefore(z) /\ Place(z)' = Place(z)
             /\ Meaning(z)' = Meaning(z) /\ IsPair(z)' = IsPair(z)
  <2>1. PairsBefore(z)' = PairsBefore(z)
    BY <1>1 DEF PairsBefore
  <2>2. Place(z)' = Place(z)
    BY <2>1 DEF Place
  <2>3. Meaning(z)' = Meaning(z)
    BY <1>1 DEF Meaning, Unescaped
  <2>4. IsPair(z)' = IsPair(z)
    BY DEF IsPair
  <2> QED
    BY <2>1, <2>2, <2>3, <2>4
<1>3. ASSUME Done' = Done, pc' # "escape", pc # "escape", Stands PROVE Stands'
  <2>1. \A z \in 1 .. Len(msg) : z - 1 \notin Pairs' =>
           Place(z)' \in 1 .. Done' /\ frame'[Place(z)'] = Meaning(z)'
    BY <1>1, <1>2, <1>3 DEF Stands
  <2> QED
    BY <1>1, <1>3, <2>1 DEF Stands
<1> QED
  BY <1>1, <1>2, <1>3

LEMMA EscapeByteStep == ASSUME FrameInv, EscapeByte PROVE FrameInv'
<1>1. pc = "escape" /\ pc' = "escape" /\ i < Len(frame) /\ i' = i + 1 /\ Shapes /\ Stands
  BY DEF FrameInv, EscapeByte
<1>2. /\ i \in 2 .. Len(frame) - 1 /\ frame[i] \in Byte /\ frame' = frame /\ msg \in Seq(Byte)
      /\ Len(msg) \in Nat /\ Len(msg) >= 1
  BY <1>1 DEF Shapes, Stands, EscapeByte
<1>3. Done' = i
  BY <1>1, <1>2 DEF Done
<1>4. CASE frame[i] \notin {Esc, Flag}
  <2> DEFINE b == frame[i]
  <2>1. msg' = Append(msg, b) /\ msg' \in Seq(Byte) /\ b # Esc /\ b # Flag
    BY <1>1, <1>2, <1>4, Bytes DEF EscapeByte, Escaped
  <2> HIDE DEF b
  <2>2. /\ Len(msg') = Len(msg) + 1 /\ msg'[Len(msg) + 1] = b
        /\ \A z \in 1 .. Len(msg) : msg'[z] = msg[z]
        /\ Pairs' = Pairs
        /\ Len(msg') - Cardinality(Pairs') = Done'
        /\ \A z \in 1 .. Len(msg') : z - 1 \notin Pairs' =>
             Place(z)' \in 1 .. Done' /\ frame'[Place(z)'] = Meaning(z)'
    BY <1>1, <1>2, <1>3, <2>1, AddByte DEF b
  <2>3. Shapes'
    BY <1>1, <1>2, <2>1 DEF Shapes, EscapeByte
  <2>4. \A z \in 2 .. Len(msg') : msg'[z] # Flag
    BY <1>1, <1>2, <2>1, <2>2 DEF Stands
  <2>5. \A z \in 1 .. Len(msg') : msg'[z] = Esc => z \in Pairs'
    BY <1>1, <1>2, <2>1, <2>2 DEF Stands
  <2>6. Stands'
    BY <1>1, <1>2, <2>2, <2>4, <2>5 DEF Stands
  <2> QED
    BY <1>1, <2>3, <2>6 DEF FrameInv, Walked, Ended
<1>5. CASE frame[i] \in {Esc, Flag}
  <2> DEFINE c == IF frame[i] = Flag THEN EscFlag ELSE EscEsc
  <2>1. /\ c \in {EscFlag, EscEsc} /\ frame[i] = (IF c = EscFlag THEN Flag ELSE Esc)
        /\ msg' = msg \o <<Esc, c>> /\ c # Flag /\ c # Esc /\ c \in Byte
    BY <1>1, <1>2, <1>5, Bytes DEF EscapeByte, Escaped
  <2> HIDE DEF c
  <2>2. /\ Len(msg') = Len(msg) + 2 /\ msg'[Len(msg) + 1] = Esc /\ msg'[Len(msg) + 2] = c
        /\ \A z \in 1 .. Len(msg) : msg'[z] = msg[z]
        /\ Pairs' = Pairs \cup {Len(msg) + 1}
        /\ Len(msg') - Cardinality(Pairs') = Done'
        /\ \A z \in 1 .. Len(msg') : z - 1 \notin Pairs' =>
             Place(z)' \in 1 .. Done' /\ frame'[Place(z)'] = Meaning(z)'
    <3>1. PICK d : d = c
      OBVIOUS
    <3> QED
      BY <1>1, <1>2, <1>3, <2>1, <3>1, AddPair
  <2>3. Shapes'
    <3>1. <<Esc, c>> \in Seq(Byte)
      BY <2>1, Bytes
    <3>2. msg' \in Seq(Byte)
      BY <1>2, <2>1, <3>1
    <3> QED
      BY <1>1, <1>2, <3>2 DEF Shapes, EscapeByte
  <2>4. \A z \in 2 .. Len(msg') : msg'[z] # Flag
    <3>1. \A z \in 2 .. Len(msg) : msg'[z] # Flag
      BY <1>1, <1>2, <2>2 DEF Stands
    <3> QED
      BY <1>2, <2>1, <2>2, <3>1, Bytes
  <2>5. \A z \in 1 .. Len(msg') : msg'[z] = Esc => z \in Pairs'
    <3>1. \A z \in 1 .. Len(msg) : msg'[z] = Esc => z \in Pairs'
      BY <1>1, <1>2, <2>2 DEF Stands
    <3> QED
      BY <1>2, <2>1, <2>2, <3>1, Bytes
  <2>6. Stands'
    BY <1>1, <1>2, <2>2, <2>4, <2>5 DEF Stands
  <2> QED
    BY <1>1, <2>3, <2>6 DEF FrameInv, Walked, Ended
<1> QED
  BY <1>4, <1>5

LEMMA EscapeEndStep == ASSUME FrameInv, EscapeEnd PROVE FrameInv'
<1>1. pc = "escape" /\ pc' = "count" /\ i = Len(frame) /\ Shapes /\ Stands
  BY DEF FrameInv, EscapeEnd
<1>2. /\ i \in 2 .. Len(frame) /\ frame[i] = Flag /\ frame' = frame /\ i' = i /\ msg \in Seq(Byte)
      /\ Len(msg) \in Nat /\ Len(msg) >= 1
  BY <1>1 DEF Shapes, Stands, EscapeEnd
<1>3. Done' = i
  BY <1>1, <1>2 DEF Done
<1>4. msg' = Append(msg, Flag) /\ msg' \in Seq(Byte) /\ Flag # Esc /\ Flag \in Byte
  BY <1>1, <1>2, Bytes DEF EscapeEnd
<1>5. /\ Len(msg') = Len(msg) + 1 /\ msg'[Len(msg) + 1] = Flag
      /\ \A z \in 1 .. Len(msg) : msg'[z] = msg[z]
      /\ Pairs' = Pairs
      /\ Len(msg') - Cardinality(Pairs') = Done'
      /\ \A z \in 1 .. Len(msg') : z - 1 \notin Pairs' =>
           Place(z)' \in 1 .. Done' /\ frame'[Place(z)'] = Meaning(z)'
  BY <1>1, <1>2, <1>3, <1>4, AddByte
<1>6. Shapes'
  BY <1>1, <1>2, <1>4 DEF Shapes, EscapeEnd
<1>7. \A z \in 2 .. Len(msg') : msg'[z] = Flag <=> z = Len(msg')
  <2>1. \A z \in 2 .. Len(msg) : msg[z] # Flag
    BY <1>1 DEF Stands
  <2>2. ASSUME NEW z \in 2 .. Len(msg') PROVE msg'[z] = Flag <=> z = Len(msg')
    <3>1. CASE z \in 2 .. Len(msg)
      <4>1. z # Len(msg')
        BY <1>2, <1>5, <3>1
      <4> QED
        BY <1>5, <2>1, <3>1, <4>1
    <3>2. CASE z = Len(msg')
      BY <1>5, <3>2
    <3> QED
      BY <1>2, <1>5, <3>1, <3>2
  <2> QED
    BY <2>2
<1>8. \A z \in 1 .. Len(msg') : msg'[z] = Esc => z \in Pairs'
  BY <1>1, <1>2, <1>4, <1>5 DEF Stands
<1>9. Stands'
  BY <1>1, <1>2, <1>5, <1>7, <1>8 DEF Stands
<1> QED
  BY <1>1, <1>6, <1>9 DEF FrameInv, Walked, Ended

LEMMA CountPairsStep == ASSUME FrameInv, CountPairs PROVE FrameInv'
<1>1. pc = "count" /\ pc' = "walk" /\ i' = 2 /\ UNCHANGED <<msg, frame>> /\ Shapes /\ Stands
  BY DEF FrameInv, CountPairs
<1>2. Done' = Done /\ Done = Len(frame)
  BY <1>1 DEF Done
<1>3. Stands'
  BY <1>1, <1>2, MessageStays
<1>4. Shapes'
  BY <1>1 DEF Shapes
<1>5. /\ Pairs' = Pairs /\ Place(2)' = Place(2) /\ count' = Cardinality(Pairs')
      /\ dst' = <<msg[1]>>
  BY <1>1, MessageStays DEF CountPairs
<1>6. /\ Pairs \subseteq 2 .. Len(msg) - 1 /\ Cardinality(Pairs) \in Nat /\ Len(msg) \in Nat
      /\ Len(msg) - Cardinality(Pairs) = Len(frame) /\ Len(frame) >= 2 /\ Len(frame) \in Nat
      /\ msg[1] = Flag /\ frame[1] = Flag
  BY <1>1, <1>2, PairsCount DEF Shapes, Stands
<1>7. Place(2) = 2
  <2>0. \A q \in Pairs : ~(q < 2)
    BY <1>6
  <2>1. PairsBefore(2) = {}
    BY <2>0 DEF PairsBefore
  <2>2. Cardinality(PairsBefore(2)) = 0
    BY <2>1, FS_EmptySet
  <2> QED
    BY <2>2 DEF Place
<1>8. WalkEnd' = Len(frame)
  BY <1>1, <1>5, <1>6 DEF WalkEnd
<1>9. dst' \in Seq(Byte) /\ Len(dst') = 1 /\ dst'[1] = frame[1] /\ 2 - 1 \notin Pairs
  BY <1>5, <1>6, Bytes
<1>10. Walked'
  <2>1. \A k \in 1 .. Len(dst') : dst'[k] = frame'[k]
    BY <1>1, <1>9
  <2>2. i' \in 2 .. Len(msg') + 1 /\ i' <= WalkEnd' + 2 /\ i' - 1 \notin Pairs'
    BY <1>1, <1>5, <1>6, <1>8, <1>9
  <2>3. Place(i)' = Place(2)'
    BY <1>1 DEF Place, PairsBefore
  <2> QED
    BY <1>1, <1>5, <1>7, <1>9, <2>1, <2>2, <2>3 DEF Walked
<1> QED
  BY <1>1, <1>3, <1>4, <1>10 DEF FrameInv, Ended

(* From one byte of the frame to the next, one place of the message        *)
(* further or two.                                                         *)
LEMMA PlaceSteps ==
  ASSUME msg \in Seq(Byte), NEW z \in Int
  PROVE  /\ z \notin Pairs => Place(z + 1) = Place(z) + 1
         /\ z \in Pairs => Place(z + 2) = Place(z) + 1
<1>1. /\ IsFiniteSet(PairsBefore(z)) /\ Cardinality(PairsBefore(z)) \in Nat
      /\ Pairs \subseteq Int
  BY PairsCount
<1>2. ASSUME z \notin Pairs PROVE Place(z + 1) = Place(z) + 1
  <2>1. \A p \in Pairs : p < z + 1 <=> p < z
    BY <1>1, <1>2
  <2>2. PairsBefore(z + 1) = PairsBefore(z)
    BY <2>1 DEF PairsBefore
  <2>3. Place(z + 1) = (z + 1) - Cardinality(PairsBefore(z))
    BY <2>2 DEF Place
  <2>4. Place(z) = z - Cardinality(PairsBefore(z))
    BY DEF Place
  <2> QED
    BY <1>1, <2>3, <2>4
<1>3. ASSUME z \in Pairs PROVE Place(z + 2) = Place(z) + 1
  <2>1. z + 1 \notin Pairs
    BY <1>3, PairsApart
  <2>2. \A p \in Pairs : p < z + 2 <=> (p < z \/ p = z)
    BY <1>1, <2>1
  <2>3. PairsBefore(z + 2) = PairsBefore(z) \cup {z}
    BY <1>3, <2>2 DEF PairsBefore
  <2>4. z \notin PairsBefore(z)
    BY DEF PairsBefore
  <2>5. Cardinality(PairsBefore(z + 2)) = Cardinality(PairsBefore(z)) + 1
    BY <1>1, <2>3, <2>4, FS_AddElement
  <2>6. Place(z + 2) = (z + 2) - Cardinality(PairsBefore(z + 2))
    BY DEF Place
  <2>7. Place(z) = z - Cardinality(PairsBefore(z))
    BY DEF Place
  <2> QED
    BY <1>1, <2>5, <2>6, <2>7
<1> QED
  BY <1>2, <1>3

(* What the walk has at hand.                                              *)
LEMMA WalkFacts ==
  ASSUME FrameInv, pc = "walk"
  PROVE  /\ Len(msg) \in Nat /\ Len(frame) \in Nat /\ Len(frame) >= 2 /\ Len(dst) \in Nat
         /\ count \in Nat /\ count = Cardinality(Pairs) /\ Len(frame) = Len(msg) - count
         /\ WalkEnd = Len(frame) /\ Done = Len(frame)
         /\ Pairs \subseteq 2 .. Len(msg) - 1 /\ IsFiniteSet(Pairs)
         /\ i \in 2 .. Len(msg) + 1 /\ i - 1 \notin Pairs /\ Place(i) = Len(dst) + 1
<1>1. Shapes /\ Stands /\ Walked
  BY DEF FrameInv
<1>2. /\ Pairs \subseteq 2 .. Len(msg) - 1 /\ IsFiniteSet(Pairs) /\ Cardinality(Pairs) \in Nat
  BY <1>1, PairsCount DEF Shapes
<1>3. Done = Len(frame)
  BY DEF Done
<1>4. Len(msg) - Cardinality(Pairs) = Len(frame)
  BY <1>1, <1>3 DEF Stands
<1>5. Len(msg) \in Nat /\ Len(frame) \in Nat /\ Len(frame) >= 2
  BY <1>1 DEF Shapes
<1>6. /\ count = Cardinality(Pairs) /\ i \in 2 .. Len(msg) + 1 /\ i - 1 \notin Pairs
      /\ Place(i) = Len(dst) + 1 /\ dst \in Seq(Byte)
  BY <1>1 DEF Walked
<1> QED
  BY <1>2, <1>3, <1>4, <1>5, <1>6 DEF WalkEnd

LEMMA WalkStep == ASSUME FrameInv, Walk PROVE FrameInv'
<1>1. /\ pc = "walk" /\ pc' = "walk" /\ UNCHANGED <<msg, frame>> /\ count' = count
      /\ Shapes /\ Stands /\ Walked /\ i <= WalkEnd
  BY DEF FrameInv, Walk
<1>2. /\ Len(msg) \in Nat /\ Len(frame) \in Nat /\ Len(frame) >= 2 /\ Len(dst) \in Nat
      /\ count \in Nat /\ count = Cardinality(Pairs) /\ Len(frame) = Len(msg) - count
      /\ WalkEnd = Len(frame) /\ Done = Len(frame)
      /\ Pairs \subseteq 2 .. Len(msg) - 1
      /\ i \in 2 .. Len(msg) + 1 /\ i - 1 \notin Pairs /\ Place(i) = Len(dst) + 1
  BY <1>1, WalkFacts
<1>3. Done' = Done
  BY <1>1 DEF Done
<1>4. Stands' /\ Pairs' = Pairs
  BY <1>1, <1>3, MessageStays
<1>5. Shapes'
  BY <1>1 DEF Shapes
<1>6. i \in 1 .. Len(msg)
  BY <1>1, <1>2
<1>7. Place(i) \in 1 .. Len(frame) /\ frame[Len(dst) + 1] = Meaning(i)
  BY <1>1, <1>2, <1>6 DEF Stands
<1>8. frame[Len(dst) + 1] \in Byte
  BY <1>1, <1>2, <1>7 DEF Shapes
<1>9. IsPair(i) <=> i \in Pairs
  BY <1>2, <1>6 DEF Pairs, IsPair
<1>10. PICK j : j = i'
  OBVIOUS
<1>11. Place(i)' = Place(j)
  <2>1. Place(i)' = Place(j)'
    BY <1>10 DEF Place, PairsBefore
  <2> QED
    BY <1>1, <2>1, MessageStays
<1>12. /\ dst' = Append(dst, frame[Len(dst) + 1])
       /\ j \in 2 .. Len(msg) + 1 /\ j <= WalkEnd + 2 /\ j - 1 \notin Pairs
       /\ Place(j) = Place(i) + 1
  <2>1. CASE i \in Pairs
    <3>1. dst' = Append(dst, Unescaped(i)) /\ j = i + 2
      BY <1>9, <1>10, <2>1 DEF Walk
    <3>2. Meaning(i) = Unescaped(i)
      BY <2>1 DEF Meaning
    <3>3. i + 1 \notin Pairs /\ j - 1 = i + 1
      BY <1>2, <2>1, <3>1, PairsApart
    <3>4. Place(j) = Place(i) + 1
      BY <1>1, <1>2, <2>1, <3>1, PlaceSteps DEF Shapes
    <3>5. j \in 2 .. Len(msg) + 1 /\ j <= WalkEnd + 2
      BY <1>1, <1>2, <2>1, <3>1
    <3> QED
      BY <1>7, <3>1, <3>2, <3>3, <3>4, <3>5
  <2>2. CASE i \notin Pairs
    <3>1. dst' = Append(dst, Read(i)) /\ j = i + 1
      BY <1>9, <1>10, <2>2 DEF Walk
    <3>2. Meaning(i) = msg[i] /\ Read(i) = msg[i]
      BY <1>6, <2>2 DEF Meaning, Read
    <3>3. j - 1 = i
      BY <1>2, <3>1
    <3>4. Place(j) = Place(i) + 1
      BY <1>1, <1>2, <2>2, <3>1, PlaceSteps DEF Shapes
    <3>5. j \in 2 .. Len(msg) + 1 /\ j <= WalkEnd + 2
      BY <1>1, <1>2, <1>6, <3>1
    <3> QED
      BY <1>7, <2>2, <3>1, <3>2, <3>3, <3>4, <3>5
  <2> QED
    BY <2>1, <2>2
<1>13. dst \in Seq(Byte)
  BY <1>1 DEF Walked
<1>14. /\ dst' \in Seq(Byte) /\ Len(dst') = Len(dst) + 1
       /\ \A k \in 1 .. Len(dst') : dst'[k] = frame[k]
  <2>1. \A k \in 1 .. Len(dst) : dst[k] = frame[k]
    BY <1>1 DEF Walked
  <2> DEFINE b == frame[Len(dst) + 1]
  <2>2. b \in Byte /\ dst' = Append(dst, b)
    BY <1>8, <1>12
  <2>3. b = frame[Len(dst) + 1]
    OBVIOUS
  <2> HIDE DEF b
  <2>4. /\ dst' \in Seq(Byte) /\ Len(dst') = Len(dst) + 1 /\ dst'[Len(dst) + 1] = b
        /\ \A k \in 1 .. Len(dst) : dst'[k] = dst[k]
    BY <1>13, <2>2
  <2>5. Len(dst) \in Nat
    BY <1>2
  <2> QED
    BY <2>1, <2>3, <2>4, <2>5
<1>15. WalkEnd' = WalkEnd
  BY <1>1 DEF WalkEnd
<1>16. Place(i)' = Len(dst') + 1
  BY <1>2, <1>11, <1>12, <1>14
<1>17. Walked'
  BY <1>1, <1>2, <1>4, <1>10, <1>12, <1>14, <1>15, <1>16 DEF Walked
<1> QED
  BY <1>1, <1>4, <1>5, <1>17 DEF FrameInv, Ended

(* What the copy of the rest writes: the message from as many bytes on as  *)
(* there are pairs before the walk's end, and nothing from behind it in    *)
(* the frame received.                                                     *)
LEMMA CopyWrites ==
  ASSUME FrameInv, CopyRest, NEW P, P = Cardinality(PairsBefore(i))
  PROVE  /\ P \in Nat /\ P <= count /\ i - P = Len(dst) + 1
         /\ Len(dst) <= Len(frame) /\ Len(frame) <= Len(dst')
         /\ Len(dst') \in Nat /\ dst' \in Seq(Byte \cup {Foreign})
         /\ \A z \in 1 .. Len(frame) :
              /\ z <= Len(dst) => dst'[z] = frame[z]
              /\ z > Len(dst) => z + P \in i .. Len(msg) /\ dst'[z] = msg[z + P]
         /\ \A z \in 1 .. Len(frame) : dst'[z] \in Byte
<1>1. pc = "walk" /\ i > WalkEnd /\ Shapes /\ Stands /\ Walked
  BY DEF FrameInv, CopyRest
<1>2. /\ Len(msg) \in Nat /\ Len(frame) \in Nat /\ Len(frame) >= 2 /\ Len(dst) \in Nat
      /\ count \in Nat /\ count = Cardinality(Pairs) /\ Len(frame) = Len(msg) - count
      /\ WalkEnd = Len(frame) /\ Done = Len(frame)
      /\ Pairs \subseteq 2 .. Len(msg) - 1
      /\ i \in 2 .. Len(msg) + 1 /\ i - 1 \notin Pairs /\ Place(i) = Len(dst) + 1
  BY <1>1, WalkFacts
<1>3. P \in Nat /\ P <= count
  BY <1>1, <1>2, PairsCount DEF Shapes
<1>4. Place(i) = i - P
  BY DEF Place
<1>5. i - P = Len(dst) + 1
  BY <1>2, <1>4
<1>6. Len(dst) <= Len(frame)
  <2>1. CASE i \in 1 .. Len(msg)
    <3>1. Place(i) \in 1 .. Len(frame)
      BY <1>1, <1>2, <2>1 DEF Stands
    <3> QED
      BY <1>2, <3>1
  <2>2. CASE i = Len(msg) + 1
    <3>1. \A q \in Pairs : q < i
      BY <1>2, <2>2
    <3>2. PairsBefore(i) = Pairs
      BY <3>1 DEF PairsBefore
    <3>3. P = count
      BY <1>2, <3>2
    <3> QED
      BY <1>2, <1>5, <2>2, <3>3
  <2> QED
    BY <1>2, <2>1, <2>2
<1>7. Len(frame) <= Len(dst) + count
  BY <1>1, <1>2, <1>3, <1>5
<1> DEFINE rest == [k \in 1 .. count |-> Read(i + k - 1)]
<1>8. dst \in Seq(Byte) /\ \A k \in 1 .. Len(dst) : dst[k] = frame[k]
  BY <1>1 DEF Walked
<1>9. \A y \in Int : y >= 1 => Read(y) \in Byte \cup {Foreign}
  BY <1>1 DEF Read, Shapes
<1>10. \A k \in 1 .. count : rest[k] \in Byte \cup {Foreign}
  BY <1>2, <1>9
<1>11. rest \in Seq(Byte \cup {Foreign}) /\ Len(rest) = count
  <2>1. rest \in [1 .. count -> Byte \cup {Foreign}] /\ count \in Nat
    BY <1>2, <1>10
  <2> HIDE DEF rest
  <2> QED
    BY <2>1
<1>12. dst \in Seq(Byte \cup {Foreign})
  BY <1>8
<1>13. dst' = dst \o rest
  BY DEF CopyRest
<1>14. \A k \in 1 .. count : rest[k] = Read(i + k - 1)
  OBVIOUS
<1> HIDE DEF rest
<1>15. /\ dst' \in Seq(Byte \cup {Foreign}) /\ Len(dst') = Len(dst) + count
       /\ \A z \in 1 .. Len(dst) : dst'[z] = dst[z]
       /\ \A z \in Len(dst) + 1 .. Len(dst) + count : dst'[z] = rest[z - Len(dst)]
  <2>1. dst' \in Seq(Byte \cup {Foreign})
    BY <1>11, <1>12, <1>13, ConcatProperties
  <2>2. Len(dst') = Len(dst) + Len(rest)
    BY <1>11, <1>12, <1>13, ConcatProperties
  <2>3. \A z \in 1 .. Len(dst) + Len(rest) :
           dst'[z] = IF z <= Len(dst) THEN dst[z] ELSE rest[z - Len(dst)]
    BY <1>11, <1>12, <1>13, ConcatProperties
  <2> QED
    <3>1. Len(dst) \in Nat /\ count \in Nat /\ Len(rest) = count
      BY <1>2, <1>11
    <3>2. ASSUME NEW z \in 1 .. Len(dst) PROVE dst'[z] = dst[z]
      BY <2>3, <3>1
    <3>3. ASSUME NEW z \in Len(dst) + 1 .. Len(dst) + count
          PROVE  dst'[z] = rest[z - Len(dst)]
      <4>1. z \in 1 .. Len(dst) + Len(rest) /\ ~(z <= Len(dst))
        BY <3>1
      <4> QED
        BY <2>3, <4>1
    <3> QED
      BY <2>1, <2>2, <3>1, <3>2, <3>3
<1>16. ASSUME NEW z \in 1 .. Len(frame), z > Len(dst)
       PROVE  z + P \in i .. Len(msg) /\ dst'[z] = msg[z + P]
  <2>1. z + P \in i .. Len(msg)
    <3>1. /\ Len(msg) \in Int /\ Len(frame) \in Int /\ Len(dst) \in Int /\ i \in Int
          /\ P \in Int /\ count \in Int /\ P <= count /\ Len(frame) = Len(msg) - count
      BY <1>2, <1>3
    <3>2. z \in Int /\ z <= Len(frame) /\ z >= Len(dst) + 1
      BY <1>16, <3>1
    <3> QED
      BY <1>5, <3>1, <3>2
  <2>2. z \in Len(dst) + 1 .. Len(dst) + count /\ z - Len(dst) \in 1 .. count
    BY <1>2, <1>7, <1>16
  <2>3. dst'[z] = Read(i + (z - Len(dst)) - 1)
    BY <1>14, <1>15, <2>2
  <2>4. i + (z - Len(dst)) - 1 = z + P
    <3>1. i \in Int /\ P \in Int /\ Len(dst) \in Int /\ z \in Int
      BY <1>2, <1>3
    <3> QED
      BY <1>5, <3>1
  <2>5. Read(z + P) = msg[z + P]
    BY <1>2, <2>1 DEF Read
  <2> QED
    BY <2>1, <2>3, <2>4, <2>5
<1>17. ASSUME NEW z \in 1 .. Len(frame), z <= Len(dst)
       PROVE  dst'[z] = frame[z]
  <2>1. z \in 1 .. Len(dst)
    BY <1>2, <1>17
  <2> QED
    BY <1>8, <1>15, <2>1
<1>18. ASSUME NEW z \in 1 .. Len(frame)
       PROVE  dst'[z] \in Byte
  <2>1. CASE z <= Len(dst)
    BY <1>1, <1>17, <2>1 DEF Shapes
  <2>2. CASE z > Len(dst)
    <3>1. z + P \in 1 .. Len(msg) /\ dst'[z] = msg[z + P]
      BY <1>2, <1>16, <2>2
    <3> QED
      BY <1>1, <3>1 DEF Shapes
  <2> QED
    BY <1>2, <2>1, <2>2
<1>19. Len(frame) <= Len(dst') /\ Len(dst') \in Nat
  BY <1>2, <1>7, <1>15
<1>20. dst' \in Seq(Byte \cup {Foreign})
  BY <1>15
<1> QED
  BY <1>3, <1>5, <1>6, <1>16, <1>17, <1>18, <1>19, <1>20

(* When no pair is left, the rest of the message is the frame's.           *)
LEMMA NoneLate ==
  ASSUME FrameInv, CopyRest, \A q \in Pairs : q <= Len(frame)
  PROVE  \A z \in 1 .. Len(frame) : dst'[z] = frame[z]
<1>1. pc = "walk" /\ i > WalkEnd /\ Shapes /\ Stands
  BY DEF FrameInv, CopyRest
<1>2. /\ Len(msg) \in Nat /\ Len(frame) \in Nat /\ Len(dst) \in Nat
      /\ count \in Nat /\ count = Cardinality(Pairs) /\ Len(frame) = Len(msg) - count
      /\ WalkEnd = Len(frame) /\ Done = Len(frame)
      /\ Pairs \subseteq 2 .. Len(msg) - 1
      /\ i \in 2 .. Len(msg) + 1 /\ i - 1 \notin Pairs
  BY <1>1, WalkFacts
<1>3. \A q \in Pairs : q < i
  BY <1>1, <1>2
<1>4. PairsBefore(i) = Pairs
  BY <1>3 DEF PairsBefore
<1>5. count = Cardinality(PairsBefore(i))
  BY <1>2, <1>4
<1> SUFFICES ASSUME NEW z \in 1 .. Len(frame) PROVE dst'[z] = frame[z]
  OBVIOUS
<1>6. CASE z <= Len(dst)
  BY <1>5, <1>6, CopyWrites
<1>7. CASE z > Len(dst)
  <2>1. z + count \in i .. Len(msg) /\ dst'[z] = msg[z + count]
    BY <1>5, <1>7, CopyWrites
  <2>2. \A q \in Pairs : q < z + count
    BY <1>2, <1>3, <2>1
  <2>3. PairsBefore(z + count) = Pairs
    BY <2>2 DEF PairsBefore
  <2>4. Place(z + count) = (z + count) - count
    BY <1>2, <2>3 DEF Place
  <2>5. Place(z + count) = z
    BY <1>2, <2>4
  <2>6. z + count - 1 \notin Pairs /\ z + count \notin Pairs /\ z + count \in 1 .. Len(msg)
    <3>1. z + count - 1 = i - 1 \/ z + count - 1 >= i
      <4>1. \A k \in i .. Len(msg) : k - 1 = i - 1 \/ k - 1 >= i
        BY <1>2
      <4>2. z + count - 1 = (z + count) - 1
        BY <1>2
      <4> QED
        BY <2>1, <4>1, <4>2
    <3> QED
      BY <1>2, <1>3, <2>1, <2>2, <3>1
  <2>7. frame[Place(z + count)] = Meaning(z + count)
    <3>1. PICK y : y = z + count
      OBVIOUS
    <3>2. y \in 1 .. Len(msg) /\ y - 1 \notin Pairs
      BY <1>2, <2>6, <3>1
    <3>3. frame[Place(y)] = Meaning(y)
      BY <1>1, <3>2 DEF Stands
    <3> QED
      BY <3>1, <3>3
  <2> QED
    BY <2>1, <2>5, <2>6, <2>7 DEF Meaning
<1> QED
  BY <1>2, <1>6, <1>7

(* When one is, there are three, and the frame's last byte is spoilt.      *)
LEMMA OneLate ==
  ASSUME FrameInv, CopyRest, NEW q \in Pairs, q > Len(frame)
  PROVE  count >= 3 /\ dst'[Len(frame)] # frame[Len(frame)]
<1>1. pc = "walk" /\ i > WalkEnd /\ Shapes /\ Stands /\ Walked
  BY DEF FrameInv, CopyRest
<1>2. /\ Len(msg) \in Nat /\ Len(frame) \in Nat /\ Len(frame) >= 2 /\ Len(dst) \in Nat
      /\ count \in Nat /\ count = Cardinality(Pairs) /\ Len(frame) = Len(msg) - count
      /\ WalkEnd = Len(frame) /\ Done = Len(frame)
      /\ Pairs \subseteq 2 .. Len(msg) - 1 /\ IsFiniteSet(Pairs)
      /\ i \in 2 .. Len(msg) + 1 /\ i - 1 \notin Pairs /\ Place(i) = Len(dst) + 1
  BY <1>1, WalkFacts
<1>3. i <= Len(frame) + 2
  BY <1>1, <1>2 DEF Walked
<1>4. q # i - 1
  BY <1>2
<1>5. q \in Int /\ q >= i /\ q <= Len(msg) - 1
  BY <1>1, <1>2, <1>3, <1>4
<1>6. q # Len(msg) - 1
  <2>1. msg[q + 1] \in {EscFlag, EscEsc}
    BY DEF Pairs, IsPair
  <2>2. msg[q + 1] # Flag
    BY <2>1, Bytes
  <2>3. Len(msg) \in 2 .. Len(msg)
    BY <1>2, <1>5
  <2>4. msg[Len(msg)] = Flag
    BY <1>1, <2>3 DEF Stands
  <2>5. q = Len(msg) - 1 => q + 1 = Len(msg)
    BY <1>2
  <2> QED
    BY <2>2, <2>4, <2>5
<1>7. count >= 3
  BY <1>2, <1>5, <1>6
<1> DEFINE P == Cardinality(PairsBefore(i))
<1>8. P < count /\ P \in Nat
  <2>1. PairsBefore(i) \subseteq Pairs \ {q}
    BY <1>2, <1>5 DEF PairsBefore
  <2>2. IsFiniteSet(Pairs \ {q}) /\ Cardinality(Pairs \ {q}) = count - 1
    BY <1>2, FS_RemoveElement
  <2>3. IsFiniteSet(PairsBefore(i)) /\ P <= count - 1
    BY <2>1, <2>2, FS_Subset
  <2>4. P \in Nat
    BY <2>3, FS_CardinalityType
  <2> HIDE DEF P
  <2> QED
    BY <1>2, <2>3, <2>4
<1>9. i - P = Len(dst) + 1
  <2>1. Place(i) = i - P
    BY DEF Place
  <2> QED
    BY <1>2, <2>1
<1>10. Len(dst) < Len(frame)
  <2>1. i \in 1 .. Len(msg)
    BY <1>2, <1>5
  <2>2. Place(i) \in 1 .. Len(frame)
    BY <1>1, <1>2, <2>1 DEF Stands
  <2> QED
    BY <1>2, <2>2
<1>11. Len(frame) \in 1 .. Len(frame)
  BY <1>2
<1>12. dst'[Len(frame)] = msg[Len(frame) + P] /\ Len(frame) + P \in i .. Len(msg)
  BY <1>10, <1>11, CopyWrites
<1> HIDE DEF P
<1>13. Len(frame) + P \in 2 .. Len(msg) /\ Len(frame) + P # Len(msg)
  <2>1. /\ Len(msg) \in Int /\ Len(frame) \in Int /\ i \in Int /\ i >= 2 /\ count \in Int
        /\ Len(frame) = Len(msg) - count
    BY <1>2
  <2>2. Len(frame) + P # Len(msg)
    BY <1>8, <2>1
  <2>3. Len(frame) + P \in 2 .. Len(msg)
    BY <1>8, <1>12, <2>1
  <2> QED
    BY <2>2, <2>3
<1>14. msg[Len(frame) + P] # Flag
  BY <1>1, <1>13 DEF Stands
<1> QED
  BY <1>1, <1>7, <1>12, <1>14 DEF Shapes

LEMMA CopyRestStep == ASSUME FrameInv, CopyRest PROVE FrameInv'
<1>1. /\ pc = "walk" /\ pc' = "done" /\ UNCHANGED <<msg, frame>> /\ count' = count /\ i' = i
      /\ Shapes /\ Stands
  BY DEF FrameInv, CopyRest
<1>2. /\ Len(msg) \in Nat /\ Len(frame) \in Nat /\ Len(frame) >= 2 /\ Len(dst) \in Nat
      /\ count \in Nat /\ count = Cardinality(Pairs) /\ Len(frame) = Len(msg) - count
      /\ WalkEnd = Len(frame) /\ Done = Len(frame)
      /\ i \in 2 .. Len(msg) + 1
  BY <1>1, WalkFacts
<1>3. Done' = Done
  BY <1>1 DEF Done
<1>4. Stands' /\ Pairs' = Pairs
  BY <1>1, <1>3, MessageStays
<1>5. Shapes'
  BY <1>1 DEF Shapes
<1>6. FinalLen' = Len(frame) /\ WalkEnd' = Len(frame)
  BY <1>1, <1>2 DEF FinalLen, WalkEnd
<1>7. /\ Len(frame) <= Len(dst') /\ Len(dst') \in Nat /\ dst' \in Seq(Byte \cup {Foreign})
      /\ \A z \in 1 .. Len(frame) : dst'[z] \in Byte
  BY CopyWrites
<1>8. \A z \in 1 .. FinalLen' : dst'[z] # Foreign
  BY <1>6, <1>7, Bytes
<1>9. /\ Received' \in Seq(Byte \cup {Foreign}) /\ Len(Received') = Len(frame)
      /\ \A z \in 1 .. Len(frame) : Received'[z] = dst'[z]
  BY <1>2, <1>6, <1>7 DEF Received
<1>10. ASSUME \A q \in Pairs : q <= Len(frame)
       PROVE  Received' = frame
  <2>1. \A z \in 1 .. Len(frame) : Received'[z] = frame[z]
    BY <1>9, <1>10, NoneLate
  <2>2. frame \in Seq(Byte)
    BY <1>1 DEF Shapes
  <2> QED
    BY <1>9, <2>1, <2>2, SeqEqual
<1>11. ASSUME NEW q \in Pairs, q > Len(frame)
       PROVE  Received' # frame /\ count >= 3
  <2>1. count >= 3 /\ dst'[Len(frame)] # frame[Len(frame)]
    BY <1>11, OneLate
  <2>2. Len(frame) \in 1 .. Len(frame)
    BY <1>2
  <2> QED
    BY <1>9, <2>1, <2>2
<1>12. Pairs \subseteq Int
  BY DEF Pairs
<1>13. RestoredUnlessLate'
  <2>1. CASE \E q \in Pairs : q > Len(frame)
    BY <1>1, <1>4, <1>6, <1>11, <2>1 DEF RestoredUnlessLate
  <2>2. CASE ~ \E q \in Pairs : q > Len(frame)
    <3>1. \A q \in Pairs : q <= Len(frame)
      BY <1>2, <1>12, <2>2
    <3> QED
      BY <1>1, <1>4, <1>6, <1>10, <2>2, <3>1 DEF RestoredUnlessLate
  <2> QED
    BY <2>1, <2>2
<1>14. Ended'
  BY <1>1, <1>2, <1>4, <1>6, <1>7, <1>8, <1>13 DEF Ended
<1> QED
  BY <1>1, <1>4, <1>5, <1>14 DEF FrameInv, Walked

-----------------------------------------------------------------------------
LEMMA FrameStepInv == FrameInv /\ [FrameNext]_frameVars => FrameInv'
<1> SUFFICES ASSUME FrameInv, [FrameNext]_frameVars PROVE FrameInv'
  OBVIOUS
<1>1. CASE EscapeByte
  BY <1>1, EscapeByteStep
<1>2. CASE EscapeEnd
  BY <1>2, EscapeEndStep
<1>3. CASE CountPairs
  BY <1>3, CountPairsStep
<1>4. CASE Walk
  BY <1>4, WalkStep
<1>5. CASE CopyRest
  BY <1>5, CopyRestStep
<1>6. CASE UNCHANGED frameVars
  <2>1. UNCHANGED <<pc, frame, i, msg, count, dst>>
    BY <1>6 DEF frameVars
  <2> QED
    <3>1. Shapes' /\ Stands'
      BY <2>1 DEF FrameInv, Shapes, Stands, Received, Done, Place, PairsBefore, Meaning, Pairs, IsPair,
                  Unescaped, WalkEnd, FinalLen
    <3>2. Walked'
      BY <2>1 DEF FrameInv, Walked, Received, Done, Place, PairsBefore, Meaning, Pairs, IsPair, Unescaped,
                  WalkEnd, FinalLen
    <3>3. Ended'
      BY <2>1 DEF FrameInv, Ended, RestoredUnlessLate, FinalLen, WalkEnd, Received, Done, Place,
                  PairsBefore, Meaning, Pairs, IsPair, Unescaped
    <3> QED
      BY <3>1, <3>2, <3>3 DEF FrameInv
<1> QED
  BY <1>1, <1>2, <1>3, <1>4, <1>5, <1>6 DEF FrameNext

(* The escaping builds the relation, the walk goes along it, and the copy  *)
(* of the rest ends as it does (ant_ctrl.c:178-260).                       *)
THEOREM FrameInvariance == FrameSpec => []FrameInv
<1>1. FrameInit => FrameInv
  BY FrameInitInv
<1>2. FrameInv /\ [FrameNext]_frameVars => FrameInv'
  BY FrameStepInv
<1> QED
  BY <1>1, <1>2, PTL DEF FrameSpec

LEMMA FrameInvTypes == FrameInv => FrameTypeOK
<1> SUFFICES ASSUME FrameInv PROVE FrameTypeOK
  OBVIOUS
<1>1. Shapes /\ Stands /\ Walked /\ Ended
  BY DEF FrameInv
<1>2. Len(msg) \in Nat /\ Len(frame) \in Nat /\ Len(frame) >= 2 /\ Len(msg) >= 1
  BY <1>1 DEF Shapes, Stands
<1>3. CASE pc \in {"escape", "count"}
  <2>1. i \in 2 .. Len(frame) /\ count = 0 /\ dst = << >>
    BY <1>1, <1>3 DEF Shapes
  <2>2. i \in 2 .. Len(frame) + Len(msg) /\ count \in 0 .. Len(msg)
    BY <1>2, <2>1
  <2>3. dst \in Seq(IF pc = "done" THEN Byte \cup {Foreign} ELSE Byte)
    BY <2>1
  <2> QED
    BY <1>1, <2>2, <2>3 DEF FrameTypeOK, Shapes
<1>4. CASE pc \in {"walk", "done"}
  <2>1. Cardinality(Pairs) \in Nat
    BY <1>1, PairsCount DEF Shapes
  <2>2. Len(msg) - Cardinality(Pairs) = Len(frame)
    BY <1>1, <1>4 DEF Stands, Done
  <2>3. count = Cardinality(Pairs) /\ i \in 2 .. Len(msg) + 1
    BY <1>1, <1>4 DEF Walked, Ended
  <2>4. i \in 2 .. Len(frame) + Len(msg) /\ count \in 0 .. Len(msg)
    BY <1>2, <2>1, <2>2, <2>3
  <2>5. dst \in Seq(IF pc = "done" THEN Byte \cup {Foreign} ELSE Byte)
    <3>1. CASE pc = "walk"
      BY <1>1, <3>1 DEF Walked
    <3>2. CASE pc = "done"
      BY <1>1, <3>2 DEF Ended
    <3> QED
      BY <1>4, <3>1, <3>2
  <2> QED
    BY <1>1, <2>4, <2>5 DEF FrameTypeOK, Shapes
<1> QED
  BY <1>1, <1>3, <1>4 DEF Shapes

(* A message carries the flag at its two ends and nowhere else, and the    *)
(* frame received holds nothing that lay behind the message and is no      *)
(* longer than what was written, for frames of any length                  *)
(* (ant_ctrl.c:178-205, 247-253).                                          *)
THEOREM FramesAreFramed == FrameSpec => []Framed
<1>1. FrameInv => Framed
  <2> SUFFICES ASSUME FrameInv PROVE Framed
    OBVIOUS
  <2>1. Shapes /\ Stands /\ Ended /\ FrameTypeOK
    BY FrameInvTypes DEF FrameInv
  <2>2. ASSUME pc # "escape"
        PROVE  {z \in 1 .. Len(msg) : msg[z] = Flag} = {1, Len(msg)}
    <3>1. Len(msg) \in Nat /\ Len(msg) >= 1 /\ msg[1] = Flag
      BY <2>1 DEF Shapes, Stands
    <3>2. \A z \in 2 .. Len(msg) : msg[z] = Flag <=> z = Len(msg)
      BY <2>1, <2>2 DEF Stands
    <3>3. ASSUME NEW z \in 1 .. Len(msg)
          PROVE  msg[z] = Flag <=> z \in {1, Len(msg)}
      BY <3>1, <3>2
    <3>4. {1, Len(msg)} \subseteq 1 .. Len(msg)
      BY <3>1
    <3> QED
      BY <3>3, <3>4
  <2> QED
    BY <2>1, <2>2 DEF Framed, Ended
<1> QED
  BY <1>1, FrameInvariance, PTL

(* What is received is what was sent unless a pair begins among the last   *)
(* bytes the walk does not reach; then it is not, there are three pairs at *)
(* least, and still the length is right (ant_ctrl.c:226-260).              *)
THEOREM RestoredExactly == FrameSpec => []RestoredUnlessLate
<1>1. FrameInv => RestoredUnlessLate
  BY DEF FrameInv, Ended, RestoredUnlessLate
<1> QED
  BY <1>1, FrameInvariance, PTL
=============================================================================

------------------------------ MODULE AntGateway ------------------------------
(***************************************************************************)
(* The antenna gateway (ant_ctrl.c, ant_link_mgr.c): web clients send it   *)
(* UDP messages, it sends the antenna frames, and what the antenna answers *)
(* goes back to the web.  A client may set a parameter (80H, answered by   *)
(* 81H), or ask for everything: the gateway then sends two questions, 82H  *)
(* and 86H, waits for both answers, 83H and 87H, and returns them as one   *)
(* message.                                                                *)
(*                                                                         *)
(* Both callbacks run in lwIP's thread, one after the other.  The antenna  *)
(* and the network are external: datagrams overtake each other, and up to  *)
(* MaxFault are lost or doubled.                                           *)
(***************************************************************************)
EXTENDS Integers, Sequences, FiniteSets

CONSTANTS Client, NoClient,
          NoFrame,     (* a buffer whose length is 0                       *)
          Forms,       (* an answer may be "plain"; "moved": its length    *)
                       (* byte needs an escape, so that its command byte   *)
                       (* has moved; "unsound": its checksum is wrong      *)
          MaxAsk,      (* bound: messages of the web clients               *)
          MaxFault     (* bound: datagrams lost or doubled                 *)

ASSUME AntGatewayAssumption ==
  /\ NoClient \notin Client
  /\ NoFrame \notin [kind : {"81", "83", "87"}, ask : 1 .. MaxAsk, form : Forms]
  /\ Forms \subseteq {"plain", "moved", "unsound"}
  /\ MaxAsk \in Nat /\ MaxFault \in Nat

VARIABLES asked,       (* what the web clients sent: who and what          *)
          web_udp_ip,  (* the client answers go to; NoClient: not valid    *)
          web_waiting_combo, all_check, factory,
          toAnt, fromAnt,    (* datagrams under way                        *)
          answers,     (* what was sent to the web: to whom, which frames  *)
          faults,
          heard,       (* history: frames received since everything was    *)
                       (* last asked for                                   *)
          hurt         (* history: since then, a datagram was lost or an   *)
                       (* question was answered in a moved form            *)

vars == <<asked, web_udp_ip, web_waiting_combo, all_check, factory, toAnt,
          fromAnt, answers, faults, heard, hurt>>

combo   == <<web_waiting_combo, all_check, factory>>
history == <<heard, hurt>>

Frame(kinds) == [kind : kinds, ask : 1 .. MaxAsk, form : Forms]

Init == /\ asked = << >> /\ web_udp_ip = NoClient
        /\ web_waiting_combo = FALSE /\ all_check = NoFrame /\ factory = NoFrame
        /\ toAnt = {} /\ fromAnt = {} /\ answers = << >> /\ faults = 0
        /\ heard = {} /\ hurt = FALSE

-----------------------------------------------------------------------------
(* ant_link_mgr_handle_web_udp_connection, whatever the message.           *)
FromWeb(c, what) ==
  /\ Len(asked) < MaxAsk
  /\ asked' = Append(asked, [by |-> c, what |-> what])
  /\ web_udp_ip' = c

Ask(kinds) == {[kind |-> k, ask |-> Len(asked) + 1] : k \in kinds}

(* 09 00 00.  Mutant: what an earlier request collected stays.             *)
WebAllKeeping(c) ==
  /\ FromWeb(c, "all")
  /\ web_waiting_combo' = TRUE
  /\ toAnt' = toAnt \cup Ask({"82", "86"})
  /\ heard' = {} /\ hurt' = FALSE
  /\ UNCHANGED <<all_check, factory, fromAnt, answers, faults>>

WebAll(c) ==
  /\ FromWeb(c, "all")
  /\ web_waiting_combo' = TRUE
  /\ all_check' = NoFrame /\ factory' = NoFrame
  /\ toAnt' = toAnt \cup Ask({"82", "86"})
  /\ heard' = {} /\ hurt' = FALSE
  /\ UNCHANGED <<fromAnt, answers, faults>>

(* A command that sets a parameter.                                        *)
WebSet(c) ==
  /\ FromWeb(c, "set")
  /\ toAnt' = toAnt \cup Ask({"80"})
  /\ UNCHANGED <<combo, fromAnt, answers, faults, history>>

(* A message that is too short, has another head or is not understood.     *)
WebOther(c) ==
  /\ FromWeb(c, "other")
  /\ UNCHANGED <<combo, toAnt, fromAnt, answers, faults, history>>

(* ant_ctrl_try_send_combo_to_web, with the two frames as they are now.    *)
Complete(a, f) == a # NoFrame /\ f # NoFrame

Answer(frames) == answers' = Append(answers, [to |-> web_udp_ip, frames |-> frames])

(* Mutant: the gateway goes on waiting.                                    *)
TrySendForEver(a, f) ==
  IF Complete(a, f)
  THEN /\ Answer({a, f})
       /\ all_check' = NoFrame /\ factory' = NoFrame
       /\ UNCHANGED web_waiting_combo
  ELSE /\ all_check' = a /\ factory' = f
       /\ UNCHANGED <<answers, web_waiting_combo>>

TrySend(a, f) ==
  IF Complete(a, f)
  THEN /\ Answer({a, f})
       /\ all_check' = NoFrame /\ factory' = NoFrame
       /\ web_waiting_combo' = FALSE
  ELSE /\ all_check' = a /\ factory' = f
       /\ UNCHANGED <<answers, web_waiting_combo>>

(* ant_ctrl_parse_udp_ant_resp_msg: a frame is kept for the web before its *)
(* checksum is looked at; of the rest of the function only the answer to   *)
(* 81H touches what is modelled.  Mutant: the first frame to come is not   *)
(* kept.                                                                   *)
CollectSecond(g) ==
  IF web_waiting_combo /\ g.form # "moved" /\ g.kind \in {"83", "87"}
  THEN IF g.kind = "83" THEN TrySend(g, factory)
                        ELSE IF all_check = NoFrame THEN UNCHANGED <<combo, answers>>
                                                    ELSE TrySend(all_check, g)
  ELSE /\ UNCHANGED combo
       /\ IF g.kind = "81" /\ g.form # "unsound" THEN Answer({g}) ELSE UNCHANGED answers

Collect(g) ==
  IF web_waiting_combo /\ g.form # "moved" /\ g.kind \in {"83", "87"}
  THEN IF g.kind = "83" THEN TrySend(g, factory) ELSE TrySend(all_check, g)
  ELSE /\ UNCHANGED combo
       /\ IF g.kind = "81" /\ g.form # "unsound" /\ web_udp_ip # NoClient
          THEN Answer({g}) ELSE UNCHANGED answers

(* The datagram is taken from the network, or a copy of it is.             *)
Taken(net, d) == \/ net' = net \ {d} /\ UNCHANGED faults
                 \/ faults < MaxFault /\ faults' = faults + 1 /\ UNCHANGED net

AntMsg(g) ==
  /\ Taken(fromAnt, g)
  /\ Collect(g)
  /\ heard' = heard \cup {g}
  /\ UNCHANGED <<asked, web_udp_ip, toAnt, hurt>>

(* The antenna answers a frame: 80H with 81H, 82H with 83H, 86H with 87H.  *)
Reply == [k \in {"80", "82", "86"} |->
            CASE k = "80" -> "81" [] k = "82" -> "83" [] k = "86" -> "87"]

AntAnswers(q) ==
  /\ Taken(toAnt, q)
  /\ \E form \in Forms :
       /\ fromAnt' = fromAnt \cup
            {[kind |-> Reply[q.kind], ask |-> q.ask, form |-> form]}
       /\ hurt' = (hurt \/ (form = "moved" /\ q.kind # "80"))
  /\ UNCHANGED <<asked, web_udp_ip, combo, answers, heard>>

(* A datagram is lost, or the gateway finds no buffer to send it.          *)
Lose ==
  /\ faults < MaxFault /\ faults' = faults + 1 /\ hurt' = TRUE
  /\ \/ \E q \in toAnt : toAnt' = toAnt \ {q} /\ UNCHANGED fromAnt
     \/ \E g \in fromAnt : fromAnt' = fromAnt \ {g} /\ UNCHANGED toAnt
  /\ UNCHANGED <<asked, web_udp_ip, combo, answers, heard>>

Next == \/ \E c \in Client : WebAll(c) \/ WebSet(c) \/ WebOther(c)
        \/ \E g \in fromAnt : AntMsg(g)
        \/ \E q \in toAnt : AntAnswers(q)
        \/ Lose

Spec == Init /\ [][Next]_vars

(* The antenna answers, and what is under way and not lost arrives.        *)
Datagram == [kind : {"80", "82", "86"}, ask : 1 .. MaxAsk]

FairSpec ==
  /\ Spec
  /\ \A q \in Datagram : WF_vars(q \in toAnt /\ AntAnswers(q) /\ toAnt' # toAnt)
  /\ \A g \in Frame({"81", "83", "87"}) :
       WF_vars(g \in fromAnt /\ AntMsg(g) /\ fromAnt' # fromAnt)

-----------------------------------------------------------------------------
(* Types.  Each buffer holds a frame of its own kind, and never both do:   *)
(* a pair is sent as soon as it is one.                                    *)
TypeOK ==
  /\ asked \in Seq([by : Client, what : {"all", "set", "other"}])
  /\ web_udp_ip \in Client \cup {NoClient}
  /\ web_waiting_combo \in BOOLEAN
  /\ all_check \in Frame({"83"}) \cup {NoFrame}
  /\ factory \in Frame({"87"}) \cup {NoFrame}
  /\ ~Complete(all_check, factory)
  /\ toAnt \subseteq Datagram /\ fromAnt \subseteq Frame({"81", "83", "87"})
  /\ \A n \in DOMAIN answers : answers[n].to \in Client
  /\ faults \in 0 .. MaxFault /\ hurt \in BOOLEAN

IsCombo(a) == Cardinality(a.frames) = 2
Count(s, P(_)) == Cardinality({n \in DOMAIN s : P(s[n])})

(* No frame that came before everything was last asked for gets into the   *)
(* message that answers it, and the message has one frame of each kind     *)
(* (the reset of the two lengths, ant_ctrl.c:894-895).                     *)
ComboIsRecent ==
  [][\A n \in DOMAIN answers' \ DOMAIN answers :
       IsCombo(answers'[n]) =>
         /\ answers'[n].frames \subseteq heard'
         /\ {g.kind : g \in answers'[n].frames} = {"83", "87"}]_vars

(* The web gets no more such messages than it asked for, however many      *)
(* answers are doubled or come late (ant_ctrl.c:371).                      *)
NoUnaskedCombo ==
  TypeOK /\ Count(answers, IsCombo) <= Count(asked, LAMBDA a : a.what = "all")

(* Asking again heals: a request none of whose datagrams, nor any under    *)
(* way at the time, is lost stops the waiting, whatever was lost before it *)
(* and in whichever order the two answers come (ant_ctrl.c:889-899).  What *)
(* is lost is never asked for a second time by the gateway itself, nor is  *)
(* a frame whose length byte needed an escape: its command byte is then    *)
(* not where ant_ctrl.c:379 and :385 look for it.                          *)
AskingHeals == (web_waiting_combo /\ ~hurt) ~> (~web_waiting_combo \/ hurt)
==============================================================================

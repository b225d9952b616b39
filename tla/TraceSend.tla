----------------------------- MODULE TraceSend -----------------------------
(***************************************************************************)
(* TracesPage, a single trace: the path built in the form, the request     *)
(* that sends it, the echoes pushed while it travels, the silence timer,   *)
(* and the timeline of hops drawn from them.                               *)
(***************************************************************************)
EXTENDS Integers, Sequences, FiniteSets

CONSTANTS MaxHops,    \* bound: hops chosen in the form
          MaxTraces,  \* bound: traces sent
          MaxFaults   \* bound: requests that fail, echoes not heard

VARIABLES
  ui,    \* hops and mirror (the form); tag, live, result (a trace and the hops heard), error, timer
  net,   \* asked (paths posted), answers (tags on their way back), echoes (pushed, in order)
  srv,   \* per trace sent, its length and how far it has come
  past   \* faults, and whether a trace was sent while another's answer was awaited

vars == <<ui, net, srv, past>>

Mirrored(n, back) == IF back /\ n > 1 THEN 2 * n - 1 ELSE n
Planned == Mirrored(ui.hops, ui.mirror)
Longest == Mirrored(MaxHops, TRUE)
NoResult == [tag |-> 0, hops |-> 0]
Echo == [tag : 1..MaxTraces, hops : 0..Longest, total : 0..Longest]

TypeOK ==
  /\ ui.hops \in 0..MaxHops /\ ui.tag \in 0..MaxTraces /\ ui.live \in 0..Longest
  /\ {ui.mirror, ui.error, ui.timer, past.twice} \subseteq BOOLEAN
  /\ ui.result \in [tag : 0..MaxTraces, hops : 0..Longest]
  /\ net.asked \in Seq(0..Longest) /\ net.answers \subseteq 1..MaxTraces /\ net.echoes \in Seq(Echo)
  /\ srv \in Seq([length : 0..Longest, at : 0..Longest]) /\ Len(srv) + Len(net.asked) <= MaxTraces
  /\ past.faults \in 0..MaxFaults

Init ==
  /\ ui = [hops |-> 0, mirror |-> FALSE, tag |-> 0, live |-> 0, result |-> NoResult, error |-> FALSE,
           timer |-> FALSE]
  /\ net = [asked |-> <<>>, answers |-> {}, echoes |-> <<>>]
  /\ srv = <<>> /\ past = [faults |-> 0, twice |-> FALSE]
Fault == past.faults < MaxFaults
Spent == [past EXCEPT !.faults = @ + 1]
-----------------------------------------------------------------------------
BuildPath ==
  /\ \/ \E n \in 0..MaxHops : ui' = [ui EXCEPT !.hops = n]
     \/ ui' = [ui EXCEPT !.mirror = ~@]
  /\ UNCHANGED <<net, srv, past>>

\* sendTrace: what the last one left is cleared before the request.
IsWaiting == ui.tag # 0
SendTrace ==
  /\ ~IsWaiting /\ Len(srv) + Len(net.asked) < MaxTraces
  /\ ui' = [ui EXCEPT !.result = NoResult, !.error = FALSE, !.live = 0]
  /\ net' = [net EXCEPT !.asked = Append(@, Planned)]
  /\ past' = [past EXCEPT !.twice = @ \/ net.asked # <<>> \/ net.answers # {}] /\ srv' = srv

\* The daemon sends the trace and answers with its tag, or refuses.
Serve ==
  /\ net.asked # <<>> /\ ui' = ui
  /\ \/ /\ srv' = Append(srv, [length |-> Head(net.asked), at |-> 0]) /\ past' = past
        /\ net' = [net EXCEPT !.asked = Tail(@), !.answers = @ \cup {Len(srv) + 1}]
     \/ Fault /\ net' = [net EXCEPT !.asked = Tail(@)] /\ past' = Spent /\ srv' = srv
ArmTimeout(u) == [u EXCEPT !.timer = TRUE]
AnswerLands ==
  /\ \E t \in net.answers : ui' = ArmTimeout([ui EXCEPT !.tag = t]) /\ net' = [net EXCEPT !.answers = @ \ {t}]
  /\ UNCHANGED <<srv, past>>

\* A node on the path relays; the daemon may hear it, and pushes what it heard.
Travel(t) ==
  /\ srv[t].at < srv[t].length /\ srv' = [srv EXCEPT ![t].at = @ + 1] /\ ui' = ui
  /\ \/ /\ net' = [net EXCEPT !.echoes = Append(@, [tag |-> t, hops |-> srv[t].at + 1, total |-> srv[t].length])]
        /\ past' = past
     \/ Fault /\ past' = Spent /\ net' = net

\* onWsMessage: only the trace that is waited for; the whole path ends the wait, a part renews it.
Expected(e) == IF e.total > 0 THEN e.total ELSE Planned
IsFinal(e) == Expected(e) > 0 /\ e.hops >= Expected(e)
Longer(k, n) == IF n > k THEN n ELSE k
Heard(u, e) ==
  IF u.tag = 0 \/ e.tag # u.tag THEN u
  ELSE IF IsFinal(e) THEN [u EXCEPT !.result = [tag |-> e.tag, hops |-> e.hops], !.live = e.hops, !.tag = 0,
                                    !.error = FALSE, !.timer = FALSE]
  ELSE ArmTimeout([u EXCEPT !.live = Longer(@, e.hops)])
EchoLands ==
  /\ net.echoes # <<>> /\ ui' = Heard(ui, Head(net.echoes)) /\ net' = [net EXCEPT !.echoes = Tail(@)]
  /\ UNCHANGED <<srv, past>>

TimedOut(u) == [u EXCEPT !.tag = 0, !.error = TRUE, !.timer = FALSE]
Timeout == ui.timer /\ ui' = TimedOut(ui) /\ UNCHANGED <<net, srv, past>>

\* TraceTimeline: one step per hop of the path in flight, or of the result.
Answered(u) == u.result # NoResult
Step(u, i) ==
  IF i <= (IF Answered(u) THEN u.result.hops ELSE u.live) THEN "done"
  ELSE IF u.tag # 0 /\ i = u.live + 1 THEN "active" ELSE "pending"
Drawn(u) == IF Answered(u) THEN srv[u.result.tag].length ELSE Planned
Title(u) == IF u.tag # 0 THEN "waiting" ELSE IF Answered(u) THEN "completed" ELSE IF u.error THEN "no response" ELSE "idle"

Next ==
  \/ BuildPath \/ SendTrace \/ Serve \/ AnswerLands \/ EchoLands \/ Timeout
  \/ \E t \in DOMAIN srv : Travel(t)
Spec == Init /\ [][Next]_vars
-----------------------------------------------------------------------------
\* A page that waits has its silence timer running, and the timer runs only then: no wait is for ever,
\* and no timer of an earlier trace ends a later one.
WaitsEnd == ui.timer <=> ui.tag # 0

\* Sent one at a time, the hops drawn were heard of the trace that is waited for, and a result is a whole
\* path, of the last trace sent.
OwnEchoes ==
  ~past.twice =>
    /\ ui.tag # 0 => ui.live <= srv[ui.tag].at /\ ui.result = NoResult /\ ~ui.error
    /\ Answered(ui) => ui.result.tag = Len(srv) /\ ui.result.hops = srv[ui.result.tag].length
    /\ Title(ui) = "completed" => \A i \in 1..Drawn(ui) : Step(ui, i) = "done"
=============================================================================

---------------------------- MODULE SignalTests ----------------------------
(***************************************************************************)
(* TracesPage, signal tests: a test runs in the daemon, which pushes each  *)
(* run and the end; the page follows one, which it started itself or found *)
(* running in the list of the selected companion.                          *)
(***************************************************************************)
EXTENDS Integers, Sequences, FiniteSets

CONSTANTS Companions,
          MaxTests, MaxRuns,  \* bounds: tests started, runs of one
          MaxSwitches,        \* bound: companions selected
          MaxFaults           \* bound: requests that fail, pushes that are lost

VARIABLES
  ui,    \* companion, active (a test followed), runs, running, starting
  net,   \* list (the read of the list that counts), of (its companion), found, starts (a test asked for), gets (reads of one test), pushes (in order)
  srv,   \* per test: of, runs, running, and stored: what the database holds of the two
  past   \* switches, faults; crossed, strayed: a push and a read of the same test, or a switch and a read, crossed;
         \* missed: tests a push of which was lost since they were last read

vars == <<ui, net, srv, past>>

None == "none"
Tests == 1..MaxTests
Row == [runs : 0..MaxRuns, running : BOOLEAN]
Get == [test : Tests, why : {"found", "started"}, row : Row, served : BOOLEAN]

TypeOK ==
  /\ ui.companion \in Companions /\ ui.active \in 0..MaxTests
  /\ ui.runs \in 0..2 * MaxRuns /\ {ui.running, ui.starting, past.crossed, past.strayed} \subseteq BOOLEAN
  /\ net.list \in {None, "asked", "served"} /\ net.of \in Companions /\ net.found \subseteq Tests
  /\ net.starts \in Companions \cup {None} /\ net.gets \subseteq Get
  /\ \A i \in DOMAIN net.pushes : net.pushes[i] \in [test : Tests, what : {"run", "status"}]
  /\ \A t \in DOMAIN srv : /\ srv[t].of \in Companions /\ srv[t].stop \in BOOLEAN
                           /\ srv[t].row \in Row /\ srv[t].stored \in Row
  /\ past.switches \in 0..MaxSwitches /\ past.faults \in 0..MaxFaults /\ past.missed \subseteq Tests

Init ==
  /\ \E c \in Companions :
       /\ ui = [companion |-> c, active |-> 0, runs |-> 0, running |-> FALSE, starting |-> FALSE]
       /\ net = [list |-> "asked", of |-> c, found |-> {}, starts |-> None, gets |-> {}, pushes |-> <<>>]
  /\ srv = <<>> /\ past = [switches |-> 0, faults |-> 0, crossed |-> FALSE, strayed |-> FALSE, missed |-> {}]
Fault == past.faults < MaxFaults
Spent == [past EXCEPT !.faults = @ + 1]
-----------------------------------------------------------------------------
\* useApiList: the latest read of the list is the one that counts.
Reload(n, c) == [n EXCEPT !.list = "asked", !.of = c, !.found = {}]
ListServed ==
  /\ net.list = "asked" /\ UNCHANGED <<ui, srv, past>>
  /\ net' = [net EXCEPT !.list = "served",
                        !.found = {t \in DOMAIN srv : srv[t].of = net.of /\ srv[t].stored.running}]
\* A list that lands: a running test in it is followed, unless one is already.
ReadTest(n, t, why) ==
  [n EXCEPT !.gets = @ \cup {[test |-> t, why |-> why, row |-> [runs |-> 0, running |-> FALSE], served |-> FALSE]}]
ListLands ==
  /\ net.list = "served" /\ srv' = srv
  /\ LET over == [net EXCEPT !.list = None, !.found = {}] IN
     \/ /\ ui' = ui /\ past' = past
        /\ IF ui.active # 0 \/ net.found = {} THEN net' = over
           ELSE \E t \in net.found : net' = ReadTest(over, t, "found")
     \/ Fault /\ net' = over /\ ui' = ui /\ past' = Spent

\* The effect of another companion: nothing is followed, and its list is read.
SwitchCompanion(c) ==
  /\ c # ui.companion /\ past.switches < MaxSwitches
  /\ ui' = [ui EXCEPT !.companion = c, !.active = 0, !.runs = 0, !.running = FALSE]
  /\ net' = Reload(net, c) /\ srv' = srv
  /\ past' = [past EXCEPT !.switches = @ + 1, !.strayed = @ \/ net.gets # {} \/ net.starts # None]

\* A read of the test was served, and will land after this.
Overtakes(t) == \E g \in net.gets : g.test = t /\ g.served
Pushed(t) == {i \in DOMAIN net.pushes : net.pushes[i].test = t}
GetServed(g) ==
  /\ ~g.served
  /\ net' = [net EXCEPT !.gets = (@ \ {g}) \cup {[g EXCEPT !.served = TRUE, !.row = srv[g.test].stored]}]
  /\ past' = [past EXCEPT !.crossed = @ \/ Pushed(g.test) # {} \/ srv[g.test].stored # srv[g.test].row]
  /\ UNCHANGED <<ui, srv>>
Followed(u, g) == [u EXCEPT !.active = g.test, !.runs = g.row.runs, !.running = g.row.running]
\* The list read again after a start is that of the companion it was started with.
GetLands(g) ==
  /\ g.served /\ srv' = srv
  /\ LET over == [net EXCEPT !.gets = @ \ {g}]
         done(u) == IF g.why = "started" THEN [u EXCEPT !.starting = FALSE] ELSE u IN
     \/ /\ ui' = done(Followed(ui, g)) /\ past' = [past EXCEPT !.missed = @ \ {g.test}]
        /\ net' = IF g.why = "started" THEN Reload(over, srv[g.test].of) ELSE over
     \/ Fault /\ ui' = done(ui) /\ net' = over /\ past' = Spent

\* startTest, of the companion selected; one test runs at a time in the daemon.
CanStart == ~ui.starting /\ ~(ui.active # 0 /\ ui.running)
StartTest ==
  /\ CanStart /\ Len(srv) < MaxTests
  /\ ui' = [ui EXCEPT !.starting = TRUE] /\ net' = [net EXCEPT !.starts = ui.companion] /\ UNCHANGED <<srv, past>>
Live == {t \in DOMAIN srv : srv[t].row.running}
StartServed ==
  /\ net.starts # None
  /\ LET over == [net EXCEPT !.starts = None]
         begun == [runs |-> 0, running |-> TRUE] IN
     \/ /\ Live = {} /\ srv' = Append(srv, [of |-> net.starts, row |-> begun, stored |-> begun, stop |-> FALSE])
        /\ net' = ReadTest(over, Len(srv) + 1, "started") /\ ui' = ui /\ past' = past
     \/ /\ Live # {} \/ Fault
        /\ ui' = [ui EXCEPT !.starting = FALSE] /\ net' = over /\ srv' = srv
        /\ past' = IF Live # {} THEN past ELSE Spent
CancelActiveTest ==
  /\ ui.active # 0 /\ ui.running /\ srv[ui.active].row.running
  /\ srv' = [srv EXCEPT ![ui.active].stop = TRUE] /\ UNCHANGED <<ui, net, past>>

\* The daemon: a run, the end, each pushed at once and stored a little later.  A push is lost to a socket that is not
\* open or a full buffer, and this page reads nothing again when its socket is back.
Push(t, what) ==
  \/ net' = [net EXCEPT !.pushes = Append(@, [test |-> t, what |-> what])] /\ past' = past
  \/ Fault /\ net' = net /\ past' = [Spent EXCEPT !.missed = @ \cup {t}, !.crossed = @ \/ Overtakes(t)]
Run(t) ==
  /\ srv[t].row.running /\ srv[t].row.runs < MaxRuns
  /\ srv' = [srv EXCEPT ![t].row.runs = @ + 1] /\ Push(t, "run") /\ ui' = ui
Finish(t) ==
  /\ srv[t].row.running /\ (srv[t].stop \/ srv[t].row.runs = MaxRuns)
  /\ srv' = [srv EXCEPT ![t].row.running = FALSE] /\ Push(t, "status") /\ ui' = ui
Store(t) == srv[t].stored # srv[t].row /\ srv' = [srv EXCEPT ![t].stored = srv[t].row] /\ UNCHANGED <<ui, net, past>>

\* onWsMessage: a push of another test than the one followed is let go.
WsMessage ==
  /\ net.pushes # <<>> /\ srv' = srv
  /\ LET p == Head(net.pushes)
         rest == [net EXCEPT !.pushes = Tail(@)] IN
     /\ past' = [past EXCEPT !.crossed = @ \/ Overtakes(p.test)]
     /\ IF p.test # ui.active THEN ui' = ui /\ net' = rest
        ELSE IF p.what = "run" THEN ui' = [ui EXCEPT !.runs = @ + 1] /\ net' = rest
        ELSE ui' = [ui EXCEPT !.running = FALSE] /\ net' = Reload(rest, ui.companion)

Next ==
  \/ ListServed \/ ListLands \/ StartTest \/ StartServed \/ CancelActiveTest \/ WsMessage
  \/ \E c \in Companions : SwitchCompanion(c)
  \/ \E g \in net.gets : GetServed(g) \/ GetLands(g)
  \/ \E t \in DOMAIN srv : Run(t) \/ Finish(t) \/ Store(t)
Spec == Init /\ [][Next]_vars
-----------------------------------------------------------------------------
\* With no push on its way the test followed has the runs it really made, each once, and is shown running
\* only while it runs, unless a push and a read of it crossed, or one of its pushes was lost, which only another
\* read of the test makes up for.
FollowsTest ==
  ui.active # 0 /\ Pushed(ui.active) = {} /\ ~past.crossed /\ ui.active \notin past.missed =>
    ui.runs = srv[ui.active].row.runs /\ ui.running = srv[ui.active].row.running

\* The test followed belongs to the companion selected, unless the selection changed under a read.
OwnTest == ui.active # 0 /\ ~past.strayed => srv[ui.active].of = ui.companion
=============================================================================

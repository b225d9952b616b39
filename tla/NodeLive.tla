------------------------------ MODULE NodeLive ------------------------------
(***************************************************************************)
(* RepeaterNodePage while the repeater runs: its status, neighbours and    *)
(* access list are read together every few seconds, neighbours are pushed  *)
(* besides, clients are granted and revoked from the list shown, and the   *)
(* repeater is told to advertise, to look for neighbours and to start its  *)
(* counters again.                                                         *)
(***************************************************************************)
EXTENDS Integers, Sequences, FiniteSets

CONSTANTS Neighbors, Clients,
          MaxPolls,    \* bound: refreshes under way at once
          MaxChanges,  \* bound: starts and stops, grants and revocations made here or over the air, commands
          MaxFaults    \* bound: requests that fail

VARIABLES
  ui,    \* running (the configuration as last read), stats (some are shown), neighbors, acl, refreshing; tab, busy (the
         \* client an operation is shown for); doing (the command shown as under way), cooling (no discovery yet)
  net,   \* rep (the read of the configuration), polls (refreshes), ops (grants and revocations), pushes, commands,
         \* soon (the refresh that follows an advert is due)
  srv,   \* running, neighbors, acl
  past   \* changes, faults, and whether a refresh landed after the repeater was seen stopped

vars == <<ui, net, srv, past>>

None == "none"
Reads == {"stats", "neighbors", "acl"}
Free == [asked |-> FALSE, got |-> {}, stats |-> FALSE, neighbors |-> {}, acl |-> {}]
Poll == [asked : BOOLEAN, got : SUBSET Reads, stats : BOOLEAN, neighbors : SUBSET Neighbors, acl : SUBSET Clients]
Op == [client : Clients, grant : BOOLEAN, mine : BOOLEAN]
Tabs == {"access", "clearing", "other"}   \* clearing: the status tab asks whether it is to clear
Commands == {"advert", "discover", "clear"}

TypeOK ==
  /\ ui.neighbors \subseteq Neighbors /\ ui.acl \subseteq Clients /\ ui.busy \in Clients \cup {None}
  /\ {ui.running, ui.stats, ui.refreshing, ui.cooling, net.soon, srv.running, past.late} \subseteq BOOLEAN
  /\ ui.tab \in Tabs /\ ui.doing \in {None, "advert", "discover"} /\ net.commands \subseteq Commands
  /\ net.rep \in {None, "asked", "running", "stopped"} /\ net.polls \in [1..MaxPolls -> Poll]
  /\ net.ops \subseteq Op /\ net.pushes \in Seq(Neighbors)
  /\ srv.neighbors \subseteq Neighbors /\ srv.acl \subseteq Clients
  /\ past.changes \in 0..MaxChanges /\ past.faults \in 0..MaxFaults

Init ==
  /\ ui = [running |-> FALSE, stats |-> FALSE, neighbors |-> {}, acl |-> {}, refreshing |-> FALSE, tab |-> "other", busy |-> None,
           doing |-> None, cooling |-> FALSE]
  /\ net = [rep |-> "asked", polls |-> [i \in 1..MaxPolls |-> Free], ops |-> {}, pushes |-> <<>>, commands |-> {}, soon |-> FALSE]
  /\ srv = [running |-> TRUE, neighbors |-> {}, acl |-> {}]
  /\ past = [changes |-> 0, faults |-> 0, late |-> FALSE]
Fault == past.faults < MaxFaults
Spent == [past EXCEPT !.faults = @ + 1]
Change == past.changes < MaxChanges
Changed == [past EXCEPT !.changes = @ + 1]
-----------------------------------------------------------------------------
\* refreshLive, from the timer or a button: three reads, awaited together; the page says that it refreshes until
\* any refresh lands.
Idle(n) == {i \in 1..MaxPolls : ~n.polls[i].asked}
RefreshLive(n) ==
  IF Idle(n) = {} THEN n ELSE [n EXCEPT !.polls[CHOOSE i \in Idle(n) : TRUE] = [Free EXCEPT !.asked = TRUE]]
Refresh(u, n) == ui' = [u EXCEPT !.refreshing = TRUE] /\ net' = RefreshLive(n)
\* The bug of a poll that stops once something is shown.
TickWhileEmpty ==
  /\ ui.running /\ ui.neighbors = {} /\ ui.acl = {} /\ Idle(net) # {} /\ Refresh(ui, net) /\ UNCHANGED <<srv, past>>
Tick == ui.running /\ Idle(net) # {} /\ Refresh(ui, net) /\ UNCHANGED <<srv, past>>
\* A read of a repeater that does not run, or that fails, counts as empty.
Held == [stats |-> TRUE, neighbors |-> srv.neighbors, acl |-> srv.acl]
Serve(i, part) ==
  /\ net.polls[i].asked /\ part \notin net.polls[i].got /\ UNCHANGED <<ui, srv>>
  /\ \/ /\ past' = past
        /\ net' = [net EXCEPT !.polls[i].got = @ \cup {part}, !.polls[i][part] = IF srv.running THEN Held[part] ELSE Free[part]]
     \/ Fault /\ net' = [net EXCEPT !.polls[i].got = @ \cup {part}] /\ past' = Spent
RefreshLands(i) ==
  /\ net.polls[i].got = Reads /\ net' = [net EXCEPT !.polls[i] = Free] /\ srv' = srv
  /\ ui' = [ui EXCEPT !.stats = net.polls[i].stats, !.neighbors = net.polls[i].neighbors, !.acl = net.polls[i].acl,
                      !.refreshing = FALSE]
  /\ past' = [past EXCEPT !.late = @ \/ ~ui.running]

\* The configuration is read on arrival and after a save; the polling follows what it says.
Reload == net.rep = None /\ net' = [net EXCEPT !.rep = "asked"] /\ UNCHANGED <<ui, srv, past>>
RepServed ==
  /\ net.rep = "asked" /\ net' = [net EXCEPT !.rep = IF srv.running THEN "running" ELSE "stopped"]
  /\ UNCHANGED <<ui, srv, past>>
RepLands ==
  /\ net.rep \in {"running", "stopped"} /\ UNCHANGED <<srv, past>>
  /\ LET over == [net EXCEPT !.rep = None] IN
     \/ /\ net.rep = "running"
        /\ IF ui.running THEN ui' = ui /\ net' = over ELSE Refresh([ui EXCEPT !.running = TRUE], over)
     \/ net.rep = "stopped" /\ net' = over /\ ui' = [ui EXCEPT !.running = FALSE, !.stats = FALSE, !.neighbors = {}, !.acl = {}]

OnWsNeighbor ==
  /\ net.pushes # <<>> /\ ui' = [ui EXCEPT !.neighbors = @ \cup {Head(net.pushes)}]
  /\ net' = [net EXCEPT !.pushes = Tail(@)] /\ UNCHANGED <<srv, past>>

\* Another tab, or no to the question: what a tab that is left held of its own is gone, and the operations it began
\* end unseen.
SwitchTab(tab) ==
  /\ tab # ui.tab /\ tab # "clearing" /\ ui' = [ui EXCEPT !.tab = tab, !.busy = None]
  /\ net' = [net EXCEPT !.ops = {[op EXCEPT !.mine = FALSE] : op \in @}] /\ UNCHANGED <<srv, past>>

\* aclOp, from the row of a client or from the dialog that adds one.
AclOp(c, grant) ==
  /\ ui.tab = "access" /\ Change /\ \/ ~grant /\ c \in ui.acl /\ ui.busy = None
                                    \/ grant /\ c \notin ui.acl /\ ui.running
  /\ ~\E op \in net.ops : op.client = c /\ op.grant = grant
  /\ ui' = [ui EXCEPT !.busy = c] /\ net' = [net EXCEPT !.ops = @ \cup {[client |-> c, grant |-> grant, mine |-> TRUE]}]
  /\ past' = Changed /\ srv' = srv
Succeeds == srv.running /\ past' = past
Fails == (~srv.running /\ past' = past) \/ (Fault /\ past' = Spent)
\* A change of access that fails is not followed by a refresh, also when only its reply was lost.
AclLands(op) ==
  LET u == IF op.mine THEN [ui EXCEPT !.busy = None] ELSE ui
      over == [net EXCEPT !.ops = @ \ {op}]
      done == [srv EXCEPT !.acl = IF op.grant THEN @ \cup {op.client} ELSE @ \ {op.client}] IN
  \/ Succeeds /\ Refresh(u, over) /\ srv' = done
  \/ Fails /\ ui' = u /\ net' = over /\ srv' = srv
  \/ srv.running /\ Fails /\ ui' = u /\ net' = over /\ srv' = done

\* The header's menu, the neighbours' button, and the status tab's, which asks once more.
Tell(command) ==
  /\ Change /\ command \notin net.commands /\ net' = [net EXCEPT !.commands = @ \cup {command}]
  /\ past' = Changed /\ srv' = srv
Advert == ui.running /\ ui.doing = None /\ Tell("advert") /\ ui' = [ui EXCEPT !.doing = "advert"]
\* An advert shown as under way does not hold a discovery back: whichever ends first says that none is.
Discover ==
  /\ ui.tab = "other" /\ ui.running /\ ui.doing # "discover" /\ ~ui.refreshing /\ ~ui.cooling
  /\ Tell("discover") /\ ui' = [ui EXCEPT !.doing = "discover"]
AskClear == ui.tab = "other" /\ ui.running /\ ui.stats /\ ui' = [ui EXCEPT !.tab = "clearing"] /\ UNCHANGED <<net, srv, past>>
ClearStats == ui.tab = "clearing" /\ Tell("clear") /\ ui' = [ui EXCEPT !.tab = "other"]
CommandLands(command) ==
  LET u == IF command = "clear" THEN ui ELSE [ui EXCEPT !.doing = None]
      over == [net EXCEPT !.commands = @ \ {command}] IN
  /\ command \in net.commands /\ srv' = srv
  /\ \/ Fails /\ ui' = u /\ net' = over
     \/ Succeeds /\ CASE command = "advert" -> ui' = u /\ net' = [over EXCEPT !.soon = TRUE]
                      [] command = "discover" -> ui' = [u EXCEPT !.cooling = TRUE] /\ net' = over
                      [] command = "clear" -> Refresh(u, over)
SoonFires == net.soon /\ Refresh(ui, [net EXCEPT !.soon = FALSE]) /\ UNCHANGED <<srv, past>>
\* DISCOVER_COOLDOWN_SECS have passed.
CooledDown == ui.cooling /\ ui' = [ui EXCEPT !.cooling = FALSE] /\ UNCHANGED <<net, srv, past>>

\* The repeater: it stops and starts, hears neighbours, admits clients over the air.
StartOrStop ==
  /\ Change /\ srv' = [srv EXCEPT !.running = ~@, !.neighbors = {}] /\ past' = Changed /\ UNCHANGED <<ui, net>>
HearNeighbor(n) ==
  /\ srv.running /\ n \notin srv.neighbors /\ Change
  /\ srv' = [srv EXCEPT !.neighbors = @ \cup {n}] /\ net' = [net EXCEPT !.pushes = Append(@, n)]
  /\ past' = Changed /\ ui' = ui
Admit(c) ==
  /\ srv.running /\ c \notin srv.acl /\ Change
  /\ srv' = [srv EXCEPT !.acl = @ \cup {c}] /\ past' = Changed /\ UNCHANGED <<ui, net>>

Next ==
  \/ Tick \/ Reload \/ RepServed \/ RepLands \/ OnWsNeighbor \/ StartOrStop
  \/ Advert \/ Discover \/ AskClear \/ ClearStats \/ SoonFires \/ CooledDown
  \/ \E tab \in Tabs : SwitchTab(tab)
  \/ \E command \in Commands : CommandLands(command)
  \/ \E i \in 1..MaxPolls : RefreshLands(i) \/ \E part \in Reads : Serve(i, part)
  \/ \E c \in Clients : Admit(c) \/ \E grant \in BOOLEAN : AclOp(c, grant)
  \/ \E op \in net.ops : AclLands(op)
  \/ \E n \in Neighbors : HearNeighbor(n)
\* The timer of the page, answers and pushes arrive; nothing else has to happen.
Arrives ==
  \/ OnWsNeighbor \/ RepServed \/ RepLands \/ SoonFires
  \/ (\E op \in net.ops : AclLands(op)) \/ \E command \in Commands : CommandLands(command)
Fairness ==
  /\ WF_vars(Tick) /\ WF_vars(Arrives)
  /\ \A i \in 1..MaxPolls : WF_vars(RefreshLands(i)) /\ \A part \in Reads : WF_vars(Serve(i, part))
Spec == Init /\ [][Next]_vars /\ Fairness
-----------------------------------------------------------------------------
\* A repeater seen stopped shows no clients to revoke and no counters to clear, but for a refresh it left under way.
StoppedShowsNothing == ~ui.running /\ ~past.late => ui.acl = {} /\ ~ui.stats

\* The page says that it refreshes, sends a command or changes a client's access only while it waits for an answer.
BusyMeansUnderWay ==
  /\ ui.refreshing => \E i \in 1..MaxPolls : net.polls[i].asked
  /\ ui.doing # None => ui.doing \in net.commands
  /\ ui.busy # None => \E op \in net.ops : op.client = ui.busy /\ op.mine

\* Refreshes, pushes and operations overtake one another, but what a running repeater holds is in the end
\* what the page shows.
Heals == <>[](ui.running /\ srv.running => ui.acl = srv.acl /\ ui.neighbors = srv.neighbors /\ ui.stats)
=============================================================================

----------------------------- MODULE AppAccess -----------------------------
(***************************************************************************)
(* CompanionAppPage: the port a companion opens to the official app.  The  *)
(* page reads the stored companions, never guards those reads against each *)
(* other, writes all of the setting at once and so reads it again before   *)
(* it writes, and watches what the running port does.                      *)
(***************************************************************************)
EXTENDS Integers, Sequences

CONSTANTS Ports, Sizes,  \* numbers: ports that may be opened, sizes of the queue held for the app
          MaxSaves,      \* bound: settings saved from the page
          MaxElse,       \* bound: changes made elsewhere
          MaxPolls,      \* bound: ticks of the interval that reads the port
          MaxFaults      \* bound: requests that fail

VARIABLES
  ui,    \* list (the companions read, or NotRead), failed; AppAccess: port, queue (0: untouched), confirming, busy,
         \* mount (its instance); Connection: status, seen (staleSeen)
  net,   \* loads (reads of the list, and the save that waits for each), poll (the read of the port that counts), jobs (saves)
  srv,   \* the companion as stored with the port another has open (0: none), and whether the running one is on
  past   \* saves, elsewhere, polls, faults; over (reads of the list overlapped), behind (changed elsewhere since read)

vars == <<ui, net, srv, past>>

\* s without its element at i.
Without(s, i) == SubSeq(s, 1, i - 1) \o SubSeq(s, i + 1, Len(s))
Least(S) == CHOOSE x \in S : \A y \in S : x <= y

None == "none"
NotRead == [on |-> FALSE, port |-> 0, queue |-> 0, here |-> FALSE, other |-> 0]
Stored == [on : BOOLEAN, port : Ports \cup {0}, queue : Sizes, here : BOOLEAN, other : Ports \cup {0}]
Jobs == 1..MaxSaves
Free == [step |-> None]
Steps == {"reading", "read", "unread", "writing", "written", "refused", "reporting", "stored", "failing"}

\* External, the validation of a configuration: a port opened is a port, and no two companions open the same.
Valid(c) == c.on => c.port # 0 /\ c.port # c.other

TypeOK ==
  /\ ui.list \in Stored \cup {NotRead} /\ {ui.failed, ui.confirming, ui.seen} \subseteq BOOLEAN
  /\ ui.port \in Ports \cup {0} /\ ui.queue \in Sizes \cup {0} /\ ui.busy \in {None, "on", "move", "off", "queue"}
  /\ ui.status \in {None, "on", "off"} /\ ui.mount \in 0..MaxFaults
  /\ \A l \in {net.loads[i] : i \in DOMAIN net.loads} : l.for \in Jobs \cup {0} /\ l.step \in {"asked", "served", "failed"} /\ l.got \in Stored \cup {NotRead}
  /\ net.poll \in {None, "asked", "on", "off"}
  /\ \A j \in Jobs : net.jobs[j] = Free \/ net.jobs[j].step \in Steps
  /\ srv.now \in Stored /\ Valid(srv.now) /\ srv.running \in BOOLEAN
  /\ past.saves \in 0..MaxSaves /\ past.elsewhere \in 0..MaxElse /\ past.polls \in 0..MaxPolls
  /\ past.faults \in 0..MaxFaults /\ {past.over, past.behind} \subseteq BOOLEAN

Asked(for) == [for |-> for, step |-> "asked", got |-> NotRead]
Init ==
  /\ ui = [list |-> NotRead, failed |-> FALSE, port |-> 0, queue |-> 0, confirming |-> FALSE, busy |-> None, mount |-> 0,
           status |-> None, seen |-> FALSE]
  /\ net = [loads |-> <<Asked(0)>>, poll |-> None, jobs |-> [j \in Jobs |-> Free]]
  /\ \E c \in Stored :
       /\ c.here /\ c.queue = Least(Sizes) /\ Valid(c)
       /\ srv = [now |-> c, running |-> c.on]
  /\ past = [saves |-> 0, elsewhere |-> 0, polls |-> 0, faults |-> 0, over |-> FALSE, behind |-> FALSE]
Fault == past.faults < MaxFaults
Spent == [past EXCEPT !.faults = @ + 1]
-----------------------------------------------------------------------------
\* AppAccess: the ports of others are taken, one kept while access is off is not; the port offered.
Taken(c) == {c.other} \ {0}
FirstFree(c) == LET free == Ports \ Taken(c) IN IF free = {} THEN 0 ELSE Least(free)
KeptPortTaken(c) == ~c.on /\ c.port # 0 /\ c.port \in Taken(c)
SavedPort(c) == IF c.port # 0 /\ ~KeptPortTaken(c) THEN c.port ELSE FirstFree(c)
Chosen(u) == IF u.port # 0 THEN u.port ELSE SavedPort(u.list)

\* What the page shows: AppAccess is mounted with a list and no error, and in it, with access on, Connection.
Mounted(u) == ~u.failed /\ u.list # NotRead
Usable(u) == Mounted(u) /\ u.list.here
Watching(u) == Usable(u) /\ u.list.on
Unmounted(u) == [u EXCEPT !.port = 0, !.queue = 0, !.confirming = FALSE, !.busy = None, !.mount = @ + 1]

\* A render: Connection reads the port as it mounts and as its port changes; what it was told goes with it.
Rendered(u, n) ==
  /\ ui' = IF Watching(u) THEN u ELSE [u EXCEPT !.status = None, !.seen = FALSE]
  /\ net' = [n EXCEPT !.poll = IF ~Watching(u) THEN None
                               ELSE IF ~Watching(ui) \/ u.list.port # ui.list.port THEN "asked" ELSE @]

\* load: an error shown is cleared as it starts.
Load(u, n, for) == Rendered([u EXCEPT !.failed = FALSE], [n EXCEPT !.loads = Append(@, Asked(for))])
Loading(p) == [p EXCEPT !.over = net.loads # <<>>]
LoadServed(i) ==
  /\ net.loads[i].step = "asked"
  /\ \/ /\ net' = [net EXCEPT !.loads[i].step = "served", !.loads[i].got = srv.now]
        /\ past' = [past EXCEPT !.behind = @ /\ Len(net.loads) > 1]
     \/ Fault /\ net' = [net EXCEPT !.loads[i].step = "failed"] /\ past' = Spent
  /\ UNCHANGED <<ui, srv>>
\* The save of a queue size that waits for this load ends with it, and lets go of its field if it was stored.
Ended(u, j) ==
  IF j = 0 \/ net.jobs[j].mount # u.mount THEN u
  ELSE [u EXCEPT !.busy = None, !.queue = IF net.jobs[j].step = "stored" THEN 0 ELSE @]
LoadLands(i) ==
  /\ net.loads[i].step # "asked"
  /\ LET l == net.loads[i]
         over == [net EXCEPT !.loads = Without(@, i)]
         n == IF l.for = 0 THEN over ELSE [over EXCEPT !.jobs[l.for] = Free]
     IN IF l.step = "failed"
          THEN Rendered(IF Mounted(ui) THEN Unmounted([ui EXCEPT !.failed = TRUE]) ELSE [ui EXCEPT !.failed = TRUE], n)
          ELSE Rendered(Ended([ui EXCEPT !.list = l.got], l.for), n)
  /\ UNCHANGED <<srv, past>>
Retry ==
  /\ ui.failed \/ (Mounted(ui) /\ ~ui.list.here /\ net.loads = <<>>)
  /\ Load(ui, net, 0) /\ past' = Loading(past) /\ srv' = srv
-----------------------------------------------------------------------------
\* The reader: a port or a size picked, the warning opened and closed.
PickPort == \E p \in Ports \ Taken(ui.list) : ui' = [ui EXCEPT !.port = p]
TypeSize == \E q \in Sizes : ui' = [ui EXCEPT !.queue = q]
Ask == ~ui.list.on /\ Chosen(ui) # 0 /\ ui' = [ui EXCEPT !.confirming = TRUE]
Cancel == ui.confirming /\ ui' = [ui EXCEPT !.confirming = FALSE]
Reader ==
  /\ Usable(ui) /\ ui.busy = None /\ past.saves < MaxSaves
  /\ PickPort \/ TypeSize \/ Ask \/ Cancel
  /\ UNCHANGED <<net, srv, past>>

\* save and saveQueue: what is stored is read first, for what the save is to leave alone.
Click(act, p, q) ==
  /\ Usable(ui) /\ ui.busy = None /\ past.saves < MaxSaves
  /\ ui' = [ui EXCEPT !.busy = act]
  /\ net' = [net EXCEPT !.jobs[past.saves + 1] =
               [act |-> act, port |-> p, size |-> q, step |-> "reading", fresh |-> NotRead, mount |-> ui.mount]]
  /\ past' = [past EXCEPT !.saves = @ + 1] /\ srv' = srv
TurnOn == ui.confirming /\ Chosen(ui) # 0 /\ Click("on", Chosen(ui), 0)
Move == ui.list.on /\ Chosen(ui) \notin {0, ui.list.port} /\ Click("move", Chosen(ui), 0)
TurnOff == ui.list.on /\ Click("off", ui.list.port, 0)
SaveQueue == ui.queue \notin {0, ui.list.queue} /\ Click("queue", 0, ui.queue)

Step(j) == net.jobs[j].step
At(j, step) == [net EXCEPT !.jobs[j].step = step]
ReadServed(j) ==
  /\ Step(j) = "reading"
  /\ \/ net' = [At(j, "read") EXCEPT !.jobs[j].fresh = srv.now] /\ past' = past
     \/ Fault /\ net' = At(j, "unread") /\ past' = Spent
  /\ UNCHANGED <<ui, srv>>
\* A move only keeps a port open: it does not turn access on again that went off elsewhere.
MayWrite(k) == k.step = "read" /\ k.fresh.here /\ (k.act = "move" => k.fresh.on)
\* The end of a save: what it was asked with is let go if it went well, and the list is read again either way.
EndSave(j, ok) ==
  LET u == IF net.jobs[j].mount # ui.mount THEN ui
           ELSE [ui EXCEPT !.busy = None, !.confirming = @ /\ ~ok, !.port = IF ok THEN 0 ELSE @]
  IN Load(u, [net EXCEPT !.jobs[j] = Free], 0) /\ past' = Loading(past)
\* The end of a save of a queue size: the list is read again before it lets go.
EndQueue(j, step) == Load(ui, At(j, step), j) /\ past' = Loading(past)
ReadLands(j) ==
  /\ Step(j) \in {"read", "unread"} /\ srv' = srv
  /\ \/ MayWrite(net.jobs[j]) /\ net' = At(j, "writing") /\ UNCHANGED <<ui, past>>
     \/ ~MayWrite(net.jobs[j]) /\ IF net.jobs[j].act = "queue" THEN EndQueue(j, "failing") ELSE EndSave(j, FALSE)
\* What is written is all of the setting: the part asked for, and the rest as it was read.
Written(k) ==
  IF k.act = "queue" THEN [srv.now EXCEPT !.on = k.fresh.on, !.port = k.fresh.port, !.queue = k.size]
  ELSE [srv.now EXCEPT !.on = k.act # "off", !.port = k.port, !.queue = k.fresh.queue]
WriteServed(j) ==
  /\ Step(j) = "writing" /\ ui' = ui
  /\ LET c == Written(net.jobs[j]) IN
     \/ c.here /\ Valid(c) /\ net' = At(j, "written") /\ srv' = [srv EXCEPT !.now = c] /\ past' = past
     \/ ~(c.here /\ Valid(c)) /\ net' = At(j, "refused") /\ UNCHANGED <<srv, past>>
     \/ /\ Fault /\ net' = At(j, "refused") /\ past' = Spent
        /\ srv' \in {srv} \cup {[srv EXCEPT !.now = x] : x \in {y \in {c} : c.here /\ Valid(c)}}
WriteLands(j) ==
  /\ Step(j) \in {"written", "refused"} /\ srv' = srv
  /\ LET act == net.jobs[j].act
         ok == Step(j) = "written"
     IN \/ act = "queue" /\ EndQueue(j, IF ok THEN "stored" ELSE "failing")
        \/ act # "queue" /\ (act = "off" \/ ~ok) /\ EndSave(j, ok)
        \/ act \in {"on", "move"} /\ ok /\ net' = At(j, "reporting") /\ UNCHANGED <<ui, past>>
\* reportPort: ten reads of the running port at most, and what they say is told.
ReportEnds(j) == Step(j) = "reporting" /\ EndSave(j, TRUE) /\ srv' = srv
-----------------------------------------------------------------------------
\* Connection.read: only the latest counts; one that fails changes nothing that was known.
Tick ==
  /\ Watching(ui) /\ past.polls < MaxPolls
  /\ net' = [net EXCEPT !.poll = "asked"] /\ past' = [past EXCEPT !.polls = @ + 1] /\ UNCHANGED <<ui, srv>>
PollServed ==
  /\ net.poll = "asked"
  /\ \/ srv.now.here /\ net' = [net EXCEPT !.poll = IF srv.running THEN "on" ELSE "off"]
     \/ net' = [net EXCEPT !.poll = None]
  /\ UNCHANGED <<ui, srv, past>>
\* A port that is off under a page that says on: the list is read again, once.
PollLands ==
  /\ net.poll \in {"on", "off"} /\ srv' = srv
  /\ LET u == [ui EXCEPT !.status = net.poll, !.seen = net.poll = "off"]
         n == [net EXCEPT !.poll = None]
     IN \/ net.poll = "off" /\ ~ui.seen /\ Load(u, n, 0) /\ past' = Loading(past)
        \/ (net.poll = "on" \/ ui.seen) /\ Rendered(u, n) /\ past' = past

\* External: the running companion is replaced after a write; another page or tab changes any of it.
Restart == srv.running # srv.now.on /\ srv' = [srv EXCEPT !.running = srv.now.on] /\ UNCHANGED <<ui, net, past>>
Elsewhere ==
  /\ srv.now.here /\ past.elsewhere < MaxElse
  /\ \E o \in BOOLEAN, p \in Ports, q \in Sizes :
       \E c \in {[srv.now EXCEPT !.on = o, !.port = p], [srv.now EXCEPT !.other = p], [srv.now EXCEPT !.queue = q],
                 [srv.now EXCEPT !.here = FALSE]} : c # srv.now /\ Valid(c) /\ srv' = [srv EXCEPT !.now = c]
  /\ past' = [past EXCEPT !.elsewhere = @ + 1, !.behind = TRUE] /\ UNCHANGED <<ui, net>>

Next ==
  \/ \E i \in DOMAIN net.loads : LoadServed(i) \/ LoadLands(i)
  \/ Retry \/ Reader \/ TurnOn \/ Move \/ TurnOff \/ SaveQueue
  \/ \E j \in Jobs : ReadServed(j) \/ ReadLands(j) \/ WriteServed(j) \/ WriteLands(j) \/ ReportEnds(j)
  \/ Tick \/ PollServed \/ PollLands \/ Restart \/ Elsewhere
Spec == Init /\ [][Next]_vars
-----------------------------------------------------------------------------
\* The port offered is not one another companion has open, unless the reader's own pick was overtaken.
OffersFree == Usable(ui) /\ ui.port = 0 => Chosen(ui) \notin Taken(ui.list)

\* With nothing under way the page shows the setting as it is stored, whatever became of the save before: two
\* reads of the list that overlapped may have landed the wrong way round, and a change made elsewhere is not told.
PageAgrees ==
  /\ net.loads = <<>> /\ \A j \in Jobs : net.jobs[j] = Free
  /\ ~ui.failed /\ ~past.over /\ ~past.behind
  => ui.list = srv.now

\* Buttons that are held back wait for a save that is under way, and one made on this page holds them back.
BusyMeansUnderWay ==
  LET under == {j \in Jobs : net.jobs[j] # Free /\ net.jobs[j].mount = ui.mount}
  IN {net.jobs[j].act : j \in under} = {ui.busy} \ {None} /\ \A j, k \in under : j = k

\* A save changes what it was asked to: a move or a size never lets the app in, a size leaves the port alone and
\* the rest leave the size alone, unless the setting was changed between the save's own read and its write.
ChangesOnlyAsked ==
  LET now == srv.now
      then == srv'.now
  IN past'.elsewhere = past.elsewhere =>
       /\ ~now.on /\ then.on => \E j \in Jobs : Step(j) = "writing" /\ (net.jobs[j].act = "on" \/ net.jobs[j].fresh.on)
       /\ now.queue # then.queue =>
            \E j \in Jobs : Step(j) = "writing" /\ (net.jobs[j].act = "queue" \/ net.jobs[j].fresh.queue # now.queue)
       /\ <<now.on, now.port>> # <<then.on, then.port>> =>
            \E j \in Jobs : Step(j) = "writing" /\ (net.jobs[j].act # "queue" \/ net.jobs[j].fresh # now)
=============================================================================

--------------------------- MODULE RemoteRegions ---------------------------
(***************************************************************************)
(* The regions tab of a remote node: each change goes out at once, as one  *)
(* or two commands of its console, the list shown is changed when they are *)
(* answered, and Save writes the node's memory to its flash.  A marker in  *)
(* the browser's session storage says that there are unsaved changes, and  *)
(* outlives the tab.                                                       *)
(***************************************************************************)
EXTENDS Integers, FiniteSets

CONSTANTS Regions,    \* the regions beside "*", which is neither added, moved nor removed
          MaxFaults,  \* bound: commands and loads that fail
          MaxLeaves   \* bound: times the page is left

VARIABLES
  ui,    \* map: the regions listed, home and default, or not read yet; loading, fetched, busy, unsaved
  net,   \* the load and the acts under way; mine tells those of the tab on screen
  srv,   \* the node's memory, and whether its flash differs; cut: its console leaves Hidden out of the list; allows: its
         \* firmware allows flood on a put; and the browser's marker
  past   \* faults, leaves; whether the list may be wrong; whether an act outlived its tab

vars == <<ui, net, srv, past>>

Absent == "absent"
Star == "*"
None == "none"
Lists == [Regions -> {Absent, "flood", "deny"}]
Maps == [list : Lists, home : Regions \cup {Star}, default : Regions \cup {None}]
NotRead == [list |-> [r \in Regions |-> Absent], home |-> None, default |-> None]
Hidden == CHOOSE r \in Regions : TRUE
Verbs == {"add", "move", "denyf", "allowf", "remove", "home", "default", "save"}
Act == [verb : Verbs, name : Regions \cup {Star, None}, step : {"get", "main", "again"}, was : {Absent, "flood", "deny"},
        mine : BOOLEAN]

TypeOK ==
  /\ ui.map \in Maps \cup {NotRead} /\ {ui.loading, ui.fetched, ui.busy, ui.unsaved, net.load} \subseteq BOOLEAN
  /\ net.acts \subseteq Act
  /\ srv.mem \in Maps /\ {srv.dirty, srv.cut, srv.allows, srv.marker, past.doubt, past.outlived} \subseteq BOOLEAN
  /\ past.faults \in 0..MaxFaults /\ past.leaves \in 0..MaxLeaves

Fresh(marker) == [map |-> NotRead, loading |-> FALSE, fetched |-> FALSE, busy |-> FALSE, unsaved |-> marker]
Init ==
  /\ ui = Fresh(FALSE) /\ net = [load |-> FALSE, acts |-> {}]
  /\ \E r \in {"flood", "deny"}, c \in BOOLEAN, w \in BOOLEAN :
       LET m == [list |-> [x \in Regions |-> IF x = Hidden THEN r ELSE Absent], home |-> Star, default |-> None] IN
       srv = [mem |-> m, dirty |-> FALSE, cut |-> c, allows |-> w, marker |-> FALSE]
  /\ past = [faults |-> 0, leaves |-> 0, doubt |-> FALSE, outlived |-> FALSE]

Spend(doubt) == past.faults < MaxFaults /\ past' = [past EXCEPT !.faults = @ + 1, !.doubt = @ \/ doubt]
-----------------------------------------------------------------------------
\* The list is read when the tab is first shown, and by Refresh while nothing is under way.
Load ==
  /\ ~ui.loading /\ ~ui.busy
  /\ ui' = [ui EXCEPT !.loading = TRUE, !.fetched = TRUE] /\ net' = [net EXCEPT !.load = TRUE]
  /\ UNCHANGED <<srv, past>>
Listed == IF srv.cut THEN [srv.mem EXCEPT !.list[Hidden] = Absent] ELSE srv.mem
LoadLands ==
  /\ net.load /\ net' = [net EXCEPT !.load = FALSE] /\ srv' = srv
  /\ \/ ui' = [ui EXCEPT !.loading = FALSE, !.map = Listed] /\ past' = [past EXCEPT !.doubt = FALSE]
     \/ ui' = [ui EXCEPT !.loading = FALSE] /\ Spend(FALSE)
\* The page is left: a new tab starts from the marker.
Leave ==
  /\ past.leaves < MaxLeaves /\ ui' = Fresh(srv.marker) /\ srv' = srv
  /\ net' = [load |-> FALSE, acts |-> {[x EXCEPT !.mine = FALSE] : x \in net.acts}]
  /\ past' = [past EXCEPT !.leaves = @ + 1, !.doubt = FALSE, !.outlived = @ \/ net.acts # {}]

\* act: one action at a time in a tab.  An add first asks for the name when the list may be cut.
Begin(verb, name) ==
  /\ ui.map # NotRead /\ ~ui.busy /\ ~ui.loading
  /\ ui' = [ui EXCEPT !.busy = TRUE]
  /\ net' = [net EXCEPT !.acts = @ \cup {[verb |-> verb, name |-> name, mine |-> TRUE,
                step |-> IF verb = "add" /\ srv.cut THEN "get" ELSE "main",
                was |-> IF name \in Regions THEN ui.map.list[name] ELSE Absent]}]
  /\ UNCHANGED <<srv, past>>
Shown(r) == ui.map # NotRead /\ ui.map.list[r] # Absent
Add(r) == ui.map # NotRead /\ ~Shown(r) /\ Begin("add", r)
Move(r) == Shown(r) /\ Begin("move", r)
Deny(r) == Shown(r) /\ Begin(IF ui.map.list[r] = "deny" THEN "allowf" ELSE "denyf", r)
RemoveRegion(r) == Shown(r) /\ Begin("remove", r)
Home(r) == (r \in Regions => Shown(r)) /\ Begin("home", r)
Default(r) == (r \in Regions => Shown(r)) /\ Begin("default", r)
Save == Begin("save", None)

\* What the node's console does with the command an act is at, and what the tab makes of the answer.
Put(m, r) == [m EXCEPT !.list[r] = IF srv.allows THEN "flood" ELSE IF @ = Absent THEN "deny" ELSE @]
Removed(m, r) ==
  [m EXCEPT !.list[r] = Absent, !.home = IF @ = r THEN Star ELSE @, !.default = IF @ = r THEN None ELSE @]
Denied(m, r, how) == [m EXCEPT !.list[r] = how]
Defaulted(m, r) == [m EXCEPT !.default = r, !.list = IF r = None THEN @ ELSE [@ EXCEPT ![r] = "flood"]]
Changed(m, x) ==
  CASE x.verb = "save" -> m
    [] x.verb = "denyf" -> Denied(m, x.name, "deny")
    [] x.verb = "allowf" -> Denied(m, x.name, "flood")
    [] x.verb \in {"add", "move"} -> Put(m, x.name)
    [] x.verb = "remove" -> Removed(m, x.name)
    [] x.verb = "home" -> [m EXCEPT !.home = x.name]
    [] x.verb = "default" -> Defaulted(m, x.name)
Made(m, x) ==
  CASE x.step = "get" -> m
    [] x.step = "main" -> Changed(m, x)
    [] x.step = "again" -> Denied(m, x.name, "deny")
\* The console finds the region of the command, or refuses.
Finds(x) == x.verb \notin {"add", "save"} /\ x.name \in Regions => srv.mem.list[x.name] # Absent
Carried(x) ==
  [srv EXCEPT !.mem = Made(@, x), !.dirty = x.verb \notin {"save", "default"} /\ (@ \/ Made(srv.mem, x) # srv.mem)]
Marked(s, on) == [s EXCEPT !.marker = on]

\* A tab left behind can still set the marker, but not what is on screen.
Over(x) == net' = [net EXCEPT !.acts = @ \ {x}]
Unbusy(x) == IF x.mine THEN [ui EXCEPT !.busy = FALSE] ELSE ui
On(x, step) == net' = [net EXCEPT !.acts = (@ \ {x}) \cup {[x EXCEPT !.step = step]}]
Got(x) ==
  /\ x.step = "get" /\ UNCHANGED <<srv, past>>
  /\ \/ srv.mem.list[x.name] = Absent /\ On(x, "main") /\ ui' = ui
     \/ srv.mem.list[x.name] # Absent /\ Over(x) /\ ui' = Unbusy(x)
\* A move whose put allowed flood again on a denied region denies it again.
DeniesAgain(x) == x.verb = "move" /\ x.step = "main" /\ x.was = "deny" /\ srv.allows
Answered(x) ==
  LET kept == x.verb \in {"save", "default"}
      u == IF x.mine THEN [ui EXCEPT !.map = Made(@, x), !.unsaved = ~kept] ELSE ui IN
  /\ x.step # "get" /\ Finds(x)
  /\ srv' = Marked(Carried(x), ~kept) /\ past' = past
  /\ \/ DeniesAgain(x) /\ On(x, "again") /\ ui' = u
     \/ ~DeniesAgain(x) /\ Over(x) /\ ui' = IF x.mine THEN [u EXCEPT !.busy = FALSE] ELSE u
\* Refused, the node is as it was.  Without a reply it may not be, which marks a change unsaved.
Refused(x) ==
  /\ Over(x) /\ ui' = Unbusy(x) /\ srv' = srv
  /\ (Finds(x) /\ Spend(FALSE)) \/ (~Finds(x) /\ past' = past)
NoReply(x) ==
  /\ Over(x) /\ Spend(x.step # "get")
  /\ \/ x.step = "get" /\ ui' = Unbusy(x) /\ srv' = srv
     \/ /\ x.step # "get" /\ ui' = IF x.mine THEN [ui EXCEPT !.busy = FALSE, !.unsaved = TRUE] ELSE ui
        /\ \/ srv' = Marked(srv, TRUE)
           \/ Finds(x) /\ srv' = Marked(Carried(x), TRUE)

Next ==
  \/ Load \/ LoadLands \/ Leave \/ Save
  \/ \E r \in Regions : Add(r) \/ Move(r) \/ Deny(r) \/ RemoveRegion(r)
  \/ \E r \in Regions \cup {Star} : Home(r)
  \/ \E r \in Regions \cup {None} : Default(r)
  \/ \E x \in net.acts : Got(x) \/ Answered(x) \/ Refused(x) \/ NoReply(x)
Spec == Init /\ [][Next]_vars
-----------------------------------------------------------------------------
\* Changes that a reboot would undo are marked as unsaved, in every tab and over a reload of the
\* list, unless an act outlived its tab.
UnsavedSeen == srv.dirty /\ ~past.outlived => srv.marker /\ ui.unsaved

\* The list is the node's, but for what its console cuts and changes that got no reply.
MapAgrees ==
  ui.map # NotRead /\ net.acts = {} /\ ~past.doubt /\ ~past.outlived =>
    /\ ui.map.home = srv.mem.home /\ ui.map.default = srv.mem.default
    /\ \A r \in Regions : ui.map.list[r] = srv.mem.list[r] \/ (srv.cut /\ r = Hidden /\ ~Shown(r))

\* An add never touches a region that the node already has, even one left out of the list.
AddsOnlyNew ==
  \A x \in net.acts : x.verb = "add" /\ x \notin net'.acts /\ srv'.mem # srv.mem /\ ~past.doubt /\ ~past'.outlived
    => srv.mem.list[x.name] = Absent
=============================================================================

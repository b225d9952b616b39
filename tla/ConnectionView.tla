-------------------------- MODULE ConnectionView --------------------------
(***************************************************************************)
(* The map's Connections mode: the routes of a window of the packet log,   *)
(* folded into links, the filter "routes from" one node, the sheet of a    *)
(* node or a link, and the choice of the repeater that owns an ambiguous   *)
(* hash.  Routes are sequences of hops that end at Self and may come by a  *)
(* node again; the hop Hop is named by whichever repeater its hash is      *)
(* matched to.                                                             *)
(***************************************************************************)
EXTENDS Integers, Sequences, FiniteSets, FiniteSetsExt

CONSTANTS Candidates,     \* the repeaters that Hop could be
          NoNode,
          MaxPackets,     \* bound: packets logged
          MaxChanges,     \* bound: windows and matches changed
          MaxFaults       \* bound: requests that fail

VARIABLES
  ui,    \* active, hours, via, selection (a node), web (the answer held), framed (the via the map was fitted for)
  net,   \* read (the last asked for, tagged with its window), timer (a refetch is due), pins (choices sent)
  srv,   \* per window, the packets of each route; the match of Hop
  past   \* changes, faults, lost (a read failed), stale (a read of an old window asked after it was left),
         \* touched (a node opened from routes that are not the last)

vars == <<ui, net, srv, past>>
Self == "self"
Hop == "hop"
Near == "near"
Routes == {<<Hop, Self>>, <<Near, Self>>, <<Near, Hop, Self>>, <<Near, Hop, Near, Hop, Self>>}
Started == {<<Near, Hop, Self>>}  \* adverts, which name who sent them
Windows == {"hour", "day"}
Unmatched == "hash"
Picked == CHOOSE c \in Candidates : TRUE
Matches == Candidates \cup {"auto", Unmatched}
Ids == Candidates \cup {Unmatched, Near, Self}
Counts == [Routes -> 0..MaxPackets]
None == [r \in Routes |-> 0]
Web == [hours : Windows \cup {"none"}, id : Candidates \cup {Unmatched}, counts : Counts]
NoWeb == [hours |-> "none", id |-> Unmatched, counts |-> None]
NoRead == [at |-> "none", hours |-> "hour", web |-> NoWeb]

TypeOK ==
  /\ ui.active \in BOOLEAN /\ ui.hours \in Windows /\ ui.web \in Web
  /\ {ui.via, ui.selection, ui.framed} \subseteq Ids \cup {NoNode}
  /\ net.read \in [at : {"none", "asked", "served"}, hours : Windows, web : Web] /\ net.timer \in BOOLEAN
  /\ net.pins \subseteq [old : Ids, match : Matches, hours : Windows, at : {"asked", "served", "failed"}]
  /\ srv.log \in [Windows -> Counts] /\ srv.match \in Matches
  /\ past.changes \in 0..MaxChanges /\ past.faults \in 0..MaxFaults
  /\ {past.lost, past.stale, past.touched} \subseteq BOOLEAN

Init ==
  /\ ui = [active |-> FALSE, hours |-> "day", via |-> NoNode, selection |-> NoNode, web |-> NoWeb, framed |-> Self]
  /\ net = [read |-> NoRead, timer |-> FALSE, pins |-> {}]
  /\ srv = [log |-> [w \in Windows |-> None], match |-> "auto"]
  /\ past = [changes |-> 0, faults |-> 0, lost |-> FALSE, stale |-> FALSE, touched |-> FALSE]
Fault == past.faults < MaxFaults
Spent == [past EXCEPT !.faults = @ + 1]
Change == past.changes < MaxChanges /\ past' = [past EXCEPT !.changes = @ + 1]
-----------------------------------------------------------------------------
\* foldLinks: the packets of every link of the routes through one node, or of all; a route that takes a link again
\* counts again.
Named(r, id) == [i \in DOMAIN r |-> IF r[i] = Hop THEN id ELSE r[i]]
Hops(r) == {<<r[i], r[i + 1]>> : i \in 1..(Len(r) - 1)}
Through(r, id) == \E i \in DOMAIN r : r[i] = id
Total(f, S) == MapThenSumSet(LAMBDA x : f[x], S)
Chains(web, via) == {r \in Routes : web.counts[r] > 0 /\ (via # NoNode => Through(Named(r, web.id), via))}
Times(r, from, to) == Cardinality({i \in 1..(Len(r) - 1) : r[i] = from /\ r[i + 1] = to})
Link(web, via, from, to) == MapThenSumSet(LAMBDA r : web.counts[r] * Times(Named(r, web.id), from, to), Chains(web, via))
Links(web, via) == UNION {Hops(Named(r, web.id)) : r \in Chains(web, via)}
\* nodeNeighbours: the packets that a node passed to each next hop, and those it was fed by each, where a route
\* first comes by it; NoNode feeds what was heard straight from a sender nobody named.
First(r, id) == Min({i \in DOMAIN r : r[i] = id})
Next1(r, id) == r[First(r, id) + 1]
Before(r, id) == IF First(r, id) = 1 THEN NoNode ELSE r[First(r, id) - 1]
Reaching(web, id, to) == Total(web.counts, {r \in Chains(web, id) : id # Self /\ Next1(Named(r, web.id), id) = to})
Began(r, id) == r \in Started /\ r[1] = id
Feeding(web, id, from) ==
  Total(web.counts, {r \in Chains(web, id) : Before(Named(r, web.id), id) = from /\ ~Began(r, id)})
Shown == UNION {{l[1], l[2]} : l \in Links(ui.web, ui.via)} \ {Self}

\* The effect that draws: picking or clearing "routes from" frames what is shown, once it is there.
Framed(u, reading) ==
  LET shown == UNION {{l[1], l[2]} : l \in Links(u.web, u.via)} \ {Self}
  IN IF u.active /\ ~reading /\ shown # {} /\ u.framed # u.via THEN [u EXCEPT !.framed = u.via] ELSE u
Render(u, n) == ui' = Framed(u, n.read.at # "none") /\ net' = n

\* useApiObject's reload, for a window; it replaces the one in flight.
Asked(n, hours) == [n EXCEPT !.read = [at |-> "asked", hours |-> hours, web |-> NoWeb]]
Quiet(n) == [n EXCEPT !.timer = FALSE]
SetActive(on) ==
  /\ on # ui.active /\ Change /\ srv' = srv
  /\ IF on THEN Render([ui EXCEPT !.active = TRUE], Asked(Quiet(net), ui.hours))
     ELSE Render([ui EXCEPT !.active = FALSE, !.selection = NoNode, !.framed = Self], [Quiet(net) EXCEPT !.read = NoRead])
SetHours(h) ==
  /\ ui.active /\ h # ui.hours /\ Change /\ Render([ui EXCEPT !.hours = h], Asked(Quiet(net), h)) /\ srv' = srv
ServeRead ==
  /\ net.read.at = "asked" /\ UNCHANGED <<ui, srv>>
  /\ \/ /\ net' = [net EXCEPT !.read.at = "served", !.read.web =
                     [hours |-> net.read.hours, counts |-> srv.log[net.read.hours],
                      id |-> IF srv.match = "auto" THEN Picked ELSE srv.match]]
        /\ past' = past
     \/ Fault /\ past' = [Spent EXCEPT !.lost = TRUE] /\ net' = [net EXCEPT !.read = NoRead]
ReadLands ==
  /\ net.read.at = "served" /\ Render([ui EXCEPT !.web = net.read.web], [net EXCEPT !.read = NoRead])
  /\ past' = [past EXCEPT !.lost = FALSE] /\ srv' = srv

\* A packet is logged, and the page is told of it: one refetch a minute at most.
PacketLogged(r) ==
  /\ Total(srv.log["day"], Routes) < MaxPackets
  /\ \E hour \in BOOLEAN : srv' = [srv EXCEPT !.log["day"][r] = @ + 1, !.log["hour"][r] = @ + (IF hour THEN 1 ELSE 0)]
  /\ net' = [net EXCEPT !.timer = @ \/ ui.active] /\ UNCHANGED <<ui, past>>
TimerFires == net.timer /\ Render(ui, Asked(Quiet(net), ui.hours)) /\ UNCHANGED <<srv, past>>

ClearVia == ui.active /\ ui.via # NoNode /\ Render([ui EXCEPT !.via = NoNode], net) /\ UNCHANGED <<srv, past>>
OpenNode(id) ==
  /\ ui.active /\ id \in Shown \cup {Self}
  /\ Render([ui EXCEPT !.via = IF id = Self THEN NoNode ELSE id, !.selection = id], net)
  /\ past' = [past EXCEPT !.touched = @ \/ net.pins # {} \/ net.read.at # "none" \/ past.lost] /\ srv' = srv
CloseSheet == ui.selection # NoNode /\ Render([ui EXCEPT !.selection = NoNode], net) /\ UNCHANGED <<srv, past>>

\* repin: the sheet and the filter follow the new id, and the window shown when it was asked is read again.
Repin(match) ==
  /\ ui.active /\ ui.selection = ui.web.id /\ ui.selection \in Shown /\ net.pins = {} /\ Change
  /\ net' = [net EXCEPT !.pins = {[old |-> ui.selection, match |-> match, hours |-> ui.hours, at |-> "asked"]}]
  /\ UNCHANGED <<ui, srv>>
ServePin(p) ==
  /\ p.at = "asked" /\ ui' = ui
  /\ \/ srv' = [srv EXCEPT !.match = p.match] /\ net' = [net EXCEPT !.pins = {[p EXCEPT !.at = "served"]}] /\ past' = past
     \/ Fault /\ past' = Spent /\ srv' = srv /\ net' = [net EXCEPT !.pins = {[p EXCEPT !.at = "failed"]}]
NewId(p) == IF p.match = "auto" THEN NoNode ELSE p.match
Followed(u, p) == [u EXCEPT !.via = IF @ = p.old THEN NewId(p) ELSE @, !.selection = NewId(p)]
PinLands(p) ==
  LET n == [net EXCEPT !.pins = {}]
  IN /\ p.at # "asked" /\ srv' = srv
     /\ IF p.at = "failed" THEN ui' = ui /\ net' = n /\ past' = past
        ELSE Render(Followed(ui, p), Asked(n, p.hours)) /\ past' = [past EXCEPT !.stale = @ \/ p.hours # ui.hours \/ ~ui.active]

Next ==
  \/ \E on \in BOOLEAN : SetActive(on)
  \/ \E h \in Windows : SetHours(h)
  \/ \E r \in Routes : PacketLogged(r)
  \/ \E id \in Ids : OpenNode(id)
  \/ \E m \in Matches : Repin(m)
  \/ \E p \in net.pins : ServePin(p) \/ PinLands(p)
  \/ ServeRead \/ ReadLands \/ TimerFires \/ ClearVia \/ CloseSheet
Spec == Init /\ [][Next]_vars
-----------------------------------------------------------------------------
\* At rest the routes drawn are of the window chosen, unless a match changed while the window did; and the
\* view was framed for the routes now shown.
WindowAgrees ==
  ui.active /\ net.read.at = "none" /\ ~past.lost /\ ~past.stale =>
    /\ ui.web.hours = ui.hours
    /\ Shown # {} => ui.framed = ui.via

\* At rest neither the sheet nor the filter names the repeater that a hash was matched to before.
FollowsMatch ==
  ui.active /\ net.read.at = "none" /\ net.pins = {} /\ ~past.lost /\ ~past.touched =>
    ({ui.via, ui.selection} \cap (Candidates \cup {Unmatched})) \subseteq {ui.web.id}

\* The breakdown on a node's sheet shares out every packet that came by the node once, to one next hop and from
\* one feeder, or none where the node sent it itself; a link of the map carries at least what the sheet says, and no
\* more unless a route takes it again; and every packet of the routes shown comes into Self once.
FoldConserves ==
  /\ \A id \in Shown :
       LET all == Total(ui.web.counts, Chains(ui.web, id)) IN
       /\ MapThenSumSet(LAMBDA to : Reaching(ui.web, id, to), Ids) = all
       /\ MapThenSumSet(LAMBDA from : Feeding(ui.web, id, from), Ids \cup {NoNode})
            = all - Total(ui.web.counts, {r \in Chains(ui.web, id) : Began(r, id)})
       /\ \A to \in Ids :
            LET again == {r \in Chains(ui.web, id) : Cardinality({i \in DOMAIN r : Named(r, ui.web.id)[i] = id}) > 1}
            IN /\ Reaching(ui.web, id, to) <= Link(ui.web, id, id, to)
               /\ again = {} => Reaching(ui.web, id, to) = Link(ui.web, id, id, to)
  /\ MapThenSumSet(LAMBDA l : Link(ui.web, ui.via, l[1], l[2]), {l \in Links(ui.web, ui.via) : l[2] = Self})
       = Total(ui.web.counts, Chains(ui.web, ui.via))
=============================================================================

------------------------------ MODULE MapView ------------------------------
(***************************************************************************)
(* The Map page: which peers, links and path are drawn, where the view is  *)
(* put and when it is left alone, and the deletion of what is shown.  The  *)
(* map outlives the renders: markers, layers and view are its own state,   *)
(* brought up to date by the effects of a render.  The peers are read once *)
(* and then pushed; each mode has a socket of its own, and what is pushed  *)
(* before it is open, while it is down or to a full buffer is lost.        *)
(***************************************************************************)
EXTENDS Integers, Sequences, FiniteSets

CONSTANTS Peers,
          OnPath,      \* the peers on the path that a link to the map carries
          MaxHeard,    \* bound: adverts heard
          MaxMoves,    \* bound: changes the reader makes to the address, the view, the types and the links shown
          MaxReads,    \* bound: reads of the peers
          MaxClears,   \* bound: deletions of what is shown
          MaxFaults    \* bound: requests that fail, sockets that drop, pushes that a full buffer loses

VARIABLES
  ui,    \* items, hidden (peers whose type is off), mode, path, pin, links (asked to be shown), confirm, clearing
  map,   \* markers, drawn (the links), route (the path's peers), pinned, view, fitted
  net,   \* read (of the peers), pushes (in order), up (the socket; "first": not open yet),
         \* rows (the answer with the links: "none", "asked", "held"), clear (the deletion sent)
  srv,   \* the peers known
  past   \* heard, moves, reads, clears, faults; stale (the list missed a change that nothing reads again)

vars == <<ui, map, net, srv, past>>
Views == {"start", "all", "pin", "path", "reader"}
NoClear == [at |-> "none", peers |-> {}]
NoRead == [at |-> "none", list |-> {}, behind |-> FALSE]
Push == [kind : {"advert", "delete"}, peers : SUBSET Peers]

TypeOK ==
  /\ {ui.items, ui.hidden, map.markers, map.route, net.clear.peers, net.read.list, srv} \subseteq SUBSET Peers
  /\ ui.mode \in {"peers", "connections"} /\ map.view \in Views
  /\ {ui.path, ui.pin, ui.links, ui.confirm, ui.clearing, map.drawn, map.pinned, map.fitted, net.read.behind, past.stale} \subseteq BOOLEAN
  /\ net.rows \in {"none", "asked", "held"} /\ net.clear.at \in {"none", "asked", "deleted", "ok", "failed"}
  /\ net.read.at \in {"none", "asked", "served"} /\ net.pushes \in Seq(Push) /\ net.up \in {"first", "open", "down"}
  /\ past.heard \in 0..MaxHeard /\ past.moves \in 0..MaxMoves
  /\ past.reads \in 0..MaxReads /\ past.clears \in 0..MaxClears /\ past.faults \in 0..MaxFaults

\* The page is opened from the menu, or by a link to a place or to a path.
Init ==
  /\ \E pin, path \in BOOLEAN :
       /\ ~(pin /\ path)
       /\ ui = [items |-> {}, hidden |-> {}, mode |-> "peers", path |-> path, pin |-> pin, links |-> FALSE,
                confirm |-> FALSE, clearing |-> FALSE]
       /\ map = [markers |-> {}, drawn |-> FALSE, route |-> {}, pinned |-> pin, fitted |-> pin,
                 view |-> IF pin THEN "pin" ELSE "start"]
  /\ net = [read |-> [NoRead EXCEPT !.at = "asked"], pushes |-> <<>>, up |-> "first", rows |-> "none",
            clear |-> NoClear]
  /\ srv = Peers /\ past = [heard |-> 0, moves |-> 0, reads |-> 1, clears |-> 0, faults |-> 0, stale |-> FALSE]
Fault == past.faults < MaxFaults
Spent == [past EXCEPT !.faults = @ + 1]
-----------------------------------------------------------------------------
PathView(u) == IF u.path /\ u.mode = "peers" THEN u.items \cap OnPath ELSE {}
Plotted(u) ==
  IF u.mode = "connections" THEN {}
  ELSE {p \in u.items \ u.hidden : u.path => p \in OnPath}
LinksDrawn(u, n) == u.links /\ n.rows = "held" /\ u.mode = "peers"

\* The effects, in the order of the page: the pin, the path, its frame, the markers and their first fit.
PinEffect(u, mp) ==
  IF u.pin = ui.pin THEN mp
  ELSE IF u.pin THEN [mp EXCEPT !.pinned = TRUE, !.view = "pin", !.fitted = TRUE] ELSE [mp EXCEPT !.pinned = FALSE]
PathEffect(u, mp) ==
  LET framed == Cardinality(PathView(u)) > 1 /\ (u.items # ui.items \/ u.path # ui.path \/ u.mode # ui.mode)
  IN [mp EXCEPT !.route = PathView(u), !.view = IF framed THEN "path" ELSE @]
MarkerEffect(u, mp) ==
  LET fit == ~mp.fitted /\ Plotted(u) # {} /\ Plotted(u) # Plotted(ui)
  IN [mp EXCEPT !.markers = Plotted(u), !.view = IF fit THEN "all" ELSE @, !.fitted = @ \/ fit]
Render(u, n, mp) ==
  /\ ui' = u /\ net' = n
  /\ map' = [MarkerEffect(u, PathEffect(u, PinEffect(u, mp))) EXCEPT !.drawn = LinksDrawn(u, n)]

\* Broadcast, to who subscribed, unless the hub's buffer for it is full; a read served before a push that is lost
\* cannot tell.
Overtaken(n) == [n EXCEPT !.read.behind = @ \/ n.read.at = "served"]
Pushed(n, t, x) ==
  \/ n.up = "open" /\ net' = [n EXCEPT !.pushes = Append(@, x)] /\ past' = t
  \/ n.up = "open" /\ t.faults < MaxFaults /\ net' = Overtaken(n) /\ past' = [t EXCEPT !.faults = @ + 1, !.stale = TRUE]
  \/ n.up = "first" /\ net' = Overtaken(n) /\ past' = [t EXCEPT !.stale = TRUE]
  \/ n.up = "down" /\ net' = n /\ past' = t
\* The daemon stores a peer heard and pushes it; one heard between its deletion and the notice goes with it.
Hear(p) ==
  /\ past.heard < MaxHeard /\ srv' = srv \cup {p} /\ UNCHANGED <<ui, map>>
  /\ Pushed(net, [past EXCEPT !.heard = @ + 1, !.stale = @ \/ (net.clear.at = "deleted" /\ p \in net.clear.peers)],
            [kind |-> "advert", peers |-> {p}])
\* handlePeerMessage.
PushLands ==
  /\ net.pushes # <<>> /\ UNCHANGED <<srv, past>>
  /\ LET x == Head(net.pushes) IN
     Render([ui EXCEPT !.items = IF x.kind = "delete" THEN @ \ x.peers ELSE @ \cup x.peers],
            Overtaken([net EXCEPT !.pushes = Tail(@)]), map)

\* useApiList, asked again by useResume and by the button of an error.
Reread(n) == [n EXCEPT !.read = [NoRead EXCEPT !.at = "asked"]]
Reload ==
  past.reads < MaxReads /\ net' = Reread(net) /\ past' = [past EXCEPT !.reads = @ + 1] /\ UNCHANGED <<ui, map, srv>>
ServeRead ==
  /\ net.read.at = "asked" /\ UNCHANGED <<ui, map, srv>>
  /\ \/ net' = [net EXCEPT !.read = [at |-> "served", list |-> srv, behind |-> FALSE]] /\ past' = past
     \/ Fault /\ past' = [Spent EXCEPT !.stale = TRUE] /\ net' = [net EXCEPT !.read = NoRead]
Unsettled == net.pushes # <<>> \/ net.clear.at = "deleted"
ReadLands ==
  /\ net.read.at = "served" /\ srv' = srv
  /\ Render([ui EXCEPT !.items = net.read.list], [net EXCEPT !.read = NoRead], map)
  /\ past' = [past EXCEPT !.stale = net.read.behind \/ (@ /\ Unsettled)]

\* useWebSocket: only a socket that is back reads again, and the first open of one does not.
FirstOpen == net.up = "first" /\ net' = [net EXCEPT !.up = "open"] /\ UNCHANGED <<ui, map, srv, past>>
Drop ==
  /\ net.up = "open" /\ Fault /\ net' = [net EXCEPT !.up = "down", !.pushes = <<>>] /\ past' = Spent
  /\ UNCHANGED <<ui, map, srv>>
Resume == net.up = "down" /\ net' = Reread([net EXCEPT !.up = "open"]) /\ UNCHANGED <<ui, map, srv, past>>

Moved == [past EXCEPT !.moves = @ + 1]
Move == past.moves < MaxMoves /\ past' = Moved /\ srv' = srv
\* The other mode has other topics, so another socket: what the old one carried is lost, and the new one reads
\* nothing again.
Missed == net.pushes # <<>> \/ net.up = "down"
SetMode(m) ==
  /\ m # ui.mode /\ past.moves < MaxMoves /\ srv' = srv
  /\ past' = [Moved EXCEPT !.stale = @ \/ Missed]
  /\ Render([ui EXCEPT !.mode = m, !.path = FALSE, !.pin = FALSE],
            [(IF Missed THEN Overtaken(net) ELSE net) EXCEPT !.pushes = <<>>, !.up = "first"],
            [map EXCEPT !.fitted = FALSE])
ClearPath == ui.path /\ Move /\ Render([ui EXCEPT !.path = FALSE], net, map)
ClearPin ==
  /\ ui.pin /\ Move
  /\ Render([ui EXCEPT !.pin = FALSE], net, [map EXCEPT !.view = IF map.markers # {} THEN "all" ELSE @])
Pan == map.view # "reader" /\ Move /\ map' = [map EXCEPT !.view = "reader"] /\ UNCHANGED <<ui, net>>
ToggleType(p) ==
  /\ ui.mode = "peers" /\ Move
  /\ Render([ui EXCEPT !.hidden = IF p \in @ THEN @ \ {p} ELSE @ \cup {p}], net, map)

\* The links are read when they are first asked for, and kept while they are hidden.
ToggleLinks ==
  /\ ui.mode = "peers" /\ Move
  /\ Render([ui EXCEPT !.links = ~@], [net EXCEPT !.rows = IF ui.links \/ @ = "held" THEN @ ELSE "asked"], map)
LinksLand ==
  /\ net.rows = "asked" /\ srv' = srv
  /\ \/ Render(ui, [net EXCEPT !.rows = IF ui.links THEN "held" ELSE "none"], map) /\ past' = past
     \/ Fault /\ past' = Spent /\ Render(ui, [net EXCEPT !.rows = "none"], map)

\* deleteShown: what is plotted when it is confirmed.
AskClear ==
  /\ Plotted(ui) # {} /\ ~ui.clearing /\ ui' = [ui EXCEPT !.confirm = ~@] /\ UNCHANGED <<map, net, srv, past>>
DeleteShown ==
  /\ ui.confirm /\ Plotted(ui) # {} /\ ~ui.clearing /\ net.clear.at = "none" /\ past.clears < MaxClears
  /\ past' = [past EXCEPT !.clears = @ + 1] /\ UNCHANGED <<map, srv>>
  /\ ui' = [ui EXCEPT !.clearing = TRUE] /\ net' = [net EXCEPT !.clear = [at |-> "asked", peers |-> Plotted(ui)]]
ServeClear ==
  /\ net.clear.at = "asked" /\ UNCHANGED <<ui, map>>
  /\ \/ srv' = srv \ net.clear.peers /\ past' = past /\ net' = [net EXCEPT !.clear.at = "deleted"]
     \/ Fault /\ past' = Spent /\ srv' = srv /\ net' = [net EXCEPT !.clear.at = "failed"]
AfterDelete ==
  /\ net.clear.at = "deleted" /\ UNCHANGED <<ui, map, srv>>
  /\ Pushed([net EXCEPT !.clear.at = "ok"], past, [kind |-> "delete", peers |-> net.clear.peers])
ClearLands ==
  /\ net.clear.at \in {"ok", "failed"} /\ net' = [net EXCEPT !.clear = NoClear] /\ UNCHANGED <<map, srv, past>>
  /\ ui' = [ui EXCEPT !.clearing = FALSE, !.confirm = @ /\ net.clear.at = "failed"]

Next ==
  \/ PushLands \/ Reload \/ ServeRead \/ ReadLands \/ FirstOpen \/ Drop \/ Resume \/ ClearPath \/ ClearPin \/ Pan \/ ToggleLinks \/ LinksLand
  \/ AskClear \/ DeleteShown \/ ServeClear \/ AfterDelete \/ ClearLands
  \/ \E p \in Peers : Hear(p) \/ ToggleType(p)
  \/ \E m \in {"peers", "connections"} : SetMode(m)
Spec == Init /\ [][Next]_vars
-----------------------------------------------------------------------------
\* What the map draws is what the page says: no marker of a peer that is hidden or off the path shown, no links
\* or path under the routes of the other mode, and a pin only while the address names one; and connected and at
\* rest, no peer the daemon has forgotten and each that it knows, unless a change was lost to the page.
DrawnAgrees ==
  /\ map.markers = Plotted(ui) /\ map.pinned = ui.pin /\ map.route = PathView(ui)
  /\ map.drawn => ui.links /\ ui.mode = "peers"
  /\ ui.mode = "connections" => map.markers = {} /\ map.route = {} /\ ~map.pinned
  /\ net.up = "open" /\ net.read.at = "none" /\ ~Unsettled /\ ~past.stale => map.markers = Plotted([ui EXCEPT !.items = srv])

\* Peers that arrive move the view once, to show them all; never from a pin, nor from where the reader has
\* put it since, unless a path is framed.
ViewKept ==
  ui'.items # ui.items /\ ui'.mode = ui.mode /\ ~ui.path /\ (map.pinned \/ map.fitted) => map'.view = map.view
=============================================================================

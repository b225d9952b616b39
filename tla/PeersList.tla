----------------------------- MODULE PeersList -----------------------------
(***************************************************************************)
(* The Peers page: the list read from the daemon and kept by the socket,   *)
(* the type filter, the rows ticked and their deletion in bulk.  What is   *)
(* pushed before the socket is open, while it is down or when the hub's    *)
(* buffer for it is full is lost; the page reads again when a socket that  *)
(* had been open is back, and when the tab is shown again.                 *)
(***************************************************************************)
EXTENDS Integers, Sequences

CONSTANTS Peers,
          MaxHeard,    \* bound: adverts heard
          MaxReads,    \* bound: reads of the list
          MaxBulk,     \* bound: bulk deletions
          MaxFaults    \* bound: requests that fail, sockets that drop, pushes that a full buffer loses

VARIABLES
  ui,    \* items (the advert shown of each peer, 0 for no row), filter (the peers of the chosen type), selected,
         \* confirm, deleting
  net,   \* read (the last one asked for), pushes (in order), up (the socket; "first": not open yet),
         \* bulk (the deletion sent)
  srv,   \* the last advert heard of each peer, 0 for a peer not known
  past   \* heard, reads, bulk, faults; lost (a read failed), crossed (a push came behind a read), gone (a push was lost),
         \* revived (a peer was heard between its deletion and the notice of it)

vars == <<ui, net, srv, past>>
List == [Peers -> 0..MaxHeard]
NoRows == [p \in Peers |-> 0]
Known(l) == {p \in Peers : l[p] # 0}
Push == [kind : {"advert"}, peer : Peers, seq : 1..MaxHeard] \cup [kind : {"delete"}, peers : SUBSET Peers]
NoBulk == [at |-> "none", peers |-> {}]
NoRead == [at |-> "none", list |-> NoRows, behind |-> FALSE]

TypeOK ==
  /\ ui.items \in List /\ ui.filter \subseteq Peers /\ ui.selected \subseteq Peers
  /\ {ui.confirm, ui.deleting, past.lost, past.crossed, past.gone, past.revived} \subseteq BOOLEAN
  /\ net.read \in [at : {"none", "asked", "served"}, list : List, behind : BOOLEAN] /\ net.pushes \in Seq(Push)
  /\ net.up \in {"first", "open", "down"}
  /\ net.bulk \in [at : {"none", "asked", "deleted", "ok", "failed"}, peers : SUBSET Peers]
  /\ srv \in List /\ past.heard \in 0..MaxHeard /\ past.reads \in 0..MaxReads /\ past.bulk \in 0..MaxBulk
  /\ past.faults \in 0..MaxFaults

Init ==
  /\ ui = [items |-> NoRows, filter |-> Peers, selected |-> {}, confirm |-> FALSE, deleting |-> FALSE]
  /\ net = [read |-> [NoRead EXCEPT !.at = "asked"], pushes |-> <<>>, up |-> "first", bulk |-> NoBulk]
  /\ srv = NoRows
  /\ past = [heard |-> 0, reads |-> 1, bulk |-> 0, faults |-> 0, lost |-> FALSE, crossed |-> FALSE, gone |-> FALSE,
             revived |-> FALSE]
Fault == past.faults < MaxFaults
Spent == [past EXCEPT !.faults = @ + 1]
\* Broadcast: a push reaches who subscribed, unless the hub's buffer for it is full; a read served before a push
\* that is lost cannot tell.
Overtaken(n) == [n EXCEPT !.read.behind = @ \/ n.read.at = "served"]
Pushed(n, t, x) ==
  \/ n.up = "open" /\ net' = [n EXCEPT !.pushes = Append(@, x)] /\ past' = t
  \/ n.up = "open" /\ t.faults < MaxFaults /\ net' = Overtaken(n) /\ past' = [t EXCEPT !.faults = @ + 1, !.gone = TRUE]
  \/ n.up = "first" /\ net' = Overtaken(n) /\ past' = [t EXCEPT !.gone = TRUE]
  \/ n.up = "down" /\ net' = n /\ past' = t
-----------------------------------------------------------------------------
\* The daemon hears an advert: the writer stores the peer and pushes it.
Hear(p) ==
  /\ past.heard < MaxHeard /\ ui' = ui /\ srv' = [srv EXCEPT ![p] = past.heard + 1]
  /\ Pushed(net, [past EXCEPT !.heard = @ + 1, !.revived = @ \/ (net.bulk.at = "deleted" /\ p \in net.bulk.peers)],
            [kind |-> "advert", peer |-> p, seq |-> past.heard + 1])

\* useApiList: a read asked for anew supersedes the one in flight.
Reread(n) == [n EXCEPT !.read = [NoRead EXCEPT !.at = "asked"]]
\* The button, or the tab shown again with its socket still up.
Reload ==
  /\ past.reads < MaxReads /\ net' = Reread(net)
  /\ past' = [past EXCEPT !.reads = @ + 1] /\ UNCHANGED <<ui, srv>>
ServeRead ==
  /\ net.read.at = "asked" /\ UNCHANGED <<ui, srv>>
  /\ \/ net' = [net EXCEPT !.read = [at |-> "served", list |-> srv, behind |-> FALSE]] /\ past' = past
     \/ Fault /\ past' = [Spent EXCEPT !.lost = TRUE] /\ net' = [net EXCEPT !.read = NoRead]
NoticeDue == net.bulk.at = "deleted" \/ \E i \in 1..Len(net.pushes) : net.pushes[i].kind = "delete"
ReadLands ==
  /\ net.read.at = "served" /\ ui' = [ui EXCEPT !.items = net.read.list] /\ srv' = srv
  /\ net' = [net EXCEPT !.read = NoRead]
  /\ past' = [past EXCEPT !.crossed = net.read.behind, !.lost = FALSE, !.gone = @ /\ net.pushes # <<>>,
                       !.revived = @ /\ NoticeDue]

\* handleMessage.
Applied(items, x) ==
  IF x.kind = "delete" THEN [p \in Peers |-> IF p \in x.peers THEN 0 ELSE items[p]]
  ELSE [items EXCEPT ![x.peer] = x.seq]
PushLands ==
  /\ net.pushes # <<>> /\ ui' = [ui EXCEPT !.items = Applied(@, Head(net.pushes))]
  /\ net' = Overtaken([net EXCEPT !.pushes = Tail(@)]) /\ UNCHANGED <<srv, past>>

\* useWebSocket: the first open reads nothing again.  The socket drops with what it carried, and useResume reads
\* again when it is back.
FirstOpen == net.up = "first" /\ net' = [net EXCEPT !.up = "open"] /\ UNCHANGED <<ui, srv, past>>
Drop ==
  /\ net.up = "open" /\ Fault /\ net' = [net EXCEPT !.up = "down", !.pushes = <<>>] /\ past' = Spent /\ UNCHANGED <<ui, srv>>
\* The bug of a socket that is back and nothing read again.
ResumeOnly == net.up = "down" /\ net' = [net EXCEPT !.up = "open"] /\ UNCHANGED <<ui, srv, past>>
Resume == net.up = "down" /\ net' = Reread([net EXCEPT !.up = "open"]) /\ UNCHANGED <<ui, srv, past>>
-----------------------------------------------------------------------------
Filtered == Known(ui.items) \cap ui.filter
EditFilter(F) == ui' = [ui EXCEPT !.filter = F] /\ UNCHANGED <<net, srv, past>>
ToggleSelect(p) ==
  /\ p \in Filtered /\ UNCHANGED <<net, srv, past>>
  /\ ui' = [ui EXCEPT !.selected = IF p \in @ THEN @ \ {p} ELSE @ \cup {p}]

\* Selections outside the current filter are preserved.
Toggled(sel) == IF Filtered \subseteq sel THEN sel \ Filtered ELSE sel \cup Filtered
ToggleSelectAll == ui' = [ui EXCEPT !.selected = Toggled(@)] /\ UNCHANGED <<net, srv, past>>

Clear == ui.selected # {} /\ ui' = [ui EXCEPT !.selected = {}] /\ UNCHANGED <<net, srv, past>>

AskBulk ==
  /\ ui.selected # {} /\ ~ui.deleting /\ UNCHANGED <<net, srv, past>>
  /\ ui' = [ui EXCEPT !.confirm = ~@]
BulkDelete ==
  /\ ui.selected # {} /\ ui.confirm /\ ~ui.deleting /\ past.bulk < MaxBulk
  /\ ui' = [ui EXCEPT !.deleting = TRUE] /\ net' = [net EXCEPT !.bulk = [at |-> "asked", peers |-> ui.selected]]
  /\ past' = [past EXCEPT !.bulk = @ + 1] /\ srv' = srv
\* The writer deletes the peers; the handler pushes the notice of it once that is done, and answers.
ServeBulk ==
  /\ net.bulk.at = "asked" /\ ui' = ui
  /\ \/ /\ srv' = [p \in Peers |-> IF p \in net.bulk.peers THEN 0 ELSE srv[p]] /\ past' = past
        /\ net' = [net EXCEPT !.bulk.at = "deleted"]
     \/ Fault /\ past' = Spent /\ srv' = srv /\ net' = [net EXCEPT !.bulk.at = "failed"]
AfterDelete ==
  /\ net.bulk.at = "deleted" /\ UNCHANGED <<ui, srv>>
  /\ Pushed([net EXCEPT !.bulk.at = "ok"], past, [kind |-> "delete", peers |-> net.bulk.peers])
BulkDone(u) == [u EXCEPT !.selected = {}, !.confirm = FALSE]
\* The bug of a failed deletion that leaves the page deleting.
BulkLandsBusy ==
  /\ net.bulk.at \in {"ok", "failed"} /\ net' = [net EXCEPT !.bulk = NoBulk] /\ UNCHANGED <<srv, past>>
  /\ ui' = IF net.bulk.at = "ok" THEN [BulkDone(ui) EXCEPT !.deleting = FALSE] ELSE ui
BulkLands ==
  /\ net.bulk.at \in {"ok", "failed"} /\ net' = [net EXCEPT !.bulk = NoBulk] /\ UNCHANGED <<srv, past>>
  /\ ui' = [(IF net.bulk.at = "ok" THEN BulkDone(ui) ELSE ui) EXCEPT !.deleting = FALSE]

Next ==
  \/ \E p \in Peers : Hear(p) \/ ToggleSelect(p) \/ EditFilter({p})
  \/ EditFilter(Peers) \/ Reload \/ ServeRead \/ ReadLands \/ PushLands \/ FirstOpen \/ Drop \/ Resume
  \/ ToggleSelectAll \/ Clear \/ AskBulk \/ BulkDelete \/ ServeBulk \/ AfterDelete \/ BulkLands
Spec == Init /\ [][Next]_vars
-----------------------------------------------------------------------------
\* Connected and at rest, the list is the daemon's: unless a push overtook the last read, what the socket
\* lost is read again, and no deleted peer comes back.  Excepted are what nothing reads again, a push lost before
\* the first open or to a full buffer, and a peer heard between its deletion and the notice of it.
ListAgrees ==
  net.up = "open" /\ net.read.at = "none" /\ net.pushes = <<>> /\ net.bulk.at # "deleted"
    /\ ~past.lost /\ ~past.crossed /\ ~past.gone /\ ~past.revived => ui.items = srv

\* "deleting" is said for as long as a deletion is under way, and its confirmation is not asked twice.
DeletingShown == ui.deleting <=> net.bulk.at # "none"

\* Ticking rows, one or all in view, takes and gives no tick out of view; only "clear" takes them all.
TicksKept ==
  ui'.selected # ui.selected /\ ~ui.deleting /\ ui'.selected # {} => ui'.selected \ Filtered = ui.selected \ Filtered
=============================================================================

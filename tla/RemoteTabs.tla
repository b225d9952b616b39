----------------------------- MODULE RemoteTabs -----------------------------
(***************************************************************************)
(* The tabs of a remote node's page that read the node over the air, each  *)
(* a component of its own that stays mounted: a plain one (status, owner,  *)
(* telemetry) loads one value, the neighbours come in pages, and the       *)
(* access list is changed key by key and read again after each change.     *)
(* All of them read when they are first shown and had no success yet.      *)
(***************************************************************************)
EXTENDS Integers, Sequences, FiniteSets

CONSTANTS Keys,      \* public keys the access list may hold
          Perms,     \* the permissions one may have
          MaxPages,  \* bound: pages of neighbours the node has
          MaxReads, MaxChanges, MaxFaults  \* bounds: reads and changes in flight, requests that fail

VARIABLES
  ui,    \* the tab, whether it is shown, fetched (a success was had), err, busy; pages and total;
         \* entries, the key marked busy, the add dialog
  net,   \* reads, changes and the discovery on their way
  srv,   \* pages of neighbours and access list of the node
  past   \* faults; overlap (reads overlapped), freed (an answer gave the buttons back while a further page
         \* was on its way), behind (the access list changed behind the page's back)

vars == <<ui, net, srv, past>>

None == "none"
Kinds == {"plain", "neighbors", "access"}
Lists == [Keys -> Perms \cup {None}]
Read == [id : 1..MaxReads, offset : 0..MaxPages - 1, got : {"asked", "ok", "failed"},
         list : Lists, total : 0..MaxPages, after : Keys \cup {None}, via : {"row", "add", None}]
Change == [key : Keys, perm : Perms \cup {None}, via : {"row", "add"}]

TypeOK ==
  /\ ui.kind \in Kinds /\ {ui.active, ui.fetched, ui.err, past.overlap, past.freed, past.behind, net.discover} \subseteq BOOLEAN
  /\ ui.busy \in {None, "refresh", "more", "discover"}
  /\ ui.pages \in Seq(0..MaxPages - 1) /\ ui.total \in 0..MaxPages
  /\ ui.entries \in Lists /\ ui.busyKey \in Keys \cup {None}
  /\ ui.add \in {"closed", "open", "sending"}
  /\ \A r \in net.reads : r \in Read
  /\ \A c \in net.changes : c \in Change
  /\ srv.total \in 0..MaxPages /\ srv.acl \in Lists /\ past.faults \in 0..MaxFaults

Empty == [k \in Keys |-> None]
Init ==
  /\ \E k \in Kinds :
       ui = [kind |-> k, active |-> FALSE, fetched |-> FALSE, err |-> FALSE, busy |-> None, pages |-> <<>>,
             total |-> 0, entries |-> Empty, busyKey |-> None, add |-> "closed"]
  /\ net = [reads |-> {}, changes |-> {}, discover |-> FALSE]
  /\ srv = [total |-> 1, acl |-> Empty]
  /\ past = [faults |-> 0, overlap |-> FALSE, freed |-> FALSE, behind |-> FALSE]

Fault == past.faults < MaxFaults
-----------------------------------------------------------------------------
\* A read goes out: refresh, a further page, or the one that follows a change of the access list.
Sent(reads, offset, after, via) ==
  reads \cup {[id |-> CHOOSE i \in 1..MaxReads : \A r \in reads : r.id # i, offset |-> offset, got |-> "asked",
               list |-> Empty, total |-> 0, after |-> after, via |-> via]}
RoomToRead == Cardinality(net.reads) < MaxReads
Overlapping == past.overlap \/ net.reads # {}

Refreshing(u) == [u EXCEPT !.busy = "refresh", !.err = FALSE]
\* The tab is shown: its effect reads unless a read already succeeded, also while one is under way.
Show ==
  /\ ~ui.active
  /\ \/ ui.fetched /\ ui' = [ui EXCEPT !.active = TRUE] /\ UNCHANGED <<net, past>>
     \/ /\ ~ui.fetched /\ RoomToRead /\ ui' = [Refreshing(ui) EXCEPT !.active = TRUE]
        /\ net' = [net EXCEPT !.reads = Sent(@, 0, None, None)]
        /\ past' = [past EXCEPT !.overlap = Overlapping \/ net.discover]
  /\ srv' = srv
Hide == ui.active /\ ui' = [ui EXCEPT !.active = FALSE] /\ UNCHANGED <<net, srv, past>>
\* The refresh button, disabled while the tab is busy.
Refresh ==
  /\ ui.active /\ ui.busy = None /\ RoomToRead
  /\ ui' = Refreshing(ui) /\ net' = [net EXCEPT !.reads = Sent(@, 0, None, None)]
  /\ past' = [past EXCEPT !.overlap = Overlapping] /\ srv' = srv
\* The bug of an off-by-one: a page past the last one is offered.
HasMoreToo == Len(ui.pages) <= ui.total
HasMore == Len(ui.pages) < ui.total
LoadMore ==
  /\ ui.kind = "neighbors" /\ ui.active /\ ui.busy = None /\ HasMore /\ RoomToRead
  /\ ui' = [ui EXCEPT !.busy = "more", !.err = FALSE]
  /\ net' = [net EXCEPT !.reads = Sent(@, Len(ui.pages), None, None)]
  /\ past' = [past EXCEPT !.overlap = Overlapping] /\ srv' = srv

Serve(r) ==
  /\ r.got = "asked"
  /\ \/ net' = [net EXCEPT !.reads = (@ \ {r}) \cup {[r EXCEPT !.got = "ok", !.list = srv.acl, !.total = srv.total]}]
        /\ past' = past
     \/ Fault /\ past' = [past EXCEPT !.faults = @ + 1]
        /\ net' = [net EXCEPT !.reads = (@ \ {r}) \cup {[r EXCEPT !.got = "failed"]}]
  /\ UNCHANGED <<ui, srv>>
\* The answer: the first page replaces the list, a further one is appended, whatever came in between.
\* The end of a read that follows a change also ends that change.
Read1(u, r) ==
  CASE ui.kind = "plain" -> [u EXCEPT !.fetched = TRUE]
    [] ui.kind = "access" -> [u EXCEPT !.fetched = TRUE, !.entries = r.list]
    [] ui.kind = "neighbors" ->
         [u EXCEPT !.fetched = TRUE, !.total = r.total,
                   !.pages = IF r.offset = 0 THEN <<0>> ELSE Append(@, r.offset)]
Ended(u, after, via) ==
  [u EXCEPT !.busyKey = IF after = None THEN @ ELSE None, !.add = IF via = "add" THEN "closed" ELSE @]
FurtherDue(reads) == \E q \in reads : q.offset > 0
Land(r) ==
  /\ r.got # "asked"
  /\ LET u == [Ended(ui, r.after, r.via) EXCEPT !.busy = None] IN
     ui' = IF r.got = "ok" THEN Read1(u, r) ELSE [u EXCEPT !.err = TRUE]
  /\ net' = [net EXCEPT !.reads = @ \ {r}]
  /\ past' = [past EXCEPT !.freed = @ \/ FurtherDue(net.reads \ {r})] /\ srv' = srv

\* An admin has the node look for its neighbours; they turn up later.
Discover ==
  /\ ui.kind = "neighbors" /\ ui.active /\ ui.busy = None /\ ~net.discover
  /\ ui' = [ui EXCEPT !.busy = "discover"] /\ net' = [net EXCEPT !.discover = TRUE] /\ UNCHANGED <<srv, past>>
DiscoverLands ==
  /\ net.discover /\ net' = [net EXCEPT !.discover = FALSE] /\ ui' = [ui EXCEPT !.busy = None]
  /\ past' = [past EXCEPT !.freed = @ \/ FurtherDue(net.reads)] /\ srv' = srv
NeighborFound ==
  /\ ui.kind = "neighbors" /\ srv.total < MaxPages
  /\ srv' = [srv EXCEPT !.total = @ + 1] /\ UNCHANGED <<ui, net, past>>

\* A telemetry push is shown without a read.
Pushed ==
  /\ ui.kind = "plain" /\ ui' = [ui EXCEPT !.pages = <<0>>] /\ UNCHANGED <<net, srv, past>>

\* setPerm and remove: one key is marked busy, the last one; any change's end unmarks it.
Begin(k, p, via, u) ==
  /\ Cardinality(net.changes) < MaxChanges
  /\ ui' = [u EXCEPT !.busyKey = k]
  /\ net' = [net EXCEPT !.changes = @ \cup {[key |-> k, perm |-> p, via |-> via]}] /\ UNCHANGED <<srv, past>>
Row(k) == ui.kind = "access" /\ ui.active /\ ui.entries[k] # None
SetPerm(k, p) == Row(k) /\ ui.busyKey # k /\ Begin(k, p, "row", ui)
\* A removal takes a second click, its confirmation.
Remove(k) == Row(k) /\ ui.busyKey # k /\ Begin(k, None, "row", ui)
\* The dialog offers the keys that are not listed, and closes when the change it made has ended.
OpenAdd ==
  /\ ui.kind = "access" /\ ui.active /\ ui.add = "closed"
  /\ ui' = [ui EXCEPT !.add = "open"] /\ UNCHANGED <<net, srv, past>>
CloseAdd == ui.add # "closed" /\ ui' = [ui EXCEPT !.add = "closed"] /\ UNCHANGED <<net, srv, past>>
Add(k, p) == ui.add = "open" /\ ui.entries[k] = None /\ Begin(k, p, "add", [ui EXCEPT !.add = "sending"])
\* The node made the change and the list is read again; or the request failed, having reached it or not.
ChangeLands(c) ==
  LET applied == [srv EXCEPT !.acl[c.key] = c.perm] IN
  \/ /\ RoomToRead /\ srv' = applied
     /\ ui' = Refreshing(ui)
     /\ net' = [net EXCEPT !.changes = @ \ {c}, !.reads = Sent(@, 0, c.key, c.via)]
     /\ past' = [past EXCEPT !.overlap = Overlapping]
  \/ /\ Fault /\ ui' = Ended(ui, c.key, c.via) /\ net' = [net EXCEPT !.changes = @ \ {c}]
     /\ \/ srv' = srv /\ past' = [past EXCEPT !.faults = @ + 1]
        \/ srv' = applied /\ past' = [past EXCEPT !.faults = @ + 1, !.behind = TRUE]

Next ==
  \/ Show \/ Hide \/ Refresh \/ LoadMore \/ Discover \/ DiscoverLands \/ NeighborFound \/ Pushed
  \/ OpenAdd \/ CloseAdd
  \/ \E r \in net.reads : Serve(r) \/ Land(r)
  \/ \E k \in Keys : Remove(k) \/ \E p \in Perms : SetPerm(k, p) \/ Add(k, p)
  \/ \E c \in net.changes : ChangeLands(c)
Spec == Init /\ [][Next]_vars
-----------------------------------------------------------------------------
\* A tab that is shown has data, an error to show, or says that it is reading, unless reads overlapped.
NeverBlank == ui.active /\ ~past.overlap => ui.fetched \/ ui.err \/ ui.busy # None

\* The neighbours shown are the node's list from its start, with no page missing or shown twice, also where first
\* pages were read side by side; unless another answer, to a first page or to the discovery, came while a further
\* page was on its way: it frees the buttons, and a first page also starts the list again.
PagesInOrder ==
  ui.kind = "neighbors" /\ ~past.freed =>
    \A i \in 1..Len(ui.pages) : ui.pages[i] = i - 1

\* Once every change and read has ended, the access list shown is the node's, if reads did not
\* overlap and no answer was lost.
AccessAgrees ==
  ui.kind = "access" /\ ui.fetched /\ ~ui.err /\ net.changes = {} /\ net.reads = {}
    /\ ~past.overlap /\ ~past.behind => ui.entries = srv.acl
=============================================================================

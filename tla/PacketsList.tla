---------------------------- MODULE PacketsList ----------------------------
(***************************************************************************)
(* The Packets page: the live buffer that the socket fills, the stored     *)
(* history a filter asks for, and the rows drawn, one for all the          *)
(* observations of a packet.  An observation has the time it was made at;  *)
(* its row id is the order in which the writer came to store it.           *)
(***************************************************************************)
EXTENDS Integers, Sequences, FiniteSets, SequencesExt

CONSTANTS Packets, NoPacket,
          Words,           \* the packets the reader looks for
          Handlers,        \* of the radio: what is received, what is sent
          Limit, Buffer,   \* the rows of a read, the rows the page keeps live (100 and 200)
          FilterLimit,     \* the rows of a filter (500)
          MaxObs,          \* bound: observations made
          MaxReads,        \* bound: reads of either list
          MaxFaults        \* bound: reads that fail, sockets that drop, pushes and rows that are lost

VARIABLES
  ui,    \* items (the live buffer, newest first), kind (the type chosen), typed, search (the debounced box),
         \* found (the filtered list), selected
  net,   \* read and query (the last ones asked for), pushes (in order), up (the socket; "first": not open yet)
  srv,   \* made (observations), hand (the one each handler is busy with), queue (rows to insert), rows
  past   \* reads, faults; lost (a read failed), unfound (a query failed), gone (a push was lost), crossed, overlap
         \* (a read met pushes), jumbled (two handlers queued their rows in the other order)

vars == <<ui, net, srv, past>>
Choice == Words \cup {NoPacket}
Obs == [id : 0..MaxObs, t : 1..MaxObs, packet : Packets]
NoRead == [at |-> "none", rows |-> <<>>, behind |-> FALSE, twice |-> FALSE]
Busy == [step : {"made", "queued"}, t : 1..MaxObs, packet : Packets]
Idle == [step |-> "idle"]

TypeOK ==
  /\ ui.items \in Seq(Obs) /\ Len(ui.items) <= Buffer /\ ui.found \in Seq(Obs)
  /\ {ui.kind, ui.typed, ui.search, ui.selected} \subseteq Choice
  /\ \A r \in {net.read, net.query} : r.at \in {"none", "asked", "served"} /\ r.rows \in Seq(Obs) /\ {r.behind, r.twice} \subseteq BOOLEAN
  /\ net.pushes \in Seq(Obs) /\ net.up \in {"first", "open", "down"}
  /\ srv.made \in 0..MaxObs /\ srv.hand \in [Handlers -> Busy \cup {Idle}] /\ {srv.queue, srv.rows} \subseteq Seq(Obs)
  /\ {past.lost, past.unfound, past.gone, past.crossed, past.overlap, past.jumbled} \subseteq BOOLEAN
  /\ past.reads \in 0..MaxReads /\ past.faults \in 0..MaxFaults

Init ==
  /\ ui = [items |-> <<>>, kind |-> NoPacket, typed |-> NoPacket, search |-> NoPacket, found |-> <<>>,
           selected |-> NoPacket]
  /\ net = [read |-> [NoRead EXCEPT !.at = "asked"], query |-> NoRead, pushes |-> <<>>, up |-> "first"]
  /\ srv = [made |-> 0, hand |-> [h \in Handlers |-> Idle], queue |-> <<>>, rows |-> <<>>]
  /\ past = [reads |-> 1, faults |-> 0, lost |-> FALSE, unfound |-> FALSE, gone |-> FALSE, crossed |-> FALSE,
             overlap |-> FALSE, jumbled |-> FALSE]
Fault == past.faults < MaxFaults
Spent == [past EXCEPT !.faults = @ + 1]
Cut(s, k) == SubSeq(s, 1, IF Len(s) < k THEN Len(s) ELSE k)
NewestFirst(s) == Reverse(s)
-----------------------------------------------------------------------------
\* A handler takes the time of an observation, queues its row and then pushes it, without a row id.
Observe(h, p) ==
  /\ srv.hand[h] = Idle /\ srv.made < MaxObs /\ UNCHANGED <<ui, net, past>>
  /\ srv' = [srv EXCEPT !.made = @ + 1, !.hand[h] = [step |-> "made", t |-> srv.made + 1, packet |-> p]]
Live(o) == [id |-> 0, t |-> o.t, packet |-> o.packet]
Queue(h) ==
  LET o == srv.hand[h] IN
  /\ o.step = "made" /\ UNCHANGED <<ui, net>>
  /\ \/ /\ srv' = [srv EXCEPT !.hand[h].step = "queued", !.queue = Append(@, Live(o))]
        /\ past' = [past EXCEPT !.jumbled = @ \/ \E g \in Handlers : srv.hand[g].step = "made" /\ srv.hand[g].t < o.t]
     \/ Fault /\ past' = Spent /\ srv' = [srv EXCEPT !.hand[h].step = "queued"]
\* The writer: its next insert gives the row its id.
Insert ==
  /\ srv.queue # <<>> /\ UNCHANGED <<ui, net, past>>
  /\ srv' = [srv EXCEPT !.queue = Tail(@), !.rows = Append(@, [Head(srv.queue) EXCEPT !.id = Len(srv.rows) + 1])]
\* A push reaches who subscribed, unless the hub's buffer for it is full; a read served before it cannot tell.
Overtaken(n) == [n EXCEPT !.read.behind = @ \/ n.read.at = "served"]
Broadcast(h) ==
  /\ srv.hand[h].step = "queued" /\ srv' = [srv EXCEPT !.hand[h] = Idle] /\ ui' = ui
  /\ \/ net.up = "open" /\ net' = [net EXCEPT !.pushes = Append(@, Live(srv.hand[h]))] /\ past' = past
     \/ net.up = "open" /\ Fault /\ net' = Overtaken(net) /\ past' = [Spent EXCEPT !.gone = TRUE]
     \/ net.up = "first" /\ net' = Overtaken(net) /\ past' = [past EXCEPT !.gone = TRUE]
     \/ net.up = "down" /\ net' = net /\ past' = past
PushLands ==
  /\ net.pushes # <<>> /\ UNCHANGED <<srv, past>>
  /\ ui' = [ui EXCEPT !.items = Cut(<<Head(net.pushes)>> \o @, Buffer)]
  /\ net' = Overtaken([net EXCEPT !.pushes = Tail(@)])

\* useApiList, once for the live list and once for the filter.
Reread(n) == [n EXCEPT !.read = [NoRead EXCEPT !.at = "asked"]]
\* The button, or the tab shown again with its socket still up.
Reload ==
  past.reads < MaxReads /\ net' = Reread(net) /\ past' = [past EXCEPT !.reads = @ + 1] /\ UNCHANGED <<ui, srv>>
Latest == Cut(NewestFirst(srv.rows), Limit)
ServeRead ==
  /\ net.read.at = "asked" /\ UNCHANGED <<ui, srv>>
  /\ \/ /\ past' = past
        /\ net' = [net EXCEPT !.read = [at |-> "served", rows |-> Latest, behind |-> srv.queue # <<>>,
                                        twice |-> net.pushes # <<>> \/ \E h \in Handlers : srv.hand[h].step = "queued"]]
     \/ Fault /\ past' = [Spent EXCEPT !.lost = TRUE] /\ net' = [net EXCEPT !.read = NoRead]
ReadLands ==
  /\ net.read.at = "served" /\ ui' = [ui EXCEPT !.items = net.read.rows] /\ srv' = srv
  /\ net' = [net EXCEPT !.read = NoRead]
  /\ past' = [past EXCEPT !.crossed = net.read.behind, !.overlap = net.read.twice, !.lost = FALSE, !.gone = FALSE]
FirstOpen == net.up = "first" /\ net' = [net EXCEPT !.up = "open"] /\ UNCHANGED <<ui, srv, past>>
Drop ==
  /\ net.up = "open" /\ Fault /\ net' = [net EXCEPT !.up = "down", !.pushes = <<>>] /\ past' = Spent /\ UNCHANGED <<ui, srv>>
Resume == net.up = "down" /\ net' = Reread([net EXCEPT !.up = "open"]) /\ UNCHANGED <<ui, srv, past>>
-----------------------------------------------------------------------------
\* The filter: its type at once, its search when the box has rested.  A change asks the stored history again.
Filtering(u) == u.kind # NoPacket \/ u.search # NoPacket
Matches(u, p) == u.kind \in {NoPacket, p} /\ u.search \in {NoPacket, p}
FilterChanged(u) ==
  /\ ui' = u /\ srv' = srv
  /\ \/ /\ Filtering(u) /\ past.reads < MaxReads /\ past' = [past EXCEPT !.reads = @ + 1]
        /\ net' = [net EXCEPT !.query = [NoRead EXCEPT !.at = "asked"]]
     \/ ~Filtering(u) /\ net' = [net EXCEPT !.query = NoRead] /\ past' = past
ChooseKind(k) == k # ui.kind /\ FilterChanged([ui EXCEPT !.kind = k])
Type(s) == s # ui.typed /\ ui' = [ui EXCEPT !.typed = s] /\ UNCHANGED <<net, srv, past>>
Debounce == ui.search # ui.typed /\ FilterChanged([ui EXCEPT !.search = ui.typed])
ServeQuery ==
  /\ net.query.at = "asked" /\ UNCHANGED <<ui, srv>>
  /\ \/ net' = [net EXCEPT !.query = [NoRead EXCEPT !.at = "served",
          !.rows = Cut(NewestFirst(SelectSeq(srv.rows, LAMBDA o : Matches(ui, o.packet))), FilterLimit)]] /\ past' = past
     \/ Fault /\ past' = [Spent EXCEPT !.unfound = TRUE] /\ net' = [net EXCEPT !.query = NoRead]
QueryLands ==
  /\ net.query.at = "served" /\ ui' = [ui EXCEPT !.found = net.query.rows] /\ srv' = srv
  /\ net' = [net EXCEPT !.query = NoRead] /\ past' = [past EXCEPT !.unfound = FALSE]

BothStored(o, origin) == o.id # 0 /\ origin.id # 0
\* buildGroups: the row is the first observation, by id where both have one and by time where not.
BeatsOrigin(o, origin) == IF BothStored(o, origin) THEN o.id < origin.id ELSE o.t < origin.t
Fold(g, o) ==
  IF o.packet \notin DOMAIN g THEN g @@ (o.packet :> [origin |-> o, heard |-> 1])
  ELSE [g EXCEPT ![o.packet] = [origin |-> IF BeatsOrigin(o, @.origin) THEN o ELSE @.origin, heard |-> @.heard + 1]]
NoGroups == [p \in {} |-> 0]
Groups(items) == FoldLeft(Fold, NoGroups, items)
Shown == Groups(IF Filtering(ui) THEN ui.found ELSE ui.items)
Select(p) == p \in (DOMAIN Shown \cup {NoPacket}) \ {ui.selected} /\ ui' = [ui EXCEPT !.selected = p] /\ UNCHANGED <<net, srv, past>>
Detail == IF ui.selected \in DOMAIN Shown THEN ui.selected ELSE NoPacket

Next ==
  \/ \E h \in Handlers : Queue(h) \/ Broadcast(h) \/ \E p \in Packets : Observe(h, p)
  \/ \E p \in Choice : ChooseKind(p) \/ Type(p) \/ Select(p)
  \/ Insert \/ Reload \/ ServeRead \/ ReadLands \/ PushLands \/ FirstOpen \/ Drop \/ Resume \/ Debounce
  \/ ServeQuery \/ QueryLands
Spec == Init /\ [][Next]_vars
-----------------------------------------------------------------------------
Held == {ui.items[i].t : i \in DOMAIN ui.items}
Settled == net.pushes = <<>> /\ srv.queue = <<>> /\ \A h \in Handlers : srv.hand[h] = Idle

\* Connected and at rest the page holds the last Limit observations stored, those missed while the socket was
\* down included, unless the last read was overtaken by a push or came before a queued row, or a push was lost
\* to a full buffer or to a socket not yet open; and no observation twice, unless the last read met its push.
StreamAgrees ==
  /\ net.up = "open" /\ net.read.at = "none" /\ Settled /\ ~past.lost /\ ~past.crossed /\ ~past.gone
       => \A i \in 1..Len(srv.rows) : i > Len(srv.rows) - Limit => srv.rows[i].t \in Held
  /\ ~past.overlap => Cardinality(Held) = Len(ui.items)

\* The row of a packet is the first observation of it that the page holds, whichever list it came by, in which
\* order, with a row id or without one: first by id in the stored history, and by time as well unless two
\* handlers queued their rows in the other order.
OriginIsFirst ==
  \A list \in {ui.items, ui.found} : LET groups == Groups(list) IN \A p \in DOMAIN groups : \A i \in DOMAIN list :
    LET origin == groups[p].origin IN
    list[i].packet = p => /\ BothStored(list[i], origin) /\ list = ui.found => origin.id <= list[i].id
                          /\ ~past.jumbled => origin.t <= list[i].t

\* Once the query of a filter is answered, every row and the packet opened match it.
FilterHolds ==
  /\ Filtering(ui) /\ net.query.at = "none" /\ ~past.unfound => \A p \in DOMAIN Shown : Matches(ui, p)
  /\ Filtering(ui) /\ net.query.at = "none" /\ ~past.unfound /\ Detail # NoPacket => Matches(ui, Detail)
=============================================================================

---------------------------- MODULE PublishedMap ----------------------------
(***************************************************************************)
(* The editor of what a node publishes: channels that carry readings, the  *)
(* trouble found in them, and the save.  The node's page asks it again     *)
(* whether the node still serves, while rows may be half edited.           *)
(***************************************************************************)
EXTENDS Integers, Sequences, FiniteSets, SequencesExt

CONSTANTS MaxChannel,   \* the highest channel (channel 1 is the node's own)
          Budget,       \* the rows that fit in one reply
          MaxEdits,     \* bound: edits
          MaxReloads,   \* bound: times the page asks again whether the node serves
          MaxFaults     \* bound: requests that fail

VARIABLES
  ui,    \* map (loaded, its entries, whether the node serves), channels (as edited), saving, failed
  net,   \* load, refreshes and save, each at "none", "asked" or answered
  srv,   \* entries, serves
  past   \* edits, reloads, faults; edited (since the rows were filled), early (a refresh landed before the load),
         \* crossed (two answers under way at once)

vars == <<ui, net, srv, past>>
SelfChannel == 1
Types == {"own", "wide"}
SelfTypes == {"own"}
Metrics == {"board", "probe"}
Default(m) == IF m = "board" THEN "own" ELSE "wide"
Entry == [channel : 1..MaxChannel, type : Types, metric : Metrics \cup {"unset"}]
Answer == [entries : Seq(Entry), serves : BOOLEAN]
Shown == [loaded : BOOLEAN, entries : Seq(Entry), serves : BOOLEAN]
Nothing == [loaded |-> FALSE, entries |-> <<>>, serves |-> TRUE]
NoCall == [at |-> "none", entries |-> <<>>, serves |-> TRUE]

TypeOK ==
  /\ ui.map \in Shown /\ {ui.saving, ui.failed, past.edited, past.early, past.crossed, srv.serves} \subseteq BOOLEAN
  /\ ui.channels \in Seq([channel : 1..MaxChannel, rows : Seq([type : Types, metric : Metrics \cup {"unset"}])])
  /\ \A c \in {net.load, net.save} \cup net.refreshes :
       c.at \in {"none", "asked", "served", "failed"} /\ [entries |-> c.entries, serves |-> c.serves] \in Answer
  /\ srv.entries \in Seq(Entry)
  /\ past.edits \in 0..MaxEdits /\ past.reloads \in 0..MaxReloads /\ past.faults \in 0..MaxFaults

Init ==
  /\ ui = [map |-> Nothing, channels |-> <<>>, saving |-> FALSE, failed |-> FALSE]
  /\ net = [load |-> [NoCall EXCEPT !.at = "asked"], refreshes |-> {}, save |-> NoCall]
  /\ \E e \in {<<>>, <<[channel |-> 2, type |-> "wide", metric |-> "probe"]>>} : srv = [entries |-> e, serves |-> TRUE]
  /\ past = [edits |-> 0, reloads |-> 0, faults |-> 0, edited |-> FALSE, early |-> FALSE, crossed |-> FALSE]
Fault == past.faults < MaxFaults
Spent == [past EXCEPT !.faults = @ + 1]
-----------------------------------------------------------------------------
\* toChannels and toEntries.
ToEntries(channels) ==
  FlattenSeq([i \in DOMAIN channels |->
    [j \in DOMAIN channels[i].rows |-> [channel |-> channels[i].channel, type |-> channels[i].rows[j].type,
                                        metric |-> channels[i].rows[j].metric]]])
RowOf(e) == [type |-> e.type, metric |-> e.metric]
AddEntry(channels, e) ==
  LET at == {i \in DOMAIN channels : channels[i].channel = e.channel}
  IN IF at = {} THEN Append(channels, [channel |-> e.channel, rows |-> <<RowOf(e)>>])
     ELSE [channels EXCEPT ![CHOOSE i \in at : TRUE].rows = Append(@, RowOf(e))]
ToChannels(entries) == FoldLeft(AddEntry, <<>>, entries)
Dirty == ui.map.loaded /\ ToEntries(ui.channels) # ui.map.entries

\* What keeps the map from being saved: by channel, by row, and by size.
ChannelTrouble(cs, i) ==
  \/ cs[i].rows = <<>> /\ cs[i].channel # SelfChannel
  \/ \E j \in 1..(i - 1) : cs[j].channel = cs[i].channel
RowTrouble(c, j) ==
  \/ c.rows[j].metric = "unset"
  \/ c.channel = SelfChannel /\ c.rows[j].type \notin SelfTypes
  \/ \E k \in 1..(j - 1) : c.rows[k].type = c.rows[j].type
Blocked ==
  \/ \E i \in DOMAIN ui.channels : ChannelTrouble(ui.channels, i) \/ \E j \in DOMAIN ui.channels[i].rows : RowTrouble(ui.channels[i], j)
  \/ Len(ToEntries(ui.channels)) > Budget

\* load, and the refresh that only re-reads whether the node serves.
Filled(u, a) ==
  [u EXCEPT !.map = [loaded |-> TRUE, entries |-> a.entries, serves |-> a.serves], !.channels = ToChannels(a.entries)]
Now(c) == [c EXCEPT !.at = "served", !.entries = srv.entries, !.serves = srv.serves]
ServeLoad ==
  /\ net.load.at = "asked" /\ UNCHANGED <<ui, srv>>
  /\ \/ net' = [net EXCEPT !.load = Now(@)] /\ past' = past
     \/ Fault /\ past' = Spent /\ net' = [net EXCEPT !.load.at = "failed"]
LoadLands ==
  /\ net.load.at \in {"served", "failed"} /\ net' = [net EXCEPT !.load = NoCall] /\ srv' = srv
  /\ IF net.load.at = "served"
     THEN ui' = Filled(ui, net.load) /\ past' = [past EXCEPT !.edited = FALSE, !.early = FALSE]
     ELSE ui' = [ui EXCEPT !.failed = TRUE] /\ past' = past
Retry == ui.failed /\ ui' = [ui EXCEPT !.failed = FALSE] /\ net' = [net EXCEPT !.load.at = "asked"] /\ UNCHANGED <<srv, past>>

UnderWay == net.refreshes # {} \/ net.save.at # "none" \/ net.load.at # "none"
Reload ==
  /\ past.reloads < MaxReloads /\ past' = [past EXCEPT !.reloads = @ + 1, !.crossed = @ \/ UnderWay]
  /\ net' = [net EXCEPT !.refreshes = @ \cup {[NoCall EXCEPT !.at = "asked"]}] /\ UNCHANGED <<ui, srv>>
ServeRefresh(r) ==
  /\ r.at = "asked" /\ UNCHANGED <<ui, srv>>
  /\ \/ net' = [net EXCEPT !.refreshes = (@ \ {r}) \cup {Now(r)}] /\ past' = past
     \/ Fault /\ past' = [Spent EXCEPT !.crossed = TRUE] /\ net' = [net EXCEPT !.refreshes = @ \ {r}]
RefreshLands(r) ==
  /\ r.at = "served" /\ net' = [net EXCEPT !.refreshes = @ \ {r}] /\ srv' = srv
  /\ ui' = [ui EXCEPT !.map = [loaded |-> TRUE, serves |-> r.serves, entries |-> IF @.loaded THEN @.entries ELSE r.entries]]
  /\ past' = [past EXCEPT !.early = @ \/ ~ui.map.loaded]
ServesChanges ==
  /\ srv' = [srv EXCEPT !.serves = ~@] /\ past.reloads < MaxReloads /\ ui' = ui
  /\ past' = [past EXCEPT !.reloads = @ + 1, !.crossed = @ \/ UnderWay] /\ net' = [net EXCEPT !.refreshes = @ \cup {[NoCall EXCEPT !.at = "asked"]}]
-----------------------------------------------------------------------------
Editable == ui.map.loaded /\ ~ui.failed /\ past.edits < MaxEdits
Edit(cs) ==
  /\ Editable /\ ui' = [ui EXCEPT !.channels = cs] /\ past' = [past EXCEPT !.edits = @ + 1, !.edited = TRUE]
  /\ UNCHANGED <<net, srv>>
Used == {ui.channels[i].channel : i \in DOMAIN ui.channels}
Free == (SelfChannel + 1)..MaxChannel \ Used
AddChannel == Free # {} /\ Edit(Append(ui.channels, [channel |-> CHOOSE n \in Free : \A k \in Free : n <= k, rows |-> <<>>]))
\* A row moved to the node's own channel takes the type of its metric, where that is one of the node's.
Moved(r) == IF r.type \notin SelfTypes /\ r.metric # "unset" /\ Default(r.metric) \in SelfTypes THEN [r EXCEPT !.type = Default(r.metric)] ELSE r
SetChannel(i, n) ==
  /\ n \notin Used
  /\ Edit([ui.channels EXCEPT ![i] = [channel |-> n, rows |->
       IF n = SelfChannel THEN [j \in DOMAIN @.rows |-> Moved(@.rows[j])] ELSE @.rows]])
RemoveChannel(i) == Edit(RemoveAt(ui.channels, i))
AddRow(i) ==
  LET c == ui.channels[i]
      offered == IF c.channel = SelfChannel THEN SelfTypes ELSE Types
      free == offered \ {c.rows[j].type : j \in DOMAIN c.rows}
  IN Edit([ui.channels EXCEPT ![i].rows = Append(@, [metric |-> "unset", type |-> CHOOSE t \in (IF free = {} THEN offered ELSE free) : TRUE])])
SetSource(i, j, m) ==
  Edit([ui.channels EXCEPT ![i].rows[j] = [metric |-> m, type |-> IF @.metric = "unset" THEN Default(m) ELSE @.type]])
SetType(i, j, t) == t \in (IF ui.channels[i].channel = SelfChannel THEN SelfTypes ELSE Types) /\ Edit([ui.channels EXCEPT ![i].rows[j].type = t])
RemoveRow(i, j) == Edit([ui.channels EXCEPT ![i].rows = RemoveAt(@, j)])

Save ==
  /\ Dirty /\ ~Blocked /\ ~ui.saving /\ ~ui.failed /\ ui' = [ui EXCEPT !.saving = TRUE]
  /\ net' = [net EXCEPT !.save = [NoCall EXCEPT !.at = "asked", !.entries = ToEntries(ui.channels)]] /\ srv' = srv
  /\ past' = [past EXCEPT !.crossed = @ \/ UnderWay]
ServeSave ==
  /\ net.save.at = "asked" /\ ui' = ui
  /\ \/ /\ srv' = [srv EXCEPT !.entries = net.save.entries] /\ past' = past
        /\ net' = [net EXCEPT !.save.at = "served", !.save.serves = srv.serves]
     \/ Fault /\ past' = Spent /\ srv' = srv /\ net' = [net EXCEPT !.save.at = "failed"]
SaveLands ==
  /\ net.save.at \in {"served", "failed"} /\ net' = [net EXCEPT !.save = NoCall] /\ srv' = srv
  /\ LET u == [ui EXCEPT !.saving = FALSE]
     IN IF net.save.at = "served" THEN ui' = Filled(u, net.save) /\ past' = [past EXCEPT !.edited = FALSE] ELSE ui' = u /\ past' = past

Next ==
  \/ ServeLoad \/ LoadLands \/ Retry \/ Reload \/ ServesChanges \/ AddChannel \/ Save \/ ServeSave \/ SaveLands
  \/ \E r \in net.refreshes : ServeRefresh(r) \/ RefreshLands(r)
  \/ \E i \in DOMAIN ui.channels :
       \/ RemoveChannel(i) \/ AddRow(i)
       \/ \E n \in 1..MaxChannel : SetChannel(i, n)
       \/ \E j \in DOMAIN ui.channels[i].rows :
            RemoveRow(i, j) \/ (\E m \in Metrics : SetSource(i, j, m)) \/ (\E t \in Types : SetType(i, j, t))
Spec == Init /\ [][Next]_vars
-----------------------------------------------------------------------------
\* What is stored is a map the node can answer with: no channel carries one type twice, the node's own
\* channel carries its own types only, every row has a source and the whole fits in a reply.
StoredIsSendable ==
  /\ Len(srv.entries) <= Budget
  /\ \A i, j \in DOMAIN srv.entries :
       /\ srv.entries[i].metric # "unset"
       /\ srv.entries[i].channel = SelfChannel => srv.entries[i].type \in SelfTypes
       /\ i # j => [channel |-> srv.entries[i].channel, type |-> srv.entries[i].type]
                     # [channel |-> srv.entries[j].channel, type |-> srv.entries[j].type]

\* Rows say "unsaved" only when they were edited, unless the page's refresh answered before the first load:
\* nothing the reader did not change is sent.
UnsavedMeansEdited == Dirty /\ ~past.early => past.edited

\* At rest, whether the node serves is what it does, unless two answers crossed.
ServesAgrees == ui.map.loaded /\ ~UnderWay /\ ~past.crossed => ui.map.serves = srv.serves
=============================================================================

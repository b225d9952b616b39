------------------------------ MODULE MqttFeed ------------------------------
(***************************************************************************)
(* The MQTT page: the feed's form, filled from the settings it reads, the  *)
(* node it speaks as, the list of brokers and the editor of one, and the   *)
(* status polled while the page is open.  The first broker of a feed that  *)
(* has no node saves the feed too.                                         *)
(***************************************************************************)
EXTENDS Integers, FiniteSets

CONSTANTS Brokers, NoBroker,
          MaxSaves,   \* bound: feeds and brokers saved or removed
          MaxEdits,   \* bound: fields edited
          MaxPolls,   \* bound: changes of the observer's status
          MaxFaults   \* bound: requests that fail

VARIABLES
  ui,    \* feed (node, field; as the form shows it), loaded (the settings read), nodes (the companions read),
         \* list, editing, host (the editor's draft), savingFeed, saving, status (the last one shown)
  net,   \* settings, companions and brokers (reads), put (the feed's save), save (the editor's), removals, polls
  srv,   \* node, field, brokers, and now (the observer's status)
  past   \* saves, edits, faults, touched (edits not filled over), blind (a broker saved before the nodes are known),
         \* lost (the settings were not read), unlisted (nor the brokers)

vars == <<ui, net, srv, past>>
Nodes == {"none", "n1", "n2"}
Fields == {"good", "bad"}
Feed == [node : Nodes, field : Fields]
Unread == [at |-> "none", feed |-> [node |-> "none", field |-> "good"]]
Unlisted == [at |-> "none", list |-> {}]
NoSave == [at |-> "none", feed |-> [node |-> "none", field |-> "good"], broker |-> NoBroker]

TypeOK ==
  /\ {ui.feed, ui.loaded.feed, net.put.feed, net.save.feed, net.settings.feed} \subseteq Feed
  /\ {ui.loaded.at, net.settings.at, net.put.at} \subseteq {"none", "asked", "served", "failed"}
  /\ net.save.at \in {"none", "feed", "broker", "saved", "failed"} /\ net.save.broker \in Brokers \cup {NoBroker}
  /\ ui.list \subseteq Brokers /\ srv.brokers \subseteq Brokers /\ ui.editing \in Brokers \cup {NoBroker}
  /\ {ui.nodes, ui.host, ui.savingFeed, ui.saving, net.companions} \subseteq BOOLEAN
  /\ [node |-> srv.node, field |-> srv.field] \in Feed /\ {ui.status, srv.now} \subseteq 0..MaxPolls
  /\ net.polls \subseteq [n : 0..MaxPolls] /\ net.removals \subseteq [broker : Brokers, at : {"asked", "served"}]
  /\ {past.touched, past.blind, past.lost, past.unlisted} \subseteq BOOLEAN
  /\ past.saves \in 0..MaxSaves /\ past.edits \in 0..MaxEdits /\ past.faults \in 0..MaxFaults

Init ==
  /\ ui = [feed |-> Unread.feed, loaded |-> Unread, nodes |-> FALSE, list |-> {}, editing |-> NoBroker, host |-> FALSE,
           savingFeed |-> FALSE, saving |-> FALSE, status |-> 0]
  /\ net = [settings |-> [Unread EXCEPT !.at = "asked"], companions |-> TRUE,
            brokers |-> [Unlisted EXCEPT !.at = "asked"], put |-> Unread, save |-> NoSave, removals |-> {}, polls |-> {}]
  /\ \E n \in {"none", "n2"} : srv = [node |-> n, field |-> "good", brokers |-> {}, now |-> 0]
  /\ past = [saves |-> 0, edits |-> 0, faults |-> 0, touched |-> FALSE, blind |-> FALSE, lost |-> FALSE,
             unlisted |-> FALSE]
Fault == past.faults < MaxFaults
Spent == [past EXCEPT !.faults = @ + 1]
Lost == [Spent EXCEPT !.lost = TRUE]
Stored == [node |-> srv.node, field |-> srv.field]
-----------------------------------------------------------------------------
\* The form is filled whenever the settings are read; the node defaults to the first one known.
Defaulted(u) == IF u.feed.node = "none" /\ u.nodes THEN [u EXCEPT !.feed.node = "n1"] ELSE u
Filled(u, f) == Defaulted([u EXCEPT !.feed = f, !.loaded = [at |-> "served", feed |-> f]])
ServeSettings ==
  /\ net.settings.at = "asked" /\ UNCHANGED <<ui, srv>>
  /\ \/ net' = [net EXCEPT !.settings = [at |-> "served", feed |-> Stored]] /\ past' = past
     \/ Fault /\ past' = Lost /\ net' = [net EXCEPT !.settings = Unread]
SettingsLand ==
  /\ net.settings.at = "served" /\ ui' = Filled(ui, net.settings.feed) /\ net' = [net EXCEPT !.settings = Unread]
  /\ past' = [past EXCEPT !.touched = FALSE, !.lost = FALSE] /\ srv' = srv
CompanionsLand ==
  /\ net.companions /\ net' = [net EXCEPT !.companions = FALSE] /\ srv' = srv
  /\ \/ ui' = Defaulted([ui EXCEPT !.nodes = TRUE]) /\ past' = past
     \/ Fault /\ past' = Spent /\ ui' = ui
ServeBrokers ==
  /\ net.brokers.at = "asked" /\ UNCHANGED <<ui, srv>>
  /\ \/ net' = [net EXCEPT !.brokers = [at |-> "served", list |-> srv.brokers]] /\ past' = past
     \/ Fault /\ past' = [Spent EXCEPT !.unlisted = TRUE] /\ net' = [net EXCEPT !.brokers = Unlisted]
BrokersLand ==
  /\ net.brokers.at = "served" /\ ui' = [ui EXCEPT !.list = net.brokers.list]
  /\ net' = [net EXCEPT !.brokers = Unlisted] /\ past' = [past EXCEPT !.unlisted = FALSE] /\ srv' = srv
Reread(n) == [n EXCEPT !.settings = [Unread EXCEPT !.at = "asked"]]
Relist(n) == [n EXCEPT !.brokers = [Unlisted EXCEPT !.at = "asked"]]
\* The button of the alert asks again for what failed.
Retry ==
  LET settings == past.lost /\ net.settings.at = "none"
      brokers == past.unlisted /\ net.brokers.at = "none"
      companions == ~ui.nodes /\ ~net.companions
      n == IF settings THEN Reread(net) ELSE net
      m == IF brokers THEN Relist(n) ELSE n
  IN /\ settings \/ brokers \/ companions
     /\ net' = [m EXCEPT !.companions = companions \/ @] /\ UNCHANGED <<ui, srv, past>>

\* A page that loads draws a skeleton: nothing on it is edited.
Ready == ui.loaded.at = "served" /\ net.settings.at = "none" /\ net.brokers.at = "none"
EditFeed(f) ==
  /\ Ready /\ past.edits < MaxEdits /\ ui' = Defaulted([ui EXCEPT !.feed = f])
  /\ past' = [past EXCEPT !.edits = @ + 1, !.touched = TRUE] /\ UNCHANGED <<net, srv>>

\* saveFeed.
Invalid(f) == f.field = "bad"
CanSave == ~ui.savingFeed /\ Ready /\ ui.nodes /\ ~Invalid(ui.feed)
SaveFeed ==
  /\ CanSave /\ ui.editing = NoBroker /\ past.saves < MaxSaves /\ ui' = [ui EXCEPT !.savingFeed = TRUE]
  /\ net' = [net EXCEPT !.put = [at |-> "asked", feed |-> ui.feed]]
  /\ past' = [past EXCEPT !.saves = @ + 1] /\ srv' = srv
ServePut ==
  /\ net.put.at = "asked" /\ ui' = ui
  /\ \/ /\ srv' = [srv EXCEPT !.node = net.put.feed.node, !.field = net.put.feed.field]
        /\ net' = [net EXCEPT !.put.at = "served"] /\ past' = past
     \/ Fault /\ past' = Spent /\ srv' = srv /\ net' = [net EXCEPT !.put.at = "failed"]
PutLands ==
  /\ net.put.at \in {"served", "failed"} /\ ui' = [ui EXCEPT !.savingFeed = FALSE] /\ UNCHANGED <<srv, past>>
  /\ LET n == [net EXCEPT !.put = Unread] IN net' = IF net.put.at = "served" THEN Reread(n) ELSE n
-----------------------------------------------------------------------------
\* The feed that the first broker saves: none is stored, and the page shows one.
PendingNode == ui.loaded.at = "served" /\ ui.loaded.feed.node = "none" /\ ui.nodes /\ ui.feed.node # "none"
OpenEditor(b) ==
  /\ Ready /\ ui.editing = NoBroker /\ ui' = [ui EXCEPT !.editing = b, !.host = FALSE, !.saving = FALSE]
  /\ UNCHANGED <<net, srv, past>>
CloseEditor == ui.editing # NoBroker /\ ui' = [ui EXCEPT !.editing = NoBroker] /\ UNCHANGED <<net, srv, past>>
EditBroker == ui.editing # NoBroker /\ ui' = [ui EXCEPT !.host = TRUE] /\ UNCHANGED <<net, srv, past>>
Submit ==
  /\ ui.editing # NoBroker /\ ui.host /\ ~ui.saving /\ ~(PendingNode /\ Invalid(ui.feed))
  /\ net.save = NoSave /\ past.saves < MaxSaves /\ ui' = [ui EXCEPT !.saving = TRUE] /\ srv' = srv
  /\ net' = [net EXCEPT !.save = [at |-> IF PendingNode THEN "feed" ELSE "broker", feed |-> ui.feed,
                                  broker |-> ui.editing]]
  /\ past' = [past EXCEPT !.saves = @ + 1, !.blind = @ \/ ~ui.nodes]
\* The feed first, and the broker only once it is stored.
ServeSave ==
  /\ net.save.at \in {"feed", "broker"} /\ ui' = ui
  /\ \/ /\ net.save.at = "feed" /\ srv' = [srv EXCEPT !.node = net.save.feed.node, !.field = net.save.feed.field]
        /\ net' = Reread([net EXCEPT !.save.at = "broker"]) /\ past' = past
     \/ /\ net.save.at = "broker" /\ srv' = [srv EXCEPT !.brokers = @ \cup {net.save.broker}]
        /\ net' = [net EXCEPT !.save.at = "saved"] /\ past' = past
     \/ Fault /\ past' = Spent /\ srv' = srv /\ net' = [net EXCEPT !.save.at = "failed"]
SaveLands ==
  /\ net.save.at \in {"saved", "failed"} /\ UNCHANGED <<srv, past>>
  /\ LET n == [net EXCEPT !.save = NoSave] IN net' = IF net.save.at = "saved" THEN Relist(n) ELSE n
  /\ ui' = IF net.save.at = "saved" THEN [ui EXCEPT !.editing = NoBroker] ELSE [ui EXCEPT !.saving = FALSE]

RemoveBroker(b) ==
  /\ Ready /\ ui.editing = NoBroker /\ b \in ui.list /\ past.saves < MaxSaves /\ past' = [past EXCEPT !.saves = @ + 1]
  /\ net' = [net EXCEPT !.removals = @ \cup {[broker |-> b, at |-> "asked"]}] /\ UNCHANGED <<ui, srv>>
ServeRemoval(r) ==
  /\ r.at = "asked" /\ ui' = ui
  /\ \/ /\ srv' = [srv EXCEPT !.brokers = @ \ {r.broker}] /\ past' = past
        /\ net' = [net EXCEPT !.removals = (@ \ {r}) \cup {[r EXCEPT !.at = "served"]}]
     \/ Fault /\ past' = Spent /\ srv' = srv /\ net' = [net EXCEPT !.removals = @ \ {r}]
RemovalLands(r) ==
  r.at = "served" /\ net' = Relist([net EXCEPT !.removals = @ \ {r}]) /\ UNCHANGED <<ui, srv, past>>

\* poll: one at a time; the interval passes over a slow one.
Poll == net.polls = {} /\ net' = [net EXCEPT !.polls = @ \cup {[n |-> srv.now]}] /\ UNCHANGED <<ui, srv, past>>
PollLands(x) ==
  /\ net' = [net EXCEPT !.polls = @ \ {x}] /\ ui' = [ui EXCEPT !.status = x.n] /\ UNCHANGED <<srv, past>>
StatusChanges == srv.now < MaxPolls /\ srv' = [srv EXCEPT !.now = @ + 1] /\ UNCHANGED <<ui, net, past>>

Next ==
  \/ ServeSettings \/ SettingsLand \/ CompanionsLand \/ Retry \/ ServeBrokers \/ BrokersLand \/ SaveFeed \/ ServePut
  \/ PutLands \/ CloseEditor \/ EditBroker \/ Submit \/ ServeSave \/ SaveLands \/ Poll \/ StatusChanges
  \/ \E f \in [node : {"n1", "n2"}, field : Fields] : EditFeed(f)
  \/ \E b \in Brokers : OpenEditor(b) \/ RemoveBroker(b)
  \/ \E r \in net.removals : ServeRemoval(r) \/ RemovalLands(r)
  \/ \E x \in net.polls : PollLands(x)
Spec == Init /\ [][Next]_vars
-----------------------------------------------------------------------------
\* A broker is never stored for a feed that has no node to speak as, and no feed that is not valid is
\* stored with one; unless it was saved before the page knew of any node.
NodeBeforeBroker == srv.brokers # {} /\ ~past.blind => srv.node # "none" /\ srv.field # "bad"

\* At rest, a form not edited since it was filled shows the feed stored, and the list the brokers stored;
\* unless the last read of them failed, which the page says.
PageAgrees ==
  /\ net.settings.at = "none" /\ net.put.at = "none" /\ net.save.at = "none" /\ ~past.lost /\ ~past.touched
       => ui.feed = [Stored EXCEPT !.node = IF @ = "none" /\ ui.nodes THEN "n1" ELSE @]
  /\ net.brokers.at = "none" /\ net.save.at = "none" /\ net.removals = {} /\ ~past.unlisted => ui.list = srv.brokers

\* The status shown never goes back in time.
StatusForward == ui'.status >= ui.status
=============================================================================

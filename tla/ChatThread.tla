----------------------------- MODULE ChatThread -----------------------------
(***************************************************************************)
(* The open thread of the chat page (pages/CompanionDetailPage.tsx): the   *)
(* messages on screen, the per-channel cache behind them, the fetches that *)
(* fill both, the pushes that update both, and deleting, retrying and      *)
(* clearing (the roster and the read marks are in ChatRoster).  One state  *)
(* change stands for a handler and the effects React runs after the render *)
(* it causes; between a request and the landing of its answer everything   *)
(* else may happen.                                                        *)
(*                                                                         *)
(* A message is its row id and, for the reader, its status; the messages   *)
(* of a thread are a function from ids to statuses, in id order.           *)
(***************************************************************************)
EXTENDS Integers, FiniteSets, FiniteSetsExt, Sequences, TLC

CONSTANTS Channels,   \* conversations of the companion
          MaxId,      \* bound: rows the server ever stores
          Page,       \* limit=100 of one fetch
          BackfillPage, \* limit=500 of one backfill
          Start,      \* the socket as the page starts: "first", or "open" when nothing happens before it is
          MaxLoads,   \* bound: requests in flight
          MaxStream,  \* bound: pushes on their way
          MaxTrouble  \* bound: failed requests, lost pushes and connections, and messages removed, together

VARIABLES
  row,        \* row[i]: [ch, st] of the stored message i, or NoRow
  next,       \* the next row id
  up,         \* the socket: "first" before it has opened once, then "open" and subscribed, or "down"
  stream,     \* pushes on their way to the page
  trouble,    \* how much of MaxTrouble is spent
  active,     \* the channel in the URL, or None
  view,       \* messages
  cache,      \* messageCacheRef: channel -> messages, or Unloaded
  atStart,    \* reachedStartRef
  loading,    \* loadingMsgs
  net,        \* requests in flight
  strayed,    \* ghost: an answer for another channel reached the screen, or this one's load failed
  behind,     \* ghost: channels that missed the push of a message, until a fetch brings it
  tainted     \* ghost: channels that met one of the races named below

vars == <<row, next, up, stream, trouble, active, view, cache, atStart, loading,
          net, strayed, behind, tainted>>
server == <<row, next>>
socket == <<up, stream>>

None == "none"
NoRow == [ch |-> None, st |-> "gone"]
Ids == 1..MaxId
Statuses == {"sending", "done"}
Empty == [i \in {} |-> "done"]
Unloaded == [i \in {0} |-> "done"]

\* The rows of a channel, and an answer that carries some of them.
RowsOf(c) == {i \in Ids : row[i].ch = c}
Answer(S) == [i \in S |-> row[i].st]
Newest(S, n) == {i \in S : Cardinality({j \in S : j > i}) < n}
Oldest(S, n) == {i \in S : Cardinality({j \in S : j < i}) < n}
\* What a channel has beyond an id, all of which one backfill may be too small for.
After(c, i) == {j \in RowsOf(c) : j > i}

\* mergeMessages: an incoming message replaces the one with its id; a new one is added.
MergeMessages(existing, incoming) == incoming @@ existing
\* The bug of an update taken to be about the newest message.
MapNewest(msgs, i, s) == [j \in DOMAIN msgs |-> IF j = i /\ i = Max(DOMAIN msgs) THEN s ELSE msgs[j]]
\* mapChanged: an update for a message that is not loaded changes nothing.
MapChanged(msgs, i, s) == [j \in DOMAIN msgs |-> IF j = i THEN s ELSE msgs[j]]
Without(msgs, i) == [j \in DOMAIN msgs \ {i} |-> msgs[j]]
LastIdOf(msgs) == IF DOMAIN msgs = {} THEN 0 ELSE Max(DOMAIN msgs)
Cached(c) == cache[c] # Unloaded
Larger(m, n) == IF m > n THEN m ELSE n

Kinds == {"initial", "backfill", "older", "delete", "retry"}
\* had is the cache as the request was made, clean says that nothing happened to the channel since.
Request(k, c, h, i) == [kind |-> k, ch |-> c, had |-> h, id |-> i, got |-> "asked", data |-> Empty, clean |-> TRUE]
Loads == {q \in net : q.kind \in {"initial", "backfill", "older"}}
LoadingOlder == \E q \in net : q.kind = "older"
Touched(N, c) == {IF q.ch = c THEN [q EXCEPT !.clean = FALSE] ELSE q : q \in N}

IsMessages(f) == DOMAIN f \subseteq Ids /\ \A i \in DOMAIN f : f[i] \in Statuses
TypeOK ==
  /\ row \in [Ids -> [ch : Channels, st : Statuses] \cup {NoRow}]
  /\ next \in 1..(MaxId + 1) /\ up \in {"first", "open", "down"} /\ trouble \in 0..MaxTrouble
  /\ \A k \in DOMAIN stream : stream[k].act \in {"new", "status"} /\ stream[k].id \in Ids
  /\ active \in Channels \cup {None} /\ IsMessages(view)
  /\ \A c \in Channels : Cached(c) => IsMessages(cache[c])
  /\ atStart \subseteq Channels /\ loading \in BOOLEAN /\ strayed \in BOOLEAN
  /\ \A q \in net : q.kind \in Kinds /\ q.ch \in Channels /\ q.got \in {"asked", "ok", "failed"} /\ IsMessages(q.data)
  /\ behind \subseteq Channels /\ tainted \subseteq Channels
  /\ Cardinality({q \in net : q.kind = "older"}) <= 1

Init ==
  /\ row = [i \in Ids |-> NoRow] /\ next = 1
  /\ up = Start /\ stream = <<>> /\ trouble = 0
  /\ active = None /\ view = Empty /\ cache = [c \in Channels |-> Unloaded]
  /\ atStart = {} /\ loading = FALSE /\ net = {}
  /\ strayed = FALSE /\ behind = {} /\ tainted = {}

-----------------------------------------------------------------------------
\* initialLoadMessages, which backfillMessages falls back to when nothing is cached.
InitialLoad(c) == Request("initial", c, Empty, 0)
Backfill(c) ==
  IF Cached(c) /\ LastIdOf(cache[c]) > 0 THEN Request("backfill", c, cache[c], LastIdOf(cache[c]))
  ELSE InitialLoad(c)

Spend == trouble < MaxTrouble /\ trouble' = trouble + 1
\* Bound: no two fetches of one kind for one channel at once.
MayLoad(q) == Cardinality(Loads) < MaxLoads /\ \A p \in Loads : p.ch = q.ch => p.kind # q.kind

\* setSearchParams({channel}): the effect on activeChannel shows the cache and backfills, or loads.
OpenChannel(c) ==
  /\ c # active /\ MayLoad(Backfill(c))
  /\ active' = c
  /\ loading' = (~Cached(c) \/ LastIdOf(cache[c]) = 0)
  /\ view' = IF Cached(c) THEN cache[c] ELSE view
  /\ strayed' = IF Cached(c) THEN FALSE ELSE strayed
  /\ net' = net \cup {Backfill(c)}
  /\ UNCHANGED <<server, socket, trouble, cache, atStart, behind, tainted>>

\* closeChat: no channel, no messages.
CloseChat ==
  /\ active # None
  /\ active' = None /\ view' = Empty /\ strayed' = FALSE
  /\ UNCHANGED <<server, socket, trouble, cache, atStart, loading, net, behind, tainted>>

\* handleMessagesScroll near the top, and loadOlderMessages below the smallest cached id.
ScrollToTop ==
  /\ active # None /\ ~LoadingOlder /\ ~loading /\ active \notin atStart
  /\ Cached(active) /\ LastIdOf(cache[active]) > 0 /\ Cardinality(Loads) < MaxLoads
  /\ net' = net \cup {Request("older", active, cache[active], Min(DOMAIN cache[active]))}
  /\ UNCHANGED <<server, socket, trouble, active, view, cache, atStart, loading, strayed, behind, tainted>>

\* handleDelete and handleRetry (of a message that was sent) on a message on screen.
AskRemove(kind, i) ==
  /\ Spend
  /\ active # None /\ ~loading /\ i \in DOMAIN view /\ row[i].ch # None
  /\ kind = "retry" => view[i] = "done" /\ next <= MaxId
  /\ net' = net \cup {Request(kind, row[i].ch, Empty, i)}
  /\ UNCHANGED <<server, socket, active, view, cache, atStart, loading, strayed,
                 behind, tainted>>

\* onMessagesCleared, when the header menu has cleared the thread on the server.
MessagesCleared ==
  /\ active # None /\ Spend
  /\ row' = [i \in Ids |-> IF row[i].ch = active THEN NoRow ELSE row[i]]
  /\ view' = Empty /\ strayed' = FALSE
  /\ cache' = [cache EXCEPT ![active] = Unloaded] /\ atStart' = atStart \ {active}
  /\ net' = Touched(net, active)
  /\ tainted' = tainted \cup {active}
  /\ UNCHANGED <<next, socket, active, loading, behind>>

-----------------------------------------------------------------------------
\* The server stores a message, ours ("sending", one at a time here) or received, or settles one of
\* ours, and pushes it: the push is lost without a socket, and when the hub finds its buffer full.
Push(e) ==
  \/ up = "open" /\ stream' = Append(stream, e) /\ UNCHANGED <<trouble, net, behind, tainted>>
  \/ /\ IF up = "open" THEN Spend ELSE trouble' = trouble
     /\ stream' = stream /\ net' = Touched(net, e.ch)
     /\ behind' = IF e.act = "new" THEN behind \cup {e.ch} ELSE behind
     /\ tainted' = IF e.act = "status" THEN tainted \cup {e.ch} ELSE tainted

Store(c, s) ==
  /\ next <= MaxId /\ Len(stream) < MaxStream
  /\ s = "sending" => \A i \in Ids : row[i].st # "sending"
  /\ row' = [row EXCEPT ![next] = [ch |-> c, st |-> s]] /\ next' = next + 1
  /\ Push([act |-> "new", id |-> next, ch |-> c, st |-> s])
  /\ UNCHANGED <<up, active, view, cache, atStart, loading, strayed>>
Settle(i) ==
  /\ row[i].st = "sending" /\ Len(stream) < MaxStream
  /\ row' = [row EXCEPT ![i].st = "done"]
  /\ Push([act |-> "status", id |-> i, ch |-> row[i].ch, st |-> "done"])
  /\ UNCHANGED <<next, up, active, view, cache, atStart, loading, strayed>>

\* What a fetch answers is fixed when the server reads its tables, and lands later.
Served(q) ==
  CASE q.kind = "initial"  -> Answer(Newest(RowsOf(q.ch), Page))
    [] q.kind = "backfill" -> Answer(Oldest(After(q.ch, q.id), BackfillPage))
    [] q.kind = "older"    -> Answer(Newest({i \in RowsOf(q.ch) : i < q.id}, Page))
Serve(q) ==
  /\ q \in Loads /\ q.got = "asked"
  /\ \/ net' = (net \ {q}) \cup {[q EXCEPT !.got = "ok", !.data = Served(q)]} /\ trouble' = trouble
     \/ net' = (net \ {q}) \cup {[q EXCEPT !.got = "failed"]} /\ Spend
  /\ UNCHANGED <<server, socket, active, view, cache, atStart, loading, strayed, behind, tainted>>

-----------------------------------------------------------------------------
\* An answer becomes the cache and the screen.  The closures compare its channel with the
\* activeChannel of the render that asked, which is that channel: it is shown whatever is active now.
Show(q, msgs) ==
  /\ cache' = [cache EXCEPT ![q.ch] = msgs]
  /\ view' = msgs /\ net' = Touched(net \ {q}, q.ch)
  /\ strayed' = (q.ch # active)
  /\ tainted' = IF q.clean THEN tainted ELSE tainted \cup {q.ch}
Nothing(q) == net' = net \ {q} /\ UNCHANGED <<cache, view, tainted>>

LandInitial(q) ==
  /\ q.kind = "initial" /\ q.got # "asked"
  /\ loading' = FALSE
  /\ IF q.got = "failed" THEN Nothing(q) /\ strayed' = TRUE ELSE Show(q, q.data)
  /\ behind' = IF q.got = "ok" /\ q.clean THEN behind \ {q.ch} ELSE behind
  /\ UNCHANGED <<server, socket, trouble, active, atStart>>

LandBackfill(q) ==
  /\ q.kind = "backfill" /\ q.got # "asked"
  /\ IF q.got = "failed" \/ q.data = Empty
       THEN /\ net' = net \ {q} /\ UNCHANGED <<cache, view, strayed>>
            /\ tainted' = IF q.got = "failed" /\ q.ch \in behind THEN tainted \cup {q.ch} ELSE tainted
       ELSE Show(q, MergeMessages(q.had, q.data))
  /\ behind' = IF q.got = "ok" /\ q.clean /\ After(q.ch, q.id) \subseteq DOMAIN q.data
                 THEN behind \ {q.ch} ELSE behind
  /\ UNCHANGED <<server, socket, trouble, active, atStart, loading>>

LandOlder(q) ==
  /\ q.kind = "older" /\ q.got # "asked"
  /\ IF q.got = "failed" \/ q.data = Empty THEN Nothing(q) /\ strayed' = strayed
     ELSE Show(q, MergeMessages(q.data, q.had))
  /\ atStart' = IF q.got = "ok" /\ Cardinality(DOMAIN q.data) < Page THEN atStart \cup {q.ch} ELSE atStart
  /\ UNCHANGED <<server, socket, trouble, active, loading, behind>>

\* handleDelete and handleRetry, answered: the message leaves the screen and its channel's cache.
\* Either may be carried out with its answer lost, and a retry deletes the old row before it sends (a
\* Store), so one that fails may have deleted it.
LandRemove(q) ==
  /\ q.kind \in {"delete", "retry"}
  /\ \/ /\ row' = [row EXCEPT ![q.id] = NoRow]
        /\ cache' = IF Cached(q.ch) THEN [cache EXCEPT ![q.ch] = Without(@, q.id)] ELSE cache
        /\ view' = Without(view, q.id) /\ net' = Touched(net \ {q}, q.ch)
        /\ tainted' = IF \E k \in DOMAIN stream : stream[k].id = q.id THEN tainted \cup {q.ch} ELSE tainted
     \/ /\ row' = row /\ Nothing(q)
     \/ /\ row' = [row EXCEPT ![q.id] = NoRow]
        /\ net' = net \ {q} /\ tainted' = tainted \cup {q.ch}
        /\ UNCHANGED <<cache, view>>
  /\ UNCHANGED <<next, socket, trouble, active, atStart, loading, strayed, behind>>

Land(q) == LandInitial(q) \/ LandBackfill(q) \/ LandOlder(q) \/ LandRemove(q)

\* handleWsMessage: a new message, or a status, for the cache of its channel and for the screen.
HandleWsMessage ==
  /\ stream # <<>>
  /\ LET e == Head(stream)
         Update(msgs) == IF e.act = "new" THEN MergeMessages(msgs, e.id :> e.st) ELSE MapChanged(msgs, e.id, e.st)
     IN /\ stream' = Tail(stream)
        /\ cache' = IF Cached(e.ch) THEN [cache EXCEPT ![e.ch] = Update(@)] ELSE cache
        /\ view' = IF e.ch = active THEN Update(view) ELSE view
        /\ net' = Touched(net, e.ch)
        /\ tainted' = IF e.ch \in behind THEN tainted \cup {e.ch} ELSE tainted
  /\ UNCHANGED <<server, up, trouble, active, atStart, loading, strayed, behind>>

\* The connection goes, with whatever was on its way.
Drop ==
  /\ up = "open" /\ up' = "down" /\ Spend /\ stream' = <<>>
  /\ LET lost(a) == {stream[k].ch : k \in {j \in DOMAIN stream : stream[j].act = a}} IN
     /\ behind' = behind \cup lost("new") /\ tainted' = tainted \cup lost("status")
     /\ net' = {IF q.ch \in lost("new") THEN [q EXCEPT !.clean = FALSE] ELSE q : q \in net}
  /\ UNCHANGED <<server, active, view, cache, atStart, loading, strayed>>
\* It is back, or the tab is shown again with the socket still up: useResume backfills the open thread
\* (and the roster, see ChatRoster).
Resume ==
  /\ up # "first" /\ up' = "open" /\ (up = "open" => active # None)
  /\ active # None => MayLoad(Backfill(active))
  /\ net' = IF active = None THEN net ELSE net \cup {Backfill(active)}
  /\ loading' = IF active # None /\ Backfill(active).kind = "initial" THEN TRUE ELSE loading
  /\ UNCHANGED <<server, stream, trouble, active, view, cache, atStart,
                 strayed, behind, tainted>>

\* The first open re-reads nothing (useWebSocket.ts:57).
FirstOpen ==
  /\ up = "first" /\ up' = "open"
  /\ UNCHANGED <<server, stream, trouble, active, view, cache, atStart, loading, net, strayed, behind, tainted>>

Next ==
  \/ \E c \in Channels : OpenChannel(c)
  \/ \E c \in Channels, s \in Statuses : Store(c, s)
  \/ \E i \in Ids : Settle(i) \/ AskRemove("delete", i) \/ AskRemove("retry", i)
  \/ \E q \in net : Serve(q) \/ Land(q)
  \/ CloseChat \/ ScrollToTop \/ MessagesCleared \/ HandleWsMessage \/ FirstOpen \/ Drop \/ Resume

Spec == Init /\ [][Next]_vars
-----------------------------------------------------------------------------
\* What is on screen: nothing while a skeleton stands in for the messages.
Screen == IF loading \/ active = None THEN Empty ELSE view

\* Only the open thread's messages are on screen, unless the answer for a thread the reader has left
\* arrived after the switch, or the load of this one failed.
OwnThread == strayed \/ \A i \in DOMAIN Screen : row[i].ch \in {active, None}

\* With nothing in flight the open thread is exactly what the server holds from its oldest message
\* on: none is missing, none is gone from the server, none has an old status.  What breaks this is
\* only the races that taint a channel, and a push lost that no fetch has made up for yet: with the
\* socket down the resume does, unless it missed more than one backfill brings.
Quiet == up = "open" /\ stream = <<>> /\ (\A q \in net : q.ch # active)
CaughtUp ==
  active # None /\ Quiet /\ ~strayed /\ ~loading /\ active \notin tainted \cup behind /\ view # Empty
    => view = Answer({i \in RowsOf(active) : i >= Min(DOMAIN view)})

\* "Other channels catch up on re-open, via the same backfill": a thread that missed messages while
\* the stream was down holds them once it was opened again and its backfill has landed.
OtherChannelsCatchUp ==
  active # None /\ Quiet /\ ~strayed /\ ~loading /\ view # Empty
    => RowsOf(active) \ DOMAIN view \subseteq 1..Min(DOMAIN view)
=============================================================================

----------------------------- MODULE ChatRoster -----------------------------
(***************************************************************************)
(* The thread list of the chat page and its read marks: loadConversations, *)
(* which no sequence number guards, the rows that pushes update, and the   *)
(* effect that reports the open thread as read.  Of the thread itself only *)
(* the highest id on screen is kept (ChatThread has the rest).             *)
(***************************************************************************)
EXTENDS Integers, FiniteSets, FiniteSetsExt, Sequences

CONSTANTS Channels,    \* conversations of the companion
          Configured,  \* those the server lists with no message in them
          MaxId,       \* bound: rows the server ever stores
          Start,       \* the socket as the page starts: "first", or "open" when nothing happens before it is
          MaxLoads,    \* bound: roster fetches in flight
          MaxTrouble   \* bound: failed requests, lost pushes and lost connections, together

VARIABLES
  ui,    \* the page: active, top (highest id in messages), opening, convs, loading, error, reported
  net,   \* on its way: roster loads, read posts, the pushes' stream, and the socket (see ChatThread)
  srv,   \* the server: row[i] of each stored message, and conversation_reads.last_read_id
  past   \* trouble spent, threads gone astray, threads that missed a push no fetch of theirs has made up
         \* for, and whether a roster crossed something on its way or one has missed a push since

vars == <<ui, net, srv, past>>

\* Configured is a subset of Channels.

None == "none"
NoRow == [ch |-> None, dir |-> "rx"]
Unlisted == [unread |-> 0, last |-> -1]
Ids == 1..MaxId
Stored == {i \in Ids : srv.row[i] # NoRow}
RowsOf(c) == {i \in Ids : srv.row[i].ch = c}
Larger(m, n) == IF m > n THEN m ELSE n
LastIdOf(S) == IF S = {} THEN 0 ELSE Max(S)

\* What the server counts for a thread, and the roster it answers.
Unread(c) == Cardinality({i \in RowsOf(c) : srv.row[i].dir = "rx" /\ i > srv.lastRead[c]})
Roster == [c \in Channels |->
  IF c \in Configured \/ RowsOf(c) # {} THEN [unread |-> Unread(c), last |-> LastIdOf(RowsOf(c))] ELSE Unlisted]
Known(c) == ui.convs[c] # Unlisted

Load == [silent : BOOLEAN, got : {"asked", "ok", "failed"}, clean : BOOLEAN,
         list : [Channels -> [unread : 0..MaxId, last : -1..MaxId]]]
TypeOK ==
  /\ srv.row \in [Ids -> [ch : Channels \cup {None}, dir : {"rx", "tx"}]]
  /\ srv.lastRead \in [Channels -> 0..MaxId] /\ ui.reported \in [Channels -> 0..MaxId]
  /\ ui.active \in Channels \cup {None} /\ ui.top \in 0..MaxId
  /\ \A c \in Channels : ui.convs[c].last \in -1..MaxId /\ ui.convs[c].unread \in 0..(2 * MaxId)
  /\ {ui.loading, ui.error, ui.opening, past.crossed} \subseteq BOOLEAN
  /\ net.up \in {"first", "open", "down"}
  /\ \A q \in net.loads : q \in Load
  /\ net.posts \subseteq Channels \X Ids /\ net.stream \in Seq(Ids)
  /\ past.trouble \in 0..MaxTrouble /\ {past.astray, past.missed} \subseteq SUBSET Channels

\* clean: nothing has happened to the roster since the request.
Fetch(silent) == [silent |-> silent, got |-> "asked", clean |-> TRUE, list |-> [c \in Channels |-> Unlisted]]
Touched(L) == {[q EXCEPT !.clean = FALSE] : q \in L}
Spent == past.trouble + 1
CanSpend == past.trouble < MaxTrouble

\* The page mounts and loads the roster.
Init ==
  /\ ui = [active |-> None, top |-> 0, opening |-> FALSE, convs |-> [c \in Channels |-> Unlisted],
           loading |-> TRUE, error |-> FALSE, reported |-> [c \in Channels |-> 0]]
  /\ net = [loads |-> {Fetch(FALSE)}, posts |-> {}, stream |-> <<>>, up |-> Start]
  /\ srv = [row |-> [i \in Ids |-> NoRow], lastRead |-> [c \in Channels |-> 0]]
  /\ past = [trouble |-> 0, astray |-> {}, missed |-> {}, crossed |-> FALSE]
-----------------------------------------------------------------------------
\* The effect on [activeChannel, activeConversation, messages], after a render that set u: report the
\* highest id on screen once, and zero the row's count.
Reports(u) == u.active # None /\ u.convs[u.active] # Unlisted /\ u.top > u.reported[u.active]
\* The bug of a badge counted down instead of cleared.
ReadEffectCounts(u) ==
  IF Reports(u) THEN [u EXCEPT !.reported[u.active] = u.top, !.convs[u.active].unread = @ - 1] ELSE u
ReadEffect(u) ==
  IF Reports(u) THEN [u EXCEPT !.reported[u.active] = u.top, !.convs[u.active].unread = 0] ELSE u
Posted(u) == IF Reports(u) THEN net.posts \cup {<<u.active, u.top>>} ELSE net.posts
\* A render that sets u, whatever loads are in flight crossing it.
Render(u, loads, stream) ==
  /\ ui' = ReadEffect(u)
  /\ net' = [net EXCEPT !.posts = Posted(u), !.loads = loads, !.stream = stream]

\* A thread left while another's messages were still on screen may have been reported too far.
Left == IF ui.opening /\ ui.active # None THEN past.astray \cup {ui.active} ELSE past.astray

\* openConversation: the thread changes at once, its messages when its fetch lands.
OpenConversation(c) ==
  /\ c # ui.active /\ Known(c)
  /\ Render([ui EXCEPT !.active = c, !.opening = TRUE], Touched(net.loads), net.stream)
  /\ past' = [past EXCEPT !.astray = Left] /\ srv' = srv
\* The thread's own fetch or backfill lands.
ThreadLands ==
  /\ ui.active # None /\ ui.opening
  /\ Render([ui EXCEPT !.opening = FALSE, !.top = LastIdOf(RowsOf(ui.active))], Touched(net.loads), net.stream)
  /\ past' = [past EXCEPT !.missed = @ \ {ui.active}] /\ srv' = srv
CloseChat ==
  /\ ui.active # None
  /\ ui' = [ui EXCEPT !.active = None, !.top = 0, !.opening = FALSE]
  /\ past' = [past EXCEPT !.astray = Left] /\ UNCHANGED <<net, srv>>

\* loadConversations(), from the retry button under the error.
RetryList ==
  /\ ui.error /\ Cardinality(net.loads) < MaxLoads
  /\ ui' = [ui EXCEPT !.loading = TRUE, !.error = FALSE]
  /\ net' = [net EXCEPT !.loads = @ \cup {Fetch(FALSE)}] /\ UNCHANGED <<srv, past>>
ServeList(q) ==
  /\ q.got = "asked" /\ UNCHANGED <<ui, srv>>
  /\ \/ net' = [net EXCEPT !.loads = (@ \ {q}) \cup {[q EXCEPT !.got = "ok", !.list = Roster]}] /\ past' = past
     \/ /\ CanSpend /\ past' = [past EXCEPT !.trouble = Spent]
        /\ net' = [net EXCEPT !.loads = (@ \ {q}) \cup {[q EXCEPT !.got = "failed"]}]
LandListOk(q) ==
  /\ q.got = "ok"
  /\ Render([ui EXCEPT !.loading = @ /\ q.silent, !.error = FALSE, !.convs = q.list],
            Touched(net.loads \ {q}), net.stream)
  /\ past' = [past EXCEPT !.crossed = ~(q.clean /\ net.stream = <<>> /\ net.posts = {} /\ net.up # "down")]
  /\ srv' = srv
LandListFailed(q) ==
  /\ q.got = "failed"
  /\ ui' = [ui EXCEPT !.loading = @ /\ q.silent, !.error = @ \/ ~q.silent]
  /\ net' = [net EXCEPT !.loads = @ \ {q}] /\ past' = [past EXCEPT !.crossed = TRUE] /\ srv' = srv

\* The post of a read mark: stored; lost, and forgotten for a later render to retry; or answered with
\* an error status, which nothing looks at.
MarkLands(p) ==
  /\ srv' = [srv EXCEPT !.lastRead[p[1]] = Larger(@, p[2])]
  /\ net' = [net EXCEPT !.posts = @ \ {p}, !.loads = Touched(@)] /\ UNCHANGED <<ui, past>>
MarkFails(p) ==
  /\ CanSpend /\ past' = [past EXCEPT !.trouble = Spent, !.astray = @ \cup {p[1]}]
  /\ \E refused \in BOOLEAN : ui' = IF refused THEN ui ELSE [ui EXCEPT !.reported[p[1]] = 0]
  /\ net' = [net EXCEPT !.posts = @ \ {p}] /\ srv' = srv

\* The server stores a message and pushes it.  The push is lost without a socket, and when the hub finds
\* its buffer full; a resume makes up for what a socket that was down has lost.
Store(c, d) ==
  /\ Stored # Ids /\ net.stream = <<>>
  /\ LET i == Cardinality(Stored) + 1
         arrives(stream) == net' = [net EXCEPT !.stream = stream, !.loads = Touched(@)] IN
     /\ srv' = [srv EXCEPT !.row[i] = [ch |-> c, dir |-> d]]
     /\ \/ net.up = "open" /\ arrives(<<i>>) /\ past' = past
        \/ net.up = "down" /\ arrives(<<>>) /\ past' = past
        \/ /\ net.up # "down" /\ (net.up = "open" => CanSpend) /\ arrives(<<>>)
           /\ past' = [past EXCEPT !.trouble = IF net.up = "open" THEN Spent ELSE @,
                                   !.missed = @ \cup {c}, !.crossed = TRUE]
  /\ ui' = ui

\* handleWsMessage, for the roster: an unknown channel reloads it, a known row is brought up to date.
HandleWsMessage ==
  /\ net.stream # <<>>
  /\ LET i == Head(net.stream)
         c == srv.row[i].ch
         more == IF srv.row[i].dir = "rx" /\ c # ui.active THEN 1 ELSE 0
         seen == [ui EXCEPT !.top = IF c = ui.active THEN Larger(@, i) ELSE @]
     IN /\ \/ Known(c) /\ Render([seen EXCEPT !.convs[c] = [unread |-> @.unread + more, last |-> i]],
                                 Touched(net.loads), <<>>)
           \/ ~Known(c) /\ Cardinality(net.loads) < MaxLoads
              /\ Render(seen, Touched(net.loads) \cup {Fetch(TRUE)}, <<>>)
        /\ past' = [past EXCEPT !.crossed = @ \/ (c # ui.active /\ i <= ui.reported[c])]
  /\ srv' = srv

\* The connection goes with what was on its way; when it is back, or the tab is shown again, useResume
\* backfills and reloads silently.  The first open does neither (useWebSocket.ts:57).  Bound: the tab is shown
\* again, with the socket still up, only once a push was missed.
Drop ==
  /\ net.up = "open" /\ CanSpend /\ past' = [past EXCEPT !.trouble = Spent]
  /\ net' = [net EXCEPT !.up = "down", !.stream = <<>>] /\ UNCHANGED <<ui, srv>>
Resume ==
  /\ net.up # "first" /\ (net.up = "open" => past.missed # {}) /\ Cardinality(net.loads) < MaxLoads
  /\ net' = [net EXCEPT !.up = "open", !.loads = Touched(@) \cup {Fetch(TRUE)}]
  /\ ui' = [ui EXCEPT !.opening = (ui.active # None)] /\ UNCHANGED <<srv, past>>
FirstOpen == net.up = "first" /\ net' = [net EXCEPT !.up = "open"] /\ UNCHANGED <<ui, srv, past>>

Next ==
  \/ \E c \in Channels : OpenConversation(c) \/ Store(c, "rx") \/ Store(c, "tx")
  \/ \E q \in net.loads : ServeList(q) \/ LandListOk(q) \/ LandListFailed(q)
  \/ \E p \in net.posts : MarkLands(p) \/ MarkFails(p)
  \/ ThreadLands \/ CloseChat \/ RetryList \/ HandleWsMessage \/ FirstOpen \/ Drop \/ Resume
Spec == Init /\ [][Next]_vars
-----------------------------------------------------------------------------
\* The list a reader sees: a skeleton, or the rows; an error stands above either.
ListShown == IF ui.loading THEN "skeleton" ELSE IF \E c \in Channels : Known(c) THEN "rows" ELSE "none"

AtRest == net.up = "open" /\ net.stream = <<>> /\ net.posts = {} /\ net.loads = {} /\ ~ui.opening
\* At rest every row's unread count is the server's, unless a fetch of the roster crossed something
\* on its way, a push was lost that no fetch has made up for, or the thread's read mark went astray.
BadgesAgree ==
  AtRest /\ ~past.crossed => \A c \in Channels \ past.astray : Known(c) => ui.convs[c].unread = Unread(c)

\* Watching a thread keeps marking it read: at rest nothing of the open thread is unread at the
\* server, even if a fetch crossed, unless its mark was lost or refused, or a push that the thread's own
\* fetch has not made up for.
WatchedIsRead ==
  AtRest /\ ui.active \notin past.astray \cup past.missed \cup {None} /\ ui.loading = FALSE /\ Known(ui.active) => Unread(ui.active) = 0

\* A skeleton is shown only while a load that clears it is in flight.
SkeletonEnds == ListShown = "skeleton" => \E q \in net.loads : ~q.silent
=============================================================================

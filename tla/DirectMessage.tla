---------------------------- MODULE DirectMessage ----------------------------
(***************************************************************************)
(* The chat API's direct messages to one contact                           *)
(* (internal/node/companion/send.go): each is stored, sent along the       *)
(* contact's route, retried as floods, and settled once: delivered by its  *)
(* ACK, or failed by its last timeout, by a refused send, or by the        *)
(* companion stopping.  ACKs and timeouts are callbacks on goroutines of   *)
(* the node's own; Stop runs on the supervisor's.                          *)
(***************************************************************************)
EXTENDS Naturals, Sequences, FiniteSets, SequenceTheorems, TLAPS

CONSTANTS
  DMs,                 \* the messages, each sent by a goroutine of its own
  Routes,              \* routes the contact may be reached by
  NoRoute,             \* no route: a send floods
  dmAttempts,          \* attempts of a routed message
  dmDirectAttempts,    \* how many of them go along the route
  dmUnroutedAttempts,  \* attempts of a message with no route
  writerQueueDepth,    \* capacity of the store writer's queue
  MaxLearned           \* bound: routes learned or chosen during a run

ASSUME AttemptsAssumption ==
  /\ dmAttempts \in Nat \ {0}
  /\ dmUnroutedAttempts \in Nat \ {0}
  /\ dmDirectAttempts \in 0..dmAttempts
ASSUME RouteAssumption == NoRoute \notin Routes
ASSUME DepthAssumption == writerQueueDepth \in Nat

VARIABLES
  pc,        \* where each message is
  attempt,   \* its current attempt
  outPath,   \* the route it captured
  direct,    \* the attempts that went along that route
  inFlight,  \* dmsInFlight: the messages not settled yet
  ended,     \* what settled each message, or "none"
  shown,     \* the status last broadcast to the open chats
  row,       \* its status in the database, or "absent"
  writes,    \* status writes queued for the store writer
  lost,      \* the messages a status write of which was refused
  route,     \* the contact's route in the node's peer table
  learned,   \* how many routes have been learned
  node,      \* "up" or "stopped"
  stop,      \* where Stop is: "idle", "nodeStopped", "aborting" or "done"
  aborts     \* the abort functions Stop has collected and not run yet

vars == <<pc, attempt, outPath, direct, inFlight, ended, shown, row, writes,
          lost, route, learned, node, stop, aborts>>

Endings == {"delivered", "exhausted", "refused", "aborted"}
Statuses == {"sending", "delivered", "failed"}
Places == {"idle", "routed", "stored", "begun", "waiting", "timedOut",
           "refused", "resetting", "over"}

TypeOK ==
  /\ pc \in [DMs -> Places]
  /\ attempt \in [DMs -> Nat]
  /\ outPath \in [DMs -> Routes \cup {NoRoute}]
  /\ direct \in [DMs -> Nat]
  /\ inFlight \in SUBSET DMs
  /\ ended \in [DMs -> Endings \cup {"none"}]
  /\ shown \in [DMs -> Statuses \cup {"absent"}]
  /\ row \in [DMs -> Statuses \cup {"absent"}]
  /\ writes \in Seq(DMs \X Statuses) /\ Len(writes) <= writerQueueDepth
  /\ lost \in SUBSET DMs
  /\ route \in Routes \cup {NoRoute}
  /\ learned \in Nat
  /\ node \in {"up", "stopped"}
  /\ stop \in {"idle", "nodeStopped", "aborting", "done"}
  /\ aborts \in SUBSET DMs

Init ==
  /\ pc = [d \in DMs |-> "idle"]
  /\ attempt = [d \in DMs |-> 0]
  /\ outPath = [d \in DMs |-> NoRoute]
  /\ direct = [d \in DMs |-> 0]
  /\ inFlight = {}
  /\ ended = [d \in DMs |-> "none"]
  /\ shown = [d \in DMs |-> "absent"]
  /\ row = [d \in DMs |-> "absent"]
  /\ writes = << >>
  /\ lost = {}
  /\ route \in Routes \cup {NoRoute}
  /\ learned = 0
  /\ node = "up"
  /\ stop = "idle"
  /\ aborts = {}

Goto(d, place) == pc' = [pc EXCEPT ![d] = place]

Attempts(d) == IF outPath[d] = NoRoute THEN dmUnroutedAttempts ELSE dmAttempts

-----------------------------------------------------------------------------
(* Settling.                                                               *)

\* WriteAsync of a status, and the broadcast that goes with it.
SetMessageStatus(d, status) ==
  /\ shown' = [shown EXCEPT ![d] = status]
  /\ \/ /\ Len(writes) < writerQueueDepth
        /\ writes' = Append(writes, <<d, status>>)
        /\ UNCHANGED lost
     \/ /\ Len(writes) = writerQueueDepth
        /\ lost' = lost \cup {d}
        /\ UNCHANGED writes

\* The bug of a settle that does not ask whether it is the first.
SettleAgain(d, how) ==
  /\ inFlight' = inFlight \ {d}
  /\ ended' = [ended EXCEPT ![d] = how]
  /\ SetMessageStatus(d, IF how = "delivered" THEN "delivered" ELSE "failed")

\* Only the first outcome of a message counts.
Settle(d, how) ==
  /\ inFlight' = inFlight \ {d}
  /\ IF d \in inFlight
     THEN /\ ended' = [ended EXCEPT ![d] = how]
          /\ SetMessageStatus(d, IF how = "delivered" THEN "delivered"
                                                       ELSE "failed")
     ELSE UNCHANGED <<ended, shown, writes, lost>>

-----------------------------------------------------------------------------
(* sendDM.                                                                 *)

Capture(d) ==
  /\ pc[d] = "idle"
  /\ outPath' = [outPath EXCEPT ![d] = route]
  /\ Goto(d, "routed")
  /\ UNCHANGED <<attempt, direct, inFlight, ended, shown, row, writes, lost,
                 route, learned, node, stop, aborts>>

\* The bug of a message the open chats are not told of.
StoreDMUnshown(d) ==
  /\ pc[d] = "routed"
  /\ row' = [row EXCEPT ![d] = "sending"]
  /\ Goto(d, "stored")
  /\ UNCHANGED <<attempt, outPath, direct, inFlight, ended, shown, writes, lost,
                 route, learned, node, stop, aborts>>

\* The row is inserted by WriteSync, which commutes with the other rows'
\* writes, and then shown.
StoreDM(d) ==
  /\ pc[d] = "routed"
  /\ row' = [row EXCEPT ![d] = "sending"]
  /\ shown' = [shown EXCEPT ![d] = "sending"]
  /\ Goto(d, "stored")
  /\ UNCHANGED <<attempt, outPath, direct, inFlight, ended, writes, lost, route,
                 learned, node, stop, aborts>>

Begin(d) ==
  /\ pc[d] = "stored"
  /\ inFlight' = inFlight \cup {d}
  /\ Goto(d, "begun")
  /\ UNCHANGED <<attempt, outPath, direct, ended, shown, row, writes, lost, route,
                 learned, node, stop, aborts>>

\* One attempt: the node takes it and its ACK is expected, or it is refused.
Send(d, n) ==
  \/ /\ Goto(d, "waiting")
     /\ attempt' = [attempt EXCEPT ![d] = n]
     /\ direct' = IF outPath[d] # NoRoute /\ n < dmDirectAttempts
                  THEN [direct EXCEPT ![d] = @ + 1] ELSE direct
  \/ /\ Goto(d, "refused")
     /\ UNCHANGED <<attempt, direct>>

FirstSend(d) ==
  /\ pc[d] = "begun"
  /\ Send(d, 0)
  /\ UNCHANGED <<outPath, inFlight, ended, shown, row, writes, lost, route,
                 learned, node, stop, aborts>>

\* A timer: the attempt's wait is over with no ACK.
Timeout(d) ==
  /\ pc[d] = "waiting"
  /\ Goto(d, "timedOut")
  /\ UNCHANGED <<attempt, outPath, direct, inFlight, ended, shown, row, writes,
                 lost, route, learned, node, stop, aborts>>

Retry(d) ==
  /\ pc[d] = "timedOut"
  /\ attempt[d] + 1 < Attempts(d)
  /\ Send(d, attempt[d] + 1)
  /\ UNCHANGED <<outPath, inFlight, ended, shown, row, writes, lost, route,
                 learned, node, stop, aborts>>

\* The bug of dropping the route whether or not this outcome counted.
GiveUpRegardless(d) ==
  /\ pc[d] = "timedOut"
  /\ attempt[d] + 1 >= Attempts(d)
  /\ Settle(d, "exhausted")
  /\ Goto(d, IF outPath[d] # NoRoute THEN "resetting" ELSE "over")
  /\ UNCHANGED <<attempt, outPath, direct, row, route, learned, node, stop, aborts>>

\* giveUp, as far as its settle: it goes on only when its outcome counted and
\* the message had a route.
GiveUp(d) ==
  /\ pc[d] = "timedOut"
  /\ attempt[d] + 1 >= Attempts(d)
  /\ Settle(d, "exhausted")
  /\ Goto(d, IF d \in inFlight /\ outPath[d] # NoRoute THEN "resetting" ELSE "over")
  /\ UNCHANGED <<attempt, outPath, direct, row, route, learned, node, stop, aborts>>

\* The rest of giveUp: whatever route the table holds by now is dropped.
ResetRoute(d) ==
  /\ pc[d] = "resetting"
  /\ route' = NoRoute
  /\ Goto(d, "over")
  /\ UNCHANGED <<attempt, outPath, direct, inFlight, ended, shown, row, writes,
                 lost, learned, node, stop, aborts>>

Refused(d) ==
  /\ pc[d] = "refused"
  /\ Settle(d, "refused")
  /\ Goto(d, "over")
  /\ UNCHANGED <<attempt, outPath, direct, row, route, learned, node, stop, aborts>>

\* The ACK of the attempt being waited for.
Ack(d) ==
  /\ pc[d] = "waiting"
  /\ Settle(d, "delivered")
  /\ Goto(d, "over")
  /\ UNCHANGED <<attempt, outPath, direct, row, route, learned, node, stop, aborts>>

-----------------------------------------------------------------------------
(* The rest of the companion: a route learned, the writer, and Stop.       *)

Learn(r) ==
  /\ learned < MaxLearned
  /\ learned' = learned + 1
  /\ route' = r
  /\ UNCHANGED <<pc, attempt, outPath, direct, inFlight, ended, shown, row, writes,
                 lost, node, stop, aborts>>

WriteRow ==
  /\ writes # << >>
  /\ row' = [row EXCEPT ![Head(writes)[1]] = Head(writes)[2]]
  /\ writes' = Tail(writes)
  /\ UNCHANGED <<pc, attempt, outPath, direct, inFlight, ended, shown, lost, route,
                 learned, node, stop, aborts>>

\* Stopping the node ends the ACK waits there are, unreported.
StopNode ==
  /\ stop = "idle"
  /\ stop' = "nodeStopped"
  /\ node' = "stopped"
  /\ pc' = [d \in DMs |-> IF pc[d] = "waiting" THEN "over" ELSE pc[d]]
  /\ UNCHANGED <<attempt, outPath, direct, inFlight, ended, shown, row, writes,
                 lost, route, learned, aborts>>

\* abortAll copies the functions under the lock and runs them outside it.
CollectAborts ==
  /\ stop = "nodeStopped"
  /\ stop' = "aborting"
  /\ aborts' = inFlight
  /\ UNCHANGED <<pc, attempt, outPath, direct, inFlight, ended, shown, row, writes,
                 lost, route, learned, node>>

\* The bug of an abort that only forgets.
AbortForgets(d) ==
  /\ d \in aborts
  /\ aborts' = aborts \ {d}
  /\ UNCHANGED <<pc, attempt, outPath, direct, inFlight, ended, shown, row, writes,
                 lost, route, learned, node, stop>>

Abort(d) ==
  /\ d \in aborts
  /\ aborts' = aborts \ {d}
  /\ Settle(d, "aborted")
  /\ UNCHANGED <<pc, attempt, outPath, direct, row, route, learned, node, stop>>

AbortsDone ==
  /\ stop = "aborting"
  /\ aborts = {}
  /\ stop' = "done"
  /\ UNCHANGED <<pc, attempt, outPath, direct, inFlight, ended, shown, row, writes,
                 lost, route, learned, node, aborts>>

Settling(d) == Retry(d) \/ GiveUp(d) \/ Refused(d) \/ FirstSend(d)

Next ==
  \/ \E d \in DMs : \/ Capture(d) \/ StoreDM(d) \/ Begin(d) \/ Settling(d)
                    \/ Timeout(d) \/ Ack(d) \/ ResetRoute(d) \/ Abort(d)
  \/ \E r \in Routes : Learn(r)
  \/ WriteRow \/ StopNode \/ CollectAborts \/ AbortsDone

Spec == Init /\ [][Next]_vars

\* A goroutine that has something to do does it, timers fire on a node that
\* runs, and a Stop that began ends.  Nothing makes a message begin, an ACK
\* arrive, a route be learned or a companion stop.
Fairness ==
  /\ \A d \in DMs : /\ WF_vars(Settling(d)) /\ WF_vars(ResetRoute(d))
                    /\ WF_vars(node = "up" /\ Timeout(d)) /\ WF_vars(Abort(d))
  /\ WF_vars(WriteRow) /\ WF_vars(CollectAborts) /\ WF_vars(AbortsDone)

LiveSpec == Spec /\ Fairness

-----------------------------------------------------------------------------
Shown == INSTANCE MessageLife WITH Messages <- DMs, Resends <- FALSE, status <- shown
Stored == INSTANCE MessageLife WITH Messages <- DMs, Resends <- FALSE, status <- row

\* The chat and the row each tell a message's life as MessageLife has it: sending,
\* then one outcome, the first, which no late ACK, timeout, refusal or abort
\* changes (dmsInFlight.end).
FirstOutcomeCounts == Shown!Spec /\ Stored!Spec

\* What a settled message shows is what settled it, and with the queue empty and
\* no write refused its row says the same as its chat.
RowAgreesWithChat ==
  \A d \in DMs :
    /\ ended[d] # "none" => (shown[d] = "delivered") <=> (ended[d] = "delivered")
    /\ writes = << >> /\ d \notin lost => row[d] = shown[d]

\* A route is dropped only by a message that had one, was sent every time it
\* may be, the direct sends among them, and was then the first to say how it
\* ended: never because the companion stopped, a send was refused or a late
\* ACK lost the race.
RouteDroppedOnlyWhenExhausted ==
  [][route # NoRoute /\ route' = NoRoute =>
       \E d \in DMs : /\ ended[d] = "exhausted"
                      /\ outPath[d] # NoRoute
                      /\ attempt[d] = dmAttempts - 1
                      /\ direct[d] = dmDirectAttempts]_vars

\* A message in flight on a running companion is settled, whether its ACK comes,
\* its attempts run out, a send is refused or the companion stops.
EverySettled ==
  \A d \in DMs : (d \in inFlight /\ stop = "idle") ~> (d \notin inFlight)
-----------------------------------------------------------------------------
(***************************************************************************)
(* Proofs about direct messages, for any messages, routes, numbers of      *)
(* attempts and depth of the writer's queue: the state is well typed, the  *)
(* chat and the row agree once the queue is empty, both tell a life that   *)
(* MessageLife allows, and no message drops a route it has not exhausted.  *)
(***************************************************************************)

Queued == 1 .. Len(writes)

\* A message is in flight only while its chat and its row say sending, and
\* nobody has heard of one that is not stored.
FlightInv ==
  \A d \in DMs :
    /\ pc[d] \in {"idle", "routed"} =>
         /\ shown[d] = "absent" /\ row[d] = "absent" /\ ended[d] = "none"
    /\ pc[d] = "stored" \/ d \in inFlight => shown[d] = "sending" /\ row[d] = "sending"
    /\ d \in inFlight => pc[d] \notin {"idle", "routed", "stored"}

\* A queued write is the only one of its message, holds the outcome the chat
\* shows, and finds a row that is still sending.
WritesInv ==
  /\ \A i \in Queued : LET d == writes[i][1] IN
       /\ writes[i][2] = shown[d] /\ shown[d] \in {"delivered", "failed"}
       /\ row[d] = "sending"
       /\ d \notin inFlight /\ pc[d] \notin {"idle", "routed", "stored"}
  /\ \A i, j \in Queued : writes[i][1] = writes[j][1] => i = j

\* Only a refused or a queued write keeps a row from saying what its chat does,
\* and the chat says what settled the message.
AgreeInv ==
  \A d \in DMs :
    /\ ended[d] # "none" => (shown[d] = "delivered") <=> (ended[d] = "delivered")
    /\ d \in lost \/ row[d] = shown[d] \/ \E i \in Queued : writes[i][1] = d

IInv == TypeOK /\ FlightInv /\ WritesInv /\ AgreeInv

-----------------------------------------------------------------------------

\* A queue that gets one more write keeps the writes it had, in their places.
LEMMA QueueOne ==
  ASSUME writes \in Seq(DMs \X Statuses), NEW w \in DMs \X Statuses, writes' = Append(writes, w)
  PROVE /\ writes' \in Seq(DMs \X Statuses)
        /\ Len(writes') = Len(writes) + 1 /\ Len(writes) \in Nat
        /\ \A i \in Queued : writes'[i] = writes[i]
        /\ writes'[Len(writes) + 1] = w
BY AppendProperties DEF Queued

\* A queue that gives up its head moves every other write one place up.
LEMMA QueueNext ==
  ASSUME writes \in Seq(DMs \X Statuses), writes # << >>, writes' = Tail(writes)
  PROVE /\ writes' \in Seq(DMs \X Statuses)
        /\ Len(writes') = Len(writes) - 1 /\ Len(writes) \in Nat \ {0}
        /\ Head(writes) = writes[1] /\ writes[1] \in DMs \X Statuses
        /\ \A i \in 1 .. Len(writes') : writes'[i] = writes[i + 1]
<1>1. Len(writes) \in Nat \ {0}
  BY EmptySeq, LenProperties
<1>2. Head(writes) = writes[1] /\ writes[1] \in DMs \X Statuses
  BY <1>1, HeadTailProperties, ElementOfSeq
<1>3. QED BY <1>1, <1>2, HeadTailProperties

\* Settling a message keeps the types of what it touches.
LEMMA SettleType ==
  ASSUME TypeOK, NEW d \in DMs, NEW how \in Endings, Settle(d, how)
  PROVE /\ inFlight' \in SUBSET DMs
        /\ ended' \in [DMs -> Endings \cup {"none"}]
        /\ shown' \in [DMs -> Statuses \cup {"absent"}]
        /\ writes' \in Seq(DMs \X Statuses) /\ Len(writes') <= writerQueueDepth
        /\ lost' \in SUBSET DMs
<1>1. CASE d \notin inFlight
  BY <1>1 DEF Settle, TypeOK
<1>2. CASE d \in inFlight
  <2> DEFINE status == IF how = "delivered" THEN "delivered" ELSE "failed"
  <2>1. status \in Statuses /\ SetMessageStatus(d, status)
    BY <1>2 DEF Settle, Statuses
  <2>2. shown' \in [DMs -> Statuses \cup {"absent"}] /\ lost' \in SUBSET DMs
    BY <2>1 DEF SetMessageStatus, TypeOK
  <2>3. writes' \in Seq(DMs \X Statuses) /\ Len(writes') <= writerQueueDepth
    <3>1. CASE writes' = writes
      BY <3>1 DEF TypeOK
    <3>2. CASE Len(writes) < writerQueueDepth /\ writes' = Append(writes, <<d, status>>)
      <4>1. <<d, status>> \in DMs \X Statuses
        BY <2>1
      <4>2. QED BY <3>2, <4>1, QueueOne, DepthAssumption DEF TypeOK
    <3>3. QED BY <2>1, <3>1, <3>2 DEF SetMessageStatus
  <2>4. inFlight' \in SUBSET DMs /\ ended' \in [DMs -> Endings \cup {"none"}]
    BY <1>2 DEF Settle, TypeOK
  <2>5. QED BY <2>2, <2>3, <2>4
<1>3. QED BY <1>1, <1>2

\* The steps of a message that end it.
Ends(d) == GiveUp(d) \/ Refused(d) \/ Ack(d) \/ Abort(d)

\* Each settles it, once, in one of four ways.
LEMMA EndsSettle ==
  ASSUME NEW d \in DMs, Ends(d)
  PROVE /\ \E how \in Endings : Settle(d, how)
        /\ UNCHANGED row
        /\ \/ UNCHANGED pc
           \/ \E place \in {"resetting", "over"} : pc' = [pc EXCEPT ![d] = place]
<1>1. CASE GiveUp(d)
  BY <1>1 DEF GiveUp, Goto, Endings
<1>2. CASE Refused(d)
  BY <1>2 DEF Refused, Goto, Endings
<1>3. CASE Ack(d)
  BY <1>3 DEF Ack, Goto, Endings
<1>4. CASE Abort(d)
  BY <1>4 DEF Abort, Endings
<1>5. QED BY <1>1, <1>2, <1>3, <1>4 DEF Ends

\* Steps that only move a message on, or learn or drop a route, or belong to
\* Stop: none of them touches what the chat, the row or the queue say.
Early == {"idle", "routed", "stored"}
Moves == /\ UNCHANGED <<inFlight, ended, shown, row, writes, lost>>
         /\ \A d \in DMs : \/ pc'[d] = pc[d]
                           \/ pc[d] = "idle" /\ pc'[d] = "routed"
                           \/ pc[d] \notin Early /\ pc'[d] \notin Early

LEMMA OtherStepsMove ==
  ASSUME TypeOK,
         \/ \E d \in DMs : Capture(d) \/ FirstSend(d) \/ Retry(d) \/ Timeout(d) \/ ResetRoute(d)
         \/ \E r \in Routes : Learn(r)
         \/ StopNode \/ CollectAborts \/ AbortsDone \/ UNCHANGED vars
  PROVE Moves
<1>1. ASSUME NEW d \in DMs, Capture(d) PROVE Moves
  BY <1>1 DEF Moves, Capture, Goto, TypeOK
<1>2. ASSUME NEW d \in DMs, FirstSend(d) PROVE Moves
  BY <1>2 DEF Moves, Early, FirstSend, Send, Goto, TypeOK
<1>3. ASSUME NEW d \in DMs, Retry(d) PROVE Moves
  BY <1>3 DEF Moves, Early, Retry, Send, Goto, TypeOK
<1>4. ASSUME NEW d \in DMs, Timeout(d) \/ ResetRoute(d) PROVE Moves
  BY <1>4 DEF Moves, Early, Timeout, ResetRoute, Goto, TypeOK
<1>5. ASSUME NEW r \in Routes, Learn(r) PROVE Moves
  BY <1>5 DEF Moves, Learn
<1>6. CASE StopNode
  BY <1>6 DEF Moves, Early, StopNode, TypeOK
<1>7. CASE CollectAborts \/ AbortsDone \/ UNCHANGED vars
  BY <1>7 DEF Moves, CollectAborts, AbortsDone, vars
<1>8. QED BY <1>1, <1>2, <1>3, <1>4, <1>5, <1>6, <1>7

-----------------------------------------------------------------------------

\* The state keeps its type in every step.
LEMMA TypeInvariant == TypeOK /\ [Next]_vars => TypeOK'
<1> SUFFICES ASSUME TypeOK, [Next]_vars PROVE TypeOK'
  OBVIOUS
<1>1. ASSUME NEW d \in DMs, Ends(d) PROVE TypeOK'
  <2>1. PICK how \in Endings : Settle(d, how)
    BY <1>1, EndsSettle
  <2>2. pc' \in [DMs -> Places]
    BY <1>1, EndsSettle DEF TypeOK, Places
  <2>3. /\ UNCHANGED <<attempt, outPath, direct, row, route, learned, node, stop>>
        /\ aborts' \in SUBSET DMs
    BY <1>1 DEF Ends, GiveUp, Refused, Ack, Abort, TypeOK
  <2>4. QED BY <2>1, <2>2, <2>3, SettleType DEF TypeOK
<1>2. ASSUME NEW d \in DMs, Capture(d) PROVE TypeOK'
  BY <1>2 DEF TypeOK, Capture, Goto, Places
<1>3. ASSUME NEW d \in DMs, StoreDM(d) \/ Begin(d) PROVE TypeOK'
  BY <1>3 DEF TypeOK, StoreDM, Begin, Goto, Places, Statuses
<1>4. ASSUME NEW d \in DMs, FirstSend(d) \/ Retry(d) PROVE TypeOK'
  <2>1. PICK n \in Nat : Send(d, n)
    BY <1>4 DEF FirstSend, Retry, TypeOK
  <2>2. /\ pc' \in [DMs -> Places] /\ attempt' \in [DMs -> Nat] /\ direct' \in [DMs -> Nat]
    <3>1. pc' \in [DMs -> Places] /\ attempt' \in [DMs -> Nat]
      <4>1. pc \in [DMs -> Places] /\ attempt \in [DMs -> Nat]
        BY DEF TypeOK
      <4>2. "waiting" \in Places /\ "refused" \in Places
        BY DEF Places
      <4>3. pc' \in {[pc EXCEPT ![d] = "waiting"], [pc EXCEPT ![d] = "refused"]}
        BY <2>1 DEF Send, Goto
      <4>4. attempt' \in {[attempt EXCEPT ![d] = n], attempt}
        BY <2>1 DEF Send
      <4>5. pc' \in [DMs -> Places]
        BY <4>1, <4>2, <4>3
      <4>6. attempt' \in [DMs -> Nat]
        BY <4>1, <4>4
      <4>7. QED BY <4>5, <4>6
    <3>2. [direct EXCEPT ![d] = @ + 1] \in [DMs -> Nat]
      BY DEF TypeOK
    <3>3. direct' \in {[direct EXCEPT ![d] = @ + 1], direct}
      BY <2>1 DEF Send
    <3>4. direct' \in [DMs -> Nat]
      BY <3>2, <3>3 DEF TypeOK
    <3>5. QED BY <3>1, <3>4
  <2>3. QED BY <1>4, <2>2 DEF FirstSend, Retry, TypeOK
<1>5. ASSUME NEW d \in DMs, Timeout(d) \/ ResetRoute(d) PROVE TypeOK'
  BY <1>5 DEF TypeOK, Timeout, ResetRoute, Goto, Places
<1>6. ASSUME NEW r \in Routes, Learn(r) PROVE TypeOK'
  BY <1>6 DEF TypeOK, Learn
<1>7. CASE WriteRow
  <2>1. writes' \in Seq(DMs \X Statuses) /\ Len(writes') <= writerQueueDepth
    BY <1>7, QueueNext, DepthAssumption DEF WriteRow, TypeOK
  <2>2. row' \in [DMs -> Statuses \cup {"absent"}]
    BY <1>7, QueueNext DEF WriteRow, TypeOK
  <2>3. QED BY <1>7, <2>1, <2>2 DEF WriteRow, TypeOK
<1>8. CASE StopNode
  BY <1>8 DEF TypeOK, StopNode, Places
<1>9. CASE CollectAborts \/ AbortsDone
  BY <1>9 DEF TypeOK, CollectAborts, AbortsDone
<1>10. CASE UNCHANGED vars
  BY <1>10 DEF TypeOK, vars
<1>11. QED BY <1>1, <1>2, <1>3, <1>4, <1>5, <1>6, <1>7, <1>8, <1>9, <1>10
           DEF Next, Settling, Ends

-----------------------------------------------------------------------------

\* A message in flight is settled as how: its chat shows status, and the write
\* of it is queued or refused.
SettledAs(d, how, status) ==
  /\ d \in inFlight /\ inFlight' = inFlight \ {d}
  /\ status \in {"delivered", "failed"} /\ (status = "delivered" <=> how = "delivered")
  /\ shown' = [shown EXCEPT ![d] = status]
  /\ ended' = [ended EXCEPT ![d] = how]
  /\ UNCHANGED row
  /\ \/ writes' = Append(writes, <<d, status>>) /\ UNCHANGED lost
     \/ UNCHANGED writes /\ lost' = lost \cup {d}
  /\ \A e \in DMs : \/ pc'[e] = pc[e]
                    \/ pc[e] \notin Early /\ pc'[e] \notin Early

\* A step that ends a message settles it, or comes too late and only moves on.
LEMMA EndsOnce ==
  ASSUME TypeOK, NEW d \in DMs, Ends(d)
  PROVE Moves \/ \E how \in Endings, status \in Statuses : SettledAs(d, how, status)
<1>1. PICK how \in Endings : Settle(d, how)
  BY EndsSettle
<1>2. UNCHANGED row
  BY EndsSettle
<1>3. \/ UNCHANGED pc
      \/ pc[d] \notin Early /\ \E place \in {"resetting", "over"} : pc' = [pc EXCEPT ![d] = place]
  <2>1. CASE Abort(d)
    BY <2>1 DEF Abort
  <2>2. CASE GiveUp(d) \/ Refused(d) \/ Ack(d)
    BY <2>2, EndsSettle DEF GiveUp, Refused, Ack, Early
  <2>3. QED BY <2>1, <2>2 DEF Ends
<1>4. \A e \in DMs : \/ pc'[e] = pc[e]
                     \/ pc[e] \notin Early /\ pc'[e] \notin Early
  BY <1>3 DEF TypeOK, Early
<1>5. CASE d \notin inFlight
  <2>1. UNCHANGED <<inFlight, ended, shown, writes, lost>>
    BY <1>1, <1>5 DEF Settle, TypeOK
  <2>2. QED BY <1>2, <1>4, <2>1 DEF Moves
<1>6. CASE d \in inFlight
  <2> DEFINE status == IF how = "delivered" THEN "delivered" ELSE "failed"
  <2>1. /\ inFlight' = inFlight \ {d} /\ ended' = [ended EXCEPT ![d] = how]
        /\ SetMessageStatus(d, status)
    BY <1>1, <1>6 DEF Settle
  <2>2. SettledAs(d, how, status)
    BY <1>2, <1>4, <1>6, <2>1 DEF SettledAs, SetMessageStatus
  <2>3. status \in Statuses
    BY DEF Statuses
  <2>4. QED BY <1>1, <2>2, <2>3
<1>7. QED BY <1>5, <1>6

\* Every step settles a message, stores one, begins one, writes a row, or moves on.
LEMMA StepKinds ==
  ASSUME TypeOK, [Next]_vars
  PROVE \/ Moves
        \/ \E d \in DMs, how \in Endings, status \in Statuses : SettledAs(d, how, status)
        \/ \E d \in DMs : StoreDM(d) \/ Begin(d)
        \/ WriteRow
<1>1. CASE \E d \in DMs : Ends(d)
  BY <1>1, EndsOnce
<1>2. CASE \/ \E d \in DMs : Capture(d) \/ FirstSend(d) \/ Retry(d) \/ Timeout(d) \/ ResetRoute(d)
           \/ \E r \in Routes : Learn(r)
           \/ StopNode \/ CollectAborts \/ AbortsDone \/ UNCHANGED vars
  BY <1>2, OtherStepsMove
<1>3. QED BY <1>1, <1>2 DEF Next, Settling, Ends

-----------------------------------------------------------------------------

LEMMA MovesKeep ==
  ASSUME IInv, Moves
  PROVE FlightInv' /\ WritesInv' /\ AgreeInv'
<1>1. FlightInv'
  BY DEF IInv, FlightInv, Moves, Early
<1>2. WritesInv'
  <2> SUFFICES ASSUME NEW i \in Queued
               PROVE pc[writes[i][1]] \notin Early => pc'[writes[i][1]] \notin Early
    BY DEF IInv, WritesInv, Moves, Early, Queued
  <2>1. writes[i][1] \in DMs
    BY ElementOfSeq DEF Queued, IInv, TypeOK
  <2>2. QED BY <2>1 DEF Moves, Early
<1>3. AgreeInv'
  BY DEF IInv, AgreeInv, Moves, Queued
<1>4. QED BY <1>1, <1>2, <1>3

LEMMA SettledKeeps ==
  ASSUME IInv, NEW d \in DMs, NEW how \in Endings, NEW status \in Statuses,
         SettledAs(d, how, status)
  PROVE FlightInv' /\ WritesInv' /\ AgreeInv'
<1>0. TypeOK /\ FlightInv /\ WritesInv /\ AgreeInv
  BY DEF IInv
<1>1. FlightInv'
  BY <1>0 DEF FlightInv, SettledAs, Early, TypeOK
<1>2. \A i \in Queued : writes[i] \in DMs \X Statuses /\ writes[i][1] # d
  BY <1>0, ElementOfSeq DEF Queued, TypeOK, WritesInv, SettledAs
<1>3. CASE writes' = Append(writes, <<d, status>>) /\ UNCHANGED lost
  <2>1. /\ Len(writes') = Len(writes) + 1 /\ Len(writes) \in Nat
        /\ \A i \in Queued : writes'[i] = writes[i]
        /\ writes'[Len(writes) + 1] = <<d, status>>
    BY <1>0, <1>3, QueueOne DEF TypeOK
  <2>2. Queued' = Queued \cup {Len(writes) + 1}
    BY <2>1 DEF Queued
  <2>3. WritesInv'
    <3>1. ASSUME NEW i \in Queued'
          PROVE LET e == writes'[i][1] IN
                  /\ writes'[i][2] = shown'[e] /\ shown'[e] \in {"delivered", "failed"}
                  /\ row'[e] = "sending"
                  /\ e \notin inFlight' /\ pc'[e] \notin Early
      <4>1. CASE i \in Queued
        <5> DEFINE e == writes[i][1]
        <5>1. e \in DMs /\ e # d /\ writes'[i] = writes[i]
          BY <1>2, <2>1, <4>1
        <5>2. /\ writes[i][2] = shown[e] /\ shown[e] \in {"delivered", "failed"}
              /\ row[e] = "sending" /\ e \notin inFlight /\ pc[e] \notin Early
          BY <1>0, <4>1 DEF WritesInv, Early
        <5>3. shown'[e] = shown[e] /\ row' = row /\ inFlight' \subseteq inFlight
          BY <1>0, <5>1 DEF SettledAs, TypeOK
        <5>4. pc'[e] \notin Early
          BY <5>1, <5>2 DEF SettledAs
        <5>5. QED BY <5>1, <5>2, <5>3, <5>4
      <4>2. CASE i = Len(writes) + 1
        <5>1. writes'[i][1] = d /\ writes'[i][2] = status
          BY <2>1, <4>2
        <5>2. shown'[d] = status /\ row'[d] = "sending" /\ d \notin inFlight'
          BY <1>0 DEF SettledAs, TypeOK, FlightInv
        <5>3. pc'[d] \notin Early
          BY <1>0 DEF SettledAs, FlightInv, Early
        <5>4. status \in {"delivered", "failed"}
          BY <1>0 DEF SettledAs
        <5>5. QED BY <5>1, <5>2, <5>3, <5>4
      <4>3. QED BY <2>2, <4>1, <4>2
    <3>2. \A i, j \in Queued' : writes'[i][1] = writes'[j][1] => i = j
      BY <1>0, <1>2, <2>1, <2>2 DEF WritesInv
    <3>3. QED BY <3>1, <3>2 DEF WritesInv, Early
  <2>4. AgreeInv'
    <3>1. \A e \in DMs : ended'[e] # "none" => (shown'[e] = "delivered") <=> (ended'[e] = "delivered")
      BY <1>0 DEF AgreeInv, SettledAs, TypeOK
    <3>2. writes'[Len(writes) + 1][1] = d /\ Len(writes) + 1 \in Queued'
      BY <2>1, <2>2
    <3>3. \A e \in DMs \ {d} : row'[e] = row[e] /\ shown'[e] = shown[e]
      BY <1>0 DEF SettledAs, TypeOK
    <3>4. ASSUME NEW e \in DMs
          PROVE e \in lost' \/ row'[e] = shown'[e] \/ \E i \in Queued' : writes'[i][1] = e
      <4>1. CASE e = d
        <5>1. writes'[Len(writes) + 1][1] = e
          BY <3>2, <4>1
        <5>2. QED BY <3>2, <5>1
      <4>2. CASE e # d
        <5>1. row'[e] = row[e] /\ shown'[e] = shown[e] /\ lost' = lost
          BY <1>3, <3>3, <4>2
        <5>2. CASE \E i \in Queued : writes[i][1] = e
          <6>1. PICK i \in Queued : writes[i][1] = e
            BY <5>2
          <6>2. i \in Queued' /\ writes'[i][1] = e
            BY <2>1, <2>2, <6>1
          <6>3. QED BY <6>2
        <5>3. CASE e \in lost \/ row[e] = shown[e]
          BY <5>1, <5>3
        <5>4. QED BY <1>0, <5>2, <5>3 DEF AgreeInv
      <4>3. QED BY <4>1, <4>2
    <3>5. QED BY <3>1, <3>4 DEF AgreeInv
  <2>5. QED BY <1>1, <2>3, <2>4
<1>4. CASE UNCHANGED writes /\ lost' = lost \cup {d}
  <2>1. WritesInv'
    BY <1>0, <1>2, <1>4 DEF WritesInv, SettledAs, Early, TypeOK, Queued
  <2>2. AgreeInv'
    BY <1>0, <1>4 DEF AgreeInv, SettledAs, TypeOK, Queued
  <2>3. QED BY <1>1, <2>1, <2>2
<1>5. QED BY <1>3, <1>4 DEF SettledAs

LEMMA StoredKeeps ==
  ASSUME IInv, NEW d \in DMs, StoreDM(d) \/ Begin(d)
  PROVE FlightInv' /\ WritesInv' /\ AgreeInv'
<1>0. TypeOK /\ FlightInv /\ WritesInv /\ AgreeInv
  BY DEF IInv
<1>1. FlightInv'
  BY <1>0 DEF FlightInv, StoreDM, Begin, Goto, TypeOK
<1>2. \A i \in Queued : writes[i] \in DMs \X Statuses /\ writes[i][1] # d
  BY <1>0, ElementOfSeq DEF Queued, TypeOK, WritesInv, StoreDM, Begin
<1>3. WritesInv'
  <2>1. \A e \in DMs \ {d} : /\ pc'[e] = pc[e] /\ row'[e] = row[e] /\ shown'[e] = shown[e]
                             /\ e \in inFlight' <=> e \in inFlight
    BY <1>0 DEF StoreDM, Begin, Goto, TypeOK
  <2>2. UNCHANGED writes
    BY DEF StoreDM, Begin
  <2>3. \A i \in Queued : writes[i][1] \in DMs \ {d}
    BY <1>2
  <2>4. QED BY <1>0, <2>1, <2>2, <2>3 DEF WritesInv, Queued
<1>4. AgreeInv'
  <2>1. UNCHANGED <<ended, lost, writes>>
    BY DEF StoreDM, Begin
  <2>2. ASSUME NEW e \in DMs \ {d}
        PROVE  shown'[e] = shown[e] /\ row'[e] = row[e]
    BY <1>0 DEF StoreDM, Begin, TypeOK
  <2>3. /\ row'[d] = "sending" /\ shown'[d] = "sending"
        /\ ended[d] # "none" => shown[d] = "sending"
    BY <1>0 DEF FlightInv, StoreDM, Begin, TypeOK
  <2>4. QED BY <1>0, <2>1, <2>2, <2>3 DEF AgreeInv, Queued
<1>5. QED BY <1>1, <1>3, <1>4

LEMMA WriteRowKeeps ==
  ASSUME IInv, WriteRow
  PROVE FlightInv' /\ WritesInv' /\ AgreeInv'
<1>0. TypeOK /\ FlightInv /\ WritesInv /\ AgreeInv
  BY DEF IInv
<1>1. /\ Len(writes') = Len(writes) - 1 /\ Len(writes) \in Nat \ {0}
      /\ Head(writes) = writes[1] /\ writes[1] \in DMs \X Statuses
      /\ \A i \in 1 .. Len(writes') : writes'[i] = writes[i + 1]
  BY <1>0, QueueNext DEF TypeOK, WriteRow
<1>2. /\ row' = [row EXCEPT ![writes[1][1]] = writes[1][2]]
      /\ UNCHANGED <<pc, inFlight, ended, shown, lost>>
  BY <1>1 DEF WriteRow
<1>3. 1 \in Queued /\ \A i \in Queued' : i + 1 \in Queued
  BY <1>1 DEF Queued
<1>4. FlightInv'
  BY <1>0, <1>1, <1>2, <1>3 DEF FlightInv, WritesInv, TypeOK
<1>5. \A i \in Queued' : writes'[i][1] # writes[1][1] /\ writes'[i] \in DMs \X Statuses
  <2>1. \A i \in Queued : writes[i] \in DMs \X Statuses
    BY <1>0, ElementOfSeq DEF Queued, TypeOK
  <2>2. QED BY <1>0, <1>1, <1>3, <2>1 DEF WritesInv, Queued
<1>6. WritesInv'
  <2>1. ASSUME NEW i \in Queued'
        PROVE LET e == writes'[i][1] IN
                /\ writes'[i][2] = shown'[e] /\ shown'[e] \in {"delivered", "failed"}
                /\ row'[e] = "sending"
                /\ e \notin inFlight' /\ pc'[e] \notin {"idle", "routed", "stored"}
    <3>1. writes'[i] = writes[i + 1] /\ i + 1 \in Queued
      BY <1>1, <1>3 DEF Queued
    <3>2. row'[writes'[i][1]] = row[writes'[i][1]]
      BY <1>0, <1>1, <1>2, <1>5 DEF TypeOK
    <3>3. QED BY <1>0, <1>2, <3>1, <3>2 DEF WritesInv
  <2>2. \A i, j \in Queued' : writes'[i][1] = writes'[j][1] => i = j
    <3> SUFFICES ASSUME NEW i \in Queued', NEW j \in Queued', writes'[i][1] = writes'[j][1]
                 PROVE i = j
      OBVIOUS
    <3>1. /\ writes'[i] = writes[i + 1] /\ i + 1 \in Queued
          /\ writes'[j] = writes[j + 1] /\ j + 1 \in Queued
      BY <1>1, <1>3 DEF Queued
    <3>2. i + 1 = j + 1
      BY <1>0, <3>1 DEF WritesInv
    <3>3. QED BY <1>1, <3>2 DEF Queued
  <2>3. QED BY <2>1, <2>2 DEF WritesInv
<1>7. AgreeInv'
  <2> SUFFICES ASSUME NEW d \in DMs
               PROVE d \in lost \/ row'[d] = shown[d] \/ \E i \in Queued' : writes'[i][1] = d
    BY <1>0, <1>2 DEF AgreeInv
  <2>1. CASE d = writes[1][1]
    BY <1>0, <1>1, <1>2, <1>3, <2>1 DEF WritesInv, TypeOK
  <2>2. CASE d # writes[1][1] /\ \E i \in Queued : writes[i][1] = d
    <3>1. PICK i \in Queued : writes[i][1] = d
      BY <2>2
    <3>2. i - 1 \in Queued' /\ writes'[i - 1] = writes[i]
      BY <1>1, <2>2, <3>1 DEF Queued
    <3>3. QED BY <3>1, <3>2
  <2>3. CASE d # writes[1][1] /\ (d \in lost \/ row[d] = shown[d])
    BY <1>0, <1>1, <1>2, <2>3 DEF TypeOK
  <2>4. QED BY <1>0, <2>1, <2>2, <2>3 DEF AgreeInv
<1>8. QED BY <1>4, <1>6, <1>7

-----------------------------------------------------------------------------

LEMMA InitInvariant == Init => IInv
<1> SUFFICES ASSUME Init PROVE IInv
  OBVIOUS
<1>1. Len(writes) = 0 /\ writes \in Seq(DMs \X Statuses)
  BY EmptySeq DEF Init
<1>2. TypeOK
  BY <1>1, DepthAssumption DEF Init, TypeOK, Places, Statuses, Endings
<1>3. QED BY <1>1, <1>2 DEF Init, IInv, FlightInv, WritesInv, AgreeInv, Queued

\* The chats, the rows and the queue stay consistent whatever the messages do.
THEOREM Invariant == Spec => []IInv
<1>1. IInv /\ [Next]_vars => IInv'
  <2> SUFFICES ASSUME IInv, [Next]_vars PROVE IInv'
    OBVIOUS
  <2>1. TypeOK'
    BY TypeInvariant DEF IInv
  <2>2. FlightInv' /\ WritesInv' /\ AgreeInv'
    BY StepKinds, MovesKeep, SettledKeeps, StoredKeeps, WriteRowKeeps DEF IInv
  <2>3. QED BY <2>1, <2>2 DEF IInv
<1>2. QED BY <1>1, InitInvariant, PTL DEF Spec

\* The state of the messages is well typed and the writer's queue within bounds.
THEOREM TypeCorrect == Spec => []TypeOK
<1>1. IInv => TypeOK
  BY DEF IInv
<1>2. QED BY <1>1, Invariant, PTL

\* With the queue empty and no write refused, a message's row says what its chat
\* says, which is what settled it.
THEOREM RowAndChatAgree == Spec => []RowAgreesWithChat
<1>1. IInv => RowAgreesWithChat
  <2> SUFFICES ASSUME IInv, NEW d \in DMs
               PROVE /\ ended[d] # "none" => (shown[d] = "delivered") <=> (ended[d] = "delivered")
                     /\ writes = << >> /\ d \notin lost => row[d] = shown[d]
    BY DEF RowAgreesWithChat
  <2>1. writes = << >> => Queued = {}
    BY EmptySeq DEF Queued
  <2>2. QED BY <2>1 DEF IInv, AgreeInv
<1>2. QED BY <1>1, Invariant, PTL

\* The chat and the row each tell a message's life as MessageLife has it.
THEOREM OneOutcome == Spec => FirstOutcomeCounts
<1>1. Init => Shown!Init /\ Stored!Init
  BY DEF Init, Shown!Init, Stored!Init
<1>2. IInv /\ [Next]_vars => [Shown!Next]_shown
  <2> SUFFICES ASSUME IInv, [Next]_vars PROVE Shown!Next \/ UNCHANGED shown
    BY DEF Shown!Next
  <2>1. CASE Moves \/ WriteRow
    BY <2>1 DEF Moves, WriteRow
  <2>2. ASSUME NEW d \in DMs, NEW how \in Endings, NEW status \in Statuses,
               SettledAs(d, how, status)
        PROVE Shown!Next
    <3>1. shown[d] = "sending" /\ shown' = [shown EXCEPT ![d] = status]
      BY <2>2 DEF IInv, FlightInv, SettledAs
    <3>2. Shown!Deliver(d) \/ Shown!Fail(d)
      BY <2>2, <3>1 DEF SettledAs, Shown!Deliver, Shown!Fail, Shown!Becomes
    <3>3. QED BY <3>2 DEF Shown!Next
  <2>3. ASSUME NEW d \in DMs, StoreDM(d) PROVE Shown!Next
    <3>1. Shown!Store(d)
      BY <2>3 DEF IInv, FlightInv, StoreDM, Shown!Store, Shown!Becomes
    <3>2. QED BY <3>1 DEF Shown!Next
  <2>4. ASSUME NEW d \in DMs, Begin(d) PROVE UNCHANGED shown
    BY <2>4 DEF Begin
  <2>5. QED BY <2>1, <2>2, <2>3, <2>4, StepKinds DEF IInv
<1>3. IInv /\ [Next]_vars => [Stored!Next]_row
  <2> SUFFICES ASSUME IInv, [Next]_vars PROVE Stored!Next \/ UNCHANGED row
    BY DEF Stored!Next
  <2>1. CASE Moves
    BY <2>1 DEF Moves
  <2>2. ASSUME NEW d \in DMs, NEW how \in Endings, NEW status \in Statuses,
               SettledAs(d, how, status)
        PROVE UNCHANGED row
    BY <2>2 DEF SettledAs
  <2>3. ASSUME NEW d \in DMs, StoreDM(d) PROVE Stored!Next
    <3>1. Stored!Store(d)
      BY <2>3 DEF IInv, FlightInv, StoreDM, Stored!Store, Stored!Becomes
    <3>2. QED BY <3>1 DEF Stored!Next
  <2>4. ASSUME NEW d \in DMs, Begin(d) PROVE UNCHANGED row
    BY <2>4 DEF Begin
  <2>5. CASE WriteRow
    <3> DEFINE w == writes[1]
    <3>1. Head(writes) = w /\ w \in DMs \X Statuses /\ 1 \in Queued
      BY <2>5, QueueNext DEF IInv, TypeOK, WriteRow, Queued
    <3>2. row[w[1]] = "sending" /\ w[2] \in {"delivered", "failed"}
      BY <3>1 DEF IInv, WritesInv
    <3>3. row' = [row EXCEPT ![w[1]] = w[2]]
      BY <2>5, <3>1 DEF WriteRow
    <3>4. Stored!Deliver(w[1]) \/ Stored!Fail(w[1])
      BY <3>2, <3>3 DEF Stored!Deliver, Stored!Fail, Stored!Becomes
    <3>5. QED BY <3>1, <3>4 DEF Stored!Next
  <2>6. QED BY <2>1, <2>2, <2>3, <2>4, <2>5, StepKinds DEF IInv
<1>4. QED BY <1>1, <1>2, <1>3, Invariant, PTL DEF Spec, FirstOutcomeCounts, Shown!Spec, Stored!Spec

-----------------------------------------------------------------------------
(* Routes: a message that is about to drop the contact's route has been    *)
(* sent as often as it may be, and was the first to say how it ended.      *)

\* The direct sends among the first n attempts of a routed message.
DirectAmong(n) == IF n < dmDirectAttempts THEN n ELSE dmDirectAttempts

ExhaustInv ==
  \A d \in DMs :
    /\ pc[d] \in {"idle", "routed", "stored", "begun"} => attempt[d] = 0 /\ direct[d] = 0
    /\ pc[d] \in {"waiting", "timedOut", "resetting"} /\ outPath[d] # NoRoute =>
         attempt[d] + 1 <= dmAttempts /\ direct[d] = DirectAmong(attempt[d] + 1)
    /\ pc[d] = "resetting" =>
         /\ outPath[d] # NoRoute /\ attempt[d] + 1 = dmAttempts
         /\ ended[d] = "exhausted" /\ d \notin inFlight

LEMMA ExhaustInit == Init => ExhaustInv
  BY DEF Init, ExhaustInv

\* A send counts as direct while there are direct attempts left.
LEMMA SendExhaust ==
  ASSUME TypeOK, NEW d \in DMs, NEW n \in Nat, Send(d, n), n < Attempts(d),
         direct[d] = IF outPath[d] # NoRoute THEN DirectAmong(n) ELSE direct[d],
         UNCHANGED <<outPath, inFlight, ended>>,
         ExhaustInv
  PROVE ExhaustInv'
<1> USE AttemptsAssumption
<1>0. /\ pc \in [DMs -> Places] /\ attempt \in [DMs -> Nat] /\ direct \in [DMs -> Nat]
  BY DEF TypeOK
<1>1. CASE Goto(d, "refused") /\ UNCHANGED <<attempt, direct>>
  BY <1>0, <1>1 DEF ExhaustInv, Goto, DirectAmong
<1>2. CASE /\ Goto(d, "waiting") /\ attempt' = [attempt EXCEPT ![d] = n]
           /\ direct' = IF outPath[d] # NoRoute /\ n < dmDirectAttempts
                        THEN [direct EXCEPT ![d] = @ + 1] ELSE direct
  <2>1. \A e \in DMs \ {d} : /\ pc'[e] = pc[e] /\ attempt'[e] = attempt[e]
                             /\ direct'[e] = direct[e]
    BY <1>0, <1>2 DEF Goto
  <2>2. pc'[d] = "waiting" /\ attempt'[d] = n
    BY <1>0, <1>2 DEF Goto
  <2>3. ASSUME outPath[d] # NoRoute
        PROVE n + 1 <= dmAttempts /\ direct'[d] = DirectAmong(n + 1)
    <3>1. n < dmAttempts /\ direct[d] = DirectAmong(n)
      BY <2>3 DEF Attempts
    <3>2. CASE n < dmDirectAttempts
      BY <1>0, <1>2, <2>3, <3>1, <3>2 DEF DirectAmong
    <3>3. CASE ~(n < dmDirectAttempts)
      BY <1>0, <1>2, <2>3, <3>1, <3>3 DEF DirectAmong
    <3>4. QED BY <3>2, <3>3
  <2>4. QED BY <2>1, <2>2, <2>3 DEF ExhaustInv, DirectAmong
<1>3. QED BY <1>1, <1>2 DEF Send

LEMMA ExhaustStep == TypeOK /\ ExhaustInv /\ FlightInv /\ [Next]_vars => ExhaustInv'
<1> USE AttemptsAssumption
<1> SUFFICES ASSUME TypeOK, ExhaustInv, FlightInv, [Next]_vars PROVE ExhaustInv'
  OBVIOUS
<1>0. pc \in [DMs -> Places] /\ attempt \in [DMs -> Nat] /\ ended \in [DMs -> Endings \cup {"none"}]
      /\ outPath \in [DMs -> Routes \cup {NoRoute}] /\ direct \in [DMs -> Nat]
  BY DEF TypeOK
<1>1. ASSUME NEW d \in DMs, FirstSend(d) PROVE ExhaustInv'
  <2>1. attempt[d] = 0 /\ direct[d] = DirectAmong(0) /\ 0 < Attempts(d)
    BY <1>1 DEF FirstSend, ExhaustInv, DirectAmong, Attempts
  <2>2. QED BY <1>1, <2>1, SendExhaust DEF FirstSend
<1>2. ASSUME NEW d \in DMs, Retry(d) PROVE ExhaustInv'
  <2>1. /\ outPath[d] # NoRoute => direct[d] = DirectAmong(attempt[d] + 1)
        /\ attempt[d] + 1 \in Nat
    BY <1>0, <1>2 DEF Retry, ExhaustInv
  <2>2. QED BY <1>2, <2>1, SendExhaust DEF Retry
<1>3. ASSUME NEW d \in DMs, Settle(d, "exhausted") \/ Settle(d, "refused")
                            \/ Settle(d, "delivered") \/ Settle(d, "aborted")
      PROVE /\ \A e \in DMs : e \notin inFlight => ended'[e] = ended[e]
            /\ inFlight' = inFlight \ {d}
  BY <1>0, <1>3 DEF Settle
<1>4. ASSUME NEW d \in DMs, GiveUp(d) PROVE ExhaustInv'
  <2>1. /\ UNCHANGED <<attempt, direct, outPath>> /\ Settle(d, "exhausted")
        /\ pc' = [pc EXCEPT ![d] = IF d \in inFlight /\ outPath[d] # NoRoute
                                   THEN "resetting" ELSE "over"]
    BY <1>4 DEF GiveUp, Goto
  <2>2. ASSUME pc'[d] = "resetting"
        PROVE /\ outPath[d] # NoRoute /\ attempt[d] + 1 = dmAttempts
              /\ direct[d] = DirectAmong(attempt[d] + 1)
              /\ ended'[d] = "exhausted" /\ d \notin inFlight'
    <3>1. d \in inFlight /\ outPath[d] # NoRoute
      BY <1>0, <2>1, <2>2
    <3>2. attempt[d] + 1 >= dmAttempts /\ attempt[d] + 1 <= dmAttempts
      BY <1>4, <3>1 DEF GiveUp, Attempts, ExhaustInv
    <3>3. direct[d] = DirectAmong(attempt[d] + 1)
      BY <1>4, <3>1 DEF GiveUp, ExhaustInv
    <3>4. ended'[d] = "exhausted" /\ d \notin inFlight'
      BY <1>0, <2>1, <3>1 DEF Settle
    <3>5. QED BY <1>0, <3>1, <3>2, <3>3, <3>4
  <2>3. pc'[d] \in {"resetting", "over"}
    BY <1>0, <2>1
  <2>4. \A e \in DMs \ {d} : pc'[e] = pc[e]
    BY <1>0, <2>1
  <2>5. \A e \in DMs : e \notin inFlight => ended'[e] = ended[e] /\ e \notin inFlight'
    BY <1>3, <2>1
  <2>6. QED BY <2>1, <2>2, <2>3, <2>4, <2>5 DEF ExhaustInv, DirectAmong
<1>5. ASSUME NEW d \in DMs, Refused(d) \/ Ack(d) PROVE ExhaustInv'
  <2>1. /\ UNCHANGED <<attempt, direct, outPath>> /\ pc' = [pc EXCEPT ![d] = "over"]
        /\ Settle(d, "refused") \/ Settle(d, "delivered")
    BY <1>5 DEF Refused, Ack, Goto
  <2>2. \A e \in DMs : e \notin inFlight => ended'[e] = ended[e] /\ e \notin inFlight'
    BY <1>3, <2>1
  <2>3. pc'[d] = "over" /\ \A e \in DMs \ {d} : pc'[e] = pc[e]
    BY <1>0, <2>1
  <2>4. QED BY <2>1, <2>2, <2>3 DEF ExhaustInv, DirectAmong
<1>6. ASSUME NEW d \in DMs, Abort(d) PROVE ExhaustInv'
  <2>1. UNCHANGED <<attempt, direct, outPath, pc>> /\ Settle(d, "aborted")
    BY <1>6 DEF Abort
  <2>2. \A e \in DMs : e \notin inFlight => ended'[e] = ended[e] /\ e \notin inFlight'
    BY <1>3, <2>1
  <2>3. QED BY <2>1, <2>2 DEF ExhaustInv, DirectAmong
<1>7. ASSUME NEW d \in DMs, Capture(d) PROVE ExhaustInv'
  BY <1>0, <1>7 DEF Capture, Goto, ExhaustInv, DirectAmong
<1>8. ASSUME NEW d \in DMs, StoreDM(d) \/ Begin(d) PROVE ExhaustInv'
  BY <1>0, <1>8 DEF StoreDM, Begin, Goto, ExhaustInv, DirectAmong
<1>9. ASSUME NEW d \in DMs, Timeout(d) \/ ResetRoute(d) PROVE ExhaustInv'
  BY <1>0, <1>9 DEF Timeout, ResetRoute, Goto, ExhaustInv, DirectAmong
<1>10. CASE StopNode
  BY <1>0, <1>10 DEF StopNode, ExhaustInv, DirectAmong
<1>11. CASE UNCHANGED <<pc, attempt, direct, outPath, ended, inFlight>>
  BY <1>11 DEF ExhaustInv, DirectAmong
<1>12. QED BY <1>1, <1>2, <1>4, <1>5, <1>6, <1>7, <1>8, <1>9, <1>10, <1>11
           DEF Next, Settling, Learn, WriteRow, CollectAborts, AbortsDone, vars

\* A contact's route is dropped only by a routed message that was sent every time
\* it may be, its direct sends among them, and was the first to say how it
\* ended: giveUp's reset never follows a stop, a refused send or a late ACK.
THEOREM RouteKept == Spec => RouteDroppedOnlyWhenExhausted
<1> DEFINE Exhausted == \E d \in DMs : /\ ended[d] = "exhausted"
                                       /\ outPath[d] # NoRoute
                                       /\ attempt[d] = dmAttempts - 1
                                       /\ direct[d] = dmDirectAttempts
           Kept == route # NoRoute /\ route' = NoRoute => Exhausted
<1>1. TypeOK /\ ExhaustInv /\ [Next]_vars => [Kept]_vars
  <2> SUFFICES ASSUME TypeOK, ExhaustInv, [Next]_vars, route # NoRoute, route' = NoRoute
               PROVE Exhausted
    OBVIOUS
  <2>1. PICK d \in DMs : ResetRoute(d)
    <3>1. ASSUME NEW r \in Routes PROVE ~Learn(r)
      BY RouteAssumption DEF Learn
    <3>2. QED BY <3>1 DEF Next, Settling, Capture, StoreDM, Begin, FirstSend, Retry, Refused,
             GiveUp, Timeout, Ack, Abort, WriteRow, StopNode, CollectAborts, AbortsDone, vars
  <2>2. /\ outPath[d] # NoRoute /\ attempt[d] + 1 = dmAttempts /\ ended[d] = "exhausted"
        /\ direct[d] = DirectAmong(attempt[d] + 1) /\ attempt[d] \in Nat
    BY <2>1 DEF ResetRoute, ExhaustInv, TypeOK
  <2>3. attempt[d] = dmAttempts - 1 /\ direct[d] = dmDirectAttempts
    BY <2>2, AttemptsAssumption DEF DirectAmong
  <2>4. QED BY <2>2, <2>3
<1>2. IInv => TypeOK /\ FlightInv
  BY DEF IInv
<1>3. QED BY <1>1, <1>2, ExhaustInit, ExhaustStep, Invariant, PTL
          DEF Spec, RouteDroppedOnlyWhenExhausted
=============================================================================

----------------------------- MODULE RouteTable -----------------------------
(***************************************************************************)
(* The two places a companion keeps its route to a contact: the peer table *)
(* of its node, which every send reads, and the contact's row, which a     *)
(* rebuilt companion starts from.  Routes are learned from path returns    *)
(* (recv.go and client/repeater/handlers.go), dropped by a direct message  *)
(* or a login that got no answer (send.go, login.go), set or reset by the  *)
(* operator (path.go) and hydrated when a companion is built (app.go).     *)
(* All but the operator's SetPeerPath change the table and the row in two  *)
(* steps, on different goroutines.  The table belongs to one companion and *)
(* the row to them all: a login or a request that still holds a stopped    *)
(* companion changes that one's table and the row of the one running now.  *)
(***************************************************************************)
EXTENDS Naturals, Sequences, SequenceTheorems, TLAPS

CONSTANTS
  Routes,            \* routes to the contact
  NoRoute,           \* nil: the route is unknown
  Droppers,          \* sends that drop the route when they get no answer:
  Logins,            \* logins, which Stop does not end, and direct messages
  writerQueueDepth,  \* capacity of the store writer's queue
  MaxChanges,        \* bound: changes begun in a run
  MaxRebuilds        \* bound: rebuilds of the companion in a run

ASSUME RouteAssumption == NoRoute \notin Routes
ASSUME LoginAssumption == Logins \subseteq Droppers
ASSUME DepthAssumption == writerQueueDepth \in Nat

Maybe == Routes \cup {NoRoute}
Idle == [at |-> "idle", route |-> NoRoute]

VARIABLES
  table,     \* the route in the running companion's peer table
  row,       \* the route in the contact's row
  writes,    \* the store writer's queue
  rx,        \* the receive goroutine: idle, or a path return whose row is to come
  dropper,   \* each send: "idle", "trying" (it went along a route), "outlived"
             \* (it still waits, and its companion was stopped), "dropped"
  operator,  \* the operator's request: "idle", "asked", "reset" or "waiting"
  held,      \* the companion the operator's request was given
  boot,      \* building the companion: "up", "built", "draining", "read", "free"
  loaded,    \* the row hydratePeerTables has read
  gen,       \* which companion is running
  changes,   \* changes begun so far
  raced,     \* history: a change began before an earlier one had ended, or the
             \* row's part of one was refused by the queue or by the database
  stale,     \* history: the last change saved was made through a stopped companion
  owed       \* history: the row once all writes queued at the last Stop are in

vars == <<table, row, writes, rx, dropper, operator, held, boot, loaded, gen,
          changes, raced, stale, owed>>

\* A queued closure: "save" writes the row, "set" the row and then the table of
\* companion gen, "barrier" nothing.
Closures == [kind : {"save", "set", "barrier"}, route : Maybe, gen : Nat]

TypeOK ==
  /\ table \in Maybe
  /\ row \in Maybe
  /\ writes \in Seq(Closures) /\ Len(writes) <= writerQueueDepth
  /\ rx \in [at : {"idle", "saving"}, route : Maybe]
  /\ dropper \in [Droppers -> {"idle", "trying", "outlived", "dropped"}]
  /\ operator \in {"idle", "asked", "reset", "waiting"}
  /\ held \in 0..gen
  /\ boot \in {"up", "built", "draining", "read", "free"}
  /\ loaded \in Maybe
  /\ gen \in Nat
  /\ changes \in Nat
  /\ raced \in BOOLEAN
  /\ stale \in BOOLEAN
  /\ owed \in Maybe

Init ==
  /\ row \in Maybe
  /\ table = row
  /\ writes = << >>
  /\ rx = Idle
  /\ dropper = [d \in Droppers |-> "idle"]
  /\ operator = "idle"
  /\ held = 0
  /\ boot = "up"
  /\ loaded = NoRoute
  /\ gen = 0
  /\ changes = 0
  /\ raced = FALSE
  /\ stale = FALSE
  /\ owed = row

-----------------------------------------------------------------------------
Closure(kind, r, g) == [kind |-> kind, route |-> r, gen |-> g]
HasRoom == Len(writes) < writerQueueDepth

\* WriteAsync never waits: a full queue refuses the write.
WriteAsync(c) ==
  \/ HasRoom /\ writes' = Append(writes, c) /\ UNCHANGED raced
  \/ ~HasRoom /\ raced' = TRUE /\ UNCHANGED writes

WriteSync(c) == HasRoom /\ writes' = Append(writes, c)

\* No change is between its two steps and none is queued.
Quiet ==
  /\ writes = << >>
  /\ rx.at = "idle"
  /\ \A d \in Droppers : dropper[d] # "dropped"
  /\ operator \in {"idle", "asked"}
  /\ boot = "up"

\* A change of the route begins.
Change ==
  /\ changes < MaxChanges
  /\ changes' = changes + 1
  /\ raced' = (raced \/ ~Quiet)

\* What most steps leave alone.
Unchanged == UNCHANGED <<loaded, gen, changes, stale, owed>>

-----------------------------------------------------------------------------
(* A path return: the table first, then the row.                           *)

SetOutPath(r) ==
  /\ rx.at = "idle"
  /\ Change
  /\ stale' = FALSE
  /\ table' = r
  /\ rx' = [at |-> "saving", route |-> r]
  /\ UNCHANGED <<row, writes, dropper, operator, held, boot, loaded, gen, owed>>

PersistOutPath ==
  /\ rx.at = "saving"
  /\ rx' = Idle
  /\ WriteAsync(Closure("save", rx.route, gen))
  /\ UNCHANGED <<table, row, dropper, operator, held, boot>> /\ Unchanged

-----------------------------------------------------------------------------
(* A direct message whose attempts all failed, or a login that timed out.  *)

Try(d) ==
  /\ dropper[d] = "idle"
  /\ boot = "up"
  /\ table # NoRoute
  /\ changes < MaxChanges
  /\ dropper' = [dropper EXCEPT ![d] = "trying"]
  /\ UNCHANGED <<table, row, writes, rx, operator, held, boot, raced>> /\ Unchanged

Answered(d) ==
  /\ dropper[d] = "trying"
  /\ dropper' = [dropper EXCEPT ![d] = "idle"]
  /\ UNCHANGED <<table, row, writes, rx, operator, held, boot, raced>> /\ Unchanged

\* The route is dropped from the table of the companion it was sent on: a
\* login that outlived it leaves the running one's alone.
ResetOutPath(d) ==
  /\ dropper[d] \in {"trying", "outlived"}
  /\ Change
  /\ stale' = (dropper[d] = "outlived")
  /\ table' = IF dropper[d] = "trying" THEN NoRoute ELSE table
  /\ dropper' = [dropper EXCEPT ![d] = "dropped"]
  /\ UNCHANGED <<row, writes, rx, operator, held, boot, loaded, gen, owed>>

\* The bug of a drop that is not saved: the route is back after a restart.
SaveDropForgotten(d) ==
  /\ dropper[d] = "dropped"
  /\ dropper' = [dropper EXCEPT ![d] = "idle"]
  /\ UNCHANGED <<table, row, writes, rx, operator, held, boot, raced>> /\ Unchanged

SaveDrop(d) ==
  /\ dropper[d] = "dropped"
  /\ dropper' = [dropper EXCEPT ![d] = "idle"]
  /\ WriteAsync(Closure("save", NoRoute, gen))
  /\ UNCHANGED <<table, row, rx, operator, held, boot>> /\ Unchanged

-----------------------------------------------------------------------------
(* The operator, one request at a time.                                    *)

\* The request is given the companion that runs, and holds it to its end.
Ask ==
  /\ operator = "idle"
  /\ changes < MaxChanges
  /\ operator' = "asked"
  /\ held' = gen
  /\ UNCHANGED <<table, row, writes, rx, dropper, boot, raced>> /\ Unchanged

\* ResetPeerPath: the table, then the row.
ResetPeerPath ==
  /\ operator = "asked"
  /\ Change
  /\ stale' = (held # gen)
  /\ table' = IF held = gen THEN NoRoute ELSE table
  /\ operator' = "reset"
  /\ UNCHANGED <<row, writes, rx, dropper, held, boot, loaded, gen, owed>>

SaveOutPath ==
  /\ operator = "reset"
  /\ WriteSync(Closure("save", NoRoute, held))
  /\ operator' = "waiting"
  /\ UNCHANGED <<table, row, rx, dropper, held, boot, raced>> /\ Unchanged

\* SetPeerPath: both, in one closure.
SetPeerPath(r) ==
  /\ operator = "asked"
  /\ Change
  /\ stale' = (stale \/ held # gen)
  /\ WriteSync(Closure("set", r, held))
  /\ operator' = "waiting"
  /\ UNCHANGED <<table, row, rx, dropper, held, boot, loaded, gen, owed>>

Replied ==
  /\ operator = "waiting"
  /\ writes = << >>
  /\ operator' = "idle"
  /\ UNCHANGED <<table, row, writes, rx, dropper, held, boot, raced>> /\ Unchanged

-----------------------------------------------------------------------------
(* The writer.                                                             *)

\* The closure at the head runs, and the row is saved or is not.  The failure is
\* logged or told to the operator; "set" then leaves the table alone too, and a
\* "save" follows a table that has changed already.
Run ==
  /\ writes # << >>
  /\ LET c == Head(writes) IN
     \/ /\ row' = IF c.kind = "barrier" THEN row ELSE c.route
        /\ table' = IF c.kind = "set" /\ c.gen = gen THEN c.route ELSE table
        /\ stale' = (stale /\ ~(c.kind = "set" /\ c.gen = gen))
        /\ UNCHANGED raced
     \/ /\ c.kind # "barrier"
        /\ raced' = (raced \/ c.kind = "save" \/ boot # "up")
        /\ UNCHANGED <<row, table, stale>>
  /\ writes' = Tail(writes)
  /\ UNCHANGED <<rx, dropper, operator, held, boot, loaded, gen, changes, owed>>

-----------------------------------------------------------------------------
(* A rebuild: the old companion stops, the new one's table is empty and    *)
(* its receive path is live, and hydratePeerTables fills the table in.     *)

\* The row r once the closures of q have run: the last one that writes it wins.
LastRoute(q, r) ==
  LET last == {i \in 1..Len(q) : /\ q[i].kind # "barrier"
                                 /\ \A j \in i + 1 .. Len(q) : q[j].kind = "barrier"}
  IN IF last = {} THEN r ELSE q[CHOOSE i \in last : TRUE].route

\* The main loop rebuilds when it is not rebuilding.  Stop ends the direct
\* messages in flight (abortAll); a login goes on to the end of its wait, and a
\* request with the companion it was given.
Rebuild ==
  /\ boot = "up" /\ gen < MaxRebuilds
  /\ boot' = "built"
  /\ gen' = gen + 1
  /\ table' = NoRoute
  /\ dropper' = [d \in Droppers |-> IF dropper[d] # "trying" THEN dropper[d]
                                    ELSE IF d \in Logins THEN "outlived" ELSE "idle"]
  /\ owed' = LastRoute(writes, row)
  /\ stale' = FALSE
  /\ raced' = (raced \/ rx.at = "saving" \/ operator = "reset"
                     \/ \E d \in Droppers : dropper[d] = "dropped")
  /\ UNCHANGED <<row, writes, rx, operator, held, loaded, changes>>

\* The bug of reading the contacts with no barrier before.
BarrierSkipped ==
  /\ boot = "built"
  /\ boot' = "draining"
  /\ UNCHANGED <<table, row, writes, rx, dropper, operator, held, raced>> /\ Unchanged

\* The empty WriteSync that drains what the old companion left queued.
Barrier ==
  /\ boot = "built"
  /\ WriteSync(Closure("barrier", NoRoute, gen))
  /\ boot' = "draining"
  /\ UNCHANGED <<table, row, rx, dropper, operator, held, raced>> /\ Unchanged

NoBarrierQueued == \A i \in 1..Len(writes) : writes[i].kind # "barrier"

ReadContacts ==
  /\ boot = "draining"
  /\ NoBarrierQueued
  /\ loaded' = row
  /\ boot' = "read"
  /\ UNCHANGED <<table, row, writes, rx, dropper, operator, held, gen, changes,
                 raced, stale, owed>>

\* The peer is looked up, and only one with no route is given the row's.
LookupPeer ==
  /\ boot = "read"
  /\ boot' = IF loaded # NoRoute /\ table = NoRoute THEN "free" ELSE "up"
  /\ UNCHANGED <<table, row, writes, rx, dropper, operator, held, raced>> /\ Unchanged

Hydrate ==
  /\ boot = "free"
  /\ table' = loaded
  /\ boot' = "up"
  /\ UNCHANGED <<row, writes, rx, dropper, operator, held, raced>> /\ Unchanged

-----------------------------------------------------------------------------
Next ==
  \/ \E r \in Routes : SetOutPath(r)
  \/ PersistOutPath
  \/ \E d \in Droppers : Try(d) \/ Answered(d) \/ ResetOutPath(d) \/ SaveDrop(d)
  \/ Ask \/ ResetPeerPath \/ SaveOutPath \/ Replied
  \/ \E r \in Maybe : SetPeerPath(r)
  \/ Run
  \/ Rebuild \/ Barrier \/ ReadContacts \/ LookupPeer \/ Hydrate

Spec == Init /\ [][Next]_vars

-----------------------------------------------------------------------------
\* What a companion sends along is what it will send along after a restart, a
\* rebuild in the middle included.  The table and the row disagree only if two
\* changes overlapped, a row could not be saved, or the last change came from a
\* login or a request that had outlived its companion: that one changes the row
\* under the running companion, until its next change or rebuild.
AgreeUnlessRaced == TypeOK /\ (Quiet /\ ~raced /\ ~stale => table = row)

\* A rebuilt companion reads the row with everything in it that the old one had
\* queued, unless a change was half done or has begun since (app.go:611).
HydratesWhatWasQueued ==
  boot = "read" /\ ~raced => loaded = owed

\* app.go:601: hydration "never overwrites what RX already learned".
HydrateKeepsLearned ==
  [][boot = "free" /\ boot' = "up" => table = NoRoute]_vars
-----------------------------------------------------------------------------
(***************************************************************************)
(* Proofs about a contact's route, for any routes, any number of sends     *)
(* that may drop it, any depth of the writer's queue and any number of     *)
(* rebuilds.  As long as no change has begun before an earlier one ended,  *)
(* the table, the row, the queue and the goroutines between them are in    *)
(* one of eight phases; each says where the one change under way is, and   *)
(* the phases are what the inductive invariant is made of.                 *)
(***************************************************************************)

NoneDropped == \A d \in Droppers : dropper[d] # "dropped"
NoneSaving == rx.at = "idle" /\ NoneDropped
Drained == writes = << >>

\* One closure is queued, and nothing else is.
OneQueued(kind, r) ==
  Len(writes) = 1 /\ writes[1].kind = kind /\ writes[1].route = r

\* The running companion's table is to have route r, unless the change under
\* way is not its own.
TableIs(r) == stale \/ table = r

Settled == /\ Drained /\ NoneSaving /\ boot = "up"
           /\ operator # "reset"
           /\ TableIs(row)

\* A path return has changed the table and not yet queued the row.
Learning == /\ Drained /\ NoneDropped /\ boot = "up" /\ operator \in {"idle", "asked"}
            /\ rx.at = "saving" /\ rx.route = table

\* One send has dropped the route and not yet queued that.
Dropping == /\ Drained /\ rx.at = "idle" /\ boot = "up" /\ operator \in {"idle", "asked"}
            /\ TableIs(NoRoute)
            /\ \E d \in Droppers : /\ dropper[d] = "dropped"
                                   /\ \A e \in Droppers \ {d} : dropper[e] # "dropped"

Resetting == /\ Drained /\ NoneSaving /\ boot = "up" /\ operator = "reset"
             /\ TableIs(NoRoute)

\* The row's write is queued.
Saving == /\ Len(writes) = 1 /\ writes[1].kind = "save" /\ TableIs(writes[1].route)
          /\ NoneSaving /\ boot = "up" /\ operator # "reset"

\* The operator's closure is queued, for the companion its request holds.
Setting == /\ Len(writes) = 1 /\ writes[1].kind = "set" /\ writes[1].gen \in 0..gen
           /\ NoneSaving /\ boot = "up" /\ operator = "waiting"
           /\ stale \/ (writes[1].gen = gen /\ table = row)

\* The head of the queue is a predecessor's, and gives the row the route owed.
HeadOwed == /\ writes[1].kind \in {"save", "set"} /\ writes[1].route = owed
            /\ writes[1].kind = "set" => writes[1].gen \in 0 .. gen - 1

\* A new companion waits behind its barrier for what the old one had queued.
Draining ==
  /\ NoneSaving /\ operator # "reset" /\ table = NoRoute
  /\ \/ boot \in {"built", "draining"} /\ Drained /\ row = owed
     \/ boot = "built" /\ Len(writes) = 1 /\ HeadOwed
     \/ boot = "draining" /\ OneQueued("barrier", NoRoute) /\ row = owed
     \/ /\ boot = "draining"
        /\ Len(writes) = 2 /\ HeadOwed
        /\ writes[2].kind = "barrier" /\ writes[2].route = NoRoute

\* It has read the row and not yet given it to its table.
Hydrating == /\ Drained /\ NoneSaving /\ operator # "reset"
             /\ boot \in {"read", "free"}
             /\ table = NoRoute /\ loaded = row /\ row = owed

Phase == \/ Settled \/ Learning \/ Dropping \/ Resetting
         \/ Saving \/ Setting \/ Draining \/ Hydrating

IInv == TypeOK /\ (~raced => Phase)

-----------------------------------------------------------------------------

\* A queue that takes one more closure keeps its type and those it had.
LEMMA QueueOne ==
  ASSUME TypeOK, NEW c \in Closures, HasRoom, writes' = Append(writes, c)
  PROVE /\ writes' \in Seq(Closures) /\ Len(writes') <= writerQueueDepth
        /\ Len(writes') = Len(writes) + 1 /\ Len(writes) \in Nat
        /\ \A i \in 1..Len(writes) : writes'[i] = writes[i]
        /\ writes'[Len(writes) + 1] = c
BY AppendProperties, DepthAssumption DEF TypeOK, HasRoom

\* A queue that gives up its head moves the others one place up.
LEMMA QueueNext ==
  ASSUME TypeOK, writes # << >>, writes' = Tail(writes)
  PROVE /\ writes' \in Seq(Closures) /\ Len(writes') <= writerQueueDepth
        /\ Len(writes') = Len(writes) - 1 /\ Len(writes) \in Nat \ {0}
        /\ Head(writes) = writes[1] /\ writes[1] \in Closures
        /\ \A i \in 1..Len(writes') : writes'[i] = writes[i + 1]
<1>1. Len(writes) \in Nat \ {0}
  BY EmptySeq, LenProperties DEF TypeOK
<1>2. Head(writes) = writes[1] /\ writes[1] \in Closures
  BY <1>1, HeadTailProperties, ElementOfSeq DEF TypeOK
<1>3. /\ writes' \in Seq(Closures) /\ Len(writes') = Len(writes) - 1
      /\ \A i \in 1..Len(writes') : writes'[i] = writes[i + 1]
  BY <1>1, HeadTailProperties DEF TypeOK
<1>4. Len(writes') <= writerQueueDepth
  BY <1>1, <1>3, DepthAssumption DEF TypeOK
<1>5. QED BY <1>1, <1>2, <1>3, <1>4

\* A queue is drained when it holds nothing.
LEMMA DrainedLength == TypeOK => (Drained <=> Len(writes) = 0)
  BY EmptySeq DEF TypeOK, Drained

\* What the row comes to is the row itself when nothing is queued, and the only
\* save when one is.
LEMMA LastRouteOfFew ==
  ASSUME TypeOK
  PROVE /\ Drained => LastRoute(writes, row) = row
        /\ Len(writes) = 1 /\ writes[1].kind \in {"save", "set"}
             => LastRoute(writes, row) = writes[1].route
<1>1. ASSUME Drained PROVE LastRoute(writes, row) = row
  <2>1. 1..Len(writes) = {}
    BY <1>1, DrainedLength
  <2>2. QED BY <2>1 DEF LastRoute
<1>2. ASSUME Len(writes) = 1, writes[1].kind \in {"save", "set"}
      PROVE  LastRoute(writes, row) = writes[1].route
  <2> DEFINE last == {i \in 1..Len(writes) :
                        /\ writes[i].kind # "barrier"
                        /\ \A j \in i + 1 .. Len(writes) : writes[j].kind = "barrier"}
  <2>1. last = {1}
    BY <1>2
  <2>2. (CHOOSE i \in last : TRUE) = 1 /\ last # {}
    BY <2>1
  <2>3. QED BY <2>2 DEF LastRoute
<1>3. QED BY <1>1, <1>2

\* With nothing under way the table holds what the row does.
LEMMA QuietSettled == TypeOK /\ Phase /\ Quiet => Settled /\ operator \in {"idle", "asked"}
<1> SUFFICES ASSUME TypeOK, Phase, Quiet PROVE Settled
  BY DEF Quiet
<1>1. Len(writes) = 0 /\ rx.at = "idle" /\ NoneDropped /\ operator \in {"idle", "asked"} /\ boot = "up"
  BY DrainedLength DEF Quiet, Drained, NoneDropped
<1>2. QED BY <1>1 DEF Phase, Settled, Learning, Dropping, Resetting, Saving, Setting,
             Draining, Hydrating, NoneSaving, NoneDropped, OneQueued

\* A change that starts unraced starts from rest.
LEMMA ChangeSettled ==
  ASSUME IInv, Change, ~raced'
  PROVE Settled /\ operator \in {"idle", "asked"} /\ ~raced
BY QuietSettled DEF IInv, Change

-----------------------------------------------------------------------------

\* The state keeps its type in every step.
LEMMA TypeInvariant == TypeOK /\ [Next]_vars => TypeOK'
<1> SUFFICES ASSUME TypeOK, [Next]_vars PROVE TypeOK'
  OBVIOUS
<1>0. \A kind \in {"save", "set", "barrier"}, r \in Maybe, g \in 0..gen :
        Closure(kind, r, g) \in Closures
  BY DEF Closure, Closures, TypeOK
<1>00. NoRoute \in Maybe /\ Routes \subseteq Maybe /\ gen \in 0..gen
  BY DEF Maybe, TypeOK
<1>1. ASSUME NEW c \in Closures, WriteAsync(c) \/ WriteSync(c)
      PROVE /\ writes' \in Seq(Closures) /\ Len(writes') <= writerQueueDepth
            /\ WriteAsync(c) => raced' \in BOOLEAN
  <2>1. CASE HasRoom /\ writes' = Append(writes, c)
    BY <2>1, QueueOne DEF WriteAsync, TypeOK
  <2>2. CASE WriteAsync(c) /\ ~HasRoom
    BY <2>2 DEF WriteAsync, TypeOK, HasRoom
  <2>3. QED BY <1>1, <2>1, <2>2 DEF WriteAsync, WriteSync
<1>2. Change => changes' \in Nat /\ raced' \in BOOLEAN
  BY DEF Change, TypeOK, Quiet
<1>3. ASSUME NEW r \in Routes, SetOutPath(r) PROVE TypeOK'
  BY <1>00, <1>2, <1>3 DEF SetOutPath, TypeOK
<1>4. CASE PersistOutPath
  <2>1. rx.route \in Maybe /\ Idle \in [at : {"idle", "saving"}, route : Maybe]
    BY <1>00 DEF TypeOK, Idle
  <2>2. Closure("save", rx.route, gen) \in Closures
    BY <1>0, <1>00, <2>1
  <2>3. /\ writes' \in Seq(Closures) /\ Len(writes') <= writerQueueDepth
        /\ raced' \in BOOLEAN
    BY <1>1, <1>4, <2>2 DEF PersistOutPath
  <2>4. QED BY <1>4, <2>1, <2>3 DEF PersistOutPath, Unchanged, TypeOK
<1>5. ASSUME NEW d \in Droppers, Try(d) \/ Answered(d) PROVE TypeOK'
  BY <1>5 DEF Try, Answered, Unchanged, TypeOK
<1>6. ASSUME NEW d \in Droppers, ResetOutPath(d) PROVE TypeOK'
  BY <1>00, <1>2, <1>6 DEF ResetOutPath, TypeOK
<1>7. ASSUME NEW d \in Droppers, SaveDrop(d) PROVE TypeOK'
  <2>1. Closure("save", NoRoute, gen) \in Closures
    BY <1>0, <1>00
  <2>2. /\ writes' \in Seq(Closures) /\ Len(writes') <= writerQueueDepth
        /\ raced' \in BOOLEAN
    BY <1>1, <1>7, <2>1 DEF SaveDrop
  <2>3. QED BY <1>7, <2>2 DEF SaveDrop, Unchanged, TypeOK
<1>8. CASE ResetPeerPath
  BY <1>00, <1>2, <1>8 DEF ResetPeerPath, TypeOK
<1>9. CASE SaveOutPath
  <2>1. Closure("save", NoRoute, held) \in Closures
    BY <1>0, <1>00 DEF TypeOK
  <2>2. writes' \in Seq(Closures) /\ Len(writes') <= writerQueueDepth
    BY <1>1, <1>9, <2>1 DEF SaveOutPath
  <2>3. QED BY <1>9, <2>2 DEF SaveOutPath, Unchanged, TypeOK
<1>10. ASSUME NEW r \in Maybe, SetPeerPath(r) PROVE TypeOK'
  <2>1. Closure("set", r, held) \in Closures
    BY <1>0 DEF TypeOK
  <2>2. writes' \in Seq(Closures) /\ Len(writes') <= writerQueueDepth
    BY <1>1, <1>10, <2>1 DEF SetPeerPath
  <2>3. QED BY <1>2, <1>10, <2>2 DEF SetPeerPath, TypeOK
<1>11. CASE Replied \/ Ask
  BY <1>00, <1>11 DEF Replied, Ask, Unchanged, TypeOK
<1>12. CASE Run
  <2>1. /\ writes' \in Seq(Closures) /\ Len(writes') <= writerQueueDepth
        /\ Head(writes) \in Closures
    BY <1>12, QueueNext DEF Run
  <2>2. Head(writes).route \in Maybe
    BY <2>1 DEF Closures
  <2>3. row' \in Maybe /\ table' \in Maybe /\ raced' \in BOOLEAN /\ stale' \in BOOLEAN
    BY <1>12, <2>2 DEF Run, TypeOK
  <2>4. QED BY <1>12, <2>1, <2>3 DEF Run, TypeOK
<1>13. CASE Rebuild
  <2>1. LastRoute(writes, row) \in Maybe
    <3> DEFINE last == {i \in 1..Len(writes) :
                          /\ writes[i].kind # "barrier"
                          /\ \A j \in i + 1 .. Len(writes) : writes[j].kind = "barrier"}
    <3>1. CASE last = {}
      BY <3>1 DEF LastRoute, TypeOK
    <3>2. CASE last # {}
      <4>1. (CHOOSE i \in last : TRUE) \in 1..Len(writes)
        BY <3>2
      <4>2. \A i \in 1..Len(writes) : writes[i] \in Closures
        BY ElementOfSeq DEF TypeOK
      <4>3. \A c \in Closures : c.route \in Maybe
        BY DEF Closures
      <4>4. QED BY <3>2, <4>1, <4>2, <4>3 DEF LastRoute
    <3>3. QED BY <3>1, <3>2
  <2>2. /\ dropper' \in [Droppers -> {"idle", "trying", "outlived", "dropped"}]
        /\ gen' \in Nat /\ held' \in 0..gen'
    BY <1>13 DEF Rebuild, TypeOK
  <2>3. raced' \in BOOLEAN /\ stale' \in BOOLEAN
    BY <1>13 DEF Rebuild, TypeOK
  <2>4. QED BY <1>00, <1>13, <2>1, <2>2, <2>3 DEF Rebuild, TypeOK
<1>14. CASE Barrier
  <2>1. Closure("barrier", NoRoute, gen) \in Closures
    BY <1>0, <1>00
  <2>2. writes' \in Seq(Closures) /\ Len(writes') <= writerQueueDepth
    BY <1>1, <1>14, <2>1 DEF Barrier
  <2>3. QED BY <1>14, <2>2 DEF Barrier, Unchanged, TypeOK
<1>15. CASE ReadContacts \/ LookupPeer \/ Hydrate
  BY <1>15 DEF ReadContacts, LookupPeer, Hydrate, Unchanged, TypeOK
<1>16. CASE UNCHANGED vars
  BY <1>16 DEF vars, TypeOK
<1>17. QED BY <1>3, <1>4, <1>5, <1>6, <1>7, <1>8, <1>9, <1>10, <1>11, <1>12, <1>13,
              <1>14, <1>15, <1>16 DEF Next

-----------------------------------------------------------------------------
(* Which phase each step finds, and which it leaves.                       *)

\* A closure queued in a drained queue is the only one.
LEMMA FirstQueued ==
  ASSUME TypeOK, Drained, NEW kind \in {"save", "set", "barrier"}, NEW r \in Maybe,
         NEW g \in 0..gen, HasRoom, writes' = Append(writes, Closure(kind, r, g))
  PROVE /\ OneQueued(kind, r)'
        /\ writes'[1].gen = g
<1>1. Closure(kind, r, g) \in Closures
  BY DEF Closure, Closures, TypeOK
<1>2. Len(writes) = 0
  BY DrainedLength
<1>3. Len(writes') = 1 /\ writes'[1] = Closure(kind, r, g)
  BY <1>1, <1>2, QueueOne
<1>4. QED BY <1>3 DEF OneQueued, Closure

\* A change that is unraced begins in Settled and leaves in a phase of its own.
LEMMA ChangesPhase ==
  ASSUME IInv, ~raced',
         \/ \E r \in Routes : SetOutPath(r)
         \/ \E d \in Droppers : ResetOutPath(d)
         \/ ResetPeerPath
         \/ \E r \in Maybe : SetPeerPath(r)
  PROVE Phase'
<1>0. TypeOK
  BY DEF IInv
<1>1. ASSUME NEW r \in Routes, SetOutPath(r) PROVE Phase'
  <2>1. Settled /\ operator \in {"idle", "asked"}
    BY <1>1, ChangeSettled DEF SetOutPath
  <2>2. Learning'
    BY <1>1, <2>1 DEF SetOutPath, Settled, Learning, NoneSaving, NoneDropped, Drained
  <2>3. QED BY <2>2 DEF Phase
<1>2. ASSUME NEW d \in Droppers, ResetOutPath(d) PROVE Phase'
  <2>1. Settled /\ operator \in {"idle", "asked"}
    BY <1>2, ChangeSettled DEF ResetOutPath
  <2>0. TableIs(NoRoute)'
    BY <1>0, <1>2 DEF ResetOutPath, TableIs, TypeOK
  <2>2. dropper'[d] = "dropped" /\ \A e \in Droppers \ {d} : dropper'[e] # "dropped"
    BY <1>0, <1>2, <2>1 DEF ResetOutPath, Settled, NoneSaving, NoneDropped, TypeOK
  <2>3. Dropping'
    BY <1>2, <2>0, <2>1, <2>2 DEF ResetOutPath, Settled, Dropping, NoneSaving, Drained
  <2>4. QED BY <2>3 DEF Phase
<1>3. CASE ResetPeerPath
  <2>1. Settled
    BY <1>3, ChangeSettled DEF ResetPeerPath
  <2>0. TableIs(NoRoute)'
    BY <1>0, <1>3 DEF ResetPeerPath, TableIs, TypeOK
  <2>2. Resetting'
    BY <1>3, <2>0, <2>1 DEF ResetPeerPath, Settled, Resetting, NoneSaving, NoneDropped, Drained
  <2>3. QED BY <2>2 DEF Phase
<1>4. ASSUME NEW r \in Maybe, SetPeerPath(r) PROVE Phase'
  <2>1. Settled
    BY <1>4, ChangeSettled DEF SetPeerPath
  <2>2. OneQueued("set", r)' /\ writes'[1].gen = held
    BY <1>0, <1>4, <2>1, FirstQueued DEF SetPeerPath, WriteSync, Settled, TypeOK
  <2>3. Setting'
    BY <1>0, <1>4, <2>1, <2>2
    DEF SetPeerPath, Settled, Setting, OneQueued, NoneSaving, NoneDropped, TableIs, TypeOK
  <2>4. QED BY <2>3 DEF Phase
<1>5. QED BY <1>1, <1>2, <1>3, <1>4

\* The second step of a change queues the route the first put in the table.
LEMMA SavesPhase ==
  ASSUME TypeOK, Phase, ~raced',
         PersistOutPath \/ SaveOutPath \/ \E d \in Droppers : SaveDrop(d)
  PROVE Phase'
<1>0. NoRoute \in Maybe /\ gen \in 0..gen /\ held \in 0..gen /\ (Drained <=> Len(writes) = 0)
  BY DrainedLength DEF Maybe, TypeOK
<1>1. CASE PersistOutPath
  <2>1. Learning
    BY <1>1 DEF PersistOutPath, Phase, Settled, Dropping, Resetting, Saving, Setting,
       Draining, Hydrating, NoneSaving
  <2>2. PICK r \in Maybe : r = rx.route
    BY DEF TypeOK
  <2>3. HasRoom /\ writes' = Append(writes, Closure("save", r, gen))
    BY <1>1, <2>2 DEF PersistOutPath, WriteAsync
  <2>4. OneQueued("save", r)' /\ table' = r
    BY <1>0, <1>1, <2>1, <2>2, <2>3, FirstQueued DEF Learning, PersistOutPath
  <2>5. Saving'
    BY <1>1, <2>1, <2>4
    DEF PersistOutPath, Unchanged, Learning, Saving, OneQueued, NoneSaving, NoneDropped,
        TableIs, Idle
  <2>6. QED BY <2>5 DEF Phase
<1>2. CASE SaveOutPath
  <2>1. Resetting
    BY <1>2 DEF SaveOutPath, Phase, Settled, Learning, Dropping, Saving, Setting,
       Draining, Hydrating
  <2>2. OneQueued("save", NoRoute)'
    BY <1>0, <1>2, <2>1, FirstQueued DEF SaveOutPath, WriteSync, Resetting
  <2>3. Saving'
    BY <1>2, <2>1, <2>2
    DEF SaveOutPath, Unchanged, Resetting, Saving, OneQueued, NoneSaving, NoneDropped, TableIs
  <2>4. QED BY <2>3 DEF Phase
<1>3. ASSUME NEW d \in Droppers, SaveDrop(d) PROVE Phase'
  <2>1. Dropping
    BY <1>3 DEF SaveDrop, Phase, Settled, Learning, Resetting, Saving, Setting,
       Draining, Hydrating, NoneSaving, NoneDropped
  <2>2. HasRoom /\ writes' = Append(writes, Closure("save", NoRoute, gen))
    BY <1>3 DEF SaveDrop, WriteAsync
  <2>3. OneQueued("save", NoRoute)'
    BY <1>0, <2>1, <2>2, FirstQueued DEF Dropping
  <2>4. \A e \in Droppers : dropper'[e] # "dropped"
    BY <1>3, <2>1 DEF SaveDrop, Dropping, TypeOK
  <2>5. Saving'
    BY <1>3, <2>1, <2>3, <2>4
    DEF SaveDrop, Unchanged, Dropping, Saving, OneQueued, NoneSaving, NoneDropped, TableIs
  <2>6. QED BY <2>5 DEF Phase
<1>4. QED BY <1>1, <1>2, <1>3

\* The writer ends the one change under way, or brings the row up to date for
\* the companion that waits.
LEMMA RunPhase ==
  ASSUME TypeOK, Phase, Run, ~raced'
  PROVE Phase'
<1>1. /\ Len(writes') = Len(writes) - 1 /\ Len(writes) \in Nat \ {0}
      /\ Head(writes) = writes[1]
      /\ \A i \in 1..Len(writes') : writes'[i] = writes[i + 1]
      /\ TypeOK'
  BY QueueNext, TypeInvariant DEF Run, Next
<1>2. (Len(writes') = 0 => Drained') /\ ~Drained
  <2>1. writes' \in Seq(Closures)
    BY <1>1 DEF TypeOK
  <2>2. QED BY <1>1, <2>1, EmptySeq DEF Drained, Run
<1>3. CASE Saving
  <2>0. row' = writes[1].route /\ table' = table /\ (stale => stale')
    BY <1>1, <1>3 DEF Run, Saving
  <2>1. Settled'
    BY <1>1, <1>2, <1>3, <2>0 DEF Run, Saving, Settled, NoneSaving, NoneDropped, TableIs
  <2>2. QED BY <2>1 DEF Phase
<1>4. CASE Setting
  <2>0. TableIs(row)'
    <3>1. CASE row' = writes[1].route /\ writes[1].gen = gen
      BY <1>1, <1>4, <3>1 DEF Run, Setting, TableIs
    <3>2. CASE UNCHANGED <<row, table, stale>>
      BY <1>4, <3>2 DEF Setting, TableIs
    <3>3. CASE UNCHANGED <<table, stale>> /\ writes[1].gen # gen
      BY <1>4, <3>3 DEF Setting, TableIs
    <3>4. QED BY <1>1, <1>4, <3>1, <3>2, <3>3 DEF Run, Setting
  <2>1. Settled'
    BY <1>1, <1>2, <1>4, <2>0 DEF Run, Setting, Settled, NoneSaving, NoneDropped
  <2>2. QED BY <2>1 DEF Phase
<1>5. CASE Draining
  <2>1. UNCHANGED <<rx, dropper, operator, boot, owed, gen>>
    BY DEF Run
  <2>2. NoneSaving' /\ operator' # "reset"
    BY <1>5, <2>1 DEF Draining, NoneSaving, NoneDropped
  <2>0. boot # "up" /\ table = NoRoute
    BY <1>5 DEF Draining
  <2>6. HeadOwed => row' = owed /\ table' = NoRoute
    BY <1>1, <2>0 DEF Run, HeadOwed, TypeOK
  <2>3. CASE Len(writes) = 1 /\ HeadOwed /\ boot = "built"
    <3>1. Len(writes') = 0
      BY <1>1, <2>3
    <3>2. QED BY <1>2, <2>1, <2>2, <2>3, <2>6, <3>1 DEF Draining, Phase
  <2>4. CASE boot = "draining" /\ OneQueued("barrier", NoRoute) /\ row = owed
    <3>1. Len(writes') = 0 /\ row' = owed /\ table' = NoRoute
      BY <1>1, <1>5, <2>4 DEF Run, OneQueued, Draining
    <3>2. QED BY <1>2, <2>1, <2>2, <2>4, <3>1 DEF Draining, Phase
  <2>5. CASE /\ boot = "draining"
             /\ Len(writes) = 2 /\ HeadOwed
             /\ writes[2].kind = "barrier"
             /\ writes[2].route = NoRoute
    <3>1. OneQueued("barrier", NoRoute)'
      BY <1>1, <2>5 DEF OneQueued
    <3>2. QED BY <2>1, <2>2, <2>5, <2>6, <3>1 DEF Draining, Phase
  <2>7. QED BY <1>2, <1>5, <2>3, <2>4, <2>5 DEF Draining
<1>6. QED BY <1>2, <1>3, <1>4, <1>5 DEF Phase, Settled, Learning, Dropping, Resetting, Hydrating

\* Stopping finds nothing, or one row queued, which is what the row comes to.
LEMMA RebuildPhase ==
  ASSUME TypeOK, Phase, Rebuild, ~raced'
  PROVE Phase'
<1>1. rx.at = "idle" /\ NoneDropped /\ operator # "reset" /\ gen \in Nat
  BY DEF Rebuild, TypeOK, NoneDropped
<1>2. Settled \/ Saving \/ Setting
  BY <1>1 DEF Rebuild, Phase, Learning, Dropping, Resetting, Draining, Hydrating, NoneDropped
<1>3. /\ NoneSaving' /\ operator' # "reset" /\ table' = NoRoute /\ boot' = "built"
      /\ gen' = gen + 1 /\ writes' = writes
  BY <1>1 DEF Rebuild, NoneSaving, NoneDropped, TypeOK
<1>4. CASE Settled
  <2>1. owed' = row' /\ Drained'
    BY <1>4, LastRouteOfFew DEF Rebuild, Settled, Drained
  <2>2. QED BY <1>3, <2>1 DEF Draining, Phase
<1>5. CASE Saving \/ Setting
  <2>1. /\ Len(writes) = 1 /\ writes[1].kind \in {"save", "set"}
        /\ writes[1].kind = "set" => writes[1].gen \in 0..gen
    BY <1>5 DEF Saving, Setting
  <2>2. owed' = writes[1].route
    BY <2>1, LastRouteOfFew DEF Rebuild
  <2>3. HeadOwed'
    BY <1>1, <1>3, <2>1, <2>2 DEF HeadOwed
  <2>4. QED BY <1>3, <2>1, <2>3 DEF Draining, Phase
<1>6. QED BY <1>2, <1>4, <1>5

\* The new companion's barrier goes behind what it waits for.
LEMMA BarrierPhase ==
  ASSUME TypeOK, Phase, Barrier
  PROVE Phase'
<1>1. Draining /\ boot = "built"
  BY DEF Barrier, Phase, Settled, Learning, Dropping, Resetting, Saving, Setting, Hydrating
<1>2. NoneSaving' /\ operator' # "reset" /\ table' = NoRoute /\ boot' = "draining"
      /\ UNCHANGED <<row, owed, gen>>
  BY <1>1 DEF Barrier, Unchanged, Draining, NoneSaving, NoneDropped
<1>3. Closure("barrier", NoRoute, gen) \in Closures /\ NoRoute \in Maybe /\ gen \in 0..gen
  BY DEF Closure, Closures, TypeOK, Maybe
<1>4. CASE Drained
  <2>1. OneQueued("barrier", NoRoute)'
    BY <1>3, <1>4, FirstQueued DEF Barrier, WriteSync
  <2>2. row = owed
    BY <1>1, <1>4, DrainedLength DEF Draining, OneQueued
  <2>3. QED BY <1>2, <2>1, <2>2 DEF Draining, Phase
<1>5. CASE Len(writes) = 1 /\ HeadOwed
  <2>1. /\ Len(writes') = 2 /\ writes'[1] = writes[1]
        /\ writes'[2] = Closure("barrier", NoRoute, gen)
    BY <1>3, <1>5, QueueOne DEF Barrier, WriteSync
  <2>2. HeadOwed'
    BY <1>2, <1>5, <2>1 DEF HeadOwed
  <2>3. QED BY <1>2, <2>1, <2>2 DEF Draining, Phase, Closure
<1>6. QED BY <1>1, <1>4, <1>5 DEF Draining

LEMMA StepPhase == IInv /\ [Next]_vars /\ ~raced' => Phase'
<1> SUFFICES ASSUME IInv, [Next]_vars, ~raced' PROVE Phase'
  OBVIOUS
<1>0. TypeOK
  BY DEF IInv
<1>1. CASE \/ \E r \in Routes : SetOutPath(r)
           \/ \E d \in Droppers : ResetOutPath(d)
           \/ ResetPeerPath
           \/ \E r \in Maybe : SetPeerPath(r)
  BY <1>1, ChangesPhase
<1>2. ASSUME ~(\/ \E r \in Routes : SetOutPath(r)
               \/ \E d \in Droppers : ResetOutPath(d)
               \/ ResetPeerPath
               \/ \E r \in Maybe : SetPeerPath(r))
      PROVE Phase
  <2>1. ~raced
    BY <1>2 DEF Next, PersistOutPath, Try, Answered, SaveDrop, SaveOutPath, Replied, Run,
       Rebuild, Ask, Barrier, ReadContacts, LookupPeer, Hydrate, WriteAsync, vars, TypeOK
  <2>2. QED BY <2>1 DEF IInv
<1>3. CASE PersistOutPath \/ SaveOutPath \/ \E d \in Droppers : SaveDrop(d)
  BY <1>0, <1>1, <1>2, <1>3, SavesPhase
<1>4. CASE Run
  BY <1>0, <1>1, <1>2, <1>4, RunPhase
<1>5. CASE Rebuild
  BY <1>0, <1>1, <1>2, <1>5, RebuildPhase
<1>6. CASE Barrier
  BY <1>0, <1>1, <1>2, <1>6, BarrierPhase
<1>7. ASSUME Phase, NEW d \in Droppers, Try(d) \/ Answered(d) PROVE Phase'
  <2>1. \A e \in Droppers : dropper'[e] = "dropped" <=> dropper[e] = "dropped"
    BY <1>0, <1>7 DEF Try, Answered, TypeOK
  <2>2. UNCHANGED <<table, row, writes, rx, operator, boot, loaded, gen, stale, owed>>
    BY <1>7 DEF Try, Answered, Unchanged
  <2>3. NoneDropped' <=> NoneDropped
    BY <2>1 DEF NoneDropped
  <2>4. Dropping => Dropping'
    BY <2>1, <2>2 DEF Dropping, Drained, TableIs
  <2>5. Draining => Draining'
    BY <2>2, <2>3 DEF Draining, NoneSaving, Drained, OneQueued, HeadOwed
  <2>6. Dropping \/ Draining => Phase'
    BY <2>4, <2>5 DEF Phase
  <2>7. QED BY <1>7, <2>2, <2>3, <2>6
        DEF Phase, Settled, Learning, Resetting, Saving, Setting, Hydrating,
            NoneSaving, Drained, TableIs
<1>8. ASSUME Phase, Replied \/ Ask PROVE Phase'
  <2>1. /\ operator # "reset" /\ operator' \in {"idle", "asked"}
        /\ operator = "waiting" => Drained
    BY <1>8 DEF Replied, Ask, Drained
  <2>2. UNCHANGED <<table, row, writes, rx, dropper, boot, loaded, gen, stale, owed>>
    BY <1>8 DEF Replied, Ask, Unchanged
  <2>3. Drained => ~Setting
    BY <1>0, DrainedLength DEF Setting
  <2>4. ~Resetting /\ ~Setting
    BY <1>8, <2>1, <2>3 DEF Resetting, Setting
  <2>5. (NoneSaving' <=> NoneSaving) /\ (NoneDropped' <=> NoneDropped) /\ (Drained' <=> Drained)
    BY <2>2 DEF NoneSaving, NoneDropped, Drained
  <2>6. QED BY <1>8, <2>1, <2>2, <2>4, <2>5
        DEF Phase, Settled, Learning, Dropping, Saving, Draining, Hydrating,
            OneQueued, HeadOwed, TableIs
<1>9. ASSUME Phase, ReadContacts PROVE Phase'
  <2>1. Draining /\ boot = "draining"
    BY <1>9 DEF ReadContacts, Phase, Settled, Learning, Dropping, Resetting, Saving,
       Setting, Hydrating
  <2>2. Drained /\ row = owed
    BY <1>9, <2>1 DEF ReadContacts, NoBarrierQueued, Draining, OneQueued
  <2>3. Hydrating'
    BY <1>9, <2>1, <2>2 DEF ReadContacts, Draining, Hydrating, NoneSaving, NoneDropped, Drained
  <2>4. QED BY <2>3 DEF Phase
<1>10. ASSUME Phase, LookupPeer \/ Hydrate PROVE Phase'
  <2>1. Hydrating
    BY <1>10 DEF LookupPeer, Hydrate, Phase, Settled, Learning, Dropping, Resetting,
       Saving, Setting, Draining
  <2>2. Settled' \/ Hydrating'
    BY <1>10, <2>1 DEF LookupPeer, Hydrate, Unchanged, Hydrating, Settled, NoneSaving,
       NoneDropped, Drained, TableIs
  <2>3. QED BY <2>2 DEF Phase
<1>11. ASSUME Phase, UNCHANGED vars PROVE Phase'
  BY <1>11 DEF vars, Phase, Settled, Learning, Dropping, Resetting, Saving, Setting,
     Draining, Hydrating, NoneSaving, NoneDropped, Drained, OneQueued, HeadOwed, TableIs
<1>12. QED BY <1>1, <1>2, <1>3, <1>4, <1>5, <1>6, <1>7, <1>8, <1>9, <1>10, <1>11 DEF Next

LEMMA InitInv == Init => IInv
<1> SUFFICES ASSUME Init PROVE IInv
  OBVIOUS
<1>1. Idle \in [at : {"idle", "saving"}, route : Maybe] /\ NoRoute \in Maybe
  BY DEF Idle, Maybe
<1>2. writes \in Seq(Closures) /\ Len(writes) <= writerQueueDepth
  BY DepthAssumption, EmptySeq DEF Init
<1>20. gen \in Nat /\ changes \in Nat /\ held \in 0..gen
  BY DEF Init
<1>3. TypeOK
  BY <1>1, <1>2, <1>20 DEF Init, TypeOK
<1>4. Settled
  BY DEF Init, Settled, Drained, NoneSaving, NoneDropped, Idle, TableIs
<1>5. QED BY <1>3, <1>4 DEF IInv, Phase

\* Until two changes overlap, the table, the row and the queue are in one of
\* the eight phases.
THEOREM Invariant == Spec => []IInv
<1>1. IInv /\ [Next]_vars => IInv'
  BY TypeInvariant, StepPhase DEF IInv
<1>2. QED BY <1>1, InitInv, PTL DEF Spec

\* What a companion sends along is what it will send along after a restart,
\* unless two changes overlapped, a row was not saved, or the last change came
\* from a login or a request that had outlived its companion.
THEOREM TableAndRowAgree == Spec => []AgreeUnlessRaced
<1>1. IInv => AgreeUnlessRaced
  <2> SUFFICES ASSUME IInv, Quiet, ~raced, ~stale PROVE table = row
    BY DEF IInv, AgreeUnlessRaced
  <2>1. Settled
    BY QuietSettled DEF IInv
  <2>2. QED BY <2>1 DEF Settled, TableIs
<1>2. QED BY <1>1, Invariant, PTL

\* A rebuilt companion starts from everything its predecessor had queued: the
\* barrier of hydratePeerTables does what its comment says.
THEOREM HydrationComplete == Spec => []HydratesWhatWasQueued
<1>1. IInv => HydratesWhatWasQueued
  BY DEF IInv, HydratesWhatWasQueued, Phase, Settled, Learning, Dropping, Resetting,
     Saving, Setting, Draining, Hydrating
<1>2. QED BY <1>1, Invariant, PTL
=============================================================================

------------------------------- MODULE Poller -------------------------------
(***************************************************************************)
(* The node monitor (internal/monitor/monitor.go): one scheduler polls the *)
(* monitored nodes that are due, one collector round trip at a time, with  *)
(* a pause between two; PollNow polls one out of turn, PollSoon makes one  *)
(* due, and a signal test may borrow the airtime lock.                     *)
(***************************************************************************)
EXTENDS Naturals, Sequences, FiniteSets, SequencesExt, FiniteSetTheorems, SequenceTheorems, TLAPS

CONSTANTS
  Nodes,        \* nodes that may be monitored
  Requests,     \* calls of PollNow
  MaxRetries,   \* failed re-attempts before the normal interval
  NoOne         \* neither a node nor a caller

ASSUME NodesAssumption == IsFiniteSet(Nodes)
ASSUME RetriesAssumption == MaxRetries \in Nat
ASSUME NoOneAssumption == NoOne \notin Nodes \cup Requests \cup {"cycle", "tester"}
ASSUME CallersAssumption == {"cycle", "tester"} \cap Requests = {}

VARIABLES
  monitored,  \* the nodes the lister gives
  nextDue,    \* the wait set for each node: "none" when due, "retry", "interval"
  failures,   \* consecutive failed polls of each
  soon,       \* nodes asked for again while being polled
  inFlight,   \* the node being polled, as Service knows it
  pollMu,     \* who holds the airtime lock
  cycle,      \* where runCycle is
  todo,       \* the targets it has still to look at
  turn,       \* the node it is at
  rested,     \* the next poll of this cycle follows no other
  now,        \* where each PollNow is
  wanted,     \* the node each PollNow is for
  asked,      \* history: nodes a PollSoon has not been answered for yet
  crossed     \* history: a PollNow got in before the scheduler's poll was accounted for

vars == <<monitored, nextDue, failures, soon, inFlight, pollMu, cycle, todo, turn,
          rested, now, wanted, asked, crossed>>

Callers == {"cycle", "tester"} \cup Requests

TypeOK ==
  /\ monitored \subseteq Nodes
  /\ nextDue \in [Nodes -> {"none", "retry", "interval"}]
  /\ failures \in [Nodes -> 0..MaxRetries]
  /\ soon \subseteq Nodes
  /\ inFlight \in Nodes \cup {NoOne}
  /\ pollMu \in Callers \cup {NoOne}
  /\ cycle \in {"idle", "looking", "resting", "locking", "polling", "failed", "polled"}
  /\ todo \in Seq(Nodes)
  /\ turn \in Nodes \cup {NoOne}
  /\ rested \in BOOLEAN
  /\ now \in [Requests -> {"idle", "listing", "polling", "over"}]
  /\ wanted \in [Requests -> Nodes \cup {NoOne}]
  /\ asked \subseteq Nodes
  /\ crossed \in BOOLEAN

Init ==
  /\ monitored = Nodes
  /\ nextDue = [n \in Nodes |-> "none"]
  /\ failures = [n \in Nodes |-> 0]
  /\ soon = {} /\ inFlight = NoOne /\ pollMu = NoOne
  /\ cycle = "idle" /\ todo = << >> /\ turn = NoOne /\ rested = TRUE
  /\ now = [c \in Requests |-> "idle"]
  /\ wanted = [c \in Requests |-> NoOne]
  /\ asked = {} /\ crossed = FALSE

-----------------------------------------------------------------------------
(* What both kinds of poll share.                                          *)

StartPoll(n) ==
  /\ inFlight' = n
  /\ asked' = asked \ {n}

rescheduleAfter(n, ok) ==
  /\ inFlight' = NoOne
  /\ soon' = soon \ {n}
  /\ IF n \in soon
     THEN nextDue' = [nextDue EXCEPT ![n] = "none"] /\ UNCHANGED failures
     ELSE LET retry == ~ok /\ failures[n] < MaxRetries IN
          /\ failures' = [failures EXCEPT ![n] = IF retry THEN @ + 1 ELSE 0]
          /\ nextDue' = [nextDue EXCEPT ![n] = IF retry THEN "retry" ELSE "interval"]

-----------------------------------------------------------------------------
(* runCycle.                                                               *)

\* The lister gives each node once, in the order of names and dates that other
\* parts of the program set.
List ==
  /\ cycle = "idle"
  /\ cycle' = "looking"
  /\ todo' \in SetToSeqs(monitored)
  /\ rested' = TRUE
  /\ UNCHANGED <<monitored, nextDue, failures, soon, inFlight, pollMu, turn, now,
                 wanted, asked, crossed>>

\* The next target: left alone unless due, and after a pause unless the first.
Look ==
  /\ cycle = "looking"
  /\ IF todo = << >> THEN cycle' = "idle" /\ UNCHANGED <<todo, turn, rested>>
     ELSE /\ todo' = Tail(todo)
          /\ IF nextDue[Head(todo)] # "none"
             THEN UNCHANGED <<cycle, turn, rested>>
             ELSE /\ turn' = Head(todo)
                  /\ cycle' = IF rested THEN "locking" ELSE "resting"
                  /\ rested' = FALSE
  /\ UNCHANGED <<monitored, nextDue, failures, soon, inFlight, pollMu, now, wanted,
                 asked, crossed>>

Rest ==
  /\ cycle = "resting"
  /\ cycle' = "locking"
  /\ UNCHANGED <<monitored, nextDue, failures, soon, inFlight, pollMu, todo, turn,
                 rested, now, wanted, asked, crossed>>

CyclePolls ==
  /\ cycle = "locking"
  /\ pollMu = NoOne
  /\ pollMu' = "cycle"
  /\ StartPoll(turn)
  /\ cycle' = "polling"
  /\ UNCHANGED <<monitored, nextDue, failures, soon, todo, turn, rested, now,
                 wanted, crossed>>

\* The lock is released first, and the books are closed after.
CycleUnlocks ==
  /\ cycle = "polling"
  /\ pollMu' = NoOne
  /\ \E outcome \in {"polled", "failed"} : cycle' = outcome
  /\ UNCHANGED <<monitored, nextDue, failures, soon, inFlight, todo, turn, rested,
                 now, wanted, asked, crossed>>

CycleReschedules ==
  /\ cycle \in {"polled", "failed"}
  /\ rescheduleAfter(turn, cycle = "polled")
  /\ cycle' = "looking"
  /\ turn' = NoOne
  /\ UNCHANGED <<monitored, pollMu, todo, rested, now, wanted, asked, crossed>>

-----------------------------------------------------------------------------
(* PollNow: the lock is only tried, and held to the end.                   *)

TryLock(c, n) ==
  /\ now[c] = "idle"
  /\ wanted' = [wanted EXCEPT ![c] = n]
  /\ IF pollMu = NoOne
     THEN /\ pollMu' = c
          /\ now' = [now EXCEPT ![c] = "listing"]
          /\ crossed' = (crossed \/ cycle \in {"polled", "failed"})
     ELSE now' = [now EXCEPT ![c] = "over"] /\ UNCHANGED <<pollMu, crossed>>
  /\ UNCHANGED <<monitored, nextDue, failures, soon, inFlight, cycle, todo, turn,
                 rested, asked>>

Unmonitored(c) ==
  /\ now[c] = "listing"
  /\ wanted[c] \notin monitored
  /\ now' = [now EXCEPT ![c] = "over"]
  /\ pollMu' = NoOne
  /\ UNCHANGED <<monitored, nextDue, failures, soon, inFlight, cycle, todo, turn,
                 rested, wanted, asked, crossed>>

NowPolls(c) ==
  /\ now[c] = "listing"
  /\ wanted[c] \in monitored
  /\ StartPoll(wanted[c])
  /\ now' = [now EXCEPT ![c] = "polling"]
  /\ UNCHANGED <<monitored, nextDue, failures, soon, pollMu, cycle, todo, turn,
                 rested, wanted, crossed>>

NowReschedules(c) ==
  /\ now[c] = "polling"
  /\ \E ok \in BOOLEAN : rescheduleAfter(wanted[c], ok)
  /\ now' = [now EXCEPT ![c] = "over"]
  /\ pollMu' = NoOne
  /\ UNCHANGED <<monitored, cycle, todo, turn, rested, wanted, asked, crossed>>

-----------------------------------------------------------------------------
(* The rest: requests, settings, time and the signal test.                 *)

\* The bug of a request that is lost while the node is being polled.
PollSoonForgets(n) ==
  /\ nextDue' = [nextDue EXCEPT ![n] = "none"]
  /\ asked' = asked \cup {n}
  /\ UNCHANGED <<monitored, failures, soon, inFlight, pollMu, cycle, todo, turn,
                 rested, now, wanted, crossed>>

PollSoon(n) ==
  /\ soon' = IF n = inFlight THEN soon \cup {n} ELSE soon
  /\ nextDue' = [nextDue EXCEPT ![n] = "none"]
  /\ asked' = asked \cup {n}
  /\ UNCHANGED <<monitored, failures, inFlight, pollMu, cycle, todo, turn, rested,
                 now, wanted, crossed>>

Toggle(n) ==
  /\ monitored' = IF n \in monitored THEN monitored \ {n} ELSE monitored \cup {n}
  /\ UNCHANGED <<nextDue, failures, soon, inFlight, pollMu, cycle, todo, turn,
                 rested, now, wanted, asked, crossed>>

\* The bug of a scheduler whose waits never run out.
ElapseNever(n) == FALSE

\* A wait runs out.
Elapse(n) ==
  /\ nextDue[n] # "none"
  /\ nextDue' = [nextDue EXCEPT ![n] = "none"]
  /\ UNCHANGED <<monitored, failures, soon, inFlight, pollMu, cycle, todo, turn,
                 rested, now, wanted, asked, crossed>>

\* A signal test takes the airtime lock for one operation, and gives it back.
TestLocks ==
  /\ pollMu = NoOne
  /\ pollMu' = "tester"
  /\ UNCHANGED <<monitored, nextDue, failures, soon, inFlight, cycle, todo, turn,
                 rested, now, wanted, asked, crossed>>

TestUnlocks ==
  /\ pollMu = "tester"
  /\ pollMu' = NoOne
  /\ UNCHANGED <<monitored, nextDue, failures, soon, inFlight, cycle, todo, turn,
                 rested, now, wanted, asked, crossed>>

Cycle == List \/ Look \/ Rest \/ CyclePolls \/ CycleUnlocks \/ CycleReschedules
Now(c) == Unmonitored(c) \/ NowPolls(c) \/ NowReschedules(c)

Next ==
  \/ Cycle
  \/ \E c \in Requests : (\E n \in Nodes : TryLock(c, n)) \/ Now(c)
  \/ \E n \in Nodes : PollSoon(n) \/ Toggle(n) \/ Elapse(n)
  \/ TestLocks \/ TestUnlocks

Spec == Init /\ [][Next]_vars

\* The scheduler goes on, a poll ends by its time limit, time passes, and a
\* sync.Mutex is fair to the scheduler that waits for it.
LiveSpec == /\ Spec
            /\ WF_vars(Cycle) /\ SF_vars(CyclePolls)
            /\ \A c \in Requests : WF_vars(Now(c))
            /\ \A n \in Nodes : WF_vars(Elapse(n))
            /\ WF_vars(TestUnlocks)

-----------------------------------------------------------------------------
Polling(n) == \/ cycle = "polling" /\ turn = n
              \/ \E c \in Requests : now[c] = "polling" /\ wanted[c] = n

\* A request made by PollSoon is kept until a poll begins after it: a poll that
\* was already running does not put it off, whichever caller runs it, unless a
\* PollNow got in between the end of the scheduler's poll and its accounting.
PollSoonKept == TypeOK /\ \A n \in asked : ~crossed => nextDue[n] = "none"

\* Every node that stays monitored is polled again and again.
EveryNodePolled ==
  \A n \in Nodes : <>[](n \in monitored) => []<>Polling(n)

\* monitor.go:293: a PollSoon "asked mid-poll ... holds past that poll".
PollSoonHolds == \A n \in asked : nextDue[n] = "none"
-----------------------------------------------------------------------------
(***************************************************************************)
(* Proofs about the node monitor, for any finite set of nodes, any number  *)
(* of PollNow callers and any number of retries: who holds the airtime     *)
(* lock, which poll has not been accounted for yet, and that a PollSoon    *)
(* outlives the poll it was made during.                                   *)
(***************************************************************************)

\* The airtime lock is held by the scheduler while it polls and by a PollNow
\* from its TryLock to its return, and each knows its node.
LockInv ==
  /\ cycle = "polling" <=> pollMu = "cycle"
  /\ \A c \in Requests : now[c] \in {"listing", "polling"} <=> pollMu = c
  /\ cycle \in {"resting", "locking", "polling", "polled", "failed"} => turn \in Nodes
  /\ \A c \in Requests : now[c] \in {"listing", "polling"} => wanted[c] \in Nodes

\* The scheduler has a poll that is under way or not accounted for.
CycleOwes == cycle \in {"polling", "polled", "failed"}

\* Unless a PollNow got in between, that poll and a PollNow exclude each other,
\* and the node in flight is the one of the poll there is.
FlightInv ==
  ~crossed =>
    /\ CycleOwes => inFlight = turn /\ \A c \in Requests : pollMu # c
    /\ \A c \in Requests : now[c] = "polling" => inFlight = wanted[c]

\* A node asked for is due, and stays due when the poll of it that is under way
\* is accounted for.
AskedInv ==
  ~crossed => \A n \in asked :
    /\ nextDue[n] = "none"
    /\ CycleOwes /\ turn = n => n \in soon
    /\ \A c \in Requests : now[c] = "polling" /\ wanted[c] = n => n \in soon

IInv == TypeOK /\ LockInv /\ FlightInv /\ AskedInv

-----------------------------------------------------------------------------

LEMMA CallersDiffer ==
  /\ NoOne \notin Nodes /\ NoOne \notin Requests
  /\ "cycle" \notin Requests /\ "tester" \notin Requests
  /\ NoOne # "cycle" /\ NoOne # "tester"
  BY NoOneAssumption, CallersAssumption

\* What the lister gives is a sequence of monitored nodes.
LEMMA ListingType ==
  ASSUME monitored \subseteq Nodes, NEW q \in SetToSeqs(monitored)
  PROVE q \in Seq(Nodes)
<1>1. IsFiniteSet(monitored) /\ Cardinality(monitored) \in Nat
  BY NodesAssumption, FS_Subset, FS_CardinalityType
<1>2. q \in [1..Cardinality(monitored) -> monitored]
  BY DEF SetToSeqs
<1>3. q \in [1..Cardinality(monitored) -> Nodes]
  BY <1>2
<1>4. QED BY <1>1, <1>3, SeqDef

\* Accounting for a poll keeps the types of the books.
LEMMA RescheduleType ==
  ASSUME TypeOK, NEW n \in Nodes, NEW ok \in BOOLEAN, rescheduleAfter(n, ok)
  PROVE /\ nextDue' \in [Nodes -> {"none", "retry", "interval"}]
        /\ failures' \in [Nodes -> 0..MaxRetries]
        /\ soon' \subseteq Nodes /\ inFlight' \in Nodes \cup {NoOne}
<1>1. failures[n] \in 0..MaxRetries /\ MaxRetries \in Nat
  BY RetriesAssumption DEF TypeOK
<1>2. CASE n \in soon
  BY <1>2 DEF rescheduleAfter, TypeOK
<1>3. CASE n \notin soon
  <2> DEFINE retry == ~ok /\ failures[n] < MaxRetries
  <2>1. nextDue' = [nextDue EXCEPT ![n] = IF retry THEN "retry" ELSE "interval"]
    BY <1>3 DEF rescheduleAfter
  <2>2. failures' = [failures EXCEPT ![n] = IF retry THEN failures[n] + 1 ELSE 0]
    BY <1>3 DEF rescheduleAfter
  <2>3. (IF retry THEN failures[n] + 1 ELSE 0) \in 0..MaxRetries
    BY <1>1
  <2>4. failures' \in [Nodes -> 0..MaxRetries]
    BY <2>2, <2>3 DEF TypeOK
  <2>5. QED BY <2>1, <2>4 DEF rescheduleAfter, TypeOK
<1>4. QED BY <1>2, <1>3

\* Accounting for a poll leaves a node that was asked for during it due.
LEMMA RescheduleAsked ==
  ASSUME TypeOK, NEW n \in Nodes, NEW ok \in BOOLEAN, rescheduleAfter(n, ok),
         NEW m \in Nodes, nextDue[m] = "none", m = n => n \in soon
  PROVE /\ nextDue'[m] = "none"
        /\ m # n => (m \in soon' <=> m \in soon)
BY DEF rescheduleAfter, TypeOK

-----------------------------------------------------------------------------

LEMMA TypeAndLock == TypeOK /\ LockInv /\ [Next]_vars => TypeOK' /\ LockInv'
<1> SUFFICES ASSUME TypeOK, LockInv, [Next]_vars PROVE TypeOK' /\ LockInv'
  OBVIOUS
<1> USE CallersDiffer
<1>1. CASE List
  BY <1>1, ListingType DEF List, TypeOK, LockInv
<1>2. CASE Look
  <2>1. CASE todo = << >>
    BY <1>2, <2>1 DEF Look, TypeOK, LockInv
  <2>2. CASE todo # << >>
    <3>1. Head(todo) \in Nodes /\ Tail(todo) \in Seq(Nodes)
      BY <2>2, HeadTailProperties DEF TypeOK
    <3>2. QED BY <1>2, <2>2, <3>1 DEF Look, TypeOK, LockInv
  <2>3. QED BY <2>1, <2>2
<1>3. CASE Rest
  BY <1>3 DEF Rest, TypeOK, LockInv
<1>4. CASE CyclePolls
  BY <1>4 DEF CyclePolls, StartPoll, TypeOK, LockInv, Callers
<1>5. CASE CycleUnlocks
  BY <1>5 DEF CycleUnlocks, TypeOK, LockInv
<1>6. CASE CycleReschedules
  <2>1. turn \in Nodes /\ rescheduleAfter(turn, cycle = "polled") /\ (cycle = "polled") \in BOOLEAN
    BY <1>6 DEF CycleReschedules, LockInv
  <2>2. /\ nextDue' \in [Nodes -> {"none", "retry", "interval"}]
        /\ failures' \in [Nodes -> 0..MaxRetries]
        /\ soon' \subseteq Nodes /\ inFlight' \in Nodes \cup {NoOne}
    BY <2>1, RescheduleType
  <2>3. QED BY <1>6, <2>2 DEF CycleReschedules, TypeOK, LockInv
<1>7. ASSUME NEW c \in Requests, NEW n \in Nodes, TryLock(c, n)
      PROVE TypeOK' /\ LockInv'
  <2>1. TypeOK'
    BY <1>7 DEF TryLock, TypeOK, Callers
  <2>2. LockInv'
    BY <1>7 DEF TryLock, TypeOK, LockInv
  <2>3. QED BY <2>1, <2>2
<1>8. ASSUME NEW c \in Requests, Unmonitored(c) PROVE TypeOK' /\ LockInv'
  BY <1>8 DEF Unmonitored, TypeOK, LockInv
<1>9. ASSUME NEW c \in Requests, NowPolls(c) PROVE TypeOK' /\ LockInv'
  BY <1>9 DEF NowPolls, StartPoll, TypeOK, LockInv
<1>10. ASSUME NEW c \in Requests, NowReschedules(c) PROVE TypeOK' /\ LockInv'
  <2>1. PICK ok \in BOOLEAN : rescheduleAfter(wanted[c], ok)
    BY <1>10 DEF NowReschedules
  <2>2. wanted[c] \in Nodes
    BY <1>10 DEF NowReschedules, LockInv
  <2>3. /\ nextDue' \in [Nodes -> {"none", "retry", "interval"}]
        /\ failures' \in [Nodes -> 0..MaxRetries]
        /\ soon' \subseteq Nodes /\ inFlight' \in Nodes \cup {NoOne}
    BY <2>1, <2>2, RescheduleType
  <2>4. QED BY <1>10, <2>3 DEF NowReschedules, TypeOK, LockInv
<1>11. ASSUME NEW n \in Nodes, PollSoon(n) \/ Toggle(n) \/ Elapse(n)
       PROVE TypeOK' /\ LockInv'
  BY <1>11 DEF PollSoon, Toggle, Elapse, TypeOK, LockInv
<1>12. CASE TestLocks \/ TestUnlocks
  BY <1>12 DEF TestLocks, TestUnlocks, TypeOK, LockInv, Callers
<1>13. CASE UNCHANGED vars
  BY <1>13 DEF vars, TypeOK, LockInv
<1>14. QED BY <1>1, <1>2, <1>3, <1>4, <1>5, <1>6, <1>7, <1>8, <1>9, <1>10, <1>11,
              <1>12, <1>13 DEF Next, Cycle, Now

-----------------------------------------------------------------------------

LEMMA FlightAndAsked == IInv /\ [Next]_vars => FlightInv' /\ AskedInv'
<1> SUFFICES ASSUME IInv, [Next]_vars, ~crossed' PROVE FlightInv' /\ AskedInv'
  BY DEF FlightInv, AskedInv
<1> USE CallersDiffer DEF CycleOwes
<1>0. TypeOK /\ LockInv /\ FlightInv /\ AskedInv
  BY DEF IInv
<1>00. ~crossed
  BY DEF Next, Cycle, Now, List, Look, Rest, CyclePolls, CycleUnlocks, CycleReschedules,
     TryLock, Unmonitored, NowPolls, NowReschedules, PollSoon, Toggle, Elapse,
     TestLocks, TestUnlocks, vars
<1>1. CASE List \/ Look \/ Rest
  <2>1. /\ ~CycleOwes /\ ~CycleOwes'
        /\ UNCHANGED <<nextDue, soon, inFlight, pollMu, now, wanted, asked>>
    BY <1>1 DEF List, Look, Rest
  <2>2. QED BY <1>0, <1>00, <2>1 DEF FlightInv, AskedInv
<1>2. CASE CyclePolls
  BY <1>0, <1>00, <1>2 DEF CyclePolls, StartPoll, LockInv, FlightInv, AskedInv
<1>3. CASE CycleUnlocks
  BY <1>0, <1>00, <1>3 DEF CycleUnlocks, LockInv, FlightInv, AskedInv
<1>4. CASE CycleReschedules
  <2>1. turn \in Nodes /\ rescheduleAfter(turn, cycle = "polled") /\ (cycle = "polled") \in BOOLEAN
    BY <1>0, <1>4 DEF CycleReschedules, LockInv
  <2>2. \A c \in Requests : now[c] # "polling"
    BY <1>0, <1>00, <1>4 DEF CycleReschedules, LockInv, FlightInv
  <2>3. ASSUME NEW n \in asked PROVE nextDue'[n] = "none"
    <3>1. n \in Nodes /\ nextDue[n] = "none" /\ (n = turn => turn \in soon)
      BY <1>0, <1>00, <1>4 DEF CycleReschedules, AskedInv, TypeOK
    <3>2. QED BY <1>0, <2>1, <3>1, RescheduleAsked
  <2>4. UNCHANGED <<now, asked>> /\ cycle' = "looking"
    BY <1>4 DEF CycleReschedules
  <2>5. QED BY <2>2, <2>3, <2>4 DEF FlightInv, AskedInv
<1>5. ASSUME NEW c \in Requests, NEW n \in Nodes, TryLock(c, n)
      PROVE FlightInv' /\ AskedInv'
  <2>1. now'[c] \in {"listing", "over"} /\ \A d \in Requests \ {c} : now'[d] = now[d] /\ wanted'[d] = wanted[d]
    BY <1>0, <1>5 DEF TryLock, TypeOK
  <2>2. CycleOwes => pollMu' = pollMu
    BY <1>0, <1>5 DEF TryLock, LockInv
  <2>3. QED BY <1>0, <1>00, <1>5, <2>1, <2>2 DEF TryLock, FlightInv, AskedInv
<1>6. ASSUME NEW c \in Requests, Unmonitored(c) PROVE FlightInv' /\ AskedInv'
  BY <1>0, <1>00, <1>6 DEF Unmonitored, TypeOK, FlightInv, AskedInv
<1>7. ASSUME NEW c \in Requests, NowPolls(c) PROVE FlightInv' /\ AskedInv'
  <2>1. pollMu = c /\ ~CycleOwes
    BY <1>0, <1>00, <1>7 DEF NowPolls, LockInv, FlightInv
  <2>2. \A d \in Requests \ {c} : now'[d] # "polling"
    BY <1>0, <1>7, <2>1 DEF NowPolls, LockInv, TypeOK
  <2>3. QED BY <1>0, <1>00, <1>7, <2>1, <2>2 DEF NowPolls, StartPoll, FlightInv, AskedInv
<1>8. ASSUME NEW c \in Requests, NowReschedules(c) PROVE FlightInv' /\ AskedInv'
  <2>1. PICK ok \in BOOLEAN : rescheduleAfter(wanted[c], ok)
    BY <1>8 DEF NowReschedules
  <2>2. wanted[c] \in Nodes /\ pollMu = c /\ ~CycleOwes
    BY <1>0, <1>00, <1>8 DEF NowReschedules, LockInv, FlightInv
  <2>3. \A d \in Requests : now'[d] # "polling"
    BY <1>0, <1>8, <2>2 DEF NowReschedules, LockInv, TypeOK
  <2>4. ASSUME NEW n \in asked PROVE nextDue'[n] = "none"
    <3>1. n \in Nodes /\ nextDue[n] = "none" /\ (n = wanted[c] => wanted[c] \in soon)
      BY <1>0, <1>00, <1>8 DEF NowReschedules, AskedInv, TypeOK
    <3>2. QED BY <1>0, <2>1, <2>2, <3>1, RescheduleAsked
  <2>5. UNCHANGED <<cycle, asked>>
    BY <1>8 DEF NowReschedules
  <2>6. QED BY <2>2, <2>3, <2>4, <2>5 DEF FlightInv, AskedInv
<1>9. ASSUME NEW n \in Nodes, PollSoon(n) PROVE FlightInv' /\ AskedInv'
  BY <1>0, <1>00, <1>9 DEF PollSoon, TypeOK, FlightInv, AskedInv
<1>10. ASSUME NEW n \in Nodes, Toggle(n) PROVE FlightInv' /\ AskedInv'
  BY <1>0, <1>00, <1>10 DEF Toggle, FlightInv, AskedInv
<1>11. ASSUME NEW n \in Nodes, Elapse(n) PROVE FlightInv' /\ AskedInv'
  BY <1>0, <1>00, <1>11 DEF Elapse, TypeOK, FlightInv, AskedInv
<1>12. CASE TestLocks \/ TestUnlocks
  BY <1>0, <1>00, <1>12 DEF TestLocks, TestUnlocks, FlightInv, AskedInv
<1>13. CASE UNCHANGED vars
  BY <1>0, <1>00, <1>13 DEF vars, FlightInv, AskedInv
<1>14. QED BY <1>1, <1>2, <1>3, <1>4, <1>5, <1>6, <1>7, <1>8, <1>9, <1>10, <1>11,
              <1>12, <1>13 DEF Next, Cycle, Now

LEMMA InitInv == Init => IInv
<1> SUFFICES ASSUME Init PROVE IInv
  OBVIOUS
<1>1. << >> \in Seq(Nodes) /\ 0 \in 0..MaxRetries
  BY EmptySeq, RetriesAssumption
<1>2. TypeOK
  BY <1>1 DEF Init, TypeOK
<1>3. LockInv /\ FlightInv /\ AskedInv
  BY CallersDiffer DEF Init, LockInv, FlightInv, AskedInv, CycleOwes
<1>4. QED BY <1>2, <1>3 DEF IInv

\* The airtime lock, the polls and the books stay consistent.
THEOREM Invariant == Spec => []IInv
<1>1. IInv /\ [Next]_vars => IInv'
  BY TypeAndLock, FlightAndAsked DEF IInv
<1>2. QED BY <1>1, InitInv, PTL DEF Spec

\* A PollSoon is kept until a poll begins after it, for any nodes and callers,
\* unless a PollNow got in between the scheduler's poll and its accounting.
THEOREM RequestsKept == Spec => []PollSoonKept
<1>1. IInv => PollSoonKept
  BY DEF IInv, AskedInv, PollSoonKept
<1>2. QED BY <1>1, Invariant, PTL

\* The scheduler, the calls of PollNow and the signal tests never use the radio
\* at once: one collector round trip holds the airtime lock at a time.
OneRoundTrip ==
  /\ cycle = "polling" => /\ pollMu = "cycle"
                          /\ \A c \in Requests : now[c] # "polling"
  /\ \A c, d \in Requests : now[c] = "polling" /\ now[d] = "polling" => c = d

THEOREM AirtimeExclusive == Spec => []OneRoundTrip
<1>1. IInv => OneRoundTrip
  BY CallersDiffer DEF IInv, LockInv, OneRoundTrip
<1>2. QED BY <1>1, Invariant, PTL
=============================================================================

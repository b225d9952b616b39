-------------------------- MODULE AppDirectMessage --------------------------
(***************************************************************************)
(* A direct message the MeshCore app sends through the companion           *)
(* (internal/node/companion/app.go).  The app does its own retries, each a *)
(* call of SendAppDM with the same key, so all attempts share a row.  Any  *)
(* attempt's ACK delivers it; a timer armed by the last attempt fails it;  *)
(* a resend puts a failed one back to sending; Stop fails it.              *)
(* settleAppDM decides under the lock and tells dmsInFlight and the store  *)
(* after releasing it.                                                     *)
(***************************************************************************)
EXTENDS Integers, FiniteSets, TLAPS

CONSTANT MaxSends    \* bound: calls of SendAppDM in a run

ASSUME SendsAssumption == MaxSends \in Nat

VARIABLES
  call,       \* where SendAppDM is, one call at a time
  calls,      \* calls made
  first,      \* the call in progress is the first to be stamped
  sentAt,     \* an attempt has been sent
  status,     \* the appDM's status, "none" until it is in the map
  gen,        \* which attempt's timer counts
  timer,      \* the armed timer's gen, 0 for none
  firing,     \* timers that have gone off and wait for the lock
  expected,   \* the attempts whose ACK is expected
  inFlight,   \* dmsInFlight holds the message
  publishing, \* outcomes decided and not yet told, by settler
  row,        \* the status last written
  stop,       \* Stop: "idle", "nodeStopped", "aborting" or "done"
  elapsed,    \* history: the attempts that have waited their full time
  acked,      \* history: the attempts the recipient has acknowledged
  crossed     \* history: another change came between deciding and telling

vars == <<call, calls, first, sentAt, status, gen, timer, firing, expected,
          inFlight, publishing, row, stop, elapsed, acked, crossed>>

Sends == 1..MaxSends

\* Who settles: the n-th send's timer or ACK, a refused first send, or Stop.
Settlers == ({"timer", "ack", "refusal"} \X Sends) \cup {<<"abort", 0>>}
Outcome(s) == IF s[1] = "ack" THEN "delivered" ELSE "failed"

TypeOK ==
  /\ call \in {"idle", "found", "new", "stored", "begun", "listed", "sent",
               "refused", "noted"}
  /\ calls \in 0..MaxSends
  /\ first \in BOOLEAN
  /\ sentAt \in BOOLEAN
  /\ status \in {"none", "sending", "failed", "delivered"}
  /\ gen \in 0..calls
  /\ timer \in 0..gen
  /\ firing \subseteq 1..gen
  /\ expected \subseteq Sends
  /\ inFlight \in BOOLEAN
  /\ publishing \subseteq Settlers
  /\ row \in {"absent", "sending", "failed", "delivered"}
  /\ stop \in {"idle", "nodeStopped", "aborting", "done"}
  /\ elapsed \subseteq 1..gen
  /\ acked \subseteq Sends
  /\ crossed \in BOOLEAN

Init ==
  /\ call = "idle" /\ calls = 0 /\ first = FALSE /\ sentAt = FALSE
  /\ status = "none" /\ gen = 0 /\ timer = 0 /\ firing = {} /\ expected = {}
  /\ inFlight = FALSE /\ publishing = {} /\ row = "absent" /\ stop = "idle"
  /\ elapsed = {} /\ acked = {} /\ crossed = FALSE

-----------------------------------------------------------------------------
(* settleAppDM, called with the outcome of settler s.                      *)

\* The bug of a failure that does not ask what the status is.
CountsAlways(s) == TRUE

Counts(s) ==
  \/ Outcome(s) = "delivered" /\ status # "delivered"
  \/ /\ Outcome(s) = "failed" /\ status = "sending"
     /\ s[1] = "timer" => s[2] = gen

\* The half under the lock: decide, and stop the timer.
Decide(s) ==
  IF Counts(s)
  THEN /\ status' = Outcome(s)
       /\ timer' = 0
       /\ publishing' = publishing \cup {s}
       /\ crossed' = (crossed \/ publishing # {})
  ELSE UNCHANGED <<status, timer, publishing, crossed>>

\* The bug of an outcome that leaves the abort registered.
PublishKeepsAbort(s) ==
  /\ s \in publishing
  /\ publishing' = publishing \ {s}
  /\ row' = Outcome(s)
  /\ UNCHANGED <<call, calls, first, sentAt, status, gen, timer, firing, expected,
                 inFlight, stop, elapsed, acked, crossed>>

\* The half after it: the message is no longer in flight, and its row says so.
Publish(s) ==
  /\ s \in publishing
  /\ publishing' = publishing \ {s}
  /\ inFlight' = FALSE
  /\ row' = Outcome(s)
  /\ UNCHANGED <<call, calls, first, sentAt, status, gen, timer, firing, expected,
                 stop, elapsed, acked, crossed>>

-----------------------------------------------------------------------------
(* SendAppDM.                                                              *)

Call ==
  /\ call = "idle" /\ calls < MaxSends
  /\ calls' = calls + 1
  /\ call' = IF status = "none" THEN "new" ELSE "found"
  /\ UNCHANGED <<first, sentAt, status, gen, timer, firing, expected, inFlight,
                 publishing, row, stop, elapsed, acked, crossed>>

StoreDM ==
  /\ call = "new"
  /\ call' = "stored"
  /\ row' = "sending"
  /\ UNCHANGED <<calls, first, sentAt, status, gen, timer, firing, expected,
                 inFlight, publishing, stop, elapsed, acked, crossed>>

Begin ==
  /\ call = "stored"
  /\ call' = "begun"
  /\ inFlight' = TRUE
  /\ status' = "sending"
  /\ UNCHANGED <<calls, first, sentAt, gen, timer, firing, expected, publishing,
                 row, stop, elapsed, acked, crossed>>

\* A message just stored, or found in the map, goes on to be stamped and sent.
ReadSentAt ==
  /\ call \in {"begun", "found"}
  /\ call' = "listed"
  /\ first' = ~sentAt
  /\ UNCHANGED <<calls, sentAt, status, gen, timer, firing, expected, inFlight,
                 publishing, row, stop, elapsed, acked, crossed>>

Transmit ==
  /\ call = "listed"
  /\ \E outcome \in {"sent", "refused"} : call' = outcome
  /\ UNCHANGED <<calls, first, sentAt, status, gen, timer, firing, expected,
                 inFlight, publishing, row, stop, elapsed, acked, crossed>>

\* Only a first attempt's refusal fails the message.
Refused ==
  /\ call = "refused"
  /\ call' = "idle"
  /\ IF first THEN Decide(<<"refusal", calls>>)
     ELSE UNCHANGED <<status, timer, publishing, crossed>>
  /\ UNCHANGED <<calls, first, sentAt, gen, firing, expected, inFlight, row, stop,
                 elapsed, acked>>

\* The bug of a resend that leaves the last attempt's timer running.
NoteSentKeepsTimer ==
  /\ call = "sent"
  /\ call' = "noted"
  /\ sentAt' = TRUE
  /\ status' = IF status = "delivered" THEN status ELSE "sending"
  /\ UNCHANGED <<calls, first, gen, timer, firing, expected, inFlight, publishing,
                 row, stop, elapsed, acked, crossed>>

\* Under the lock: a failed message is in flight again, and one that is not
\* delivered gets a new generation and a new timer.
NoteSent ==
  /\ call = "sent"
  /\ call' = "noted"
  /\ sentAt' = TRUE
  /\ IF status = "failed" THEN inFlight' = TRUE /\ row' = "sending"
                          ELSE UNCHANGED <<inFlight, row>>
  /\ IF status = "delivered" THEN UNCHANGED <<status, gen, timer>>
     ELSE /\ status' = "sending"
          /\ gen' = gen + 1
          /\ timer' = gen + 1
  /\ crossed' = (crossed \/ publishing # {})
  /\ UNCHANGED <<calls, first, firing, expected, publishing, stop, elapsed, acked>>

\* A stopped node may or may not keep the wait (external).
ExpectACK ==
  /\ call = "noted"
  /\ call' = "idle"
  /\ \/ expected' = expected \cup {calls}
     \/ stop # "idle" /\ UNCHANGED expected
  /\ UNCHANGED <<calls, first, sentAt, status, gen, timer, firing, inFlight,
                 publishing, row, stop, elapsed, acked, crossed>>

-----------------------------------------------------------------------------
(* Timers, ACKs and Stop.                                                  *)

TimerFires ==
  /\ timer # 0
  /\ timer' = 0
  /\ firing' = firing \cup {timer}
  /\ elapsed' = elapsed \cup {timer}
  /\ UNCHANGED <<call, calls, first, sentAt, status, gen, expected, inFlight,
                 publishing, row, stop, acked, crossed>>

Fail(g) ==
  /\ g \in firing
  /\ firing' = firing \ {g}
  /\ Decide(<<"timer", g>>)
  /\ UNCHANGED <<call, calls, first, sentAt, gen, expected, inFlight, row, stop,
                 elapsed, acked>>

\* The ACK of any attempt still expected, however late.
Deliver(n) ==
  /\ n \in expected
  /\ expected' = expected \ {n}
  /\ acked' = acked \cup {n}
  /\ Decide(<<"ack", n>>)
  /\ UNCHANGED <<call, calls, first, sentAt, gen, firing, inFlight, row, stop,
                 elapsed>>

StopNode ==
  /\ stop = "idle"
  /\ stop' = "nodeStopped"
  /\ expected' = {}
  /\ UNCHANGED <<call, calls, first, sentAt, status, gen, timer, firing, inFlight,
                 publishing, row, elapsed, acked, crossed>>

CollectAborts ==
  /\ stop = "nodeStopped"
  /\ stop' = IF inFlight THEN "aborting" ELSE "done"
  /\ UNCHANGED <<call, calls, first, sentAt, status, gen, timer, firing, expected,
                 inFlight, publishing, row, elapsed, acked, crossed>>

Abort ==
  /\ stop = "aborting"
  /\ stop' = "done"
  /\ Decide(<<"abort", 0>>)
  /\ UNCHANGED <<call, calls, first, sentAt, gen, firing, expected, inFlight, row,
                 elapsed, acked>>

-----------------------------------------------------------------------------
Sending == StoreDM \/ Begin \/ ReadSentAt \/ Transmit \/ Refused \/ NoteSent
             \/ ExpectACK
Telling == \E s \in Settlers : Publish(s)
Timing == TimerFires \/ \E g \in Sends : Fail(g)

Next ==
  \/ Call \/ Sending \/ Telling \/ Timing
  \/ \E n \in Sends : Deliver(n)
  \/ StopNode \/ CollectAborts \/ Abort

Spec == Init /\ [][Next]_vars

\* Goroutines that can go on do, and an armed timer goes off; the app need not
\* resend, no ACK need come and nothing makes the companion stop.
LiveSpec == /\ Spec
            /\ WF_vars(Sending) /\ WF_vars(Telling) /\ WF_vars(TimerFires)
            /\ \A g \in Sends : WF_vars(Fail(g))
            /\ WF_vars(CollectAborts) /\ WF_vars(Abort)

-----------------------------------------------------------------------------
Settled == publishing = {} /\ call \in {"idle", "found", "listed", "sent"}

Life == INSTANCE MessageLife WITH Messages <- {"message"}, Resends <- TRUE,
          status <- [m \in {"message"} |-> IF status = "none" THEN "absent" ELSE status]

\* A message the app resends has the life MessageLife gives it: once delivered it
\* stays so, whatever resends, timers and aborts follow, and only a message being
\* sent fails, by a timer only when the last attempt has had its time: the timer
\* of an attempt that has been resent since does not.
DeliveredIsFinal ==
  /\ Life!Spec
  /\ [][\A g \in Sends :
          g \in firing /\ g \notin firing' /\ status = "sending" /\ status' = "failed"
            => gen \in elapsed]_vars

\* Unless something came between deciding and telling, the row says what was
\* decided, and the message is in flight exactly while it is sending.  What was
\* decided is delivered exactly when some attempt has been acknowledged.
RowAgrees ==
  /\ TypeOK
  /\ status = "delivered" <=> acked # {}
  /\ Settled /\ ~crossed /\ status # "none" =>
       /\ row = status
       /\ inFlight <=> (status = "sending")

\* A message that is sending ends delivered or failed, with no help from the app.
EverySettled == (status = "sending") ~> (status # "sending")

\* app.go:201: settleAppDM "shows an app DM delivered once any attempt is ACKed".
DeliveredIsShown == Settled /\ acked # {} => row = "delivered"
-----------------------------------------------------------------------------
(***************************************************************************)
(* Proofs about a direct message the MeshCore app sends, for any number of *)
(* resends: it has the life MessageLife gives it, no timer but the last    *)
(* attempt's fails it, and its row agrees with what was decided unless     *)
(* another change came between deciding and telling.                       *)
(***************************************************************************)

\* A call that is not over, and has not yet armed its timer, has an attempt to come.
Calling ==
  /\ call # "idle" => calls \in Sends
  /\ call \notin {"idle", "noted"} => gen < calls

\* Before the first call has put it in the map, nothing can settle the message.
Unborn ==
  /\ call \in {"new", "stored"} => status = "none"
  /\ status = "none" => /\ call \in {"idle", "new", "stored"}
                        /\ publishing = {} /\ expected = {} /\ acked = {}
                        /\ timer = 0 /\ firing = {} /\ ~inFlight /\ stop # "aborting"
  /\ call = "stored" => row = "sending"

\* A timer that has gone off has waited its time.
Waited == firing \subseteq elapsed

\* At most one outcome waits to be told, and it is the status.
OneTold ==
  ~crossed =>
    \/ publishing = {} /\ (status # "none" => row = status /\ (inFlight <=> status = "sending"))
    \/ \E s \in Settlers : publishing = {s} /\ Outcome(s) = status

DeliveredIffAcked == status = "delivered" <=> acked # {}

IInv == TypeOK /\ Calling /\ Unborn /\ Waited /\ OneTold /\ DeliveredIffAcked

\* What a step may do to the status.
LifeStep ==
  \/ UNCHANGED status
  \/ status = "none" /\ status' = "sending"
  \/ status = "sending" /\ status' \in {"delivered", "failed"}
  \/ status = "failed" /\ status' \in {"sending", "delivered"}

\* A timer fails the message only when the last attempt has had its time.
TimerStep ==
  \A g \in Sends : g \in firing /\ g \notin firing' /\ status = "sending" /\ status' = "failed"
    => gen \in elapsed

-----------------------------------------------------------------------------

\* An outcome is delivered or failed.
LEMMA Outcomes == ASSUME NEW s \in Settlers PROVE Outcome(s) \in {"delivered", "failed"}
BY DEF Outcome

\* settleAppDM under the lock: an outcome that counts is the status, and the only one to
\* tell unless another was.
LEMMA DecideStep ==
  ASSUME IInv, NEW s \in Settlers, Decide(s), status # "none",
         UNCHANGED <<inFlight, row, gen>>
  PROVE  /\ status' \in {"none", "sending", "failed", "delivered"}
         /\ timer' \in 0..gen /\ publishing' \subseteq Settlers /\ crossed' \in BOOLEAN
         /\ LifeStep /\ OneTold' /\ status' # "none"
         /\ status' = "delivered" <=> status = "delivered" \/ s[1] = "ack"
         /\ s[1] = "timer" /\ status = "sending" /\ status' = "failed" => s[2] = gen
<1>1. Outcome(s) \in {"delivered", "failed"}
  BY Outcomes
<1>2. CASE Counts(s)
  <2>1. /\ status' = Outcome(s) /\ timer' = 0 /\ publishing' = publishing \cup {s}
        /\ crossed' = (crossed \/ publishing # {})
    BY <1>2 DEF Decide
  <2>2. LifeStep
    BY <1>1, <1>2, <2>1 DEF Counts, LifeStep, IInv, TypeOK
  <2>3. OneTold'
    <3> SUFFICES ASSUME ~crossed' PROVE OneTold'
      BY DEF OneTold
    <3>1. publishing' = {s} /\ Outcome(s) = status'
      BY <2>1
    <3>2. (\E t \in Settlers : publishing = {t} /\ Outcome(t) = status)'
      BY <3>1 DEF Outcome
    <3>3. QED BY <3>2 DEF OneTold
  <2>4. status' = "delivered" <=> status = "delivered" \/ s[1] = "ack"
    BY <1>2, <2>1 DEF Counts, Outcome
  <2>5. s[1] = "timer" /\ status = "sending" /\ status' = "failed" => s[2] = gen
    BY <1>2, <2>1 DEF Counts, Outcome
  <2>6. timer' \in 0..gen /\ publishing' \subseteq Settlers /\ crossed' \in BOOLEAN
    BY <2>1, SendsAssumption DEF IInv, TypeOK
  <2>7. QED BY <1>1, <2>1, <2>2, <2>3, <2>4, <2>5, <2>6
<1>3. CASE ~Counts(s)
  <2>1. UNCHANGED <<status, timer, publishing, crossed>>
    BY <1>3 DEF Decide
  <2>2. status' = "delivered" <=> status = "delivered" \/ s[1] = "ack"
    BY <1>3, <2>1 DEF Counts, Outcome
  <2>3. OneTold'
    BY <2>1 DEF IInv, OneTold, Outcome
  <2>4. QED BY <2>1, <2>2, <2>3 DEF IInv, TypeOK, LifeStep
<1>4. QED BY <1>2, <1>3

\* Telling: the message is out of flight and its row is the outcome.
LEMMA PublishStep ==
  ASSUME IInv, NEW s \in Settlers, Publish(s)
  PROVE  IInv' /\ LifeStep /\ TimerStep
<1>1. /\ s \in publishing /\ publishing' = publishing \ {s} /\ inFlight' = FALSE /\ row' = Outcome(s)
      /\ UNCHANGED <<call, calls, first, sentAt, status, gen, timer, firing, expected,
                     stop, elapsed, acked, crossed>>
  BY DEF Publish
<1>2. Outcome(s) \in {"delivered", "failed"} /\ status # "none"
  BY <1>1, Outcomes DEF IInv, Unborn
<1>3. TypeOK' /\ Calling' /\ Waited' /\ DeliveredIffAcked'
  <2>1. TypeOK'
    <3>1. TypeOK
      BY DEF IInv
    <3>2. publishing' \subseteq Settlers /\ row' \in {"absent", "sending", "failed", "delivered"} /\ inFlight' \in BOOLEAN
      BY <1>1, <1>2, <3>1 DEF TypeOK
    <3>3. QED BY <1>1, <3>1, <3>2 DEF TypeOK
  <2>2. Calling' /\ Waited' /\ DeliveredIffAcked'
    BY <1>1, <1>2 DEF IInv, Calling, Waited, DeliveredIffAcked
  <2>3. QED BY <2>1, <2>2
<1>4. Unborn'
  <2>1. call \notin {"new", "stored"}
    BY <1>2 DEF IInv, Unborn
  <2>2. QED BY <1>1, <1>2, <2>1 DEF Unborn
<1>5. OneTold'
  <2> SUFFICES ASSUME ~crossed PROVE publishing' = {} /\ row' = status /\ status # "sending"
    BY <1>1 DEF OneTold
  <2>1. PICK t \in Settlers : publishing = {t} /\ Outcome(t) = status
    BY <1>1 DEF IInv, OneTold
  <2>2. t = s
    BY <1>1, <2>1
  <2>3. QED BY <1>1, <1>2, <2>1, <2>2
<1>6. QED BY <1>1, <1>3, <1>4, <1>5 DEF IInv, LifeStep, TimerStep

\* SendAppDM, apart from what settles.
LEMMA CallStep ==
  ASSUME IInv, Call \/ StoreDM \/ Begin \/ ReadSentAt \/ Transmit \/ ExpectACK
  PROVE  IInv' /\ LifeStep /\ TimerStep
<1>1. CASE Call
  <2>1. TypeOK'
    BY <1>1, SendsAssumption DEF Call, IInv, TypeOK, Sends
  <2>2. Calling'
    BY <1>1, SendsAssumption DEF Call, IInv, TypeOK, Calling, Sends
  <2>3. Unborn' /\ Waited' /\ DeliveredIffAcked'
    BY <1>1 DEF Call, IInv, Unborn, Waited, DeliveredIffAcked
  <2>4. OneTold'
    BY <1>1 DEF Call, IInv, OneTold, Outcome
  <2>5. QED BY <1>1, <2>1, <2>2, <2>3, <2>4 DEF Call, IInv, LifeStep, TimerStep
<1>2. CASE StoreDM
  <2>1. TypeOK' /\ Calling' /\ Unborn' /\ Waited' /\ DeliveredIffAcked'
    BY <1>2 DEF StoreDM, IInv, TypeOK, Calling, Unborn, Waited, DeliveredIffAcked
  <2>2. OneTold'
    BY <1>2 DEF StoreDM, IInv, OneTold, Unborn, Outcome
  <2>3. QED BY <1>2, <2>1, <2>2 DEF StoreDM, IInv, LifeStep, TimerStep
<1>3. CASE Begin
  <2>1. TypeOK' /\ Calling' /\ Unborn' /\ Waited' /\ DeliveredIffAcked'
    BY <1>3 DEF Begin, IInv, TypeOK, Calling, Unborn, Waited, DeliveredIffAcked
  <2>2. OneTold'
    BY <1>3 DEF Begin, IInv, OneTold, Unborn, Outcome
  <2>3. QED BY <1>3, <2>1, <2>2 DEF Begin, IInv, Unborn, LifeStep, TimerStep
<1>4. CASE ReadSentAt
  <2>1. TypeOK' /\ Calling' /\ Unborn' /\ Waited' /\ DeliveredIffAcked'
    BY <1>4 DEF ReadSentAt, IInv, TypeOK, Calling, Unborn, Waited, DeliveredIffAcked
  <2>2. OneTold'
    BY <1>4 DEF ReadSentAt, IInv, OneTold, Outcome
  <2>3. QED BY <1>4, <2>1, <2>2 DEF ReadSentAt, IInv, LifeStep, TimerStep
<1>5. CASE Transmit
  <2>1. TypeOK' /\ Calling' /\ Unborn' /\ Waited' /\ DeliveredIffAcked'
    BY <1>5 DEF Transmit, IInv, TypeOK, Calling, Unborn, Waited, DeliveredIffAcked
  <2>2. OneTold'
    BY <1>5 DEF Transmit, IInv, OneTold, Outcome
  <2>3. QED BY <1>5, <2>1, <2>2 DEF Transmit, IInv, LifeStep, TimerStep
<1>6. CASE ExpectACK
  <2>1. TypeOK' /\ Calling' /\ Unborn' /\ Waited' /\ DeliveredIffAcked'
    BY <1>6 DEF ExpectACK, IInv, TypeOK, Calling, Unborn, Waited, DeliveredIffAcked
  <2>2. OneTold'
    BY <1>6 DEF ExpectACK, IInv, OneTold, Outcome
  <2>3. QED BY <1>6, <2>1, <2>2 DEF ExpectACK, IInv, LifeStep, TimerStep
<1>7. QED BY <1>1, <1>2, <1>3, <1>4, <1>5, <1>6

\* noteSent puts a failed message back to sending and gives every other a new generation.
LEMMA NoteSentStep ==
  ASSUME IInv, NoteSent
  PROVE  IInv' /\ LifeStep /\ TimerStep
<1>1. /\ call = "sent" /\ call' = "noted" /\ sentAt' = TRUE
      /\ crossed' = (crossed \/ publishing # {})
      /\ UNCHANGED <<calls, first, firing, expected, publishing, stop, elapsed, acked>>
  BY DEF NoteSent
<1>2. /\ IF status = "failed" THEN inFlight' = TRUE /\ row' = "sending" ELSE UNCHANGED <<inFlight, row>>
      /\ IF status = "delivered" THEN UNCHANGED <<status, gen, timer>>
         ELSE status' = "sending" /\ gen' = gen + 1 /\ timer' = gen + 1
  BY DEF NoteSent
<1>3. calls \in Sends /\ gen < calls /\ status # "none"
  BY <1>1 DEF IInv, Calling, Unborn
<1>4. TypeOK'
  <2>1. gen' \in 0..calls /\ timer' \in 0..gen' /\ gen <= gen' /\ gen \in Nat /\ gen' \in Nat
    BY <1>2, <1>3, SendsAssumption DEF IInv, TypeOK, Sends
  <2>2. 1..gen \subseteq 1..gen'
    BY <2>1
  <2>3. firing' \subseteq 1..gen' /\ elapsed' \subseteq 1..gen'
    BY <1>1, <2>2 DEF IInv, TypeOK
  <2>4. status' \in {"none", "sending", "failed", "delivered"} /\ inFlight' \in BOOLEAN
        /\ row' \in {"absent", "sending", "failed", "delivered"}
    BY <1>2 DEF IInv, TypeOK
  <2>5. QED BY <1>1, <2>1, <2>3, <2>4 DEF IInv, TypeOK
<1>5. Calling' /\ Unborn' /\ Waited' /\ DeliveredIffAcked'
  BY <1>1, <1>2, <1>3 DEF IInv, Calling, Unborn, Waited, DeliveredIffAcked
<1>6. OneTold'
  <2> SUFFICES ASSUME ~crossed' PROVE publishing' = {} /\ row' = status' /\ (inFlight' <=> status' = "sending")
    BY DEF OneTold
  <2>1. publishing = {} /\ row = status /\ (inFlight <=> status = "sending")
    BY <1>1, <1>3 DEF IInv, OneTold
  <2>2. QED BY <1>1, <1>2, <1>3, <2>1 DEF IInv, TypeOK
<1>7. LifeStep /\ TimerStep
  BY <1>1, <1>2, <1>3 DEF IInv, TypeOK, LifeStep, TimerStep
<1>8. QED BY <1>4, <1>5, <1>6, <1>7 DEF IInv

\* An outcome counts for a timer only of the last attempt, and an ACK always shows.
LEMMA SettleStep ==
  ASSUME IInv, NEW s \in Settlers, Decide(s), status # "none",
         UNCHANGED <<calls, first, sentAt, gen, inFlight, row, elapsed>>,
         call' \in {call, "idle"}, firing' \in SUBSET firing, expected' \in SUBSET expected,
         stop' \in {stop, "done"},
         acked' = IF s[1] = "ack" THEN acked \cup {s[2]} ELSE acked,
         \A g \in Sends : g \in firing /\ g \notin firing' => s = <<"timer", g>>
  PROVE  IInv' /\ LifeStep /\ TimerStep
<1>1. /\ status' \in {"none", "sending", "failed", "delivered"}
      /\ timer' \in 0..gen /\ publishing' \subseteq Settlers /\ crossed' \in BOOLEAN
      /\ LifeStep /\ OneTold' /\ status' # "none"
      /\ status' = "delivered" <=> status = "delivered" \/ s[1] = "ack"
      /\ s[1] = "timer" /\ status = "sending" /\ status' = "failed" => s[2] = gen
  BY DecideStep
<1>2. s[1] = "ack" => s[2] \in Sends
  BY DEF Settlers
<1>3. TypeOK'
  <2>1. firing' \subseteq 1..gen' /\ expected' \subseteq Sends /\ acked' \subseteq Sends
    BY <1>2 DEF IInv, TypeOK
  <2>2. call' \in {"idle", "found", "new", "stored", "begun", "listed", "sent", "refused", "noted"}
        /\ stop' \in {"idle", "nodeStopped", "aborting", "done"}
    BY DEF IInv, TypeOK
  <2>3. QED BY <1>1, <2>1, <2>2 DEF IInv, TypeOK
<1>4. Calling' /\ Unborn' /\ Waited'
  BY <1>1 DEF IInv, Calling, Unborn, Waited
<1>5. DeliveredIffAcked'
  BY <1>1 DEF IInv, DeliveredIffAcked
<1>6. TimerStep
  <2> SUFFICES ASSUME NEW g \in Sends, g \in firing, g \notin firing', status = "sending", status' = "failed"
               PROVE  gen \in elapsed
    BY DEF TimerStep
  <2>1. s[1] = "timer" /\ s[2] = g
    OBVIOUS
  <2>2. g = gen
    BY <1>1, <2>1
  <2>3. QED BY <2>2 DEF IInv, Waited
<1>7. QED BY <1>1, <1>3, <1>4, <1>5, <1>6 DEF IInv

\* A refused first attempt, a timer, an ACK and Stop all settle.
LEMMA SettlersStep ==
  ASSUME IInv, Refused \/ Abort \/ \E g \in Sends : Fail(g) \/ Deliver(g)
  PROVE  IInv' /\ LifeStep /\ TimerStep
<1>1. CASE Refused /\ first
  <2>1. <<"refusal", calls>> \in Settlers /\ status # "none"
    BY <1>1 DEF Refused, IInv, Calling, Unborn, Settlers
  <2>2. QED BY <1>1, <2>1, SettleStep DEF Refused
<1>2. CASE Refused /\ ~first
  <2>1. /\ call = "refused" /\ call' = "idle"
        /\ UNCHANGED <<calls, first, sentAt, status, gen, timer, firing, expected, inFlight,
                       publishing, row, stop, elapsed, acked, crossed>>
    BY <1>2 DEF Refused
  <2>2. TypeOK' /\ Calling' /\ Unborn' /\ Waited' /\ DeliveredIffAcked'
    BY <2>1 DEF IInv, TypeOK, Calling, Unborn, Waited, DeliveredIffAcked
  <2>3. OneTold'
    BY <2>1 DEF IInv, OneTold, Outcome
  <2>4. QED BY <2>1, <2>2, <2>3 DEF IInv, LifeStep, TimerStep
<1>3. CASE Abort
  <2>1. <<"abort", 0>> \in Settlers /\ status # "none"
    BY <1>3 DEF Abort, IInv, Unborn, Settlers
  <2>2. QED BY <1>3, <2>1, SettleStep DEF Abort
<1>4. ASSUME NEW g \in Sends, Fail(g) PROVE IInv' /\ LifeStep /\ TimerStep
  <2>1. <<"timer", g>> \in Settlers /\ status # "none"
    BY <1>4 DEF Fail, IInv, Unborn, Settlers
  <2>2. QED BY <1>4, <2>1, SettleStep DEF Fail
<1>5. ASSUME NEW g \in Sends, Deliver(g) PROVE IInv' /\ LifeStep /\ TimerStep
  <2>1. <<"ack", g>> \in Settlers /\ status # "none"
    BY <1>5 DEF Deliver, IInv, Unborn, Settlers
  <2>2. QED BY <1>5, <2>1, SettleStep DEF Deliver
<1>6. QED BY <1>1, <1>2, <1>3, <1>4, <1>5

\* A timer going off and the first two steps of Stop decide nothing.
LEMMA QuietStep ==
  ASSUME IInv, TimerFires \/ StopNode \/ CollectAborts \/ UNCHANGED vars
  PROVE  IInv' /\ LifeStep /\ TimerStep
<1>1. UNCHANGED <<call, calls, status, gen, inFlight, publishing, row, acked, crossed, sentAt, first>>
  BY DEF TimerFires, StopNode, CollectAborts, vars
<1>2. TypeOK'
  <2>1. CASE TimerFires
    <3>1. timer \in 1..gen /\ gen \in Nat
      BY <2>1, SendsAssumption DEF TimerFires, IInv, TypeOK
    <3>2. /\ timer' = 0 /\ firing' = firing \cup {timer} /\ elapsed' = elapsed \cup {timer}
          /\ UNCHANGED <<expected, stop>>
      BY <2>1 DEF TimerFires
    <3>3. timer' \in 0..gen' /\ firing' \subseteq 1..gen' /\ elapsed' \subseteq 1..gen'
      BY <1>1, <3>1, <3>2 DEF IInv, TypeOK
    <3>4. TypeOK
      BY DEF IInv
    <3>5. QED BY <1>1, <3>2, <3>3, <3>4 DEF TypeOK
  <2>2. CASE StopNode \/ CollectAborts \/ UNCHANGED vars
    <3>1. /\ expected' \in {expected, {}} /\ stop' \in {stop, "nodeStopped", "aborting", "done"}
          /\ UNCHANGED <<timer, firing, elapsed>>
      BY <2>2 DEF StopNode, CollectAborts, vars
    <3>2. TypeOK
      BY DEF IInv
    <3>3. expected' \subseteq Sends /\ stop' \in {"idle", "nodeStopped", "aborting", "done"}
      BY <3>1, <3>2 DEF TypeOK
    <3>4. QED BY <1>1, <3>1, <3>2, <3>3 DEF TypeOK
  <2>3. QED BY <2>1, <2>2
<1>3. Calling' /\ Unborn' /\ Waited' /\ DeliveredIffAcked'
  BY DEF IInv, Calling, Unborn, Waited, DeliveredIffAcked, TimerFires, StopNode, CollectAborts, vars
<1>4. OneTold'
  BY <1>1 DEF IInv, OneTold, Outcome
<1>5. QED BY <1>1, <1>2, <1>3, <1>4 DEF IInv, LifeStep, TimerStep

-----------------------------------------------------------------------------

\* Nothing has been sent yet.
LEMMA InitIInv == Init => IInv
<1> SUFFICES ASSUME Init PROVE IInv
  OBVIOUS
<1>1. 0 \in 0..MaxSends /\ 0 \in 0..0
  BY SendsAssumption
<1>2. TypeOK
  BY <1>1 DEF Init, TypeOK
<1>3. Calling /\ Unborn /\ Waited /\ DeliveredIffAcked
  BY DEF Init, Calling, Unborn, Waited, DeliveredIffAcked
<1>4. OneTold
  BY DEF Init, OneTold
<1>5. QED BY <1>2, <1>3, <1>4 DEF IInv

\* Every step keeps the invariant and gives the status a life.
LEMMA NextIInv == IInv /\ [Next]_vars => IInv' /\ LifeStep /\ TimerStep
<1> SUFFICES ASSUME IInv, [Next]_vars PROVE IInv' /\ LifeStep /\ TimerStep
  OBVIOUS
<1>1. CASE Call \/ StoreDM \/ Begin \/ ReadSentAt \/ Transmit \/ ExpectACK
  BY <1>1, CallStep
<1>2. CASE NoteSent
  BY <1>2, NoteSentStep
<1>3. CASE Telling
  BY <1>3, PublishStep DEF Telling
<1>4. CASE Refused \/ Abort \/ \E g \in Sends : Fail(g) \/ Deliver(g)
  BY <1>4, SettlersStep
<1>5. CASE TimerFires \/ StopNode \/ CollectAborts \/ UNCHANGED vars
  BY <1>5, QuietStep
<1>6. QED BY <1>1, <1>2, <1>3, <1>4, <1>5 DEF Next, Sending, Timing

\* The invariant of every instance: one outcome is told at a time unless changes crossed.
THEOREM Invariant == Spec => []IInv
<1>1. Init => IInv
  BY InitIInv
<1>2. IInv /\ [Next]_vars => IInv'
  BY NextIInv
<1>3. QED BY <1>1, <1>2, PTL DEF Spec

\* settleAppDM and SendAppDM: delivered exactly when acknowledged, and row and registration agree with
\* what was decided unless another change came in between.
THEOREM RowAgreesAlways == Spec => []RowAgrees
<1>1. IInv => RowAgrees
  <2> SUFFICES ASSUME IInv PROVE RowAgrees
    OBVIOUS
  <2>1. TypeOK /\ (status = "delivered" <=> acked # {})
    BY DEF IInv, DeliveredIffAcked
  <2>2. publishing = {} /\ ~crossed /\ status # "none" => row = status /\ (inFlight <=> status = "sending")
    BY DEF IInv, OneTold
  <2>3. QED BY <2>1, <2>2 DEF RowAgrees, Settled
<1>2. QED BY <1>1, Invariant, PTL

\* The status as MessageLife knows it.
AsLife == [m \in {"message"} |-> IF status = "none" THEN "absent" ELSE status]

\* A step of the status is one of MessageLife's.
LEMMA LifeNext ==
  ASSUME LifeStep
  PROVE  [Life!Next]_AsLife
<1> DEFINE m == "message"
<1>1. CASE UNCHANGED status
  BY <1>1 DEF AsLife
<1>2. CASE status = "none" /\ status' = "sending"
  <2>1. Life!Store(m)
    BY <1>2 DEF Life!Store, Life!Becomes
  <2>2. QED BY <2>1 DEF Life!Next
<1>3. CASE status = "sending" /\ status' \in {"delivered", "failed"}
  <2>1. Life!Deliver(m) \/ Life!Fail(m)
    BY <1>3 DEF Life!Deliver, Life!Fail, Life!Becomes
  <2>2. QED BY <2>1 DEF Life!Next
<1>4. CASE status = "failed" /\ status' \in {"sending", "delivered"}
  <2>1. Life!Resend(m) \/ Life!DeliverLate(m)
    BY <1>4 DEF Life!Resend, Life!DeliverLate, Life!Becomes
  <2>2. QED BY <2>1 DEF Life!Next
<1>5. QED BY <1>1, <1>2, <1>3, <1>4 DEF LifeStep

\* A message the app resends lives as MessageLife says, delivered is final, and only the last attempt's
\* time fails it.
THEOREM LifeOfAMessage == Spec => DeliveredIsFinal
<1>1. Init => Life!Init
  BY DEF Init, Life!Init
<1>2. IInv /\ [Next]_vars => [Life!Next]_AsLife
  BY NextIInv, LifeNext
<1>3. Spec => Life!Spec
  BY <1>1, <1>2, Invariant, PTL DEF Spec, Life!Spec, AsLife
<1>4. IInv /\ [Next]_vars => [TimerStep]_vars
  BY NextIInv
<1>5. Spec => [][TimerStep]_vars
  BY <1>4, Invariant, PTL DEF Spec
<1>6. QED BY <1>3, <1>5, PTL DEF DeliveredIsFinal, TimerStep
=============================================================================

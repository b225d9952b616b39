---------------------------- MODULE FailoverReply ----------------------------
(***************************************************************************)
(* A channel trigger with a failover pattern (internal/trigger/channel.go):*)
(* a request is answered after a wait, unless another node is heard to     *)
(* answer it first.  Messages arrive on the node's dispatch goroutine,     *)
(* each wait is a timer with its own, and Stop runs on the supervisor's.   *)
(* The lock is never held while a reply is sent.  Its specification has    *)
(* names of its own, to be extended beside the supervisor's.               *)
(***************************************************************************)
EXTENDS Naturals, FiniteSets

CONSTANTS
  Channels,           \* each the set of the requests made on it: messages the trigger matches
  maxPendingReplies,  \* requests that may wait at a time
  MaxHeard            \* bound: messages heard in a run

ASSUME ChannelsAssumption == \A c, d \in Channels : c # d => c \cap d = {}
ASSUME LimitAssumption == maxPendingReplies \in Nat /\ MaxHeard \in Nat

VARIABLES
  running,     \* the trigger's callback is set
  cancelled,   \* the context it was started with is cancelled
  pending,     \* the requests waiting for their deadline
  suppressed,  \* those of them another node has answered
  past,        \* those of them whose deadline has passed, the timer waiting
  handed,      \* the replies handed to the callback and not sent yet
  sent,        \* how often each reply has been sent
  heard,       \* messages heard so far
  answered,    \* history: requests answered by another node while they waited
  waits        \* history: how often each request has been made to wait

triggerVars == <<running, cancelled, pending, suppressed, past, handed, sent, heard,
          answered, waits>>

Requests == UNION Channels

\* A reply is told from a later one to the same request by who waited for it.
Replies == Requests \X {"now", "waited"}

TriggerTypeOK ==
  /\ running \in BOOLEAN /\ cancelled \in BOOLEAN
  /\ pending \subseteq Requests /\ Cardinality(pending) <= maxPendingReplies
  /\ suppressed \subseteq pending /\ past \subseteq pending
  /\ handed \in [Replies -> Nat]
  /\ sent \in [Replies -> Nat]
  /\ heard \in 0..MaxHeard
  /\ answered \subseteq Requests
  /\ waits \in [Requests -> Nat]

TriggerInit ==
  /\ running = TRUE /\ cancelled = FALSE
  /\ pending = {} /\ suppressed = {} /\ past = {}
  /\ handed = [r \in Replies |-> 0]
  /\ sent = [r \in Replies |-> 0]
  /\ heard = 0 /\ answered = {}
  /\ waits = [r \in Requests |-> 0]

Live == running /\ ~cancelled
Hear == heard < MaxHeard /\ heard' = heard + 1
Hand(r, how) == handed' = [handed EXCEPT ![<<r, how>>] = @ + 1]

-----------------------------------------------------------------------------
(* armReply, for a request.                                                *)

\* What a message on channel c may answer: requests of others waiting there
\* whose deadline has not passed.  Whether it does is up to their patterns.
Answerable(c) == c \cap (pending \ past)

\* A request already waiting keeps its first deadline; one too many for the map
\* is answered at once.
Wait(r) ==
  IF r \in pending THEN UNCHANGED <<pending, handed, waits>>
  ELSE IF Cardinality(pending) >= maxPendingReplies
       THEN Hand(r, "now") /\ UNCHANGED <<pending, waits>>
       ELSE /\ pending' = pending \cup {r}
            /\ waits' = [waits EXCEPT ![r] = @ + 1]
            /\ UNCHANGED handed

\* A request on channel c, which may itself answer others.
HeardRequest(r, c) ==
  /\ Live /\ Hear
  /\ \E hit \in SUBSET (Answerable(c) \ {r}) :
       /\ suppressed' = suppressed \cup hit
       /\ answered' = (IF r \in pending THEN answered ELSE answered \ {r}) \cup hit
  /\ Wait(r)
  /\ UNCHANGED <<running, cancelled, past, sent>>

\* A message that is no request.
HeardAnswer(c) ==
  /\ Live /\ Hear
  /\ \E hit \in SUBSET Answerable(c) : hit # {} /\ suppressed' = suppressed \cup hit
                                   /\ answered' = answered \cup hit
  /\ UNCHANGED <<running, cancelled, pending, past, handed, sent, waits>>

-----------------------------------------------------------------------------
(* Timers, the callback, Stop.                                             *)

Deadline(r) ==
  /\ r \in pending \ past
  /\ past' = past \cup {r}
  /\ UNCHANGED <<running, cancelled, pending, suppressed, handed, sent, heard,
                 answered, waits>>

Retire(r) ==
  /\ r \in past
  /\ pending' = pending \ {r} /\ suppressed' = suppressed \ {r} /\ past' = past \ {r}

\* The bug of a deadline that does not look for an answer.
ExpireUnasked(r) ==
  /\ Retire(r)
  /\ IF Live THEN Hand(r, "waited") ELSE UNCHANGED handed
  /\ UNCHANGED <<running, cancelled, sent, heard, answered, waits>>

\* The bug of an answered request that stays in the map, and takes its room.
ExpireKeepsAnswered(r) ==
  /\ r \in past \ suppressed
  /\ Retire(r)
  /\ Hand(r, "waited")
  /\ UNCHANGED <<running, cancelled, sent, heard, answered, waits>>

\* The bug of a request that waits on after its reply.
ExpireStays(r) ==
  /\ r \in past
  /\ IF r \in suppressed \/ ~Live THEN UNCHANGED handed ELSE Hand(r, "waited")
  /\ UNCHANGED <<running, cancelled, pending, suppressed, past, sent, heard,
                 answered, waits>>

\* expireReply, then the callback, outside the lock.
Expire(r) ==
  /\ Retire(r)
  /\ IF r \in suppressed \/ ~Live THEN UNCHANGED handed ELSE Hand(r, "waited")
  /\ UNCHANGED <<running, cancelled, sent, heard, answered, waits>>

Reply(r, how) ==
  /\ handed[<<r, how>>] > 0
  /\ handed' = [handed EXCEPT ![<<r, how>>] = @ - 1]
  /\ sent' = [sent EXCEPT ![<<r, how>>] = @ + 1]
  /\ UNCHANGED <<running, cancelled, pending, suppressed, past, heard, answered,
                 waits>>

CancelContext ==
  /\ ~cancelled
  /\ cancelled' = TRUE
  /\ UNCHANGED <<running, pending, suppressed, past, handed, sent, heard, answered,
                 waits>>

\* Stop, called or run by the context's cancellation.
Stop ==
  /\ running
  /\ running' = FALSE
  /\ pending' = {} /\ suppressed' = {} /\ past' = {}
  /\ UNCHANGED <<cancelled, handed, sent, heard, answered, waits>>

TriggerNext ==
  \/ \E c \in Channels : HeardAnswer(c) \/ \E r \in c : HeardRequest(r, c)
  \/ \E r \in Requests : Deadline(r) \/ Expire(r) \/ Reply(r, "now") \/ Reply(r, "waited")
  \/ CancelContext \/ Stop

TriggerSpec == TriggerInit /\ [][TriggerNext]_triggerVars

\* Timers go off and their goroutines run; nothing else need happen.
TriggerLiveSpec == /\ TriggerSpec
            /\ \A r \in Requests :
                 /\ WF_triggerVars(Deadline(r)) /\ WF_triggerVars(Expire(r))
                 /\ WF_triggerVars(Reply(r, "now")) /\ WF_triggerVars(Reply(r, "waited"))

-----------------------------------------------------------------------------
\* A request another node answered in time is not answered again by the timer
\* that was waiting for it, whenever the answer and the deadline come, and a
\* stopped or cancelled trigger hands out no further reply.
NoLateReply ==
  [][ /\ \A r \in Requests : handed'[<<r, "waited">>] > handed[<<r, "waited">>] => r \notin answered
      /\ ~Live => \A r \in Replies : handed'[r] <= handed[r] ]_triggerVars

\* A wait ends in at most one reply, however often the request is heard again
\* meanwhile and whatever its timer and Stop do to each other.
OneReplyPerWait ==
  TriggerTypeOK /\ \A r \in Requests :
    handed[<<r, "waited">>] + sent[<<r, "waited">>] + (IF r \in pending THEN 1 ELSE 0)
      <= waits[r]

\* A request that waits is replied to, answered by another node, or dropped with
\* the trigger: never held back by the wait itself.
NeverSilent ==
  \A r \in Requests :
    r \in pending ~> /\ r \notin pending
                     /\ \/ \E how \in {"now", "waited"} :
                            sent[<<r, how>>] + handed[<<r, how>>] > 0
                       \/ r \in answered \/ ~Live
=============================================================================

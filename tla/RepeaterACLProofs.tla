-------------------------- MODULE RepeaterACLProofs --------------------------
(***************************************************************************)
(* Proofs about a repeater's list of clients, for any clients, roles,      *)
(* numbers of messages and of repeaters built, and any depth of the        *)
(* writer's queue.  A client is clean while no two changes of its entry    *)
(* have overlapped and none was lost; the inductive invariant says of a    *)
(* clean client how its entry, the change under way, the queue and the row *)
(* fit together, and which of its timestamps have been run.                *)
(***************************************************************************)
EXTENDS RepeaterACL, SequenceTheorems, TLAPS

Clean(c) == c \notin stale /\ c \notin lost

\* How far a reload has come says what the API still calls.
ReloadInv ==
  /\ published \in 1..MaxGen
  /\ stage # "loaded" => published = gen
  /\ stage = "stopped" => gen < MaxGen

\* What a goroutine's step carries: only the dispatch has a command to run, and
\* then under the timestamp it came with.
CarriedBy(g, d) ==
  /\ d.at \in {"touch", "put"} => d.entry \in Entries
  /\ d.at = "run" => d.then # None
  /\ d.then # None => /\ g = "rx" /\ d.at \in {"touch", "queue", "run"}
                      /\ d.entry \in Entries /\ d.entry.last \in Timestamps

StepsInv == \A g \in Goroutines : doing[g] # None => CarriedBy(g, doing[g])

Queued == 1..Len(writes)
LastWrite(c, i) == writes[i].client = c /\ \A j \in Queued : j > i => writes[j].client # c

\* The last queued write of c leaves e in its row, or the row holds it already.
Comes(c, e) ==
  /\ \A i \in Queued : LastWrite(c, i) => writes[i].entry = e
  /\ (\A i \in Queued : writes[i].client # c) => row[c] = e

\* One goroutine at a time changes a clean client's entry, the running
\* repeater's; the row comes to what the entry is.
ChangeInv(c) ==
  /\ \A g, h \in Goroutines : Busy(g, c) /\ Busy(h, c) => g = h
  /\ \A g \in Goroutines : Busy(g, c) =>
       /\ doing[g].gen = gen
       /\ doing[g].at = "queue" => doing[g].entry = Entry(c)
  /\ (\A g \in Goroutines : Busy(g, c) => doing[g].at # "queue") => Comes(c, Entry(c))

\* Its timestamp never goes back, and covers every command that has been run.
TakenInv(c) ==
  \A g \in Goroutines : Busy(g, c) =>
    /\ doing[g].at \in {"touch", "put"} => doing[g].entry.last >= LastOf(Entry(c))
    /\ doing[g].at = "touch" => Entry(c) # NoEntry
    /\ doing[g].at = "run" => doing[g].entry.last = LastOf(Entry(c))

ToRunInv(c) ==
  \A g \in Goroutines : Busy(g, c) /\ doing[g].then # None =>
    <<c, doing[g].entry.last>> \notin ran

RanInv(c) ==
  \A t \in Timestamps : /\ <<c, t>> \in ran => t <= LastOf(Entry(c))
                        /\ <<c, t>> \notin twice

StampInv(c) == TakenInv(c) /\ ToRunInv(c) /\ RanInv(c)

CleanInv == \A c \in Clients : Clean(c) => ChangeInv(c) /\ StampInv(c)

\* The role in the running repeater is the one last given.
RoleInv == \A c \in Clients \ lost : RoleOf(Entry(c)) = granted[c]

IInv == TypeOK /\ ReloadInv /\ StepsInv /\ CleanInv /\ RoleInv

-----------------------------------------------------------------------------
(* Entries, steps and their types.                                         *)

LEMMA EntryFacts ==
  /\ NoEntry \notin Entries /\ Guest \in Roles /\ Admin \in Roles /\ Admin # None
  /\ \A e \in Entries \cup {NoEntry} :
       /\ LastOf(e) \in Timestamps \cup {0}
       /\ e # NoEntry => /\ e \in Entries /\ e.role \in Roles /\ RoleOf(e) = e.role
                         /\ e.last \in Timestamps \cup {0} /\ LastOf(e) = e.last
       /\ RoleOf(e) \in Roles \cup {None}
       /\ RoleOf(e) = Admin => e # NoEntry
<1>1. Entries \subseteq [role : Roles, last : Nat]
  BY ACLAssumption DEF Entries, Timestamps
<1>2. NoEntry \notin Entries
  BY <1>1, ACLAssumption
<1>3. Admin # None
  BY ACLAssumption, NoneAssumption
<1>4. QED BY <1>2, <1>3, ACLAssumption DEF Entries, LastOf, RoleOf

LEMMA CachedEntry ==
  ASSUME TypeOK, NEW r \in 1..MaxGen, NEW c \in Clients
  PROVE acl[r][c] \in Entries \cup {NoEntry}
  BY DEF TypeOK

LEMMA GoroutineFacts == "rx" \in Goroutines /\ "api" \in Goroutines
  BY DEF Goroutines

\* Setting out to change a client.
LEMMA BeginType ==
  ASSUME TypeOK, NEW g \in Goroutines, NEW step \in Steps, Begin(g, step)
  PROVE /\ doing' \in [Goroutines -> Steps \cup {None}]
        /\ doing'[g] = step /\ step # None
        /\ \A h \in Goroutines \ {g} : doing'[h] = doing[h]
        /\ stale' \subseteq Clients /\ lost' \subseteq Clients
<1>1. step.client \in Clients
  BY DEF Steps
<1>2. QED BY <1>1, NoneAssumption DEF Begin, TypeOK

\* What a SetACL sets out to do: nothing, or to write back a copy with the role
\* changed and the timestamp as it was.
RoleChange(step, r, c) ==
  /\ step \in Steps /\ step.client = c /\ step.gen = r /\ step.then = None
  /\ step.at \in {"put", "delete"} /\ step.entry \in Entries
  /\ step.entry.last = LastOf(acl[r][c])

LEMMA SetACLSteps ==
  ASSUME TypeOK, NEW g \in Goroutines, NEW r \in 1..MaxGen, NEW c \in Clients,
         NEW role \in Roles, SetACL(g, r, c, role)
  PROVE \/ doing' = [doing EXCEPT ![g] = None] /\ UNCHANGED <<stale, lost>>
        \/ \E step : RoleChange(step, r, c) /\ Begin(g, step)
<1> DEFINE e == acl[r][c]
           step == [at |-> IF role = Guest THEN "delete" ELSE "put", client |-> c, gen |-> r,
                    entry |-> [role |-> role, last |-> LastOf(e)], then |-> None]
<1>1. LastOf(e) \in Timestamps \cup {0}
  BY CachedEntry, EntryFacts
<1>2. [role |-> role, last |-> LastOf(e)] \in Entries
  BY <1>1 DEF Entries
<1>3. step \in Steps
  BY <1>2 DEF Steps
<1>4. RoleChange(step, r, c)
  BY <1>2, <1>3 DEF RoleChange
<1>5. QED BY <1>4 DEF SetACL

\* What a message sets its goroutine out to do.
MessageStep(step, c) ==
  /\ step \in Steps /\ step.client = c /\ step.gen = gen
  /\ step.at \in {"touch", "put"} /\ step.entry \in Entries
  /\ step.entry.last \in Timestamps /\ step.entry.last >= LastOf(Entry(c))
  /\ step.at = "touch" => Entry(c) # NoEntry
  /\ step.then # None => step.at = "touch" /\ step.entry.last > LastOf(Entry(c))

Messaged(c, t) ==
  \/ \E password \in Passwords : Login(c, t, password)
  \/ Request(c, t)
  \/ \E command \in Grants \cup {Plain} : Command(c, t, command)

LEMMA MessagedSteps ==
  ASSUME TypeOK, NEW c \in Clients, NEW t \in Timestamps, Messaged(c, t)
  PROVE /\ \E step : MessageStep(step, c) /\ Begin("rx", step)
        /\ doing["rx"] = None
        /\ heard' \in [Clients -> [Timestamps -> Messages \cup {None}]]
        /\ UNCHANGED <<acl, row, writes, gen, published, stage, sets, history>>
<1>0. Entry(c) \in Entries \cup {NoEntry} /\ gen \in 1..MaxGen
  BY CachedEntry DEF Entry, TypeOK
<1>1. LastOf(Entry(c)) \in Nat /\ t \in Nat
  BY <1>0, EntryFacts, ACLAssumption DEF Timestamps
<1>2. ASSUME NEW password \in Passwords, Login(c, t, password)
      PROVE /\ \E step : MessageStep(step, c) /\ Begin("rx", step)
            /\ \E m \in Messages : heard' = [heard EXCEPT ![c][t] = m]
  <2> DEFINE step == [at |-> "put", client |-> c, gen |-> gen,
                      entry |-> [role |-> RoleFor(password), last |-> t], then |-> None]
  <2>1. [role |-> RoleFor(password), last |-> t] \in Entries
    BY EntryFacts DEF Entries, RoleFor
  <2>2. step \in Steps
    BY <1>0, <2>1 DEF Steps
  <2>3. MessageStep(step, c)
    BY <1>1, <1>2, <2>1, <2>2 DEF MessageStep, Login, Advances
  <2>4. [op |-> "login", password |-> password] \in Messages
    BY DEF Messages
  <2>5. QED BY <1>2, <2>3, <2>4 DEF Login, Hear
<1>3. ASSUME Request(c, t)
      PROVE /\ \E step : MessageStep(step, c) /\ Begin("rx", step)
            /\ \E m \in Messages : heard' = [heard EXCEPT ![c][t] = m]
  <2> DEFINE e == [Entry(c) EXCEPT !.last = t]
             step == [at |-> "touch", client |-> c, gen |-> gen, entry |-> e, then |-> None]
  <2>1. e \in Entries /\ e.last = t /\ Entry(c) # NoEntry
    BY <1>0, <1>3, EntryFacts DEF Request, Entries
  <2> HIDE DEF e
  <2>2. step \in Steps
    BY <1>0, <2>1 DEF Steps
  <2>3. MessageStep(step, c)
    BY <1>1, <1>3, <2>1, <2>2 DEF MessageStep, Request, Advances
  <2>4. [op |-> "req"] \in Messages
    BY DEF Messages
  <2>5. QED BY <1>3, <2>3, <2>4 DEF Request, Hear, e
<1>4. ASSUME NEW command \in Grants \cup {Plain}, Command(c, t, command)
      PROVE /\ \E step : MessageStep(step, c) /\ Begin("rx", step)
            /\ \E m \in Messages : heard' = [heard EXCEPT ![c][t] = m]
  <2> DEFINE e == [Entry(c) EXCEPT !.last = t]
             step == [at |-> "touch", client |-> c, gen |-> gen, entry |-> e,
                      then |-> ToRun(c, t, command)]
  <2>1. Entry(c) # NoEntry /\ LastOf(Entry(c)) = Entry(c).last
    BY <1>0, <1>4, EntryFacts DEF Command
  <2>2. e \in Entries /\ e.last = t
    BY <1>0, <2>1, EntryFacts DEF Entries
  <2> HIDE DEF e
  <2>3. step \in Steps
    BY <1>0, <2>2 DEF Steps, ToRun
  <2>4. MessageStep(step, c)
    BY <1>1, <1>4, <2>1, <2>2, <2>3 DEF MessageStep, Command, ToRun
  <2>5. [op |-> "cli", command |-> command] \in Messages
    BY DEF Messages
  <2>6. QED BY <1>4, <2>4, <2>5 DEF Command, Hear, e
<1>5. /\ doing["rx"] = None
      /\ UNCHANGED <<acl, row, writes, gen, published, stage, sets, history>>
  BY DEF Messaged, Login, Request, Command, Hear
<1>6. PICK m \in Messages : heard' = [heard EXCEPT ![c][t] = m]
  BY <1>2, <1>3, <1>4 DEF Messaged
<1>7. heard' \in [Clients -> [Timestamps -> Messages \cup {None}]]
  BY <1>6 DEF TypeOK
<1>8. QED BY <1>2, <1>3, <1>4, <1>5, <1>7 DEF Messaged

-----------------------------------------------------------------------------
(* Types.                                                                  *)

LEMMA StepFacts ==
  ASSUME NEW d \in Steps
  PROVE /\ d.client \in Clients /\ d.gen \in 1..MaxGen /\ d.entry \in Entries \cup {NoEntry}
        /\ d.then \in Grants \cup {Plain, None} /\ d # None
  BY NoneAssumption DEF Steps

LEMMA AfterFacts ==
  ASSUME TypeOK, NEW g \in Goroutines, doing[g] # None, doing' = After(g)
  PROVE /\ doing' \in [Goroutines -> Steps \cup {None}]
        /\ \A h \in Goroutines \ {g} : doing'[h] = doing[h]
        /\ doing[g].then = None => doing'[g] = None
        /\ doing[g].then # None =>
             /\ doing'[g] # None /\ doing'[g].at = "run"
             /\ doing'[g].client = doing[g].client /\ doing'[g].gen = doing[g].gen
             /\ doing'[g].entry = doing[g].entry /\ doing'[g].then = doing[g].then
<1> DEFINE d == doing[g]
           r == [d EXCEPT !.at = "run"]
<1>1. d \in Steps /\ doing \in [Goroutines -> Steps \cup {None}]
  BY DEF TypeOK
<1>2. r \in Steps /\ r.at = "run" /\ r.client = d.client /\ r.gen = d.gen
      /\ r.entry = d.entry /\ r.then = d.then
  BY <1>1 DEF Steps
<1>3. doing' = [doing EXCEPT ![g] = IF d.then = None THEN None ELSE r]
  BY DEF After
<1> HIDE DEF r, d
<1>4. doing'[g] = (IF d.then = None THEN None ELSE r)
      /\ \A h \in Goroutines \ {g} : doing'[h] = doing[h]
  BY <1>1, <1>3
<1>5. doing' \in [Goroutines -> Steps \cup {None}]
  BY <1>1, <1>2, <1>3
<1>6. r # None
  BY <1>2, NoneAssumption
<1>7. QED BY <1>2, <1>4, <1>5, <1>6 DEF d

LEMMA QueuesFacts ==
  ASSUME TypeOK, NEW g \in Goroutines, doing[g] # None,
         NEW e \in Entries \cup {NoEntry}, Queues(g, e)
  PROVE /\ doing' \in [Goroutines -> Steps \cup {None}]
        /\ \A h \in Goroutines \ {g} : doing'[h] = doing[h]
        /\ doing'[g] # None /\ doing'[g].at = "queue" /\ doing'[g].entry = e
        /\ doing'[g].client = doing[g].client /\ doing'[g].gen = doing[g].gen
        /\ doing'[g].then = doing[g].then
<1> DEFINE d == doing[g]
           r == [d EXCEPT !.at = "queue", !.entry = e]
<1>1. d \in Steps /\ doing \in [Goroutines -> Steps \cup {None}]
  BY DEF TypeOK
<1>2. r \in Steps /\ r.at = "queue" /\ r.client = d.client /\ r.gen = d.gen
      /\ r.entry = e /\ r.then = d.then
  BY <1>1 DEF Steps
<1>3. doing' = [doing EXCEPT ![g] = r]
  BY <1>1 DEF Queues
<1> HIDE DEF r, d
<1>4. doing'[g] = r /\ \A h \in Goroutines \ {g} : doing'[h] = doing[h]
  BY <1>1, <1>3
<1>5. doing' \in [Goroutines -> Steps \cup {None}]
  BY <1>1, <1>2, <1>3
<1>6. r # None
  BY <1>2, NoneAssumption
<1>7. QED BY <1>2, <1>4, <1>5, <1>6 DEF d

\* Replacing one client's entry in one list.
LEMMA AclFacts ==
  ASSUME TypeOK, NEW r \in 1..MaxGen, NEW c \in Clients, NEW e \in Entries \cup {NoEntry},
         acl' = [acl EXCEPT ![r][c] = e]
  PROVE /\ acl' \in [1..MaxGen -> [Clients -> Entries \cup {NoEntry}]]
        /\ acl'[r][c] = e
        /\ \A q \in 1..MaxGen, b \in Clients : q # r \/ b # c => acl'[q][b] = acl[q][b]
<1>1. /\ acl \in [1..MaxGen -> [Clients -> Entries \cup {NoEntry}]]
      /\ acl[r] \in [Clients -> Entries \cup {NoEntry}]
  BY DEF TypeOK
<1> DEFINE f == [acl[r] EXCEPT ![c] = e]
<1>2. /\ f \in [Clients -> Entries \cup {NoEntry}] /\ f[c] = e
      /\ \A b \in Clients \ {c} : f[b] = acl[r][b]
  BY <1>1
<1>3. acl' = [acl EXCEPT ![r] = f]
  OBVIOUS
<1> HIDE DEF f
<1>4. acl'[r] = f /\ \A q \in (1..MaxGen) \ {r} : acl'[q] = acl[q]
  BY <1>1, <1>3
<1>5. acl' \in [1..MaxGen -> [Clients -> Entries \cup {NoEntry}]]
  BY <1>1, <1>2, <1>3
<1>6. QED BY <1>2, <1>4, <1>5

\* The other entry a touch writes is still an entry.
LEMMA TouchedFacts ==
  ASSUME NEW cur \in Entries, NEW e \in Entries
  PROVE Touched(cur, e) \in Entries /\ Touched(cur, e).role = cur.role
        /\ Touched(cur, e).last = e.last
  BY DEF Touched, Entries

Typed == TypeOK /\ ReloadInv /\ StepsInv

LEMMA TypedInit == ASSUME Init PROVE Typed
<1>1. 1 \in 1..MaxGen /\ NoEntry \in Entries \cup {NoEntry}
  BY ACLAssumption
<1>2. writes \in Seq([client : Clients, entry : Entries \cup {NoEntry}])
      /\ Len(writes) = 0
  BY EmptySeq DEF Init
<1>3. 0 <= QueueDepth /\ 0 \in 0..MaxSets
  BY ACLAssumption
<1>4. TypeOK
  BY <1>1, <1>2, <1>3 DEF Init, TypeOK
<1>5. QED BY <1>1, <1>4 DEF Init, Typed, ReloadInv, StepsInv

\* The other goroutine's step is left as it was.
LEMMA OneStep ==
  ASSUME StepsInv, NEW g \in Goroutines,
         \A h \in Goroutines \ {g} : doing'[h] = doing[h],
         doing'[g] # None => CarriedBy(g, doing'[g])
  PROVE StepsInv'
  BY DEF StepsInv, CarriedBy

LEMMA MessagedTyped ==
  ASSUME Typed, NEW c \in Clients, NEW t \in Timestamps, Messaged(c, t)
  PROVE Typed'
<1>1. TypeOK /\ ReloadInv /\ StepsInv
  BY DEF Typed
<1>2. PICK step : MessageStep(step, c) /\ Begin("rx", step)
  BY <1>1, MessagedSteps
<1>3. /\ heard' \in [Clients -> [Timestamps -> Messages \cup {None}]]
      /\ UNCHANGED <<acl, row, writes, gen, published, stage, sets, history>>
  BY <1>1, MessagedSteps
<1>4. step \in Steps
  BY <1>2 DEF MessageStep
<1>5. /\ doing' \in [Goroutines -> Steps \cup {None}]
      /\ doing'["rx"] = step /\ \A h \in Goroutines \ {"rx"} : doing'[h] = doing[h]
      /\ stale' \subseteq Clients /\ lost' \subseteq Clients
  BY <1>1, <1>2, <1>4, BeginType, GoroutineFacts
<1>6. TypeOK'
  BY <1>1, <1>3, <1>5 DEF TypeOK, history
<1>7. CarriedBy("rx", step)
  BY <1>2 DEF MessageStep, CarriedBy
<1>8. StepsInv'
  BY <1>1, <1>5, <1>7, OneStep, GoroutineFacts
<1>9. QED BY <1>1, <1>3, <1>6, <1>8 DEF Typed, ReloadInv

LEMMA RoleChangeTyped ==
  ASSUME Typed, NEW g \in Goroutines, NEW r \in 1..MaxGen, NEW c \in Clients,
         NEW role \in Roles, SetACL(g, r, c, role)
  PROVE /\ doing' \in [Goroutines -> Steps \cup {None}]
        /\ stale' \subseteq Clients /\ lost' \subseteq Clients
        /\ StepsInv'
<1>1. TypeOK /\ StepsInv
  BY DEF Typed
<1>2. CASE doing' = [doing EXCEPT ![g] = None] /\ UNCHANGED <<stale, lost>>
  <2>1. /\ doing' \in [Goroutines -> Steps \cup {None}] /\ doing'[g] = None
        /\ \A h \in Goroutines \ {g} : doing'[h] = doing[h]
    BY <1>1, <1>2 DEF TypeOK
  <2>2. StepsInv'
    BY <1>1, <2>1, OneStep
  <2>3. QED BY <1>1, <1>2, <2>1, <2>2 DEF TypeOK
<1>3. ASSUME NEW step, RoleChange(step, r, c), Begin(g, step)
      PROVE /\ doing' \in [Goroutines -> Steps \cup {None}]
            /\ stale' \subseteq Clients /\ lost' \subseteq Clients
            /\ StepsInv'
  <2>1. step \in Steps /\ CarriedBy(g, step)
    BY <1>3 DEF RoleChange, CarriedBy
  <2>2. /\ doing' \in [Goroutines -> Steps \cup {None}] /\ doing'[g] = step
        /\ \A h \in Goroutines \ {g} : doing'[h] = doing[h]
        /\ stale' \subseteq Clients /\ lost' \subseteq Clients
    BY <1>1, <1>3, <2>1, BeginType
  <2>3. StepsInv'
    BY <1>1, <2>1, <2>2, OneStep
  <2>4. QED BY <2>2, <2>3
<1>4. QED BY <1>1, <1>2, <1>3, SetACLSteps

LEMMA TouchTyped == ASSUME Typed, NEW g \in Goroutines, Touch(g) PROVE Typed'
<1> DEFINE d == doing[g]
           cur == acl[d.gen][d.client]
<1>1. TypeOK /\ ReloadInv /\ StepsInv /\ d # None /\ d.at = "touch" /\ d \in Steps
  BY DEF Typed, Touch, Step, TypeOK
<1>2. /\ d.gen \in 1..MaxGen /\ d.client \in Clients /\ d.entry \in Entries
      /\ CarriedBy(g, d) /\ cur \in Entries \cup {NoEntry}
  BY <1>1, StepFacts, CachedEntry DEF StepsInv, CarriedBy
<1>3. UNCHANGED <<heard, row, writes, gen, published, stage, sets, stale, lost, history>>
  BY DEF Touch
<1>4. CASE cur = NoEntry /\ doing' = After(g) /\ UNCHANGED acl
  <2>1. doing' \in [Goroutines -> Steps \cup {None}] /\ StepsInv'
    BY <1>1, <1>2, <1>4, AfterFacts, OneStep DEF CarriedBy
  <2>2. QED BY <1>1, <1>3, <1>4, <2>1 DEF Typed, TypeOK, ReloadInv, history
<1>5. CASE /\ cur # NoEntry /\ Queues(g, Touched(cur, d.entry))
           /\ acl' = [acl EXCEPT ![d.gen][d.client] = Touched(cur, d.entry)]
  <2>1. Touched(cur, d.entry) \in Entries /\ Touched(cur, d.entry).last = d.entry.last
    BY <1>2, <1>5, TouchedFacts
  <2>2. PICK e \in Entries : e = Touched(cur, d.entry)
    BY <2>1
  <2>6. /\ doing' \in [Goroutines -> Steps \cup {None}] /\ doing'[g] # None
        /\ \A h \in Goroutines \ {g} : doing'[h] = doing[h]
        /\ doing'[g].at = "queue" /\ doing'[g].entry = e /\ doing'[g].then = d.then
    BY <1>1, <1>5, <2>2, QueuesFacts
  <2>7. d.then # None => g = "rx" /\ e.last \in Timestamps
    BY <1>2, <2>1, <2>2 DEF CarriedBy
  <2>8. CarriedBy(g, doing'[g])
    BY <2>6, <2>7 DEF CarriedBy
  <2>9. StepsInv'
    BY <1>1, <2>6, <2>8, OneStep
  <2>3. doing' \in [Goroutines -> Steps \cup {None}] /\ StepsInv'
    BY <2>6, <2>9
  <2>4. acl' \in [1..MaxGen -> [Clients -> Entries \cup {NoEntry}]]
    BY <1>1, <1>2, <1>5, <2>2, AclFacts
  <2>5. QED BY <1>1, <1>3, <2>3, <2>4 DEF Typed, TypeOK, ReloadInv, history
<1>6. QED BY <1>4, <1>5 DEF Touch

LEMMA GivenTyped ==
  ASSUME TypeOK, NEW g \in Goroutines, NEW c \in Clients, NEW role \in Roles \cup {None},
         Given(g, c, role)
  PROVE granted' \in [Clients -> Roles \cup {None}]
  BY DEF TypeOK, Given

LEMMA PutTyped == ASSUME Typed, NEW g \in Goroutines, Put(g) PROVE Typed'
<1> DEFINE d == doing[g]
<1>1. TypeOK /\ ReloadInv /\ StepsInv /\ d # None /\ d.at = "put" /\ d \in Steps
  BY DEF Typed, Put, Step, TypeOK
<1>2. /\ d.gen \in 1..MaxGen /\ d.client \in Clients /\ d.entry \in Entries
      /\ CarriedBy(g, d) /\ d.entry.role \in Roles
  BY <1>1, StepFacts, EntryFacts DEF StepsInv, CarriedBy
<1>3. /\ UNCHANGED <<heard, row, writes, gen, published, stage, sets, stale, lost, ran, twice>>
      /\ acl' = [acl EXCEPT ![d.gen][d.client] = d.entry] /\ Queues(g, d.entry)
      /\ Given(g, d.client, d.entry.role)
  BY DEF Put
<1>4. doing' \in [Goroutines -> Steps \cup {None}] /\ StepsInv'
  BY <1>1, <1>2, <1>3, QueuesFacts, OneStep DEF CarriedBy
<1>5. acl' \in [1..MaxGen -> [Clients -> Entries \cup {NoEntry}]]
  BY <1>1, <1>2, <1>3, AclFacts
<1>6. granted' \in [Clients -> Roles \cup {None}]
  BY <1>1, <1>2, <1>3, GivenTyped
<1>7. QED BY <1>1, <1>3, <1>4, <1>5, <1>6 DEF Typed, TypeOK, ReloadInv

LEMMA DeleteTyped == ASSUME Typed, NEW g \in Goroutines, Delete(g) PROVE Typed'
<1> DEFINE d == doing[g]
<1>1. TypeOK /\ ReloadInv /\ StepsInv /\ d # None /\ d.at = "delete" /\ d \in Steps
  BY DEF Typed, Delete, Step, TypeOK
<1>2. d.gen \in 1..MaxGen /\ d.client \in Clients /\ CarriedBy(g, d)
  BY <1>1, StepFacts DEF StepsInv
<1>3. /\ UNCHANGED <<heard, row, writes, gen, published, stage, sets, stale, lost>>
      /\ acl' = [acl EXCEPT ![d.gen][d.client] = NoEntry] /\ Queues(g, NoEntry)
      /\ Given(g, d.client, None)
      /\ ran' \subseteq ran /\ twice' \subseteq twice
  BY DEF Delete
<1>4. doing' \in [Goroutines -> Steps \cup {None}] /\ StepsInv'
  BY <1>1, <1>2, <1>3, QueuesFacts, OneStep DEF CarriedBy
<1>5. acl' \in [1..MaxGen -> [Clients -> Entries \cup {NoEntry}]]
  BY <1>1, <1>2, <1>3, AclFacts
<1>6. granted' \in [Clients -> Roles \cup {None}]
  BY <1>1, <1>2, <1>3, GivenTyped
<1>7. QED BY <1>1, <1>3, <1>4, <1>5, <1>6 DEF Typed, TypeOK, ReloadInv

\* The change in a goroutine's hands, as it is queued.
Change == [client : Clients, entry : Entries \cup {NoEntry}]
ChangeOf(g) == [client |-> doing[g].client, entry |-> doing[g].entry]

\* The change is queued, or dropped by a full queue.
LEMMA QueueSteps ==
  ASSUME TypeOK, NEW g \in Goroutines, Queue(g)
  PROVE /\ doing[g] \in Steps /\ doing[g] # None /\ doing[g].at = "queue"
        /\ ChangeOf(g) \in Change /\ doing' = After(g)
        /\ UNCHANGED <<heard, acl, row, gen, published, stage, sets, lost, history>>
        /\ \/ /\ Len(writes) < QueueDepth /\ UNCHANGED stale
              /\ writes' = Append(writes, ChangeOf(g))
           \/ stale' = stale \cup {doing[g].client} /\ UNCHANGED writes
<1>1. doing[g] \in Steps /\ doing[g] # None /\ doing[g].at = "queue"
  BY DEF TypeOK, Queue, Step
<1>2. ChangeOf(g) \in Change
  BY <1>1, StepFacts DEF Change, ChangeOf
<1>3. QED BY <1>1, <1>2 DEF Queue, ChangeOf

LEMMA AppendFacts ==
  ASSUME TypeOK, NEW w \in Change, Len(writes) < QueueDepth, writes' = Append(writes, w)
  PROVE /\ writes' \in Seq(Change) /\ Len(writes') = Len(writes) + 1
        /\ Len(writes') <= QueueDepth /\ Len(writes) \in Nat
        /\ \A i \in 1..Len(writes) : writes'[i] = writes[i]
        /\ writes'[Len(writes) + 1] = w
<1>1. writes \in Seq(Change) /\ QueueDepth \in Nat
  BY ACLAssumption DEF TypeOK, Change
<1>2. Len(writes) \in Nat
  BY <1>1, LenProperties
<1>3. QED BY <1>1, <1>2, AppendProperties

LEMMA QueueTyped == ASSUME Typed, NEW g \in Goroutines, Queue(g) PROVE Typed'
<1> DEFINE d == doing[g]
<1>1. TypeOK /\ ReloadInv /\ StepsInv
  BY DEF Typed
<1>2. /\ d \in Steps /\ d # None /\ d.at = "queue"
      /\ ChangeOf(g) \in Change /\ doing' = After(g)
      /\ UNCHANGED <<heard, acl, row, gen, published, stage, sets, lost, history>>
  BY <1>1, QueueSteps
<1>3. CarriedBy(g, d) /\ d.client \in Clients
  BY <1>1, <1>2, StepFacts DEF StepsInv
<1>4. doing' \in [Goroutines -> Steps \cup {None}] /\ StepsInv'
  BY <1>1, <1>2, <1>3, AfterFacts, OneStep DEF CarriedBy
<1>5. CASE Len(writes) < QueueDepth /\ UNCHANGED stale /\ writes' = Append(writes, ChangeOf(g))
  <2>1. PICK w \in Change : w = ChangeOf(g)
    BY <1>2
  <2>2. writes' \in Seq(Change) /\ Len(writes') <= QueueDepth
    BY <1>1, <1>5, <2>1, AppendFacts
  <2>3. QED BY <1>1, <1>2, <1>4, <1>5, <2>2 DEF Typed, TypeOK, ReloadInv, Change, history
<1>6. CASE stale' = stale \cup {d.client} /\ UNCHANGED writes
  BY <1>1, <1>2, <1>3, <1>4, <1>6 DEF Typed, TypeOK, ReloadInv, history
<1>7. QED BY <1>1, <1>5, <1>6, QueueSteps

\* What running a command does to the history.
LEMMA RunFacts ==
  ASSUME Typed, Run
  PROVE LET d == doing["rx"] IN
        /\ d \in Steps /\ d # None /\ d.at = "run" /\ d.then # None /\ d.entry \in Entries
        /\ d.client \in Clients /\ d.gen \in 1..MaxGen /\ d.entry.last \in Timestamps
        /\ ran' = ran \cup {<<d.client, d.entry.last>>}
        /\ twice' = twice \cup (ran \cap {<<d.client, d.entry.last>>})
        /\ UNCHANGED <<heard, acl, row, writes, gen, published, stage, sets, granted>>
        /\ \/ doing' = [doing EXCEPT !["rx"] = None] /\ UNCHANGED <<stale, lost>>
           \/ \E c \in Clients, role \in Roles : SetACL("rx", d.gen, c, role)
<1> DEFINE d == doing["rx"]
<1>1. d \in Steps /\ d # None /\ d.at = "run" /\ CarriedBy("rx", d)
  BY GoroutineFacts DEF Typed, TypeOK, StepsInv, Run, Step
<1>2. d.client \in Clients /\ d.gen \in 1..MaxGen /\ d.then \in Grants \cup {Plain, None}
  BY <1>1, StepFacts
<1>3. d.then # None /\ d.entry \in Entries /\ d.entry.last \in Timestamps
  BY <1>1 DEF CarriedBy
<1>4. d.then # Plain => d.then.target \in Clients /\ d.then.role \in Roles
  BY <1>2, <1>3 DEF Grants
<1>5. QED BY <1>1, <1>2, <1>3, <1>4 DEF Run

LEMMA RunTyped == ASSUME Typed, Run PROVE Typed'
<1> DEFINE d == doing["rx"]
<1>1. TypeOK /\ ReloadInv /\ StepsInv
  BY DEF Typed
<1>2. /\ d.client \in Clients /\ d.entry.last \in Timestamps /\ d.gen \in 1..MaxGen
      /\ ran' = ran \cup {<<d.client, d.entry.last>>}
      /\ twice' = twice \cup (ran \cap {<<d.client, d.entry.last>>})
      /\ UNCHANGED <<heard, acl, row, writes, gen, published, stage, sets, granted>>
  BY RunFacts
<1>3. ran' \subseteq Clients \X Timestamps /\ twice' \subseteq Clients \X Timestamps
  BY <1>1, <1>2 DEF TypeOK
<1>4. /\ doing' \in [Goroutines -> Steps \cup {None}] /\ StepsInv'
      /\ stale' \subseteq Clients /\ lost' \subseteq Clients
  <2>1. CASE doing' = [doing EXCEPT !["rx"] = None] /\ UNCHANGED <<stale, lost>>
    <3>1. doing' \in [Goroutines -> Steps \cup {None}] /\ doing'["rx"] = None
          /\ \A h \in Goroutines \ {"rx"} : doing'[h] = doing[h]
      BY <1>1, <2>1, GoroutineFacts DEF TypeOK
    <3>2. StepsInv'
      BY <1>1, <3>1, OneStep, GoroutineFacts
    <3>3. QED BY <1>1, <2>1, <3>1, <3>2 DEF TypeOK
  <2>2. ASSUME NEW c \in Clients, NEW role \in Roles, SetACL("rx", d.gen, c, role)
        PROVE /\ doing' \in [Goroutines -> Steps \cup {None}] /\ StepsInv'
              /\ stale' \subseteq Clients /\ lost' \subseteq Clients
    <3>1. PICK r \in 1..MaxGen : r = d.gen
      BY <1>2
    <3>2. QED BY <2>2, <3>1, RoleChangeTyped, GoroutineFacts
  <2>3. QED BY <2>1, <2>2, RunFacts
<1>5. QED BY <1>1, <1>2, <1>3, <1>4 DEF Typed, TypeOK, ReloadInv

LEMMA ApiTyped ==
  ASSUME Typed, NEW c \in Clients, NEW role \in Roles, ApiSetACL(c, role)
  PROVE Typed'
<1>1. TypeOK /\ ReloadInv /\ StepsInv
  BY DEF Typed
<1>2. /\ UNCHANGED <<heard, acl, row, writes, gen, published, stage, history>>
      /\ sets' = sets + 1 /\ sets < MaxSets /\ SetACL("api", published, c, role)
  BY DEF ApiSetACL
<1>3. PICK r \in 1..MaxGen : r = published
  BY <1>1 DEF ReloadInv
<1>4. /\ doing' \in [Goroutines -> Steps \cup {None}] /\ StepsInv'
      /\ stale' \subseteq Clients /\ lost' \subseteq Clients
  BY <1>2, <1>3, RoleChangeTyped, GoroutineFacts
<1>5. sets' \in 0..MaxSets
  BY <1>1, <1>2, ACLAssumption DEF TypeOK
<1>6. QED BY <1>1, <1>2, <1>4, <1>5 DEF Typed, TypeOK, ReloadInv, history

LEMMA TailFacts ==
  ASSUME TypeOK, writes # <<>>
  PROVE /\ Len(writes) \in Nat /\ Len(writes) >= 1
        /\ \A i \in 1..Len(writes) : writes[i] \in Change
        /\ Head(writes) = writes[1]
        /\ Tail(writes) \in Seq(Change) /\ Len(Tail(writes)) = Len(writes) - 1
        /\ \A i \in 1..Len(writes) - 1 : Tail(writes)[i] = writes[i + 1]
<1>1. writes \in Seq(Change) /\ writes # <<>>
  BY DEF TypeOK, Change
<1>2. Len(writes) \in Nat /\ Len(writes) >= 1
  BY <1>1, LenProperties, EmptySeq
<1>3. \A i \in 1..Len(writes) : writes[i] \in Change
  BY <1>1, ElementOfSeq
<1>4. QED BY <1>1, <1>2, <1>3, HeadTailProperties

LEMMA WriteTyped == ASSUME Typed, Write PROVE Typed'
<1>1. TypeOK /\ ReloadInv /\ StepsInv /\ writes # <<>>
  BY DEF Typed, Write
<1>2. /\ UNCHANGED <<heard, acl, doing, gen, published, stage, sets, stale, lost, history>>
      /\ row' = [row EXCEPT ![Head(writes).client] = Head(writes).entry]
      /\ writes' = Tail(writes)
  BY DEF Write
<1>3. Head(writes) \in Change
  BY <1>1, TailFacts
<1>4. row' \in [Clients -> Entries \cup {NoEntry}]
  BY <1>1, <1>2, <1>3 DEF TypeOK, Change
<1>5. writes' \in Seq(Change) /\ Len(writes') <= QueueDepth
  BY <1>1, <1>2, TailFacts, ACLAssumption DEF TypeOK
<1>6. QED
  BY <1>1, <1>2, <1>4, <1>5 DEF Typed, TypeOK, ReloadInv, StepsInv, CarriedBy, Change, history

\* What a new repeater starts from.
LEMMA LoadFacts ==
  ASSUME Typed, aclLoad, gen < MaxGen
  PROVE /\ gen' = gen + 1 /\ gen' \in 1..MaxGen /\ gen \in 1..MaxGen
        /\ acl' \in [1..MaxGen -> [Clients -> Entries \cup {NoEntry}]]
        /\ acl'[gen'] = row
        /\ lost' \subseteq Clients /\ lost' = lost \cup stale \cup {c \in Clients : OnItsWay(c)}
<1>1. gen \in 1..MaxGen /\ gen + 1 \in 1..MaxGen /\ gen' = gen + 1
  BY ACLAssumption DEF Typed, TypeOK, aclLoad
<1>2. acl' = [acl EXCEPT ![gen + 1] = row]
  BY DEF aclLoad
<1>3. QED BY <1>1, <1>2 DEF Typed, TypeOK, aclLoad

LEMMA ReloadTyped ==
  ASSUME Typed, StopRepeater \/ NewRepeater \/ InstallBackend
  PROVE Typed'
<1>1. TypeOK /\ ReloadInv /\ StepsInv
  BY DEF Typed
<1>2. CASE StopRepeater
  BY <1>1, <1>2 DEF StopRepeater, Typed, TypeOK, ReloadInv, StepsInv, CarriedBy, history
<1>3. CASE NewRepeater
  <2>1. /\ stage = "stopped" /\ stage' = "loaded" /\ aclLoad
        /\ UNCHANGED <<heard, row, writes, doing, published, sets, stale, history>>
    BY <1>3 DEF NewRepeater
  <2>2. gen < MaxGen /\ published = gen
    BY <1>1, <2>1 DEF ReloadInv
  <2>3. /\ gen' = gen + 1 /\ gen' \in 1..MaxGen /\ gen \in 1..MaxGen
        /\ acl' \in [1..MaxGen -> [Clients -> Entries \cup {NoEntry}]]
        /\ lost' \subseteq Clients
    BY <2>1, <2>2, LoadFacts
  <2>4. TypeOK'
    BY <1>1, <2>1, <2>2, <2>3 DEF TypeOK, history
  <2>5. QED BY <1>1, <2>1, <2>2, <2>3, <2>4 DEF Typed, ReloadInv, StepsInv, CarriedBy
<1>4. CASE InstallBackend
  BY <1>1, <1>4 DEF InstallBackend, Typed, TypeOK, ReloadInv, StepsInv, CarriedBy, history
<1>5. QED BY <1>2, <1>3, <1>4

LEMMA KillTyped == ASSUME Typed, Kill PROVE Typed'
<1>1. TypeOK /\ ReloadInv /\ StepsInv
  BY DEF Typed
<1>2. /\ gen < MaxGen /\ aclLoad /\ stage' = "up" /\ published' = gen + 1
      /\ writes' = <<>> /\ doing' = [g \in Goroutines |-> None]
      /\ UNCHANGED <<heard, row, sets, stale, history>>
  BY DEF Kill
<1>3. /\ gen' = gen + 1 /\ gen' \in 1..MaxGen /\ gen \in 1..MaxGen
      /\ acl' \in [1..MaxGen -> [Clients -> Entries \cup {NoEntry}]]
      /\ lost' \subseteq Clients
  BY <1>2, LoadFacts
<1>4. writes' \in Seq(Change) /\ Len(writes') <= QueueDepth
  BY <1>2, EmptySeq, ACLAssumption
<1>5. TypeOK'
  BY <1>1, <1>2, <1>3, <1>4 DEF TypeOK, Change, history
<1>6. QED BY <1>2, <1>3, <1>5 DEF Typed, ReloadInv, StepsInv

LEMMA NextCases ==
  ASSUME Next
  PROVE \/ \E c \in Clients, t \in Timestamps : Messaged(c, t)
        \/ \E g \in Goroutines : Touch(g) \/ Put(g) \/ Delete(g) \/ Queue(g)
        \/ Run
        \/ \E c \in Clients, role \in Roles : ApiSetACL(c, role)
        \/ Write
        \/ StopRepeater \/ NewRepeater \/ InstallBackend
        \/ Kill
  BY DEF Next, Messaged

LEMMA TypedStep == ASSUME Typed, [Next]_vars PROVE Typed'
<1>1. CASE UNCHANGED vars
  BY <1>1 DEF vars, history, Typed, TypeOK, ReloadInv, StepsInv, CarriedBy
<1>2. CASE Next
  BY <1>2, NextCases, MessagedTyped, TouchTyped, PutTyped, DeleteTyped, QueueTyped, RunTyped,
     ApiTyped, WriteTyped, ReloadTyped, KillTyped
<1>3. QED BY <1>1, <1>2

-----------------------------------------------------------------------------
(* Clean clients.                                                          *)

\* Nothing of b's is changed; a goroutine may turn from its command to another
\* client.
LEMMA Untouched ==
  ASSUME NEW b \in Clients, ChangeInv(b), TakenInv(b),
         gen' = gen, Entry(b)' = Entry(b),
         Comes(b, Entry(b)) => Comes(b, Entry(b))',
         \A h \in Goroutines :
           \/ doing'[h] = doing[h]
           \/ (Busy(h, b) => doing[h].at # "queue") /\ ~Busy(h, b)'
  PROVE ChangeInv(b)' /\ TakenInv(b)'
<1>1. \A h \in Goroutines : Busy(h, b)' => Busy(h, b) /\ doing'[h] = doing[h]
  BY DEF Busy
<1>2. \A h \in Goroutines : Busy(h, b) /\ doing[h].at = "queue" =>
        Busy(h, b)' /\ doing'[h] = doing[h]
  BY DEF Busy
<1>3. ChangeInv(b)'
  BY <1>1, <1>2 DEF ChangeInv
<1>4. TakenInv(b)'
  BY <1>1 DEF TakenInv
<1>5. QED BY <1>3, <1>4

\* Of b's commands none has been run meanwhile.
LEMMA RanUntouched ==
  ASSUME NEW b \in Clients, ToRunInv(b), RanInv(b), Entry(b)' = Entry(b),
         \A t : /\ <<b, t>> \in ran' => <<b, t>> \in ran
                /\ <<b, t>> \in twice' => <<b, t>> \in twice,
         \A h \in Goroutines : doing'[h] = doing[h] \/ ~Busy(h, b)'
  PROVE ToRunInv(b)' /\ RanInv(b)'
<1>1. ToRunInv(b)'
  BY DEF ToRunInv, Busy
<1>2. RanInv(b)'
  BY DEF RanInv
<1>3. QED BY <1>1, <1>2

LEMMA StillComes ==
  ASSUME NEW b \in Clients, NEW e, Comes(b, e), UNCHANGED <<row, writes>>
  PROVE Comes(b, e)'
  BY DEF Comes, LastWrite, Queued

LEMMA OtherQueued ==
  ASSUME TypeOK, NEW b \in Clients, NEW e, NEW w \in Change, Comes(b, e), w.client # b,
         UNCHANGED row, Len(writes) < QueueDepth, writes' = Append(writes, w)
  PROVE Comes(b, e)'
<1> DEFINE n == Len(writes)
<1>1. /\ n \in Nat /\ Len(writes') = n + 1 /\ writes'[n + 1].client # b
      /\ \A i \in 1..n : writes'[i] = writes[i]
  BY AppendFacts
<1>2. ASSUME NEW i \in Queued', LastWrite(b, i)' PROVE writes'[i].entry = e
  BY <1>1, <1>2 DEF Comes, LastWrite, Queued
<1>3. ASSUME \A i \in Queued' : writes'[i].client # b PROVE row'[b] = e
  BY <1>1, <1>3 DEF Comes, Queued
<1>4. QED BY <1>2, <1>3 DEF Comes

LEMMA OwnQueued ==
  ASSUME TypeOK, NEW w \in Change, Len(writes) < QueueDepth, writes' = Append(writes, w)
  PROVE Comes(w.client, w.entry)'
<1> DEFINE n == Len(writes)
<1>1. /\ n \in Nat /\ Len(writes') = n + 1 /\ writes'[n + 1] = w
      /\ \A i \in 1..n : writes'[i] = writes[i]
  BY AppendFacts
<1>2. ASSUME NEW i \in Queued', LastWrite(w.client, i)' PROVE writes'[i].entry = w.entry
  BY <1>1, <1>2 DEF LastWrite, Queued
<1>3. n + 1 \in Queued' /\ writes'[n + 1].client = w.client
  BY <1>1 DEF Queued
<1>4. QED BY <1>2, <1>3 DEF Comes

LEMMA Written ==
  ASSUME TypeOK, NEW b \in Clients, NEW e, Comes(b, e), Write
  PROVE Comes(b, e)'
<1> DEFINE n == Len(writes)
<1>1. /\ n \in Nat /\ n >= 1 /\ writes[1] \in Change /\ Len(writes') = n - 1
      /\ \A i \in 1..n - 1 : writes'[i] = writes[i + 1]
      /\ row' = [row EXCEPT ![writes[1].client] = writes[1].entry]
  BY TailFacts DEF Write
<1>2. ASSUME NEW i \in Queued', LastWrite(b, i)' PROVE writes'[i].entry = e
  <2>1. i \in 1..n - 1 /\ i + 1 \in 1..n /\ writes[i + 1].client = b /\ i \in Nat
    BY <1>1, <1>2 DEF Queued, LastWrite
  <2>2. ASSUME NEW j \in 1..n, j > i + 1 PROVE writes[j].client # b
    <3>1. j - 1 \in 1..n - 1 /\ j - 1 > i /\ (j - 1) + 1 = j
      BY <1>1, <2>1, <2>2
    <3>2. writes'[j - 1] = writes[j]
      BY <1>1, <3>1
    <3>3. writes'[j - 1].client # b
      BY <1>1, <1>2, <3>1 DEF LastWrite, Queued
    <3>4. QED BY <3>2, <3>3
  <2>3. LastWrite(b, i + 1)
    BY <2>1, <2>2 DEF LastWrite, Queued
  <2>4. QED BY <1>1, <2>1, <2>3 DEF Comes, Queued
<1>3. ASSUME \A i \in Queued' : writes'[i].client # b PROVE row'[b] = e
  <2>1. ASSUME NEW j \in 1..n, j > 1 PROVE writes[j].client # b
    <3>1. j - 1 \in 1..n - 1 /\ (j - 1) + 1 = j
      BY <1>1, <2>1
    <3>2. QED BY <1>1, <1>3, <3>1 DEF Queued
  <2>2. CASE writes[1].client = b
    <3>1. LastWrite(b, 1) /\ 1 \in Queued
      BY <1>1, <2>1, <2>2 DEF LastWrite, Queued
    <3>2. QED BY <1>1, <2>2, <3>1 DEF Comes, TypeOK
  <2>3. CASE writes[1].client # b
    <3>1. \A j \in Queued : writes[j].client # b
      BY <1>1, <2>1, <2>3 DEF Queued
    <3>2. QED BY <1>1, <2>3, <3>1 DEF Comes, TypeOK, Change
  <2>4. QED BY <2>2, <2>3
<1>4. QED BY <1>2, <1>3 DEF Comes

\* A client's entry with nothing written or queued.
LEMMA EntryKept ==
  ASSUME NEW b \in Clients, UNCHANGED <<acl, gen, row, writes>>
  PROVE /\ Entry(b)' = Entry(b)
        /\ Comes(b, Entry(b)) => Comes(b, Entry(b))'
<1>1. Entry(b)' = Entry(b)
  BY DEF Entry
<1>2. PICK e : e = Entry(b)
  OBVIOUS
<1>3. Comes(b, e) => Comes(b, e)'
  BY StillComes
<1>4. QED BY <1>1, <1>2, <1>3

\* What a client must have for a goroutine to set out to change it.
Fits(step) ==
  /\ step.at \in {"touch", "put"} => step.entry.last >= LastOf(Entry(step.client))
  /\ step.at = "touch" => Entry(step.client) # NoEntry

LEMMA BeginClean ==
  ASSUME Typed, CleanInv, NEW g \in Goroutines, NEW step \in Steps, Begin(g, step),
         doing[g] # None => doing[g].at = "run",
         step.at \in {"touch", "put", "delete"},
         UNCHANGED <<acl, gen, row, writes>>,
         step.gen = gen => Fits(step),
         NEW b \in Clients, Clean(b)'
  PROVE /\ Clean(b) /\ ChangeInv(b)' /\ TakenInv(b)'
        /\ doing'[g] = step /\ \A h \in Goroutines \ {g} : doing'[h] = doing[h]
        /\ step.client = b => step.gen = gen
<1>1. /\ doing'[g] = step /\ step # None /\ \A h \in Goroutines \ {g} : doing'[h] = doing[h]
  BY BeginType DEF Typed
<1>2. Clean(b)
  BY DEF Clean, Begin
<1>3. ChangeInv(b) /\ TakenInv(b)
  BY <1>2 DEF CleanInv, StampInv
<1>4. step.client = b => step.gen = gen /\ \A h \in Goroutines \ {g} : ~Busy(h, b)
  BY DEF Clean, Begin
<1>5. Entry(b)' = Entry(b) /\ (Comes(b, Entry(b)) => Comes(b, Entry(b))')
  BY EntryKept
<1>6. CASE step.client = b
  <2>1. \A h \in Goroutines : Busy(h, b)' => h = g
    BY <1>1, <1>4, <1>6 DEF Busy
  <2>2. \A h \in Goroutines : Busy(h, b) => doing[h].at # "queue"
    BY <1>4, <1>6 DEF Busy
  <2>3. Comes(b, Entry(b))'
    BY <1>3, <1>5, <2>2 DEF ChangeInv
  <2>4. ChangeInv(b)'
    BY <1>1, <1>4, <1>6, <2>1, <2>3 DEF ChangeInv
  <2>5. TakenInv(b)'
    BY <1>1, <1>4, <1>5, <1>6, <2>1 DEF TakenInv, Fits
  <2>6. QED BY <1>1, <1>2, <1>4, <2>4, <2>5
<1>7. CASE step.client # b
  <2>1. \A h \in Goroutines : \/ doing'[h] = doing[h]
                              \/ (Busy(h, b) => doing[h].at # "queue") /\ ~Busy(h, b)'
    BY <1>1, <1>7 DEF Busy
  <2>2. gen' = gen
    OBVIOUS
  <2>3. ChangeInv(b)' /\ TakenInv(b)'
    BY <1>3, <1>5, <2>1, <2>2, Untouched
  <2>4. QED BY <1>1, <1>2, <1>7, <2>3
<1>8. QED BY <1>6, <1>7

LEMMA EndClean ==
  ASSUME Typed, CleanInv, NEW g \in Goroutines, doing' = [doing EXCEPT ![g] = None],
         doing[g] # None => doing[g].at = "run",
         UNCHANGED <<acl, gen, row, writes, stale, lost>>,
         NEW b \in Clients, Clean(b)'
  PROVE /\ Clean(b) /\ ChangeInv(b)' /\ TakenInv(b)'
        /\ doing'[g] = None /\ \A h \in Goroutines \ {g} : doing'[h] = doing[h]
<1>1. doing'[g] = None /\ \A h \in Goroutines \ {g} : doing'[h] = doing[h]
  BY DEF Typed, TypeOK
<1>2. Clean(b)
  BY DEF Clean
<1>3. ChangeInv(b) /\ TakenInv(b)
  BY <1>2 DEF CleanInv, StampInv
<1>4. Entry(b)' = Entry(b) /\ (Comes(b, Entry(b)) => Comes(b, Entry(b))')
  BY EntryKept
<1>5. \A h \in Goroutines : \/ doing'[h] = doing[h]
                            \/ (Busy(h, b) => doing[h].at # "queue") /\ ~Busy(h, b)'
  BY <1>1 DEF Busy
<1>6. gen' = gen
  OBVIOUS
<1>7. QED BY <1>1, <1>2, <1>3, <1>4, <1>5, <1>6, Untouched

LEMMA MessagedClean ==
  ASSUME Typed, CleanInv, NEW c \in Clients, NEW t \in Timestamps, Messaged(c, t)
  PROVE CleanInv'
<1> SUFFICES ASSUME NEW b \in Clients, Clean(b)'
             PROVE ChangeInv(b)' /\ StampInv(b)'
  BY DEF CleanInv
<1>1. PICK step : MessageStep(step, c) /\ Begin("rx", step)
  BY MessagedSteps DEF Typed
<1>2. /\ doing["rx"] = None
      /\ UNCHANGED <<acl, row, writes, gen, published, stage, sets, ran, twice, granted>>
  BY MessagedSteps DEF Typed, history
<1>3. /\ step \in Steps /\ step.at \in {"touch", "put", "delete"} /\ Fits(step)
      /\ step.client = c /\ step.entry.last \in Timestamps
      /\ step.then # None => step.entry.last > LastOf(Entry(c))
  BY <1>1 DEF MessageStep, Fits
<1>4. /\ Clean(b) /\ ChangeInv(b)' /\ TakenInv(b)' /\ doing'["rx"] = step
      /\ \A h \in Goroutines \ {"rx"} : doing'[h] = doing[h]
  BY <1>1, <1>2, <1>3, BeginClean, GoroutineFacts
<1>5. ToRunInv(b) /\ RanInv(b)
  BY <1>4 DEF CleanInv, StampInv
<1>6. Entry(b)' = Entry(b)
  BY <1>2 DEF Entry
<1>7. LastOf(Entry(c)) \in Nat /\ step.entry.last \in Nat
  BY <1>3, EntryFacts, CachedEntry, ACLAssumption DEF Entry, Timestamps, Typed, TypeOK
<1>8. ToRunInv(b)'
  BY <1>2, <1>3, <1>4, <1>5, <1>7 DEF ToRunInv, RanInv, Busy
<1>9. RanInv(b)'
  BY <1>2, <1>5, <1>6 DEF RanInv
<1>10. QED BY <1>4, <1>8, <1>9 DEF StampInv

LEMMA ComesKept ==
  ASSUME NEW b \in Clients, Entry(b)' = Entry(b), UNCHANGED <<row, writes>>,
         Comes(b, Entry(b))
  PROVE Comes(b, Entry(b))'
<1>1. PICK e : e = Entry(b)
  OBVIOUS
<1>2. Comes(b, e)'
  BY <1>1, StillComes
<1>3. QED BY <1>1, <1>2

\* A goroutine's step leaves a client it is not about as it was.
LEMMA OtherClient ==
  ASSUME CleanInv, NEW g \in Goroutines, NEW b \in Clients, Clean(b), ~Busy(g, b), ~Busy(g, b)',
         \A h \in Goroutines \ {g} : doing'[h] = doing[h],
         gen' = gen, Entry(b)' = Entry(b), Comes(b, Entry(b)) => Comes(b, Entry(b))',
         \A t : /\ <<b, t>> \in ran' => <<b, t>> \in ran
                /\ <<b, t>> \in twice' => <<b, t>> \in twice
  PROVE ChangeInv(b)' /\ StampInv(b)'
<1>1. ChangeInv(b) /\ TakenInv(b) /\ ToRunInv(b) /\ RanInv(b)
  BY DEF CleanInv, StampInv
<1>2. \A h \in Goroutines : \/ doing'[h] = doing[h]
                            \/ (Busy(h, b) => doing[h].at # "queue") /\ ~Busy(h, b)'
  OBVIOUS
<1>3. ChangeInv(b)' /\ TakenInv(b)'
  BY <1>1, <1>2, Untouched
<1>4. \A h \in Goroutines : doing'[h] = doing[h] \/ ~Busy(h, b)'
  OBVIOUS
<1>5. ToRunInv(b)' /\ RanInv(b)'
  BY <1>1, <1>4, RanUntouched
<1>6. QED BY <1>3, <1>5 DEF StampInv

\* A change of the cache by the goroutine that owns it: the entry becomes e, which
\* is now to be queued.
LEMMA OwnChange ==
  ASSUME Typed, CleanInv, NEW g \in Goroutines, NEW b \in Clients, Clean(b), Busy(g, b),
         NEW e \in Entries \cup {NoEntry}, Queues(g, e), gen' = gen, Entry(b)' = e,
         doing[g].then # None => e # NoEntry /\ e.last = doing[g].entry.last,
         RanInv(b)', ran' \subseteq ran
  PROVE ChangeInv(b)' /\ StampInv(b)'
<1>1. ChangeInv(b) /\ ToRunInv(b) /\ TypeOK /\ doing[g] # None
  BY DEF CleanInv, StampInv, Typed, Busy
<1>2. /\ \A h \in Goroutines \ {g} : doing'[h] = doing[h]
      /\ doing'[g] # None /\ doing'[g].at = "queue" /\ doing'[g].entry = e
      /\ doing'[g].client = doing[g].client /\ doing'[g].gen = doing[g].gen
      /\ doing'[g].then = doing[g].then
  BY <1>1, QueuesFacts
<1>3. \A h \in Goroutines : Busy(h, b)' <=> h = g
  BY <1>1, <1>2 DEF ChangeInv, Busy
<1>4. doing[g].gen = gen
  BY <1>1 DEF ChangeInv
<1>5. ChangeInv(b)'
  BY <1>2, <1>3, <1>4 DEF ChangeInv
<1>6. TakenInv(b)'
  BY <1>2, <1>3 DEF TakenInv
<1>7. ToRunInv(b)'
  BY <1>1, <1>2, <1>3 DEF ToRunInv
<1>8. QED BY <1>5, <1>6, <1>7 DEF StampInv

LEMMA TouchClean == ASSUME Typed, CleanInv, NEW g \in Goroutines, Touch(g) PROVE CleanInv'
<1> SUFFICES ASSUME NEW b \in Clients, Clean(b)'
             PROVE ChangeInv(b)' /\ StampInv(b)'
  BY DEF CleanInv
<1> DEFINE d == doing[g]
           cur == acl[d.gen][d.client]
<1>1. /\ TypeOK /\ d # None /\ d.at = "touch" /\ d \in Steps /\ CarriedBy(g, d)
      /\ UNCHANGED <<row, writes, gen, stale, lost, ran, twice>>
  BY DEF Typed, TypeOK, StepsInv, Touch, Step, history
<1>2. /\ d.gen \in 1..MaxGen /\ d.client \in Clients /\ d.entry \in Entries
      /\ cur \in Entries \cup {NoEntry} /\ gen \in 1..MaxGen
  BY <1>1, StepFacts, CachedEntry DEF CarriedBy, TypeOK
<1>3. Clean(b) /\ ChangeInv(b) /\ TakenInv(b) /\ RanInv(b)
  BY <1>1 DEF Clean, CleanInv, StampInv
<1>4. CASE d.client = b
  <2>1. Busy(g, b) /\ d.gen = gen /\ cur = Entry(b) /\ cur # NoEntry
        /\ d.entry.last >= LastOf(Entry(b))
    BY <1>1, <1>3, <1>4 DEF Busy, ChangeInv, TakenInv, Entry
  <2>2. PICK e \in Entries : e = Touched(cur, d.entry) /\ e.last = d.entry.last
    BY <1>2, <2>1, TouchedFacts
  <2>3. Queues(g, e) /\ acl' = [acl EXCEPT ![d.gen][d.client] = e]
    BY <2>1, <2>2 DEF Touch
  <2>4. Entry(b)' = e
    <3>1. TypeOK /\ gen \in 1..MaxGen /\ gen' = gen /\ acl' = [acl EXCEPT ![gen][b] = e]
      BY <1>1, <1>2, <1>4, <2>1, <2>3
    <3>2. acl'[gen][b] = e
      BY <3>1 DEF TypeOK
    <3>3. QED BY <3>1, <3>2 DEF Entry
  <2>5. e # NoEntry /\ LastOf(e) = d.entry.last
    BY <2>2, EntryFacts
  <2>6. \A t \in Timestamps : t <= LastOf(Entry(b)) => t <= LastOf(e)
    BY <1>2, <2>1, <2>5, EntryFacts, ACLAssumption DEF Timestamps
  <2>7. RanInv(b)' /\ ran' \subseteq ran
    BY <1>1, <1>3, <2>4, <2>6 DEF RanInv
  <2>8. gen' = gen
    BY <1>1
  <2>9. QED BY <1>3, <2>1, <2>2, <2>3, <2>4, <2>5, <2>7, <2>8, OwnChange
<1>5. CASE d.client # b
  <2>1. /\ \A h \in Goroutines \ {g} : doing'[h] = doing[h]
        /\ ~Busy(g, b) /\ ~Busy(g, b)' /\ Entry(b)' = Entry(b)
    <3>1. CASE cur = NoEntry /\ doing' = After(g) /\ UNCHANGED acl
      BY <1>1, <1>5, <3>1, AfterFacts DEF Busy, Entry
    <3>2. ASSUME cur # NoEntry, Queues(g, Touched(cur, d.entry)),
                 acl' = [acl EXCEPT ![d.gen][d.client] = Touched(cur, d.entry)]
          PROVE /\ \A h \in Goroutines \ {g} : doing'[h] = doing[h]
                /\ ~Busy(g, b) /\ ~Busy(g, b)' /\ Entry(b)' = Entry(b)
      <4>1. PICK e \in Entries : e = Touched(cur, d.entry)
        BY <1>2, <3>2, TouchedFacts
      <4>2. Entry(b)' = Entry(b)
        <5>1. PICK r \in 1..MaxGen, a \in Clients : r = d.gen /\ a = d.client
          BY <1>2
        <5>2. TypeOK /\ acl' = [acl EXCEPT ![r][a] = e]
          BY <1>1, <3>2, <4>1, <5>1
        <5>3. \A q \in 1..MaxGen, c \in Clients : q # r \/ c # a => acl'[q][c] = acl[q][c]
          BY <5>2 DEF TypeOK
        <5>4. gen' = gen /\ gen \in 1..MaxGen /\ a # b
          BY <1>1, <1>2, <1>5, <5>1
        <5>5. QED BY <5>3, <5>4 DEF Entry
      <4>3. /\ \A h \in Goroutines \ {g} : doing'[h] = doing[h]
            /\ doing'[g].client = d.client
        BY <1>1, <3>2, <4>1, QueuesFacts
      <4>4. QED BY <1>5, <4>2, <4>3 DEF Busy
    <3>3. QED BY <3>1, <3>2 DEF Touch
  <2>2. Comes(b, Entry(b)) => Comes(b, Entry(b))'
    BY <1>1, <2>1, ComesKept
  <2>3. gen' = gen
    BY <1>1
  <2>4. \A t : /\ <<b, t>> \in ran' => <<b, t>> \in ran
               /\ <<b, t>> \in twice' => <<b, t>> \in twice
    BY <1>1
  <2>5. QED BY <1>3, <2>1, <2>2, <2>3, <2>4, OtherClient
<1>6. QED BY <1>4, <1>5

LEMMA PutClean == ASSUME Typed, CleanInv, NEW g \in Goroutines, Put(g) PROVE CleanInv'
<1> SUFFICES ASSUME NEW b \in Clients, Clean(b)'
             PROVE ChangeInv(b)' /\ StampInv(b)'
  BY DEF CleanInv
<1> DEFINE d == doing[g]
<1>1. /\ TypeOK /\ d # None /\ d.at = "put" /\ d \in Steps /\ CarriedBy(g, d)
      /\ UNCHANGED <<row, writes, gen, stale, lost, ran, twice>>
      /\ acl' = [acl EXCEPT ![d.gen][d.client] = d.entry] /\ Queues(g, d.entry)
  BY DEF Typed, TypeOK, StepsInv, Put, Step
<1>2. /\ d.gen \in 1..MaxGen /\ d.client \in Clients /\ d.entry \in Entries
      /\ gen \in 1..MaxGen /\ d.then = None
  BY <1>1, StepFacts DEF CarriedBy, TypeOK
<1>3. Clean(b) /\ ChangeInv(b) /\ TakenInv(b) /\ RanInv(b)
  BY <1>1 DEF Clean, CleanInv, StampInv
<1>4. PICK e \in Entries : e = d.entry
  BY <1>2
<1>5. CASE d.client = b
  <2>1. Busy(g, b) /\ d.gen = gen /\ e.last >= LastOf(Entry(b))
    BY <1>1, <1>3, <1>4, <1>5 DEF Busy, ChangeInv, TakenInv
  <2>2. Entry(b)' = e
    <3>1. TypeOK /\ gen \in 1..MaxGen /\ gen' = gen /\ acl' = [acl EXCEPT ![gen][b] = e]
      BY <1>1, <1>2, <1>4, <1>5, <2>1
    <3>2. acl'[gen][b] = e
      BY <3>1 DEF TypeOK
    <3>3. QED BY <3>1, <3>2 DEF Entry
  <2>3. LastOf(e) = e.last /\ Entry(b) \in Entries \cup {NoEntry}
    BY <1>1, <1>2, CachedEntry, EntryFacts DEF Entry
  <2>4. \A t \in Timestamps : t <= LastOf(Entry(b)) => t <= LastOf(e)
    BY <1>4, <2>1, <2>3, EntryFacts, ACLAssumption DEF Timestamps
  <2>5. RanInv(b)' /\ ran' \subseteq ran
    BY <1>1, <1>3, <2>2, <2>4 DEF RanInv
  <2>6. gen' = gen /\ Queues(g, e)
    BY <1>1, <1>4
  <2>7. QED BY <1>2, <1>3, <2>1, <2>2, <2>5, <2>6, OwnChange
<1>6. CASE d.client # b
  <2>1. Entry(b)' = Entry(b) /\ gen' = gen
    BY <1>1, <1>2, <1>4, <1>6, AclFacts DEF Entry
  <2>2. /\ \A h \in Goroutines \ {g} : doing'[h] = doing[h]
        /\ doing'[g].client = d.client
    BY <1>1, <1>4, QueuesFacts
  <2>3. ~Busy(g, b) /\ ~Busy(g, b)'
    BY <1>6, <2>2 DEF Busy
  <2>4. Comes(b, Entry(b)) => Comes(b, Entry(b))'
    BY <1>1, <2>1, ComesKept
  <2>5. \A t : /\ <<b, t>> \in ran' => <<b, t>> \in ran
               /\ <<b, t>> \in twice' => <<b, t>> \in twice
    BY <1>1
  <2>6. QED BY <1>3, <2>1, <2>2, <2>3, <2>4, <2>5, OtherClient
<1>7. QED BY <1>5, <1>6

LEMMA DeleteClean == ASSUME Typed, CleanInv, NEW g \in Goroutines, Delete(g) PROVE CleanInv'
<1> SUFFICES ASSUME NEW b \in Clients, Clean(b)'
             PROVE ChangeInv(b)' /\ StampInv(b)'
  BY DEF CleanInv
<1> DEFINE d == doing[g]
<1>1. /\ TypeOK /\ d # None /\ d.at = "delete" /\ d \in Steps /\ CarriedBy(g, d)
      /\ UNCHANGED <<row, writes, gen, stale, lost>>
      /\ acl' = [acl EXCEPT ![d.gen][d.client] = NoEntry] /\ Queues(g, NoEntry)
      /\ ran' = {x \in ran : x[1] # d.client} /\ twice' = {x \in twice : x[1] # d.client}
  BY DEF Typed, TypeOK, StepsInv, Delete, Step
<1>2. /\ d.gen \in 1..MaxGen /\ d.client \in Clients /\ gen \in 1..MaxGen /\ d.then = None
  BY <1>1, StepFacts DEF CarriedBy, TypeOK
<1>3. Clean(b) /\ ChangeInv(b)
  BY <1>1 DEF Clean, CleanInv
<1>4. CASE d.client = b
  <2>1. Busy(g, b) /\ d.gen = gen
    BY <1>1, <1>3, <1>4 DEF Busy, ChangeInv
  <2>2. Entry(b)' = NoEntry
    BY <1>1, <1>2, <1>4, <2>1, AclFacts DEF Entry
  <2>3. \A t : <<b, t>> \notin ran' /\ <<b, t>> \notin twice'
    BY <1>1, <1>4
  <2>4. RanInv(b)' /\ ran' \subseteq ran
    BY <1>1, <2>3 DEF RanInv
  <2>5. gen' = gen /\ Queues(g, NoEntry)
    BY <1>1
  <2>6. QED BY <1>2, <1>3, <2>1, <2>2, <2>4, <2>5, OwnChange
<1>5. CASE d.client # b
  <2>1. Entry(b)' = Entry(b) /\ gen' = gen
    BY <1>1, <1>2, <1>5, AclFacts DEF Entry
  <2>2. /\ \A h \in Goroutines \ {g} : doing'[h] = doing[h]
        /\ doing'[g].client = d.client
    BY <1>1, QueuesFacts
  <2>3. ~Busy(g, b) /\ ~Busy(g, b)'
    BY <1>5, <2>2 DEF Busy
  <2>4. Comes(b, Entry(b)) => Comes(b, Entry(b))'
    BY <1>1, <2>1, ComesKept
  <2>5. \A t : /\ <<b, t>> \in ran' => <<b, t>> \in ran
               /\ <<b, t>> \in twice' => <<b, t>> \in twice
    BY <1>1
  <2>6. QED BY <1>3, <2>1, <2>2, <2>3, <2>4, <2>5, OtherClient
<1>6. QED BY <1>4, <1>5

LEMMA QueueClean == ASSUME Typed, CleanInv, NEW g \in Goroutines, Queue(g) PROVE CleanInv'
<1> SUFFICES ASSUME NEW b \in Clients, Clean(b)'
             PROVE ChangeInv(b)' /\ StampInv(b)'
  BY DEF CleanInv
<1> DEFINE d == doing[g]
<1>1. /\ TypeOK /\ d \in Steps /\ d # None /\ d.at = "queue" /\ CarriedBy(g, d)
      /\ ChangeOf(g) \in Change /\ doing' = After(g)
      /\ UNCHANGED <<acl, row, gen, lost, ran, twice>>
  BY QueueSteps DEF Typed, StepsInv, history
<1>2. \/ /\ Len(writes) < QueueDepth /\ UNCHANGED stale
         /\ writes' = Append(writes, ChangeOf(g))
      \/ stale' = stale \cup {d.client} /\ UNCHANGED writes
  BY <1>1, QueueSteps
<1>3. Clean(b) /\ ChangeInv(b) /\ ToRunInv(b) /\ RanInv(b)
  BY <1>1, <1>2 DEF Clean, CleanInv, StampInv
<1>4. /\ \A h \in Goroutines \ {g} : doing'[h] = doing[h]
      /\ d.then = None => doing'[g] = None
      /\ d.then # None => /\ doing'[g] # None /\ doing'[g].at = "run"
                          /\ doing'[g].client = d.client /\ doing'[g].gen = d.gen
                          /\ doing'[g].entry = d.entry /\ doing'[g].then = d.then
  BY <1>1, AfterFacts
<1>5. PICK w \in Change : w = ChangeOf(g)
  BY <1>1
<1>6. w.client = d.client /\ w.entry = d.entry
  BY <1>5 DEF ChangeOf
<1>7. Entry(b)' = Entry(b) /\ gen' = gen
  BY <1>1 DEF Entry
<1>8. CASE d.client = b
  <2>1. Busy(g, b) /\ d.gen = gen /\ d.entry = Entry(b)
        /\ \A h \in Goroutines : Busy(h, b) => h = g
    BY <1>1, <1>3, <1>8 DEF Busy, ChangeInv
  <2>2. Len(writes) < QueueDepth /\ writes' = Append(writes, w)
    BY <1>2, <1>5, <1>8 DEF Clean
  <2>3. Comes(w.client, w.entry)'
    BY <1>1, <2>2, OwnQueued
  <2>4. Comes(b, Entry(b))'
    BY <1>6, <1>7, <1>8, <2>1, <2>3
  <2>5. \A h \in Goroutines : Busy(h, b)' => h = g /\ d.then # None
    BY <1>4, <2>1 DEF Busy
  <2>6. ChangeInv(b)'
    BY <1>4, <1>7, <2>1, <2>4, <2>5 DEF ChangeInv
  <2>7. d.then # None => d.entry.last = LastOf(d.entry)
    BY <1>1, EntryFacts DEF CarriedBy
  <2>8. TakenInv(b)'
    BY <1>4, <1>7, <2>1, <2>5, <2>7 DEF TakenInv
  <2>9. ToRunInv(b)'
    BY <1>1, <1>3, <1>4, <2>1, <2>5 DEF ToRunInv
  <2>10. RanInv(b)'
    BY <1>1, <1>3, <1>7 DEF RanInv
  <2>11. QED BY <2>6, <2>8, <2>9, <2>10 DEF StampInv
<1>9. CASE d.client # b
  <2>1. ~Busy(g, b) /\ ~Busy(g, b)'
    BY <1>4, <1>9 DEF Busy
  <2>2. Comes(b, Entry(b)) => Comes(b, Entry(b))'
    <3>1. PICK e : e = Entry(b)
      OBVIOUS
    <3>2. Comes(b, e) => Comes(b, e)'
      BY <1>1, <1>2, <1>5, <1>6, <1>9, OtherQueued, StillComes
    <3>3. QED BY <1>7, <3>1, <3>2
  <2>3. \A t : /\ <<b, t>> \in ran' => <<b, t>> \in ran
               /\ <<b, t>> \in twice' => <<b, t>> \in twice
    BY <1>1
  <2>4. QED BY <1>3, <1>4, <1>7, <2>1, <2>2, <2>3, OtherClient
<1>10. QED BY <1>8, <1>9

LEMMA RoleChangeFits ==
  ASSUME Typed, NEW r \in 1..MaxGen, NEW c \in Clients, NEW step, RoleChange(step, r, c)
  PROVE /\ step \in Steps /\ step.at \in {"touch", "put", "delete"} /\ step.then = None
        /\ step.gen = gen => Fits(step)
<1>1. LastOf(acl[r][c]) \in Nat
  BY CachedEntry, EntryFacts, ACLAssumption DEF Typed, Timestamps
<1>2. QED BY <1>1 DEF RoleChange, Fits, Entry

\* A SetACL leaves a goroutine with nothing more to run.
LEMMA SetACLClean ==
  ASSUME Typed, CleanInv, NEW g \in Goroutines, NEW r \in 1..MaxGen, NEW c \in Clients,
         NEW role \in Roles, SetACL(g, r, c, role),
         doing[g] # None => doing[g].at = "run",
         UNCHANGED <<acl, gen, row, writes>>, NEW b \in Clients, Clean(b)'
  PROVE /\ Clean(b) /\ ChangeInv(b)' /\ TakenInv(b)'
        /\ doing'[g] # None => doing'[g].then = None
        /\ \A h \in Goroutines \ {g} : doing'[h] = doing[h]
<1>1. CASE doing' = [doing EXCEPT ![g] = None] /\ UNCHANGED <<stale, lost>>
  BY <1>1, EndClean
<1>2. ASSUME NEW step, RoleChange(step, r, c), Begin(g, step)
      PROVE /\ Clean(b) /\ ChangeInv(b)' /\ TakenInv(b)'
            /\ doing'[g] # None => doing'[g].then = None
            /\ \A h \in Goroutines \ {g} : doing'[h] = doing[h]
  <2>1. /\ step \in Steps /\ step.at \in {"touch", "put", "delete"} /\ step.then = None
        /\ step.gen = gen => Fits(step)
    BY <1>2, RoleChangeFits
  <2>2. QED BY <1>2, <2>1, BeginClean
<1>3. QED BY <1>1, <1>2, SetACLSteps DEF Typed

LEMMA RunClean == ASSUME Typed, CleanInv, Run PROVE CleanInv'
<1> SUFFICES ASSUME NEW b \in Clients, Clean(b)'
             PROVE ChangeInv(b)' /\ StampInv(b)'
  BY DEF CleanInv
<1> DEFINE d == doing["rx"]
           x == <<d.client, d.entry.last>>
<1>1. /\ d # None /\ d.at = "run" /\ d.then # None /\ d.entry.last \in Timestamps
      /\ d.gen \in 1..MaxGen /\ ran' = ran \cup {x} /\ twice' = twice \cup (ran \cap {x})
      /\ UNCHANGED <<acl, gen, row, writes>>
  BY RunFacts
<1>2. PICK r \in 1..MaxGen : r = d.gen
  BY <1>1
<1>3. /\ Clean(b) /\ ChangeInv(b)' /\ TakenInv(b)'
      /\ doing'["rx"] # None => doing'["rx"].then = None
  <2>1. CASE doing' = [doing EXCEPT !["rx"] = None] /\ UNCHANGED <<stale, lost>>
    BY <1>1, <2>1, EndClean, GoroutineFacts
  <2>2. ASSUME NEW c \in Clients, NEW role \in Roles, SetACL("rx", r, c, role)
        PROVE /\ Clean(b) /\ ChangeInv(b)' /\ TakenInv(b)'
              /\ doing'["rx"] # None => doing'["rx"].then = None
    BY <1>1, <2>2, SetACLClean, GoroutineFacts
  <2>3. QED BY <1>2, <2>1, <2>2, RunFacts
<1>4. TakenInv(b) /\ ToRunInv(b) /\ RanInv(b)
  BY <1>3 DEF CleanInv, StampInv
<1>5. Entry(b)' = Entry(b)
  BY <1>1 DEF Entry
<1>6. LastOf(Entry(b)) \in Nat
  <2>1. gen \in 1..MaxGen /\ TypeOK
    BY DEF Typed, TypeOK
  <2>2. Entry(b) \in Entries \cup {NoEntry}
    BY <2>1, CachedEntry DEF Entry
  <2>3. QED BY <2>2, EntryFacts, ACLAssumption DEF Timestamps
<1>7. d.client = b => d.entry.last = LastOf(Entry(b)) /\ x \notin ran
  BY <1>1, <1>4, GoroutineFacts DEF TakenInv, ToRunInv, Busy
<1>8. RanInv(b)'
  <2>1. ASSUME NEW t \in Timestamps, <<b, t>> \in ran' PROVE t <= LastOf(Entry(b))
    BY <1>1, <1>4, <1>6, <1>7, <2>1 DEF RanInv
  <2>2. ASSUME NEW t \in Timestamps PROVE <<b, t>> \notin twice'
    BY <1>1, <1>4, <1>7 DEF RanInv
  <2>3. QED BY <1>5, <2>1, <2>2 DEF RanInv
<1>9. ToRunInv(b)'
  <2>1. StepsInv'
    BY RunTyped DEF Typed
  <2>2. QED BY <1>3, <2>1 DEF ToRunInv, StepsInv, CarriedBy, Busy
<1>10. QED BY <1>3, <1>8, <1>9 DEF StampInv

LEMMA ApiClean ==
  ASSUME Typed, CleanInv, NEW c \in Clients, NEW role \in Roles, ApiSetACL(c, role)
  PROVE CleanInv'
<1> SUFFICES ASSUME NEW b \in Clients, Clean(b)'
             PROVE ChangeInv(b)' /\ StampInv(b)'
  BY DEF CleanInv
<1>1. /\ doing["api"] = None /\ SetACL("api", published, c, role)
      /\ UNCHANGED <<acl, gen, row, writes, ran, twice>>
  BY DEF ApiSetACL, history
<1>2. PICK r \in 1..MaxGen : r = published
  BY DEF Typed, ReloadInv
<1>3. /\ Clean(b) /\ ChangeInv(b)' /\ TakenInv(b)'
      /\ doing'["api"] # None => doing'["api"].then = None
      /\ \A h \in Goroutines \ {"api"} : doing'[h] = doing[h]
  BY <1>1, <1>2, SetACLClean, GoroutineFacts
<1>4. ToRunInv(b) /\ RanInv(b)
  BY <1>3 DEF CleanInv, StampInv
<1>5. ToRunInv(b)'
  BY <1>1, <1>3, <1>4 DEF ToRunInv, Busy
<1>6. RanInv(b)'
  BY <1>1, <1>4 DEF RanInv, Entry
<1>7. QED BY <1>3, <1>5, <1>6 DEF StampInv

LEMMA WriteClean == ASSUME Typed, CleanInv, Write PROVE CleanInv'
<1> SUFFICES ASSUME NEW b \in Clients, Clean(b)'
             PROVE ChangeInv(b)' /\ StampInv(b)'
  BY DEF CleanInv
<1>1. UNCHANGED <<acl, doing, gen, stale, lost, ran, twice>>
  BY DEF Write, history
<1>2. Clean(b) /\ ChangeInv(b) /\ TakenInv(b) /\ ToRunInv(b) /\ RanInv(b)
  BY <1>1 DEF Clean, CleanInv, StampInv
<1>3. Entry(b)' = Entry(b) /\ gen' = gen
  BY <1>1 DEF Entry
<1>4. PICK e : e = Entry(b)
  OBVIOUS
<1>5. Comes(b, e) => Comes(b, e)'
  BY Written DEF Typed
<1>6. \A h \in Goroutines : doing'[h] = doing[h]
  BY <1>1
<1>7. ChangeInv(b)' /\ TakenInv(b)'
  BY <1>2, <1>3, <1>4, <1>5, <1>6, Untouched
<1>8. ToRunInv(b)' /\ RanInv(b)'
  BY <1>1, <1>2, <1>3, <1>6, RanUntouched
<1>9. QED BY <1>7, <1>8 DEF StampInv

\* A clean client is loaded from a row that holds its entry.
LEMMA LoadedClean ==
  ASSUME Typed, CleanInv, aclLoad, gen < MaxGen, NEW b \in Clients, b \notin lost'
  PROVE /\ Clean(b) /\ \A h \in Goroutines : ~Busy(h, b)
        /\ \A i \in Queued : writes[i].client # b
        /\ row[b] = Entry(b) /\ Entry(b)' = Entry(b)
<1>1. /\ gen' = gen + 1 /\ acl'[gen'] = row
      /\ lost' = lost \cup stale \cup {c \in Clients : OnItsWay(c)}
  BY LoadFacts
<1>2. Clean(b) /\ ~OnItsWay(b)
  BY <1>1 DEF Clean
<1>3. writes \in Seq(Change) /\ DOMAIN writes = Queued
  BY LenProperties DEF Typed, TypeOK, Change, Queued
<1>4. /\ \A h \in Goroutines : ~Busy(h, b)
      /\ \A i \in Queued : writes[i].client # b
  BY <1>2, <1>3 DEF OnItsWay
<1>5. Comes(b, Entry(b))
  BY <1>2, <1>4 DEF CleanInv, ChangeInv
<1>6. row[b] = Entry(b)
  BY <1>4, <1>5 DEF Comes
<1>7. QED BY <1>1, <1>2, <1>4, <1>6 DEF Entry

LEMMA ReloadClean ==
  ASSUME Typed, CleanInv, StopRepeater \/ NewRepeater \/ InstallBackend PROVE CleanInv'
<1> SUFFICES ASSUME NEW b \in Clients, Clean(b)'
             PROVE ChangeInv(b)' /\ StampInv(b)'
  BY DEF CleanInv
<1>1. CASE StopRepeater \/ InstallBackend
  <2>1. UNCHANGED <<acl, row, writes, doing, gen, stale, lost, ran, twice>>
    BY <1>1 DEF StopRepeater, InstallBackend, history
  <2>2. Clean(b) /\ ChangeInv(b) /\ TakenInv(b) /\ ToRunInv(b) /\ RanInv(b)
    BY <2>1 DEF Clean, CleanInv, StampInv
  <2>3. Entry(b)' = Entry(b) /\ (Comes(b, Entry(b)) => Comes(b, Entry(b))')
    BY <2>1, EntryKept
  <2>4. gen' = gen /\ \A h \in Goroutines : doing'[h] = doing[h]
    BY <2>1
  <2>5. ChangeInv(b)' /\ TakenInv(b)'
    BY <2>2, <2>3, <2>4, Untouched
  <2>6. ToRunInv(b)' /\ RanInv(b)'
    BY <2>1, <2>2, <2>3, <2>4, RanUntouched
  <2>7. QED BY <2>5, <2>6 DEF StampInv
<1>2. CASE NewRepeater
  <2>1. aclLoad /\ gen < MaxGen /\ UNCHANGED <<row, writes, doing, ran, twice>>
    BY <1>2 DEF NewRepeater, Typed, ReloadInv, history
  <2>2. /\ Clean(b) /\ \A h \in Goroutines : ~Busy(h, b)
        /\ \A i \in Queued : writes[i].client # b
        /\ row[b] = Entry(b) /\ Entry(b)' = Entry(b)
    BY <2>1, LoadedClean DEF Clean
  <2>3. \A h \in Goroutines : ~Busy(h, b)'
    BY <2>1, <2>2 DEF Busy
  <2>4. Comes(b, Entry(b))'
    BY <2>1, <2>2 DEF Comes, Queued, LastWrite
  <2>5. RanInv(b)
    BY <2>2 DEF CleanInv, StampInv
  <2>6. RanInv(b)'
    BY <2>1, <2>2, <2>5 DEF RanInv
  <2>7. QED BY <2>3, <2>4, <2>6 DEF ChangeInv, StampInv, TakenInv, ToRunInv
<1>3. QED BY <1>1, <1>2

LEMMA KillClean == ASSUME Typed, CleanInv, Kill PROVE CleanInv'
<1> SUFFICES ASSUME NEW b \in Clients, Clean(b)'
             PROVE ChangeInv(b)' /\ StampInv(b)'
  BY DEF CleanInv
<1>1. /\ aclLoad /\ gen < MaxGen /\ UNCHANGED <<row, ran, twice>>
      /\ writes' = <<>> /\ doing' = [g \in Goroutines |-> None]
  BY DEF Kill, history
<1>2. Clean(b) /\ row[b] = Entry(b) /\ Entry(b)' = Entry(b)
  BY <1>1, LoadedClean DEF Clean
<1>3. \A h \in Goroutines : ~Busy(h, b)'
  BY <1>1 DEF Busy
<1>4. Queued' = {}
  BY <1>1, EmptySeq DEF Queued
<1>5. Comes(b, Entry(b))'
  BY <1>1, <1>2, <1>4 DEF Comes
<1>6. RanInv(b)
  BY <1>2 DEF CleanInv, StampInv
<1>7. RanInv(b)'
  BY <1>1, <1>2, <1>6 DEF RanInv
<1>8. QED BY <1>3, <1>5, <1>7 DEF ChangeInv, StampInv, TakenInv, ToRunInv

LEMMA CleanStep == ASSUME Typed, CleanInv, [Next]_vars PROVE CleanInv'
<1>1. CASE UNCHANGED vars
  <2>1. UNCHANGED <<acl, row, writes, doing, gen, stale, lost, ran, twice>>
    BY <1>1 DEF vars
  <2>2. QED BY <2>1 DEF CleanInv, Clean, ChangeInv, StampInv, TakenInv, ToRunInv, RanInv,
                        Comes, LastWrite, Queued, Entry, Busy
<1>2. CASE Next
  BY <1>2, NextCases, MessagedClean, TouchClean, PutClean, DeleteClean, QueueClean, RunClean,
     ApiClean, WriteClean, ReloadClean, KillClean
<1>3. QED BY <1>1, <1>2

-----------------------------------------------------------------------------
(* Roles, and the invariant.                                               *)

\* A change of one client's entry keeps what RoleInv says of it, whichever
\* repeater's list it is made in.
LEMMA ChangeRole ==
  ASSUME Typed, RoleInv, NEW r \in 1..MaxGen, NEW a \in Clients,
         NEW e \in Entries \cup {NoEntry},
         acl' = [acl EXCEPT ![r][a] = e], UNCHANGED <<gen, lost>>,
         granted' = IF r = gen THEN [granted EXCEPT ![a] = RoleOf(e)] ELSE granted
  PROVE RoleInv'
<1> SUFFICES ASSUME NEW b \in Clients \ lost PROVE RoleOf(Entry(b)') = granted'[b]
  BY DEF RoleInv
<1>1. gen \in 1..MaxGen
  BY DEF Typed, TypeOK
<1>2. /\ acl'[r][a] = e
      /\ \A q \in 1..MaxGen, c \in Clients : q # r \/ c # a => acl'[q][c] = acl[q][c]
  <2>1. DOMAIN acl = 1..MaxGen /\ \A q \in 1..MaxGen : DOMAIN acl[q] = Clients
    BY DEF Typed, TypeOK
  <2>2. QED BY <2>1
<1>3. RoleOf(Entry(b)) = granted[b] /\ granted \in [Clients -> Roles \cup {None}]
  BY DEF RoleInv, Typed, TypeOK
<1>4. CASE r = gen /\ a = b
  BY <1>1, <1>2, <1>3, <1>4 DEF Entry
<1>5. CASE ~(r = gen /\ a = b)
  <2>1. Entry(b)' = Entry(b) /\ granted'[b] = granted[b]
    BY <1>1, <1>2, <1>3, <1>5 DEF Entry
  <2>2. QED BY <1>3, <2>1
<1>6. QED BY <1>4, <1>5

LEMMA TouchRole == ASSUME Typed, RoleInv, NEW g \in Goroutines, Touch(g) PROVE RoleInv'
<1> DEFINE d == doing[g]
           cur == acl[d.gen][d.client]
<1>1. /\ TypeOK /\ d # None /\ d.at = "touch" /\ d \in Steps /\ CarriedBy(g, d)
      /\ UNCHANGED <<gen, lost, granted>>
  BY DEF Typed, TypeOK, StepsInv, Touch, Step, history
<1>2. /\ d.gen \in 1..MaxGen /\ d.client \in Clients /\ d.entry \in Entries
      /\ cur \in Entries \cup {NoEntry}
  BY <1>1, StepFacts, CachedEntry DEF CarriedBy
<1>3. CASE UNCHANGED acl
  BY <1>1, <1>3 DEF RoleInv, Entry
<1>4. CASE cur # NoEntry /\ acl' = [acl EXCEPT ![d.gen][d.client] = Touched(cur, d.entry)]
  <2>1. PICK e \in Entries : e = Touched(cur, d.entry) /\ e.role = cur.role
    BY <1>2, <1>4, TouchedFacts
  <2>2. RoleOf(e) = RoleOf(cur)
    BY <1>2, <1>4, <2>1, EntryFacts
  <2>3. /\ acl'[d.gen][d.client] = e
        /\ \A q \in 1..MaxGen, c \in Clients :
             q # d.gen \/ c # d.client => acl'[q][c] = acl[q][c]
    <3>1. PICK r \in 1..MaxGen, a \in Clients : r = d.gen /\ a = d.client
      BY <1>2
    <3>2. acl' = [acl EXCEPT ![r][a] = e]
      BY <1>4, <2>1, <3>1
    <3>3. /\ acl'[r][a] = e
          /\ \A q \in 1..MaxGen, c \in Clients : q # r \/ c # a => acl'[q][c] = acl[q][c]
      <4>1. DOMAIN acl = 1..MaxGen /\ \A q \in 1..MaxGen : DOMAIN acl[q] = Clients
        BY <1>1 DEF TypeOK
      <4>2. QED BY <4>1, <3>2
    <3>4. QED BY <3>1, <3>3
  <2>4. gen \in 1..MaxGen
    BY <1>1 DEF TypeOK
  <2>5. \A b \in Clients : RoleOf(acl'[gen][b]) = RoleOf(acl[gen][b])
    BY <1>2, <2>2, <2>3, <2>4
  <2>6. QED BY <1>1, <2>5 DEF RoleInv, Entry
<1>5. QED BY <1>3, <1>4 DEF Touch

LEMMA LostGrows ==
  ASSUME NEW g \in Goroutines, NEW step, Begin(g, step) PROVE lost \subseteq lost'
  BY DEF Begin

LEMMA SetACLLost ==
  ASSUME Typed, NEW g \in Goroutines, NEW r \in 1..MaxGen, NEW c \in Clients,
         NEW role \in Roles, SetACL(g, r, c, role)
  PROVE lost \subseteq lost'
  BY SetACLSteps, LostGrows DEF Typed

LEMMA RoleKept ==
  ASSUME RoleInv, UNCHANGED <<acl, gen, granted>>, lost \subseteq lost'
  PROVE RoleInv'
  BY DEF RoleInv, Entry

LEMMA RoleStep == ASSUME Typed, CleanInv, RoleInv, [Next]_vars PROVE RoleInv'
<1>1. CASE UNCHANGED vars
  BY <1>1, RoleKept DEF vars
<1>2. ASSUME NEW c \in Clients, NEW t \in Timestamps, Messaged(c, t) PROVE RoleInv'
  BY <1>2, MessagedSteps, LostGrows, GoroutineFacts, RoleKept DEF Typed, history
<1>3. ASSUME NEW g \in Goroutines, Put(g) PROVE RoleInv'
  <2> DEFINE d == doing[g]
  <2>1. d \in Steps /\ d.entry \in Entries
    BY <1>3 DEF Typed, TypeOK, StepsInv, CarriedBy, Put, Step
  <2>2. RoleOf(d.entry) = d.entry.role
    BY <2>1, EntryFacts
  <2>3. /\ acl' = [acl EXCEPT ![d.gen][d.client] = d.entry] /\ UNCHANGED <<gen, lost>>
        /\ granted' = IF d.gen = gen THEN [granted EXCEPT ![d.client] = RoleOf(d.entry)]
                                     ELSE granted
    BY <1>3, <2>2 DEF Put, Given
  <2>4. PICK r \in 1..MaxGen, a \in Clients, e \in Entries :
          r = d.gen /\ a = d.client /\ e = d.entry
    BY <2>1, StepFacts
  <2>5. QED BY <2>3, <2>4, ChangeRole
<1>4. ASSUME NEW g \in Goroutines, Delete(g) PROVE RoleInv'
  <2> DEFINE d == doing[g]
  <2>1. d \in Steps /\ RoleOf(NoEntry) = None
    BY <1>4 DEF Typed, TypeOK, Delete, Step, RoleOf
  <2>2. /\ acl' = [acl EXCEPT ![d.gen][d.client] = NoEntry] /\ UNCHANGED <<gen, lost>>
        /\ granted' = IF d.gen = gen THEN [granted EXCEPT ![d.client] = RoleOf(NoEntry)]
                                     ELSE granted
    BY <1>4, <2>1 DEF Delete, Given
  <2>3. PICK r \in 1..MaxGen, a \in Clients : r = d.gen /\ a = d.client
    BY <2>1, StepFacts
  <2>4. QED BY <2>2, <2>3, ChangeRole
<1>5. ASSUME NEW g \in Goroutines, Queue(g) PROVE RoleInv'
  BY <1>5, RoleKept DEF Queue, history
<1>6. CASE Run
  <2>1. PICK r \in 1..MaxGen : r = doing["rx"].gen
    BY <1>6, RunFacts
  <2>2. lost \subseteq lost'
    BY <1>6, <2>1, RunFacts, SetACLLost, GoroutineFacts
  <2>3. QED BY <1>6, <2>2, RoleKept DEF Run
<1>7. ASSUME NEW c \in Clients, NEW role \in Roles, ApiSetACL(c, role) PROVE RoleInv'
  <2>1. PICK r \in 1..MaxGen : r = published
    BY DEF Typed, ReloadInv
  <2>2. lost \subseteq lost'
    BY <1>7, <2>1, SetACLLost, GoroutineFacts DEF ApiSetACL
  <2>3. QED BY <1>7, <2>2, RoleKept DEF ApiSetACL, history
<1>8. CASE Write \/ StopRepeater \/ InstallBackend
  BY <1>8, RoleKept DEF Write, StopRepeater, InstallBackend, history
<1>9. CASE NewRepeater \/ Kill
  <2>1. aclLoad /\ gen < MaxGen /\ UNCHANGED granted
    BY <1>9 DEF NewRepeater, Kill, Typed, ReloadInv, history
  <2>2. lost \subseteq lost'
    BY <2>1, LoadFacts
  <2>3. ASSUME NEW b \in Clients, b \notin lost' PROVE Entry(b)' = Entry(b)
    BY <2>1, <2>3, LoadedClean
  <2>4. QED BY <2>1, <2>2, <2>3 DEF RoleInv
<1>10. QED
  BY <1>1, <1>2, <1>3, <1>4, <1>5, <1>6, <1>7, <1>8, <1>9, TouchRole, NextCases

LEMMA IInvInit == ASSUME Init PROVE IInv
<1>1. Typed
  BY TypedInit
<1>2. gen = 1 /\ writes = <<>> /\ 1 \in 1..MaxGen
  BY ACLAssumption DEF Init
<1>3. \A c \in Clients : Entry(c) = NoEntry /\ row[c] = NoEntry /\ granted[c] = None
  BY <1>2 DEF Init, Entry
<1>4. \A g \in Goroutines, c \in Clients : ~Busy(g, c)
  BY DEF Init, Busy
<1>5. Queued = {}
  BY <1>2, EmptySeq DEF Queued
<1>6. \A c \in Clients : ChangeInv(c) /\ StampInv(c)
  BY <1>3, <1>4, <1>5 DEF ChangeInv, StampInv, TakenInv, ToRunInv, RanInv, Comes, Init
<1>7. RoleInv
  BY <1>3 DEF RoleInv, RoleOf
<1>8. QED BY <1>1, <1>6, <1>7 DEF IInv, Typed, CleanInv

\* At all times a client whose changes have never overlapped, and whose writes
\* have never been dropped, has one change under way at most, a timestamp as new
\* as any of its commands that ran, and a row that comes to what its entry is.
THEOREM Invariant == Spec => []IInv
<1>1. IInv /\ [Next]_vars => IInv'
  BY TypedStep, CleanStep, RoleStep DEF IInv, Typed
<1>2. QED BY IInvInit, <1>1, PTL DEF Spec

\* A command heard again is not run again, unless its sender's changes overlapped
\* or one was lost (handleCLI's check of the timestamp, and what keeps it).
THEOREM CommandsRunOnce == Spec => []RunsOnce
<1>1. IInv => RunsOnce
  BY DEF IInv, RunsOnce, TypeOK, CleanInv, Clean, StampInv, RanInv
<1>2. QED BY Invariant, <1>1, PTL

\* The role in force is the one last given, and the table follows the cache
\* (touchClient, SetACL, aclPut, aclDelete, aclLoad).
THEOREM GrantsHold == Spec => []GrantHolds
<1>1. ASSUME IInv PROVE GrantHolds
  <2> SUFFICES ASSUME NEW c \in Clients \ lost
               PROVE /\ RoleOf(Entry(c)) = granted[c]
                     /\ c \notin stale => OnItsWay(c) \/ row[c] = Entry(c)
    BY DEF GrantHolds
  <2>1. RoleOf(Entry(c)) = granted[c]
    BY <1>1 DEF IInv, RoleInv
  <2>2. ASSUME c \notin stale, ~OnItsWay(c) PROVE row[c] = Entry(c)
    <3>1. writes \in Seq(Change) /\ DOMAIN writes = Queued
      BY <1>1, LenProperties DEF IInv, TypeOK, Change, Queued
    <3>2. /\ \A g \in Goroutines : ~Busy(g, c)
          /\ \A i \in Queued : writes[i].client # c
      BY <2>2, <3>1 DEF OnItsWay
    <3>3. Comes(c, Entry(c))
      BY <1>1, <2>2, <3>2 DEF IInv, CleanInv, Clean, ChangeInv
    <3>4. QED BY <3>2, <3>3 DEF Comes
  <2>3. QED BY <2>1, <2>2
<1>2. QED BY Invariant, <1>1, PTL
=============================================================================

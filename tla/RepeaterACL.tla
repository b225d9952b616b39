----------------------------- MODULE RepeaterACL -----------------------------
(***************************************************************************)
(* The list of admin clients a repeater keeps (internal/node/repeater):    *)
(* each client's role and the newest timestamp taken from it, which is     *)
(* what tells a new message from a repeat.  The list is cached; a change   *)
(* is made in the cache under its lock and queued for the database after   *)
(* it.  Two goroutines change it: the radio's dispatch, one message at a   *)
(* time, and the REST API's SetACL.  A reload builds a new repeater, whose *)
(* cache is read from the database; a kill does the same without warning.  *)
(* The alert bits of a permission and the times seen are left out.         *)
(***************************************************************************)
EXTENDS Naturals, Sequences

CONSTANTS
  Clients,        \* client public keys
  Guest, Admin,   \* the role a login with the guest or the admin password gives
  Roles,          \* the roles an operator may set; Guest removes the client
  Plain,          \* a CLI command other than setperm
  NoEntry, None,  \* no entry in the list; nothing
  QueueDepth,     \* capacity of the writer's queue
  Senders,        \* the clients that send messages; the others are only given roles
  MaxSent,        \* bound: messages each of them sends
  MaxSets,        \* bound: calls of SetACL through the API
  MaxGen          \* bound: repeaters built

ASSUME ACLAssumption ==
  /\ {Guest, Admin} \subseteq Roles
  /\ NoEntry \notin [role : Roles, last : Nat]
  /\ Senders \subseteq Clients /\ MaxSent \in Nat /\ MaxSets \in Nat
  /\ QueueDepth \in Nat \ {0} /\ MaxGen \in Nat \ {0}

VARIABLES
  heard,      \* what each client sent under each timestamp; None: nothing heard
  acl,        \* the cache of each repeater built
  row,        \* the table
  writes,     \* changes of the table in the writer's queue
  doing,      \* what each goroutine is in the middle of
  gen,        \* the repeater the radio delivers to
  published,  \* the repeater the API calls
  stage,      \* how far a reload has come
  sets,       \* SetACL calls of the API so far
  ran,        \* history: commands run since their client was last removed
  twice,      \* history: those of them run more than once
  granted,    \* history: the role each client was last given
  stale,      \* history: clients whose changes overlapped, or whose write was dropped
  lost        \* history: clients reloaded from such a row, or in the middle of a change

vars == <<heard, acl, row, writes, doing, gen, published, stage, sets, ran, twice,
          granted, stale, lost>>
history == <<ran, twice, granted>>

Timestamps == 1..MaxSent
Goroutines == {"rx", "api"}
Entries == [role : Roles, last : Timestamps \cup {0}]
Grants == [target : Clients, role : Roles]
Passwords == {"admin", "guest"}
Messages == [op : {"login"}, password : Passwords] \cup [op : {"req"}]
              \cup [op : {"cli"}, command : Grants \cup {Plain}]

\* A goroutine's next step, the client and the repeater it is about, what it
\* will write, and the command it runs afterwards.
Steps == [at : {"touch", "put", "delete", "queue", "run"}, client : Clients,
          gen : 1..MaxGen, entry : Entries \cup {NoEntry},
          then : Grants \cup {Plain, None}]

ASSUME NoneAssumption == /\ None \notin Roles /\ None \notin Grants /\ None # Plain
                         /\ None \notin Steps

TypeOK ==
  /\ heard \in [Clients -> [Timestamps -> Messages \cup {None}]]
  /\ gen \in 1..MaxGen /\ published \in {gen - 1, gen} \cap Nat
  /\ acl \in [1..MaxGen -> [Clients -> Entries \cup {NoEntry}]]
  /\ row \in [Clients -> Entries \cup {NoEntry}]
  /\ writes \in Seq([client : Clients, entry : Entries \cup {NoEntry}])
  /\ Len(writes) <= QueueDepth
  /\ doing \in [Goroutines -> Steps \cup {None}]
  /\ stage \in {"up", "stopped", "loaded"} /\ sets \in 0..MaxSets
  /\ ran \subseteq Clients \X Timestamps /\ twice \subseteq Clients \X Timestamps
  /\ granted \in [Clients -> Roles \cup {None}]
  /\ stale \subseteq Clients /\ lost \subseteq Clients

Init ==
  /\ heard = [c \in Clients |-> [t \in Timestamps |-> None]]
  /\ acl = [g \in 1..MaxGen |-> [c \in Clients |-> NoEntry]]
  /\ row = [c \in Clients |-> NoEntry]
  /\ writes = <<>> /\ doing = [g \in Goroutines |-> None]
  /\ gen = 1 /\ published = 1 /\ stage = "up" /\ sets = 0
  /\ ran = {} /\ twice = {} /\ granted = [c \in Clients |-> None]
  /\ stale = {} /\ lost = {}

Entry(c) == acl[gen][c]
LastOf(e) == IF e = NoEntry THEN 0 ELSE e.last
RoleOf(e) == IF e = NoEntry THEN None ELSE e.role
Busy(g, c) == doing[g] # None /\ doing[g].client = c
OnItsWay(c) ==
  \/ \E g \in Goroutines : Busy(g, c)
  \/ \E i \in DOMAIN writes : writes[i].client = c

\* Goroutine g sets out to change a client, in the list of the running
\* repeater or, too late to be kept, of the one before it.
Begin(g, step) ==
  /\ doing' = [doing EXCEPT ![g] = step]
  /\ stale' = IF \E h \in Goroutines \ {g} : Busy(h, step.client)
                THEN stale \cup {step.client} ELSE stale
  /\ lost' = IF step.gen = gen THEN lost ELSE lost \cup {step.client}

-----------------------------------------------------------------------------
(* Messages.  The radio loses, repeats and reorders them; a client stamps  *)
(* each with a newer time than the one before, and a repeat with the same. *)

\* Message m of client c changes its entry to e; the command it carries, if
\* any, is run after that.  A message that changes nothing is not a step.
Hear(c, t, m, at, e, command) ==
  /\ c \in Senders /\ heard[c][t] \in {None, m}
  /\ stage # "stopped" /\ doing["rx"] = None
  /\ heard' = [heard EXCEPT ![c][t] = m]
  /\ Begin("rx", [at |-> at, client |-> c, gen |-> gen, entry |-> e, then |-> command])
  /\ UNCHANGED <<acl, row, writes, gen, published, stage, sets, history>>

Advances(c, t) == t > LastOf(Entry(c))

RoleFor(password) == IF password = "admin" THEN Admin ELSE Guest

\* authLogin: a password gives its role, if the login is newer than all taken
\* before it.  (A blank one changes nothing: a known client keeps its role.)
Login(c, t, password) ==
  /\ Advances(c, t)
  /\ Hear(c, t, [op |-> "login", password |-> password],
          "put", [role |-> RoleFor(password), last |-> t], None)

\* handleReq
Request(c, t) ==
  /\ Entry(c) # NoEntry /\ Advances(c, t)
  /\ Hear(c, t, [op |-> "req"], "touch", [Entry(c) EXCEPT !.last = t], None)

\* The bug of running a repeat like a new command.
ToRunAgain(c, t, command) == command

\* A command of the timestamp last taken is a repeat, which is noted and not run.
ToRun(c, t, command) == IF t = Entry(c).last THEN None ELSE command

\* handleCLI
Command(c, t, command) ==
  /\ RoleOf(Entry(c)) = Admin /\ t >= Entry(c).last
  /\ Hear(c, t, [op |-> "cli", command |-> command],
          "touch", [Entry(c) EXCEPT !.last = t], ToRun(c, t, command))

-----------------------------------------------------------------------------
(* Changes of one entry, of the cache first and of the table after it.     *)

Step(g, at) == doing[g] # None /\ doing[g].at = at

\* What goroutine g does once its change is queued.
After(g) == [doing EXCEPT ![g] = IF @.then = None THEN None ELSE [@ EXCEPT !.at = "run"]]
Queues(g, e) == doing' = [doing EXCEPT ![g].at = "queue", ![g].entry = e]

Given(g, c, role) ==
  granted' = IF doing[g].gen = gen THEN [granted EXCEPT ![c] = role] ELSE granted

\* The bug of writing back the copy the message was checked against.
TouchedCopy(cur, e) == e

\* touchClient: only the timestamp of the cached entry changes.
Touched(cur, e) == [cur EXCEPT !.last = e.last]

Touch(g) ==
  /\ Step(g, "touch")
  /\ LET d == doing[g]  cur == acl[d.gen][d.client]  e == Touched(cur, d.entry) IN
       \/ /\ cur = NoEntry
          /\ doing' = After(g)
          /\ UNCHANGED acl
       \/ /\ cur # NoEntry
          /\ acl' = [acl EXCEPT ![d.gen][d.client] = e]
          /\ Queues(g, e)
  /\ UNCHANGED <<heard, row, writes, gen, published, stage, sets, stale, lost, history>>

\* aclPut
Put(g) ==
  /\ Step(g, "put")
  /\ LET d == doing[g] IN
       /\ acl' = [acl EXCEPT ![d.gen][d.client] = d.entry]
       /\ Given(g, d.client, d.entry.role)
       /\ Queues(g, d.entry)
  /\ UNCHANGED <<heard, row, writes, gen, published, stage, sets, stale, lost, ran, twice>>

\* aclDelete.  What a client did before it was removed is forgotten.
Delete(g) ==
  /\ Step(g, "delete")
  /\ LET d == doing[g] IN
       /\ acl' = [acl EXCEPT ![d.gen][d.client] = NoEntry]
       /\ Given(g, d.client, None)
       /\ Queues(g, NoEntry)
       /\ ran' = {x \in ran : x[1] # d.client}
       /\ twice' = {x \in twice : x[1] # d.client}
  /\ UNCHANGED <<heard, row, writes, gen, published, stage, sets, stale, lost>>

\* WriteAsync, which drops the change when the queue is full.
Queue(g) ==
  /\ Step(g, "queue")
  /\ LET w == [client |-> doing[g].client, entry |-> doing[g].entry] IN
       IF Len(writes) < QueueDepth
         THEN writes' = Append(writes, w) /\ UNCHANGED stale
         ELSE stale' = stale \cup {w.client} /\ UNCHANGED writes
  /\ doing' = After(g)
  /\ UNCHANGED <<heard, acl, row, gen, published, stage, sets, lost, history>>

\* SetACL on repeater r: a guest role removes the entry, if it is there; any
\* other is put in a copy of the entry, to be written back.
SetACL(g, r, c, role) ==
  LET e == acl[r][c] IN
    IF role = Guest /\ e = NoEntry
      THEN doing' = [doing EXCEPT ![g] = None] /\ UNCHANGED <<stale, lost>>
      ELSE Begin(g, [at |-> IF role = Guest THEN "delete" ELSE "put", client |-> c, gen |-> r,
                     entry |-> [role |-> role, last |-> LastOf(e)], then |-> None])

\* runCLI
Run ==
  /\ Step("rx", "run")
  /\ LET d == doing["rx"]  x == <<d.client, d.entry.last>> IN
       /\ ran' = ran \cup {x}
       /\ twice' = twice \cup (ran \cap {x})
       /\ IF d.then = Plain
            THEN doing' = [doing EXCEPT !["rx"] = None] /\ UNCHANGED <<stale, lost>>
            ELSE SetACL("rx", d.gen, d.then.target, d.then.role)
  /\ UNCHANGED <<heard, acl, row, writes, gen, published, stage, sets, granted>>

\* PUT or DELETE /api/repeater/acl/{pubkey}
ApiSetACL(c, role) ==
  /\ doing["api"] = None /\ sets < MaxSets
  /\ sets' = sets + 1
  /\ SetACL("api", published, c, role)
  /\ UNCHANGED <<heard, acl, row, writes, gen, published, stage, history>>

-----------------------------------------------------------------------------
(* The writer, a reload, and a kill.                                       *)

Write ==
  /\ writes # <<>>
  /\ row' = [row EXCEPT ![Head(writes).client] = Head(writes).entry]
  /\ writes' = Tail(writes)
  /\ UNCHANGED <<heard, acl, doing, gen, published, stage, sets, stale, lost, history>>

\* stopRepeater, which does not wait for a message being handled.
StopRepeater ==
  /\ stage = "up" /\ gen < MaxGen
  /\ stage' = "stopped"
  /\ UNCHANGED <<heard, acl, row, writes, doing, gen, published, sets, stale, lost, history>>

\* aclLoad, by the new repeater
aclLoad ==
  /\ gen' = gen + 1
  /\ acl' = [acl EXCEPT ![gen + 1] = row]
  /\ lost' = lost \cup stale \cup {c \in Clients : OnItsWay(c)}

NewRepeater ==
  /\ stage = "stopped" /\ stage' = "loaded"
  /\ aclLoad
  /\ UNCHANGED <<heard, row, writes, doing, published, sets, stale, history>>

InstallBackend ==
  /\ stage = "loaded" /\ stage' = "up"
  /\ published' = gen
  /\ UNCHANGED <<heard, acl, row, writes, doing, gen, sets, stale, lost, history>>

\* The process is killed and started again: what was queued is gone.
Kill ==
  /\ gen < MaxGen
  /\ aclLoad
  /\ stage' = "up" /\ published' = gen + 1
  /\ writes' = <<>> /\ doing' = [g \in Goroutines |-> None]
  /\ UNCHANGED <<heard, row, sets, stale, history>>

-----------------------------------------------------------------------------
Next ==
  \/ \E c \in Clients, t \in Timestamps :
       \/ \E password \in Passwords : Login(c, t, password)
       \/ Request(c, t)
       \/ \E command \in Grants \cup {Plain} : Command(c, t, command)
  \/ \E g \in Goroutines : Touch(g) \/ Put(g) \/ Delete(g) \/ Queue(g)
  \/ Run
  \/ \E c \in Clients, role \in Roles : ApiSetACL(c, role)
  \/ Write
  \/ StopRepeater \/ NewRepeater \/ InstallBackend
  \/ Kill

Spec == Init /\ [][Next]_vars

-----------------------------------------------------------------------------
(* Properties.                                                             *)

\* A command heard again, in any order with newer messages, logins, other
\* changes of the list and restarts, is not run again (handleCLI's timestamp
\* check), as long as no two changes of its sender's entry overlapped and none
\* was lost on the way to the table.
RunsOnce == TypeOK /\ \A x \in twice : x[1] \in stale \cup lost

\* A client's role in the running repeater is the one last given by an operator
\* or a login: no message handled in the middle of a setperm takes it back
\* (touchClient), and no reload that finds the table up to date.  The cache and the
\* table agree on a client when nothing is on its way (Repeater.acl mirrors the
\* persisted list), overlaps and drops apart.
GrantHolds ==
  \A c \in Clients \ lost :
    /\ RoleOf(Entry(c)) = granted[c]
    /\ c \notin stale => OnItsWay(c) \/ row[c] = Entry(c)

\* A repeat is never run, whatever else happens ("don't re-run side effects",
\* handleCLI, and "preserve an existing client's replay timestamp", SetACL).
RepeatsNeverRun == twice = {}
=============================================================================

----------------------------- MODULE SensorForm -----------------------------
(***************************************************************************)
(* The dialog that adds a sensor or changes one: a form drawn from the     *)
(* catalogue of parts, a secret the page never holds, a try before the     *)
(* save, and the save, each answered on its own clock.  The part is a web  *)
(* address: its password is optional, its token required, and it may not   *)
(* be fetched less often than its values go out of date.                   *)
(***************************************************************************)
EXTENDS Integers, FiniteSets

CONSTANTS Sensors,     \* the sensors that can be configured
          MaxSpan,     \* the longest length of time (0 is a field left empty)
          MaxOpens,    \* bound: times the dialog is opened
          MaxEdits,    \* bound: edits
          MaxElse,     \* bound: changes made from another page
          MaxFaults    \* bound: requests that fail

VARIABLES
  ui,    \* kinds, list (what the page knows of each sensor), and of the dialog: open, form (its opening), editing,
         \* pick, seed, saving, failed, test, testing
  net,   \* saves and tests under way
  srv,   \* each configured sensor
  past   \* opens, edits, elsewhere, faults; touched (the reader chose another login in this form),
         \* crossed (a form was opened, or another part chosen, with a test still out)

vars == <<ui, net, srv, past>>
Names == {"new", "old"}
Logins == {"none", "basic", "bearer"}
Secret(auth) == CASE auth = "basic" -> {"password"} [] auth = "bearer" -> {"token"} [] OTHER -> {}
Secrets == {"password", "token"}
Spans == 0..MaxSpan
Row == [name : Names, auth : Logins, secret : {"none", "kept", "typed"}, every : Spans]
Pick == [known : BOOLEAN, name : Names \cup {""}, auth : Logins, typed : SUBSET Secrets, every : Spans]
NoRow == [name |-> "old", auth |-> "none", secret |-> "none", every |-> 1]
NoPick == [known |-> FALSE, name |-> "", auth |-> "none", typed |-> {}, every |-> 0]
Fresh == 1

TypeOK ==
  /\ ui.kinds \in {"none", "asked", "loaded", "failed"} /\ DOMAIN ui.list \subseteq Sensors
  /\ \A s \in DOMAIN ui.list : ui.list[s] \in Row
  /\ {ui.open, ui.picked, ui.saving, ui.failed, ui.testing, past.touched, past.crossed} \subseteq BOOLEAN
  /\ ui.form \in 0..MaxOpens /\ ui.editing \subseteq Sensors /\ ui.row \in Row /\ {ui.pick, ui.seed} \subseteq Pick
  /\ ui.test \in 0..MaxOpens
  /\ net.tests \subseteq 1..MaxOpens
  /\ \A c \in net.saves : c.form \in 1..MaxOpens /\ c.body \in Pick /\ c.keep \subseteq Secrets
  /\ \A s \in DOMAIN srv : srv[s] \in Row
  /\ past.edits \in 0..MaxEdits /\ past.elsewhere \in 0..MaxElse /\ past.faults \in 0..MaxFaults

Init ==
  /\ \E s \in Sensors : \E auth \in Logins :
       srv = [x \in {s} |-> [NoRow EXCEPT !.auth = auth, !.secret = IF auth = "none" THEN "none" ELSE "kept"]]
  /\ ui = [kinds |-> "asked", list |-> srv, open |-> FALSE, form |-> 0, editing |-> {}, row |-> NoRow, picked |-> FALSE,
           pick |-> NoPick, seed |-> NoPick, saving |-> FALSE, failed |-> FALSE, test |-> 0, testing |-> FALSE]
  /\ net = [saves |-> {}, tests |-> {}]
  /\ past = [edits |-> 0, elsewhere |-> 0, faults |-> 0, touched |-> FALSE, crossed |-> FALSE]
Fault == past.faults < MaxFaults
Spent == [past EXCEPT !.faults = @ + 1]
-----------------------------------------------------------------------------
\* seedOptions and seedPick: the form as it opens on a sensor; a part the catalogue lacks has no fields.
Stored(r) == IF r.secret = "none" THEN {} ELSE Secret(r.auth)
SeedPick(r, known) == [known |-> known, name |-> r.name, auth |-> r.auth, typed |-> {}, every |-> r.every]
\* The bug of a dialog that opens with the result of the last one's test.
SeededKeepsTest(u) ==
  LET p == IF u.editing = {} THEN NoPick ELSE SeedPick(u.row, u.kinds = "loaded")
  IN [u EXCEPT !.pick = p, !.seed = p, !.picked = u.editing # {}, !.saving = FALSE, !.failed = FALSE]
Seeded(u) ==
  LET p == IF u.editing = {} THEN NoPick ELSE SeedPick(u.row, u.kinds = "loaded")
  IN [u EXCEPT !.pick = p, !.seed = p, !.picked = u.editing # {}, !.saving = FALSE, !.failed = FALSE, !.test = 0]

\* effective, fieldProblem and blockedBy: why the form cannot be saved, or tried, yet.
Span(v) == IF v = 0 THEN 1 ELSE v
TooShort(every) == Fresh < Span(every)
FieldsProblem(p, stored) == p.known /\ (("token" \in Secret(p.auth) \ (p.typed \cup stored)) \/ TooShort(p.every))
Taken(list, id) == {list[s].name : s \in DOMAIN list \ id}
BlockedBy(u) ==
  ~u.picked \/ u.pick.name = "" \/ u.pick.name \in Taken(u.list, u.editing)
    \/ FieldsProblem(u.pick, IF u.editing = {} THEN {} ELSE Stored(u.row))
Unchanged(u) == u.editing # {} /\ u.pick = u.seed

\* requestBody: only the fields that apply, and stored secrets left blank named to be kept.
Keep(u) == IF u.pick.known /\ u.editing # {} THEN (Secret(u.pick.auth) \ u.pick.typed) \cap Stored(u.row) ELSE {}
Body(u) == [u.pick EXCEPT !.typed = @ \cap Secret(u.pick.auth)]
Request(u) == [form |-> u.form, id |-> u.editing, body |-> Body(u), keep |-> Keep(u), row |-> u.row, names |-> Taken(u.list, u.editing),
               touched |-> past.touched, at |-> "asked"]
-----------------------------------------------------------------------------
\* The page: the catalogue, the list it is pushed, and the dialog opened to add or to edit.
KindsLand ==
  /\ ui.kinds = "asked" /\ UNCHANGED <<net, srv>>
  /\ \/ past' = past /\ ui' = LET u == [ui EXCEPT !.kinds = "loaded"] IN IF u.open THEN Seeded(u) ELSE u
     \/ Fault /\ past' = Spent /\ ui' = [ui EXCEPT !.kinds = "failed"]
RetryKinds == ui.kinds = "failed" /\ ui' = [ui EXCEPT !.kinds = "asked"] /\ UNCHANGED <<net, srv, past>>
ListLands == ui.list # srv /\ ui' = [ui EXCEPT !.list = srv] /\ UNCHANGED <<net, srv, past>>
OpenDialog(id, r) ==
  /\ ~ui.open /\ ui.form < MaxOpens /\ past' = [past EXCEPT !.touched = FALSE, !.crossed = @ \/ net.tests # {}] /\ srv' = srv
  /\ ui' = Seeded([ui EXCEPT !.open = TRUE, !.form = @ + 1, !.editing = id, !.row = r]) /\ net' = net
Add == OpenDialog({}, NoRow)
EditSensor(s) == OpenDialog({s}, ui.list[s])
\* What a closed dialog holds is never shown: opening seeds it again.
Closed(u) == Seeded([u EXCEPT !.open = FALSE, !.editing = {}, !.row = NoRow])
Cancel == ui.open /\ ui' = [Closed(ui) EXCEPT !.saving = ui.saving] /\ UNCHANGED <<net, srv, past>>

\* The form.
Choose ==
  /\ ui.open /\ ~ui.picked /\ ui.kinds = "loaded" /\ UNCHANGED <<net, srv>>
  /\ past' = [past EXCEPT !.crossed = @ \/ net.tests # {}]
  /\ ui' = [ui EXCEPT !.picked = TRUE, !.failed = FALSE, !.test = 0, !.pick = SeedPick([NoRow EXCEPT !.name = "new"], TRUE)]
Back == ui.open /\ ui.picked /\ ui.editing = {} /\ ui' = [ui EXCEPT !.picked = FALSE, !.pick = NoPick, !.failed = FALSE]
        /\ UNCHANGED <<net, srv, past>>
Edit(p) ==
  /\ ui.open /\ ui.picked /\ p # ui.pick /\ past.edits < MaxEdits /\ ui' = [ui EXCEPT !.pick = p] /\ UNCHANGED <<net, srv>>
  /\ past' = [past EXCEPT !.edits = @ + 1, !.touched = @ \/ p.auth # ui.pick.auth]
SetName(n) == Edit([ui.pick EXCEPT !.name = n])
SetField ==
  /\ ui.pick.known
  /\ \/ \E a \in Logins : Edit([ui.pick EXCEPT !.auth = a])
     \/ \E k \in Secret(ui.pick.auth) : Edit([ui.pick EXCEPT !.typed = @ \cup {k}]) \/ Edit([ui.pick EXCEPT !.typed = @ \ {k}])
     \/ \E v \in Spans : Edit([ui.pick EXCEPT !.every = v])

\* runTest, and save with what it does to the page.
Test ==
  /\ ui.open /\ ui.picked /\ ui.pick.known /\ ~ui.testing /\ ~FieldsProblem(ui.pick, IF ui.editing = {} THEN {} ELSE Stored(ui.row))
  /\ ui' = [ui EXCEPT !.testing = TRUE] /\ net' = [net EXCEPT !.tests = @ \cup {ui.form}] /\ UNCHANGED <<srv, past>>
TestLands(c) ==
  /\ net' = [net EXCEPT !.tests = @ \ {c}] /\ UNCHANGED <<srv, past>> /\ ui' = [ui EXCEPT !.testing = FALSE, !.test = c]
Save ==
  /\ ui.open /\ ~BlockedBy(ui) /\ ~Unchanged(ui) /\ ~ui.saving /\ UNCHANGED <<srv, past>>
  /\ ui' = [ui EXCEPT !.saving = TRUE, !.failed = FALSE] /\ net' = [net EXCEPT !.saves = @ \cup {Request(ui)}]
SaveLands(c) ==
  /\ c.at \in {"saved", "refused", "lost"} /\ net' = [net EXCEPT !.saves = @ \ {c}] /\ UNCHANGED <<srv, past>>
  /\ ui' = IF c.at = "saved" THEN Closed(ui) ELSE [ui EXCEPT !.saving = FALSE, !.failed = ui.open]
-----------------------------------------------------------------------------
\* The daemon keeps the named secrets, fills in defaults and holds the rest to the part's fields.
Kept(c, s) == IF s \in DOMAIN srv /\ c.keep # {} /\ c.keep \subseteq Stored(srv[s]) THEN srv[s].secret ELSE "none"
Prepared(c, s) ==
  [name |-> c.body.name, auth |-> c.body.auth, secret |-> IF c.body.typed # {} THEN "typed" ELSE Kept(c, s),
   every |-> Span(c.body.every)]
Refuses(c, s) ==
  \/ c.body.name \in Taken(srv, {s})
  \/ c.body.auth = "bearer" /\ Prepared(c, s).secret = "none"
  \/ TooShort(c.body.every)
Answer(c, at) == [net EXCEPT !.saves = (@ \ {c}) \cup {[c EXCEPT !.at = at]}]
ServeSave(c, s) ==
  /\ c.at = "asked" /\ ui' = ui
  /\ IF c.id = {} THEN s \notin DOMAIN srv ELSE c.id = {s}
  /\ \/ Refuses(c, s) /\ net' = Answer(c, "refused") /\ UNCHANGED <<srv, past>>
     \/ /\ ~Refuses(c, s) /\ srv' = [x \in DOMAIN srv \cup {s} |-> IF x = s THEN Prepared(c, s) ELSE srv[x]]
        /\ \/ net' = Answer(c, "saved") /\ past' = past
           \/ Fault /\ net' = Answer(c, "lost") /\ past' = Spent
     \/ Fault /\ past' = Spent /\ srv' = srv /\ net' = Answer(c, "lost")
ChangedElsewhere(s) ==
  /\ past.elsewhere < MaxElse /\ past' = [past EXCEPT !.elsewhere = @ + 1] /\ UNCHANGED <<ui, net>>
  /\ \/ srv' = [srv EXCEPT ![s].auth = "none", ![s].secret = "none"]
     \/ \E n \in Names : n \notin Taken(srv, {s}) /\ srv' = [srv EXCEPT ![s].name = n]

Next ==
  \/ KindsLand \/ RetryKinds \/ ListLands \/ Add \/ Cancel \/ Choose \/ Back \/ SetField \/ Test \/ Save
  \/ \E s \in DOMAIN ui.list : EditSensor(s)
  \/ \E n \in Names \cup {""} : SetName(n)
  \/ \E c \in net.tests : TestLands(c)
  \/ \E c \in net.saves : SaveLands(c) \/ \E s \in Sensors : ServeSave(c, s)
  \/ \E s \in DOMAIN srv : ChangedElsewhere(s)
Spec == Init /\ [][Next]_vars
-----------------------------------------------------------------------------
\* A stored secret goes only when the reader chose another login in the form, when it was already gone, or when
\* another page did it: a secret left blank is kept.  The form of a part the catalogue has not brought cannot say
\* which options are secret, and its save clears it.
SecretKept ==
  \A s \in DOMAIN srv : srv[s].secret # "none" /\ srv'[s].secret = "none" =>
    \/ past'.elsewhere # past.elsewhere
    \/ \E c \in net.saves : c.id = {s} /\ (c.touched \/ ~c.body.known \/ c.row # srv[s])

\* The same of every form: what requestBody says of itself.
BlankSecretsKept ==
  [][\A s \in DOMAIN srv : srv[s].secret # "none" /\ srv'[s].secret = "none" =>
       past'.elsewhere # past.elsewhere \/ \E c \in net.saves : c.id = {s} /\ (c.touched \/ c.row # srv[s])]_vars

\* The form says beforehand what the daemon would refuse: a save drawn up from the list, the sensor and the
\* catalogue as they are is never refused.
RefusedOnlyStale ==
  \A c \in net.saves : c.at = "asked" /\ c.body.known /\ c.names = Taken(srv, c.id) /\ (c.id # {} => \A s \in c.id : c.row = srv[s])
    => \A s \in Sensors : (IF c.id = {} THEN s \notin DOMAIN srv ELSE c.id = {s}) => ~Refuses(c, s)

\* Nothing but the reader and the catalogue's arrival changes an open form.
EditsKept ==
  ui.open /\ ui'.open /\ ui.picked /\ ui.editing # {} /\ ui.form = ui'.form /\ ui'.pick # ui.pick =>
    past'.edits # past.edits \/ ui'.kinds # ui.kinds

\* A result shown is of a try of this form, unless one was still out when the form was opened.
TestIsOwn == ui.open => ui.test \in {0, ui.form} \/ past.crossed
=============================================================================

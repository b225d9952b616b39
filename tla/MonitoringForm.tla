--------------------------- MODULE MonitoringForm ---------------------------
(***************************************************************************)
(* MonitoringSettings with its SensorPushSettings: the form over the part  *)
(* of a contact's metadata that says how it is monitored.  Some pages hand *)
(* it the metadata, and take it back when it is saved; in others it loads  *)
(* the contacts itself.  A save patches only what the form owns, for the   *)
(* telemetry page owns the grant beside it.                                *)
(***************************************************************************)
EXTENDS Integers, FiniteSets

CONSTANTS Readings,    \* those the sensor sends and can watch, interchangeable here
          MaxTicked,   \* readings it can watch at once
          MaxFaults    \* bound: requests that fail

VARIABLES
  ui,    \* given (the page hands it the metadata), loaded, form, rows (the readings listed), base,
         \* saving, reading
  net,   \* on its way: the contacts' load, patches, and reads of the sensor
  srv,   \* the contact's metadata
  past   \* faults, the fields edited; failed: the load failed; late: edited while saving

vars == <<ui, net, srv, past>>

None == "none"
Fields == {"on", "push", "ticked"}
Metadata == [on : BOOLEAN, push : BOOLEAN, ticked : SUBSET Readings, grant : BOOLEAN]
Empty == [on |-> FALSE, push |-> FALSE, ticked |-> {}, grant |-> FALSE]
Patch == [meta : Metadata, base : Metadata, fields : SUBSET (Fields \cup {"grant"})]

TypeOK ==
  /\ {ui.given, ui.loaded, ui.saving, ui.reading, past.failed, past.late} \subseteq BOOLEAN
  /\ ui.form \in Metadata /\ ui.base \in Metadata /\ ui.rows \subseteq Readings
  /\ {net.load, net.read} \subseteq BOOLEAN /\ net.patches \subseteq Patch
  /\ srv \in Metadata /\ past.faults \in 0..MaxFaults /\ past.edited \subseteq Fields

\* apply: the metadata becomes the form and what a save starts from.
Apply(u, m) == [u EXCEPT !.form = m, !.base = m, !.rows = m.ticked, !.loaded = TRUE]
Fresh(given) ==
  [given |-> given, loaded |-> FALSE, form |-> Empty, rows |-> {}, base |-> Empty, saving |-> FALSE, reading |-> FALSE]
Init ==
  /\ \E g \in BOOLEAN, t \in {T \in SUBSET Readings : Cardinality(T) <= MaxTicked} :
       /\ srv = [on |-> TRUE, push |-> t # {}, ticked |-> t, grant |-> FALSE]
       /\ ui = (IF g THEN Apply(Fresh(g), srv) ELSE Fresh(g)) /\ net = [load |-> ~g, patches |-> {}, read |-> FALSE]
  /\ past = [faults |-> 0, edited |-> {}, failed |-> FALSE, late |-> FALSE]
Fault == past.faults < MaxFaults
-----------------------------------------------------------------------------
\* The contacts answer; a failure, or a contact they do not have, leaves the form as if nothing were stored.
LoadLands ==
  /\ net.load /\ net' = [net EXCEPT !.load = FALSE] /\ srv' = srv
  /\ \/ ui' = Apply(ui, srv) /\ past' = [past EXCEPT !.edited = {}]
     \/ Fault /\ ui' = Apply(ui, Empty) /\ past' = [past EXCEPT !.faults = @ + 1, !.failed = TRUE]

Edited(f) == past' = [past EXCEPT !.edited = @ \cup {f}, !.late = @ \/ net.patches # {}]
\* The switch waits for the load; the fields below it do not.
Toggle == ui.loaded /\ ui' = [ui EXCEPT !.form.on = ~@] /\ Edited("on") /\ UNCHANGED <<net, srv>>
\* turnPush: turned on with nothing listed, the sensor is read.
Turn ==
  LET reads == ~ui.form.push /\ ui.rows = {} /\ ~ui.reading IN
  /\ ui' = [ui EXCEPT !.form.push = ~@, !.reading = @ \/ reads]
  /\ net' = [net EXCEPT !.read = @ \/ reads] /\ Edited("push") /\ srv' = srv
LoadReadings ==
  /\ ui.form.push /\ ~ui.reading /\ ui' = [ui EXCEPT !.reading = TRUE] /\ net' = [net EXCEPT !.read = TRUE]
  /\ UNCHANGED <<srv, past>>
\* The bug of a form that ticks every reading it finds.
PickedAll(fresh) == {fresh}
\* With nothing ticked, as many readings as fit are; which come first is left open.
Picked(fresh) == {T \in SUBSET fresh : Cardinality(T) = IF Cardinality(fresh) < MaxTicked THEN Cardinality(fresh) ELSE MaxTicked}
\* mergeReadings: the sensor sent some readings, and those of them a watch can find are fresh.  What was ticked stays,
\* also if it was not sent, unless it was sent and cannot be found; other rows that were not sent again go.
MergeReadings(u, fresh, sent) ==
  LET kept == u.form.ticked \ (sent \ fresh) IN
  {[u EXCEPT !.rows = fresh \cup kept, !.form.ticked = T, !.reading = FALSE] : T \in IF kept # {} THEN {kept} ELSE Picked(fresh)}
ReadingsLand ==
  /\ net.read /\ net' = [net EXCEPT !.read = FALSE] /\ srv' = srv
  /\ \/ /\ \E sent \in SUBSET Readings : \E fresh \in SUBSET sent : ui' \in MergeReadings(ui, fresh, sent)
        /\ Edited("ticked")
     \/ Fault /\ ui' = [ui EXCEPT !.reading = FALSE] /\ past' = [past EXCEPT !.faults = @ + 1]
Tick(r) ==
  /\ ui.form.push /\ r \in ui.rows /\ (r \in ui.form.ticked \/ Cardinality(ui.form.ticked) < MaxTicked)
  /\ ui' = [ui EXCEPT !.form.ticked = IF r \in @ THEN @ \ {r} ELSE @ \cup {r}] /\ Edited("ticked")
  /\ UNCHANGED <<net, srv>>

\* The bug of a save that names every field.
OwnedAll(u) == DOMAIN u.form
\* save: only what the form owns, and the readings only while push is on.
Owned(u) == {"on", "push"} \cup (IF u.form.push THEN {"ticked"} ELSE {})
CanSave == ui.loaded /\ ~ui.saving /\ (ui.form.push => ui.form.ticked # {})
Save ==
  /\ CanSave /\ ui' = [ui EXCEPT !.saving = TRUE]
  /\ net' = [net EXCEPT !.patches = @ \cup {[meta |-> ui.form, base |-> ui.base, fields |-> Owned(ui)]}]
  /\ past' = [past EXCEPT !.late = FALSE] /\ srv' = srv
Merged(m, p) == [f \in DOMAIN m |-> IF f \in p.fields THEN p.meta[f] ELSE m[f]]
\* The page is handed what was saved, which comes back as the form's metadata and is applied again.
SaveLands(p) ==
  LET meta == Merged(p.base, p)
      saved == [ui EXCEPT !.saving = FALSE, !.base = meta] IN
  /\ net' = [net EXCEPT !.patches = @ \ {p}]
  /\ \/ /\ srv' = Merged(srv, p) /\ ui' = IF ui.given THEN Apply(saved, meta) ELSE saved
        /\ past' = [past EXCEPT !.edited = IF ui.given THEN {} ELSE IF past.late THEN @ ELSE @ \ p.fields]
     \/ Fault /\ past' = [past EXCEPT !.faults = @ + 1] /\ ui' = [ui EXCEPT !.saving = FALSE] /\ srv' = srv
\* The telemetry page grants this contact something.
Grant == ~srv.grant /\ srv' = [srv EXCEPT !.grant = TRUE] /\ UNCHANGED <<ui, net, past>>

Next ==
  \/ LoadLands \/ Toggle \/ Turn \/ LoadReadings \/ ReadingsLand \/ Save \/ Grant
  \/ \E r \in Readings : Tick(r)
  \/ \E p \in net.patches : SaveLands(p)
Spec == Init /\ [][Next]_vars
-----------------------------------------------------------------------------
\* A sensor is never asked to watch more readings than it has room for.
WatchFits == Cardinality(srv.ticked) <= MaxTicked /\ Cardinality(ui.form.ticked) <= MaxTicked

\* "A grant saved elsewhere since this loaded survives": no save takes it back.
GrantSurvives == srv.grant => srv'.grant

\* A save changes only what the reader changed, unless the load it started from failed.
SavesOnlyEdits ==
  ~past.failed => \A f \in Fields : srv'[f] # srv[f] => f \in past.edited

\* A save that is answered leaves the form as the reader has it, unless it was edited meanwhile or
\* push is off, when the readings go back to the saved ones.
EditsKept ==
  ui.saving /\ ~ui'.saving /\ ~past.late =>
    /\ ui'.form.on = ui.form.on /\ ui'.form.push = ui.form.push
    /\ ui.form.push => ui'.form.ticked = ui.form.ticked
=============================================================================

--------------------------- MODULE RemoteSettings ---------------------------
(***************************************************************************)
(* One section of a remote node's settings tab, edited by commands to its  *)
(* console, awaited one at a time: the radio is half-duplex.  Load reads   *)
(* every field, Save writes them; a failure stops either where it is.      *)
(* The sections differ in what Save sends: every field filled in, only     *)
(* what differs from the last load (routing), every field (owner), or what *)
(* was edited, followed by a load (sensor variables).  The tab unmounts    *)
(* when it is left, and a job under way then goes on without its form.     *)
(***************************************************************************)
EXTENDS Integers

CONSTANTS N,          \* fields, 1..N, in the order they are read and sent
          Values,
          Off,        \* the value the read-only switch starts with
          MaxFaults,  \* bound: commands that fail
          MaxLeaves   \* bound: times the tab is left

VARIABLES
  ui,    \* section; vals of the form, loaded (what routing's Save compares with), the variables
         \* edited, busy
  net,   \* jobs, at the next command: vals is what a load has read or a save sends; mine tells the
         \* form's own
  srv,   \* the node's setting of each field
  past   \* faults, leaves; what the form last said it saved; the fields a failed save may have
         \* written; whether the tab was left with a job under way

vars == <<ui, net, srv, past>>

Sections == {"radio", "position", "advert", "network", "vars", "owner", "security"}
Blank == "blank"
Idle == "idle"
Forms == [1..N -> Values \cup {Blank}]
Nothing == [f \in 1..N |-> Blank]
Job == [what : {"load", "save"}, at : 1..N, send : SUBSET (1..N), vals : Forms, mine : BOOLEAN]

TypeOK ==
  /\ ui.section \in Sections /\ ui.vals \in Forms /\ ui.loaded \in Forms /\ ui.edited \subseteq 1..N
  /\ ui.busy \in {Idle, "load", "save"}
  /\ \A j \in net : j \in Job
  /\ srv \in Forms
  /\ past.faults \in 0..MaxFaults /\ past.leaves \in 0..MaxLeaves /\ past.said \in Forms
  /\ past.doubt \subseteq 1..N /\ past.crossed \in BOOLEAN

Fresh(k) == [section |-> k, vals |-> IF k = "security" THEN [Nothing EXCEPT ![N] = Off] ELSE Nothing, loaded |-> Nothing, edited |-> {}, busy |-> Idle]
Init ==
  /\ \E k \in Sections : ui = Fresh(k)
  /\ net = {} /\ srv \in [1..N -> Values]
  /\ past = [faults |-> 0, leaves |-> 0, said |-> Nothing, doubt |-> {}, crossed |-> FALSE]

\* Leaving the tab unmounts the form; a new one knows nothing of a job still under way.
Leave ==
  /\ past.leaves < MaxLeaves /\ ui' = Fresh(ui.section)
  /\ net' = {[j EXCEPT !.mine = FALSE] : j \in net} /\ srv' = srv
  /\ past' = [past EXCEPT !.leaves = @ + 1, !.said = Nothing, !.doubt = {}, !.crossed = @ \/ net # {}]
\* A field is typed in, also while the form is busy.
Edit(f, v) ==
  /\ ui.vals[f] # v /\ (ui.section = "vars" => ui.vals[f] # Blank)
  /\ ui' = [ui EXCEPT !.vals[f] = v, !.edited = IF ui.section = "vars" THEN @ \cup {f} ELSE @] /\ UNCHANGED <<net, srv, past>>
-----------------------------------------------------------------------------
\* Load and Save are disabled while the form is busy.
Start(what, send, vals) ==
  /\ ui.busy = Idle /\ ui' = [ui EXCEPT !.busy = what]
  /\ net' = net \cup {[what |-> what, at |-> 1, send |-> send, vals |-> vals, mine |-> TRUE]}
  /\ past' = [past EXCEPT !.said = Nothing] /\ srv' = srv
Load == Start("load", {}, Nothing)
Filled == {f \in 1..N : ui.vals[f] # Blank}
RadioSends == Filled
PositionSends == Filled
AdvertSends == Filled
NetworkSends == {f \in Filled : ui.vals[f] # ui.loaded[f]}
VarsSends == ui.edited
OwnerSends == 1..N
\* The last field is a room's read-only switch, sent whether or not it was ever loaded.
SecuritySends == Filled \cup {N}
ToSend ==
  CASE ui.section = "radio" -> RadioSends
    [] ui.section = "position" -> PositionSends
    [] ui.section = "advert" -> AdvertSends
    [] ui.section = "network" -> NetworkSends
    [] ui.section = "vars" -> VarsSends
    [] ui.section = "owner" -> OwnerSends
    [] ui.section = "security" -> SecuritySends
Save == Start("save", ToSend, ui.vals)

\* The end of a job.  A load fills the form and forgets the edits; what a save sent is what the next
\* one compares with; sensor variables are then loaded again.  The admin password, the first field of
\* its section, is never read, and is cleared once it was sent.
Base(j) == IF ui.section = "network" THEN j.vals ELSE Nothing
Secret == ui.section = "security"
Reloads(j) == j.what = "save" /\ ui.section = "vars"
Ended(j) ==
  \/ ~j.mine /\ UNCHANGED <<ui, past>>
  \/ /\ j.mine /\ j.what = "load"
     /\ ui' = [ui EXCEPT !.busy = Idle, !.loaded = Base(j), !.edited = {},
                         !.vals = IF Secret THEN [j.vals EXCEPT ![1] = ui.vals[1]] ELSE j.vals]
     /\ past' = [past EXCEPT !.doubt = {}]
  \/ /\ j.mine /\ j.what = "save"
     /\ ui' = [ui EXCEPT !.busy = IF Reloads(j) THEN "load" ELSE Idle, !.loaded = Base(j),
                         !.vals = IF Secret THEN [@ EXCEPT ![1] = Blank] ELSE @]
     /\ past' = [past EXCEPT !.said = [f \in 1..N |-> IF Reloads(j) /\ f \notin j.send THEN Blank ELSE j.vals[f]],
                             !.doubt = @ \ j.send]
Step(j) ==
  IF j.at < N THEN {[j EXCEPT !.at = @ + 1]}
  ELSE IF Reloads(j) THEN {[j EXCEPT !.what = "load", !.at = 1, !.send = {}, !.vals = Nothing]} ELSE {}
\* The node carries out the command the job is at, if it is one of those to send.
Carried(j) == IF j.at \in j.send THEN [srv EXCEPT ![j.at] = j.vals[j.at]] ELSE srv
Answered(j) ==
  LET k == IF j.what = "load" THEN [j EXCEPT !.vals[j.at] = srv[j.at]] ELSE j IN
  /\ srv' = Carried(j) /\ net' = (net \ {j}) \cup Step(k)
  /\ \/ j.at < N /\ UNCHANGED <<ui, past>>
     \/ j.at = N /\ Ended(k)
\* The bug of a save that goes on after a failure.
FailedGoesOn(j) ==
  /\ past.faults < MaxFaults /\ (j.what = "save" => j.at \in j.send)
  /\ srv' = srv /\ net' = (net \ {j}) \cup Step(j)
  /\ IF j.at < N THEN ui' = ui /\ past' = [past EXCEPT !.faults = @ + 1] ELSE Ended(j)
\* The command fails, refused or with its reply lost; the commands after it are not sent.
Failed(j) ==
  /\ past.faults < MaxFaults /\ (j.what = "save" => j.at \in j.send)
  /\ \/ srv' = srv
     \/ srv' = Carried(j) /\ srv # srv'
  /\ net' = net \ {j} /\ ui' = IF j.mine THEN [ui EXCEPT !.busy = Idle] ELSE ui
  /\ past' = [past EXCEPT !.faults = @ + 1,
                          !.doubt = @ \cup {f \in j.send : f < j.at \/ (f = j.at /\ srv' # srv)}]

Next ==
  \/ Leave \/ Load \/ Save
  \/ \E f \in 1..N, v \in Values : Edit(f, v)
  \/ \E j \in net : Answered(j) \/ Failed(j)
Spec == Init /\ [][Next]_vars
-----------------------------------------------------------------------------
\* When a section says it is saved, the node holds every value the form showed: unless an earlier
\* save failed half-way, or one was left running.
SavedMeansHeld ==
  ~past.crossed => \A f \in 1..N \ past.doubt : past.said[f] # Blank => srv[f] = past.said[f]

\* The comment above loadedRef: Save sends what changed, so what it says is saved is on the node.
SavesWhatChanged == ~past.crossed => \A f \in 1..N : past.said[f] # Blank => srv[f] = past.said[f]
=============================================================================

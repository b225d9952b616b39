----------------------------- MODULE PathEditor -----------------------------
(***************************************************************************)
(* PathDialog, the one route editor of every contact: it opens blank,      *)
(* loads the route in use, seeds the editor with it, and saves or resets.  *)
(* One dialog serves whichever contact is open, and its loads carry no     *)
(* sequence number.  A route is a number; 0 is "flood".                    *)
(***************************************************************************)
EXTENDS Integers, FiniteSets

CONSTANTS Contacts, MaxRoute,
          MaxLoads,   \* bound: loads in flight
          MaxFaults,  \* bound: requests that fail
          MaxOpens    \* bound: times the dialog opens

VARIABLES
  ui,    \* contact, open; info (in use, as shown) and edit, each a route and whose it is; seeded;
         \* loading, saving, resetting
  net,   \* loads, the save and the reset on their way
  srv,   \* the route of each contact
  past   \* faults, opens, whether loads overlap, whether the reader edited before the seed

vars == <<ui, net, srv, past>>

Flood == 0
Routes == 0..MaxRoute
None == "none"
Blank == [of |-> None, route |-> Flood]
Shown == [of : Contacts \cup {None}, route : Routes]
Load == [of : Contacts, seed : BOOLEAN, got : {"asked", "ok", "failed"}, route : Routes]
Change == [to : Contacts, route : Routes, from : Contacts \cup {None}]

TypeOK ==
  /\ ui.contact \in Contacts /\ ui.info \in Shown /\ ui.edit \in Shown /\ ui.seeded \in Routes
  /\ {ui.open, ui.loading, ui.saving, ui.resetting, past.overlap, past.early} \subseteq BOOLEAN
  /\ \A q \in net.loads : q \in Load
  /\ \A p \in net.saves : p \in Change
  /\ net.resets \subseteq Contacts /\ srv \in [Contacts -> Routes]
  /\ past.faults \in 0..MaxFaults /\ past.opens \in 0..MaxOpens

Init ==
  /\ \E c \in Contacts :
       ui = [contact |-> c, open |-> FALSE, info |-> Blank, edit |-> Blank, seeded |-> Flood,
             loading |-> FALSE, saving |-> FALSE, resetting |-> FALSE]
  /\ net = [loads |-> {}, saves |-> {}, resets |-> {}]
  /\ srv \in [Contacts -> Routes]
  /\ past = [faults |-> 0, opens |-> 0, overlap |-> FALSE, early |-> FALSE]

Fault == past.faults < MaxFaults /\ past' = [past EXCEPT !.faults = @ + 1]
Asked(c, seed) == [of |-> c, seed |-> seed, got |-> "asked", route |-> Flood]
-----------------------------------------------------------------------------
\* The effect on open: start blank, load, seed.
Open ==
  /\ ~ui.open /\ past.opens < MaxOpens /\ Cardinality(net.loads) < MaxLoads
  /\ ui' = [ui EXCEPT !.open = TRUE, !.info = Blank, !.edit = Blank, !.seeded = Flood, !.loading = TRUE]
  /\ net' = [net EXCEPT !.loads = @ \cup {Asked(ui.contact, TRUE)}]
  /\ past' = [past EXCEPT !.opens = @ + 1, !.overlap = net.loads # {} \/ net.saves # {}, !.early = FALSE] /\ srv' = srv
Close == ui.open /\ ui' = [ui EXCEPT !.open = FALSE] /\ UNCHANGED <<net, srv, past>>
\* Closed, the page turns to another contact; the dialog stays mounted.
OtherContact(c) ==
  /\ ~ui.open /\ c # ui.contact
  /\ ui' = [ui EXCEPT !.contact = c] /\ UNCHANGED <<net, srv, past>>

Serve(q) ==
  /\ q.got = "asked"
  /\ \/ net' = [net EXCEPT !.loads = (@ \ {q}) \cup {[q EXCEPT !.got = "ok", !.route = srv[q.of]]}] /\ past' = past
     \/ net' = [net EXCEPT !.loads = (@ \ {q}) \cup {[q EXCEPT !.got = "failed"]}] /\ Fault
  /\ UNCHANGED <<ui, srv>>
\* Whatever load answers is shown; one that the opening or a reset asked for also seeds the editor.
Land(q) ==
  /\ q.got # "asked" /\ net' = [net EXCEPT !.loads = @ \ {q}]
  /\ LET new == [of |-> q.of, route |-> q.route] IN
     \/ q.got = "ok" /\ q.seed
        /\ ui' = [ui EXCEPT !.loading = FALSE, !.info = new, !.edit = new, !.seeded = q.route]
     \/ q.got = "ok" /\ ~q.seed /\ ui' = [ui EXCEPT !.loading = FALSE, !.info = new]
     \/ q.got = "failed" /\ ui' = [ui EXCEPT !.loading = FALSE]
  /\ UNCHANGED <<srv, past>>
\* The bug of a refresh that seeds the edit again.
RefreshSeeds ==
  /\ ui.open /\ ~ui.loading /\ Cardinality(net.loads) < MaxLoads
  /\ ui' = [ui EXCEPT !.loading = TRUE] /\ net' = [net EXCEPT !.loads = @ \cup {Asked(ui.contact, TRUE)}]
  /\ UNCHANGED <<srv, past>>
Refresh ==
  /\ ui.open /\ ~ui.loading /\ Cardinality(net.loads) < MaxLoads
  /\ ui' = [ui EXCEPT !.loading = TRUE] /\ net' = [net EXCEPT !.loads = @ \cup {Asked(ui.contact, FALSE)}]
  /\ UNCHANGED <<srv, past>>

\* The reader picks hops or types hex: nothing stops one who edits before the seed arrives.
Edit(r) ==
  /\ ui.open /\ r # ui.edit.route
  /\ ui' = [ui EXCEPT !.edit.route = r]
  /\ past' = [past EXCEPT !.early = @ \/ \E q \in net.loads : q.seed] /\ UNCHANGED <<net, srv>>

CanSave == ui.open /\ ~ui.saving /\ ~ui.resetting /\ ~ui.loading /\ ui.info # Blank /\ ui.edit.route # ui.seeded
Save ==
  /\ CanSave /\ ui' = [ui EXCEPT !.saving = TRUE]
  /\ net' = [net EXCEPT !.saves = @ \cup {[to |-> ui.contact, route |-> ui.edit.route, from |-> ui.edit.of]}]
  /\ UNCHANGED <<srv, past>>
\* Saved, the dialog closes, whichever contact it shows by now.
SaveLands(p) ==
  /\ net' = [net EXCEPT !.saves = @ \ {p}]
  /\ \/ srv' = [srv EXCEPT ![p.to] = p.route] /\ ui' = [ui EXCEPT !.saving = FALSE, !.open = FALSE] /\ past' = past
     \/ Fault /\ ui' = [ui EXCEPT !.saving = FALSE] /\ srv' = srv

Reset ==
  /\ ui.open /\ ui.info.route # Flood /\ ~ui.resetting /\ ~ui.saving
  /\ ui' = [ui EXCEPT !.resetting = TRUE] /\ net' = [net EXCEPT !.resets = @ \cup {ui.contact}]
  /\ UNCHANGED <<srv, past>>
\* Reset, the route is loaded again and seeds the editor: for the contact the button was pressed on.
ResetLands(c) ==
  \/ /\ Cardinality(net.loads) < MaxLoads /\ srv' = [srv EXCEPT ![c] = Flood]
     /\ ui' = [ui EXCEPT !.resetting = FALSE, !.loading = TRUE]
     /\ net' = [net EXCEPT !.resets = @ \ {c}, !.loads = @ \cup {Asked(c, TRUE)}]
     /\ past' = [past EXCEPT !.overlap = @ \/ net.loads # {} \/ c # ui.contact,
                             !.early = @ \/ ui.edit.route # ui.seeded]
  \/ Fault /\ ui' = [ui EXCEPT !.resetting = FALSE] /\ net' = [net EXCEPT !.resets = @ \ {c}] /\ srv' = srv

Next ==
  \/ Open \/ Close \/ Refresh \/ Save \/ Reset
  \/ \E c \in Contacts : OtherContact(c) \/ (c \in net.resets /\ ResetLands(c))
  \/ \E q \in net.loads : Serve(q) \/ Land(q)
  \/ \E p \in net.saves : SaveLands(p)
  \/ \E r \in Routes : Edit(r)
Spec == Init /\ [][Next]_vars
-----------------------------------------------------------------------------
\* A route is only ever saved for the contact the editor was seeded from, unless the dialog was
\* opened again, or a reset finished, with an earlier load or save still on its way.
SavesOwnRoute == \A p \in net.saves : ~past.overlap => p.from \in {p.to, None}

\* What the comment above the opening promises: never the last contact's route.
ReopenStartsBlank == ui.open => ui.info.of \in {ui.contact, None}

\* An edit made after the editor was seeded stays until it is saved, reset or closed.
EditsKept ==
  ui.open /\ ui'.open /\ ui.edit.route # ui.seeded /\ net' # net
  /\ ~past.early /\ ~past'.overlap => ui'.edit = ui.edit
=============================================================================

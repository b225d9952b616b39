-------------------------- MODULE TelemetryGrants --------------------------
(***************************************************************************)
(* TelemetryAccess: who may read a companion's telemetry.  Each class has  *)
(* a mode, saved with a button; a class for chosen contacts has, in each   *)
(* contact, a grant that is saved on click.  Clicks show at once and are   *)
(* sent one at a time; one that fails makes the panel read the contacts    *)
(* again.                                                                  *)
(***************************************************************************)
EXTENDS Integers, Sequences, FiniteSets

CONSTANTS Classes, Contacts,
          MaxQueue,   \* bound: grants on their way
          MaxFaults   \* bound: requests that fail

VARIABLES
  ui,    \* saved (the classes open to chosen contacts), modes (the same, as drafted), error, saving;
         \* contacts (the grants shown, or NotLoaded), contactsError
  net,   \* the load of the modes, the save, the read of the contacts with its answer, and queue
  srv,   \* modes, and the grants of each contact
  past   \* faults, classes drafted, and whether the contacts were read with grants on their way

vars == <<ui, net, srv, past>>

None == "none"
NotLoaded == [c \in {} |-> {}]
Unknown == {None}
Grants == [Contacts -> SUBSET Classes]
Grant == [to : Contacts, perms : SUBSET Classes]

TypeOK ==
  /\ ui.saved \in SUBSET Classes \cup {Unknown} /\ ui.modes \in SUBSET Classes \cup {Unknown}
  /\ {ui.error, ui.saving, ui.contactsError, net.load, past.crossed} \subseteq BOOLEAN
  /\ ui.contacts \in Grants \cup {NotLoaded}
  /\ net.save \in SUBSET Classes \cup {Unknown} /\ net.ask \in {None, "asked", "served"} /\ net.list \in Grants
  /\ net.queue \in Seq(Grant) /\ Len(net.queue) <= MaxQueue
  /\ srv.modes \subseteq Classes /\ srv.perms \in Grants
  /\ past.faults \in 0..MaxFaults /\ past.drafted \subseteq Classes

Nobody == [c \in Contacts |-> {}]
Init ==
  /\ ui = [saved |-> Unknown, modes |-> Unknown, error |-> FALSE, saving |-> FALSE, contacts |-> NotLoaded,
           contactsError |-> FALSE]
  /\ net = [load |-> TRUE, save |-> Unknown, ask |-> None, list |-> Nobody, queue |-> <<>>]
  /\ \E M \in SUBSET Classes : srv = [modes |-> M, perms |-> Nobody]
  /\ past = [faults |-> 0, drafted |-> {}, crossed |-> FALSE]
Fault == past.faults < MaxFaults
Spent == [past EXCEPT !.faults = @ + 1]
-----------------------------------------------------------------------------
\* needContacts, and the effect that reads them: as grants follow the saved modes.
NeedContacts(u) == u.saved \notin {{}, Unknown}
Asks(u) == NeedContacts(u) /\ u.contacts = NotLoaded /\ ~u.contactsError
\* A render after which the effect runs: a read under way is dropped when no contacts are needed.
Reading(u, n) ==
  IF ~Asks(u) THEN [n EXCEPT !.ask = None, !.list = Nobody]
  ELSE IF n.ask = None THEN [n EXCEPT !.ask = "asked"] ELSE n
Render(u, n) == ui' = u /\ net' = Reading(u, n)

\* load: what fails shows an error, never closed classes.
LoadLands ==
  /\ net.load /\ srv' = srv
  /\ \/ Render([ui EXCEPT !.saved = srv.modes, !.modes = srv.modes], [net EXCEPT !.load = FALSE]) /\ past' = past
     \/ Fault /\ Render([ui EXCEPT !.error = TRUE], [net EXCEPT !.load = FALSE]) /\ past' = Spent
RetryLoad ==
  /\ ui.error /\ Render([ui EXCEPT !.error = FALSE], [net EXCEPT !.load = TRUE]) /\ UNCHANGED <<srv, past>>

Form == ~ui.error /\ ui.saved # Unknown
Draft(k) ==
  /\ Form /\ ui' = [ui EXCEPT !.modes = IF k \in @ THEN @ \ {k} ELSE @ \cup {k}]
  /\ past' = [past EXCEPT !.drafted = @ \cup {k}] /\ UNCHANGED <<net, srv>>
Save ==
  /\ Form /\ ui.modes # ui.saved /\ ~ui.saving
  /\ ui' = [ui EXCEPT !.saving = TRUE] /\ net' = [net EXCEPT !.save = ui.modes] /\ UNCHANGED <<srv, past>>
SaveLands ==
  /\ net.save # Unknown
  /\ \/ /\ srv' = [srv EXCEPT !.modes = net.save] /\ past' = past
        /\ Render([ui EXCEPT !.saving = FALSE, !.saved = net.save], [net EXCEPT !.save = Unknown])
     \/ /\ Fault /\ srv' = srv /\ past' = Spent
        /\ Render([ui EXCEPT !.saving = FALSE], [net EXCEPT !.save = Unknown])

ContactsServed ==
  /\ net.ask = "asked" /\ net' = [net EXCEPT !.ask = "served", !.list = srv.perms]
  /\ past' = [past EXCEPT !.crossed = net.queue # <<>>] /\ UNCHANGED <<ui, srv>>
ContactsLand ==
  /\ net.ask = "served" /\ srv' = srv
  /\ \/ Render([ui EXCEPT !.contacts = net.list], net) /\ past' = past
     \/ Fault /\ Render([ui EXCEPT !.contactsError = TRUE], net) /\ past' = Spent
RetryContacts ==
  /\ NeedContacts(ui) /\ ui.contactsError /\ Render([ui EXCEPT !.contactsError = FALSE], net)
  /\ UNCHANGED <<srv, past>>

\* grant: toggled in what is shown, and sent as the whole of it.
Chosen(k) == Form /\ k \in ui.saved
ToggleGrant(c, k) ==
  /\ Chosen(k) /\ ui.contacts # NotLoaded /\ ~ui.contactsError /\ Len(net.queue) < MaxQueue
  /\ LET before == ui.contacts[c]
         perms == IF k \in before THEN before \ {k} ELSE before \cup {k} IN
     Render([ui EXCEPT !.contacts[c] = perms], [net EXCEPT !.queue = Append(@, [to |-> c, perms |-> perms])])
  /\ UNCHANGED <<srv, past>>
GrantLands ==
  /\ net.queue # <<>>
  /\ LET g == Head(net.queue)
         rest == [net EXCEPT !.queue = Tail(@)] IN
     \/ srv' = [srv EXCEPT !.perms[g.to] = g.perms] /\ Render(ui, rest) /\ past' = past
     \/ Fault /\ Render([ui EXCEPT !.contacts = NotLoaded], rest) /\ srv' = srv /\ past' = Spent

Next ==
  \/ LoadLands \/ RetryLoad \/ Save \/ SaveLands \/ ContactsServed \/ ContactsLand \/ RetryContacts \/ GrantLands
  \/ \E k \in Classes : Draft(k) \/ \E c \in Contacts : ToggleGrant(c, k)
Spec == Init /\ [][Next]_vars
-----------------------------------------------------------------------------
\* With no grant on its way the grants shown are those stored, toggles made in quick succession and
\* failures included, unless the contacts were read back while later toggles were still queued.
GrantsAgree ==
  ui.contacts # NotLoaded /\ net.queue = <<>> /\ ~past.crossed => ui.contacts = srv.perms

\* "A failed load is an error, never No one": a save opens or closes only classes the reader changed.
ClosesOnlyChosen ==
  \A k \in Classes : (k \in srv.modes) # (k \in srv'.modes) => k \in past.drafted
=============================================================================

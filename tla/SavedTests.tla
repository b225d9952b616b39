----------------------------- MODULE SavedTests -----------------------------
(***************************************************************************)
(* TracesPage, the signal tests kept: each a row that is renamed, deleted, *)
(* ticked; the dialog that compares the ticked ones reads                  *)
(* them all whenever it opens or they change.                              *)
(***************************************************************************)
EXTENDS Integers, FiniteSets

CONSTANTS Tests, MaxReloads, MaxOpens, MaxFaults  \* the last three: bounds

VARIABLES
  ui,    \* tests and labels (the list shown), compare (ticked), open, details, loading
  net,   \* list (the read of the list, with what it found), renames, deletes, compares (the reads of a dialog)
  srv,   \* tests and their labels
  past   \* reloads, opens, faults; gone (deletions answered), and whether requests crossed or overlapped

vars == <<ui, net, srv, past>>

NoList == [tests |-> {}, labels |-> [t \in Tests |-> FALSE], served |-> FALSE, asked |-> FALSE]
Labels == [Tests -> BOOLEAN]

TypeOK ==
  /\ {ui.tests, ui.compare, ui.details, net.deletes, srv.tests, past.gone} \subseteq SUBSET Tests
  /\ ui.labels \in Labels /\ srv.labels \in Labels /\ net.list.labels \in Labels /\ net.list.tests \subseteq Tests
  /\ net.renames \subseteq [test : Tests, label : BOOLEAN] /\ net.compares \subseteq SUBSET Tests
  /\ {ui.open, ui.loading, past.crossed, past.overlap} \subseteq BOOLEAN
  /\ past.reloads \in 0..MaxReloads /\ past.opens \in 0..MaxOpens /\ past.faults \in 0..MaxFaults

Init ==
  /\ ui = [tests |-> Tests, labels |-> NoList.labels, compare |-> {}, open |-> FALSE, details |-> {}, loading |-> FALSE]
  /\ net = [list |-> NoList, renames |-> {}, deletes |-> {}, compares |-> {}]
  /\ srv = [tests |-> Tests, labels |-> NoList.labels]
  /\ past = [reloads |-> 0, opens |-> 0, faults |-> 0, gone |-> {}, crossed |-> FALSE, overlap |-> FALSE]
Fault == past.faults < MaxFaults
Spent == [past EXCEPT !.faults = @ + 1]
-----------------------------------------------------------------------------
\* The list is read again when a test ends.
Reload ==
  /\ past.reloads < MaxReloads /\ past' = [past EXCEPT !.reloads = @ + 1]
  /\ net' = [net EXCEPT !.list = [NoList EXCEPT !.asked = TRUE]] /\ UNCHANGED <<ui, srv>>
ListServed ==
  /\ net.list.asked /\ ~net.list.served
  /\ net' = [net EXCEPT !.list = [asked |-> TRUE, served |-> TRUE, tests |-> srv.tests, labels |-> srv.labels]]
  /\ UNCHANGED <<ui, srv, past>>
ListLands ==
  /\ net.list.served /\ net' = [net EXCEPT !.list = NoList]
  /\ ui' = [ui EXCEPT !.tests = net.list.tests, !.labels = net.list.labels] /\ UNCHANGED <<srv, past>>

\* SavedTestRow: the pencil shows a field with the label, saved without waiting for an earlier save.
SaveLabel(t, label) ==
  /\ t \in ui.tests /\ \A r \in net.renames : r.test # t
  /\ net' = [net EXCEPT !.renames = @ \cup {[test |-> t, label |-> label]}] /\ UNCHANGED <<ui, srv, past>>
RenameLands(r) ==
  /\ LET over == [net EXCEPT !.renames = @ \ {r}] IN
     \/ /\ r.test \in srv.tests /\ srv' = [srv EXCEPT !.labels[r.test] = r.label] /\ net' = over
        /\ ui' = [ui EXCEPT !.labels[r.test] = r.label]
        /\ past' = [past EXCEPT !.crossed = @ \/ net.list.served]
     \/ /\ r.test \notin srv.tests \/ Fault
        /\ net' = over /\ UNCHANGED <<ui, srv>> /\ past' = IF r.test \in srv.tests THEN Spent ELSE past
DoDelete(t) ==
  /\ t \in ui.tests /\ t \notin net.deletes
  /\ net' = [net EXCEPT !.deletes = @ \cup {t}] /\ UNCHANGED <<ui, srv, past>>
\* The comparison of a dialog that is open, with the tests it is now about.
Compared(n, u) == IF u.open /\ u.compare # {} THEN [n EXCEPT !.compares = @ \cup {u.compare}] ELSE n
Overlaps(n, u) == u.open /\ n.compares # {}
OnDeleted(u, t) == [u EXCEPT !.tests = @ \ {t}, !.compare = @ \ {t}]
DeleteLands(t) ==
  /\ t \in net.deletes
  /\ LET over == [net EXCEPT !.deletes = @ \ {t}]
         after == OnDeleted(ui, t)
         rereads == ui.open /\ after.compare # ui.compare /\ after.compare # {} IN
     \/ /\ srv' = [srv EXCEPT !.tests = @ \ {t}]
        /\ ui' = [after EXCEPT !.loading = @ \/ rereads]
        /\ net' = IF rereads THEN Compared(over, after) ELSE over
        /\ past' = [past EXCEPT !.gone = @ \cup {t}, !.crossed = @ \/ net.list.served,
                                !.overlap = @ \/ (rereads /\ net.compares # {})]
     \/ Fault /\ net' = over /\ UNCHANGED <<ui, srv>> /\ past' = Spent
ToggleCompare(t) ==
  /\ ~ui.open /\ t \in ui.tests
  /\ ui' = [ui EXCEPT !.compare = IF t \in @ THEN @ \ {t} ELSE @ \cup {t}] /\ UNCHANGED <<net, srv, past>>
\* CompareDialog
OpenCompare ==
  /\ ~ui.open /\ Cardinality(ui.compare) > 1 /\ past.opens < MaxOpens
  /\ LET after == [ui EXCEPT !.open = TRUE, !.loading = TRUE] IN ui' = after /\ net' = Compared(net, after)
  /\ past' = [past EXCEPT !.opens = @ + 1, !.overlap = @ \/ net.compares # {}] /\ srv' = srv
CloseCompare == ui.open /\ ui' = [ui EXCEPT !.open = FALSE] /\ UNCHANGED <<net, srv, past>>
CompareLands(S) ==
  /\ net' = [net EXCEPT !.compares = @ \ {S}] /\ srv' = srv
  /\ \/ S \subseteq srv.tests /\ ui' = [ui EXCEPT !.details = S, !.loading = FALSE] /\ past' = past
     \/ /\ ~(S \subseteq srv.tests) \/ Fault
        /\ ui' = [ui EXCEPT !.loading = FALSE]
        /\ past' = IF S \subseteq srv.tests THEN Spent ELSE past

Next ==
  \/ Reload \/ ListServed \/ ListLands \/ OpenCompare \/ CloseCompare
  \/ \E t \in Tests : \/ DoDelete(t) \/ DeleteLands(t) \/ ToggleCompare(t)
                      \/ \E label \in BOOLEAN : SaveLabel(t, label)
  \/ \E r \in net.renames : RenameLands(r)
  \/ \E S \in net.compares : CompareLands(S)
Spec == Init /\ [][Next]_vars
-----------------------------------------------------------------------------
\* A test whose deletion was answered is neither listed nor ticked, and a label is the one saved, unless a
\* list read before the answer landed after it.
ListAgrees ==
  ~past.crossed => /\ past.gone \cap (ui.tests \cup ui.compare) = {}
                   /\ \A t \in ui.tests : ui.labels[t] = srv.labels[t]

\* A dialog that has done loading compares all the tests ticked, unless one of them is gone, a read failed,
\* or two reads of it overlapped: then the earlier may land last.
ComparesAll ==
  ui.open /\ ~ui.loading /\ ~past.overlap /\ past.faults = 0 /\ ui.compare \subseteq srv.tests => ui.compare \subseteq ui.details
=============================================================================

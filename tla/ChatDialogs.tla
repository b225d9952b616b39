---------------------------- MODULE ChatDialogs ----------------------------
(***************************************************************************)
(* The dialogs over the chat page: those of the thread's menu (its share   *)
(* key, participants, blocked senders) and the modal that shows            *)
(* how one message was received.  Their loads carry no sequence number,    *)
(* and the thread under an open dialog can still change, by the browser's  *)
(* back button.                                                            *)
(***************************************************************************)
EXTENDS Integers, FiniteSets

CONSTANTS Threads,
          Lists,      \* the menu's dialogs that load a list of people
          MaxLoads, MaxFaults   \* bounds: loads in flight, requests that fail

VARIABLES
  ui,    \* thread, dialog, what it was opened about; for each kind whose data it holds, and
         \* loading; the thread on whose list it is acting
  net,   \* loads and acts on their way
  past   \* faults, and the kinds whose answers may be another's

vars == <<ui, net, past>>

None == "none"
Share == "share"
Modal == "message"
Menu == Lists \cup {Share}
Kinds == Menu \cup {Modal}
Load == [kind : Kinds, of : Threads]

TypeOK ==
  /\ {ui.thread, ui.about, ui.acting} \subseteq Threads \cup {None} /\ ui.dialog \in Kinds \cup {None}
  /\ ui.held \in [Kinds -> Threads \cup {None}] /\ ui.loading \in [Kinds -> BOOLEAN]
  /\ net.loads \subseteq Load /\ net.acts \subseteq Threads \X Threads
  /\ past.faults \in 0..MaxFaults /\ past.mixed \subseteq Kinds

Init ==
  /\ ui = [thread |-> None, dialog |-> None, about |-> None, held |-> [k \in Kinds |-> None],
           loading |-> [k \in Kinds |-> FALSE], acting |-> None]
  /\ net = [loads |-> {}, acts |-> {}]
  /\ past = [faults |-> 0, mixed |-> {}]

Closed(u) == [u EXCEPT !.dialog = None, !.held[Share] = None]
-----------------------------------------------------------------------------
\* The effect of dialog k on the thread or message it is about: load.  The modal forgets what it
\* held first, the lists hide theirs while they load, the share dialog forgets when it closes.
Overlaps(u, k) == (\E q \in net.loads : q.kind = k) \/ (k = Share /\ u.held[k] # None)
Begin(u, k, t) ==
  /\ Cardinality(net.loads) < MaxLoads
  /\ ui' = [u EXCEPT !.about = t, !.held[k] = IF k = Modal THEN None ELSE @, !.loading[k] = TRUE]
  /\ net' = [net EXCEPT !.loads = @ \cup {[kind |-> k, of |-> t]}]
  /\ past' = [past EXCEPT !.mixed = IF Overlaps(u, k) THEN @ \cup {k} ELSE @ \ {k}]

OpenDialog(k) ==
  /\ ui.dialog = None /\ ui.thread # None
  /\ Begin([ui EXCEPT !.dialog = k], k, ui.thread)
CloseDialog == ui.dialog # None /\ ui' = Closed(ui) /\ UNCHANGED <<net, past>>
\* The thread changes: under an open dialog of the menu, which loads again, or not.  The modal stays
\* on its message; with no thread there is no menu.
OpenThread(t) ==
  /\ t # ui.thread
  /\ LET u == [ui EXCEPT !.thread = t] IN
     \/ t # None /\ ui.dialog \in Menu /\ Begin(u, ui.dialog, t)
     \/ (t # None => ui.dialog \notin Menu) /\ UNCHANGED <<net, past>>
        /\ ui' = IF t = None /\ ui.dialog # Modal THEN Closed(u) ELSE u

LoadLands(q) ==
  /\ net' = [net EXCEPT !.loads = @ \ {q}]
  /\ ui' = [ui EXCEPT !.held[q.kind] = q.of, !.loading[q.kind] = FALSE] /\ UNCHANGED past
\* A list that fails to load leaves the last one standing.
LoadFails(q) ==
  /\ past.faults < MaxFaults /\ net' = [net EXCEPT !.loads = @ \ {q}]
  /\ ui' = [ui EXCEPT !.loading[q.kind] = FALSE]
  /\ past' = [past EXCEPT !.faults = @ + 1, !.mixed = IF q.kind = Modal THEN @ ELSE @ \cup {q.kind}]

\* What the reader sees of dialog k, and blocking or unblocking a person of it in the open thread.
Visible(k) == ui.dialog = k /\ ui.held[k] # None /\ (k = Share \/ ~ui.loading[k])
Act(k) ==
  /\ k \in Lists /\ Visible(k) /\ ui.acting # ui.held[k]
  /\ ui' = [ui EXCEPT !.acting = ui.held[k]] /\ net' = [net EXCEPT !.acts = @ \cup {<<ui.thread, ui.held[k]>>}]
  /\ UNCHANGED past
ActLands(a) ==
  /\ net' = [net EXCEPT !.acts = @ \ {a}] /\ ui' = [ui EXCEPT !.acting = None]
  /\ UNCHANGED past

Next ==
  \/ \E k \in Kinds : OpenDialog(k) \/ Act(k)
  \/ \E t \in Threads \cup {None} : OpenThread(t)
  \/ \E q \in net.loads : LoadLands(q) \/ LoadFails(q)
  \/ \E a \in net.acts : ActLands(a)
  \/ CloseDialog
Spec == Init /\ [][Next]_vars
-----------------------------------------------------------------------------
\* What a dialog shows is of the thread or the message it was opened about, and of the thread on
\* screen for the menu's, unless loads of that dialog overlapped or one failed over an older answer.
ShowsOwn ==
  \A k \in Kinds \ past.mixed : Visible(k) =>
    ui.held[k] = ui.about /\ (k # Modal => ui.about = ui.thread)
=============================================================================

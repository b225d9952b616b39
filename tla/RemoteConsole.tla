--------------------------- MODULE RemoteConsole ---------------------------
(***************************************************************************)
(* The parts of a remote node's page that send one console command per     *)
(* click: the terminal with its transcript, recall and completion, the     *)
(* section of actions with its confirmed reboot, and the one that renames  *)
(* the node.  A behaviour follows one of them.  Texts are numbers: each is *)
(* a prefix of the later ones, and 0 is empty.                             *)
(***************************************************************************)
EXTENDS Integers, Sequences

CONSTANTS MaxText,     \* texts, 1..MaxText
          MaxHistory,  \* bound: entries of the transcript
          MaxFaults    \* bound: commands that fail

VARIABLES
  ui,    \* kind; of the terminal: history, input, busy, at (hIdx + 1), open and pick of its
         \* suggestions; of the actions: label (busy) and confirm; of the name: shown and draft
  net,   \* commands under way: a text, or one of the actions
  srv,   \* the node's name
  past   \* faults; cleared while busy; typed since the last recall; reboots asked, the page's reloads

vars == <<ui, net, srv, past>>

Kinds == {"terminal", "actions", "name"}
Labels == {"Advert", "Zerohop", "Clock", "Reboot"}
Texts == 1..MaxText
Empty == 0
None == "none"
Entry == [kind : {"input", "output", "error"}, text : Texts]

TypeOK ==
  /\ ui.kind \in Kinds /\ ui.history \in Seq(Entry) /\ Len(ui.history) <= MaxHistory
  /\ ui.input \in Texts \cup {Empty} /\ ui.at \in 0..MaxHistory /\ ui.pick \in 1..MaxText
  /\ ui.label \in Labels \cup {None} /\ ui.shown \in Texts /\ ui.draft \in Texts \cup {Empty}
  /\ {ui.busy, ui.open, ui.confirm, past.cleared, past.typed} \subseteq BOOLEAN
  /\ net \subseteq [text : Texts, label : Labels \cup {None}]
  /\ srv \in Texts /\ past.faults \in 0..MaxFaults /\ past.reloads \in 0..1 /\ past.doubt \in BOOLEAN

Fresh(k, name) ==
  [kind |-> k, history |-> <<>>, input |-> Empty, busy |-> FALSE, at |-> 0, open |-> FALSE, pick |-> 1,
   label |-> None, confirm |-> FALSE, shown |-> name, draft |-> name]
Init ==
  /\ \E k \in Kinds : ui = Fresh(k, 1)
  /\ net = {} /\ srv = 1
  /\ past = [faults |-> 0, cleared |-> FALSE, typed |-> FALSE, reloads |-> 0, doubt |-> FALSE]

Terminal == ui.kind = "terminal"
Inputs == SelectSeq(ui.history, LAMBDA e : e.kind = "input")
\* buildSuggestions: what the text in the box is the start of.
Suggestions == IF ui.open /\ ui.input # Empty THEN [i \in 1..(MaxText - ui.input + 1) |-> ui.input + i - 1] ELSE <<>>
MenuOpen == Suggestions # <<>>
\* The box changes: the effect on it picks the first suggestion again.
Put(u, t) == [u EXCEPT !.input = t, !.pick = 1]
Sends(t, l) == net' = net \cup {[text |-> t, label |-> l]}
-----------------------------------------------------------------------------
Type(t) ==
  /\ Terminal /\ ~ui.busy /\ t # ui.input
  /\ ui' = [Put(ui, t) EXCEPT !.open = TRUE] /\ past' = [past EXCEPT !.typed = TRUE]
  /\ UNCHANGED <<net, srv>>
\* A blur closes the suggestions a moment later, Escape at once; a focus opens them.
ToggleMenu == Terminal /\ ui' = [ui EXCEPT !.open = ~@] /\ UNCHANGED <<net, srv, past>>
Apply(i) ==
  /\ Terminal /\ MenuOpen /\ i \in DOMAIN Suggestions
  /\ ui' = [Put(ui, Suggestions[i]) EXCEPT !.open = FALSE, !.pick = IF Suggestions[i] = ui.input THEN ui.pick ELSE 1]
  /\ past' = [past EXCEPT !.typed = TRUE] /\ UNCHANGED <<net, srv>>
Tab ==
  \/ MenuOpen /\ Apply(IF ui.pick \in DOMAIN Suggestions THEN ui.pick ELSE 1)
  \/ Terminal /\ ~MenuOpen /\ ui' = [ui EXCEPT !.open = TRUE] /\ UNCHANGED <<net, srv, past>>
\* The arrows walk the suggestions while they show, else the commands sent before.
Recalled(at) == Put(ui, IF at = 0 THEN Empty ELSE IF at <= Len(Inputs) THEN Inputs[at].text ELSE Empty)
Up ==
  /\ Terminal /\ ~ui.busy /\ UNCHANGED <<net, srv>>
  /\ \/ MenuOpen /\ ui' = [ui EXCEPT !.pick = IF @ = 1 THEN Len(Suggestions) ELSE @ - 1] /\ past' = past
     \/ /\ ~MenuOpen /\ Inputs # <<>>
        /\ LET next == IF ui.at = 0 THEN Len(Inputs) ELSE IF ui.at = 1 THEN 1 ELSE ui.at - 1 IN
           ui' = [Recalled(next) EXCEPT !.at = next]
        /\ past' = [past EXCEPT !.typed = FALSE]
Down ==
  /\ Terminal /\ ~ui.busy /\ UNCHANGED <<net, srv>>
  /\ \/ MenuOpen /\ ui' = [ui EXCEPT !.pick = IF @ >= Len(Suggestions) THEN 1 ELSE @ + 1] /\ past' = past
     \/ /\ ~MenuOpen /\ Inputs # <<>> /\ ui.at # 0
        /\ LET next == IF ui.at >= Len(Inputs) THEN 0 ELSE ui.at + 1 IN
           ui' = [Recalled(next) EXCEPT !.at = next]
        /\ past' = [past EXCEPT !.typed = FALSE]
\* submit, by Enter or the button.
CanSubmit == ui.input # Empty /\ ~ui.busy
Submit ==
  /\ Terminal /\ CanSubmit /\ Len(ui.history) + 2 <= MaxHistory
  /\ ui' = [Put(ui, Empty) EXCEPT !.busy = TRUE, !.at = 0, !.open = FALSE,
                                  !.history = Append(@, [kind |-> "input", text |-> ui.input])]
  /\ Sends(ui.input, None) /\ UNCHANGED <<srv, past>>
Clear ==
  /\ Terminal /\ ui.history # <<>> /\ ui' = [ui EXCEPT !.history = <<>>]
  /\ past' = [past EXCEPT !.cleared = @ \/ ui.busy \/ ui.at # 0] /\ UNCHANGED <<net, srv>>

\* The actions: any but the one named by busy may be clicked; a reboot asks for a second click, and
\* takes the page with it, answered or not.
ClickAction(l) ==
  /\ ui.kind = "actions" /\ l # "Reboot" /\ ui.label # l
  /\ ui' = [ui EXCEPT !.label = l] /\ Sends(1, l) /\ UNCHANGED <<srv, past>>
AskReboot == ui.kind = "actions" /\ ui' = [ui EXCEPT !.confirm = ~@] /\ UNCHANGED <<net, srv, past>>
ConfirmReboot ==
  /\ ui.kind = "actions" /\ ui.confirm /\ ui' = [ui EXCEPT !.label = "Reboot"] /\ Sends(1, "Reboot")
  /\ UNCHANGED <<srv, past>>
\* The name: saved, the section is mounted anew with it.
Draft(t) == ui.kind = "name" /\ t # ui.draft /\ ui' = [ui EXCEPT !.draft = t] /\ UNCHANGED <<net, srv, past>>
SaveName ==
  /\ ui.kind = "name" /\ ~ui.busy /\ ui.draft \notin {ui.shown, Empty}
  /\ ui' = [ui EXCEPT !.busy = TRUE] /\ Sends(ui.draft, None) /\ UNCHANGED <<srv, past>>

\* A command ends.
Ends(u, c, ok) ==
  CASE u.kind = "terminal" -> [u EXCEPT !.busy = FALSE,
                                 !.history = Append(@, [kind |-> IF ok THEN "output" ELSE "error", text |-> c.text])]
    [] u.kind = "actions" -> [u EXCEPT !.label = None, !.confirm = IF c.label = "Reboot" THEN FALSE ELSE @]
    [] u.kind = "name" -> IF ok THEN Fresh(u.kind, c.text) ELSE [u EXCEPT !.busy = FALSE]
Finished(c) ==
  /\ past.reloads = 0 /\ net' = net \ {c}
  /\ \E ok \in BOOLEAN, reached \in BOOLEAN :
       /\ ok => reached
       /\ ~ok => past.faults < MaxFaults
       /\ ui' = Ends(ui, c, ok)
       /\ srv' = IF ui.kind = "name" /\ reached THEN c.text ELSE srv
       /\ past' = [past EXCEPT !.faults = IF ok THEN @ ELSE @ + 1, !.reloads = IF c.label = "Reboot" THEN 1 ELSE @,
                               !.doubt = IF ok THEN FALSE ELSE @ \/ reached]

Next ==
  \/ \E t \in Texts \cup {Empty} : Type(t) \/ Draft(t)
  \/ \E i \in Texts : Apply(i)
  \/ ToggleMenu \/ Tab \/ Up \/ Down \/ Submit \/ Clear \/ AskReboot \/ ConfirmReboot \/ SaveName
  \/ \E l \in Labels : ClickAction(l)
  \/ \E c \in net : Finished(c)
Spec == Init /\ [][Next]_vars
-----------------------------------------------------------------------------
\* The transcript reads as command and outcome in turn, the last command still without one exactly
\* while the terminal is busy; unless it was cleared under way.
TranscriptPaired ==
  Terminal /\ ~past.cleared =>
    /\ \A i \in DOMAIN ui.history :
         IF i % 2 = 1 THEN ui.history[i].kind = "input"
         ELSE ui.history[i].kind # "input" /\ ui.history[i].text = ui.history[i - 1].text
    /\ Len(ui.history) % 2 = (IF ui.busy THEN 1 ELSE 0)

\* What the arrows recall is the command they stand at, in the order sent.
RecallMatches ==
  Terminal /\ ui.at # 0 /\ ~past.typed /\ ~past.cleared => ui.at <= Len(Inputs) /\ ui.input = Inputs[ui.at].text

\* The name the page shows is the node's, unless a rename failed after reaching it.
NameAgrees == ui.kind = "name" /\ net = {} /\ ~past.doubt => ui.shown = srv
=============================================================================

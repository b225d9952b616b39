------------------------------ MODULE BotTest ------------------------------
(***************************************************************************)
(* BotTestPanel: the items of a feed are fetched for the address in the    *)
(* form, and the item picked is rendered again, after a pause, whenever    *)
(* the form changes; several renderings may be on their way.               *)
(***************************************************************************)
EXTENDS Integers, FiniteSets

CONSTANTS Urls, Items,
          MaxEdits,   \* bound: changes of the template, the patterns and the rest of the form
          MaxAnswers, \* bound: renderings on their way
          MaxFaults   \* bound: requests that fail

VARIABLES
  ui,    \* url, text (the rest of the form, as a number of its versions), complete; fetchedFor, selected, fetching;
         \* rendering, shown (the inputs whose rendering or failure is shown)
  net,   \* timer (the inputs to be rendered after the pause), seq, fetch (the address asked for), renders
  past   \* edits and faults

vars == <<ui, net, past>>

None == "none"
Inputs == [url : Urls, text : 0..MaxEdits, item : Items]
NoInputs == [url |-> None]

TypeOK ==
  /\ ui.url \in Urls /\ ui.text \in 0..MaxEdits /\ {ui.complete, ui.rendering} \subseteq BOOLEAN
  /\ ui.fetchedFor \in Urls \cup {None} /\ ui.selected \in Items \cup {None}
  /\ ui.shown \in Inputs \cup {NoInputs} /\ net.timer \in Inputs \cup {NoInputs}
  /\ net.fetch \in Urls \cup {None} /\ net.renders \subseteq [of : Inputs, latest : BOOLEAN]
  /\ past.faults \in 0..MaxFaults

Init ==
  /\ \E u \in Urls : ui = [url |-> u, text |-> 0, complete |-> TRUE, fetchedFor |-> None, selected |-> None,
                           rendering |-> FALSE, shown |-> NoInputs]
  /\ net = [timer |-> NoInputs, fetch |-> None, renders |-> {}] /\ past = [faults |-> 0]
Fault == past.faults < MaxFaults
Spent == [past EXCEPT !.faults = @ + 1]
-----------------------------------------------------------------------------
Current(u) == u.fetchedFor = u.url
Now(u) == [url |-> u.url, text |-> u.text, item |-> u.selected]
\* The bug of an answer that counts although a later one was asked for.
NoneSuperseded(n) == n
Superseded(n) == [n EXCEPT !.renders = {[r EXCEPT !.latest = FALSE] : r \in @}]
\* The effect that renders, after a change of what it depends on: the pause starts again, and unless there is
\* nothing to render an answer under way no longer counts.
Rerender(u, n) ==
  LET m == [n EXCEPT !.timer = NoInputs] IN
  IF ~Current(u) \/ u.selected = None THEN ui' = u /\ net' = m
  ELSE IF ~u.complete THEN ui' = [u EXCEPT !.shown = NoInputs, !.rendering = FALSE] /\ net' = Superseded(m)
  ELSE ui' = [u EXCEPT !.rendering = TRUE] /\ net' = [Superseded(m) EXCEPT !.timer = Now(u)]

EditUrl(url) == url # ui.url /\ Rerender([ui EXCEPT !.url = url], net) /\ past' = past
EditText == ui.text < MaxEdits /\ Rerender([ui EXCEPT !.text = @ + 1], net) /\ past' = past
EditPlace == Rerender([ui EXCEPT !.complete = ~@], net) /\ past' = past
SelectItem(i) ==
  /\ Current(ui) /\ ui.selected # None /\ i # ui.selected
  /\ Rerender([ui EXCEPT !.selected = i], net) /\ past' = past

FetchItems ==
  /\ net.fetch = None /\ ui.complete /\ net' = [net EXCEPT !.fetch = ui.url] /\ UNCHANGED <<ui, past>>
FetchLands ==
  /\ net.fetch # None
  /\ LET over == [net EXCEPT !.fetch = None]
         \* the effect runs only when what it depends on changes
         Took(u) == IF Current(u) = Current(ui) /\ u.selected = ui.selected THEN ui' = u /\ net' = over ELSE Rerender(u, over) IN
     \/ \E i \in Items \cup {None} : Took([ui EXCEPT !.fetchedFor = net.fetch, !.selected = i]) /\ past' = past
     \/ Fault /\ Took([ui EXCEPT !.fetchedFor = None]) /\ past' = Spent

Pause ==
  /\ net.timer # NoInputs /\ Cardinality(net.renders) < MaxAnswers
  /\ net' = [net EXCEPT !.timer = NoInputs, !.renders = @ \cup {[of |-> net.timer, latest |-> TRUE]}]
  /\ UNCHANGED <<ui, past>>
\* An answer, or its failure, counts only when it is the latest asked for.
RenderLands(r) ==
  /\ net' = [net EXCEPT !.renders = @ \ {r}] /\ past' = past
  /\ ui' = IF r.latest THEN [ui EXCEPT !.shown = r.of, !.rendering = FALSE] ELSE ui

Next ==
  \/ EditText \/ EditPlace \/ FetchItems \/ FetchLands \/ Pause
  \/ \E u \in Urls : EditUrl(u)
  \/ \E i \in Items : SelectItem(i)
  \/ \E r \in net.renders : RenderLands(r)
Spec == Init /\ [][Next]_vars
-----------------------------------------------------------------------------
\* "Only the latest answer is shown": what a panel that has done rendering shows was rendered from the form
\* and the item as they are, however the answers were ordered.
ShowsLatest ==
  Current(ui) /\ ui.selected # None /\ ~ui.rendering => ui.shown = IF ui.complete THEN Now(ui) ELSE NoInputs
=============================================================================

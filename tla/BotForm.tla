------------------------------ MODULE BotForm ------------------------------
(***************************************************************************)
(* BotsPage: the list of triggers, and the editor that turns one into      *)
(* fields and the fields back into a trigger, as the companion and the     *)
(* type of the bot change under what is already filled in.                 *)
(***************************************************************************)
EXTENDS Integers, FiniteSets

CONSTANTS Companions, Channels,  \* channel names: each companion has each of them, as a row of its own
          MaxSaves,   \* bound: triggers saved
          MaxFaults   \* bound: requests that fail

VARIABLES
  ui,    \* list (the trigger as last read), form (the editor, or Closed), saving
  net,   \* read (the read of the list), save (a trigger on its way, or NoTrigger), remove
  srv,   \* the trigger stored, or NoTrigger
  past   \* saves, faults, and the trigger the editor was opened on with whether it was edited since

vars == <<ui, net, srv, past>>

None == "none"
Types == {"group", "dm", "cron", "rss", "cap"}
IsFeedType(t) == t \in {"rss", "cap"}
AnswersAMessage(t) == t \in {"group", "dm"}
Patterns == {"chat", "field"}   \* a pattern for a message, and one that names a field of a feed's item
Wheres == {"anywhere", "chosen"}   \* chosen: near a place, or by regions
Trigger == [companion : Companions, type : Types, rows : SUBSET (Companions \X Channels), match : SUBSET Patterns,
            contacts : BOOLEAN, where : Wheres, failover : BOOLEAN, hash : {"default", "mirror"}]
NoTrigger == [type |-> None]
Form == [companion : Companions, type : Types, selected : SUBSET Channels, match : SUBSET Patterns, contacts : BOOLEAN,
         where : Wheres, failover : BOOLEAN, hash : {"default", "mirror"}]
Closed == [type |-> None]

TypeOK ==
  /\ ui.list \in Trigger \cup {NoTrigger} /\ ui.form \in Form \cup {Closed} /\ ui.saving \in BOOLEAN
  /\ {net.read, net.remove} \subseteq BOOLEAN /\ net.save \in Trigger \cup {NoTrigger}
  /\ srv \in Trigger \cup {NoTrigger}
  /\ past.saves \in 0..MaxSaves /\ past.faults \in 0..MaxFaults /\ past.edited \in BOOLEAN
  /\ past.of \in Trigger \cup {NoTrigger}

Init ==
  /\ ui = [list |-> NoTrigger, form |-> Closed, saving |-> FALSE]
  /\ net = [read |-> FALSE, save |-> NoTrigger, remove |-> FALSE]
  /\ srv = NoTrigger /\ past = [saves |-> 0, faults |-> 0, edited |-> FALSE, of |-> NoTrigger]
Fault == past.faults < MaxFaults
Spent == [past EXCEPT !.faults = @ + 1]
-----------------------------------------------------------------------------
\* useApiList: what it reads does not change before the next write, after which it is read again.
Reload(n) == [n EXCEPT !.read = TRUE]
ReadLands ==
  /\ net.read /\ net' = [net EXCEPT !.read = FALSE] /\ srv' = srv
  /\ \/ ui' = [ui EXCEPT !.list = srv] /\ past' = past
     \/ Fault /\ ui' = ui /\ past' = Spent

\* The fields of an editor: of a new bot, of a stored one.
FirstCompanion == CHOOSE c \in Companions : TRUE
Blank == [companion |-> FirstCompanion, type |-> "group", selected |-> {}, match |-> {}, contacts |-> FALSE,
          where |-> "anywhere", failover |-> FALSE, hash |-> "default"]
Opened(t) ==
  IF t = NoTrigger THEN Blank
  ELSE [companion |-> t.companion, type |-> t.type, selected |-> {r[2] : r \in t.rows}, match |-> t.match,
        contacts |-> t.contacts, where |-> t.where, failover |-> t.failover, hash |-> t.hash]
\* submit: what the fields say, as far as the type of the bot has a use for it.
Payload(f) ==
  [companion |-> f.companion, type |-> f.type, rows |-> {f.companion} \X f.selected,
   match |-> IF f.type = "cron" THEN {} ELSE f.match,
   contacts |-> (f.type = "dm" \/ IsFeedType(f.type)) /\ f.contacts,
   where |-> IF f.type = "cap" THEN f.where ELSE "anywhere",
   failover |-> f.type = "group" /\ f.failover, hash |-> f.hash]
Valid(f) == f.type = "dm" \/ f.selected # {} \/ (IsFeedType(f.type) /\ f.contacts)

OpenEditor(t) ==
  /\ ui.form = Closed /\ ui' = [ui EXCEPT !.form = Opened(t)]
  /\ past' = [past EXCEPT !.edited = FALSE, !.of = t] /\ UNCHANGED <<net, srv>>
\* A dialog closed while it saves is gone; the save goes on, and closes the dialog that is then open.
Close == ui.form # Closed /\ ui' = [ui EXCEPT !.form = Closed, !.saving = FALSE] /\ UNCHANGED <<net, srv, past>>

Edited(f) == ui' = [ui EXCEPT !.form = f] /\ past' = [past EXCEPT !.edited = TRUE] /\ UNCHANGED <<net, srv>>
ChangedCompanion(f, c) == [f EXCEPT !.companion = c, !.selected = {}]
ChangedType(f, t) ==
  [f EXCEPT !.type = t, !.match = IF IsFeedType(t) # IsFeedType(f.type) THEN {} ELSE @,
            !.hash = IF ~AnswersAMessage(t) /\ @ = "mirror" THEN "default" ELSE @]
AddPattern(f) == [f EXCEPT !.match = @ \cup {IF IsFeedType(f.type) THEN "field" ELSE "chat"}]
Edit ==
  /\ ui.form # Closed /\ ~ui.saving
  /\ LET f == ui.form IN
     \/ \E c \in Companions \ {f.companion} : Edited(ChangedCompanion(f, c))
     \/ \E t \in Types \ {f.type} : Edited(ChangedType(f, t))
     \/ f.type # "dm" /\ \E n \in Channels \ f.selected : Edited([f EXCEPT !.selected = @ \cup {n}])
     \/ f.type # "cron" /\ Edited(AddPattern(f))
     \/ (f.type = "dm" \/ IsFeedType(f.type)) /\ Edited([f EXCEPT !.contacts = TRUE])
     \/ f.type = "cap" /\ \E w \in Wheres : Edited([f EXCEPT !.where = w])
     \/ f.type = "group" /\ Edited([f EXCEPT !.failover = ~@])
     \/ AnswersAMessage(f.type) /\ Edited([f EXCEPT !.hash = "mirror"])

Submit ==
  /\ ui.form # Closed /\ ~ui.saving /\ net.save = NoTrigger /\ Valid(ui.form) /\ past.saves < MaxSaves
  /\ ui' = [ui EXCEPT !.saving = TRUE] /\ net' = [net EXCEPT !.save = Payload(ui.form)]
  /\ past' = [past EXCEPT !.saves = @ + 1] /\ srv' = srv
SaveLands ==
  /\ net.save # NoTrigger
  /\ LET over == [net EXCEPT !.save = NoTrigger] IN
     \/ /\ srv' = net.save /\ net' = Reload(over) /\ past' = past
        /\ ui' = [ui EXCEPT !.form = Closed, !.saving = FALSE]
     \/ Fault /\ net' = over /\ ui' = [ui EXCEPT !.saving = FALSE] /\ past' = Spent /\ srv' = srv
RemoveBot ==
  /\ ui.list # NoTrigger /\ ui.form = Closed /\ ~net.remove /\ net.save = NoTrigger
  /\ net' = [net EXCEPT !.remove = TRUE] /\ UNCHANGED <<ui, srv, past>>
RemoveLands ==
  /\ net.remove
  /\ LET over == [net EXCEPT !.remove = FALSE] IN
     \/ srv' = NoTrigger /\ net' = Reload(over) /\ UNCHANGED <<ui, past>>
     \/ Fault /\ net' = over /\ past' = Spent /\ UNCHANGED <<ui, srv>>

Next ==
  \/ ReadLands \/ OpenEditor(ui.list) \/ Close \/ Edit \/ Submit \/ SaveLands \/ RemoveBot \/ RemoveLands
Spec == Init /\ [][Next]_vars
-----------------------------------------------------------------------------
\* A stored bot has only what its type can use: its companion's channels, patterns that name fields only
\* for a feed, and a mirrored hash size only where it answers a message.
BotFits ==
  srv # NoTrigger =>
    /\ \A r \in srv.rows : r[1] = srv.companion
    /\ srv.match \subseteq {IF IsFeedType(srv.type) THEN "field" ELSE "chat"}
    /\ srv.hash = "mirror" => AnswersAMessage(srv.type)

\* A bot opened and saved untouched is stored as it was, whatever types it went through before.
SavedUntouched == ui.form # Closed /\ past.of # NoTrigger /\ ~past.edited => Payload(ui.form) = past.of
=============================================================================

-------------------------------- MODULE Setup --------------------------------
(***************************************************************************)
(* The first run: the console gates every page behind a wizard while the   *)
(* node has neither been set up nor given a companion.  The wizard ends in *)
(* two saves, the companion and then the settings that close the gate, or  *)
(* in a backup that replaces what the node holds, at once when the file is *)
(* a configuration, at the next start when it is a database.               *)
(***************************************************************************)
EXTENDS Integers

CONSTANTS Names,      \* the names the reader may give the first companion
          MaxEdits,   \* bound: edits
          MaxOpens,   \* bound: times the console is opened
          MaxElse,    \* bound: times another page sets the node up
          MaxFaults   \* bound: requests that fail

VARIABLES
  ui,    \* what the console holds (settings, companions) and the wizard: step, backend, board, rf, name, skip, busy,
         \* and of its restore step: file, restoring, result
  net,   \* the two loads, the finish and the restore, each at "none", "asked" or answered
  srv,   \* setup (complete), companions, radio (whose settings it runs), staged (a database waits for a restart)
  past   \* opens, edits, elsewhere, faults; held (the node was configured when the console opened), left (the restore
         \* step was left with a restore under way or waiting for the restart), unread (a reload failed), wanted (the
         \* companion that finish asked for)

vars == <<ui, net, srv, past>>
Backends == {"serial", "spi"}
Steps == {"welcome", "restore", "radio", "companion", "review"}
NotRead == "unread"
Fresh == [step |-> "welcome", backend |-> "serial", board |-> FALSE, rf |-> TRUE, name |-> "", skip |-> FALSE, busy |-> FALSE,
          file |-> "none", restoring |-> FALSE, result |-> "none"]
NoFinish == [at |-> "none", name |-> ""]
NoRestore == [at |-> "none", file |-> "none"]

TypeOK ==
  /\ ui.settings \in {NotRead, "new", "complete"} /\ ui.companions \in {NotRead, "none", "some"}
  /\ ui.w \in [step : Steps, backend : Backends, board : BOOLEAN, rf : BOOLEAN, name : Names \cup {""}, skip : BOOLEAN,
               busy : BOOLEAN, file : {"none", "config", "database"}, restoring : BOOLEAN,
               result : {"none", "config", "database"}]
  /\ {net.settings, net.companions} \subseteq {"none", "asked", "new", "complete", "some", "empty", "failed"}
  /\ net.finish \in [at : {"none", "companion", "settings", "created", "done", "failed"}, name : Names \cup {""}]
  /\ net.restore \in [at : {"none", "asked", "done", "failed"}, file : {"none", "config", "database"}]
  /\ srv.radio \in {"default", "wizard", "elsewhere", "backup"} /\ {srv.setup, srv.staged} \subseteq BOOLEAN
  /\ {past.held, past.left, past.unread} \subseteq BOOLEAN /\ past.wanted \in Names \cup {""}
  /\ past.opens \in 1..MaxOpens /\ past.edits \in 0..MaxEdits /\ past.elsewhere \in 0..MaxElse /\ past.faults \in 0..MaxFaults

Opened == [settings |-> NotRead, companions |-> NotRead, w |-> Fresh]
Loading == [settings |-> "asked", companions |-> "asked", finish |-> NoFinish, restore |-> NoRestore]
Configured(s) == s.setup \/ s.companions # {}
Init ==
  /\ ui = Opened /\ net = Loading
  /\ \E setup \in BOOLEAN, cs \in {{}, {"first"}} : srv = [setup |-> setup, companions |-> cs, radio |-> "default", staged |-> FALSE]
  /\ past = [opens |-> 1, edits |-> 0, elsewhere |-> 0, faults |-> 0, held |-> Configured(srv), left |-> FALSE, unread |-> FALSE,
             wanted |-> ""]
Fault == past.faults < MaxFaults
Spent == [past EXCEPT !.faults = @ + 1]
Set(w) == ui' = [ui EXCEPT !.w = w]
-----------------------------------------------------------------------------
\* The gate, once both reads have landed; the wizard goes with what it held when the gate opens.
NeedsSetup(u) == u.settings = "new" /\ u.companions = "none"
Gated(u) == IF NeedsSetup(u) THEN u ELSE [u EXCEPT !.w = Fresh]
Wizard == NeedsSetup(ui)
ServeLoads ==
  /\ UNCHANGED <<ui, srv>>
  /\ \/ net.settings = "asked" /\ past' = past /\ net' = [net EXCEPT !.settings = IF srv.setup THEN "complete" ELSE "new"]
     \/ net.companions = "asked" /\ past' = past /\ net' = [net EXCEPT !.companions = IF srv.companions = {} THEN "empty" ELSE "some"]
     \/ Fault /\ past' = [Spent EXCEPT !.unread = TRUE]
          /\ \/ net.settings = "asked" /\ net' = [net EXCEPT !.settings = "failed"]
             \/ net.companions = "asked" /\ net' = [net EXCEPT !.companions = "failed"]
SettingsLand ==
  /\ net.settings \notin {"none", "asked"} /\ net' = [net EXCEPT !.settings = "none"] /\ UNCHANGED <<srv, past>>
  /\ ui' = IF net.settings = "failed" THEN ui ELSE Gated([ui EXCEPT !.settings = net.settings])
CompanionsLand ==
  /\ net.companions \notin {"none", "asked"} /\ net' = [net EXCEPT !.companions = "none"] /\ UNCHANGED <<srv, past>>
  /\ ui' = IF net.companions = "failed" THEN ui
           ELSE Gated([ui EXCEPT !.companions = IF net.companions = "empty" THEN "none" ELSE "some"])
\* Requests the old page left behind are served, and their answers dropped.
Reopen ==
  /\ past.opens < MaxOpens /\ ui' = Opened /\ net' = Loading /\ net.finish.at \in {"none", "created", "done", "failed"}
  /\ net.restore.at # "asked" /\ srv' = srv
  /\ past' = [past EXCEPT !.opens = @ + 1, !.held = Configured(srv), !.unread = FALSE, !.left = @ \/ srv.staged]
-----------------------------------------------------------------------------
\* The steps.
RadioValid(w) == w.rf /\ (w.backend = "spi" => w.board)
Step(from, to) == Wizard /\ ui.w.step = from /\ Set([ui.w EXCEPT !.step = to])
Still == UNCHANGED <<net, srv, past>>
Begin == Step("welcome", "radio") /\ Still
ToRestore == Step("welcome", "restore") /\ Still
RadioNext == RadioValid(ui.w) /\ Step("radio", "companion") /\ Still
Skip == ~ui.w.busy /\ Wizard /\ ui.w.step = "companion" /\ Set([ui.w EXCEPT !.skip = TRUE, !.step = "review"]) /\ Still
Review == ui.w.name # "" /\ Wizard /\ ui.w.step = "companion" /\ Set([ui.w EXCEPT !.skip = FALSE, !.step = "review"]) /\ Still
\* Leaving the restore step drops its file and its answer, but not the request.
Back ==
  /\ ~ui.w.busy /\ Wizard /\ ui.w.step # "welcome" /\ UNCHANGED <<net, srv>>
  /\ past' = [past EXCEPT !.left = @ \/ net.restore.at # "none" \/ ui.w.result # "none"]
  /\ Set(CASE ui.w.step = "restore" -> [ui.w EXCEPT !.step = "welcome", !.file = "none", !.restoring = FALSE, !.result = "none"]
           [] ui.w.step = "radio" -> [ui.w EXCEPT !.step = "welcome"]
           [] ui.w.step = "companion" -> [ui.w EXCEPT !.step = "radio"]
           [] ui.w.step = "review" -> [ui.w EXCEPT !.step = "companion"])
Edit(w) ==
  /\ Wizard /\ w # ui.w /\ past.edits < MaxEdits /\ Set(w) /\ past' = [past EXCEPT !.edits = @ + 1] /\ UNCHANGED <<net, srv>>
EditRadio ==
  /\ ui.w.step = "radio"
  /\ \/ \E b \in Backends : Edit([ui.w EXCEPT !.backend = b])
     \/ Edit([ui.w EXCEPT !.rf = ~@]) \/ (ui.w.backend = "spi" /\ Edit([ui.w EXCEPT !.board = TRUE]))
EditName == ui.w.step = "companion" /\ \E n \in Names \cup {""} : Edit([ui.w EXCEPT !.name = n])

\* finish: the companion, where one is wanted, and then the settings with setupComplete.
Wanted(w) == IF w.skip THEN "" ELSE w.name
Finish ==
  /\ Wizard /\ ui.w.step = "review" /\ ~ui.w.busy /\ Set([ui.w EXCEPT !.busy = TRUE]) /\ UNCHANGED <<srv, past>>
  /\ net' = [net EXCEPT !.finish = [at |-> IF Wanted(ui.w) # "" THEN "companion" ELSE "settings", name |-> Wanted(ui.w)]]
CompanionSaved ==
  /\ net.finish.at = "created" /\ net' = [net EXCEPT !.finish.at = "settings"] /\ UNCHANGED <<ui, srv, past>>
Failed ==
  /\ net.finish.at = "failed" /\ net' = [net EXCEPT !.finish = NoFinish] /\ UNCHANGED <<srv, past>>
  /\ Set(IF Wizard THEN [ui.w EXCEPT !.busy = FALSE] ELSE ui.w)
Reloaded(n) == [n EXCEPT !.settings = "asked", !.companions = "asked"]
Finished ==
  /\ net.finish.at = "done" /\ net' = Reloaded([net EXCEPT !.finish = NoFinish]) /\ UNCHANGED <<ui, srv, past>>

\* RestoreFromBackup: it says what is left to do for a database, and tells the console of a configuration; one restore
\* under way at a time.
PickFile(f) ==
  /\ Wizard /\ ui.w.step = "restore" /\ ui.w.result = "none" /\ f # ui.w.file /\ Set([ui.w EXCEPT !.file = f]) /\ Still
Restore ==
  /\ Wizard /\ ui.w.step = "restore" /\ ui.w.result = "none" /\ ui.w.file # "none" /\ ~ui.w.restoring /\ net.restore.at = "none"
  /\ Set([ui.w EXCEPT !.restoring = TRUE]) /\ net' = [net EXCEPT !.restore = [at |-> "asked", file |-> ui.w.file]]
  /\ UNCHANGED <<srv, past>>
RestoreLands ==
  /\ net.restore.at \in {"done", "failed"} /\ UNCHANGED <<srv, past>>
  /\ LET w == IF ui.w.restoring THEN [ui.w EXCEPT !.restoring = FALSE] ELSE ui.w
         here == ui.w.restoring
         n == [net EXCEPT !.restore = NoRestore]
     IN IF net.restore.at = "failed" THEN Set(w) /\ net' = n
        ELSE /\ Set(IF here THEN [w EXCEPT !.result = net.restore.file, !.file = "none"] ELSE w)
             /\ net' = IF net.restore.file = "config" THEN Reloaded(n) ELSE n
-----------------------------------------------------------------------------
\* The daemon: saves refuse a name already taken; an import asks nothing of the node it replaces.
ServeFinish ==
  /\ ui' = ui
  /\ \/ /\ net.finish.at = "companion" /\ net.finish.name \notin srv.companions /\ past' = past
        /\ srv' = [srv EXCEPT !.companions = @ \cup {net.finish.name}] /\ net' = [net EXCEPT !.finish.at = "created"]
     \/ /\ net.finish.at = "companion" /\ net.finish.name \in srv.companions
        /\ net' = [net EXCEPT !.finish.at = "failed"] /\ UNCHANGED <<srv, past>>
     \/ /\ net.finish.at = "settings" /\ srv' = [srv EXCEPT !.setup = TRUE, !.radio = "wizard"]
        /\ net' = [net EXCEPT !.finish.at = "done"] /\ past' = [past EXCEPT !.wanted = net.finish.name]
     \/ /\ Fault /\ net.finish.at \in {"companion", "settings"} /\ past' = Spent /\ srv' = srv
        /\ net' = [net EXCEPT !.finish.at = "failed"]
Imported(s) == [s EXCEPT !.setup = TRUE, !.companions = {"backup"}, !.radio = "backup", !.staged = FALSE]
ServeRestore ==
  /\ net.restore.at = "asked" /\ ui' = ui
  /\ \/ /\ net.restore.file = "config" /\ srv' = Imported(srv) /\ net' = [net EXCEPT !.restore.at = "done"]
        /\ past' = [past EXCEPT !.wanted = ""]
     \/ /\ net.restore.file = "database" /\ srv' = [srv EXCEPT !.staged = TRUE] /\ net' = [net EXCEPT !.restore.at = "done"]
        /\ past' = past
     \/ Fault /\ past' = Spent /\ srv' = srv /\ net' = [net EXCEPT !.restore.at = "failed"]
Restart ==
  /\ srv.staged /\ srv' = Imported(srv) /\ past' = [past EXCEPT !.wanted = ""] /\ ui' = ui
  /\ net' = [net EXCEPT !.finish.at = IF @ \in {"companion", "settings"} THEN "failed" ELSE @,
                         !.restore.at = IF @ = "asked" THEN "failed" ELSE @]
SetUpElsewhere ==
  /\ ~Configured(srv) /\ past.elsewhere < MaxElse /\ past' = [past EXCEPT !.elsewhere = @ + 1] /\ UNCHANGED <<ui, net>>
  /\ srv' = [srv EXCEPT !.setup = TRUE, !.companions = {"first"}, !.radio = "elsewhere"]

Next ==
  \/ ServeLoads \/ SettingsLand \/ CompanionsLand \/ Reopen \/ Begin \/ ToRestore \/ RadioNext \/ Skip \/ Review \/ Back
  \/ EditRadio \/ EditName \/ Finish \/ CompanionSaved \/ Failed \/ Finished \/ Restore \/ RestoreLands
  \/ \E f \in {"config", "database"} : PickFile(f)
  \/ ServeFinish \/ ServeRestore \/ Restart \/ SetUpElsewhere
Spec == Init /\ [][Next]_vars
-----------------------------------------------------------------------------
\* A node already configured when the console opened never sees the wizard.
NoFlash == past.held => ~Wizard

\* Setup is complete only with the companion it was finished with: a failure between the two saves leaves it
\* open.  A backup that was left to run may take the companion away again.
CompleteHasCompanion == srv.setup /\ past.wanted # "" /\ ~past.left => past.wanted \in srv.companions

\* A wizard that is busy, its buttons off, has a save or a read under way, unless the read after a save failed.
BusyMeansUnderWay ==
  Wizard /\ ui.w.busy => net.finish.at # "none" \/ "asked" \in {net.settings, net.companions} \/ past.unread
                           \/ net.settings # "none" \/ net.companions # "none"

\* A backup replaces what a set-up node runs only if the reader left the restore step before it was done, or the
\* node was set up from another page meanwhile.
ReplacesOnlyUnset ==
  srv.setup /\ srv'.radio = "backup" /\ srv.radio # "backup" => past.left \/ past.elsewhere > 0 \/ srv.staged

\* The wizard's own words: a running node is never overwritten.
RunningNodeKept == [][srv.setup => srv'.radio = srv.radio \/ srv'.radio # "backup"]_vars
=============================================================================

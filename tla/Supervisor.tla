----------------------------- MODULE Supervisor -----------------------------
(***************************************************************************)
(* The process's main loop (internal/app/app.go): one goroutine owns the   *)
(* radio and everything that hangs off it, and takes, one at a time, a     *)
(* reload after a save (SIGHUP), a reconnect asked for by a dead radio or  *)
(* by the operator, and a retry after a radio that would not open.  Saves, *)
(* signals, radios that die and their watchers (internal/modem/modem.go)   *)
(* run beside it, in the middle of any of these.                           *)
(*                                                                         *)
(* A configuration is its number and the modem settings it holds.  A radio *)
(* generation is what startRadio built at once: modem, companions,         *)
(* repeater and app listeners.                                             *)
(***************************************************************************)
EXTENDS Integers, FiniteSets

CONSTANTS
  Modems,             \* modem settings an operator may save
  Working,            \* those of them a radio opens with
  initialRetryDelay,  \* seconds before the first retry
  maxRetryDelay,      \* and at most
  MaxSaves,           \* bound: configurations saved
  MaxFaults,          \* bound: loads that fail, nodes that do not start, radios that die
  MaxResets           \* bound: resets the operator asks for

ASSUME ModemsAssumption == Working \subseteq Modems /\ Modems # {}
ASSUME DelayAssumption == /\ initialRetryDelay \in Nat \ {0}
                          /\ maxRetryDelay \in Nat
                          /\ initialRetryDelay <= maxRetryDelay
ASSUME BoundsAssumption == {MaxSaves, MaxFaults, MaxResets} \subseteq Nat

VARIABLES
  saved,        \* the configuration the database holds
  unsignalled,  \* saves that have committed and not yet sent their SIGHUP
  sighup,       \* a signal waits in the channel, of capacity one
  reconnectCh,  \* a request is waiting in the channel, of capacity one
  stage,        \* where the loop is
  arm,          \* the arm of the select it is in
  cfg,          \* the configuration the loop runs
  newCfg,       \* the configuration a reload is applying
  radio,        \* the running generation, or NoRadio
  opened,       \* generations whose modem is open
  gens,         \* generations made so far
  retryTimer,   \* a retry is pending
  retryDelay,   \* how long the next one waits
  compReg,      \* the companions the registry gives the monitor and the signal tests
  backend,      \* the companions and repeater the web server's backend has
  dead,         \* generations whose modem has stopped answering
  watching,     \* generations whose dead-watcher runs
  quitting,     \* the context is cancelled, or the web server has failed
  loadFailed,   \* history: the last reload could not read its configuration
  faults,       \* faults so far
  resets        \* resets so far

loop == <<stage, arm, cfg, newCfg, radio, opened, gens, retryTimer, retryDelay,
          compReg, backend, loadFailed>>
outside == <<saved, unsignalled, dead, quitting, resets>>
vars == <<loop, outside, sighup, reconnectCh, watching, faults>>

Configs == [id : 0..MaxSaves, modem : Modems]
NoConfig == [id |-> -1]
NoRadio == [gen |-> 0]
NoNodes == [gen |-> 0]

\* What a generation runs: the instances of companions, repeater and listeners
\* are told apart by the generation and the configuration they were built from.
NodesOf(r) == IF r = NoRadio THEN NoNodes ELSE [gen |-> r.gen, companions |-> r.companions, repeater |-> r.repeater]

TypeOK ==
  /\ saved \in Configs /\ cfg \in Configs /\ newCfg \in Configs \cup {NoConfig}
  /\ unsignalled \in 0..MaxSaves /\ sighup \in BOOLEAN
  /\ reconnectCh \in BOOLEAN
  /\ stage \in {"open", "nodes", "select", "loading", "companions", "repeater", "commit", "exit"}
  /\ arm \in {"boot", "sighup", "reconnect", "retry"}
  /\ \/ radio = NoRadio
     \/ radio \in [gen : 1..gens, modem : Modems, companions : 0..MaxSaves, repeater : 0..MaxSaves, apps : 0..MaxSaves]
  /\ opened \subseteq 1..gens /\ dead \subseteq 1..gens /\ watching \subseteq 1..gens
  /\ gens \in Nat
  /\ retryTimer \in BOOLEAN /\ retryDelay \in initialRetryDelay..maxRetryDelay
  /\ {compReg, backend} \subseteq {NoNodes} \cup [gen : 1..gens, companions : 0..MaxSaves, repeater : 0..MaxSaves]
  /\ quitting \in BOOLEAN /\ loadFailed \in BOOLEAN
  /\ faults \in 0..MaxFaults /\ resets \in 0..MaxResets

Init ==
  /\ saved \in [id : {0}, modem : Modems]
  /\ unsignalled = 0 /\ sighup = FALSE /\ reconnectCh = FALSE
  /\ stage = "open" /\ arm = "boot"
  /\ cfg = saved /\ newCfg = NoConfig
  /\ radio = NoRadio /\ opened = {} /\ gens = 0
  /\ retryTimer = FALSE /\ retryDelay = initialRetryDelay
  /\ compReg = NoNodes /\ backend = NoNodes
  /\ dead = {} /\ watching = {}
  /\ quitting = FALSE /\ loadFailed = FALSE
  /\ faults = 0 /\ resets = 0

-----------------------------------------------------------------------------
(* Steps of startRadio, stopRadio and radioUp.                             *)

\* The configuration the arm starts a radio with.
Applying == IF arm = "sighup" THEN newCfg ELSE cfg

Fault == faults < MaxFaults /\ faults' = faults + 1

\* radioUp: what an attempt to start the radio leaves for the next.
\* The bug of a radio that comes up beside a pending retry.
RadioUpLeavesTimer == retryDelay' = initialRetryDelay /\ UNCHANGED retryTimer
RadioUpCancels == retryTimer' = FALSE /\ retryDelay' = initialRetryDelay

RadioUpRetries ==
  /\ retryTimer' = TRUE
  /\ retryDelay' = IF retryDelay * 2 <= maxRetryDelay THEN retryDelay * 2 ELSE maxRetryDelay

\* A failed attempt of the retry arm leaves the backend; a reload still commits.
StartFails ==
  /\ RadioUpRetries
  /\ stage' = IF arm = "sighup" THEN "commit" ELSE "select"
  /\ backend' = IF arm \in {"boot", "reconnect"} THEN NoNodes ELSE backend
  /\ UNCHANGED <<arm, cfg, newCfg, radio, compReg, loadFailed>>

StopRadio == radio' = NoRadio /\ opened' = opened \ {radio.gen}

\* modem.Setup opens the modem and StartDeadWatcher watches it.
OpenRadio ==
  /\ stage = "open"
  /\ \/ /\ Applying.modem \in Working
        /\ gens' = gens + 1
        /\ opened' = opened \cup {gens + 1}
        /\ watching' = watching \cup {gens + 1}
        /\ stage' = "nodes"
        /\ UNCHANGED <<arm, cfg, newCfg, radio, retryTimer, retryDelay, compReg, backend, loadFailed, faults>>
     \/ /\ \/ Applying.modem \notin Working /\ UNCHANGED faults
           \/ Fault
        /\ StartFails
        /\ UNCHANGED <<opened, gens, watching>>
  /\ UNCHANGED <<outside, sighup, reconnectCh>>

\* startCompanions and startRepeater, and then the registry and the listeners.
StartNodes ==
  /\ stage = "nodes"
  /\ LET built == [gen |-> gens, modem |-> Applying.modem, companions |-> Applying.id,
                   repeater |-> Applying.id, apps |-> Applying.id] IN
     \/ /\ radio' = built
        /\ compReg' = NodesOf(built)
        /\ RadioUpCancels
        /\ stage' = IF arm = "sighup" THEN "commit" ELSE "select"
        /\ backend' = IF arm = "sighup" THEN backend ELSE NodesOf(built)
        /\ UNCHANGED <<arm, cfg, newCfg, opened, loadFailed, faults>>
     \/ Fault /\ StartFails /\ opened' = opened \ {gens}
  /\ UNCHANGED <<outside, sighup, reconnectCh, gens, watching>>

-----------------------------------------------------------------------------
(* The select and its arms.                                                *)

TakeSighup ==
  /\ stage = "select" /\ sighup
  /\ sighup' = FALSE
  /\ stage' = "loading" /\ arm' = "sighup"
  /\ UNCHANGED <<outside, cfg, newCfg, radio, opened, gens, retryTimer, retryDelay,
                 compReg, backend, loadFailed, reconnectCh, watching, faults>>

\* The bug of a modem setting that is saved and never applied.
RebuildsOnlyWhenDown(c) == radio = NoRadio

\* Whether a reload must rebuild the radio.
Rebuilds(c) == radio = NoRadio \/ cfg.modem # c.modem

\* loadConfigFromDB, then either stopRadio and startRadio or a reload in place.
Load ==
  /\ stage = "loading"
  /\ \/ /\ newCfg' = saved /\ loadFailed' = FALSE
        /\ IF Rebuilds(saved)
           THEN stage' = "open" /\ StopRadio
           ELSE stage' = "companions" /\ UNCHANGED <<radio, opened>>
        /\ UNCHANGED faults
     \/ /\ Fault
        /\ stage' = "select" /\ loadFailed' = TRUE
        /\ UNCHANGED <<newCfg, radio, opened>>
  /\ UNCHANGED <<outside, arm, cfg, gens, retryTimer, retryDelay, compReg, backend,
                 sighup, reconnectCh, watching>>

\* A companion or a repeater that will not start ends the process.
GiveUp ==
  /\ Fault
  /\ StopRadio
  /\ stage' = "exit"

ReloadCompanions ==
  /\ stage = "companions"
  /\ \/ /\ radio' = [radio EXCEPT !.companions = newCfg.id]
        /\ stage' = "repeater"
        /\ UNCHANGED <<opened, faults>>
     \/ GiveUp
  /\ UNCHANGED <<outside, arm, cfg, newCfg, gens, retryTimer, retryDelay, compReg,
                 backend, loadFailed, sighup, reconnectCh, watching>>

\* reloadRepeater, then reloadMqtt and the app listeners.
ReloadRepeater ==
  /\ stage = "repeater"
  /\ \/ /\ radio' = [radio EXCEPT !.repeater = newCfg.id, !.apps = newCfg.id]
        /\ stage' = "commit"
        /\ UNCHANGED <<opened, faults>>
     \/ GiveUp
  /\ UNCHANGED <<outside, arm, cfg, newCfg, gens, retryTimer, retryDelay, compReg,
                 backend, loadFailed, sighup, reconnectCh, watching>>

\* The bug of a reload that leaves the configuration of the last one in place.
CommitLeavesConfig ==
  /\ UNCHANGED cfg
  /\ compReg' = NodesOf(radio) /\ backend' = NodesOf(radio)

\* The end of a reload, whether or not its radio came up.
Commit ==
  /\ cfg' = newCfg
  /\ compReg' = NodesOf(radio) /\ backend' = NodesOf(radio)

Reloaded ==
  /\ stage = "commit"
  /\ Commit
  /\ newCfg' = NoConfig
  /\ stage' = "select"
  /\ UNCHANGED <<outside, arm, radio, opened, gens, retryTimer, retryDelay, loadFailed,
                 sighup, reconnectCh, watching, faults>>

Reconnect ==
  /\ stage = "select" /\ reconnectCh
  /\ reconnectCh' = FALSE
  /\ stage' = "open" /\ arm' = "reconnect"
  /\ StopRadio
  /\ UNCHANGED <<outside, cfg, newCfg, gens, retryTimer, retryDelay, compReg, backend,
                 loadFailed, sighup, watching, faults>>

\* The bug of a retry that waits on a timer nobody set.
RetryNever == FALSE

Retry ==
  /\ stage = "select" /\ retryTimer
  /\ retryTimer' = FALSE
  /\ stage' = "open" /\ arm' = "retry"
  /\ UNCHANGED <<outside, cfg, newCfg, radio, opened, gens, retryDelay, compReg, backend,
                 loadFailed, sighup, reconnectCh, watching, faults>>

Quit ==
  /\ stage = "select" /\ quitting
  /\ StopRadio
  /\ stage' = "exit"
  /\ UNCHANGED <<outside, arm, cfg, newCfg, gens, retryTimer, retryDelay, compReg, backend,
                 loadFailed, sighup, reconnectCh, watching, faults>>

-----------------------------------------------------------------------------
(* Beside the loop.                                                        *)

\* A save commits inside the store's writer; its caller signals afterwards.
Save ==
  /\ saved.id < MaxSaves
  /\ \E mod \in Modems : saved' = [id |-> saved.id + 1, modem |-> mod]
  /\ unsignalled' = unsignalled + 1
  /\ UNCHANGED <<loop, dead, quitting, resets, sighup, reconnectCh, watching, faults>>

\* A signal that finds one waiting is dropped: the one waiting covers it.
Signal ==
  /\ unsignalled > 0
  /\ unsignalled' = unsignalled - 1
  /\ sighup' = TRUE
  /\ UNCHANGED <<loop, saved, dead, quitting, resets, reconnectCh, watching, faults>>

\* A send on reconnectCh that does not wait: a request that finds one there is dropped.
AskReconnect == reconnectCh' = TRUE

ResetModem ==
  /\ resets < MaxResets /\ resets' = resets + 1
  /\ AskReconnect
  /\ UNCHANGED <<loop, saved, unsignalled, dead, quitting, sighup, watching, faults>>

\* The read loop exits, or the modem falls silent.
Die(g) ==
  /\ g \in opened \ dead
  /\ Fault
  /\ dead' = dead \cup {g}
  /\ UNCHANGED <<loop, saved, unsignalled, quitting, resets, sighup, reconnectCh, watching>>

\* The watcher of a generation sees it dead, closed, or both, in which case it may take either.
WatcherSignals(g) ==
  /\ g \in watching \cap dead
  /\ watching' = watching \ {g}
  /\ AskReconnect
  /\ UNCHANGED <<loop, outside, sighup, faults>>

WatcherStops(g) ==
  /\ g \in watching \ opened
  /\ watching' = watching \ {g}
  /\ UNCHANGED <<loop, outside, sighup, reconnectCh, faults>>

Cancel ==
  /\ ~quitting /\ quitting' = TRUE
  /\ UNCHANGED <<loop, saved, unsignalled, dead, resets, sighup, reconnectCh, watching, faults>>

Work == OpenRadio \/ StartNodes \/ Load \/ ReloadCompanions \/ ReloadRepeater \/ Reloaded
Watchers == \E g \in 1..gens : WatcherSignals(g) \/ WatcherStops(g)
Next ==
  \/ Work \/ TakeSighup \/ Reconnect \/ Retry \/ Quit
  \/ Save \/ Signal \/ ResetModem \/ Cancel \/ Watchers
  \/ \E g \in 1..gens : Die(g)

Spec == Init /\ [][Next]_vars

(* Go's select chooses among its ready arms at random, so an arm that is   *)
(* ready again and again is taken in the end; a step the loop has begun    *)
(* ends, a caller that saved goes on to signal, and a watcher is scheduled.*)
LiveSpec ==
  /\ Spec
  /\ WF_vars(Work) /\ SF_vars(TakeSighup) /\ SF_vars(Reconnect) /\ SF_vars(Retry) /\ SF_vars(Quit)
  /\ WF_vars(Signal) /\ WF_vars(Watchers)

-----------------------------------------------------------------------------
(* Properties.                                                             *)

AtRest == stage = "select"

\* At most one modem is open: every path closes the generation it replaces.  Between
\* two arms a retry is pending exactly when the radio is down, and a radio that is up
\* has reset the delay: no retry is left over to replace a working radio, and a radio
\* that is down is never forgotten.
RetryIffDown ==
  /\ TypeOK /\ Cardinality(opened) <= 1
  /\ AtRest => /\ retryTimer <=> radio = NoRadio
               /\ radio # NoRadio => retryDelay = initialRetryDelay /\ opened = {radio.gen}

\* Between two arms everything that runs was built from the configuration in force,
\* so that the next comparison of modem settings decides rightly; the web server's
\* backend has exactly the nodes that run, and when a radio is up so has the registry
\* the monitor and the signal tests use.
RunsItsConfig ==
  AtRest =>
    /\ radio # NoRadio => /\ radio.modem = cfg.modem
                          /\ {radio.companions, radio.repeater, radio.apps} = {cfg.id}
                          /\ compReg = NodesOf(radio)
    /\ backend = NodesOf(radio)

\* The channel holds one signal, so signals are lost, yet no save is: between two
\* arms, with no signal on its way, the loop runs what the database holds, unless
\* the database could not be read.
NoSaveForgotten ==
  AtRest /\ ~sighup /\ unsignalled = 0 => cfg = saved \/ loadFailed

\* A save that corrects the connection brings the radio up, however often it failed
\* before, and a radio that dies comes back: the loop never gives up on one that
\* would open (comment at app.go:336).
RadioComesBack ==
  []<>(radio # NoRadio \/ saved.modem \notin Working \/ loadFailed \/ quitting \/ stage = "exit")

=============================================================================

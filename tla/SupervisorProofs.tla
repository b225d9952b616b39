-------------------------- MODULE SupervisorProofs --------------------------
(***************************************************************************)
(* Proofs about the process's main loop, for any modem settings, delays,   *)
(* saves, faults and resets: one modem is open at most, a retry is pending *)
(* exactly while the radio is down, what runs was built from the           *)
(* configuration in force, and no save is forgotten.  In the middle of an  *)
(* arm none of it holds as it stands: the invariant says of each stage     *)
(* what is already true there.  Then, about what the loop works with: a    *)
(* failover trigger, which it starts and stops, and the store's writer,    *)
(* which outlives every generation of it.                                  *)
(***************************************************************************)
EXTENDS Supervisor, FailoverReply, StoreWriter, FiniteSetTheorems, SequenceTheorems, TLAPS

Down == radio = NoRadio

\* The configuration an arm applies is one, and the stages of a reload are of its arm.
Applies ==
  /\ stage \in {"loading", "companions", "repeater", "commit"} => arm = "sighup"
  /\ stage \in {"open", "nodes", "companions", "repeater", "commit"} /\ arm = "sighup" => newCfg \in Configs
  /\ unsignalled <= saved.id

\* Which modem is open, and whether a retry is pending.
Opened ==
  /\ ~Down => opened = {radio.gen}
  /\ Down => opened = IF stage = "nodes" THEN {gens} ELSE {}
  /\ stage \in {"open", "nodes", "exit"} => Down
  /\ stage \in {"companions", "repeater"} => ~Down
  /\ stage = "nodes" => gens \in 1..gens

Retrying ==
  stage \notin {"open", "nodes", "exit"} =>
    /\ retryTimer <=> Down
    /\ ~Down => retryDelay = initialRetryDelay

\* What runs, of the configuration in force or of the one being applied.
Built(c) == radio.modem = c.modem /\ radio.companions = c.id /\ radio.repeater = c.id /\ radio.apps = c.id

Running ==
  /\ stage \in {"select", "loading"} => /\ ~Down => Built(cfg) /\ compReg = NodesOf(radio)
                                        /\ backend = NodesOf(radio)
  /\ stage \in {"open", "nodes"} /\ arm = "retry" => backend = NoNodes
  /\ stage \in {"companions", "repeater"} => radio.modem = newCfg.modem
  /\ stage = "repeater" => radio.companions = newCfg.id
  /\ stage = "commit" /\ ~Down => Built(newCfg)

\* A save is on its way, or the loop has read it.
OnItsWay == sighup \/ unsignalled > 0
Remembered ==
  /\ stage = "select" \/ (stage \in {"open", "nodes"} /\ arm # "sighup") => OnItsWay \/ cfg = saved \/ loadFailed
  /\ stage \in {"open", "nodes", "companions", "repeater", "commit"} /\ arm = "sighup" => OnItsWay \/ newCfg = saved

IInv == TypeOK /\ Applies /\ Opened /\ Retrying /\ Running /\ Remembered

-----------------------------------------------------------------------------

\* A radio that is up is a record of a generation made.
LEMMA RadioUp ==
  ASSUME TypeOK, ~Down
  PROVE  radio \in [gen : 1..gens, modem : Modems, companions : 0..MaxSaves, repeater : 0..MaxSaves, apps : 0..MaxSaves]
BY DEF TypeOK, Down

\* An attempt that fails leaves nothing open and a retry pending, with a longer delay.
LEMMA FailStep ==
  ASSUME IInv, stage \in {"open", "nodes"}, StartFails, opened' = {}, faults' \in 0..MaxFaults,
         UNCHANGED <<outside, sighup, reconnectCh, gens, watching>>
  PROVE  IInv'
<1>1. /\ Down /\ retryTimer' = TRUE /\ stage' = (IF arm = "sighup" THEN "commit" ELSE "select")
      /\ backend' = (IF arm \in {"boot", "reconnect"} THEN NoNodes ELSE backend)
      /\ UNCHANGED <<arm, cfg, newCfg, radio, compReg, loadFailed>>
  BY DEF StartFails, RadioUpRetries, IInv, Opened
<1>2. retryDelay' \in initialRetryDelay..maxRetryDelay
  BY DelayAssumption DEF StartFails, RadioUpRetries, IInv, TypeOK
<1>3. TypeOK'
  BY <1>1, <1>2 DEF IInv, TypeOK, Down, outside
<1>4. Applies' /\ Opened' /\ Retrying' /\ Remembered'
  BY <1>1 DEF IInv, TypeOK, Applies, Opened, Retrying, Remembered, Down, OnItsWay, outside
<1>5. Running'
  BY <1>1 DEF IInv, TypeOK, Running, Down, NodesOf
<1>6. QED BY <1>3, <1>4, <1>5 DEF IInv

\* The modem opens, or the attempt fails.
LEMMA OpenStep == ASSUME IInv, OpenRadio PROVE IInv'
<1>1. stage = "open" /\ Down /\ opened = {} /\ gens \in Nat /\ UNCHANGED <<outside, sighup, reconnectCh>>
  BY DEF OpenRadio, IInv, TypeOK, Opened
<1>2. CASE StartFails /\ UNCHANGED <<opened, gens, watching>> /\ (UNCHANGED faults \/ Fault)
  <2>1. faults' \in 0..MaxFaults
    BY <1>2, BoundsAssumption DEF Fault, IInv, TypeOK
  <2>2. QED BY <1>1, <1>2, <2>1, FailStep
<1>3. CASE /\ gens' = gens + 1 /\ opened' = opened \cup {gens + 1} /\ watching' = watching \cup {gens + 1}
           /\ stage' = "nodes"
           /\ UNCHANGED <<arm, cfg, newCfg, radio, retryTimer, retryDelay, compReg, backend, loadFailed, faults>>
  <2>1. 1..gens \subseteq 1..gens' /\ gens' \in 1..gens' /\ gens' \in Nat
    BY <1>1, <1>3
  <2>2. compReg' \in {NoNodes} \cup [gen : 1..gens', companions : 0..MaxSaves, repeater : 0..MaxSaves]
        /\ backend' \in {NoNodes} \cup [gen : 1..gens', companions : 0..MaxSaves, repeater : 0..MaxSaves]
    BY <1>3, <2>1 DEF IInv, TypeOK
  <2>3. opened' \subseteq 1..gens' /\ dead' \subseteq 1..gens' /\ watching' \subseteq 1..gens'
    BY <1>1, <1>3, <2>1 DEF IInv, TypeOK, outside
  <2>4. TypeOK'
    BY <1>1, <1>3, <2>1, <2>2, <2>3 DEF IInv, TypeOK, Down, outside
  <2>5. Applies' /\ Opened' /\ Retrying' /\ Running' /\ Remembered'
    BY <1>1, <1>3, <2>1 DEF IInv, Applies, Opened, Retrying, Running, Remembered, Down, OnItsWay, outside
  <2>6. QED BY <2>4, <2>5 DEF IInv
<1>4. QED BY <1>2, <1>3 DEF OpenRadio

\* The nodes start, and the radio is up; or they do not, and the modem is closed.
LEMMA NodesStep == ASSUME IInv, StartNodes PROVE IInv'
<1> DEFINE built == [gen |-> gens, modem |-> Applying.modem, companions |-> Applying.id,
                     repeater |-> Applying.id, apps |-> Applying.id]
<1>1. /\ stage = "nodes" /\ Down /\ opened = {gens} /\ gens \in 1..gens
      /\ UNCHANGED <<outside, sighup, reconnectCh, gens, watching>>
  BY DEF StartNodes, IInv, Opened
<1>2. CASE Fault /\ StartFails /\ opened' = opened \ {gens}
  <2>1. faults' \in 0..MaxFaults /\ opened' = {}
    BY <1>1, <1>2, BoundsAssumption DEF Fault, IInv, TypeOK
  <2>2. QED BY <1>1, <1>2, <2>1, FailStep
<1>3. CASE /\ radio' = built /\ compReg' = NodesOf(built) /\ RadioUpCancels
           /\ stage' = (IF arm = "sighup" THEN "commit" ELSE "select")
           /\ backend' = (IF arm = "sighup" THEN backend ELSE NodesOf(built))
           /\ UNCHANGED <<arm, cfg, newCfg, opened, loadFailed, faults>>
  <2>1. Applying \in Configs /\ Applying = IF arm = "sighup" THEN newCfg ELSE cfg
    BY <1>1 DEF Applying, IInv, Applies, TypeOK
  <2>2. built \in [gen : 1..gens', modem : Modems, companions : 0..MaxSaves, repeater : 0..MaxSaves, apps : 0..MaxSaves]
    BY <1>1, <2>1 DEF Configs
  <2>3. built.gen = gens /\ built # NoRadio
    BY <1>1 DEF NoRadio
  <2>4. NodesOf(built) = [gen |-> gens, companions |-> Applying.id, repeater |-> Applying.id]
    BY <2>3 DEF NodesOf
  <2>5. NodesOf(built) \in [gen : 1..gens', companions : 0..MaxSaves, repeater : 0..MaxSaves]
    BY <1>1, <2>1, <2>4 DEF Configs
  <2>6. TypeOK'
    <3>1. retryTimer' \in BOOLEAN /\ retryDelay' \in initialRetryDelay..maxRetryDelay
      <4>1. initialRetryDelay \in initialRetryDelay..maxRetryDelay
        BY DelayAssumption
      <4>2. retryTimer' = FALSE /\ retryDelay' = initialRetryDelay
        BY <1>3 DEF RadioUpCancels
      <4>3. QED BY <4>1, <4>2
    <3>2. compReg' \in {NoNodes} \cup [gen : 1..gens', companions : 0..MaxSaves, repeater : 0..MaxSaves]
          /\ backend' \in {NoNodes} \cup [gen : 1..gens', companions : 0..MaxSaves, repeater : 0..MaxSaves]
      BY <1>1, <1>3, <2>5 DEF IInv, TypeOK
    <3>3. QED BY <1>1, <1>3, <2>2, <3>1, <3>2 DEF IInv, TypeOK, outside
  <2>7. Applies' /\ Remembered'
    BY <1>1, <1>3 DEF IInv, TypeOK, Applies, Remembered, OnItsWay, outside
  <2>8. Opened' /\ Retrying'
    BY <1>1, <1>3, <2>3 DEF IInv, Opened, Retrying, Down, RadioUpCancels
  <2>9. Built(Applying)' /\ (arm # "sighup" => Applying' = cfg') /\ (arm = "sighup" => Applying' = newCfg')
    BY <1>3 DEF Built, Applying
  <2>10. Running'
    BY <1>1, <1>3, <2>3, <2>9 DEF Running, Down, Built, NodesOf
  <2>11. QED BY <2>6, <2>7, <2>8, <2>10 DEF IInv
<1>4. QED BY <1>2, <1>3 DEF StartNodes

\* A reload reads the configuration and tears the radio down if it must.
LEMMA LoadStep == ASSUME IInv, Load, arm = "sighup" PROVE IInv'
<1>1. /\ stage = "loading"
      /\ UNCHANGED <<outside, arm, cfg, gens, retryTimer, retryDelay, compReg, backend, sighup, reconnectCh, watching>>
  BY DEF Load
<1>2. CASE newCfg' = saved /\ loadFailed' = FALSE /\ stage' = "open" /\ StopRadio /\ UNCHANGED faults
  <2>1. radio' = NoRadio /\ opened' = {}
    BY <1>1, <1>2 DEF StopRadio, IInv, Opened, NoRadio, Down
  <2>2. TypeOK'
    BY <1>1, <1>2, <2>1 DEF IInv, TypeOK, outside
  <2>3. Applies' /\ Opened' /\ Retrying' /\ Running' /\ Remembered'
    BY <1>1, <1>2, <2>1 DEF IInv, TypeOK, Applies, Opened, Retrying, Running, Remembered, Down, OnItsWay, outside
  <2>4. QED BY <2>2, <2>3 DEF IInv
<1>3. CASE newCfg' = saved /\ loadFailed' = FALSE /\ ~Rebuilds(saved) /\ stage' = "companions" /\ UNCHANGED <<radio, opened, faults>>
  <2>1. TypeOK'
    BY <1>1, <1>3 DEF IInv, TypeOK, outside
  <2>2. Applies' /\ Opened' /\ Retrying' /\ Remembered'
    BY <1>1, <1>3 DEF IInv, TypeOK, Applies, Opened, Retrying, Remembered, Down, OnItsWay, Rebuilds, outside
  <2>3. Running'
    BY <1>1, <1>3 DEF IInv, Running, Built, Rebuilds, Down
  <2>4. QED BY <2>1, <2>2, <2>3 DEF IInv
<1>4. CASE Fault /\ stage' = "select" /\ loadFailed' = TRUE /\ UNCHANGED <<newCfg, radio, opened>>
  <2>1. faults' \in 0..MaxFaults
    BY <1>4, BoundsAssumption DEF Fault, IInv, TypeOK
  <2>2. TypeOK'
    BY <1>1, <1>4, <2>1 DEF IInv, TypeOK, outside
  <2>3. Applies' /\ Opened' /\ Retrying' /\ Remembered'
    BY <1>1, <1>4 DEF IInv, Applies, Opened, Retrying, Remembered, Down, outside
  <2>4. Running'
    BY <1>1, <1>4 DEF IInv, Running, Built, Down, NodesOf
  <2>5. QED BY <2>2, <2>3, <2>4 DEF IInv
<1>5. QED BY <1>2, <1>3, <1>4 DEF Load

\* Giving up closes the modem and ends the loop.
LEMMA ExitStep ==
  ASSUME IInv, StopRadio, stage' = "exit", faults' \in 0..MaxFaults, stage # "nodes",
         UNCHANGED <<outside, arm, cfg, newCfg, gens, retryTimer, retryDelay, compReg, backend, loadFailed,
                     sighup, reconnectCh, watching>>
  PROVE  IInv'
<1>1. radio' = NoRadio /\ opened' = {}
  BY DEF StopRadio, IInv, Opened, NoRadio, Down
<1>2. TypeOK'
  BY <1>1 DEF IInv, TypeOK, outside
<1>3. Applies' /\ Opened' /\ Retrying' /\ Running' /\ Remembered'
  BY <1>1 DEF IInv, Applies, Opened, Retrying, Running, Remembered, Down, outside
<1>4. QED BY <1>2, <1>3 DEF IInv

\* A reload in place replaces the companions, then the repeater and the listeners.
LEMMA InPlaceStep == ASSUME IInv, ReloadCompanions \/ ReloadRepeater PROVE IInv'
<1>1. /\ stage \in {"companions", "repeater"} /\ ~Down /\ newCfg \in Configs /\ arm = "sighup"
      /\ UNCHANGED <<outside, arm, cfg, newCfg, gens, retryTimer, retryDelay, compReg, backend, loadFailed,
                     sighup, reconnectCh, watching>>
  BY DEF ReloadCompanions, ReloadRepeater, IInv, Opened, Applies
<1>2. radio \in [gen : 1..gens, modem : Modems, companions : 0..MaxSaves, repeater : 0..MaxSaves, apps : 0..MaxSaves]
  BY <1>1, RadioUp DEF IInv
<1>3. CASE GiveUp
  <2>1. faults' \in 0..MaxFaults
    BY <1>3, BoundsAssumption DEF GiveUp, Fault, IInv, TypeOK
  <2>2. QED BY <1>1, <1>3, <2>1, ExitStep DEF GiveUp
<1>4. CASE /\ stage = "companions" /\ stage' = "repeater" /\ UNCHANGED <<opened, faults>>
           /\ radio' = [radio EXCEPT !.companions = newCfg.id]
  <2>1. radio' \in [gen : 1..gens', modem : Modems, companions : 0..MaxSaves, repeater : 0..MaxSaves, apps : 0..MaxSaves]
        /\ radio'.gen = radio.gen /\ radio'.modem = radio.modem /\ radio'.companions = newCfg.id
    BY <1>1, <1>2, <1>4 DEF Configs
  <2>2. radio' # NoRadio
    BY <1>1, <2>1 DEF NoRadio, IInv, TypeOK
  <2>3. TypeOK'
    BY <1>1, <1>4, <2>1 DEF IInv, TypeOK, outside
  <2>4. Applies' /\ Opened' /\ Retrying' /\ Remembered'
    BY <1>1, <1>4, <2>1, <2>2 DEF IInv, Applies, Opened, Retrying, Remembered, Down, OnItsWay, outside
  <2>5. Running'
    BY <1>1, <1>4, <2>1 DEF IInv, Running
  <2>6. QED BY <2>3, <2>4, <2>5 DEF IInv
<1>5. CASE /\ stage = "repeater" /\ stage' = "commit" /\ UNCHANGED <<opened, faults>>
           /\ radio' = [radio EXCEPT !.repeater = newCfg.id, !.apps = newCfg.id]
  <2>1. radio' \in [gen : 1..gens', modem : Modems, companions : 0..MaxSaves, repeater : 0..MaxSaves, apps : 0..MaxSaves]
        /\ radio'.gen = radio.gen /\ radio'.modem = radio.modem /\ radio'.companions = radio.companions
        /\ radio'.repeater = newCfg.id /\ radio'.apps = newCfg.id
    BY <1>1, <1>2, <1>5 DEF Configs
  <2>2. radio' # NoRadio
    BY <1>1, <2>1 DEF NoRadio, IInv, TypeOK
  <2>3. TypeOK'
    BY <1>1, <1>5, <2>1 DEF IInv, TypeOK, outside
  <2>4. Applies' /\ Opened' /\ Retrying' /\ Remembered'
    BY <1>1, <1>5, <2>1, <2>2 DEF IInv, Applies, Opened, Retrying, Remembered, Down, OnItsWay, outside
  <2>5. Running'
    BY <1>1, <1>5, <2>1 DEF IInv, Running, Built
  <2>6. QED BY <2>3, <2>4, <2>5 DEF IInv
<1>6. QED BY <1>3, <1>4, <1>5 DEF ReloadCompanions, ReloadRepeater

\* The end of a reload: what runs was built from the configuration now in force.
LEMMA CommitStep == ASSUME IInv, Reloaded PROVE IInv'
<1>1. /\ stage = "commit" /\ stage' = "select" /\ cfg' = newCfg /\ newCfg' = NoConfig
      /\ compReg' = NodesOf(radio) /\ backend' = NodesOf(radio) /\ newCfg \in Configs
      /\ UNCHANGED <<outside, arm, radio, opened, gens, retryTimer, retryDelay, loadFailed,
                     sighup, reconnectCh, watching, faults>>
  BY DEF Reloaded, Commit, IInv, Applies
<1>2. NodesOf(radio) \in {NoNodes} \cup [gen : 1..gens, companions : 0..MaxSaves, repeater : 0..MaxSaves]
  BY RadioUp DEF NodesOf, IInv, Down
<1>3. TypeOK'
  BY <1>1, <1>2 DEF IInv, TypeOK, outside
<1>4. Applies' /\ Opened' /\ Retrying' /\ Remembered'
  BY <1>1 DEF IInv, Applies, Opened, Retrying, Remembered, Down, OnItsWay, outside
<1>5. Running'
  BY <1>1 DEF IInv, Applies, Running, Built, Down, NodesOf
<1>6. QED BY <1>3, <1>4, <1>5 DEF IInv

\* An arm of the select begins.
LEMMA ArmStep == ASSUME IInv, TakeSighup \/ Reconnect \/ Retry PROVE IInv'
<1>1. CASE TakeSighup
  <2>1. TypeOK'
    BY <1>1 DEF TakeSighup, IInv, TypeOK, outside
  <2>2. Applies' /\ Opened' /\ Retrying' /\ Remembered'
    BY <1>1 DEF TakeSighup, IInv, Applies, Opened, Retrying, Remembered, Down, outside
  <2>3. Running'
    BY <1>1 DEF TakeSighup, IInv, Running, Built, Down, NodesOf
  <2>4. QED BY <2>1, <2>2, <2>3 DEF IInv
<1>2. CASE Reconnect
  <2>1. /\ stage = "select" /\ reconnectCh' = FALSE /\ stage' = "open" /\ arm' = "reconnect"
        /\ UNCHANGED <<outside, cfg, newCfg, gens, retryTimer, retryDelay, compReg, backend,
                       loadFailed, sighup, watching, faults>>
    BY <1>2 DEF Reconnect
  <2>2. radio' = NoRadio /\ opened' = {}
    BY <1>2, <2>1 DEF Reconnect, StopRadio, IInv, Opened, NoRadio, Down
  <2>3. TypeOK'
    BY <2>1, <2>2 DEF IInv, TypeOK, outside
  <2>4. Applies' /\ Opened' /\ Retrying' /\ Running' /\ Remembered'
    BY <2>1, <2>2 DEF IInv, Applies, Opened, Retrying, Running, Remembered, Down, OnItsWay, outside
  <2>5. QED BY <2>3, <2>4 DEF IInv
<1>3. CASE Retry
  <2>1. /\ stage = "select" /\ retryTimer /\ retryTimer' = FALSE /\ stage' = "open" /\ arm' = "retry"
        /\ UNCHANGED <<outside, cfg, newCfg, radio, opened, gens, retryDelay, compReg, backend,
                       loadFailed, sighup, reconnectCh, watching, faults>>
    BY <1>3 DEF Retry
  <2>2. Down /\ backend = NoNodes
    BY <2>1 DEF IInv, Retrying, Running, Down, NodesOf
  <2>3. TypeOK'
    BY <2>1 DEF IInv, TypeOK, outside
  <2>4. Applies' /\ Opened' /\ Retrying' /\ Running' /\ Remembered'
    BY <2>1, <2>2 DEF IInv, Applies, Opened, Retrying, Running, Remembered, Down, OnItsWay, outside
  <2>5. QED BY <2>3, <2>4 DEF IInv
<1>4. QED BY <1>1, <1>2, <1>3

\* What runs beside the loop leaves it alone: a save is on its way until it is signalled.
LEMMA BesideStep ==
  ASSUME IInv, \/ Save \/ Signal \/ ResetModem \/ Cancel \/ Watchers
               \/ (\E g \in 1..gens : Die(g)) \/ UNCHANGED vars
  PROVE  IInv'
<1>1. UNCHANGED loop
  BY DEF Save, Signal, ResetModem, Cancel, Watchers, WatcherSignals, WatcherStops, Die, vars
<1>2. Opened' /\ Retrying' /\ Running'
  BY <1>1 DEF IInv, Opened, Retrying, Running, Built, Down, NodesOf, loop
<1>3. CASE Save
  <2>1. saved \in Configs /\ saved' \in Configs /\ saved'.id = saved.id + 1 /\ unsignalled' = unsignalled + 1
        /\ saved.id < MaxSaves
    BY <1>3, BoundsAssumption DEF Save, IInv, TypeOK, Configs
  <2>2. unsignalled' \in 0..MaxSaves /\ unsignalled' <= saved'.id /\ unsignalled' > 0
    BY <2>1, BoundsAssumption DEF IInv, TypeOK, Applies, Configs
  <2>3. TypeOK'
    BY <1>1, <1>3, <2>1, <2>2 DEF Save, IInv, TypeOK, loop
  <2>4. Applies' /\ Remembered'
    BY <1>1, <2>2 DEF IInv, Applies, Remembered, OnItsWay, loop
  <2>5. QED BY <1>2, <2>3, <2>4 DEF IInv
<1>4. CASE Signal
  <2>1. unsignalled' \in 0..MaxSaves /\ unsignalled' <= saved.id
    BY <1>4, BoundsAssumption DEF Signal, IInv, TypeOK, Applies, Configs
  <2>2. TypeOK'
    BY <1>1, <1>4, <2>1 DEF Signal, IInv, TypeOK, loop
  <2>3. Applies' /\ Remembered'
    BY <1>1, <1>4, <2>1 DEF Signal, IInv, Applies, Remembered, OnItsWay, loop
  <2>4. QED BY <1>2, <2>2, <2>3 DEF IInv
<1>5. CASE ResetModem \/ Cancel \/ Watchers \/ (\E g \in 1..gens : Die(g)) \/ UNCHANGED vars
  <2>1. UNCHANGED <<saved, unsignalled, sighup>>
    BY <1>5 DEF ResetModem, Cancel, Watchers, WatcherSignals, WatcherStops, Die, vars, outside
  <2>2. reconnectCh' \in BOOLEAN /\ quitting' \in BOOLEAN /\ dead' \subseteq 1..gens /\ watching' \subseteq 1..gens
        /\ faults' \in 0..MaxFaults /\ resets' \in 0..MaxResets
    <3>1. CASE ResetModem
      BY <3>1, BoundsAssumption DEF ResetModem, AskReconnect, IInv, TypeOK
    <3>2. CASE Cancel
      BY <3>2 DEF Cancel, IInv, TypeOK
    <3>3. CASE Watchers
      BY <3>3 DEF Watchers, WatcherSignals, WatcherStops, AskReconnect, outside, IInv, TypeOK
    <3>4. ASSUME NEW g \in 1..gens, Die(g)
          PROVE  dead' \subseteq 1..gens /\ faults' \in 0..MaxFaults
                 /\ UNCHANGED <<reconnectCh, quitting, watching, resets>>
      BY <3>4, BoundsAssumption DEF Die, Fault, IInv, TypeOK
    <3>5. CASE UNCHANGED vars
      BY <3>5 DEF vars, outside, IInv, TypeOK
    <3>6. QED BY <1>5, <3>1, <3>2, <3>3, <3>4, <3>5 DEF IInv, TypeOK
  <2>3. TypeOK'
    BY <1>1, <2>1, <2>2 DEF IInv, TypeOK, loop
  <2>4. Applies' /\ Remembered'
    BY <1>1, <2>1 DEF IInv, Applies, Remembered, OnItsWay, loop
  <2>5. QED BY <1>2, <2>3, <2>4 DEF IInv
<1>6. QED BY <1>3, <1>4, <1>5

-----------------------------------------------------------------------------

\* The process boots with the configuration of the database and no radio.
LEMMA InitIInv == Init => IInv
<1> SUFFICES ASSUME Init PROVE IInv
  OBVIOUS
<1>1. saved \in Configs /\ saved.id = 0 /\ cfg = saved
  BY BoundsAssumption DEF Init, Configs
<1>2. TypeOK
  <2>1. 0 \in 0..MaxSaves /\ 0 \in 0..MaxFaults /\ 0 \in 0..MaxResets
    BY BoundsAssumption
  <2>2. initialRetryDelay \in initialRetryDelay..maxRetryDelay
    BY DelayAssumption
  <2>3. QED BY <1>1, <2>1, <2>2 DEF Init, TypeOK
<1>3. Applies /\ Opened /\ Retrying /\ Running /\ Remembered
  BY <1>1 DEF Init, Applies, Opened, Retrying, Running, Remembered, Down
<1>4. QED BY <1>2, <1>3 DEF IInv

\* Every step of the loop, and everything beside it, keeps the invariant.
LEMMA NextIInv == IInv /\ [Next]_vars => IInv'
<1> SUFFICES ASSUME IInv, [Next]_vars PROVE IInv'
  OBVIOUS
<1>1. CASE Quit
  <2>1. faults' \in 0..MaxFaults /\ stage # "nodes"
    BY <1>1 DEF Quit, IInv, TypeOK
  <2>2. QED BY <1>1, <2>1, ExitStep DEF Quit
<1>2. CASE Load
  BY <1>2, LoadStep DEF IInv, Applies, Load
<1>3. QED
  BY <1>1, <1>2, OpenStep, NodesStep, InPlaceStep, CommitStep, ArmStep, BesideStep DEF Next, Work

\* The invariant of every instance: what holds at each stage of the loop.
THEOREM Invariant == Spec => []IInv
<1>1. Init => IInv
  BY InitIInv
<1>2. IInv /\ [Next]_vars => IInv'
  BY NextIInv
<1>3. QED BY <1>1, <1>2, PTL DEF Spec

\* startRadio, stopRadio and radioUp: at most one modem is open, and between two arms a retry is pending
\* exactly while the radio is down.
THEOREM RetryOnlyWhenDown == Spec => []RetryIffDown
<1>1. IInv => RetryIffDown
  <2> SUFFICES ASSUME IInv PROVE RetryIffDown
    OBVIOUS
  <2>1. \E g : opened \subseteq {g}
    BY DEF IInv, Opened
  <2>2. Cardinality(opened) <= 1
    <3>1. PICK g : opened \subseteq {g}
      BY <2>1
    <3>2. CASE opened = {}
      <4>1. Cardinality(opened) = 0
        BY <3>2, FS_EmptySet
      <4>2. QED BY <4>1
    <3>3. CASE opened = {g}
      <4>1. Cardinality({g}) = 1
        BY FS_Singleton
      <4>2. Cardinality(opened) = 1
        BY <3>3, <4>1
      <4>3. QED BY <4>2
    <3>4. QED BY <3>1, <3>2, <3>3
  <2>3. QED BY <2>2 DEF IInv, TypeOK, Opened, Retrying, Down, RetryIffDown, AtRest
<1>2. QED BY <1>1, Invariant, PTL

\* A reload: between two arms what runs, the registry and the backend are of the configuration in force.
THEOREM ConfigInForce == Spec => []RunsItsConfig
<1>1. IInv => RunsItsConfig
  BY DEF IInv, Running, Built, Down, RunsItsConfig, AtRest
<1>2. QED BY <1>1, Invariant, PTL

\* The channel of one signal: no save is forgotten, whatever signals are lost.
THEOREM SavesReachTheLoop == Spec => []NoSaveForgotten
<1>1. IInv => NoSaveForgotten
  BY DEF IInv, TypeOK, Remembered, OnItsWay, NoSaveForgotten, AtRest
<1>2. QED BY <1>1, Invariant, PTL
-----------------------------------------------------------------------------
(***************************************************************************)
(* Proofs about the failover trigger, for any requests, channels and room: *)
(* one reply for each wait, none after another node's answer, none after   *)
(* Stop.  A request waits for one timer at a time, and the answers noted   *)
(* while it waits are exactly those its timer will find.                   *)
(***************************************************************************)

\* What a wait of request r has come to is no more than the waits it began.
Paid(r) ==
  handed[<<r, "waited">>] + sent[<<r, "waited">>] + (IF r \in pending THEN 1 ELSE 0) <= waits[r]

\* The timer of an answered request that still waits finds the answer.
AnswersNoted == pending \cap answered \subseteq suppressed

TriggerInv ==
  /\ TriggerTypeOK /\ IsFiniteSet(pending)
  /\ \A r \in Requests : Paid(r)
  /\ AnswersNoted

-----------------------------------------------------------------------------

\* Handing a reply out counts it once, and touches no other.
LEMMA HandOne ==
  ASSUME TriggerTypeOK, NEW r \in Requests, NEW how \in {"now", "waited"}, Hand(r, how)
  PROVE  /\ handed' \in [Replies -> Nat]
         /\ handed'[<<r, how>>] = handed[<<r, how>>] + 1
         /\ \A q \in Replies : q # <<r, how>> => handed'[q] = handed[q]
BY DEF TriggerTypeOK, Hand, Replies

\* armReply takes a request in only where there is room, or replies at once.
LEMMA WaitStep ==
  ASSUME TriggerInv, NEW r \in Requests, Wait(r), UNCHANGED sent
  PROVE  /\ handed' \in [Replies -> Nat] /\ waits' \in [Requests -> Nat]
         /\ pending \subseteq pending' /\ pending' \subseteq pending \cup {r}
         /\ IsFiniteSet(pending') /\ Cardinality(pending') <= maxPendingReplies
         /\ \A q \in Requests : Paid(q)'
         /\ \A q \in Requests : handed'[<<q, "waited">>] = handed[<<q, "waited">>]
<1>1. CASE r \in pending
  BY <1>1 DEF Wait, TriggerInv, TriggerTypeOK, Paid
<1>2. CASE r \notin pending /\ Cardinality(pending) >= maxPendingReplies
  <2>1. Hand(r, "now") /\ UNCHANGED <<pending, waits>>
    BY <1>2 DEF Wait
  <2>2. handed' \in [Replies -> Nat]
    BY <2>1, HandOne DEF TriggerInv
  <2>3. \A q \in Requests : handed'[<<q, "waited">>] = handed[<<q, "waited">>]
    BY <2>1, HandOne DEF TriggerInv, Replies
  <2>4. QED
    BY <2>1, <2>2, <2>3 DEF TriggerInv, TriggerTypeOK, Paid
<1>3. CASE r \notin pending /\ ~(Cardinality(pending) >= maxPendingReplies)
  <2>1. /\ pending' = pending \cup {r} /\ waits' = [waits EXCEPT ![r] = @ + 1]
        /\ UNCHANGED handed
    BY <1>3 DEF Wait
  <2>2. IsFiniteSet(pending') /\ Cardinality(pending') = Cardinality(pending) + 1
    BY <1>3, <2>1, FS_AddElement DEF TriggerInv
  <2>3. Cardinality(pending) \in Nat
    BY FS_CardinalityType DEF TriggerInv
  <2>4. Cardinality(pending') <= maxPendingReplies
    BY <1>3, <2>2, <2>3, LimitAssumption
  <2>5. ASSUME NEW q \in Requests PROVE Paid(q)'
    <3>1. handed[<<q, "waited">>] \in Nat /\ sent[<<q, "waited">>] \in Nat /\ waits[q] \in Nat
      BY DEF TriggerInv, TriggerTypeOK, Replies
    <3>2. CASE q = r
      BY <1>3, <2>1, <3>1, <3>2 DEF TriggerInv, TriggerTypeOK, Paid
    <3>3. CASE q # r
      BY <2>1, <3>1, <3>3 DEF TriggerInv, TriggerTypeOK, Paid
    <3>4. QED BY <3>2, <3>3
  <2>6. QED
    BY <2>1, <2>2, <2>4, <2>5 DEF TriggerInv, TriggerTypeOK
<1>4. QED BY <1>1, <1>2, <1>3

\* A timer that goes off leaves its request waiting no more.
LEMMA ExpireStep ==
  ASSUME TriggerInv, NEW r \in Requests, Expire(r)
  PROVE  /\ TriggerInv'
         /\ \A q \in Requests : handed'[<<q, "waited">>] > handed[<<q, "waited">>] => q \notin answered
         /\ ~Live => handed' = handed
<1>1. /\ r \in past /\ r \in pending
      /\ pending' = pending \ {r} /\ suppressed' = suppressed \ {r} /\ past' = past \ {r}
      /\ UNCHANGED <<running, cancelled, sent, heard, answered, waits>>
  BY DEF Expire, Retire, TriggerInv, TriggerTypeOK
<1>2. IsFiniteSet(pending') /\ Cardinality(pending') <= maxPendingReplies
  <2>1. IsFiniteSet(pending') /\ Cardinality(pending') = Cardinality(pending) - 1
    BY <1>1, FS_RemoveElement DEF TriggerInv
  <2>2. Cardinality(pending) \in Nat
    BY FS_CardinalityType DEF TriggerInv
  <2>3. QED BY <2>1, <2>2, LimitAssumption DEF TriggerInv, TriggerTypeOK
<1>3. CASE r \in suppressed \/ ~Live
  <2>1. UNCHANGED handed
    BY <1>3 DEF Expire
  <2>2. ASSUME NEW q \in Requests PROVE Paid(q)'
    <3>1. handed[<<q, "waited">>] \in Nat /\ sent[<<q, "waited">>] \in Nat /\ waits[q] \in Nat
      BY DEF TriggerInv, TriggerTypeOK, Replies
    <3>2. QED BY <1>1, <2>1, <3>1 DEF TriggerInv, Paid
  <2>3. TriggerTypeOK' /\ AnswersNoted'
    BY <1>1, <1>2, <2>1 DEF TriggerInv, TriggerTypeOK, AnswersNoted
  <2>4. \A q \in Requests : ~(handed'[<<q, "waited">>] > handed[<<q, "waited">>])
    <3> SUFFICES ASSUME NEW q \in Requests PROVE ~(handed'[<<q, "waited">>] > handed[<<q, "waited">>])
      OBVIOUS
    <3>1. handed[<<q, "waited">>] \in Nat
      BY DEF TriggerInv, TriggerTypeOK, Replies
    <3>2. handed'[<<q, "waited">>] = handed[<<q, "waited">>]
      BY <2>1
    <3>3. QED BY <3>1, <3>2
  <2>5. QED BY <1>2, <2>1, <2>2, <2>3, <2>4 DEF TriggerInv
<1>4. CASE r \notin suppressed /\ Live
  <2>1. Hand(r, "waited")
    BY <1>4 DEF Expire
  <2>2. /\ handed' \in [Replies -> Nat]
        /\ handed'[<<r, "waited">>] = handed[<<r, "waited">>] + 1
        /\ \A q \in Replies : q # <<r, "waited">> => handed'[q] = handed[q]
    BY <2>1, HandOne DEF TriggerInv
  <2>3. \A q \in Requests : q # r => handed'[<<q, "waited">>] = handed[<<q, "waited">>]
    BY <2>2 DEF Replies
  <2>4. ASSUME NEW q \in Requests PROVE Paid(q)'
    <3>1. handed[<<q, "waited">>] \in Nat /\ sent[<<q, "waited">>] \in Nat /\ waits[q] \in Nat
      BY DEF TriggerInv, TriggerTypeOK, Replies
    <3>2. CASE q = r
      BY <1>1, <2>2, <3>1, <3>2 DEF TriggerInv, Paid
    <3>3. CASE q # r
      BY <1>1, <2>3, <3>1, <3>3 DEF TriggerInv, Paid
    <3>4. QED BY <3>2, <3>3
  <2>5. TriggerTypeOK' /\ AnswersNoted'
    BY <1>1, <1>2, <2>2 DEF TriggerInv, TriggerTypeOK, AnswersNoted
  <2>6. r \notin answered
    BY <1>1, <1>4 DEF TriggerInv, AnswersNoted
  <2>7. \A q \in Requests : q # r => ~(handed'[<<q, "waited">>] > handed[<<q, "waited">>])
    <3>1. \A q \in Requests : handed[<<q, "waited">>] \in Nat
      BY DEF TriggerInv, TriggerTypeOK, Replies
    <3>2. QED BY <2>3, <3>1
  <2>8. QED BY <1>2, <1>4, <2>4, <2>5, <2>6, <2>7 DEF TriggerInv
<1>5. QED BY <1>3, <1>4

\* A reply sent is one handed out before.
LEMMA ReplyStep ==
  ASSUME TriggerInv, NEW r \in Requests, NEW how \in {"now", "waited"}, Reply(r, how)
  PROVE  TriggerInv' /\ \A q \in Replies : handed'[q] <= handed[q]
<1> DEFINE p == <<r, how>>
<1>1. /\ p \in Replies /\ handed[p] \in Nat /\ handed[p] > 0 /\ sent[p] \in Nat
      /\ handed' = [handed EXCEPT ![p] = @ - 1] /\ sent' = [sent EXCEPT ![p] = @ + 1]
      /\ UNCHANGED <<running, cancelled, pending, suppressed, past, heard, answered, waits>>
  BY DEF Reply, TriggerInv, TriggerTypeOK, Replies
<1>2. \A q \in Replies : /\ handed[q] \in Nat /\ sent[q] \in Nat
                         /\ handed'[q] = IF q = p THEN handed[q] - 1 ELSE handed[q]
                         /\ sent'[q] = IF q = p THEN sent[q] + 1 ELSE sent[q]
  <2>1. handed \in [Replies -> Nat] /\ sent \in [Replies -> Nat]
    BY DEF TriggerInv, TriggerTypeOK
  <2>2. QED BY <1>1, <2>1
<1>3. handed' \in [Replies -> Nat] /\ sent' \in [Replies -> Nat]
  <2>1. handed \in [Replies -> Nat] /\ sent \in [Replies -> Nat]
    BY DEF TriggerInv, TriggerTypeOK
  <2>2. handed[p] - 1 \in Nat /\ sent[p] + 1 \in Nat
    BY <1>1
  <2>3. QED BY <1>1, <2>1, <2>2
<1>4. ASSUME NEW q \in Requests PROVE Paid(q)'
  <2>1. <<q, "waited">> \in Replies /\ waits[q] \in Nat
    BY DEF TriggerInv, TriggerTypeOK, Replies
  <2>2. handed'[<<q, "waited">>] + sent'[<<q, "waited">>] = handed[<<q, "waited">>] + sent[<<q, "waited">>]
    BY <1>1, <1>2, <2>1
  <2>3. QED BY <1>1, <2>2 DEF TriggerInv, Paid
<1>5. \A q \in Replies : handed'[q] <= handed[q]
  BY <1>2
<1>6. TriggerTypeOK' /\ IsFiniteSet(pending') /\ AnswersNoted'
  BY <1>1, <1>3 DEF TriggerInv, TriggerTypeOK, AnswersNoted
<1>7. QED BY <1>4, <1>5, <1>6 DEF TriggerInv

\* A message heard adds answers to requests that wait, and perhaps a wait.
LEMMA HeardRequestStep ==
  ASSUME TriggerInv, NEW c \in Channels, NEW r \in c, HeardRequest(r, c)
  PROVE  TriggerInv' /\ Live /\ \A q \in Requests : handed'[<<q, "waited">>] = handed[<<q, "waited">>]
<1>0. r \in Requests
  BY DEF Requests
<1>1. /\ Live /\ Wait(r) /\ heard' \in 0..MaxHeard
      /\ UNCHANGED <<running, cancelled, past, sent>>
  BY LimitAssumption DEF HeardRequest, Hear, TriggerInv, TriggerTypeOK
<1>2. PICK hit \in SUBSET (Answerable(c) \ {r}) :
        /\ suppressed' = suppressed \cup hit
        /\ answered' = (IF r \in pending THEN answered ELSE answered \ {r}) \cup hit
  BY DEF HeardRequest
<1>3. hit \subseteq pending
  BY <1>2 DEF Answerable
<1>4. /\ handed' \in [Replies -> Nat] /\ waits' \in [Requests -> Nat]
      /\ pending \subseteq pending' /\ pending' \subseteq pending \cup {r}
      /\ IsFiniteSet(pending') /\ Cardinality(pending') <= maxPendingReplies
      /\ \A q \in Requests : Paid(q)'
      /\ \A q \in Requests : handed'[<<q, "waited">>] = handed[<<q, "waited">>]
  BY <1>0, <1>1, WaitStep
<1>5. TriggerTypeOK'
  BY <1>0, <1>1, <1>2, <1>3, <1>4 DEF TriggerInv, TriggerTypeOK
<1>6. AnswersNoted'
  BY <1>2, <1>3, <1>4 DEF TriggerInv, AnswersNoted
<1>7. QED BY <1>1, <1>4, <1>5, <1>6 DEF TriggerInv

\* So does another node's answer, which hands nothing out and begins no wait.
LEMMA HeardAnswerStep ==
  ASSUME TriggerInv, NEW c \in Channels, HeardAnswer(c)
  PROVE  TriggerInv' /\ UNCHANGED handed
<1>1. heard' \in 0..MaxHeard
  BY LimitAssumption DEF HeardAnswer, Hear, TriggerInv, TriggerTypeOK
<1>2. PICK hit \in SUBSET Answerable(c) : suppressed' = suppressed \cup hit /\ answered' = answered \cup hit
  BY DEF HeardAnswer
<1>3. hit \subseteq pending
  BY <1>2 DEF Answerable
<1>4. UNCHANGED <<running, cancelled, pending, past, handed, sent, waits>>
  BY DEF HeardAnswer
<1>5. TriggerTypeOK' /\ AnswersNoted'
  BY <1>1, <1>2, <1>3, <1>4 DEF TriggerInv, TriggerTypeOK, AnswersNoted
<1>6. QED BY <1>4, <1>5 DEF TriggerInv, Paid

\* A deadline, CancelContext and Stop hand nothing out; Stop forgets who waits.
LEMMA QuietStep ==
  ASSUME TriggerInv, (\E r \in Requests : Deadline(r)) \/ CancelContext \/ Stop \/ UNCHANGED triggerVars
  PROVE  TriggerInv' /\ UNCHANGED handed
<1>1. CASE \E r \in Requests : Deadline(r)
  BY <1>1 DEF Deadline, TriggerInv, TriggerTypeOK, AnswersNoted, Paid
<1>2. CASE CancelContext
  BY <1>2 DEF CancelContext, TriggerInv, TriggerTypeOK, AnswersNoted, Paid
<1>3. CASE Stop
  <2>1. /\ running' = FALSE /\ pending' = {} /\ suppressed' = {} /\ past' = {}
        /\ UNCHANGED <<cancelled, handed, sent, heard, answered, waits>>
    BY <1>3 DEF Stop
  <2>2. IsFiniteSet({}) /\ Cardinality({}) = 0
    BY FS_EmptySet
  <2>3. TriggerTypeOK' /\ AnswersNoted'
    <3>1. Cardinality(pending') = 0
      BY <2>1, <2>2
    <3>2. Cardinality(pending') <= maxPendingReplies
      BY <3>1, LimitAssumption
    <3>3. QED BY <2>1, <3>2 DEF TriggerInv, TriggerTypeOK, AnswersNoted
  <2>4. ASSUME NEW q \in Requests PROVE Paid(q)'
    <3>1. handed[<<q, "waited">>] \in Nat /\ sent[<<q, "waited">>] \in Nat /\ waits[q] \in Nat
      BY DEF TriggerInv, TriggerTypeOK, Replies
    <3>2. QED BY <2>1, <3>1 DEF TriggerInv, Paid
  <2>5. QED BY <2>1, <2>2, <2>3, <2>4 DEF TriggerInv
<1>4. CASE UNCHANGED triggerVars
  BY <1>4 DEF triggerVars, TriggerInv, TriggerTypeOK, AnswersNoted, Paid
<1>5. QED BY <1>1, <1>2, <1>3, <1>4
-----------------------------------------------------------------------------

\* What no step of NoLateReply's may do.
NoLateStep ==
  /\ \A r \in Requests : handed'[<<r, "waited">>] > handed[<<r, "waited">>] => r \notin answered
  /\ ~Live => \A r \in Replies : handed'[r] <= handed[r]

\* A trigger that starts has nobody waiting.
LEMMA TriggerInitInv == TriggerInit => TriggerInv
<1> SUFFICES ASSUME TriggerInit PROVE TriggerInv
  OBVIOUS
<1>1. IsFiniteSet({}) /\ Cardinality({}) = 0
  BY FS_EmptySet
<1>2. TriggerTypeOK
  <2>1. pending = {} /\ Cardinality(pending) = 0
    BY <1>1 DEF TriggerInit
  <2>2. Cardinality(pending) <= maxPendingReplies /\ 0 \in 0..MaxHeard
    BY <2>1, LimitAssumption
  <2>3. QED BY <2>1, <2>2 DEF TriggerInit, TriggerTypeOK
<1>3. \A r \in Requests : Paid(r)
  BY DEF TriggerInit, Paid, Replies
<1>4. QED BY <1>1, <1>2, <1>3 DEF TriggerInv, TriggerInit, AnswersNoted

\* Every step keeps the invariant, and none hands out a reply too late.
LEMMA TriggerNextInv == TriggerInv /\ [TriggerNext]_triggerVars => TriggerInv' /\ NoLateStep
<1> SUFFICES ASSUME TriggerInv, [TriggerNext]_triggerVars PROVE TriggerInv' /\ NoLateStep
  OBVIOUS
<1>0. \A q \in Replies : handed[q] \in Nat
  BY DEF TriggerInv, TriggerTypeOK
<1>1. \A r \in Requests : <<r, "waited">> \in Replies
  BY DEF Replies
<1>2. ASSUME UNCHANGED handed PROVE NoLateStep
  BY <1>0, <1>1, <1>2 DEF NoLateStep
<1>3. ASSUME NEW c \in Channels, NEW r \in c, HeardRequest(r, c) PROVE TriggerInv' /\ NoLateStep
  <2>1. TriggerInv' /\ Live /\ \A q \in Requests : handed'[<<q, "waited">>] = handed[<<q, "waited">>]
    BY <1>3, HeardRequestStep
  <2>2. QED BY <1>0, <1>1, <2>1 DEF NoLateStep
<1>4. ASSUME NEW r \in Requests, Expire(r) PROVE TriggerInv' /\ NoLateStep
  <2>1. /\ TriggerInv'
        /\ \A q \in Requests : handed'[<<q, "waited">>] > handed[<<q, "waited">>] => q \notin answered
        /\ ~Live => handed' = handed
    BY <1>4, ExpireStep
  <2>2. QED BY <1>0, <2>1 DEF NoLateStep
<1>5. ASSUME NEW r \in Requests, NEW how \in {"now", "waited"}, Reply(r, how) PROVE TriggerInv' /\ NoLateStep
  <2>1. TriggerInv' /\ \A q \in Replies : handed'[q] <= handed[q]
    BY <1>5, ReplyStep
  <2>2. \A q \in Replies : handed'[q] \in Nat
    BY <2>1 DEF TriggerInv, TriggerTypeOK
  <2>3. QED BY <1>0, <1>1, <2>1, <2>2 DEF NoLateStep
<1>6. ASSUME NEW c \in Channels, HeardAnswer(c) PROVE TriggerInv' /\ NoLateStep
  BY <1>2, <1>6, HeardAnswerStep
<1>7. CASE (\E r \in Requests : Deadline(r)) \/ CancelContext \/ Stop \/ UNCHANGED triggerVars
  BY <1>2, <1>7, QuietStep
<1>8. QED BY <1>3, <1>4, <1>5, <1>6, <1>7 DEF TriggerNext

\* The invariant of every instance: a request waits for one timer at a time, its answers are noted.
THEOREM TriggerInvariant == TriggerSpec => []TriggerInv
<1>1. TriggerInit => TriggerInv
  BY TriggerInitInv
<1>2. TriggerInv /\ [TriggerNext]_triggerVars => TriggerInv'
  BY TriggerNextInv
<1>3. QED BY <1>1, <1>2, PTL DEF TriggerSpec

\* armReply and expireReply: a wait ends in at most one reply, however often its request is heard again.
THEOREM OneReply == TriggerSpec => []OneReplyPerWait
<1>1. TriggerInv => OneReplyPerWait
  BY DEF TriggerInv, OneReplyPerWait, Paid
<1>2. QED BY <1>1, TriggerInvariant, PTL

\* Nothing is handed out for a request another node answered while it waited, nor by a trigger that was
\* stopped or cancelled.
THEOREM NoReplyTooLate == TriggerSpec => NoLateReply
<1>1. TriggerInv /\ [TriggerNext]_triggerVars => [NoLateStep]_triggerVars
  BY TriggerNextInv
<1>2. NoLateReply <=> [][NoLateStep]_triggerVars
  BY DEF NoLateReply, NoLateStep
<1>3. QED BY <1>1, <1>2, TriggerInvariant, PTL DEF TriggerSpec

-----------------------------------------------------------------------------
(* The store's writer, for any number of callers and any depth of its      *)
(* queue.  The inductive invariant says where the closure of a call can be *)
(* at each stage of the call, which is what makes the ways through         *)
(* WriteSync exclude each other.                                           *)

Queue == 1 .. Len(writerCh)

\* A closure is in the queue once, while its caller waits or has gone; until
\* the writer stops it has not run.
QueueInv ==
  /\ \A i, j \in Queue : writerCh[i] = writerCh[j] => i = j
  /\ \A i \in Queue :
       /\ writerCh[i] # current
       /\ pc[writerCh[i]] \notin {"idle", "checked", "refused"}
       /\ writer # "done" => /\ runs[writerCh[i]] = 0
                             /\ pc[writerCh[i]] \in {"sent", "waiting"}

\* The closure the writer is running has not run before.
CurrentInv ==
  current # None => /\ writer # "done"
                    /\ runs[current] = 0
                    /\ pc[current] \in {"sent", "waiting"}

\* What the stage of a call says about its closure.
CallInv ==
  \A c \in Calls :
    /\ c \in AsyncCalls => pc[c] \in {"idle", "checked", "sent", "refused"}
    /\ c \in SyncCalls => pc[c] \notin {"checked", "sent", "refused"}
    /\ pc[c] \in {"idle", "checked", "refused", "after", "late"} => runs[c] = 0
    /\ pc[c] = "waiting" => runs[c] = IF c \in done THEN 1 ELSE 0
    /\ pc[c] = "returned" => runs[c] = 1
    /\ pc[c] = "sent" => runs[c] <= 1
    /\ c \in done => pc[c] \in {"waiting", "returned"}
    /\ pc[c] = "late" => writer = "done"

\* Nobody gets past closeOnce, or closes the database, before the drain ended.
CloseInv ==
  /\ once = "done" => writer = "done"
  /\ \A k \in Closers : closer[k] \in {"drained", "closed"} => writer = "done"
  /\ ~dbOpen => writer = "done"
  /\ writer # "select" => closing

WriterIInv == WriterTypeOK /\ QueueInv /\ CurrentInv /\ CallInv /\ CloseInv

-----------------------------------------------------------------------------

\* A send that fits keeps the queue a sequence of calls within its capacity.
LEMMA EnqueueType ==
  ASSUME WriterTypeOK, NEW c \in Calls, Enqueue(c)
  PROVE writerCh' \in Seq(Calls) /\ Len(writerCh') <= writerQueueDepth
<1>1. writerCh \in Seq(Calls) /\ Len(writerCh) \in Nat
  BY DEF WriterTypeOK
<1>2. Append(writerCh, c) \in Seq(Calls) /\ Len(Append(writerCh, c)) = Len(writerCh) + 1
  BY <1>1, AppendProperties
<1>3. QED BY <1>1, <1>2, DepthAssumption DEF Enqueue

\* A closure that runs keeps the log a sequence of calls.
LEMMA ApplyType ==
  ASSUME WriterTypeOK, NEW c \in Calls, Apply(c)
  PROVE runs' \in [Calls -> Nat] /\ log' \in Seq(Calls)
<1>1. Append(log, c) \in Seq(Calls)
  BY AppendProperties DEF WriterTypeOK
<1>2. QED BY <1>1 DEF Apply, WriterTypeOK

\* A checkpoint copies a number of writes and is owed to saves.
LEMMA CheckpointType ==
  ASSUME WriterTypeOK, NEW written, NEW saves \in SUBSET SyncCalls, CheckpointOf(written, saves)
  PROVE durable' \in Nat /\ owed' \in SUBSET SyncCalls
<1>1. durable' \in durable .. written /\ durable \in Nat
  BY DEF CheckpointOf, WriterTypeOK
<1>2. durable' \in Nat
  BY <1>1
<1>3. QED BY <1>2 DEF CheckpointOf, WriterTypeOK

\* The writer's state keeps its type in every step of every caller.
LEMMA TypeInvariant == WriterTypeOK /\ [WriterNext]_writerVars => WriterTypeOK'
<1> USE DepthAssumption
<1> SUFFICES ASSUME WriterTypeOK, [WriterNext]_writerVars PROVE WriterTypeOK'
  OBVIOUS
<1>0. AsyncCalls \subseteq Calls /\ SyncCalls \subseteq Calls
  BY DEF Calls
<1>1. ASSUME NEW c \in AsyncCalls, AsyncCheck(c) PROVE WriterTypeOK'
  <2>1. ahead' \in [Calls -> SUBSET Calls]
    BY <1>1 DEF WriterTypeOK, AsyncCheck, Note, Accepted
  <2>2. pc' \in [Calls -> CallStates]
    BY <1>0, <1>1 DEF WriterTypeOK, AsyncCheck, Start, CallStates
  <2>3. QED BY <1>1, <2>1, <2>2 DEF WriterTypeOK, AsyncCheck
<1>2. ASSUME NEW c \in AsyncCalls, AsyncSend(c) PROVE WriterTypeOK'
  <2>1. pc' \in [Calls -> CallStates]
    BY <1>0, <1>2 DEF WriterTypeOK, AsyncSend, Start, CallStates
  <2>2. writerCh' \in Seq(Calls) /\ Len(writerCh') <= writerQueueDepth
    BY <1>0, <1>2, EnqueueType DEF WriterTypeOK, AsyncSend
  <2>3. dropped' \in Nat
    BY <1>2 DEF WriterTypeOK, AsyncSend
  <2>4. QED BY <1>2, <2>1, <2>2, <2>3 DEF WriterTypeOK, AsyncSend
<1>3. ASSUME NEW c \in SyncCalls, SyncSend(c) PROVE WriterTypeOK'
  <2>1. ahead' \in [Calls -> SUBSET Calls]
    BY <1>3 DEF WriterTypeOK, SyncSend, Note, Accepted
  <2>2. pc' \in [Calls -> CallStates]
    BY <1>0, <1>3 DEF WriterTypeOK, SyncSend, Start, CallStates
  <2>3. writerCh' \in Seq(Calls) /\ Len(writerCh') <= writerQueueDepth
    BY <1>0, <1>3, EnqueueType DEF WriterTypeOK, SyncSend
  <2>4. QED BY <1>3, <2>1, <2>2, <2>3 DEF WriterTypeOK, SyncSend
<1>4. ASSUME NEW c \in SyncCalls,
             SyncDone(c) \/ SyncLate(c) \/ AfterCloseBegin(c) \/ AfterCloseRun(c)
      PROVE WriterTypeOK'
  <2>1. pc' \in [Calls -> CallStates]
    BY <1>0, <1>4 DEF WriterTypeOK, SyncDone, SyncLate, AfterCloseBegin, AfterCloseRun,
       Start, AfterDrain, CallStates
  <2>2. runs' \in [Calls -> Nat] /\ log' \in Seq(Calls)
    BY <1>0, <1>4, ApplyType DEF WriterTypeOK, SyncDone, SyncLate, AfterCloseBegin,
       AfterCloseRun
  <2>3. QED BY <1>4, <2>1, <2>2 DEF WriterTypeOK, SyncDone, SyncLate, AfterCloseBegin,
            AfterCloseRun
<1>5. CASE Take
  BY <1>5 DEF WriterTypeOK, Take, Pop
<1>6. CASE RunCurrent
  <2>1. current \in Calls
    BY <1>6 DEF RunCurrent, WriterTypeOK
  <2>2. log' \in Seq(Calls) /\ runs' \in [Calls -> Nat]
    BY <1>6, <2>1, ApplyType DEF RunCurrent
  <2>3. durable' \in Nat /\ owed' \in SUBSET SyncCalls
    BY <1>6, CheckpointType DEF RunCurrent, Checkpoint, WriterTypeOK
  <2>4. done' \in SUBSET SyncCalls
    BY <1>6 DEF RunCurrent, WriterTypeOK
  <2>5. QED BY <1>6, <2>1, <2>2, <2>3, <2>4 DEF RunCurrent, WriterTypeOK
<1>7. CASE BeginDrain \/ EndDrain
  BY <1>7 DEF WriterTypeOK, BeginDrain, EndDrain
<1>8. ASSUME NEW k \in Closers, CloseStep(k) PROVE WriterTypeOK'
  <2>1. closer' \in [Closers -> {"idle", "waiting", "drained", "closed"}]
    BY <1>8 DEF WriterTypeOK, CloseStep, CloseBegin, CloseDrained, CloseAgain, CloseDb
  <2>2. durable' \in Nat /\ owed' \in SUBSET SyncCalls
    BY <1>8, CheckpointType DEF WriterTypeOK, CloseStep, CloseBegin, CloseDrained, CloseAgain, CloseDb
  <2>3. QED BY <1>8, <2>1, <2>2
        DEF WriterTypeOK, CloseStep, CloseBegin, CloseDrained, CloseAgain, CloseDb
<1>9. CASE UNCHANGED writerVars
  BY <1>9 DEF WriterTypeOK, writerVars
<1>10. QED
  BY <1>1, <1>2, <1>3, <1>4, <1>5, <1>6, <1>7, <1>8, <1>9
  DEF WriterNext, AsyncStep, SyncStep, WriterStep, Finished

-----------------------------------------------------------------------------

LEMMA InitInv == WriterInit => WriterIInv
<1> SUFFICES ASSUME WriterInit PROVE WriterIInv
  OBVIOUS
<1>1. WriterTypeOK
  <2>1. << >> \in Seq(Calls) /\ Len(<< >>) = 0
    BY EmptySeq
  <2>2. writerCh \in Seq(Calls) /\ Len(writerCh) <= writerQueueDepth /\ log \in Seq(Calls)
    BY <2>1, DepthAssumption DEF WriterInit
  <2>3. /\ pc \in [Calls -> CallStates] /\ runs \in [Calls -> Nat]
        /\ closer \in [Closers -> {"idle", "waiting", "drained", "closed"}]
        /\ ahead \in [Calls -> SUBSET Calls]
    BY DEF WriterInit, CallStates
  <2>4. QED BY <2>2, <2>3 DEF WriterInit, WriterTypeOK
<1>2. QueueInv /\ CurrentInv
  BY DEF WriterInit, QueueInv, Queue, CurrentInv
<1>3. CallInv /\ CloseInv
  BY CallsAssumption DEF WriterInit, CallInv, CloseInv, Calls
<1>4. QED BY <1>1, <1>2, <1>3 DEF WriterIInv

\* A closure is appended to the queue once, by the caller that leaves for it.
LEMMA SendInv ==
  ASSUME WriterIInv, NEW c \in Calls, Enqueue(c),
         NEW s, \/ c \in AsyncCalls /\ pc[c] = "checked" /\ s = "sent"
                \/ c \in SyncCalls /\ pc[c] = "idle" /\ s = "waiting",
         pc' = [pc EXCEPT ![c] = s],
         UNCHANGED <<closing, writer, current, done, runs, once, closer, dbOpen>>
  PROVE (QueueInv /\ CurrentInv /\ CallInv /\ CloseInv)'
<1> USE CallsAssumption, DepthAssumption DEF Calls
<1>1. /\ writerCh \in Seq(Calls)
      /\ Len(writerCh') = Len(writerCh) + 1
      /\ \A i \in Queue : writerCh'[i] = writerCh[i]
      /\ writerCh'[Len(writerCh) + 1] = c
  BY DEF WriterIInv, WriterTypeOK, Enqueue, Queue
<1>2. \A i \in Queue : writerCh[i] # c
  BY DEF WriterIInv, QueueInv
<1>3. c # current
  BY DEF WriterIInv, CurrentInv
<1>4. QueueInv'
  <2>1. Queue' = Queue \cup {Len(writerCh) + 1} /\ Len(writerCh) + 1 \notin Queue
    BY <1>1 DEF Queue
  <2>2. \A i, j \in Queue' : writerCh'[i] = writerCh'[j] => i = j
    BY <1>1, <1>2, <2>1 DEF WriterIInv, QueueInv
  <2>3. runs[c] = 0
    BY DEF WriterIInv, CallInv
  <2>4. \A i \in Queue : writerCh[i] \in Calls
    BY <1>1 DEF Queue
  <2>5. QED BY <1>1, <1>2, <1>3, <2>1, <2>2, <2>3, <2>4 DEF WriterIInv, QueueInv, WriterTypeOK
<1>5. CurrentInv'
  BY <1>3 DEF WriterIInv, CurrentInv, WriterTypeOK
<1>6. CallInv' /\ CloseInv'
  BY DEF WriterIInv, CallInv, CloseInv, WriterTypeOK
<1>7. QED BY <1>4, <1>5, <1>6

\* A step that moves one call on and leaves the queue and the writer alone.
LEMMA MoveInv ==
  ASSUME WriterIInv, NEW c \in Calls, NEW s,
         pc' = [pc EXCEPT ![c] = s],
         \/ c \in AsyncCalls /\ pc[c] = "idle" /\ s \in {"refused", "checked"}
         \/ c \in AsyncCalls /\ pc[c] = "checked" /\ s = "refused"
         \/ c \in SyncCalls /\ pc[c] = "idle" /\ s = "after"
         \/ c \in SyncCalls /\ pc[c] = "waiting" /\ c \in done /\ s = "returned"
         \/ /\ c \in SyncCalls /\ pc[c] = "waiting" /\ writer = "done"
            /\ c \notin done /\ s = "after"
         \/ c \in SyncCalls /\ pc[c] = "after" /\ writer = "done" /\ s = "late",
         UNCHANGED <<writerCh, closing, writer, current, done, runs, once, closer,
                     dbOpen>>
  PROVE (QueueInv /\ CurrentInv /\ CallInv /\ CloseInv)'
<1> USE CallsAssumption DEF Calls
<1>1. \A i \in Queue : writerCh[i] \in Calls
  BY DEF WriterIInv, WriterTypeOK, Queue
<1>2. ASSUME c \in done PROVE /\ \A i \in Queue : writer # "done" => writerCh[i] # c
                              /\ current # c
  BY <1>1, <1>2 DEF WriterIInv, QueueInv, CurrentInv, CallInv
<1>3. QueueInv'
  BY <1>1, <1>2 DEF WriterIInv, QueueInv, Queue, WriterTypeOK
<1>4. CurrentInv'
  BY <1>2 DEF WriterIInv, CurrentInv, WriterTypeOK
<1>5. CallInv' /\ CloseInv'
  BY DEF WriterIInv, CallInv, CloseInv, WriterTypeOK
<1>6. QED BY <1>3, <1>4, <1>5

LEMMA StepInv == WriterIInv /\ [WriterNext]_writerVars => WriterIInv'
<1> USE CallsAssumption DEF Calls
<1> SUFFICES ASSUME WriterIInv, [WriterNext]_writerVars PROVE (QueueInv /\ CurrentInv /\ CallInv /\ CloseInv)'
  BY TypeInvariant DEF WriterIInv
<1>0. \A i \in Queue : writerCh[i] \in Calls
  BY DEF WriterIInv, WriterTypeOK, Queue
<1>1. ASSUME NEW c \in AsyncCalls, AsyncCheck(c)
      PROVE (QueueInv /\ CurrentInv /\ CallInv /\ CloseInv)'
  BY <1>1, MoveInv DEF AsyncCheck, Start
<1>2. ASSUME NEW c \in AsyncCalls, AsyncSend(c)
      PROVE (QueueInv /\ CurrentInv /\ CallInv /\ CloseInv)'
  <2>1. CASE Enqueue(c) /\ Start(c, "sent")
    BY <1>2, <2>1, SendInv DEF AsyncSend, Start
  <2>2. CASE Start(c, "refused") /\ UNCHANGED writerCh
    BY <1>2, <2>2, MoveInv DEF AsyncSend, Start
  <2>3. QED BY <1>2, <2>1, <2>2 DEF AsyncSend
<1>3. ASSUME NEW c \in SyncCalls, SyncSend(c)
      PROVE (QueueInv /\ CurrentInv /\ CallInv /\ CloseInv)'
  <2>1. CASE Enqueue(c) /\ Start(c, "waiting")
    BY <1>3, <2>1, SendInv DEF SyncSend, Start
  <2>2. CASE Start(c, "after") /\ UNCHANGED writerCh
    BY <1>3, <2>2, MoveInv DEF SyncSend, Start
  <2>3. QED BY <1>3, <2>1, <2>2 DEF SyncSend
<1>4. ASSUME NEW c \in SyncCalls, SyncDone(c)
      PROVE (QueueInv /\ CurrentInv /\ CallInv /\ CloseInv)'
  BY <1>4, MoveInv DEF SyncDone, Start
<1>5. ASSUME NEW c \in SyncCalls, SyncLate(c)
      PROVE (QueueInv /\ CurrentInv /\ CallInv /\ CloseInv)'
  BY <1>5, MoveInv DEF SyncLate, Start, AfterDrain
<1>6. ASSUME NEW c \in SyncCalls, AfterCloseBegin(c)
      PROVE (QueueInv /\ CurrentInv /\ CallInv /\ CloseInv)'
  BY <1>6, MoveInv DEF AfterCloseBegin, Start
<1>7. ASSUME NEW c \in SyncCalls, AfterCloseRun(c)
      PROVE (QueueInv /\ CurrentInv /\ CallInv /\ CloseInv)'
  <2>1. writer = "done" /\ current = None /\ runs[c] = 0 /\ c \notin done
    BY <1>7 DEF AfterCloseRun, WriterIInv, CallInv, CurrentInv
  <2>2. runs' = [runs EXCEPT ![c] = 1] /\ pc' = [pc EXCEPT ![c] = "returned"]
    BY <1>7, <2>1 DEF AfterCloseRun, Apply, Start, WriterIInv, WriterTypeOK
  <2>3. QueueInv'
    BY <1>0, <1>7, <2>1, <2>2 DEF AfterCloseRun, WriterIInv, QueueInv, Queue, WriterTypeOK
  <2>4. CallInv'
    BY <1>7, <2>1, <2>2 DEF AfterCloseRun, WriterIInv, CallInv, WriterTypeOK
  <2>5. QED BY <1>7, <2>1, <2>3, <2>4 DEF AfterCloseRun, WriterIInv, CurrentInv, CloseInv
<1>8. CASE Take
  <2>1. /\ writerCh # << >> /\ 1 \in Queue
        /\ current' = writerCh[1]
        /\ Queue' = 1 .. Len(writerCh) - 1
        /\ \A i \in Queue' : i + 1 \in Queue /\ writerCh'[i] = writerCh[i + 1]
    BY <1>8, HeadTailProperties DEF Take, Pop, Queue, WriterIInv, WriterTypeOK
  <2>2. QueueInv'
    <3>1. ASSUME NEW i \in Queue', NEW j \in Queue', writerCh'[i] = writerCh'[j]
          PROVE i = j
      <4>1. i + 1 = j + 1
        BY <2>1, <3>1 DEF WriterIInv, QueueInv
      <4>2. QED BY <2>1, <4>1 DEF Queue
    <3>2. ASSUME NEW i \in Queue'
          PROVE /\ writerCh'[i] # current'
                /\ pc[writerCh'[i]] \notin {"idle", "checked", "refused"}
                /\ writer # "done" => /\ runs[writerCh'[i]] = 0
                                      /\ pc[writerCh'[i]] \in {"sent", "waiting"}
      <4>1. i + 1 \in Queue /\ i + 1 # 1
        BY <2>1 DEF Queue
      <4>2. QED BY <2>1, <4>1 DEF WriterIInv, QueueInv
    <3>3. QED BY <1>8, <3>1, <3>2 DEF Take, QueueInv
  <2>3. CurrentInv'
    BY <1>0, <1>8, <2>1 DEF Take, WriterIInv, QueueInv, CurrentInv
  <2>4. QED BY <1>8, <2>2, <2>3 DEF Take, WriterIInv, CallInv, CloseInv
<1>9. CASE RunCurrent
  <2>1. current \in Calls /\ runs[current] = 0 /\ writer # "done"
    BY <1>9 DEF RunCurrent, WriterIInv, CurrentInv, WriterTypeOK
  <2>2. runs' = [runs EXCEPT ![current] = 1]
    BY <1>9, <2>1 DEF RunCurrent, Apply, WriterIInv, WriterTypeOK
  <2>3. QueueInv'
    BY <1>0, <1>9, <2>1, <2>2, CallsAssumption
    DEF RunCurrent, WriterIInv, QueueInv, Queue, WriterTypeOK
  <2>4. CallInv'
    BY <1>9, <2>1, <2>2 DEF RunCurrent, WriterIInv, CallInv, CurrentInv, WriterTypeOK
  <2>5. QED BY <1>9, <2>3, <2>4 DEF RunCurrent, WriterIInv, CurrentInv, CloseInv
<1>10. CASE BeginDrain \/ EndDrain
  BY <1>10 DEF BeginDrain, EndDrain, WriterIInv, QueueInv, Queue, CurrentInv, CallInv,
     CloseInv
<1>11. ASSUME NEW k \in Closers, CloseStep(k)
       PROVE (QueueInv /\ CurrentInv /\ CallInv /\ CloseInv)'
  <2>1. QueueInv' /\ CurrentInv' /\ CallInv'
    BY <1>11 DEF CloseStep, CloseBegin, CloseDrained, CloseAgain, CloseDb, WriterIInv,
       QueueInv, Queue, CurrentInv, CallInv
  <2>2. CloseInv'
    BY <1>11 DEF CloseStep, CloseBegin, CloseDrained, CloseAgain, CloseDb,
       DrainAwaited, WriterIInv, CloseInv, WriterTypeOK
  <2>3. QED BY <2>1, <2>2
<1>12. CASE UNCHANGED writerVars
  BY <1>12 DEF writerVars, WriterIInv, QueueInv, Queue, CurrentInv, CallInv, CloseInv
<1>13. QED
  BY <1>1, <1>2, <1>3, <1>4, <1>5, <1>6, <1>7, <1>8, <1>9, <1>10, <1>11, <1>12
  DEF WriterNext, AsyncStep, SyncStep, WriterStep, Finished

\* The inductive invariant holds throughout.
THEOREM WriterInvariant == WriterSpec => []WriterIInv
  BY InitInv, StepInv, PTL DEF WriterSpec

-----------------------------------------------------------------------------

\* The writer's and the callers' state is well typed, and writerCh never holds
\* more than its capacity.
THEOREM TypeCorrect == WriterSpec => []WriterTypeOK
<1>1. WriterIInv => WriterTypeOK
  BY DEF WriterIInv
<1>2. QED BY <1>1, WriterInvariant, PTL

\* No closure runs twice, and WriteSync never returns without its closure
\* having run, however Close races it.
THEOREM ClosuresRunOnce == WriterSpec => []ExactlyOnce
<1>1. WriterIInv => ExactlyOnce
  BY CallsAssumption DEF WriterIInv, CallInv, ExactlyOnce, WriterTypeOK, CallStates, Calls
<1>2. QED BY <1>1, WriterInvariant, PTL

\* A caller runs its own closure only after the writer has stopped.
THEOREM WriterRunsAlone == WriterSpec => []WriterAlone
<1>1. WriterIInv => WriterAlone
  BY DEF WriterIInv, CallInv, CurrentInv, WriterAlone, Calls
<1>2. QED BY <1>1, WriterInvariant, PTL

\* The database is open whenever the writer runs a closure.
THEOREM DatabaseOpenForWriter == WriterSpec => []WriterHasDatabase
<1>1. WriterIInv => WriterHasDatabase
  BY DEF WriterIInv, CloseInv, CurrentInv, WriterHasDatabase
<1>2. QED BY <1>1, WriterInvariant, PTL

-----------------------------------------------------------------------------
(* Durability: the checkpoint follows the write and precedes done.  A save *)
(* it did not reach is owed one, and is on disk once one has reached all.  *)

DurableInv ==
  /\ durable \in 0 .. Len(log)
  /\ \A c \in done : \E i \in 1 .. Len(log) : log[i] = c
  /\ \A c \in done \ owed : \E i \in 1 .. durable : log[i] = c

LEMMA DurableInit == WriterInit => DurableInv
<1>1. Len(<< >>) = 0
  BY EmptySeq
<1>2. QED BY <1>1 DEF WriterInit, DurableInv

\* A checkpoint of a log that holds every save served leaves on disk all that it is not owed to.
LEMMA CheckpointStep ==
  ASSUME NEW saves, NEW L \in Nat, L = Len(log'), durable \in 0 .. L,
         \A c \in done' : \E i \in 1 .. L : log'[i] = c,
         \A c \in done' \ (owed \cup saves) : \E i \in 1 .. durable : log'[i] = c,
         CheckpointOf(L, saves)
  PROVE  DurableInv'
<1>1. PICK reach \in durable .. L : /\ durable' = reach
                                  /\ owed' = IF reach = L THEN {} ELSE owed \cup saves
  BY DEF CheckpointOf
<1>2. durable \in Nat /\ reach \in 0 .. L /\ 1 .. durable \subseteq 1 .. reach
  BY <1>1
<1>3. CASE reach = L
  BY <1>1, <1>2, <1>3 DEF DurableInv
<1>4. CASE reach # L
  <2>1. ASSUME NEW c \in done' \ owed' PROVE \E i \in 1 .. reach : log'[i] = c
    BY <1>1, <1>2, <1>4, <2>1
  <2>2. QED BY <1>1, <1>2, <2>1 DEF DurableInv
<1>5. QED BY <1>3, <1>4

LEMMA DurableStep == WriterIInv /\ DurableInv /\ [WriterNext]_writerVars => DurableInv'
<1> SUFFICES ASSUME WriterIInv, DurableInv, [WriterNext]_writerVars PROVE DurableInv'
  OBVIOUS
<1>0. log \in Seq(Calls) /\ Len(log) \in Nat /\ durable \in 0 .. Len(log)
  BY DEF WriterIInv, WriterTypeOK, DurableInv
<1>1. ASSUME NEW c \in Calls, log' = Append(log, c)
      PROVE /\ Len(log') = Len(log) + 1
            /\ log'[Len(log) + 1] = c
            /\ \A i \in 1 .. Len(log) : log'[i] = log[i]
  BY <1>0, <1>1, AppendProperties
<1>2. CASE RunCurrent
  <2>1. current \in Calls /\ log' = Append(log, current)
    BY <1>2 DEF RunCurrent, Apply, WriterIInv, WriterTypeOK, CurrentInv, CloseInv
  <2>2. /\ Len(log') = Len(log) + 1
        /\ log'[Len(log) + 1] = current
        /\ \A i \in 1 .. Len(log) : log'[i] = log[i]
    BY <1>1, <2>1
  <2>3. CASE current \in SyncCalls
    <3>1. done' = done \cup {current} /\ CheckpointOf(Len(log'), {current})
      BY <1>2, <2>3 DEF RunCurrent, Checkpoint
    <3>2. \A c \in done' : \E i \in 1 .. Len(log) + 1 : log'[i] = c
      BY <1>0, <2>2, <3>1 DEF DurableInv
    <3>3. ASSUME NEW c \in done' \ (owed \cup {current}) PROVE \E i \in 1 .. durable : log'[i] = c
      BY <1>0, <2>2, <3>1 DEF DurableInv
    <3>4. durable \in 0 .. Len(log) + 1 /\ Len(log) + 1 \in Nat
      BY <1>0
    <3>5. QED BY <2>2, <3>1, <3>2, <3>3, <3>4, CheckpointStep
  <2>4. CASE current \notin SyncCalls
    BY <1>0, <1>2, <2>2, <2>4 DEF RunCurrent, DurableInv
  <2>5. QED BY <2>3, <2>4
<1>3. ASSUME NEW c \in SyncCalls, AfterCloseRun(c) PROVE DurableInv'
  <2>1. c \in Calls
    BY DEF Calls
  <2>2. CASE dbOpen
    BY <1>0, <1>1, <1>3, <2>1, <2>2 DEF AfterCloseRun, Apply, DurableInv
  <2>3. CASE ~dbOpen
    BY <1>3, <2>3 DEF AfterCloseRun, Apply, DurableInv
  <2>4. QED BY <2>2, <2>3
<1>4. ASSUME NEW k \in Closers, CloseDb(k) PROVE DurableInv'
  <2>1. UNCHANGED <<log, done>>
    BY <1>4 DEF CloseDb
  <2>2. CASE dbOpen
    <3>1. CheckpointOf(Len(log'), {})
      BY <1>4, <2>1, <2>2 DEF CloseDb
    <3>2. QED BY <1>0, <2>1, <3>1, CheckpointStep DEF DurableInv
  <2>3. CASE ~dbOpen
    BY <1>4, <2>1, <2>3 DEF CloseDb, DurableInv
  <2>4. QED BY <2>2, <2>3
<1>5. CASE UNCHANGED <<log, durable, done, owed>>
  BY <1>5 DEF DurableInv
<1>6. QED
  BY <1>2, <1>3, <1>4, <1>5
  DEF WriterNext, AsyncStep, AsyncCheck, AsyncSend, SyncStep, SyncSend, SyncDone,
      SyncLate, AfterCloseBegin, WriterStep, Take, BeginDrain, EndDrain,
      CloseStep, CloseBegin, CloseDrained, CloseAgain, Finished, writerVars

\* A save the writer has served is on disk before its caller is told, unless its checkpoint fell short, and
\* then from the first complete checkpoint on.
THEOREM SavesAreDurable == WriterSpec => []SavedIsDurable
<1>1. DurableInv => SavedIsDurable
  BY DEF DurableInv, SavedIsDurable
<1>2. QED BY <1>1, DurableInit, DurableStep, WriterInvariant, PTL DEF WriterSpec

-----------------------------------------------------------------------------
(* Order: nothing that was ahead of a call overtakes it or is overtaken,   *)
(* in the queue, in the writer's hands or in the database.                 *)

Entered(c) == pc[c] \notin {"idle", "checked", "refused"}

FifoInv ==
  /\ \A c \in Calls : \A a \in ahead[c] : Entered(a)
  /\ \A i \in 1 .. Len(log) : Entered(log[i]) /\ runs[log[i]] >= 1
  /\ Fifo
  /\ writer # "done" =>
       /\ \A i \in 1 .. Len(log) :
            /\ \A q \in Queue : writerCh[q] \notin ahead[log[i]]
            /\ current # None => current \notin ahead[log[i]]
       /\ \A q \in Queue : current # None => writerCh[q] \notin ahead[current]
       /\ \A p, q \in Queue : p < q => writerCh[q] \notin ahead[writerCh[p]]

LEMMA FifoInit == WriterInit => FifoInv
<1>1. Len(<< >>) = 0
  BY EmptySeq
<1>2. QED BY <1>1 DEF WriterInit, FifoInv, Fifo, Queue

\* Calls move on without leaving Entered, and nothing else that matters moves.
LEMMA FifoMove ==
  ASSUME WriterIInv, FifoInv,
         \A c \in Calls : Entered(c) => Entered(c)' /\ ahead'[c] = ahead[c],
         \A c \in Calls : \A a \in ahead'[c] : a \in Calls /\ Entered(a),
         UNCHANGED <<writerCh, current, log, done, runs>>,
         writer' # "done" => writer # "done"
  PROVE FifoInv'
<1>0. /\ \A i \in 1 .. Len(log) : log[i] \in Calls
      /\ \A q \in Queue : writerCh[q] \in Calls
      /\ Len(log) \in Nat
      /\ \A c \in Calls : ahead[c] \subseteq Calls
  BY DEF WriterIInv, WriterTypeOK, Queue
<1>1. \A i \in 1 .. Len(log) : ahead'[log[i]] = ahead[log[i]]
  BY <1>0 DEF FifoInv
<1>2. \A q \in Queue : ahead'[writerCh[q]] = ahead[writerCh[q]]
  BY <1>0 DEF WriterIInv, QueueInv, Entered
<1>3. current # None => ahead'[current] = ahead[current]
  BY DEF WriterIInv, WriterTypeOK, CurrentInv, Entered
<1>4. \A c \in Calls : \A a \in ahead'[c] : Entered(a)'
  OBVIOUS
<1>5. Fifo'
  BY <1>1 DEF FifoInv, Fifo
<1>6. QED BY <1>0, <1>1, <1>2, <1>3, <1>4, <1>5 DEF FifoInv, Queue

\* A call whose closure goes to the end of the queue was ahead of nothing.
LEMMA FifoSend ==
  ASSUME WriterIInv, FifoInv, NEW c \in Calls, ~Entered(c), Enqueue(c),
         NEW s, pc' = [pc EXCEPT ![c] = s],
         s \notin {"idle", "checked", "refused"},
         ahead' \in [Calls -> SUBSET Calls],
         \A x \in Calls \ {c} : ahead'[x] = ahead[x],
         \A a \in ahead'[c] : Entered(a),
         UNCHANGED <<writer, current, log, done, runs>>
  PROVE FifoInv'
<1>0. /\ \A i \in 1 .. Len(log) : log[i] \in Calls
      /\ \A q \in Queue : writerCh[q] \in Calls
      /\ Len(log) \in Nat
      /\ Len(writerCh) \in Nat
  BY DEF WriterIInv, WriterTypeOK, Queue
<1>1. /\ Len(writerCh') = Len(writerCh) + 1
      /\ \A q \in Queue : writerCh'[q] = writerCh[q]
      /\ writerCh'[Len(writerCh) + 1] = c
  BY AppendProperties DEF WriterIInv, WriterTypeOK, Enqueue, Queue
<1>2. Queue' = Queue \cup {Len(writerCh) + 1} /\ Len(writerCh) + 1 \notin Queue
  BY <1>0, <1>1 DEF Queue
<1>3. \A x \in Calls \ {c} : c \notin ahead[x]
  BY DEF FifoInv
<1>4. \A i \in 1 .. Len(log) : log[i] # c /\ ahead'[log[i]] = ahead[log[i]]
  BY <1>0 DEF FifoInv
<1>5. \A q \in Queue : writerCh[q] # c /\ ahead'[writerCh[q]] = ahead[writerCh[q]]
  BY <1>0 DEF WriterIInv, QueueInv, Entered
<1>6. current # None => current \in Calls \ {c} /\ ahead'[current] = ahead[current]
  BY DEF WriterIInv, WriterTypeOK, CurrentInv, Entered
<1>7. \A x \in Calls : Entered(x) => Entered(x)'
  BY DEF Entered, WriterIInv, WriterTypeOK
<1>8. \A x \in Calls : \A a \in ahead'[x] : Entered(a)'
  <2>1. ASSUME NEW x \in Calls, NEW a \in ahead'[x] PROVE a \in Calls /\ Entered(a)
    BY DEF FifoInv
  <2>2. QED BY <2>1, <1>7
<1>9. Fifo'
  BY <1>4 DEF FifoInv, Fifo
<1>10. ASSUME writer # "done"
       PROVE /\ \A i \in 1 .. Len(log) : \A q \in Queue' : writerCh'[q] \notin ahead'[log[i]]
             /\ \A q \in Queue' : current # None => writerCh'[q] \notin ahead'[current]
             /\ \A p, q \in Queue' : p < q => writerCh'[q] \notin ahead'[writerCh'[p]]
  <2>1. \A i \in 1 .. Len(log) : \A q \in Queue' : writerCh'[q] \notin ahead'[log[i]]
    BY <1>0, <1>1, <1>2, <1>3, <1>4, <1>10 DEF FifoInv
  <2>2. \A q \in Queue' : current # None => writerCh'[q] \notin ahead'[current]
    BY <1>0, <1>1, <1>2, <1>3, <1>6, <1>10 DEF FifoInv
  <2>3. ASSUME NEW p \in Queue', NEW q \in Queue', p < q
        PROVE writerCh'[q] \notin ahead'[writerCh'[p]]
    <3>1. p \in Queue
      BY <1>0, <1>1, <2>3 DEF Queue
    <3>2. QED BY <1>0, <1>1, <1>2, <1>3, <1>5, <1>10, <2>3, <3>1 DEF FifoInv
  <2>4. QED BY <2>1, <2>2, <2>3
<1>11. QED BY <1>4, <1>6, <1>7, <1>8, <1>9, <1>0, <1>10 DEF FifoInv

LEMMA FifoStep == WriterIInv /\ WriterIInv' /\ FifoInv /\ [WriterNext]_writerVars => FifoInv'
<1> SUFFICES ASSUME WriterIInv, WriterIInv', FifoInv, [WriterNext]_writerVars PROVE FifoInv'
  OBVIOUS
<1>0. /\ \A i \in 1 .. Len(log) : log[i] \in Calls
      /\ \A q \in Queue : writerCh[q] \in Calls
      /\ Len(log) \in Nat
      /\ ahead' \in [Calls -> SUBSET Calls]
      /\ ahead \in [Calls -> SUBSET Calls]
      /\ AsyncCalls \subseteq Calls /\ SyncCalls \subseteq Calls
  BY DEF WriterIInv, WriterTypeOK, Queue, Calls
<1>1. ASSUME NEW c \in Calls, Note(c)
      PROVE /\ \A x \in Calls \ {c} : ahead'[x] = ahead[x]
            /\ \A a \in ahead'[c] : a \in Calls /\ Entered(a)
  BY <1>0, <1>1 DEF Note, Accepted, Entered
<1>2. ASSUME NEW c \in Calls, pc[c] = "idle", Note(c),
             NEW s, pc' = [pc EXCEPT ![c] = s],
             UNCHANGED <<writerCh, writer, current, log, done, runs>>
      PROVE FifoInv'
  <2>1. \A x \in Calls : Entered(x) => Entered(x)' /\ ahead'[x] = ahead[x]
    BY <1>1, <1>2 DEF Entered, WriterIInv, WriterTypeOK
  <2>2. \A x \in Calls : \A a \in ahead'[x] : a \in Calls /\ Entered(a)
    BY <1>0, <1>1, <1>2 DEF FifoInv
  <2>3. QED BY <1>2, <2>1, <2>2, FifoMove
<1>3. ASSUME NEW c \in AsyncCalls, AsyncCheck(c) PROVE FifoInv'
  BY <1>0, <1>2, <1>3 DEF AsyncCheck, Start
<1>4. ASSUME NEW c \in AsyncCalls, AsyncSend(c) PROVE FifoInv'
  <2>1. CASE Enqueue(c) /\ Start(c, "sent")
    <3>1. \A a \in ahead'[c] : Entered(a)
      BY <1>0, <1>4 DEF AsyncSend, FifoInv
    <3>2. QED BY <1>0, <1>4, <2>1, <3>1, FifoSend DEF AsyncSend, Start, Entered
  <2>2. CASE Start(c, "refused") /\ UNCHANGED writerCh
    <3>1. \A x \in Calls : Entered(x) => Entered(x)'
      BY <1>4, <2>2 DEF AsyncSend, Start, Entered, WriterIInv, WriterTypeOK
    <3>2. \A x \in Calls : \A a \in ahead'[x] : a \in Calls /\ Entered(a)
      BY <1>0, <1>4 DEF AsyncSend, FifoInv
    <3>3. QED BY <1>4, <2>2, <3>1, <3>2, FifoMove DEF AsyncSend
  <2>3. QED BY <1>4, <2>1, <2>2 DEF AsyncSend
<1>5. ASSUME NEW c \in SyncCalls, SyncSend(c) PROVE FifoInv'
  <2>1. CASE Enqueue(c) /\ Start(c, "waiting")
    BY <1>0, <1>1, <1>5, <2>1, FifoSend DEF SyncSend, Start, Entered
  <2>2. CASE Start(c, "after") /\ UNCHANGED writerCh
    BY <1>0, <1>2, <1>5, <2>2 DEF SyncSend, Start
  <2>3. QED BY <1>5, <2>1, <2>2 DEF SyncSend
<1>6. ASSUME NEW c \in SyncCalls,
             SyncDone(c) \/ SyncLate(c) \/ AfterCloseBegin(c)
      PROVE FifoInv'
  <2>1. \A x \in Calls : Entered(x) => Entered(x)'
    BY <1>6 DEF SyncDone, SyncLate, AfterCloseBegin, AfterDrain, Start, Entered,
       WriterIInv, WriterTypeOK
  <2>2. \A x \in Calls : \A a \in ahead[x] : a \in Calls /\ Entered(a)
    BY <1>0 DEF FifoInv
  <2>3. QED BY <1>6, <2>1, <2>2, FifoMove DEF SyncDone, SyncLate, AfterCloseBegin
<1>7. ASSUME NEW c \in Calls, log' \in {log, Append(log, c)}, runs' = [runs EXCEPT ![c] = @ + 1]
      PROVE /\ Len(log') \in {Len(log), Len(log) + 1}
            /\ \A i \in 1 .. Len(log) : log'[i] = log[i]
            /\ \A i \in 1 .. Len(log') : i \in 1 .. Len(log) \/ (i = Len(log) + 1 /\ log'[i] = c)
            /\ \A x \in Calls : runs[x] >= 1 => runs'[x] >= 1
            /\ runs'[c] >= 1
  <2>1. log \in Seq(Calls) /\ runs \in [Calls -> Nat]
    BY DEF WriterIInv, WriterTypeOK
  <2>2. runs'[c] >= 1 /\ \A x \in Calls : runs[x] >= 1 => runs'[x] >= 1
    <3>1. runs[c] \in Nat /\ runs'[c] = runs[c] + 1
      BY <1>7, <2>1
    <3>2. \A x \in Calls : x # c => runs'[x] = runs[x]
      BY <1>7, <2>1
    <3>3. QED BY <3>1, <3>2
  <2>3. CASE log' = Append(log, c)
    <3>1. /\ Len(log') = Len(log) + 1
          /\ \A i \in 1 .. Len(log) : log'[i] = log[i]
          /\ log'[Len(log) + 1] = c
      BY <2>1, <2>3, AppendProperties
    <3>2. \A i \in 1 .. Len(log') : i \in 1 .. Len(log) \/ i = Len(log) + 1
      BY <1>0, <3>1
    <3>3. QED BY <2>2, <3>1, <3>2
  <2>4. CASE log' = log
    BY <1>0, <2>2, <2>4
  <2>5. QED BY <1>7, <2>3, <2>4
<1>8. ASSUME NEW c \in SyncCalls, AfterCloseRun(c) PROVE FifoInv'
  <2>1. writer = "done" /\ c \notin done /\ Entered(c) /\ c \in Calls /\ c \notin AsyncCalls
    BY <1>0, <1>8, CallsAssumption DEF AfterCloseRun, WriterIInv, CallInv, Entered
  <2>2. log' \in {log, Append(log, c)} /\ runs' = [runs EXCEPT ![c] = @ + 1]
    BY <1>8 DEF AfterCloseRun, Apply
  <2>3. \A x \in Calls : Entered(x) => Entered(x)'
    BY <1>8 DEF AfterCloseRun, Start, Entered, WriterIInv, WriterTypeOK
  <2>4. \A x \in Calls : \A a \in ahead'[x] : Entered(a)'
    <3>1. \A x \in Calls : \A a \in ahead'[x] : a \in Calls /\ Entered(a)
      BY <1>0, <1>8 DEF AfterCloseRun, FifoInv
    <3>2. QED BY <2>3, <3>1
  <2>5. (\A i \in 1 .. Len(log) : Entered(log[i]) /\ runs[log[i]] >= 1)'
    BY <1>0, <1>7, <2>1, <2>2, <2>3 DEF FifoInv
  <2>6. Fifo'
    <3>1. ahead' = ahead /\ done' = done
      BY <1>8 DEF AfterCloseRun
    <3>2. SUFFICES ASSUME NEW i \in 1 .. Len(log'), NEW j \in 1 .. Len(log'), i < j,
                          log'[j] \in AsyncCalls \cup done
                   PROVE log'[j] \notin ahead[log'[i]]
      BY <3>1 DEF Fifo
    <3>3. j \in 1 .. Len(log)
      BY <1>7, <2>1, <2>2, <3>2
    <3>4. i \in 1 .. Len(log)
      BY <1>0, <3>2, <3>3
    <3>5. log'[i] = log[i] /\ log'[j] = log[j]
      BY <1>7, <2>1, <2>2, <3>3, <3>4
    <3>6. QED BY <3>2, <3>3, <3>4, <3>5 DEF FifoInv, Fifo
  <2>7. QED BY <1>8, <2>1, <2>4, <2>5, <2>6 DEF AfterCloseRun, FifoInv
<1>9. CASE Take
  <2>1. /\ 1 \in Queue /\ current = None /\ writer # "done"
        /\ current' = writerCh[1]
        /\ \A q \in Queue' : q + 1 \in Queue /\ q + 1 > 1 /\ writerCh'[q] = writerCh[q + 1]
    BY <1>9, HeadTailProperties DEF Take, Pop, Queue, WriterIInv, WriterTypeOK
  <2>2. \A i \in 1 .. Len(log) :
          /\ \A q \in Queue' : writerCh'[q] \notin ahead[log[i]]
          /\ current' \notin ahead[log[i]]
    BY <2>1 DEF FifoInv
  <2>3. \A q \in Queue' : writerCh'[q] \notin ahead[current']
    BY <2>1 DEF FifoInv
  <2>4. ASSUME NEW p \in Queue', NEW q \in Queue', p < q
        PROVE writerCh'[q] \notin ahead[writerCh'[p]]
    <3>1. p + 1 \in Queue /\ q + 1 \in Queue /\ p + 1 < q + 1
      BY <2>1, <2>4 DEF Queue
    <3>2. QED BY <2>1, <3>1 DEF FifoInv
  <2>5. \A x : Entered(x)' <=> Entered(x)
    BY <1>9 DEF Take, Entered
  <2>6. Fifo'
    BY <1>9 DEF Take, FifoInv, Fifo
  <2>7. QED BY <1>9, <2>2, <2>3, <2>4, <2>5, <2>6 DEF Take, FifoInv
<1>10. CASE RunCurrent
  <2>1. current \in Calls /\ Entered(current) /\ runs[current] = 0 /\ writer # "done"
    BY <1>10 DEF RunCurrent, WriterIInv, CurrentInv, WriterTypeOK, Entered
  <2>2. log' \in {log, Append(log, current)} /\ runs' = [runs EXCEPT ![current] = @ + 1]
    BY <1>10 DEF RunCurrent, Apply
  <2>3. \A x : Entered(x)' <=> Entered(x)
    BY <1>10 DEF RunCurrent, Entered
  <2>4. (\A i \in 1 .. Len(log) : Entered(log[i]) /\ runs[log[i]] >= 1)'
    <3>1. /\ \A i \in 1 .. Len(log) : log'[i] = log[i]
          /\ \A i \in 1 .. Len(log') : i \in 1 .. Len(log) \/ (i = Len(log) + 1 /\ log'[i] = current)
          /\ \A x \in Calls : runs[x] >= 1 => runs'[x] >= 1
          /\ runs'[current] >= 1
      BY <1>7, <2>1, <2>2
    <3>2. ASSUME NEW i \in 1 .. Len(log') PROVE Entered(log'[i]) /\ runs'[log'[i]] >= 1
      <4>1. CASE i \in 1 .. Len(log)
        <5>1. log'[i] = log[i] /\ log[i] \in Calls
          BY <3>1, <4>1, ElementOfSeq DEF WriterIInv, WriterTypeOK
        <5>2. Entered(log[i]) /\ runs[log[i]] >= 1
          BY <1>0, <4>1 DEF FifoInv
        <5>3. QED BY <3>1, <5>1, <5>2
      <4>2. CASE log'[i] = current
        BY <2>1, <3>1, <4>2
      <4>3. QED BY <3>1, <3>2, <4>1, <4>2
    <3>3. \A x : Entered(x) => pc'[x] \notin {"idle", "checked", "refused"}
      BY <2>3 DEF Entered
    <3>4. \A i \in 1 .. Len(log') : pc'[log'[i]] \notin {"idle", "checked", "refused"} /\ runs'[log'[i]] >= 1
      BY <3>2, <3>3
    <3>5. QED BY <3>4 DEF Entered
  <2>5. ahead' = ahead /\ done' \in {done, done \cup {current}}
    BY <1>10 DEF RunCurrent
  <2>6. Fifo'
    <3>1. SUFFICES ASSUME NEW i \in 1 .. Len(log'), NEW j \in 1 .. Len(log'), i < j,
                          log'[j] \in AsyncCalls \cup done \cup {current}
                   PROVE log'[j] \notin ahead[log'[i]]
      BY <2>5 DEF Fifo
    <3>2. i \in 1 .. Len(log) /\ log'[i] = log[i]
      BY <1>0, <1>7, <2>1, <2>2, <3>1
    <3>3. CASE j \in 1 .. Len(log)
      <4>1. log'[j] = log[j] /\ log[j] # current
        BY <1>7, <2>1, <2>2, <3>3 DEF FifoInv
      <4>2. QED BY <3>1, <3>2, <3>3, <4>1 DEF FifoInv, Fifo
    <3>4. CASE log'[j] = current
      BY <1>10, <2>1, <3>2, <3>4 DEF FifoInv, RunCurrent
    <3>5. QED BY <1>7, <2>1, <2>2, <3>1, <3>3, <3>4
  <2>7. \A i \in 1 .. Len(log') : \A q \in Queue : writerCh[q] \notin ahead[log'[i]]
    BY <1>0, <1>7, <1>10, <2>1, <2>2 DEF FifoInv, RunCurrent
  <2>8. QED BY <1>10, <2>1, <2>3, <2>4, <2>5, <2>6, <2>7 DEF RunCurrent, FifoInv, Queue
<1>11. CASE UNCHANGED <<pc, writerCh, current, log, done, runs, ahead>> /\ (writer' # "done" => writer # "done")
  <2>1. \A x \in Calls : \A a \in ahead[x] : a \in Calls /\ Entered(a)
    BY <1>0 DEF FifoInv
  <2>2. QED BY <1>11, <2>1, FifoMove DEF Entered
<1>12. QED
  BY <1>3, <1>4, <1>5, <1>6, <1>8, <1>9, <1>10, <1>11
  DEF WriterNext, AsyncStep, SyncStep, WriterStep, BeginDrain, EndDrain, CloseStep,
      CloseBegin, CloseDrained, CloseAgain, CloseDb, Finished, writerVars

\* Writes reach the database in the order they were queued, across callers.
THEOREM WritesInOrder == WriterSpec => []Fifo
<1>1. FifoInv => Fifo
  BY DEF FifoInv
<1>2. QED BY <1>1, FifoInit, FifoStep, WriterInvariant, PTL DEF WriterSpec

-----------------------------------------------------------------------------
(* The barrier: until the writer stops, a closure that has been queued is  *)
(* in the queue, in the writer's hands or run, and what was ahead of a     *)
(* served WriteSync has run, because nothing ahead of the closure in hand  *)
(* is still queued (FifoInv).                                              *)

Located(a) == runs[a] >= 1 \/ a = current \/ \E q \in Queue : writerCh[q] = a

BarrierInv ==
  writer # "done" =>
    /\ \A c \in Calls : \A a \in ahead[c] : pc[a] \in {"sent", "waiting", "returned"}
    /\ \A a \in Calls : pc[a] \in {"sent", "waiting"} => Located(a)
    /\ \A c \in done : \A a \in ahead[c] : runs[a] >= 1
    /\ \A c \in SyncCalls : pc[c] = "returned" => c \in done

LEMMA BarrierInit == WriterInit => BarrierInv
  BY CallsAssumption DEF WriterInit, BarrierInv, Calls

\* A call moves on without leaving the stages that say its closure is queued,
\* and no closure leaves where it is.
LEMMA BarrierMove ==
  ASSUME WriterIInv, BarrierInv, writer # "done", NEW c \in Calls, NEW s,
         pc' = [pc EXCEPT ![c] = s],
         \/ pc[c] \in {"idle", "checked"} /\ s \notin {"sent", "waiting", "returned"}
         \/ pc[c] = "waiting" /\ c \in done /\ s = "returned",
         \A x \in Calls : ahead'[x] = ahead[x] \/ ahead'[x] = Accepted,
         \A x \in done : ahead'[x] = ahead[x],
         UNCHANGED <<writerCh, current, done, runs>>
  PROVE BarrierInv'
<1>0. pc \in [Calls -> CallStates] /\ ahead \in [Calls -> SUBSET Calls] /\ Accepted \subseteq Calls
  BY DEF WriterIInv, WriterTypeOK, Accepted
<1>1. \A x \in Calls : pc[x] \in {"sent", "waiting", "returned"}
                         => pc'[x] \in {"sent", "waiting", "returned"}
  BY <1>0
<1>2. \A x \in Calls : \A a \in ahead'[x] : a \in Calls /\ pc[a] \in {"sent", "waiting", "returned"}
  BY <1>0 DEF BarrierInv, Accepted
<1>3. \A a \in Calls : pc'[a] \in {"sent", "waiting"} => Located(a)'
  <2>1. \A a \in Calls : pc'[a] \in {"sent", "waiting"} => pc[a] \in {"sent", "waiting"}
    BY <1>0
  <2>2. QED BY <2>1 DEF BarrierInv, Located, Queue
<1>4. \A x \in done' : \A a \in ahead'[x] : runs'[a] >= 1
  BY DEF BarrierInv
<1>5. \A x \in SyncCalls : pc'[x] = "returned" => x \in done'
  BY <1>0 DEF BarrierInv, Calls
<1>6. QED BY <1>1, <1>2, <1>3, <1>4, <1>5 DEF BarrierInv

\* A closure that is sent is at the end of the queue.
LEMMA BarrierSend ==
  ASSUME WriterIInv, BarrierInv, writer # "done", NEW c \in Calls, Enqueue(c),
         pc[c] \in {"idle", "checked"},
         NEW s \in {"sent", "waiting"}, pc' = [pc EXCEPT ![c] = s],
         \A x \in Calls : ahead'[x] = ahead[x] \/ ahead'[x] = Accepted,
         \A x \in done : ahead'[x] = ahead[x],
         UNCHANGED <<current, done, runs>>
  PROVE BarrierInv'
<1>0. pc \in [Calls -> CallStates] /\ ahead \in [Calls -> SUBSET Calls] /\ Accepted \subseteq Calls
  BY DEF WriterIInv, WriterTypeOK, Accepted
<1>1. /\ Len(writerCh) \in Nat
      /\ Len(writerCh') = Len(writerCh) + 1
      /\ \A q \in Queue : writerCh'[q] = writerCh[q]
      /\ writerCh'[Len(writerCh) + 1] = c
  BY AppendProperties DEF WriterIInv, WriterTypeOK, Enqueue, Queue
<1>2. Queue' = Queue \cup {Len(writerCh) + 1}
  BY <1>1 DEF Queue
<1>3. \A x \in Calls : \A a \in ahead'[x] : a \in Calls /\ pc[a] \in {"sent", "waiting", "returned"}
  BY <1>0 DEF BarrierInv, Accepted
<1>4. \A x \in Calls : \A a \in ahead'[x] : pc'[a] \in {"sent", "waiting", "returned"}
  BY <1>0, <1>3
<1>5. ASSUME NEW a \in Calls, pc'[a] \in {"sent", "waiting"} PROVE Located(a)'
  <2>1. CASE a = c
    BY <1>1, <1>2, <2>1 DEF Located
  <2>2. CASE a # c
    <3>1. Located(a)
      BY <1>0, <1>5, <2>2 DEF BarrierInv
    <3>2. QED BY <1>1, <1>2, <3>1 DEF Located
  <2>3. QED BY <2>1, <2>2
<1>6. \A x \in done' : \A a \in ahead'[x] : runs'[a] >= 1
  BY DEF BarrierInv
<1>7. \A x \in SyncCalls : pc'[x] = "returned" => x \in done'
  BY <1>0 DEF BarrierInv, Calls
<1>8. QED BY <1>4, <1>5, <1>6, <1>7 DEF BarrierInv

LEMMA BarrierStep == WriterIInv /\ FifoInv /\ BarrierInv /\ [WriterNext]_writerVars => BarrierInv'
<1> USE CallsAssumption
<1> SUFFICES ASSUME WriterIInv, FifoInv, BarrierInv, [WriterNext]_writerVars, writer' # "done"
             PROVE BarrierInv'
  BY DEF BarrierInv
<1>0. AsyncCalls \subseteq Calls /\ SyncCalls \subseteq Calls
  BY DEF Calls
<1>1. writer # "done"
  BY DEF WriterNext, AsyncStep, AsyncCheck, AsyncSend, SyncStep, SyncSend, SyncDone,
     SyncLate, AfterCloseBegin, AfterCloseRun, WriterStep, Take, RunCurrent,
     BeginDrain, EndDrain, CloseStep, CloseBegin, CloseDrained, CloseAgain,
     CloseDb, Finished, writerVars
<1>2. \A c \in Calls : pc[c] \in {"idle", "checked"} => c \notin done
  BY DEF WriterIInv, CallInv
<1>3. ASSUME NEW c \in Calls, Note(c), pc[c] = "idle"
      PROVE /\ \A x \in Calls : ahead'[x] = ahead[x] \/ ahead'[x] = Accepted
            /\ \A x \in done : ahead'[x] = ahead[x]
  BY <1>0, <1>2, <1>3 DEF Note, WriterIInv, WriterTypeOK
<1>4. ASSUME NEW c \in AsyncCalls, AsyncCheck(c) PROVE BarrierInv'
  BY <1>0, <1>1, <1>3, <1>4, BarrierMove DEF AsyncCheck, Start
<1>5. ASSUME NEW c \in AsyncCalls, AsyncSend(c) PROVE BarrierInv'
  <2>1. CASE Enqueue(c) /\ Start(c, "sent")
    BY <1>0, <1>1, <1>5, <2>1, BarrierSend DEF AsyncSend, Start
  <2>2. CASE Start(c, "refused") /\ UNCHANGED writerCh
    BY <1>0, <1>1, <1>5, <2>2, BarrierMove DEF AsyncSend, Start
  <2>3. QED BY <1>5, <2>1, <2>2 DEF AsyncSend
<1>6. ASSUME NEW c \in SyncCalls, SyncSend(c) PROVE BarrierInv'
  <2>1. CASE Enqueue(c) /\ Start(c, "waiting")
    BY <1>0, <1>1, <1>3, <1>6, <2>1, BarrierSend DEF SyncSend, Start
  <2>2. CASE Start(c, "after") /\ UNCHANGED writerCh
    BY <1>0, <1>1, <1>3, <1>6, <2>2, BarrierMove DEF SyncSend, Start
  <2>3. QED BY <1>6, <2>1, <2>2 DEF SyncSend
<1>7. ASSUME NEW c \in SyncCalls, SyncDone(c) PROVE BarrierInv'
  BY <1>0, <1>1, <1>7, BarrierMove DEF SyncDone, Start
<1>8. ASSUME NEW c \in SyncCalls, SyncLate(c) \/ AfterCloseBegin(c) \/ AfterCloseRun(c)
      PROVE FALSE
  BY <1>1, <1>8 DEF SyncLate, AfterCloseBegin, AfterCloseRun, WriterIInv, CallInv, Calls
<1>9. CASE Take
  <2>1. /\ current = None /\ current' = writerCh[1]
        /\ Queue' = 1 .. Len(writerCh) - 1
        /\ \A q \in Queue' : writerCh'[q] = writerCh[q + 1]
        /\ Len(writerCh) \in Nat
    BY <1>9, HeadTailProperties DEF Take, Pop, Queue, WriterIInv, WriterTypeOK
  <2>2. ASSUME NEW a \in Calls, Located(a) PROVE Located(a)'
    <3>1. CASE \E q \in Queue : writerCh[q] = a
      <4>1. PICK q \in Queue : writerCh[q] = a
        BY <3>1
      <4>2. CASE q = 1
        BY <2>1, <4>1, <4>2 DEF Located
      <4>3. CASE q # 1
        <5>1. q - 1 \in Queue' /\ writerCh'[q - 1] = a
          <6>1. q \in 1 .. Len(writerCh) /\ q # 1
            BY <4>1, <4>3 DEF Queue
          <6>2. q - 1 \in Queue' /\ (q - 1) + 1 = q
            BY <2>1, <6>1
          <6>3. writerCh'[q - 1] = writerCh[(q - 1) + 1]
            BY <2>1, <6>2
          <6>4. QED BY <4>1, <6>2, <6>3
        <5>2. QED BY <5>1 DEF Located
      <4>4. QED BY <4>2, <4>3
    <3>2. CASE runs[a] >= 1
      BY <1>9, <3>2 DEF Take, Located
    <3>3. a # current
      BY <2>1, CallsAssumption DEF Calls
    <3>4. QED BY <2>2, <3>1, <3>2, <3>3 DEF Located
  <2>3. QED BY <1>9, <2>2 DEF Take, BarrierInv
<1>10. CASE RunCurrent
  <2>1. /\ current \in Calls /\ runs[current] = 0
        /\ runs' = [runs EXCEPT ![current] = 1]
        /\ runs \in [Calls -> Nat] /\ ahead \in [Calls -> SUBSET Calls]
    <3>1. runs \in [Calls -> Nat] /\ ahead \in [Calls -> SUBSET Calls]
      BY DEF WriterIInv, WriterTypeOK
    <3>2. current \in Calls /\ runs[current] = 0
      BY <1>10 DEF RunCurrent, WriterIInv, CurrentInv, WriterTypeOK
    <3>3. runs' = [runs EXCEPT ![current] = @ + 1]
      BY <1>10 DEF RunCurrent, Apply
    <3>4. QED BY <3>1, <3>2, <3>3
  <2>2. \A a \in Calls : (runs[a] >= 1 => runs'[a] >= 1) /\ runs'[current] >= 1
    BY <2>1
  <2>3. ASSUME NEW a \in Calls, Located(a) PROVE Located(a)'
    BY <1>10, <2>2, <2>3 DEF RunCurrent, Located, Queue
  <2>4. ASSUME NEW a \in ahead[current] PROVE runs'[a] >= 1
    <3>1. a \in Calls /\ pc[a] \in {"sent", "waiting", "returned"}
      BY <1>1, <2>1, <2>4 DEF BarrierInv
    <3>2. CASE pc[a] = "returned"
      BY <2>2, <3>1, <3>2 DEF WriterIInv, CallInv
    <3>3. CASE pc[a] # "returned"
      <4>1. Located(a)
        BY <1>1, <3>1, <3>3 DEF BarrierInv
      <4>2. \A q \in Queue : writerCh[q] # a
        BY <1>1, <1>10, <2>4 DEF RunCurrent, FifoInv
      <4>3. QED BY <2>2, <3>1, <4>1, <4>2 DEF Located
    <3>4. QED BY <3>2, <3>3
  <2>5. \A c \in done' : \A a \in ahead[c] : runs'[a] >= 1
    <3>1. \A c \in done : \A a \in ahead[c] : a \in Calls /\ runs[a] >= 1
      BY <1>1, <2>1, <1>0 DEF BarrierInv, WriterIInv, WriterTypeOK
    <3>2. QED BY <1>10, <2>2, <2>4, <3>1 DEF RunCurrent
  <2>6. \A c \in SyncCalls : pc'[c] = "returned" => c \in done'
    BY <1>1, <1>10 DEF RunCurrent, BarrierInv
  <2>7. QED BY <1>1, <1>10, <2>3, <2>5, <2>6 DEF RunCurrent, BarrierInv
<1>11. CASE UNCHANGED <<pc, writerCh, current, done, runs, ahead>>
  BY <1>1, <1>11 DEF BarrierInv, Located, Queue
<1>12. QED
  BY <1>4, <1>5, <1>6, <1>7, <1>8, <1>9, <1>10, <1>11
  DEF WriterNext, AsyncStep, SyncStep, WriterStep, BeginDrain, EndDrain, CloseStep,
      CloseBegin, CloseDrained, CloseAgain, CloseDb, Finished, writerVars

\* WriteSync is a barrier for any number of callers: when it returns, every
\* write that was queued before it was called has run, which is what lets
\* hydratePeerTables read back the row a dying contact table had queued.
THEOREM WriteSyncIsBarrier == WriterSpec => []Barrier
<1>1. WriterIInv /\ FifoInv /\ BarrierInv => Barrier
  <2> SUFFICES ASSUME WriterIInv, BarrierInv, writer # "done",
                      NEW c \in SyncCalls, pc[c] = "returned", NEW a \in ahead[c]
               PROVE runs[a] = 1
    BY DEF Barrier
  <2>1. c \in done /\ c \in Calls
    BY DEF BarrierInv, Calls
  <2>2. runs[a] >= 1
    BY <2>1 DEF BarrierInv
  <2>3. a \in Calls /\ pc[a] \in {"sent", "waiting", "returned"}
    BY <2>1 DEF BarrierInv, WriterIInv, WriterTypeOK
  <2>4. runs[a] <= 1
    BY <2>3 DEF WriterIInv, CallInv
  <2>5. runs[a] \in Nat
    BY <2>3 DEF WriterIInv, WriterTypeOK
  <2>6. QED BY <2>2, <2>4, <2>5
<1>2. QED BY <1>1, FifoInit, FifoStep, BarrierInit, BarrierStep, WriterInvariant, PTL DEF WriterSpec
=============================================================================

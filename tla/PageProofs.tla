----------------------------- MODULE PageProofs -----------------------------
(***************************************************************************)
(* Proofs about the pages of the console, continued from FormProofs: the   *)
(* pages that keep lists and tables and are answered out of order.  The    *)
(* last section puts the pages of both modules together, and concludes     *)
(* what MCForms states of them.                                            *)
(***************************************************************************)
EXTENDS FormProofs

-----------------------------------------------------------------------------
(* The port a companion opens to the app.                                  *)

AccessUi == {"list", "failed", "port", "queue", "confirming", "busy", "mount", "status", "seen"}
AccessFree == [step |-> "none"]
AccessShape ==
  /\ DOMAIN ui = AccessUi /\ DOMAIN net = {"loads", "poll", "jobs"} /\ DOMAIN srv = {"now", "running"}
  /\ DOMAIN past = {"saves", "elsewhere", "polls", "faults", "over", "behind"}
  /\ ui.mount \in Nat /\ past.saves \in Nat /\ past.elsewhere \in Nat

\* A setting that can be stored; one that was read can, and so is the one stored.
AccessSetting(c) ==
  /\ DOMAIN c = {"on", "port", "queue", "here", "other"} /\ c.on \in BOOLEAN /\ c.here \in BOOLEAN /\ c.queue # 0
  /\ c.on => c.port # 0 /\ c.port # c.other
AccessNotRead == [on |-> FALSE, port |-> 0, queue |-> 0, here |-> FALSE, other |-> 0]
AccessList == AccessSetting(srv.now) /\ (ui.list = AccessNotRead \/ AccessSetting(ui.list))

\* A save that waits for a read of the list has been stored or has failed, and waits for that read alone.
AccessLoads(loads, jobs) ==
  /\ \E S : loads \in Seq(S)
  /\ \A i \in 1..Len(loads) :
       /\ DOMAIN loads[i] = {"for", "step", "got"} /\ loads[i].step \in {"asked", "served", "failed"}
       /\ loads[i].step = "served" => AccessSetting(loads[i].got)
       /\ loads[i].for # 0 => loads[i].for \in DOMAIN jobs /\ jobs[loads[i].for].step \in {"stored", "failing"}
  /\ \A i, k \in 1..Len(loads) : loads[i].for # 0 /\ loads[i].for = loads[k].for => i = k

\* A save under way was asked for, and what it writes it read; a move writes only where access was on.
AccessJob(k) ==
  /\ DOMAIN k = {"act", "port", "size", "step", "fresh", "mount"} /\ k.act \in {"on", "move", "off", "queue"}
  /\ k.step # "none" /\ (k.act = "queue" => k.size # 0)
  /\ k.step \in {"read", "writing"} => AccessSetting(k.fresh)
  /\ k.step = "writing" /\ k.act = "move" => k.fresh.on
AccessJobs(saves) ==
  /\ DOMAIN net.jobs = 1..saves
  /\ \A j \in 1..saves : net.jobs[j] # AccessFree => j <= past.saves /\ AccessJob(net.jobs[j])

\* One save at most is of the page as it is mounted, its buttons wait for that one, and a page that is not mounted
\* has none.
AccessMounted == ~ui.failed /\ ui.list # AccessNotRead
AccessBusy ==
  /\ \A j \in DOMAIN net.jobs : net.jobs[j] # AccessFree =>
       /\ net.jobs[j].mount \in 0..ui.mount
       /\ net.jobs[j].mount = ui.mount => net.jobs[j].act = ui.busy /\ AccessMounted
  /\ \A j, k \in DOMAIN net.jobs :
       net.jobs[j] # AccessFree /\ net.jobs[k] # AccessFree /\ net.jobs[j].mount = ui.mount /\ net.jobs[k].mount = ui.mount => j = k
  /\ ui.busy # "none" => \E j \in DOMAIN net.jobs : net.jobs[j] # AccessFree /\ net.jobs[j].mount = ui.mount

\* Unless reads of the list overlapped or the setting was changed elsewhere there is one read at most, and what was
\* last read is what is stored, until a save that may have written has come to its end.
AccessLast ==
  /\ past.over \in BOOLEAN /\ past.behind \in BOOLEAN
  /\ ~past.over => Len(net.loads) <= 1
  /\ ~past.over /\ ~past.behind /\ (\A j \in DOMAIN net.jobs : net.jobs[j].step \notin {"written", "refused", "reporting"}) =>
       /\ net.loads = <<>> /\ ~ui.failed => ui.list = srv.now
       /\ \A i \in 1..Len(net.loads) : net.loads[i].step = "served" => net.loads[i].got = srv.now

AccessInv(saves) == AccessShape /\ AccessList /\ AccessLoads(net.loads, net.jobs) /\ AccessJobs(saves) /\ AccessBusy /\ AccessLast

\* A list of reads with one more, and with one less.
LEMMA LoadAppend ==
  ASSUME NEW S, NEW s \in Seq(S), NEW e
  PROVE  LET t == Append(s, e) IN
         /\ \E T : t \in Seq(T)
         /\ Len(t) = Len(s) + 1 /\ t[Len(s) + 1] = e /\ \A i \in 1..Len(s) : t[i] = s[i]
<1>1. s \in Seq(S \cup {e}) /\ e \in S \cup {e}
  OBVIOUS
<1>2. Append(s, e) \in Seq(S \cup {e})
  BY <1>1
<1> QED BY <1>2
LEMMA AppendedFacts ==
  ASSUME NEW S, NEW a \in Seq(S), NEW b \in Seq(S)
  PROVE  /\ a \o b \in Seq(S) /\ Len(a \o b) = Len(a) + Len(b)
         /\ \A k \in 1..(Len(a) + Len(b)) : (a \o b)[k] = IF k <= Len(a) THEN a[k] ELSE b[k - Len(a)]
OBVIOUS
LEMMA LoadWithout ==
  ASSUME NEW S, NEW s \in Seq(S), NEW i \in 1..Len(s), NEW saves, NEW else, NEW polls
  PROVE  LET t == Access(saves, else, polls)!Without(s, i) IN
         /\ t \in Seq(S) /\ Len(t) = Len(s) - 1
         /\ \A k \in 1..Len(t) : t[k] = s[IF k < i THEN k ELSE k + 1]
<1> DEFINE a == SubSeq(s, 1, i - 1)
           b == SubSeq(s, i + 1, Len(s))
<1>1. a \in Seq(S) /\ Len(a) = i - 1 /\ \A k \in 1..(i - 1) : a[k] = s[k]
  OBVIOUS
<1>2. b \in Seq(S) /\ Len(b) = Len(s) - i /\ \A k \in 1..(Len(s) - i) : b[k] = s[i + k]
  OBVIOUS
<1>3. Access(saves, else, polls)!Without(s, i) = a \o b
  BY DEF Access!Without
<1> HIDE DEF a, b
<1>4. /\ a \o b \in Seq(S) /\ Len(a \o b) = Len(a) + Len(b)
      /\ \A k \in 1..(Len(a) + Len(b)) : (a \o b)[k] = IF k <= Len(a) THEN a[k] ELSE b[k - Len(a)]
  BY <1>1, <1>2, AppendedFacts
<1>5. Len(a) = i - 1 /\ Len(b) = Len(s) - i /\ Len(s) \in Nat
  BY <1>1, <1>2
<1>6. ASSUME NEW k \in 1..(Len(s) - 1) PROVE (a \o b)[k] = s[IF k < i THEN k ELSE k + 1]
  <2>1. k \in 1..(Len(a) + Len(b))
    BY <1>5
  <2>2. CASE k < i
    BY <1>1, <1>4, <1>5, <2>1, <2>2
  <2>3. CASE ~(k < i)
    <3>1. k - (i - 1) \in 1..(Len(s) - i) /\ i + (k - (i - 1)) = k + 1 /\ ~(k <= i - 1)
      BY <1>5, <2>3
    <3>2. (a \o b)[k] = b[k - (i - 1)]
      BY <1>4, <1>5, <2>1, <3>1
    <3> QED BY <1>2, <2>3, <3>1, <3>2
  <2> QED BY <2>2, <2>3
<1>7. Len(a \o b) = Len(s) - 1
  BY <1>4, <1>5
<1> QED BY <1>3, <1>4, <1>6, <1>7

\* A read of the list begins: what that changes.
LEMMA AccessAsked ==
  ASSUME NEW u, NEW n, NEW for, DOMAIN u = AccessUi, DOMAIN n = {"loads", "poll", "jobs"}
  PROVE  LET v == [u EXCEPT !.failed = FALSE]
             m == [n EXCEPT !.loads = Append(@, [for |-> for, step |-> "asked", got |-> AccessNotRead])]
         IN /\ DOMAIN v = AccessUi /\ v.failed = FALSE /\ v.list = u.list /\ v.busy = u.busy /\ v.mount = u.mount
            /\ DOMAIN m = {"loads", "poll", "jobs"} /\ m.jobs = n.jobs
            /\ m.loads = Append(n.loads, [for |-> for, step |-> "asked", got |-> AccessNotRead])
BY DEF AccessUi

\* The reads of the list after one more is asked for, by a save or by the page.
LEMMA AccessAsks ==
  ASSUME NEW loads, NEW jobs, NEW after, NEW for, AccessLoads(loads, jobs), DOMAIN after = DOMAIN jobs,
         \A j \in DOMAIN jobs : jobs[j].step \in {"stored", "failing"} => after[j] = jobs[j] /\ j # for,
         for # 0 => for \in DOMAIN after /\ after[for].step \in {"stored", "failing"}
  PROVE  AccessLoads(Append(loads, [for |-> for, step |-> "asked", got |-> AccessNotRead]), after)
<1> DEFINE l == [for |-> for, step |-> "asked", got |-> AccessNotRead]
           more == Append(loads, l)
<1>1. DOMAIN l = {"for", "step", "got"} /\ l.for = for /\ l.step = "asked"
  OBVIOUS
<1> HIDE DEF l
<1>2. PICK S : loads \in Seq(S)
  BY DEF AccessLoads
<1>3. (\E T : more \in Seq(T)) /\ Len(more) = Len(loads) + 1 /\ more[Len(loads) + 1] = l /\ \A i \in 1..Len(loads) : more[i] = loads[i]
  BY <1>2, LoadAppend
<1>4. Len(loads) \in Nat
  BY <1>2
<1> HIDE DEF more
<1>5. ASSUME NEW i \in 1..Len(more)
      PROVE  /\ DOMAIN more[i] = {"for", "step", "got"} /\ more[i].step \in {"asked", "served", "failed"}
             /\ more[i].step = "served" => AccessSetting(more[i].got)
             /\ more[i].for # 0 => more[i].for \in DOMAIN after /\ after[more[i].for].step \in {"stored", "failing"}
  <2>1. CASE i \in 1..Len(loads)
    BY <1>3, <2>1 DEF AccessLoads
  <2>2. CASE i = Len(loads) + 1
    BY <1>1, <1>3, <2>2
  <2> QED BY <1>3, <1>4, <2>1, <2>2
<1>6. ASSUME NEW i \in 1..Len(more), NEW k \in 1..Len(more), more[i].for # 0, more[i].for = more[k].for PROVE i = k
  <2>1. \A x \in 1..Len(loads) : more[x].for # 0 => more[x].for # for
    BY <1>3 DEF AccessLoads
  <2>2. i \in 1..Len(loads) \/ i = Len(loads) + 1
    BY <1>3, <1>4
  <2>3. k \in 1..Len(loads) \/ k = Len(loads) + 1
    BY <1>3, <1>4
  <2> QED BY <1>1, <1>3, <1>6, <2>1, <2>2, <2>3 DEF AccessLoads
<1>7. AccessLoads(more, after)
  BY <1>3, <1>5, <1>6 DEF AccessLoads
<1> QED BY <1>7 DEF more, l

\* The reads of the list are none of a save's business that goes a step on.
LEMMA AccessHolds ==
  ASSUME NEW loads, NEW jobs, NEW after, AccessLoads(loads, jobs), DOMAIN after = DOMAIN jobs,
         \A j \in DOMAIN jobs : jobs[j].step \in {"stored", "failing"} => after[j] = jobs[j]
  PROVE  AccessLoads(loads, after)
BY DEF AccessLoads

\* A save goes a step on, as the save it was.
LEMMA AccessMoves ==
  ASSUME NEW saves \in Nat, AccessInv(saves), NEW j \in 1..saves, NEW k, net.jobs[j] # AccessFree,
         net.jobs[j].step \notin {"stored", "failing"}, AccessJob(k), k.act = net.jobs[j].act, k.mount = net.jobs[j].mount,
         DOMAIN net' = DOMAIN net, net'.loads = net.loads, net'.jobs = [net.jobs EXCEPT ![j] = k], ui' = ui,
         DOMAIN srv' = DOMAIN srv, AccessSetting(srv'.now), DOMAIN past' = DOMAIN past, past'.saves = past.saves,
         past'.elsewhere = past.elsewhere, AccessLast'
  PROVE  AccessInv(saves)'
<1> USE DEF AccessInv
<1>1. AccessShape' /\ AccessList'
  BY DEF AccessShape, AccessList
<1>2. k # AccessFree
  BY DEF AccessJob, AccessFree
<1>3. AccessLoads(net.loads, net.jobs)'
  <2>1. AccessLoads(net.loads, net'.jobs)
    BY AccessHolds DEF AccessJobs
  <2> QED BY <2>1
<1>4. AccessJobs(saves)'
  BY <1>2 DEF AccessJobs
<1>5. AccessBusy'
  <2>1. /\ DOMAIN net'.jobs = DOMAIN net.jobs /\ net'.jobs[j] = k /\ \A i \in DOMAIN net.jobs : i # j => net'.jobs[i] = net.jobs[i]
    BY DEF AccessJobs
  <2>2. \A i \in DOMAIN net.jobs : net'.jobs[i] # AccessFree <=> net.jobs[i] # AccessFree
    BY <1>2, <2>1
  <2>3. \A i \in DOMAIN net.jobs : net'.jobs[i].mount = net.jobs[i].mount /\ net'.jobs[i].act = net.jobs[i].act
    BY <2>1
  <2>4. ui' = ui /\ AccessBusy
    OBVIOUS
  <2> HIDE DEF AccessInv
  <2> QED BY <2>1, <2>2, <2>3, <2>4 DEF AccessBusy, AccessMounted
<1> QED BY <1>1, <1>3, <1>4, <1>5

\* A step that neither reads the list nor writes leaves what was last read.
LEMMA AccessSame ==
  ASSUME AccessLast, ui'.list = ui.list, ui'.failed = ui.failed, srv'.now = srv.now, net'.loads = net.loads,
         past'.over = past.over, past'.behind = past.behind,
         (\A j \in DOMAIN net'.jobs : net'.jobs[j].step \notin {"written", "refused", "reporting"})
           => \A j \in DOMAIN net.jobs : net.jobs[j].step \notin {"written", "refused", "reporting"}
  PROVE  AccessLast'
BY DEF AccessLast

\* A read of the list begins: the page shows no error, and overlaps another read or is the only one.
LEMMA AccessReload ==
  ASSUME NEW saves \in Nat, AccessInv(saves), NEW for, ui'.failed = FALSE, ui'.list = ui.list, ui'.mount = ui.mount, DOMAIN ui' = AccessUi,
         srv' = srv, past' = [past EXCEPT !.over = net.loads # <<>>], DOMAIN net' = DOMAIN net,
         net'.loads = Append(net.loads, [for |-> for, step |-> "asked", got |-> AccessNotRead]), DOMAIN net'.jobs = DOMAIN net.jobs,
         \A j \in DOMAIN net.jobs : net.jobs[j].step \in {"stored", "failing"} => net'.jobs[j] = net.jobs[j] /\ j # for,
         for # 0 => for \in DOMAIN net'.jobs /\ net'.jobs[for].step \in {"stored", "failing"},
         AccessJobs(saves)', AccessBusy'
  PROVE  AccessInv(saves)'
<1> USE DEF AccessInv
<1>1. /\ DOMAIN past' = DOMAIN past /\ past'.saves = past.saves /\ past'.elsewhere = past.elsewhere /\ past'.behind = past.behind
      /\ past'.over = (net.loads # <<>>)
  BY DEF AccessShape
<1>2. AccessShape' /\ AccessList'
  BY <1>1 DEF AccessShape, AccessList
<1>3. AccessLoads(net.loads, net.jobs)'
  <2>1. AccessLoads(net'.loads, net'.jobs)
    BY AccessAsks
  <2> QED BY <2>1
<1>4. AccessLast'
  <2>1. CASE net.loads # <<>>
    BY <1>1, <2>1 DEF AccessLast
  <2>2. CASE net.loads = <<>>
    <3>1. net'.loads = <<[for |-> for, step |-> "asked", got |-> AccessNotRead]>>
      BY <2>2
    <3>2. Len(net'.loads) = 1 /\ net'.loads # <<>> /\ \A i \in 1..Len(net'.loads) : net'.loads[i].step = "asked"
      BY <3>1
    <3> QED BY <1>1, <3>2 DEF AccessLast
  <2> QED BY <2>1, <2>2
<1> QED BY <1>2, <1>3, <1>4

LEMMA AccessEndSave ==
  ASSUME NEW saves \in Nat, NEW else, NEW polls, AccessInv(saves), NEW j \in 1..saves, NEW ok, net.jobs[j] # AccessFree,
         net.jobs[j].step \notin {"stored", "failing"}, Access(saves, else, polls)!EndSave(j, ok), srv' = srv
  PROVE  AccessInv(saves)'
<1> USE DEF AccessInv
<1> DEFINE u == IF net.jobs[j].mount # ui.mount THEN ui
                ELSE [ui EXCEPT !.busy = "none", !.confirming = @ /\ ~ok, !.port = IF ok THEN 0 ELSE @]
           n == [net EXCEPT !.jobs[j] = AccessFree]
<1>1. Access(saves, else, polls)!Load(u, n, 0) /\ past' = [past EXCEPT !.over = net.loads # <<>>]
  BY DEF Access!EndSave, Access!Loading, Access!None, Access!Free, AccessFree
<1>2. /\ DOMAIN u = AccessUi /\ u.list = ui.list /\ u.mount = ui.mount
      /\ u.busy = IF net.jobs[j].mount # ui.mount THEN ui.busy ELSE "none"
  BY DEF AccessShape, AccessUi
<1>3. DOMAIN n = {"loads", "poll", "jobs"} /\ n.loads = net.loads /\ n.jobs = [net.jobs EXCEPT ![j] = AccessFree]
  BY DEF AccessShape
<1> HIDE DEF u, n
<1>4. /\ DOMAIN ui' = AccessUi /\ ui'.failed = FALSE /\ ui'.list = u.list /\ ui'.mount = u.mount /\ ui'.busy = u.busy
      /\ DOMAIN net' = {"loads", "poll", "jobs"} /\ net'.jobs = n.jobs
      /\ net'.loads = Append(n.loads, [for |-> 0, step |-> "asked", got |-> AccessNotRead])
  <2> DEFINE v == [u EXCEPT !.failed = FALSE]
             m == [n EXCEPT !.loads = Append(@, [for |-> 0, step |-> "asked", got |-> AccessNotRead])]
  <2> HIDE DEF AccessInv
  <2>1. (ui' = v \/ ui' = [v EXCEPT !.status = "none", !.seen = FALSE]) /\ \E p : net' = [m EXCEPT !.poll = p]
    BY <1>1 DEF Access!Load, Access!Rendered, Access!Asked, Access!NotRead, AccessNotRead, Access!None
  <2>2. /\ DOMAIN v = AccessUi /\ v.failed = FALSE /\ v.list = u.list /\ v.busy = u.busy /\ v.mount = u.mount
        /\ DOMAIN m = {"loads", "poll", "jobs"} /\ m.jobs = n.jobs
        /\ m.loads = Append(n.loads, [for |-> 0, step |-> "asked", got |-> AccessNotRead])
    BY <1>2, <1>3, AccessAsked
  <2> HIDE DEF v, m
  <2> QED BY <2>1, <2>2 DEF AccessUi
<1>5. past'.saves = past.saves
  BY <1>1 DEF AccessShape
<1>6. AccessJobs(saves)'
  BY <1>3, <1>4, <1>5 DEF AccessJobs
<1>7. AccessBusy'
  <2>1. /\ net'.jobs = [net.jobs EXCEPT ![j] = AccessFree] /\ ui'.mount = ui.mount /\ ui'.list = ui.list /\ ui'.failed = FALSE
        /\ ui'.busy = IF net.jobs[j].mount # ui.mount THEN ui.busy ELSE "none"
    BY <1>2, <1>3, <1>4
  <2>2. \A i \in DOMAIN net'.jobs : net'.jobs[i] # AccessFree => i # j /\ i \in DOMAIN net.jobs /\ net'.jobs[i] = net.jobs[i]
    BY <2>1 DEF AccessJobs
  <2>3. CASE net.jobs[j].mount = ui.mount
    <3>1. \A i \in DOMAIN net'.jobs : net'.jobs[i] # AccessFree => net'.jobs[i].mount # ui.mount /\ net'.jobs[i].mount \in 0..ui.mount
      BY <2>2, <2>3 DEF AccessBusy, AccessJobs
    <3> QED BY <2>1, <2>3, <3>1 DEF AccessBusy
  <2>4. CASE net.jobs[j].mount # ui.mount
    <3>1. ui'.busy # "none" => \E i \in DOMAIN net'.jobs : net'.jobs[i] # AccessFree /\ net'.jobs[i].mount = ui'.mount
      BY <2>1, <2>4 DEF AccessBusy, AccessJobs
    <3> QED BY <2>1, <2>2, <2>4, <3>1 DEF AccessBusy, AccessMounted
  <2> QED BY <2>3, <2>4
<1>8. \A i \in DOMAIN net.jobs : net.jobs[i].step \in {"stored", "failing"} => net'.jobs[i] = net.jobs[i] /\ i # 0
  BY <1>3, <1>4 DEF AccessJobs
<1>9. DOMAIN net'.jobs = DOMAIN net.jobs
  BY <1>3, <1>4
<1>10. /\ ui'.list = ui.list /\ ui'.mount = ui.mount /\ DOMAIN net' = DOMAIN net
       /\ net'.loads = Append(net.loads, [for |-> 0, step |-> "asked", got |-> AccessNotRead])
  BY <1>2, <1>3, <1>4 DEF AccessShape
<1> HIDE DEF AccessInv
<1> QED BY <1>1, <1>4, <1>6, <1>7, <1>8, <1>9, <1>10, AccessReload

LEMMA AccessEndQueue ==
  ASSUME NEW saves \in Nat, NEW else, NEW polls, AccessInv(saves), NEW j \in 1..saves, NEW step \in {"stored", "failing"},
         net.jobs[j] # AccessFree, net.jobs[j].step \notin {"stored", "failing"}, Access(saves, else, polls)!EndQueue(j, step), srv' = srv
  PROVE  AccessInv(saves)'
<1> USE DEF AccessInv
<1> DEFINE k == [net.jobs[j] EXCEPT !.step = step]
           n == [net EXCEPT !.jobs[j].step = step]
<1>0. AccessJob(net.jobs[j])
  BY DEF AccessJobs
<1>1. Access(saves, else, polls)!Load(ui, n, j) /\ past' = [past EXCEPT !.over = net.loads # <<>>]
  BY DEF Access!EndQueue, Access!Loading, Access!At
<1>2. DOMAIN n = {"loads", "poll", "jobs"} /\ n.loads = net.loads /\ n.jobs = [net.jobs EXCEPT ![j] = k]
  BY DEF AccessShape
<1>3. AccessJob(k) /\ k.act = net.jobs[j].act /\ k.mount = net.jobs[j].mount /\ k.step = step
  BY <1>0 DEF AccessJob
<1>4. k # AccessFree
  BY <1>3 DEF AccessFree, AccessJob
<1> HIDE DEF k, n
<1>5. /\ DOMAIN ui' = AccessUi /\ ui'.failed = FALSE /\ ui'.list = ui.list /\ ui'.mount = ui.mount /\ ui'.busy = ui.busy
      /\ DOMAIN net' = {"loads", "poll", "jobs"} /\ net'.jobs = n.jobs
      /\ net'.loads = Append(n.loads, [for |-> j, step |-> "asked", got |-> AccessNotRead])
  <2>1. DOMAIN ui = AccessUi
    BY DEF AccessShape
  <2> DEFINE v == [ui EXCEPT !.failed = FALSE]
             m == [n EXCEPT !.loads = Append(@, [for |-> j, step |-> "asked", got |-> AccessNotRead])]
  <2> HIDE DEF AccessInv
  <2>2. (ui' = v \/ ui' = [v EXCEPT !.status = "none", !.seen = FALSE]) /\ \E p : net' = [m EXCEPT !.poll = p]
    BY <1>1 DEF Access!Load, Access!Rendered, Access!Asked, Access!NotRead, AccessNotRead, Access!None
  <2>3. /\ DOMAIN v = AccessUi /\ v.failed = FALSE /\ v.list = ui.list /\ v.busy = ui.busy /\ v.mount = ui.mount
        /\ DOMAIN m = {"loads", "poll", "jobs"} /\ m.jobs = n.jobs
        /\ m.loads = Append(n.loads, [for |-> j, step |-> "asked", got |-> AccessNotRead])
    BY <1>2, <2>1, AccessAsked
  <2> HIDE DEF v, m
  <2> QED BY <2>2, <2>3 DEF AccessUi
<1>6. past'.saves = past.saves
  BY <1>1 DEF AccessShape
<1>7. AccessJobs(saves)'
  BY <1>2, <1>3, <1>4, <1>5, <1>6 DEF AccessJobs
<1>8. AccessBusy'
  <2>1. /\ net'.jobs = [net.jobs EXCEPT ![j] = k] /\ ui'.mount = ui.mount /\ ui'.list = ui.list /\ ui'.failed = FALSE
        /\ ui'.busy = ui.busy
    BY <1>2, <1>5
  <2>2. /\ DOMAIN net'.jobs = DOMAIN net.jobs
        /\ \A i \in DOMAIN net.jobs : /\ net'.jobs[i] # AccessFree => net.jobs[i] # AccessFree
                                     /\ net.jobs[i] # AccessFree => net'.jobs[i] # AccessFree /\ net'.jobs[i].mount = net.jobs[i].mount /\ net'.jobs[i].act = net.jobs[i].act
    BY <1>3, <1>4, <2>1 DEF AccessJobs
  <2> HIDE DEF AccessInv
  <2>3. AccessBusy
    BY DEF AccessInv
  <2>4. /\ \A i \in DOMAIN net'.jobs : net'.jobs[i] # AccessFree =>
             /\ net'.jobs[i].mount \in 0..ui'.mount
             /\ net'.jobs[i].mount = ui'.mount => net'.jobs[i].act = ui'.busy /\ AccessMounted'
    BY <2>1, <2>2, <2>3 DEF AccessBusy, AccessMounted
  <2>5. ASSUME ui'.busy # "none" PROVE \E i \in DOMAIN net'.jobs : net'.jobs[i] # AccessFree /\ net'.jobs[i].mount = ui'.mount
    <3>1. PICK i \in DOMAIN net.jobs : net.jobs[i] # AccessFree /\ net.jobs[i].mount = ui.mount
      BY <2>1, <2>3, <2>5 DEF AccessBusy
    <3>2. i \in DOMAIN net'.jobs /\ net'.jobs[i] # AccessFree /\ net'.jobs[i].mount = net.jobs[i].mount
      BY <2>2, <3>1
    <3> QED BY <2>1, <3>1, <3>2
  <2>6. \A i, m \in DOMAIN net'.jobs :
          net'.jobs[i] # AccessFree /\ net'.jobs[m] # AccessFree /\ net'.jobs[i].mount = ui'.mount /\ net'.jobs[m].mount = ui'.mount => i = m
    BY <2>1, <2>2, <2>3 DEF AccessBusy
  <2> QED BY <2>4, <2>5, <2>6 DEF AccessBusy
<1>9. \A i \in DOMAIN net.jobs : net.jobs[i].step \in {"stored", "failing"} => net'.jobs[i] = net.jobs[i] /\ i # j
  BY <1>2, <1>5 DEF AccessJobs
<1>10. DOMAIN net'.jobs = DOMAIN net.jobs /\ j \in DOMAIN net'.jobs /\ net'.jobs[j].step = step
  BY <1>2, <1>3, <1>5 DEF AccessJobs
<1>11. /\ net'.loads = Append(net.loads, [for |-> j, step |-> "asked", got |-> AccessNotRead]) /\ DOMAIN net' = DOMAIN net
       /\ past' = [past EXCEPT !.over = net.loads # <<>>] /\ j # 0
  BY <1>1, <1>2, <1>5 DEF AccessShape
<1> HIDE DEF AccessInv
<1>12. step \in {"stored", "failing"} /\ saves \in Nat /\ srv' = srv /\ AccessInv(saves)
  OBVIOUS
<1> QED BY <1>5, <1>7, <1>8, <1>9, <1>10, <1>11, <1>12, AccessReload

\* What neither reads the list, nor saves, nor changes the setting.
LEMMA AccessQuiet ==
  ASSUME NEW saves \in Nat, AccessInv(saves), DOMAIN ui' = AccessUi, ui'.failed = ui.failed, ui'.list = ui.list, ui'.busy = ui.busy,
         ui'.mount = ui.mount, DOMAIN net' = DOMAIN net, net'.loads = net.loads, net'.jobs = net.jobs, DOMAIN srv' = DOMAIN srv,
         srv'.now = srv.now, DOMAIN past' = DOMAIN past, past'.saves = past.saves, past'.elsewhere = past.elsewhere,
         past'.over = past.over, past'.behind = past.behind
  PROVE  AccessInv(saves)'
<1> USE DEF AccessInv
<1>1. AccessShape' /\ AccessList'
  BY DEF AccessShape, AccessList
<1>2. AccessLoads(net.loads, net.jobs)'
  <2>1. AccessLoads(net'.loads, net'.jobs)
    OBVIOUS
  <2> QED BY <2>1
<1>3. AccessJobs(saves)'
  BY DEF AccessJobs
<1>4. AccessBusy'
  BY DEF AccessBusy, AccessMounted
<1>5. AccessLast'
  BY DEF AccessLast
<1> QED BY <1>1, <1>2, <1>3, <1>4, <1>5

\* A read of the list the page asks for by itself.
LEMMA AccessAgain ==
  ASSUME NEW saves \in Nat, AccessInv(saves), DOMAIN ui' = AccessUi, ui'.failed = FALSE, ui'.list = ui.list, ui'.mount = ui.mount,
         ui'.busy = ui.busy, DOMAIN net' = {"loads", "poll", "jobs"}, net'.jobs = net.jobs, srv' = srv,
         net'.loads = Append(net.loads, [for |-> 0, step |-> "asked", got |-> AccessNotRead]),
         past' = [past EXCEPT !.over = net.loads # <<>>]
  PROVE  AccessInv(saves)'
<1>1. AccessJobs(saves)'
  BY DEF AccessInv, AccessJobs, AccessShape
<1>2. AccessBusy'
  BY DEF AccessInv, AccessBusy, AccessMounted
<1>3. \A j \in DOMAIN net.jobs : j # 0 /\ net'.jobs[j] = net.jobs[j]
  BY DEF AccessInv, AccessJobs
<1>4. DOMAIN net' = DOMAIN net
  BY DEF AccessInv, AccessShape
<1> QED BY <1>1, <1>2, <1>3, <1>4, AccessReload
LEMMA AccessReads ==
  ASSUME NEW saves \in Nat, NEW else, NEW polls, AccessInv(saves), Access(saves, else, polls)!Load(ui, net, 0), srv' = srv,
         past' = [past EXCEPT !.over = net.loads # <<>>]
  PROVE  AccessInv(saves)'
<1>1. DOMAIN ui = AccessUi /\ DOMAIN net = {"loads", "poll", "jobs"}
  BY DEF AccessInv, AccessShape
<1> DEFINE v == [ui EXCEPT !.failed = FALSE]
           m == [net EXCEPT !.loads = Append(@, [for |-> 0, step |-> "asked", got |-> AccessNotRead])]
<1>2. (ui' = v \/ ui' = [v EXCEPT !.status = "none", !.seen = FALSE]) /\ \E p : net' = [m EXCEPT !.poll = p]
  BY DEF Access!Load, Access!Rendered, Access!Asked, Access!NotRead, AccessNotRead, Access!None
<1>3. /\ DOMAIN v = AccessUi /\ v.failed = FALSE /\ v.list = ui.list /\ v.busy = ui.busy /\ v.mount = ui.mount
      /\ DOMAIN m = {"loads", "poll", "jobs"} /\ m.jobs = net.jobs
      /\ m.loads = Append(net.loads, [for |-> 0, step |-> "asked", got |-> AccessNotRead])
  BY <1>1, AccessAsked
<1> HIDE DEF v, m
<1>4. /\ DOMAIN ui' = AccessUi /\ ui'.failed = FALSE /\ ui'.list = ui.list /\ ui'.mount = ui.mount /\ ui'.busy = ui.busy
      /\ DOMAIN net' = {"loads", "poll", "jobs"} /\ net'.jobs = net.jobs
      /\ net'.loads = Append(net.loads, [for |-> 0, step |-> "asked", got |-> AccessNotRead])
  BY <1>2, <1>3 DEF AccessUi
<1> QED BY <1>4, AccessAgain

\* What is changed elsewhere.
AccessChange(c) ==
  \E o \in BOOLEAN, p \in 1..More, q \in 1..More :
    c \in {[srv.now EXCEPT !.on = o, !.port = p], [srv.now EXCEPT !.other = p], [srv.now EXCEPT !.queue = q],
           [srv.now EXCEPT !.here = FALSE]}

LEMMA AccessInit == ASSUME NEW saves \in Nat, NEW else, NEW polls PROVE Access(saves, else, polls)!Init => AccessInv(saves)
<1> SUFFICES ASSUME Access(saves, else, polls)!Init PROVE AccessInv(saves)
  OBVIOUS
<1>1. net.loads = <<[for |-> 0, step |-> "asked", got |-> AccessNotRead]>> /\ net.jobs = [j \in 1..saves |-> AccessFree] /\ DOMAIN net = {"loads", "poll", "jobs"}
  BY DEF Access!Init, Access!Asked, Access!NotRead, AccessNotRead, Access!Jobs, Access!Free, Access!None, AccessFree
<1>2. /\ DOMAIN ui = AccessUi /\ ui.list = AccessNotRead /\ ui.mount = 0 /\ ui.busy = "none"
  BY DEF Access!Init, AccessUi, Access!NotRead, AccessNotRead, Access!None
<1>3. PICK c \in Access(saves, else, polls)!Stored : Access(saves, else, polls)!Valid(c) /\ srv = [now |-> c, running |-> c.on]
  BY DEF Access!Init
<1>4. AccessSetting(srv.now) /\ DOMAIN srv = {"now", "running"}
  BY <1>3 DEF Access!Stored, Access!Valid, AccessSetting
<1>5. AccessShape /\ AccessList
  BY <1>1, <1>2, <1>4 DEF Access!Init, AccessShape, AccessList
<1>6. AccessLoads(net.loads, net.jobs)
  <2>1. net.loads \in Seq({[for |-> 0, step |-> "asked", got |-> AccessNotRead]}) /\ Len(net.loads) = 1
    BY <1>1
  <2>2. \A i \in 1..Len(net.loads) : net.loads[i] = [for |-> 0, step |-> "asked", got |-> AccessNotRead]
    BY <1>1
  <2> QED BY <2>1, <2>2 DEF AccessLoads
<1>7. AccessJobs(saves) /\ AccessBusy
  BY <1>1, <1>2 DEF AccessJobs, AccessBusy
<1>8. AccessLast
  BY <1>1 DEF Access!Init, AccessLast
<1> QED BY <1>5, <1>6, <1>7, <1>8 DEF AccessInv

\* A save begins: it is the only one of the page, whose buttons wait for it.
LEMMA AccessClick ==
  ASSUME NEW saves \in Nat, AccessInv(saves), NEW act \in {"on", "move", "off", "queue"}, NEW p, NEW q, act = "queue" => q # 0,
         ~ui.failed, ui.list # AccessNotRead, ui.busy = "none", past.saves < saves, srv' = srv,
         ui' = [ui EXCEPT !.busy = act], past' = [past EXCEPT !.saves = @ + 1],
         net' = [net EXCEPT !.jobs[past.saves + 1] =
                   [act |-> act, port |-> p, size |-> q, step |-> "reading", fresh |-> AccessNotRead, mount |-> ui.mount]]
  PROVE  AccessInv(saves)'
<1> USE DEF AccessInv
<1> DEFINE j == past.saves + 1
           k == [act |-> act, port |-> p, size |-> q, step |-> "reading", fresh |-> AccessNotRead, mount |-> ui.mount]
<1>1. AccessJob(k) /\ k.step = "reading" /\ k.mount = ui.mount /\ k.act = act /\ k # AccessFree
  BY DEF AccessJob, AccessFree
<1>2. /\ DOMAIN net' = DOMAIN net /\ net'.loads = net.loads /\ net'.jobs = [net.jobs EXCEPT ![j] = k]
  BY DEF AccessShape
<1>3. /\ DOMAIN ui' = AccessUi /\ ui'.busy = act /\ ui'.list = ui.list /\ ui'.failed = ui.failed /\ ui'.mount = ui.mount
  BY DEF AccessShape, AccessUi
<1>4. /\ DOMAIN past' = DOMAIN past /\ past'.saves = j /\ past'.elsewhere = past.elsewhere /\ past'.over = past.over /\ past'.behind = past.behind
  BY DEF AccessShape
<1>5. j \in 1..saves /\ past.saves \in Nat
  BY DEF AccessShape
<1>6. net.jobs[j] = AccessFree
  BY <1>5 DEF AccessJobs
<1> HIDE DEF j, k
<1>7. AccessShape' /\ AccessList'
  BY <1>2, <1>3, <1>4, <1>5 DEF AccessShape, AccessList
<1>8. AccessLoads(net.loads, net.jobs)'
  <2>1. AccessLoads(net.loads, net'.jobs)
    BY <1>2, <1>6, AccessHolds DEF AccessFree, AccessJobs
  <2> QED BY <1>2, <2>1
<1>9. AccessJobs(saves)'
  <2>1. past.saves < past'.saves
    BY <1>4, <1>5 DEF j
  <2>2. ASSUME NEW i \in 1..saves, net'.jobs[i] # AccessFree PROVE i <= past'.saves /\ AccessJob(net'.jobs[i])
    <3>1. CASE i = j
      BY <1>1, <1>2, <1>4, <1>5, <3>1 DEF AccessJobs
    <3>2. CASE i # j
      BY <1>2, <1>4, <1>5, <2>1, <2>2, <3>2 DEF AccessJobs
    <3> QED BY <3>1, <3>2
  <2> QED BY <1>2, <2>2 DEF AccessJobs
<1>10. AccessBusy'
  <2>1. \A i \in DOMAIN net.jobs : net.jobs[i] # AccessFree => net.jobs[i].mount \in 0..ui.mount /\ net.jobs[i].mount # ui.mount
    BY DEF AccessBusy, AccessJobs, AccessJob
  <2>2. /\ DOMAIN net'.jobs = DOMAIN net.jobs /\ j \in DOMAIN net'.jobs /\ net'.jobs[j] = k
        /\ \A i \in DOMAIN net.jobs : i # j => net'.jobs[i] = net.jobs[i]
    BY <1>2, <1>5 DEF AccessJobs
  <2>3. \A i \in DOMAIN net'.jobs : net'.jobs[i] # AccessFree =>
          /\ net'.jobs[i].mount \in 0..ui'.mount /\ (net'.jobs[i].mount = ui'.mount => i = j)
    BY <1>1, <1>3, <2>1, <2>2 DEF AccessShape
  <2>4. AccessMounted'
    BY <1>3 DEF AccessMounted
  <2> QED BY <1>1, <1>3, <2>2, <2>3, <2>4 DEF AccessBusy
<1>11. AccessLast'
  BY <1>1, <1>2, <1>3, <1>4, <1>6, AccessSame DEF AccessJobs, AccessFree
<1> QED BY <1>7, <1>8, <1>9, <1>10, <1>11

LEMMA AccessNext ==
  ASSUME NEW saves \in Nat, NEW else, NEW polls PROVE AccessInv(saves) /\ Access(saves, else, polls)!Next => AccessInv(saves)'
<1> SUFFICES ASSUME AccessInv(saves), Access(saves, else, polls)!Next PROVE AccessInv(saves)'
  OBVIOUS
<1> USE DEF AccessInv
<1>1. ASSUME NEW j \in 1..saves, Access(saves, else, polls)!ReadServed(j) PROVE AccessInv(saves)'
  <2> USE <1>1 DEF Access!ReadServed, Access!Step, Access!At
  <2>1. net.jobs[j].step = "reading" /\ net.jobs[j] # AccessFree /\ AccessJob(net.jobs[j])
    BY DEF AccessJobs, AccessFree
  <2> DEFINE served == [[net.jobs[j] EXCEPT !.step = "read"] EXCEPT !.fresh = srv.now]
             failed == [net.jobs[j] EXCEPT !.step = "unread"]
  <2>2. /\ DOMAIN net' = DOMAIN net /\ net'.loads = net.loads
        /\ net'.jobs = [net.jobs EXCEPT ![j] = served] \/ net'.jobs = [net.jobs EXCEPT ![j] = failed]
    <3>1. CASE net' = [[net EXCEPT !.jobs[j].step = "read"] EXCEPT !.jobs[j].fresh = srv.now]
      <4> DEFINE n == [net EXCEPT !.jobs[j].step = "read"]
      <4>1. /\ DOMAIN n = DOMAIN net /\ n.loads = net.loads /\ n.jobs = [net.jobs EXCEPT ![j] = [net.jobs[j] EXCEPT !.step = "read"]]
        BY DEF AccessShape
      <4>2. net' = [n EXCEPT !.jobs[j].fresh = srv.now]
        BY <3>1
      <4> HIDE DEF n
      <4>3. /\ DOMAIN net' = DOMAIN net /\ net'.loads = net.loads /\ net'.jobs = [n.jobs EXCEPT ![j] = [n.jobs[j] EXCEPT !.fresh = srv.now]]
        BY <4>1, <4>2 DEF AccessShape
      <4>4. n.jobs[j] = [net.jobs[j] EXCEPT !.step = "read"]
        BY <4>1 DEF AccessJobs
      <4> QED BY <4>1, <4>3, <4>4
    <3>2. CASE net' = [net EXCEPT !.jobs[j].step = "unread"]
      BY <3>2 DEF AccessShape
    <3> QED BY <3>1, <3>2
  <2>3. PICK k \in {served, failed} : net'.jobs = [net.jobs EXCEPT ![j] = k]
    BY <2>2
  <2>4. AccessJob(k) /\ k.act = net.jobs[j].act /\ k.mount = net.jobs[j].mount /\ k.step \in {"read", "unread"}
    <3>1. AccessSetting(srv.now)
      BY DEF AccessList
    <3> QED BY <2>1, <2>3, <3>1 DEF AccessJob
  <2>5. /\ DOMAIN past' = DOMAIN past /\ past'.saves = past.saves /\ past'.elsewhere = past.elsewhere /\ past'.over = past.over
        /\ past'.behind = past.behind /\ ui' = ui /\ srv' = srv
    BY DEF Access!Spent, AccessShape
  <2> HIDE DEF served, failed
  <2>6. AccessLast'
    BY <2>1, <2>2, <2>3, <2>4, <2>5, AccessSame DEF AccessJobs
  <2> QED BY <2>1, <2>2, <2>3, <2>4, <2>5, <2>6, AccessMoves DEF AccessList
<1>2. ASSUME NEW j \in 1..saves, Access(saves, else, polls)!ReadLands(j) PROVE AccessInv(saves)'
  <2> USE <1>2 DEF Access!ReadLands, Access!Step, Access!At
  <2>1. net.jobs[j].step \in {"read", "unread"} /\ net.jobs[j] # AccessFree /\ AccessJob(net.jobs[j]) /\ srv' = srv
    BY DEF AccessJobs, AccessFree
  <2>2. CASE Access(saves, else, polls)!EndQueue(j, "failing")
    BY <2>1, <2>2, AccessEndQueue
  <2>3. CASE Access(saves, else, polls)!EndSave(j, FALSE)
    BY <2>1, <2>3, AccessEndSave
  <2>4. CASE Access(saves, else, polls)!MayWrite(net.jobs[j]) /\ net' = [net EXCEPT !.jobs[j].step = "writing"] /\ UNCHANGED <<ui, past>>
    <3> DEFINE k == [net.jobs[j] EXCEPT !.step = "writing"]
    <3>1. AccessJob(k) /\ k.act = net.jobs[j].act /\ k.mount = net.jobs[j].mount /\ k.step = "writing"
      BY <2>1, <2>4 DEF AccessJob, Access!MayWrite
    <3>2. DOMAIN net' = DOMAIN net /\ net'.loads = net.loads /\ net'.jobs = [net.jobs EXCEPT ![j] = k]
      BY <2>4 DEF AccessShape
    <3> HIDE DEF k
    <3>3. AccessLast'
      BY <2>1, <2>4, <3>1, <3>2, AccessSame DEF AccessJobs
    <3> QED BY <2>1, <2>4, <3>1, <3>2, <3>3, AccessMoves DEF AccessList
  <2> QED BY <2>2, <2>3, <2>4
<1>3. ASSUME NEW j \in 1..saves, Access(saves, else, polls)!WriteServed(j) PROVE AccessInv(saves)'
  <2> USE <1>3 DEF Access!WriteServed, Access!Step, Access!At
  <2>1. net.jobs[j].step = "writing" /\ net.jobs[j] # AccessFree /\ AccessJob(net.jobs[j]) /\ ui' = ui
    BY DEF AccessJobs, AccessFree
  <2>2. PICK step \in {"written", "refused"} : net' = [net EXCEPT !.jobs[j].step = step]
    OBVIOUS
  <2> DEFINE k == [net.jobs[j] EXCEPT !.step = step]
             c == Access(saves, else, polls)!Written(net.jobs[j])
  <2>3. AccessJob(k) /\ k.act = net.jobs[j].act /\ k.mount = net.jobs[j].mount /\ k.step = step
    BY <2>1 DEF AccessJob
  <2>4. DOMAIN net' = DOMAIN net /\ net'.loads = net.loads /\ net'.jobs = [net.jobs EXCEPT ![j] = k]
    BY <2>2 DEF AccessShape
  <2>5. Access(saves, else, polls)!Valid(c) => AccessSetting(c)
    BY <2>1 DEF AccessList, AccessSetting, AccessJob, Access!Written, Access!Valid
  <2>6. srv' = srv \/ (Access(saves, else, polls)!Valid(c) /\ srv' = [srv EXCEPT !.now = c])
    OBVIOUS
  <2>7. DOMAIN srv' = DOMAIN srv /\ AccessSetting(srv'.now)
    <3> HIDE DEF c
    <3> QED BY <2>5, <2>6 DEF AccessShape, AccessList
  <2>8. /\ DOMAIN past' = DOMAIN past /\ past'.saves = past.saves /\ past'.elsewhere = past.elsewhere /\ past'.over = past.over
        /\ past'.behind = past.behind
    BY DEF Access!Spent, AccessShape
  <2>9. AccessLast'
    <3>1. j \in DOMAIN net'.jobs /\ net'.jobs[j].step \in {"written", "refused"}
      BY <2>3, <2>4 DEF AccessJobs
    <3> QED BY <2>4, <2>8, <3>1 DEF AccessLast
  <2> HIDE DEF k, c
  <2> QED BY <2>1, <2>3, <2>4, <2>7, <2>8, <2>9, AccessMoves
<1>4. ASSUME NEW j \in 1..saves, Access(saves, else, polls)!WriteLands(j) PROVE AccessInv(saves)'
  <2> USE <1>4 DEF Access!WriteLands, Access!Step, Access!At
  <2>1. net.jobs[j].step \in {"written", "refused"} /\ net.jobs[j] # AccessFree /\ AccessJob(net.jobs[j]) /\ srv' = srv
    BY DEF AccessJobs, AccessFree
  <2>2. CASE Access(saves, else, polls)!EndQueue(j, IF net.jobs[j].step = "written" THEN "stored" ELSE "failing")
    <3>1. Access(saves, else, polls)!EndQueue(j, "stored") \/ Access(saves, else, polls)!EndQueue(j, "failing")
      <4>1. CASE net.jobs[j].step = "written"
        BY <2>2, <4>1 DEF Access!EndQueue, Access!Load, Access!Rendered
      <4>2. CASE net.jobs[j].step # "written"
        BY <2>2, <4>2 DEF Access!EndQueue, Access!Load, Access!Rendered
      <4> QED BY <4>1, <4>2
    <3> QED BY <2>1, <3>1, AccessEndQueue
  <2>3. CASE Access(saves, else, polls)!EndSave(j, net.jobs[j].step = "written")
    <3>1. Access(saves, else, polls)!EndSave(j, TRUE) \/ Access(saves, else, polls)!EndSave(j, FALSE)
      <4>1. CASE net.jobs[j].step = "written"
        BY <2>3, <4>1 DEF Access!EndSave, Access!Load, Access!Rendered
      <4>2. CASE net.jobs[j].step # "written"
        BY <2>3, <4>2 DEF Access!EndSave, Access!Load, Access!Rendered
      <4> QED BY <4>1, <4>2
    <3> QED BY <2>1, <3>1, AccessEndSave
  <2>4. CASE net' = [net EXCEPT !.jobs[j].step = "reporting"] /\ UNCHANGED <<ui, past>>
    <3> DEFINE k == [net.jobs[j] EXCEPT !.step = "reporting"]
    <3>1. AccessJob(k) /\ k.act = net.jobs[j].act /\ k.mount = net.jobs[j].mount /\ k.step = "reporting"
      BY <2>1 DEF AccessJob
    <3>2. DOMAIN net' = DOMAIN net /\ net'.loads = net.loads /\ net'.jobs = [net.jobs EXCEPT ![j] = k]
      BY <2>4 DEF AccessShape
    <3> HIDE DEF k
    <3>3. AccessLast'
      BY <2>1, <2>4, <3>1, <3>2 DEF AccessLast, AccessJobs
    <3> QED BY <2>1, <2>4, <3>1, <3>2, <3>3, AccessMoves DEF AccessList
  <2> QED BY <2>2, <2>3, <2>4
<1>5. ASSUME NEW j \in 1..saves, Access(saves, else, polls)!ReportEnds(j) PROVE AccessInv(saves)'
  <2>1. net.jobs[j].step = "reporting" /\ srv' = srv
    BY <1>5 DEF Access!ReportEnds, Access!Step
  <2>2. Access(saves, else, polls)!EndSave(j, TRUE)
    BY <1>5 DEF Access!ReportEnds
  <2>3. net.jobs[j] # AccessFree
    BY <2>1 DEF AccessFree
  <2> QED BY <2>1, <2>2, <2>3, AccessEndSave
<1>6. CASE Access(saves, else, polls)!Retry
  <2>1. Access(saves, else, polls)!Load(ui, net, 0) /\ past' = [past EXCEPT !.over = net.loads # <<>>] /\ srv' = srv
    BY <1>6 DEF Access!Retry, Access!Loading
  <2>2. DOMAIN ui = AccessUi /\ DOMAIN net = {"loads", "poll", "jobs"}
    BY DEF AccessShape
  <2> QED BY <2>1, <2>2, AccessReads
<1>7. CASE Access(saves, else, polls)!PollLands
  <2> USE <1>7 DEF Access!PollLands
  <2> DEFINE u == [ui EXCEPT !.status = net.poll, !.seen = net.poll = "off"]
             n == [net EXCEPT !.poll = "none"]
  <2>1. /\ DOMAIN u = AccessUi /\ u.failed = ui.failed /\ u.list = ui.list /\ u.busy = ui.busy /\ u.mount = ui.mount
        /\ DOMAIN n = {"loads", "poll", "jobs"} /\ n.loads = net.loads /\ n.jobs = net.jobs
    BY DEF AccessShape, AccessUi
  <2>2. CASE Access(saves, else, polls)!Load(u, n, 0) /\ past' = [past EXCEPT !.over = net.loads # <<>>]
    <3>1. /\ DOMAIN ui' = AccessUi /\ ui'.failed = FALSE /\ ui'.list = ui.list /\ ui'.mount = ui.mount /\ ui'.busy = ui.busy
          /\ DOMAIN net' = {"loads", "poll", "jobs"} /\ net'.jobs = net.jobs
          /\ net'.loads = Append(net.loads, [for |-> 0, step |-> "asked", got |-> AccessNotRead])
      <4> DEFINE v == [u EXCEPT !.failed = FALSE]
                 m == [n EXCEPT !.loads = Append(@, [for |-> 0, step |-> "asked", got |-> AccessNotRead])]
      <4> HIDE DEF AccessInv
      <4>1. (ui' = v \/ ui' = [v EXCEPT !.status = "none", !.seen = FALSE]) /\ \E p : net' = [m EXCEPT !.poll = p]
        BY <2>2 DEF Access!Load, Access!Rendered, Access!Asked, Access!NotRead, AccessNotRead, Access!None
      <4> HIDE DEF u, n
      <4>2. /\ DOMAIN v = AccessUi /\ v.failed = FALSE /\ v.list = u.list /\ v.busy = u.busy /\ v.mount = u.mount
            /\ DOMAIN m = {"loads", "poll", "jobs"} /\ m.jobs = n.jobs
            /\ m.loads = Append(n.loads, [for |-> 0, step |-> "asked", got |-> AccessNotRead])
        BY <2>1, AccessAsked
      <4> HIDE DEF v, m
      <4> QED BY <2>1, <4>1, <4>2 DEF AccessUi
    <3>2. srv' = srv
      OBVIOUS
    <3> QED BY <2>2, <3>1, <3>2, AccessAgain
  <2>3. CASE Access(saves, else, polls)!Rendered(u, n) /\ past' = past
    <3>1. (ui' = u \/ ui' = [u EXCEPT !.status = "none", !.seen = FALSE]) /\ \E p : net' = [n EXCEPT !.poll = p]
      BY <2>3 DEF Access!Rendered, Access!None
    <3> HIDE DEF u, n
    <3>2. /\ DOMAIN ui' = AccessUi /\ ui'.failed = ui.failed /\ ui'.list = ui.list /\ ui'.busy = ui.busy /\ ui'.mount = ui.mount
          /\ DOMAIN net' = DOMAIN net /\ net'.loads = net.loads /\ net'.jobs = net.jobs
      BY <2>1, <3>1 DEF AccessUi, AccessShape
    <3>3. srv' = srv
      OBVIOUS
    <3> QED BY <2>3, <3>2, <3>3, AccessQuiet DEF AccessShape, AccessList
  <2> QED BY <2>2, <2>3 DEF Access!None, Access!Loading
<1>8. CASE Access(saves, else, polls)!Tick \/ Access(saves, else, polls)!PollServed
  <2>1. /\ ui' = ui /\ srv' = srv /\ DOMAIN net' = DOMAIN net /\ net'.loads = net.loads /\ net'.jobs = net.jobs
        /\ DOMAIN past' = DOMAIN past /\ past'.saves = past.saves /\ past'.elsewhere = past.elsewhere /\ past'.over = past.over
        /\ past'.behind = past.behind
    BY <1>8 DEF Access!Tick, Access!PollServed, AccessShape
  <2> QED BY <2>1, AccessQuiet DEF AccessShape, AccessList
<1>9. CASE Access(saves, else, polls)!Reader
  <2>1. net' = net /\ srv' = srv /\ past' = past
    BY <1>9 DEF Access!Reader
  <2>2. Access(saves, else, polls)!PickPort \/ Access(saves, else, polls)!TypeSize \/ Access(saves, else, polls)!Ask \/ Access(saves, else, polls)!Cancel
    BY <1>9 DEF Access!Reader
  <2>3. \E p : ui' = [ui EXCEPT !.port = p] \/ ui' = [ui EXCEPT !.queue = p] \/ ui' = [ui EXCEPT !.confirming = p]
    BY <2>2 DEF Access!PickPort, Access!TypeSize, Access!Ask, Access!Cancel
  <2>4. DOMAIN ui' = AccessUi /\ ui'.failed = ui.failed /\ ui'.list = ui.list /\ ui'.busy = ui.busy /\ ui'.mount = ui.mount
    BY <2>3 DEF AccessShape, AccessUi
  <2> QED BY <2>1, <2>4, AccessQuiet DEF AccessShape, AccessList
<1>10. CASE Access(saves, else, polls)!Restart
  <2>1. /\ UNCHANGED <<ui, net, past>> /\ DOMAIN srv' = DOMAIN srv /\ srv'.now = srv.now
    BY <1>10 DEF Access!Restart, AccessShape
  <2> QED BY <2>1, AccessQuiet DEF AccessShape, AccessList
<1>11. CASE Access(saves, else, polls)!Elsewhere
  <2>1. /\ ui' = ui /\ net' = net /\ DOMAIN past' = DOMAIN past /\ past'.saves = past.saves /\ past'.elsewhere = past.elsewhere + 1
        /\ past'.over = past.over /\ past'.behind = TRUE
    BY <1>11 DEF Access!Elsewhere, AccessShape
  <2>2. PICK c : Access(saves, else, polls)!Valid(c) /\ srv' = [srv EXCEPT !.now = c] /\ AccessChange(c)
    BY <1>11, BoundsAssumption DEF Access!Elsewhere, AccessChange
  <2>3. AccessSetting(c)
    <3> USE DEF AccessSetting, AccessList, Access!Valid
    <3>1. PICK o \in BOOLEAN, p \in 1..More, q \in 1..More :
            c \in {[srv.now EXCEPT !.on = o, !.port = p], [srv.now EXCEPT !.other = p], [srv.now EXCEPT !.queue = q],
                   [srv.now EXCEPT !.here = FALSE]}
      BY <2>2 DEF AccessChange
    <3>2. q # 0
      BY BoundsAssumption
    <3> QED BY <2>2, <3>1, <3>2
  <2>4. DOMAIN srv' = DOMAIN srv /\ srv'.now = c
    BY <2>2 DEF AccessShape
  <2>5. AccessShape' /\ AccessList'
    BY <2>1, <2>3, <2>4 DEF AccessShape, AccessList
  <2>6. AccessLoads(net.loads, net.jobs)' /\ AccessJobs(saves)' /\ AccessBusy'
    <3>1. AccessLoads(net.loads, net.jobs)'
      BY <2>1
    <3>2. AccessJobs(saves)'
      BY <2>1 DEF AccessJobs
    <3>3. AccessBusy'
      BY <2>1 DEF AccessBusy, AccessMounted
    <3> QED BY <3>1, <3>2, <3>3
  <2>7. AccessLast'
    BY <2>1 DEF AccessLast
  <2> QED BY <2>5, <2>6, <2>7
<1>12. CASE Access(saves, else, polls)!TurnOn \/ Access(saves, else, polls)!Move \/ Access(saves, else, polls)!TurnOff \/ Access(saves, else, polls)!SaveQueue
  <2>1. PICK act \in {"on", "move", "off", "queue"} : \E p, q :
          /\ ui' = [ui EXCEPT !.busy = act] /\ (act = "queue" => q # 0)
          /\ net' = [net EXCEPT !.jobs[past.saves + 1] =
                       [act |-> act, port |-> p, size |-> q, step |-> "reading", fresh |-> AccessNotRead, mount |-> ui.mount]]
    <3> USE DEF Access!Click, Access!NotRead, AccessNotRead
    <3>1. CASE Access(saves, else, polls)!TurnOn
      BY <3>1 DEF Access!TurnOn
    <3>2. CASE Access(saves, else, polls)!Move
      BY <3>2 DEF Access!Move
    <3>3. CASE Access(saves, else, polls)!TurnOff
      BY <3>3 DEF Access!TurnOff
    <3>4. CASE Access(saves, else, polls)!SaveQueue
      BY <3>4 DEF Access!SaveQueue
    <3> QED BY <1>12, <3>1, <3>2, <3>3, <3>4
  <2>2. /\ ~ui.failed /\ ui.list # AccessNotRead /\ ui.busy = "none" /\ past.saves < saves /\ srv' = srv
        /\ past' = [past EXCEPT !.saves = @ + 1]
    BY <1>12 DEF Access!TurnOn, Access!Move, Access!TurnOff, Access!SaveQueue, Access!Click, Access!Usable, Access!Mounted, Access!NotRead,
                 AccessNotRead, Access!None
  <2> QED BY <2>1, <2>2, AccessClick
<1>13. ASSUME NEW i \in DOMAIN net.loads, Access(saves, else, polls)!LoadServed(i) PROVE AccessInv(saves)'
  <2> USE <1>13 DEF Access!LoadServed
  <2>1. PICK S : net.loads \in Seq(S)
    BY DEF AccessLoads
  <2>2. i \in 1..Len(net.loads) /\ net.loads[i].step = "asked" /\ ui' = ui /\ srv' = srv /\ DOMAIN net.loads[i] = {"for", "step", "got"}
    BY <2>1 DEF AccessLoads
  <2> DEFINE served == [[net.loads[i] EXCEPT !.step = "served"] EXCEPT !.got = srv.now]
             failed == [net.loads[i] EXCEPT !.step = "failed"]
  <2>3. /\ DOMAIN net' = DOMAIN net /\ net'.jobs = net.jobs
        /\ \/ net'.loads = [net.loads EXCEPT ![i] = served] /\ past' = [past EXCEPT !.behind = @ /\ Len(net.loads) > 1]
           \/ net'.loads = [net.loads EXCEPT ![i] = failed] /\ past' = Access(saves, else, polls)!Spent
    <3>1. CASE net' = [[net EXCEPT !.loads[i].step = "served"] EXCEPT !.loads[i].got = srv.now] /\ past' = [past EXCEPT !.behind = @ /\ Len(net.loads) > 1]
      <4> DEFINE n == [net EXCEPT !.loads[i].step = "served"]
      <4>1. DOMAIN n = DOMAIN net /\ n.jobs = net.jobs /\ n.loads = [net.loads EXCEPT ![i] = [net.loads[i] EXCEPT !.step = "served"]]
        BY DEF AccessShape
      <4>2. net' = [n EXCEPT !.loads[i].got = srv.now]
        BY <3>1
      <4> HIDE DEF n
      <4>3. DOMAIN net' = DOMAIN net /\ net'.jobs = net.jobs /\ net'.loads = [n.loads EXCEPT ![i] = [n.loads[i] EXCEPT !.got = srv.now]]
        BY <4>1, <4>2 DEF AccessShape
      <4>4. n.loads[i] = [net.loads[i] EXCEPT !.step = "served"]
        BY <4>1
      <4> QED BY <3>1, <4>1, <4>3, <4>4
    <3>2. CASE net' = [net EXCEPT !.loads[i].step = "failed"] /\ past' = Access(saves, else, polls)!Spent
      BY <3>2 DEF AccessShape
    <3> QED BY <3>1, <3>2
  <2>4. PICK l : /\ net'.loads = [net.loads EXCEPT ![i] = l]
                 /\ DOMAIN l = {"for", "step", "got"} /\ l.for = net.loads[i].for /\ l.step \in {"served", "failed"} /\ (l.step = "served" => l.got = srv.now)
                 /\ \/ l.step = "served" /\ past' = [past EXCEPT !.behind = @ /\ Len(net.loads) > 1]
                    \/ l.step = "failed" /\ past' = Access(saves, else, polls)!Spent
    <3>1. DOMAIN served = {"for", "step", "got"} /\ served.for = net.loads[i].for /\ served.step = "served" /\ served.got = srv.now
      BY <2>2
    <3>2. DOMAIN failed = {"for", "step", "got"} /\ failed.for = net.loads[i].for /\ failed.step = "failed"
      BY <2>2
    <3> HIDE DEF served, failed
    <3> QED BY <2>3, <3>1, <3>2
  <2>5. /\ DOMAIN past' = DOMAIN past /\ past'.saves = past.saves /\ past'.elsewhere = past.elsewhere /\ past'.over = past.over
        /\ past'.behind = past.behind \/ (past'.behind = (past.behind /\ Len(net.loads) > 1) /\ l.step = "served")
    <3>1. CASE l.step = "served" /\ past' = [past EXCEPT !.behind = @ /\ Len(net.loads) > 1]
      BY <3>1 DEF AccessShape
    <3>2. CASE past' = Access(saves, else, polls)!Spent
      BY <3>2 DEF AccessShape, Access!Spent
    <3> QED BY <2>4, <3>1, <3>2
  <2> HIDE DEF served, failed
  <2>6. /\ net'.loads \in Seq(S \cup {l}) /\ Len(net'.loads) = Len(net.loads) /\ net'.loads[i] = l
        /\ \A m \in 1..Len(net.loads) : m # i => net'.loads[m] = net.loads[m]
    BY <2>1, <2>2, <2>4
  <2>7. AccessShape' /\ AccessList'
    BY <2>2, <2>3, <2>5 DEF AccessShape, AccessList
  <2>8. AccessLoads(net.loads, net.jobs)'
    <3>1. AccessLoads(net'.loads, net.jobs)
      BY <2>2, <2>4, <2>6 DEF AccessLoads, AccessList
    <3> QED BY <2>3, <3>1
  <2>9. AccessJobs(saves)' /\ AccessBusy'
    <3>1. AccessJobs(saves)'
      BY <2>2, <2>3, <2>5 DEF AccessJobs
    <3>2. AccessBusy'
      BY <2>2, <2>3, <2>5 DEF AccessBusy, AccessMounted
    <3> QED BY <3>1, <3>2
  <2>10. AccessLast'
    <3>1. CASE past.over
      BY <2>2, <2>3, <2>5, <3>1 DEF AccessLast
    <3>2. CASE ~past.over
      <4>1. Len(net.loads) = 1 /\ i = 1
        <5>1. Len(net.loads) <= 1 /\ Len(net.loads) \in Nat
          BY <2>1, <3>2 DEF AccessLast
        <5>2. \A m \in Nat : \A x \in 1..m : m <= 1 => m = 1 /\ x = 1
          OBVIOUS
        <5>3. i \in 1..Len(net.loads)
          BY <2>2
        <5> QED BY <5>1, <5>2, <5>3
      <4>2. net'.loads # <<>> /\ Len(net'.loads) = 1 /\ net'.loads[1] = l
        BY <2>6, <4>1
      <4>3. past'.over = past.over /\ past'.behind \in BOOLEAN
        BY <2>5 DEF AccessLast
      <4>4. \A m \in 1..Len(net'.loads) : net'.loads[m].step = "served" => net'.loads[m].got = srv'.now
        BY <2>2, <2>4, <4>2
      <4> QED BY <3>2, <4>2, <4>3, <4>4 DEF AccessLast
    <3> QED BY <3>1, <3>2 DEF AccessLast
  <2> QED BY <2>7, <2>8, <2>9, <2>10
<1>14. ASSUME NEW i \in DOMAIN net.loads, Access(saves, else, polls)!LoadLands(i) PROVE AccessInv(saves)'
  <2> USE <1>14 DEF Access!LoadLands
  <2>1. PICK S : net.loads \in Seq(S)
    BY DEF AccessLoads
  <2> DEFINE l == net.loads[i]
             j == l.for
             over == [net EXCEPT !.loads = Access(saves, else, polls)!Without(@, i)]
             n == IF j = 0 THEN over ELSE [over EXCEPT !.jobs[j] = AccessFree]
  <2>2. /\ i \in 1..Len(net.loads) /\ l.step # "asked" /\ l.step \in {"asked", "served", "failed"} /\ srv' = srv /\ past' = past
        /\ l.step = "served" => AccessSetting(l.got)
        /\ j # 0 => j \in 1..saves /\ net.jobs[j].step \in {"stored", "failing"} /\ net.jobs[j] # AccessFree
    BY <2>1 DEF AccessLoads, AccessJobs, AccessFree
  <2>3. /\ DOMAIN n = {"loads", "poll", "jobs"} /\ n.loads = Access(saves, else, polls)!Without(net.loads, i)
        /\ n.jobs = IF j = 0 THEN net.jobs ELSE [net.jobs EXCEPT ![j] = AccessFree]
    BY DEF AccessShape
  <2> DEFINE gone == IF Access(saves, else, polls)!Mounted(ui) THEN Access(saves, else, polls)!Unmounted([ui EXCEPT !.failed = TRUE]) ELSE [ui EXCEPT !.failed = TRUE]
             read == Access(saves, else, polls)!Ended([ui EXCEPT !.list = l.got], j)
  <2>4. \/ l.step = "failed" /\ Access(saves, else, polls)!Rendered(gone, n)
        \/ l.step # "failed" /\ Access(saves, else, polls)!Rendered(read, n)
    BY DEF Access!Free, AccessFree, Access!None
  <2>5. /\ DOMAIN gone = AccessUi /\ gone.failed = TRUE /\ gone.list = ui.list
        /\ IF AccessMounted THEN gone.busy = "none" /\ gone.mount = ui.mount + 1 ELSE gone.busy = ui.busy /\ gone.mount = ui.mount
    BY DEF AccessShape, AccessUi, Access!Mounted, Access!Unmounted, Access!None, AccessMounted, Access!NotRead, AccessNotRead
  <2>6. /\ DOMAIN read = AccessUi /\ read.failed = ui.failed /\ read.list = l.got /\ read.mount = ui.mount
        /\ read.busy = IF j = 0 \/ net.jobs[j].mount # ui.mount THEN ui.busy ELSE "none"
    BY DEF AccessShape, AccessUi, Access!Ended, Access!None
  <2> HIDE DEF gone, read, n
  <2>7. PICK v : /\ (v = gone /\ l.step = "failed") \/ (v = read /\ l.step = "served")
                 /\ (ui' = v \/ ui' = [v EXCEPT !.status = "none", !.seen = FALSE]) /\ \E p : net' = [n EXCEPT !.poll = p]
    BY <2>2, <2>4 DEF Access!Rendered, Access!None
  <2>8. /\ DOMAIN ui' = AccessUi /\ ui'.failed = v.failed /\ ui'.list = v.list /\ ui'.busy = v.busy /\ ui'.mount = v.mount
        /\ DOMAIN net' = {"loads", "poll", "jobs"} /\ net'.loads = Access(saves, else, polls)!Without(net.loads, i) /\ net'.jobs = n.jobs
    BY <2>3, <2>5, <2>6, <2>7 DEF AccessUi
  <2>9. /\ net'.loads \in Seq(S) /\ Len(net'.loads) = Len(net.loads) - 1
        /\ \A k \in 1..Len(net'.loads) : net'.loads[k] = net.loads[IF k < i THEN k ELSE k + 1]
    BY <2>1, <2>2, <2>8, LoadWithout
  <2>10. AccessShape' /\ AccessList'
    <3>1. ui'.list = ui.list \/ AccessSetting(ui'.list)
      BY <2>2, <2>5, <2>6, <2>7, <2>8
    <3>2. ui'.mount \in Nat
      BY <2>5, <2>6, <2>7, <2>8 DEF AccessShape
    <3> QED BY <2>2, <2>8, <3>1, <3>2 DEF AccessShape, AccessList
  <2>11. /\ DOMAIN net'.jobs = DOMAIN net.jobs /\ (j # 0 => net'.jobs[j] = AccessFree)
         /\ \A m \in DOMAIN net.jobs : m # j => net'.jobs[m] = net.jobs[m]
    BY <2>2, <2>3, <2>8 DEF AccessJobs
  <2> HIDE DEF l, j
  <2>12. AccessLoads(net.loads, net.jobs)'
    <3>1. ASSUME NEW k \in 1..Len(net'.loads)
          PROVE  \E m \in 1..Len(net.loads) \ {i} : net'.loads[k] = net.loads[m] /\ m = IF k < i THEN k ELSE k + 1
      <4>1. Len(net.loads) \in Nat /\ Len(net'.loads) \in Nat
        BY <2>1, <2>9
      <4>2. i \in 1..Len(net.loads) /\ Len(net'.loads) = Len(net.loads) - 1
        BY <2>2, <2>9
      <4>3. net'.loads[k] = net.loads[IF k < i THEN k ELSE k + 1]
        BY <2>9
      <4>4. (IF k < i THEN k ELSE k + 1) \in 1..Len(net.loads) \ {i}
        BY <4>1, <4>2
      <4> QED BY <4>3, <4>4
    <3>2. \A m \in 1..Len(net.loads) \ {i} : net.loads[m].for # 0 => net.loads[m].for # j
      BY <2>2 DEF AccessLoads, l, j
    <3>3. ASSUME NEW k \in 1..Len(net'.loads)
          PROVE  /\ DOMAIN net'.loads[k] = {"for", "step", "got"} /\ net'.loads[k].step \in {"asked", "served", "failed"}
                 /\ net'.loads[k].step = "served" => AccessSetting(net'.loads[k].got)
                 /\ net'.loads[k].for # 0 => net'.loads[k].for \in DOMAIN net'.jobs /\ net'.jobs[net'.loads[k].for].step \in {"stored", "failing"}
      <4>1. PICK m \in 1..Len(net.loads) \ {i} : net'.loads[k] = net.loads[m]
        BY <3>1
      <4> QED BY <2>11, <3>2, <4>1 DEF AccessLoads
    <3>4. ASSUME NEW k \in 1..Len(net'.loads), NEW m \in 1..Len(net'.loads), net'.loads[k].for # 0, net'.loads[k].for = net'.loads[m].for
          PROVE  k = m
      <4>1. PICK a \in 1..Len(net.loads) \ {i} : net'.loads[k] = net.loads[a] /\ a = IF k < i THEN k ELSE k + 1
        BY <3>1
      <4>2. PICK b \in 1..Len(net.loads) \ {i} : net'.loads[m] = net.loads[b] /\ b = IF m < i THEN m ELSE m + 1
        BY <3>1
      <4>3. a = b
        BY <3>4, <4>1, <4>2 DEF AccessLoads
      <4>4. k \in Nat /\ m \in Nat /\ i \in Nat
        BY <2>1, <2>2, <2>9
      <4> QED BY <4>1, <4>2, <4>3, <4>4
    <3>5. \E T : net'.loads \in Seq(T)
      BY <2>9
    <3>6. AccessLoads(net'.loads, net'.jobs)
      BY <3>3, <3>4, <3>5 DEF AccessLoads
    <3> QED BY <3>6
  <2>13. AccessJobs(saves)'
    BY <2>2, <2>11 DEF AccessJobs
  <2>14. AccessBusy'
    <3>1. \A m \in DOMAIN net'.jobs : net'.jobs[m] # AccessFree => m # j /\ m \in DOMAIN net.jobs /\ net'.jobs[m] = net.jobs[m]
      BY <2>2, <2>11 DEF AccessJobs
    <3>2. CASE l.step = "failed" /\ AccessMounted
      <4>1. ui'.busy = "none" /\ ui'.mount = ui.mount + 1 /\ ui.mount \in Nat
        BY <2>5, <2>6, <2>7, <2>8, <3>2 DEF AccessShape
      <4>2. \A m \in DOMAIN net'.jobs : net'.jobs[m] # AccessFree => net'.jobs[m].mount \in 0..ui.mount
        BY <3>1 DEF AccessBusy
      <4> QED BY <4>1, <4>2 DEF AccessBusy
    <3>3. CASE l.step = "failed" /\ ~AccessMounted
      <4>1. ui'.busy = ui.busy /\ ui'.mount = ui.mount
        BY <2>5, <2>6, <2>7, <2>8, <3>3
      <4>2. \A m \in DOMAIN net.jobs : net.jobs[m] # AccessFree => net.jobs[m].mount \in 0..ui.mount /\ net.jobs[m].mount # ui.mount
        BY <3>3 DEF AccessBusy
      <4>3. ui.busy = "none"
        BY <4>2 DEF AccessBusy
      <4> QED BY <3>1, <4>1, <4>2, <4>3 DEF AccessBusy
    <3>4. CASE l.step # "failed"
      <4>1. /\ ui'.mount = ui.mount /\ ui'.failed = ui.failed /\ AccessSetting(ui'.list)
            /\ ui'.busy = IF j = 0 \/ net.jobs[j].mount # ui.mount THEN ui.busy ELSE "none"
        BY <2>2, <2>5, <2>6, <2>7, <2>8, <3>4
      <4>2. ui'.list # AccessNotRead
        BY <4>1 DEF AccessSetting, AccessNotRead
      <4>3. CASE j # 0 /\ net.jobs[j].mount = ui.mount
        <5>1. \A m \in DOMAIN net'.jobs : net'.jobs[m] # AccessFree => net'.jobs[m].mount \in 0..ui.mount /\ net'.jobs[m].mount # ui.mount
          BY <2>2, <3>1, <4>3 DEF AccessBusy, AccessJobs
        <5> QED BY <4>1, <4>3, <5>1 DEF AccessBusy
      <4>4. CASE ~(j # 0 /\ net.jobs[j].mount = ui.mount)
        <5>1. ui'.busy # "none" => \E m \in DOMAIN net'.jobs : net'.jobs[m] # AccessFree /\ net'.jobs[m].mount = ui'.mount
          BY <2>2, <2>11, <4>1, <4>4 DEF AccessBusy, AccessJobs
        <5>2. ui'.busy = ui.busy /\ (AccessMounted => AccessMounted')
          BY <4>1, <4>2, <4>4 DEF AccessMounted
        <5> QED BY <3>1, <4>1, <5>1, <5>2 DEF AccessBusy
      <4> QED BY <4>3, <4>4
    <3> QED BY <3>2, <3>3, <3>4
  <2>15. AccessLast'
    <3>1. CASE past.over
      BY <2>2, <3>1 DEF AccessLast
    <3>2. CASE ~past.over
      <4>1. Len(net.loads) = 1 /\ i = 1 /\ Len(net'.loads) = 0
        <5>1. Len(net.loads) <= 1 /\ Len(net.loads) \in Nat
          BY <2>1, <3>2 DEF AccessLast
        <5>2. \A m \in Nat : \A x \in 1..m : m <= 1 => m = 1 /\ x = 1 /\ m - 1 = 0
          OBVIOUS
        <5>3. i \in 1..Len(net.loads) /\ Len(net'.loads) = Len(net.loads) - 1
          BY <2>2, <2>9
        <5> QED BY <5>1, <5>2, <5>3
      <4>2. (\A m \in DOMAIN net'.jobs : net'.jobs[m].step \notin {"written", "refused", "reporting"})
              => \A m \in DOMAIN net.jobs : net.jobs[m].step \notin {"written", "refused", "reporting"}
        BY <2>2, <2>11 DEF AccessJobs
      <4>3. ~ui'.failed => ui'.list = l.got /\ l.step = "served"
        BY <2>5, <2>6, <2>7, <2>8
      <4>4. l.step = "served" /\ ~past.behind /\ (\A m \in DOMAIN net.jobs : net.jobs[m].step \notin {"written", "refused", "reporting"}) => l.got = srv.now
        BY <2>2, <3>2 DEF AccessLast, l
      <4> QED BY <2>2, <3>2, <4>1, <4>2, <4>3, <4>4 DEF AccessLast
    <3> QED BY <3>1, <3>2 DEF AccessLast
  <2> QED BY <2>10, <2>12, <2>13, <2>14, <2>15
<1> QED BY <1>1, <1>2, <1>3, <1>4, <1>5, <1>6, <1>7, <1>8, <1>9, <1>10, <1>11, <1>12, <1>13, <1>14 DEF Access!Next, Access!Jobs

LEMMA AccessStutters == ASSUME NEW saves PROVE AccessInv(saves) /\ UNCHANGED <<ui, net, srv, past>> => AccessInv(saves)'
<1> SUFFICES ASSUME AccessInv(saves), UNCHANGED <<ui, net, srv, past>> PROVE AccessInv(saves)'
  OBVIOUS
<1> USE DEF AccessInv
<1>1. AccessShape' /\ AccessList' /\ AccessJobs(saves)'
  BY DEF AccessShape, AccessList, AccessJobs
<1>2. AccessLoads(net.loads, net.jobs)'
  <2>1. AccessLoads(net'.loads, net'.jobs)
    OBVIOUS
  <2> QED BY <2>1
<1>3. AccessBusy' /\ AccessLast'
  BY DEF AccessBusy, AccessMounted, AccessLast
<1> QED BY <1>1, <1>2, <1>3

LEMMA AccessKeeps ==
  ASSUME NEW saves \in Nat, NEW else, NEW polls, AccessInv(saves)
  PROVE  Access(saves, else, polls)!OffersFree /\ Access(saves, else, polls)!PageAgrees /\ Access(saves, else, polls)!BusyMeansUnderWay
<1> USE DEF AccessInv
<1>1. Access(saves, else, polls)!OffersFree
  <2> SUFFICES ASSUME Access(saves, else, polls)!Usable(ui), ui.port = 0 PROVE Access(saves, else, polls)!Chosen(ui) \notin Access(saves, else, polls)!Taken(ui.list)
    BY DEF Access!OffersFree
  <2> DEFINE c == ui.list
             free == (1..More) \ Access(saves, else, polls)!Taken(c)
  <2>1. AccessSetting(c)
    BY DEF Access!Usable, Access!Mounted, Access!NotRead, AccessNotRead, AccessList
  <2>2. Access(saves, else, polls)!Chosen(ui) = Access(saves, else, polls)!SavedPort(c)
    BY DEF Access!Chosen
  <2> HIDE DEF c
  <2>3. Access(saves, else, polls)!Taken(c) = {c.other} \ {0}
    BY DEF Access!Taken
  <2>4. CASE c.port # 0 /\ ~Access(saves, else, polls)!KeptPortTaken(c)
    BY <2>1, <2>2, <2>3, <2>4 DEF AccessSetting, Access!SavedPort, Access!KeptPortTaken, c
  <2>5. CASE ~(c.port # 0 /\ ~Access(saves, else, polls)!KeptPortTaken(c))
    <3>1. Access(saves, else, polls)!SavedPort(c) = IF free = {} THEN 0 ELSE Access(saves, else, polls)!Least(free)
      BY <2>5 DEF Access!SavedPort, Access!FirstFree
    <3>2. free # {} => \E x \in free : \A y \in free : x <= y
      <4>1. CASE c.other # 1
        <5>1. 1 \in free
          BY <2>3, <4>1, BoundsAssumption
        <5>2. \A y \in free : 1 <= y
          BY BoundsAssumption
        <5> QED BY <5>1, <5>2
      <4>2. CASE c.other = 1
        BY <2>3, <4>2, BoundsAssumption
      <4> QED BY <4>1, <4>2
    <3> HIDE DEF free
    <3>3. free # {} => Access(saves, else, polls)!Least(free) \in free
      BY <3>2 DEF Access!Least
    <3>4. 0 \notin Access(saves, else, polls)!Taken(c)
      BY <2>3
    <3> QED BY <2>2, <3>1, <3>3, <3>4 DEF free, c
  <2> QED BY <2>4, <2>5
<1>2. Access(saves, else, polls)!PageAgrees
  BY DEF Access!PageAgrees, AccessLast, AccessJobs, AccessFree, Access!Free, Access!None, Access!Jobs
<1>3. Access(saves, else, polls)!BusyMeansUnderWay
  <2> DEFINE under == {j \in 1..saves : net.jobs[j] # AccessFree /\ net.jobs[j].mount = ui.mount}
  <2>1. \A j \in under : net.jobs[j].act = ui.busy /\ ui.busy # "none"
    BY DEF AccessBusy, AccessJobs, AccessJob
  <2>2. ui.busy # "none" => under # {}
    BY DEF AccessBusy, AccessJobs
  <2>3. \A j, k \in under : j = k
    BY DEF AccessBusy, AccessJobs
  <2>4. under = {j \in Access(saves, else, polls)!Jobs : net.jobs[j] # Access(saves, else, polls)!Free /\ net.jobs[j].mount = ui.mount}
    BY DEF Access!Jobs, Access!Free, Access!None, AccessFree
  <2> HIDE DEF under
  <2>5. {net.jobs[j].act : j \in under} = {ui.busy} \ {"none"}
    BY <2>1, <2>2
  <2> QED BY <2>3, <2>4, <2>5 DEF Access!BusyMeansUnderWay, Access!None
<1> QED BY <1>1, <1>2, <1>3

LEMMA AccessSteps ==
  ASSUME NEW saves \in Nat, NEW else, NEW polls PROVE AccessInv(saves) /\ Access(saves, else, polls)!Next => Access(saves, else, polls)!ChangesOnlyAsked
<1> SUFFICES ASSUME AccessInv(saves), Access(saves, else, polls)!Next PROVE Access(saves, else, polls)!ChangesOnlyAsked
  OBVIOUS
<1> USE DEF AccessInv
<1>1. CASE srv'.now = srv.now
  BY <1>1 DEF Access!ChangesOnlyAsked
<1>2. CASE Access(saves, else, polls)!Elsewhere
  <2>1. past'.elsewhere # past.elsewhere
    BY <1>2 DEF Access!Elsewhere, AccessShape
  <2> QED BY <2>1 DEF Access!ChangesOnlyAsked
<1>3. ASSUME NEW j \in 1..saves, Access(saves, else, polls)!WriteServed(j) PROVE Access(saves, else, polls)!ChangesOnlyAsked
  <2> DEFINE k == net.jobs[j]
  <2>1. k.step = "writing" /\ AccessJob(k)
    BY <1>3 DEF Access!WriteServed, Access!Step, AccessJobs, AccessFree
  <2>2. srv' = srv \/ srv' = [srv EXCEPT !.now = Access(saves, else, polls)!Written(k)]
    BY <1>3 DEF Access!WriteServed
  <2>3. srv'.now = srv.now \/ srv'.now = Access(saves, else, polls)!Written(k)
    BY <2>2 DEF AccessShape
  <2>4. CASE srv'.now = Access(saves, else, polls)!Written(k)
    <3> HIDE DEF k
    <3>1. CASE k.act = "queue"
      <4>1. srv'.now = [srv.now EXCEPT !.on = k.fresh.on, !.port = k.fresh.port, !.queue = k.size]
        BY <2>4, <3>1 DEF Access!Written
      <4>2. srv'.now.on = k.fresh.on /\ srv'.now.port = k.fresh.port
        BY <4>1 DEF AccessList, AccessSetting
      <4>3. <<srv.now.on, srv.now.port>> # <<srv'.now.on, srv'.now.port>> => k.fresh # srv.now
        BY <4>2
      <4> QED BY <2>1, <3>1, <4>2, <4>3 DEF Access!ChangesOnlyAsked, Access!Step, Access!Jobs, k
    <3>2. CASE k.act # "queue"
      <4>1. srv'.now = [srv.now EXCEPT !.on = k.act # "off", !.port = k.port, !.queue = k.fresh.queue]
        BY <2>4, <3>2 DEF Access!Written
      <4>2. srv'.now.on = (k.act # "off") /\ srv'.now.queue = k.fresh.queue
        BY <4>1 DEF AccessList, AccessSetting
      <4>3. srv'.now.on => k.act = "on" \/ k.fresh.on
        BY <2>1, <3>2, <4>2 DEF AccessJob
      <4> QED BY <2>1, <3>2, <4>2, <4>3 DEF Access!ChangesOnlyAsked, Access!Step, Access!Jobs, k
    <3> QED BY <3>1, <3>2
  <2> QED BY <1>1, <2>3, <2>4
<1>4. ASSUME NEW i, Access(saves, else, polls)!LoadServed(i) \/ Access(saves, else, polls)!LoadLands(i) PROVE srv'.now = srv.now
  BY <1>4 DEF Access!LoadServed, Access!LoadLands
<1>5. ASSUME Access(saves, else, polls)!Retry \/ Access(saves, else, polls)!Reader \/ Access(saves, else, polls)!TurnOn \/ Access(saves, else, polls)!Move \/ Access(saves, else, polls)!TurnOff \/ Access(saves, else, polls)!SaveQueue \/ Access(saves, else, polls)!Tick \/ Access(saves, else, polls)!PollServed \/ Access(saves, else, polls)!PollLands \/ Access(saves, else, polls)!Restart
      PROVE  srv'.now = srv.now
  BY <1>5 DEF Access!Retry, Access!Load, Access!Reader, Access!TurnOn, Access!Move, Access!TurnOff, Access!SaveQueue, Access!Click,
              Access!Tick, Access!PollServed, Access!PollLands, Access!Restart, AccessShape
<1>6. ASSUME NEW j \in 1..saves, Access(saves, else, polls)!ReadServed(j) \/ Access(saves, else, polls)!ReadLands(j) \/ Access(saves, else, polls)!WriteLands(j) \/ Access(saves, else, polls)!ReportEnds(j) PROVE srv'.now = srv.now
  BY <1>6 DEF Access!ReadServed, Access!ReadLands, Access!WriteLands, Access!ReportEnds
<1> QED BY <1>1, <1>2, <1>3, <1>4, <1>5, <1>6 DEF Access!Next, Access!Jobs

-----------------------------------------------------------------------------
(* The editor of a route.                                                  *)

PathUi == {"contact", "open", "info", "edit", "seeded", "loading", "saving", "resetting"}
PathShape ==
  /\ DOMAIN ui = PathUi /\ DOMAIN net = {"loads", "saves", "resets"} /\ DOMAIN past = {"faults", "opens", "overlap", "early"}
  /\ DOMAIN ui.edit = {"of", "route"} /\ past.overlap \in BOOLEAN /\ past.early \in BOOLEAN
  /\ \A q \in net.loads : DOMAIN q = {"of", "seed", "got", "route"} /\ q.seed \in BOOLEAN

\* While a load that seeds the editor is on its way there is nothing in it to lose.
PathSeeds ==
  ui.open /\ ~past.overlap /\ ~past.early /\ (\E q \in net.loads : q.seed) => ui.edit.route = ui.seeded

\* What was loaded, edited and saved is of the contact of the dialog, unless loads and saves overlapped.
PathOwn ==
  ~past.overlap =>
    /\ \A p \in net.saves : p.from \in {p.to, "none"}
    /\ ui.open => /\ \A q \in net.loads : q.of = ui.contact
                  /\ ui.edit.of \in {ui.contact, "none"}

PathInv == PathShape /\ PathSeeds /\ PathOwn

LEMMA PathInit == Path!Init => PathInv
<1> SUFFICES ASSUME Path!Init PROVE PathInv
  OBVIOUS
<1>1. DOMAIN ui = PathUi /\ ~ui.open /\ ui.edit = Path!Blank
  BY DEF Path!Init, PathUi
<1>2. DOMAIN net = {"loads", "saves", "resets"} /\ net.loads = {} /\ net.saves = {}
  BY DEF Path!Init
<1>3. DOMAIN past = {"faults", "opens", "overlap", "early"} /\ past.overlap = FALSE /\ past.early = FALSE
  BY DEF Path!Init
<1>4. DOMAIN ui.edit = {"of", "route"}
  BY <1>1 DEF Path!Blank
<1> QED BY <1>1, <1>2, <1>3, <1>4 DEF PathInv, PathShape, PathSeeds, PathOwn

LEMMA PathAsked ==
  ASSUME NEW c, NEW seed \in BOOLEAN
  PROVE  LET q == Path!Asked(c, seed) IN DOMAIN q = {"of", "seed", "got", "route"} /\ q.seed = seed /\ q.of = c
BY DEF Path!Asked

\* A step keeps the invariant, and what the reader wrote.
PathKept == PathInv' /\ Path!EditsKept

LEMMA PathNext == PathInv /\ Path!Next => PathKept
<1> SUFFICES ASSUME PathInv, Path!Next PROVE PathKept
  OBVIOUS
<1>0. /\ DOMAIN ui = PathUi /\ DOMAIN net = {"loads", "saves", "resets"} /\ DOMAIN past = {"faults", "opens", "overlap", "early"}
      /\ DOMAIN ui.edit = {"of", "route"} /\ past.overlap \in BOOLEAN /\ past.early \in BOOLEAN
      /\ \A q \in net.loads : DOMAIN q = {"of", "seed", "got", "route"} /\ q.seed \in BOOLEAN
  BY DEF PathInv, PathShape
<1>1. CASE Path!Open
  <2>1. PICK l : l = Path!Asked(ui.contact, TRUE) /\ net' = [net EXCEPT !.loads = @ \cup {l}]
    BY <1>1 DEF Path!Open
  <2>2. DOMAIN l = {"of", "seed", "got", "route"} /\ l.seed = TRUE /\ l.of = ui.contact
    BY <2>1, PathAsked
  <2>3. DOMAIN net' = DOMAIN net /\ net'.loads = net.loads \cup {l} /\ net'.saves = net.saves
    BY <1>0, <2>1
  <2>4. /\ ~ui.open /\ DOMAIN ui' = PathUi /\ ui'.edit = Path!Blank /\ ui'.seeded = 0 /\ ui'.contact = ui.contact
    BY <1>0, <1>1 DEF Path!Open, Path!Flood, PathUi
  <2>5. DOMAIN ui'.edit = {"of", "route"} /\ ui'.edit.route = 0 /\ ui'.edit.of = "none"
    BY <2>4 DEF Path!Blank, Path!Flood, Path!None
  <2>6. DOMAIN past' = DOMAIN past /\ past'.overlap = (net.loads # {} \/ net.saves # {}) /\ past'.early = FALSE
    BY <1>0, <1>1 DEF Path!Open
  <2>7. PathShape'
    BY <1>0, <2>2, <2>3, <2>4, <2>5, <2>6 DEF PathShape
  <2>8. PathSeeds' /\ PathOwn'
    BY <2>2, <2>3, <2>4, <2>5, <2>6 DEF PathSeeds, PathOwn
  <2> QED BY <2>4, <2>7, <2>8 DEF PathKept, PathInv, Path!EditsKept
<1>2. ASSUME Path!Close \/ \E c \in Alike : Path!OtherContact(c) PROVE PathKept
  <2>1. net' = net /\ past' = past /\ DOMAIN ui' = PathUi /\ ui'.edit = ui.edit /\ ui'.seeded = ui.seeded /\ ~ui'.open
    BY <1>0, <1>2 DEF Path!Close, Path!OtherContact, PathUi
  <2>2. PathShape'
    BY <1>0, <2>1 DEF PathShape
  <2>3. PathSeeds' /\ PathOwn'
    BY <2>1 DEF PathInv, PathSeeds, PathOwn
  <2> QED BY <2>1, <2>2, <2>3 DEF PathKept, PathInv, Path!EditsKept
<1>3. CASE Path!Refresh
  <2>1. PICK l : l = Path!Asked(ui.contact, FALSE) /\ net' = [net EXCEPT !.loads = @ \cup {l}]
    BY <1>3 DEF Path!Refresh
  <2>2. DOMAIN l = {"of", "seed", "got", "route"} /\ l.seed = FALSE /\ l.of = ui.contact
    BY <2>1, PathAsked
  <2>3. DOMAIN net' = DOMAIN net /\ net'.loads = net.loads \cup {l} /\ net'.saves = net.saves
    BY <1>0, <2>1
  <2>4. DOMAIN ui' = PathUi /\ ui'.edit = ui.edit /\ ui'.seeded = ui.seeded /\ ui'.contact = ui.contact /\ ui'.open = ui.open /\ past' = past
    BY <1>0, <1>3 DEF Path!Refresh, PathUi
  <2>5. PathShape'
    BY <1>0, <2>2, <2>3, <2>4 DEF PathShape
  <2>6. PathSeeds' /\ PathOwn'
    BY <2>2, <2>3, <2>4 DEF PathInv, PathSeeds, PathOwn
  <2> QED BY <2>4, <2>5, <2>6 DEF PathKept, PathInv, Path!EditsKept
<1>4. CASE Path!Save
  <2> DEFINE p == [to |-> ui.contact, route |-> ui.edit.route, from |-> ui.edit.of]
  <2>1. ui.open /\ DOMAIN net' = DOMAIN net /\ net'.loads = net.loads /\ net'.saves = net.saves \cup {p}
    BY <1>0, <1>4 DEF Path!Save, Path!CanSave
  <2>2. DOMAIN ui' = PathUi /\ ui'.edit = ui.edit /\ ui'.seeded = ui.seeded /\ ui'.contact = ui.contact /\ ui'.open = ui.open /\ past' = past
    BY <1>0, <1>4 DEF Path!Save, PathUi
  <2>3. p.to = ui.contact /\ p.from = ui.edit.of
    OBVIOUS
  <2> HIDE DEF p
  <2>4. PathShape'
    BY <1>0, <2>1, <2>2 DEF PathShape
  <2>5. PathSeeds' /\ PathOwn'
    BY <2>1, <2>2, <2>3 DEF PathInv, PathSeeds, PathOwn
  <2> QED BY <2>2, <2>4, <2>5 DEF PathKept, PathInv, Path!EditsKept
<1>5. CASE Path!Reset
  <2>1. DOMAIN net' = DOMAIN net /\ net'.loads = net.loads /\ net'.saves = net.saves
    BY <1>0, <1>5 DEF Path!Reset
  <2>2. DOMAIN ui' = PathUi /\ ui'.edit = ui.edit /\ ui'.seeded = ui.seeded /\ ui'.contact = ui.contact /\ ui'.open = ui.open /\ past' = past
    BY <1>0, <1>5 DEF Path!Reset, PathUi
  <2>3. PathShape'
    BY <1>0, <2>1, <2>2 DEF PathShape
  <2>4. PathSeeds' /\ PathOwn'
    BY <2>1, <2>2 DEF PathInv, PathSeeds, PathOwn
  <2> QED BY <2>2, <2>3, <2>4 DEF PathKept, PathInv, Path!EditsKept
<1>6. ASSUME NEW c \in Alike, Path!ResetLands(c) PROVE PathKept
  <2>1. CASE ui' = [ui EXCEPT !.resetting = FALSE, !.loading = TRUE]
             /\ past' = [past EXCEPT !.overlap = @ \/ net.loads # {} \/ c # ui.contact, !.early = @ \/ ui.edit.route # ui.seeded]
             /\ net' = [net EXCEPT !.resets = @ \ {c}, !.loads = @ \cup {Path!Asked(c, TRUE)}]
    <3>1. PICK l : l = Path!Asked(c, TRUE) /\ net' = [net EXCEPT !.resets = @ \ {c}, !.loads = @ \cup {l}]
      BY <2>1
    <3>2. DOMAIN l = {"of", "seed", "got", "route"} /\ l.seed = TRUE /\ l.of = c
      BY <3>1, PathAsked
    <3>3. DOMAIN net' = DOMAIN net /\ net'.loads = net.loads \cup {l} /\ net'.saves = net.saves
      BY <1>0, <3>1
    <3>4. DOMAIN ui' = PathUi /\ ui'.edit = ui.edit /\ ui'.seeded = ui.seeded /\ ui'.contact = ui.contact /\ ui'.open = ui.open
      BY <1>0, <2>1 DEF PathUi
    <3>5. /\ DOMAIN past' = DOMAIN past /\ past'.overlap = (past.overlap \/ net.loads # {} \/ c # ui.contact)
          /\ past'.early = (past.early \/ ui.edit.route # ui.seeded)
      BY <1>0, <2>1
    <3>6. PathShape'
      BY <1>0, <3>2, <3>3, <3>4, <3>5 DEF PathShape
    <3>7. PathSeeds' /\ PathOwn'
      BY <3>2, <3>3, <3>4, <3>5 DEF PathInv, PathSeeds, PathOwn
    <3> QED BY <3>4, <3>6, <3>7 DEF PathKept, PathInv, Path!EditsKept
  <2>2. CASE Path!Fault /\ ui' = [ui EXCEPT !.resetting = FALSE] /\ net' = [net EXCEPT !.resets = @ \ {c}]
    <3>1. DOMAIN net' = DOMAIN net /\ net'.loads = net.loads /\ net'.saves = net.saves
      BY <1>0, <2>2
    <3>2. DOMAIN ui' = PathUi /\ ui'.edit = ui.edit /\ ui'.seeded = ui.seeded /\ ui'.contact = ui.contact /\ ui'.open = ui.open
      BY <1>0, <2>2 DEF PathUi
    <3>3. DOMAIN past' = DOMAIN past /\ past'.overlap = past.overlap /\ past'.early = past.early
      BY <1>0, <2>2 DEF Path!Fault
    <3>4. PathShape'
      BY <1>0, <3>1, <3>2, <3>3 DEF PathShape
    <3>5. PathSeeds' /\ PathOwn'
      BY <3>1, <3>2, <3>3 DEF PathInv, PathSeeds, PathOwn
    <3> QED BY <3>2, <3>4, <3>5 DEF PathKept, PathInv, Path!EditsKept
  <2> QED BY <1>6, <2>1, <2>2 DEF Path!ResetLands
<1>7. ASSUME NEW q \in net.loads, Path!Serve(q) PROVE PathKept
  <2>1. PICK l : /\ net' = [net EXCEPT !.loads = (@ \ {q}) \cup {l}]
                 /\ DOMAIN l = {"of", "seed", "got", "route"} /\ l.seed = q.seed /\ l.of = q.of
    <3> DEFINE ok == [q EXCEPT !.got = "ok", !.route = srv[q.of]]
               failed == [q EXCEPT !.got = "failed"]
    <3>1. \/ net' = [net EXCEPT !.loads = (@ \ {q}) \cup {ok}]
          \/ net' = [net EXCEPT !.loads = (@ \ {q}) \cup {failed}]
      BY <1>7 DEF Path!Serve
    <3>2. DOMAIN ok = {"of", "seed", "got", "route"} /\ ok.seed = q.seed /\ ok.of = q.of
      BY <1>0
    <3>3. DOMAIN failed = {"of", "seed", "got", "route"} /\ failed.seed = q.seed /\ failed.of = q.of
      BY <1>0
    <3> HIDE DEF ok, failed
    <3> QED BY <3>1, <3>2, <3>3
  <2>2. DOMAIN net' = DOMAIN net /\ net'.loads = (net.loads \ {q}) \cup {l} /\ net'.saves = net.saves
    BY <1>0, <2>1
  <2>3. ui' = ui /\ DOMAIN past' = DOMAIN past /\ past'.overlap = past.overlap /\ past'.early = past.early
    BY <1>0, <1>7 DEF Path!Serve, Path!Fault
  <2>4. PathShape'
    BY <1>0, <2>1, <2>2, <2>3 DEF PathShape
  <2>5. PathSeeds'
    BY <2>1, <2>2, <2>3 DEF PathInv, PathSeeds
  <2>6. PathOwn'
    BY <2>1, <2>2, <2>3 DEF PathInv, PathOwn
  <2> QED BY <2>3, <2>4, <2>5, <2>6 DEF PathKept, PathInv, Path!EditsKept
<1>8. ASSUME NEW q \in net.loads, Path!Land(q) PROVE PathKept
  <2> DEFINE new == [of |-> q.of, route |-> q.route]
  <2>1. /\ past' = past /\ net' = [net EXCEPT !.loads = @ \ {q}]
        /\ \/ q.seed /\ ui' = [ui EXCEPT !.loading = FALSE, !.info = new, !.edit = new, !.seeded = q.route]
           \/ ui' = [ui EXCEPT !.loading = FALSE, !.info = new]
           \/ ui' = [ui EXCEPT !.loading = FALSE]
    BY <1>8 DEF Path!Land
  <2>2. DOMAIN net' = DOMAIN net /\ net'.loads = net.loads \ {q} /\ net'.saves = net.saves
    BY <1>0, <2>1
  <2>3. DOMAIN new = {"of", "route"} /\ new.of = q.of /\ new.route = q.route
    OBVIOUS
  <2> HIDE DEF new
  <2>4. /\ DOMAIN ui' = PathUi /\ ui'.contact = ui.contact /\ ui'.open = ui.open
        /\ \/ q.seed /\ ui'.edit = new /\ ui'.seeded = q.route
           \/ ui'.edit = ui.edit /\ ui'.seeded = ui.seeded
    BY <1>0, <2>1 DEF PathUi
  <2>5. PathShape'
    BY <1>0, <2>1, <2>2, <2>3, <2>4 DEF PathShape
  <2>6. PathSeeds'
    BY <2>1, <2>2, <2>3, <2>4 DEF PathInv, PathSeeds
  <2>7. PathOwn'
    BY <2>1, <2>2, <2>3, <2>4 DEF PathInv, PathOwn
  <2>8. Path!EditsKept
    BY <2>1, <2>4 DEF PathInv, PathSeeds, Path!EditsKept
  <2> QED BY <2>5, <2>6, <2>7, <2>8 DEF PathKept, PathInv
<1>9. ASSUME NEW p \in net.saves, Path!SaveLands(p) PROVE PathKept
  <2>1. DOMAIN net' = DOMAIN net /\ net'.loads = net.loads /\ net'.saves = net.saves \ {p}
    BY <1>0, <1>9 DEF Path!SaveLands
  <2>2. /\ DOMAIN ui' = PathUi /\ ui'.edit = ui.edit /\ ui'.seeded = ui.seeded /\ ui'.contact = ui.contact
        /\ (ui'.open => ui.open) /\ DOMAIN past' = DOMAIN past /\ past'.overlap = past.overlap /\ past'.early = past.early
    BY <1>0, <1>9 DEF Path!SaveLands, Path!Fault, PathUi
  <2>3. PathShape'
    BY <1>0, <2>1, <2>2 DEF PathShape
  <2>4. PathSeeds' /\ PathOwn'
    BY <2>1, <2>2 DEF PathInv, PathSeeds, PathOwn
  <2> QED BY <2>2, <2>3, <2>4 DEF PathKept, PathInv, Path!EditsKept
<1>10. ASSUME NEW r, Path!Edit(r) PROVE PathKept
  <2>1. /\ net' = net /\ DOMAIN ui' = PathUi /\ ui'.seeded = ui.seeded /\ ui'.contact = ui.contact /\ ui'.open = ui.open
        /\ ui'.edit = [ui.edit EXCEPT !.route = r]
    BY <1>0, <1>10 DEF Path!Edit, PathUi
  <2>2. DOMAIN ui'.edit = {"of", "route"} /\ ui'.edit.of = ui.edit.of
    BY <1>0, <2>1
  <2>3. DOMAIN past' = DOMAIN past /\ past'.overlap = past.overlap /\ past'.early = (past.early \/ \E q \in net.loads : q.seed)
    BY <1>0, <1>10 DEF Path!Edit
  <2>4. PathShape'
    BY <1>0, <2>1, <2>2, <2>3 DEF PathShape
  <2>5. PathSeeds' /\ PathOwn'
    BY <2>1, <2>2, <2>3 DEF PathInv, PathSeeds, PathOwn
  <2> QED BY <2>1, <2>4, <2>5 DEF PathKept, PathInv, Path!EditsKept
<1> QED BY <1>1, <1>2, <1>3, <1>4, <1>5, <1>6, <1>7, <1>8, <1>9, <1>10 DEF Path!Next

LEMMA PathStutters == PathInv /\ UNCHANGED <<ui, net, srv, past>> => PathInv'
BY DEF PathInv, PathShape, PathSeeds, PathOwn

LEMMA PathKeeps == PathInv => Path!SavesOwnRoute
BY DEF PathInv, PathOwn, Path!SavesOwnRoute, Path!None

-----------------------------------------------------------------------------
(* The telemetry grants of a companion.                                    *)

GrantsUi == {"saved", "modes", "error", "saving", "contacts", "contactsError"}
GrantsNet == {"load", "save", "ask", "list", "queue"}
GrantsUnread == {"none"}
GrantsShape ==
  /\ DOMAIN ui = GrantsUi /\ DOMAIN net = GrantsNet /\ DOMAIN srv = {"modes", "perms"} /\ DOMAIN past = {"faults", "drafted", "crossed"}
  /\ srv.modes \subseteq {"r1", "r2"}

\* Modes the panel knows are modes that were read or drafted: they differ from those in force only in what was drafted.
GrantsKnown(m) ==
  m # GrantsUnread => m \subseteq {"r1", "r2"} /\ \A k \in {"r1", "r2"} : (k \in m) # (k \in srv.modes) => k \in past.drafted
GrantsModes ==
  /\ GrantsKnown(ui.saved) /\ GrantsKnown(ui.modes) /\ GrantsKnown(net.save)
  /\ ui.saved # GrantsUnread \/ net.save # GrantsUnread => ui.modes # GrantsUnread

GrantsInv == GrantsShape /\ GrantsModes

LEMMA GrantsInit == Grants!Init => GrantsInv
<1> SUFFICES ASSUME Grants!Init PROVE GrantsInv
  OBVIOUS
<1>1. DOMAIN ui = GrantsUi /\ ui.saved = GrantsUnread /\ ui.modes = GrantsUnread
  BY DEF Grants!Init, GrantsUi, Grants!Unknown, GrantsUnread, Grants!None
<1>2. DOMAIN net = GrantsNet /\ net.save = GrantsUnread
  BY DEF Grants!Init, GrantsNet, Grants!Unknown, GrantsUnread, Grants!None
<1>3. DOMAIN srv = {"modes", "perms"} /\ srv.modes \subseteq {"r1", "r2"}
  BY DEF Grants!Init
<1>4. DOMAIN past = {"faults", "drafted", "crossed"}
  BY DEF Grants!Init
<1> QED BY <1>1, <1>2, <1>3, <1>4 DEF GrantsInv, GrantsShape, GrantsModes, GrantsKnown

\* A render of the panel changes what is read besides, and leaves the save as it is.
LEMMA GrantsReading ==
  ASSUME NEW u, NEW n, DOMAIN n = GrantsNet PROVE DOMAIN Grants!Reading(u, n) = GrantsNet /\ Grants!Reading(u, n).save = n.save
BY DEF Grants!Reading, GrantsNet

\* A step keeps the invariant, and opens or closes only what was drafted.
GrantsKept == GrantsInv' /\ Grants!ClosesOnlyChosen

\* What leaves the modes in force alone, and shows or saves no others than were known or drafted.
LEMMA GrantsQuiet ==
  ASSUME GrantsInv, DOMAIN ui' = GrantsUi, DOMAIN net' = GrantsNet, DOMAIN srv' = DOMAIN srv, srv'.modes = srv.modes,
         DOMAIN past' = DOMAIN past, past'.drafted = past.drafted,
         ui'.saved \in {ui.saved, srv.modes}, ui'.modes \in {ui.modes, srv.modes}, ui'.saved # ui.saved => ui'.modes = srv.modes,
         net'.save \in {net.save, GrantsUnread, ui.modes}
  PROVE  GrantsKept
<1>1. srv.modes # GrantsUnread
  BY DEF GrantsInv, GrantsShape, GrantsUnread
<1>2. GrantsShape'
  BY DEF GrantsInv, GrantsShape
<1>3. GrantsKnown(srv.modes) /\ GrantsKnown(GrantsUnread)
  BY DEF GrantsInv, GrantsShape, GrantsKnown
<1>4. /\ GrantsKnown(ui.saved) /\ GrantsKnown(ui.modes) /\ GrantsKnown(net.save)
      /\ (ui.saved # GrantsUnread \/ net.save # GrantsUnread => ui.modes # GrantsUnread)
  BY DEF GrantsInv, GrantsModes
<1>5. GrantsKnown(ui'.saved) /\ GrantsKnown(ui'.modes) /\ GrantsKnown(net'.save)
  BY <1>3, <1>4
<1>6. GrantsModes'
  BY <1>1, <1>4, <1>5 DEF GrantsModes, GrantsKnown
<1> QED BY <1>2, <1>6 DEF GrantsKept, GrantsInv, Grants!ClosesOnlyChosen

LEMMA GrantsNext == GrantsInv /\ Grants!Next => GrantsKept
<1> SUFFICES ASSUME GrantsInv, Grants!Next PROVE GrantsKept
  OBVIOUS
<1>0. DOMAIN ui = GrantsUi /\ DOMAIN net = GrantsNet /\ DOMAIN srv = {"modes", "perms"} /\ DOMAIN past = {"faults", "drafted", "crossed"}
  BY DEF GrantsInv, GrantsShape
<1>1. CASE Grants!LoadLands \/ Grants!RetryLoad
  <2> DEFINE n(b) == [net EXCEPT !.load = b]
  <2>1. PICK b \in BOOLEAN :
          /\ net' = Grants!Reading(ui', n(b)) /\ srv' = srv
          /\ ui' \in {[ui EXCEPT !.saved = srv.modes, !.modes = srv.modes], [ui EXCEPT !.error = TRUE], [ui EXCEPT !.error = FALSE]}
          /\ (past' = past \/ past' = [past EXCEPT !.faults = @ + 1])
    <3>1. CASE Grants!LoadLands
      <4>1. /\ net' = Grants!Reading(ui', n(FALSE)) /\ srv' = srv
            /\ \/ ui' = [ui EXCEPT !.saved = srv.modes, !.modes = srv.modes] /\ past' = past
               \/ ui' = [ui EXCEPT !.error = TRUE] /\ past' = [past EXCEPT !.faults = @ + 1]
        BY <3>1, Zenon DEF Grants!LoadLands, Grants!Render, Grants!Spent
      <4> HIDE DEF n
      <4> QED BY <4>1
    <3>2. CASE Grants!RetryLoad
      <4>1. net' = Grants!Reading(ui', n(TRUE)) /\ srv' = srv /\ ui' = [ui EXCEPT !.error = FALSE] /\ past' = past
        BY <3>2, Zenon DEF Grants!RetryLoad, Grants!Render
      <4> HIDE DEF n
      <4> QED BY <4>1
    <3> QED BY <1>1, <3>1, <3>2
  <2>2. DOMAIN n(b) = GrantsNet /\ n(b).save = net.save
    BY <1>0 DEF GrantsNet
  <2> HIDE DEF n
  <2>3. DOMAIN net' = GrantsNet /\ net'.save = net.save
    BY <2>1, <2>2, GrantsReading
  <2>4. /\ DOMAIN ui' = GrantsUi /\ ui'.saved \in {ui.saved, srv.modes} /\ ui'.modes \in {ui.modes, srv.modes}
        /\ ui'.saved # ui.saved => ui'.modes = srv.modes
    BY <1>0, <2>1 DEF GrantsUi
  <2>5. DOMAIN past' = DOMAIN past /\ past'.drafted = past.drafted
    BY <1>0, <2>1
  <2> QED BY <2>1, <2>3, <2>4, <2>5, GrantsQuiet
<1>2. CASE Grants!Save
  <2>1. DOMAIN ui' = GrantsUi /\ ui'.saved = ui.saved /\ ui'.modes = ui.modes /\ srv' = srv /\ past' = past
    BY <1>0, <1>2 DEF Grants!Save, GrantsUi
  <2>2. DOMAIN net' = GrantsNet /\ net'.save = ui.modes
    BY <1>0, <1>2 DEF Grants!Save, GrantsNet
  <2> QED BY <2>1, <2>2, GrantsQuiet
<1>3. CASE Grants!SaveLands
  <2> DEFINE n == [net EXCEPT !.save = GrantsUnread]
  <2>1. /\ net.save # GrantsUnread /\ net' = Grants!Reading(ui', n)
        /\ \/ srv' = [srv EXCEPT !.modes = net.save] /\ past' = past /\ ui' = [ui EXCEPT !.saving = FALSE, !.saved = net.save]
           \/ srv' = srv /\ past' = [past EXCEPT !.faults = @ + 1] /\ ui' = [ui EXCEPT !.saving = FALSE]
    BY <1>3, Zenon DEF Grants!SaveLands, Grants!Render, Grants!Spent, Grants!Unknown, GrantsUnread, Grants!None
  <2>2. DOMAIN n = GrantsNet /\ n.save = GrantsUnread
    BY <1>0 DEF GrantsNet
  <2> HIDE DEF n
  <2>3. DOMAIN net' = GrantsNet /\ net'.save = GrantsUnread
    BY <2>1, <2>2, GrantsReading
  <2>4. CASE srv' = srv /\ past' = [past EXCEPT !.faults = @ + 1] /\ ui' = [ui EXCEPT !.saving = FALSE]
    <3>1. DOMAIN ui' = GrantsUi /\ ui'.saved = ui.saved /\ ui'.modes = ui.modes /\ DOMAIN past' = DOMAIN past /\ past'.drafted = past.drafted
      BY <1>0, <2>4 DEF GrantsUi
    <3> QED BY <2>3, <2>4, <3>1, GrantsQuiet
  <2>5. CASE srv' = [srv EXCEPT !.modes = net.save] /\ past' = past /\ ui' = [ui EXCEPT !.saving = FALSE, !.saved = net.save]
    <3>1. DOMAIN ui' = GrantsUi /\ ui'.saved = net.save /\ ui'.modes = ui.modes
      BY <1>0, <2>5 DEF GrantsUi
    <3>2. DOMAIN srv' = DOMAIN srv /\ srv'.modes = net.save
      BY <1>0, <2>5
    <3>3. GrantsKnown(ui.saved) /\ GrantsKnown(ui.modes) /\ GrantsKnown(net.save)
      BY DEF GrantsInv, GrantsModes
    <3>4. GrantsShape'
      BY <1>0, <2>1, <2>3, <2>5, <3>1, <3>2, <3>3 DEF GrantsShape, GrantsKnown
    <3>5. ui.modes # GrantsUnread
      BY <2>1 DEF GrantsInv, GrantsModes
    <3>6. GrantsModes'
      BY <2>1, <2>3, <2>5, <3>1, <3>2, <3>3, <3>5 DEF GrantsModes, GrantsKnown
    <3>7. Grants!ClosesOnlyChosen
      BY <2>1, <3>2, <3>3 DEF Grants!ClosesOnlyChosen, GrantsKnown
    <3> QED BY <3>4, <3>6, <3>7 DEF GrantsKept, GrantsInv
  <2> QED BY <2>1, <2>4, <2>5
<1>4. CASE Grants!ContactsServed
  <2>1. ui' = ui /\ srv' = srv /\ DOMAIN net' = GrantsNet /\ net'.save = net.save
    BY <1>0, <1>4 DEF Grants!ContactsServed, GrantsNet
  <2>2. DOMAIN past' = DOMAIN past /\ past'.drafted = past.drafted
    BY <1>0, <1>4 DEF Grants!ContactsServed
  <2> QED BY <1>0, <2>1, <2>2, GrantsQuiet
<1>5. CASE Grants!ContactsLand \/ Grants!RetryContacts
  <2>1. PICK u : /\ ui' = u /\ net' = Grants!Reading(u, net) /\ srv' = srv
                 /\ u \in {[ui EXCEPT !.contacts = net.list], [ui EXCEPT !.contactsError = TRUE], [ui EXCEPT !.contactsError = FALSE]}
                 /\ (past' = past \/ past' = [past EXCEPT !.faults = @ + 1])
    BY <1>5 DEF Grants!ContactsLand, Grants!RetryContacts, Grants!Render, Grants!Spent
  <2>2. DOMAIN net' = GrantsNet /\ net'.save = net.save
    BY <1>0, <2>1, GrantsReading
  <2>3. DOMAIN ui' = GrantsUi /\ ui'.saved = ui.saved /\ ui'.modes = ui.modes
    BY <1>0, <2>1 DEF GrantsUi
  <2>4. DOMAIN past' = DOMAIN past /\ past'.drafted = past.drafted
    BY <1>0, <2>1
  <2> QED BY <2>1, <2>2, <2>3, <2>4, GrantsQuiet
<1>6. ASSUME NEW c \in Alike, NEW k, Grants!ToggleGrant(c, k) PROVE GrantsKept
  <2>1. PICK u, n : /\ ui' = u /\ net' = Grants!Reading(u, n) /\ srv' = srv /\ past' = past
                    /\ DOMAIN u = GrantsUi /\ u.saved = ui.saved /\ u.modes = ui.modes /\ DOMAIN n = GrantsNet /\ n.save = net.save
    BY <1>0, <1>6 DEF Grants!ToggleGrant, Grants!Render, GrantsUi, GrantsNet
  <2>2. DOMAIN net' = GrantsNet /\ net'.save = net.save
    BY <2>1, GrantsReading
  <2> QED BY <2>1, <2>2, GrantsQuiet
<1>7. CASE Grants!GrantLands
  <2> DEFINE n == [net EXCEPT !.queue = Tail(@)]
  <2>1. /\ net' = Grants!Reading(ui', n)
        /\ \/ /\ srv' = [srv EXCEPT !.perms[Head(net.queue).to] = Head(net.queue).perms] /\ ui' = ui /\ past' = past
           \/ srv' = srv /\ ui' = [ui EXCEPT !.contacts = Grants!NotLoaded] /\ past' = [past EXCEPT !.faults = @ + 1]
    BY <1>7, Zenon DEF Grants!GrantLands, Grants!Render, Grants!Spent
  <2>2. DOMAIN n = GrantsNet /\ n.save = net.save
    BY <1>0 DEF GrantsNet
  <2> HIDE DEF n
  <2>3. DOMAIN net' = GrantsNet /\ net'.save = net.save
    BY <2>1, <2>2, GrantsReading
  <2>4. DOMAIN srv' = DOMAIN srv /\ srv'.modes = srv.modes
    BY <1>0, <2>1
  <2>5. DOMAIN ui' = GrantsUi /\ ui'.saved = ui.saved /\ ui'.modes = ui.modes /\ DOMAIN past' = DOMAIN past /\ past'.drafted = past.drafted
    BY <1>0, <2>1 DEF GrantsUi
  <2> QED BY <2>3, <2>4, <2>5, GrantsQuiet
<1>8. ASSUME NEW k \in {"r1", "r2"}, Grants!Draft(k) PROVE GrantsKept
  <2>1. /\ ui.saved # GrantsUnread /\ net' = net /\ srv' = srv /\ DOMAIN ui' = GrantsUi /\ ui'.saved = ui.saved
        /\ ui'.modes = IF k \in ui.modes THEN ui.modes \ {k} ELSE ui.modes \cup {k}
    BY <1>0, <1>8 DEF Grants!Draft, Grants!Form, Grants!Unknown, GrantsUnread, Grants!None, GrantsUi
  <2>2. DOMAIN past' = DOMAIN past /\ past'.drafted = past.drafted \cup {k}
    BY <1>0, <1>8 DEF Grants!Draft
  <2>3. GrantsKnown(ui.saved) /\ GrantsKnown(ui.modes) /\ GrantsKnown(net.save) /\ ui.modes # GrantsUnread
    BY <2>1 DEF GrantsInv, GrantsModes
  <2>4. ui'.modes \subseteq {"r1", "r2"}
    BY <2>1, <2>3 DEF GrantsKnown
  <2>5. \A x \in {"r1", "r2"} : x # k => (x \in ui'.modes) = (x \in ui.modes)
    BY <2>1
  <2>6. GrantsKnown(ui.modes)' /\ ui'.modes # GrantsUnread
    BY <2>1, <2>2, <2>3, <2>4, <2>5 DEF GrantsKnown, GrantsUnread
  <2>7. GrantsKnown(ui.saved)' /\ GrantsKnown(net.save)'
    BY <2>1, <2>2, <2>3 DEF GrantsKnown
  <2>8. GrantsShape'
    BY <1>0, <2>1, <2>2 DEF GrantsInv, GrantsShape
  <2>9. Grants!ClosesOnlyChosen
    BY <2>1 DEF Grants!ClosesOnlyChosen
  <2> QED BY <2>6, <2>7, <2>8, <2>9 DEF GrantsKept, GrantsInv, GrantsModes
<1> QED BY <1>1, <1>2, <1>3, <1>4, <1>5, <1>6, <1>7, <1>8 DEF Grants!Next

LEMMA GrantsStutters == GrantsInv /\ UNCHANGED <<ui, net, srv, past>> => GrantsInv'
BY DEF GrantsInv, GrantsShape, GrantsModes, GrantsKnown

-----------------------------------------------------------------------------
(* The companions, their list and their editor.                            *)

RosterUi == {"at", "edit", "shell", "list", "known", "shellError", "listError", "editing", "saving", "confirming"}
RosterNet == {"shell", "list", "reads", "inflight", "writes", "timers"}
RosterPast == {"visit", "moves", "writes", "faults", "meant", "over", "behind", "lost", "astray"}
\* A companion's page names the companion the last link led to by its id, where that is known.
RosterOwn == past.meant \in {0, ui.at.id}
RosterInv ==
  /\ DOMAIN ui = RosterUi /\ DOMAIN net = RosterNet /\ DOMAIN past = RosterPast
  /\ past.moves \in Nat /\ (\E S : net.writes \in Seq(S)) /\ RosterOwn

\* A step keeps the invariant, and the editor but for its own writes and an edit link.
RosterKept(names, moves, faults) == RosterInv' /\ Roster(names, moves, faults)!EditorKept

LEMMA RosterInit == ASSUME NEW names, NEW moves, NEW faults PROVE Roster(names, moves, faults)!Init => RosterInv
<1> SUFFICES ASSUME Roster(names, moves, faults)!Init PROVE RosterInv
  OBVIOUS
<1>1. DOMAIN ui = RosterUi
  BY DEF Roster!Init, RosterUi
<1>2. DOMAIN net = RosterNet /\ net.writes = <<>>
  BY DEF Roster!Init, RosterNet
<1>3. DOMAIN past = RosterPast /\ past.moves = 0
  BY DEF Roster!Init, RosterPast
<1>4. net.writes \in Seq({})
  BY <1>2
<1>5. past.meant \in {0, ui.at.id}
  BY DEF Roster!Init
<1> QED BY <1>1, <1>2, <1>3, <1>4, <1>5 DEF RosterInv, RosterOwn

\* A list of writes with one more, and with one that has landed.
LEMMA WriteAppended == ASSUME NEW S, NEW s \in Seq(S), NEW w PROVE \E T : Append(s, w) \in Seq(T)
<1>1. s \in Seq(S \cup {w}) /\ w \in S \cup {w}
  OBVIOUS
<1>2. Append(s, w) \in Seq(S \cup {w})
  BY <1>1
<1> QED BY <1>2
LEMMA WriteWithout ==
  ASSUME NEW S, NEW s \in Seq(S), NEW i \in 1..Len(s), NEW names, NEW moves, NEW faults
  PROVE  LET t == Roster(names, moves, faults)!Without(s, i) IN (\E T : t \in Seq(T)) /\ Len(t) < Len(s)
<1> DEFINE a == SubSeq(s, 1, i - 1)
           b == SubSeq(s, i + 1, Len(s))
<1>1. Len(s) \in Nat
  OBVIOUS
<1>2. a \in Seq(S) /\ Len(a) = i - 1
  BY <1>1
<1>3. b \in Seq(S) /\ Len(b) = Len(s) - i
  BY <1>1
<1>4. Roster(names, moves, faults)!Without(s, i) = a \o b
  BY DEF Roster!Without
<1> HIDE DEF a, b
<1>5. a \o b \in Seq(S) /\ Len(a \o b) = Len(a) + Len(b)
  BY <1>2, <1>3, AppendedFacts
<1>6. Len(a \o b) < Len(s)
  BY <1>1, <1>2, <1>3, <1>5
<1> QED BY <1>4, <1>5, <1>6

\* What leaves the editor alone, changes nothing but the page, or follows a link.
LEMMA RosterQuiet ==
  ASSUME RosterInv, NEW names, NEW moves, NEW faults,
         DOMAIN ui' = RosterUi, DOMAIN net' = RosterNet, DOMAIN past' = RosterPast, past'.moves \in Nat, past'.meant \in {0, ui'.at.id},
         \E S : net'.writes \in Seq(S), ui'.editing = ui.editing \/ net' = net \/ past'.moves # past.moves
  PROVE  RosterKept(names, moves, faults)
BY DEF RosterKept, RosterInv, RosterOwn, Roster!EditorKept

\* Reads begun leave the writes alone.
LEMMA RosterReads ==
  ASSUME NEW names, NEW moves, NEW faults, NEW n, DOMAIN n = RosterNet
  PROVE  /\ DOMAIN Roster(names, moves, faults)!ReloadShell(n) = RosterNet /\ Roster(names, moves, faults)!ReloadShell(n).writes = n.writes
         /\ DOMAIN Roster(names, moves, faults)!Fetch(n) = RosterNet /\ Roster(names, moves, faults)!Fetch(n).writes = n.writes
         /\ DOMAIN Roster(names, moves, faults)!Revalidate(n) = RosterNet /\ Roster(names, moves, faults)!Revalidate(n).writes = n.writes
BY DEF Roster!ReloadShell, Roster!Fetch, Roster!Revalidate, RosterNet

\* A link names the companion it leads to by its id.
LEMMA RosterLinks ==
  ASSUME NEW names, NEW moves, NEW faults
  PROVE  \A l \in Roster(names, moves, faults)!SideLinks \cup Roster(names, moves, faults)!MessagesTo \cup Roster(names, moves, faults)!RowLinks :
           l.meant \in {0, l.at.id}
BY DEF Roster!SideLinks, Roster!MessagesTo, Roster!RowLinks, Roster!LinksTo, Roster!RefOf

LEMMA RosterFollow ==
  ASSUME NEW names, NEW moves, NEW faults, RosterInv, Roster(names, moves, faults)!Follow
  PROVE  RosterKept(names, moves, faults)
<1>1. \E u, meant : DOMAIN u = RosterUi /\ meant \in {0, u.at.id} /\ Roster(names, moves, faults)!Arrive(u, meant)
  <2>1. CASE \E l \in Roster(names, moves, faults)!SideLinks \cup Roster(names, moves, faults)!MessagesTo \cup Roster(names, moves, faults)!RowLinks :
               Roster(names, moves, faults)!Arrive([ui EXCEPT !.at = l.at, !.edit = Roster(names, moves, faults)!Nowhere], l.meant)
    <3>1. PICK l \in Roster(names, moves, faults)!SideLinks \cup Roster(names, moves, faults)!MessagesTo \cup Roster(names, moves, faults)!RowLinks :
            Roster(names, moves, faults)!Arrive([ui EXCEPT !.at = l.at, !.edit = Roster(names, moves, faults)!Nowhere], l.meant)
      BY <2>1
    <3>2. l.meant \in {0, l.at.id}
      BY RosterLinks
    <3> WITNESS [ui EXCEPT !.at = l.at, !.edit = Roster(names, moves, faults)!Nowhere], l.meant
    <3> QED BY <3>1, <3>2 DEF RosterInv, RosterUi
  <2>2. CASE \E to : Roster(names, moves, faults)!Arrive([ui EXCEPT !.at = to, !.edit = Roster(names, moves, faults)!Nowhere], 0)
    <3>1. PICK to : Roster(names, moves, faults)!Arrive([ui EXCEPT !.at = to, !.edit = Roster(names, moves, faults)!Nowhere], 0)
      BY <2>2
    <3> WITNESS [ui EXCEPT !.at = to, !.edit = Roster(names, moves, faults)!Nowhere], 0
    <3> QED BY <3>1 DEF RosterInv, RosterUi
  <2>3. CASE Roster(names, moves, faults)!Arrive([ui EXCEPT !.at = Roster(names, moves, faults)!List, !.edit = ui.at], 0)
    <3> WITNESS [ui EXCEPT !.at = Roster(names, moves, faults)!List, !.edit = ui.at], 0
    <3> QED BY <2>3 DEF RosterInv, RosterUi
  <2> QED BY <2>1, <2>2, <2>3 DEF Roster!Follow
<1>2. PICK u, meant : DOMAIN u = RosterUi /\ meant \in {0, u.at.id} /\ Roster(names, moves, faults)!Arrive(u, meant)
  BY <1>1
<1>3. DOMAIN ui' = RosterUi
  BY <1>2 DEF Roster!Arrive, Roster!Redirected, RosterUi
<1>4. DOMAIN net' = RosterNet /\ net'.writes = net.writes
  BY <1>2, RosterReads DEF Roster!Arrive, RosterInv, RosterNet
<1>5. DOMAIN past' = RosterPast /\ past'.moves = past.moves + 1
  BY <1>2 DEF Roster!Arrive, Roster!Fetching, RosterInv, RosterPast
<1>6. past'.moves \in Nat /\ past'.moves # past.moves
  BY <1>5 DEF RosterInv
<1>8. past'.meant \in {0, ui'.at.id}
  BY <1>2, <1>3 DEF Roster!Arrive, Roster!Fetching, Roster!Redirected, Roster!RefOf, RosterInv, RosterUi, RosterPast
<1>7. \E S : net'.writes \in Seq(S)
  BY <1>4 DEF RosterInv
<1> QED BY <1>3, <1>4, <1>5, <1>6, <1>7, <1>8, RosterQuiet

\* A step that leaves the writes as they were.
LEMMA RosterSame ==
  ASSUME RosterInv, NEW names, NEW moves, NEW faults,
         DOMAIN ui' = RosterUi, DOMAIN net' = RosterNet, DOMAIN past' = RosterPast, past'.moves = past.moves,
         past'.meant = past.meant, ui'.at = ui.at, net'.writes = net.writes, ui'.editing = ui.editing \/ net' = net
  PROVE  RosterKept(names, moves, faults)
BY RosterQuiet DEF RosterInv, RosterOwn

LEMMA RosterWriteLands ==
  ASSUME NEW names, NEW moves, NEW faults, RosterInv, NEW i \in DOMAIN net.writes, Roster(names, moves, faults)!WriteLands(i)
  PROVE  RosterKept(names, moves, faults)
<1> DEFINE w == net.writes[i]
           over == [net EXCEPT !.writes = Roster(names, moves, faults)!Without(@, i)]
           quiet == [ui EXCEPT !.saving = IF @ = w.n THEN 0 ELSE @]
           noted == Roster(names, moves, faults)!Notified(over)
           told == [noted EXCEPT !.timers = @ + 1]
           u == [quiet EXCEPT !.shellError = FALSE]
           v == IF w.op = "save" THEN [u EXCEPT !.editing = Roster(names, moves, faults)!Closed, !.saving = 0] ELSE u
<1>1. /\ DOMAIN net = RosterNet /\ DOMAIN ui = RosterUi /\ DOMAIN past = RosterPast /\ past.moves \in Nat
  BY DEF RosterInv
<1>2. PICK S : net.writes \in Seq(S)
  BY DEF RosterInv
<1>3. i \in 1..Len(net.writes)
  BY <1>2
<1>4. DOMAIN over = RosterNet /\ (\E T : over.writes \in Seq(T)) /\ Len(over.writes) < Len(net.writes)
  <2>1. DOMAIN over = RosterNet /\ over.writes = Roster(names, moves, faults)!Without(net.writes, i)
    BY <1>1 DEF RosterNet
  <2> HIDE DEF over
  <2> QED BY <2>1, <1>2, <1>3, WriteWithout
<1>5. DOMAIN quiet = RosterUi /\ quiet.editing = ui.editing /\ quiet.at = ui.at
  BY <1>1 DEF RosterUi
<1>6. /\ \/ ui' = quiet /\ net' = over /\ past' = past
         \/ ui' = u /\ net' = told /\ past'.moves = past.moves /\ past'.meant = past.meant /\ DOMAIN past' = RosterPast
         \/ ui' = [v EXCEPT !.listError = FALSE] /\ net' = [told EXCEPT !.list = Roster(names, moves, faults)!Asked]
            /\ past'.moves = past.moves /\ past'.meant = past.meant /\ DOMAIN past' = RosterPast
  BY <1>1 DEF Roster!WriteLands, Roster!ReloadList, Roster!Notifying, Roster!Fetching, RosterPast
<1> HIDE DEF over, quiet
<1>7. DOMAIN noted = RosterNet /\ noted.writes = over.writes
  BY <1>4, RosterReads DEF Roster!Notified, RosterNet
<1> HIDE DEF noted
<1>8. DOMAIN told = RosterNet /\ told.writes = over.writes
  BY <1>7 DEF RosterNet
<1> HIDE DEF told
<1>9. DOMAIN u = RosterUi /\ u.editing = ui.editing /\ u.at = ui.at
  BY <1>5 DEF RosterUi
<1> HIDE DEF u
<1>10. DOMAIN v = RosterUi /\ v.at = ui.at /\ (v.editing = ui.editing \/ v.editing = Roster(names, moves, faults)!Closed)
  BY <1>9 DEF RosterUi
<1> HIDE DEF v
<1>11. /\ DOMAIN ui' = RosterUi /\ (ui'.editing = ui.editing \/ ui'.editing = Roster(names, moves, faults)!Closed)
       /\ DOMAIN net' = RosterNet /\ net'.writes = over.writes /\ DOMAIN past' = RosterPast /\ past'.moves = past.moves
       /\ ui'.at = ui.at /\ past'.meant = past.meant
  <2>1. CASE ui' = quiet /\ net' = over /\ past' = past
    BY <2>1, <1>1, <1>4, <1>5
  <2>2. CASE ui' = u /\ net' = told /\ past'.moves = past.moves /\ past'.meant = past.meant /\ DOMAIN past' = RosterPast
    BY <2>2, <1>8, <1>9
  <2>3. CASE /\ ui' = [v EXCEPT !.listError = FALSE] /\ net' = [told EXCEPT !.list = Roster(names, moves, faults)!Asked]
             /\ past'.moves = past.moves /\ past'.meant = past.meant /\ DOMAIN past' = RosterPast
    BY <2>3, <1>8, <1>10 DEF RosterUi, RosterNet
  <2> QED BY <1>6, <2>1, <2>2, <2>3
<1> QED BY <1>1, <1>4, <1>11 DEF RosterKept, RosterInv, RosterOwn, Roster!EditorKept

LEMMA RosterWriteServed ==
  ASSUME NEW names, NEW moves, NEW faults, RosterInv, NEW i \in DOMAIN net.writes, Roster(names, moves, faults)!WriteServed(i)
  PROVE  RosterKept(names, moves, faults)
<1>1. PICK S : net.writes \in Seq(S)
  BY DEF RosterInv
<1>2. i \in 1..Len(net.writes)
  BY <1>1
<1>3. PICK step : ui' = ui /\ net' = [net EXCEPT !.writes[i].step = step]
  BY DEF Roster!WriteServed
<1> DEFINE w == [net.writes[i] EXCEPT !.step = step]
<1>4. DOMAIN net' = RosterNet /\ net'.writes = [net.writes EXCEPT ![i] = w]
  BY <1>3 DEF RosterInv, RosterNet
<1> HIDE DEF w
<1>5. net'.writes \in Seq(S \cup {w})
  <2>1. net.writes \in Seq(S \cup {w}) /\ w \in S \cup {w}
    BY <1>1
  <2> QED BY <2>1, <1>2, <1>4
<1>6. DOMAIN past' = RosterPast /\ past'.moves = past.moves /\ past'.meant = past.meant
  BY DEF Roster!WriteServed, Roster!Spent, RosterInv, RosterPast
<1> QED BY <1>3, <1>4, <1>5, <1>6, RosterQuiet DEF RosterInv, RosterOwn

LEMMA RosterWrites ==
  ASSUME NEW names, NEW moves, NEW faults, RosterInv,
         Roster(names, moves, faults)!Submit \/ Roster(names, moves, faults)!RemoveCompanion
  PROVE  RosterKept(names, moves, faults)
<1>1. PICK op, c, name : Roster(names, moves, faults)!Write(op, c, name)
  BY DEF Roster!Submit, Roster!RemoveCompanion
<1>2. PICK w : net' = [net EXCEPT !.writes = Append(@, w)]
  BY <1>1 DEF Roster!Write
<1>3. DOMAIN net' = RosterNet /\ net'.writes = Append(net.writes, w)
  BY <1>2 DEF RosterInv, RosterNet
<1>4. \E T : net'.writes \in Seq(T)
  BY <1>3, WriteAppended DEF RosterInv
<1>5. DOMAIN past' = RosterPast /\ past'.moves = past.moves /\ past'.meant = past.meant
  BY <1>1 DEF Roster!Write, RosterInv, RosterPast
<1>6. DOMAIN ui' = RosterUi /\ ui'.editing = ui.editing /\ ui'.at = ui.at
  BY DEF Roster!Submit, Roster!RemoveCompanion, RosterInv, RosterUi
<1> QED BY <1>3, <1>4, <1>5, <1>6, RosterQuiet DEF RosterInv, RosterOwn

LEMMA RosterNext ==
  ASSUME NEW names, NEW moves, NEW faults PROVE RosterInv /\ Roster(names, moves, faults)!Next => RosterKept(names, moves, faults)
<1> SUFFICES ASSUME RosterInv, Roster(names, moves, faults)!Next PROVE RosterKept(names, moves, faults)
  OBVIOUS
<1>1. CASE \/ Roster(names, moves, faults)!ShellServed \/ Roster(names, moves, faults)!ListServed
           \/ Roster(names, moves, faults)!Restart
  <2>1. ui' = ui /\ DOMAIN net' = RosterNet /\ net'.writes = net.writes /\ past' = past
    BY <1>1 DEF Roster!ShellServed, Roster!ListServed, Roster!Restart, RosterInv, RosterNet
  <2> QED BY <2>1, RosterSame DEF RosterInv
<1>2. CASE Roster(names, moves, faults)!ShellLands
  <2>1. DOMAIN ui' = RosterUi /\ ui'.editing = ui.editing
    BY <1>2 DEF Roster!ShellLands, Roster!Redirected, RosterInv, RosterUi
  <2>2. DOMAIN net' = RosterNet /\ net'.writes = net.writes
    BY <1>2 DEF Roster!ShellLands, Roster!ReloadShell, RosterInv, RosterNet
  <2>3. DOMAIN past' = RosterPast /\ past'.moves = past.moves
    BY <1>2 DEF Roster!ShellLands, RosterInv, RosterPast
  <2>4. past'.meant \in {0, ui'.at.id}
    <3> DEFINE u == [ui EXCEPT !.shell = net.shell.got]
               c == Roster(names, moves, faults)!FindByRef(u.at, u.shell)
    <3>1. DOMAIN u = RosterUi /\ u.at = ui.at
      BY DEF RosterInv, RosterUi
    <3>2. \/ ui' = [u EXCEPT !.at = Roster(names, moves, faults)!RefOf(c, u.shell)] /\ past' = [past EXCEPT !.meant = c]
          \/ ui' = u /\ past' = past
      BY <1>2 DEF Roster!ShellLands, Roster!Redirected
    <3> HIDE DEF u, c
    <3> QED BY <3>1, <3>2 DEF Roster!RefOf, RosterInv, RosterOwn, RosterUi, RosterPast
  <2> QED BY <2>1, <2>2, <2>3, <2>4, RosterQuiet DEF RosterInv
<1>3. CASE Roster(names, moves, faults)!ShellFails \/ Roster(names, moves, faults)!ListFails
  <2>1. DOMAIN ui' = RosterUi /\ ui'.editing = ui.editing /\ ui'.at = ui.at
    BY <1>3 DEF Roster!ShellFails, Roster!ListFails, RosterInv, RosterUi
  <2>2. DOMAIN net' = RosterNet /\ net'.writes = net.writes
    BY <1>3 DEF Roster!ShellFails, Roster!ListFails, RosterInv, RosterNet
  <2>3. DOMAIN past' = RosterPast /\ past'.moves = past.moves /\ past'.meant = past.meant
    BY <1>3 DEF Roster!ShellFails, Roster!ListFails, Roster!Spent, RosterInv, RosterPast
  <2> QED BY <2>1, <2>2, <2>3, RosterSame
<1>4. CASE Roster(names, moves, faults)!ListLands
  <2> DEFINE u == [ui EXCEPT !.list = net.list.got]
             c == Roster(names, moves, faults)!FindByRef(u.edit, u.list)
             v == IF u.edit # Roster(names, moves, faults)!Nowhere /\ c # 0 THEN Roster(names, moves, faults)!Opened(u, c, u.list[c]) ELSE u
  <2>1. ui' = [v EXCEPT !.edit = Roster(names, moves, faults)!Nowhere] /\ past' = past
    BY <1>4 DEF Roster!ListLands, Roster!EditLink
  <2>2. DOMAIN u = RosterUi /\ u.editing = ui.editing /\ u.edit = ui.edit /\ u.at = ui.at
    BY DEF RosterInv, RosterUi
  <2>3. DOMAIN net' = RosterNet /\ net'.writes = net.writes
    BY <1>4 DEF Roster!ListLands, RosterInv, RosterNet
  <2> HIDE DEF c, u
  <2>4. /\ DOMAIN v = RosterUi /\ v.at = ui.at
        /\ v.editing # ui.editing /\ ui.editing # Roster(names, moves, faults)!Closed =>
             ui.edit # Roster(names, moves, faults)!Nowhere /\ v.editing.draft = ui.editing.draft
    BY <2>2 DEF Roster!Opened, RosterUi
  <2> HIDE DEF v
  <2>5. DOMAIN ui' = RosterUi /\ ui'.editing = v.editing /\ ui'.at = v.at
    BY <2>1, <2>4 DEF RosterUi
  <2> QED BY <2>1, <2>3, <2>4, <2>5 DEF RosterKept, RosterInv, RosterOwn, Roster!EditorKept, Roster!Editing
<1>5. CASE Roster(names, moves, faults)!Retry
  <2>1. DOMAIN ui' = RosterUi /\ ui'.editing = ui.editing /\ ui'.at = ui.at /\ DOMAIN net' = RosterNet /\ net'.writes = net.writes /\ past' = past
    BY <1>5 DEF Roster!Retry, Roster!ReloadList, RosterInv, RosterUi, RosterNet
  <2> QED BY <2>1, RosterSame DEF RosterInv
<1>6. ASSUME NEW i, Roster(names, moves, faults)!KnownServed(i) \/ Roster(names, moves, faults)!KnownLands(i)
                    \/ Roster(names, moves, faults)!KnownFails(i)
      PROVE RosterKept(names, moves, faults)
  <2>1. DOMAIN ui' = RosterUi /\ ui'.editing = ui.editing /\ ui'.at = ui.at
    BY <1>6 DEF Roster!KnownServed, Roster!KnownLands, Roster!KnownFails, RosterInv, RosterUi
  <2>2. DOMAIN net' = RosterNet /\ net'.writes = net.writes
    BY <1>6 DEF Roster!KnownServed, Roster!KnownLands, Roster!KnownFails, Roster!Landed, RosterInv, RosterNet
  <2>3. DOMAIN past' = RosterPast /\ past'.moves = past.moves /\ past'.meant = past.meant
    BY <1>6 DEF Roster!KnownServed, Roster!KnownLands, Roster!KnownFails, Roster!Spent, RosterInv, RosterPast
  <2> QED BY <2>1, <2>2, <2>3, RosterSame
<1>7. CASE \/ Roster(names, moves, faults)!OpenEditor \/ Roster(names, moves, faults)!Type \/ Roster(names, moves, faults)!Close
           \/ Roster(names, moves, faults)!AskRemove \/ Roster(names, moves, faults)!Cancel
  <2>1. net' = net /\ past' = past
    BY <1>7 DEF Roster!OpenEditor, Roster!Type, Roster!Close, Roster!AskRemove, Roster!Cancel
  <2>2. DOMAIN ui' = RosterUi /\ ui'.at = ui.at
    BY <1>7 DEF Roster!OpenEditor, Roster!Opened, Roster!Type, Roster!Close, Roster!AskRemove, Roster!Cancel, RosterInv, RosterUi
  <2> QED BY <2>1, <2>2, RosterSame DEF RosterInv
<1>8. CASE Roster(names, moves, faults)!Timer
  <2> DEFINE noted == Roster(names, moves, faults)!Notified(net)
  <2>1. DOMAIN noted = RosterNet /\ noted.writes = net.writes
    BY RosterReads DEF Roster!Notified, RosterInv
  <2>2. net' = [noted EXCEPT !.timers = @ - 1]
    BY <1>8 DEF Roster!Timer
  <2> HIDE DEF noted
  <2>3. DOMAIN net' = RosterNet /\ net'.writes = net.writes
    BY <2>1, <2>2 DEF RosterNet
  <2>4. DOMAIN ui' = RosterUi /\ ui'.editing = ui.editing /\ ui'.at = ui.at
    BY <1>8 DEF Roster!Timer, RosterInv, RosterUi
  <2>5. DOMAIN past' = RosterPast /\ past'.moves = past.moves /\ past'.meant = past.meant
    BY <1>8 DEF Roster!Timer, Roster!Notifying, Roster!Fetching, RosterInv, RosterPast
  <2> QED BY <2>3, <2>4, <2>5, RosterSame
<1> QED BY <1>1, <1>2, <1>3, <1>4, <1>5, <1>6, <1>7, <1>8, RosterFollow, RosterWriteLands, RosterWriteServed, RosterWrites
        DEF Roster!Next

LEMMA RosterStutters == RosterInv /\ UNCHANGED <<ui, net, srv, past>> => RosterInv'
BY DEF RosterInv, RosterOwn

LEMMA RosterKeeps == ASSUME NEW names, NEW moves, NEW faults PROVE RosterInv => Roster(names, moves, faults)!OwnPage
BY DEF RosterInv, RosterOwn, Roster!OwnPage, Roster!AtCompanion, Roster!Label, Roster!Named, Roster!FindByRef

-----------------------------------------------------------------------------
(* The login to a remote node.                                             *)

SessionUi == {"node", "session", "contact", "booting", "error", "save", "loggingIn"}
SessionNet == {"boots", "reads", "logins", "outs", "asks"}
SessionRead(q) == DOMAIN q = {"of", "got", "role"}
SessionShape ==
  /\ DOMAIN ui = SessionUi /\ DOMAIN net = SessionNet /\ DOMAIN srv = {"held", "saved"}
  /\ DOMAIN past = {"moves", "faults", "crossed", "refused"} /\ past.crossed \in BOOLEAN /\ past.refused \in BOOLEAN
  /\ DOMAIN ui.session = {"of", "role"} /\ DOMAIN srv.held = Alike /\ ui.node \in Alike /\ ui.booting \in BOOLEAN
  /\ (\A q \in net.reads : SessionRead(q)) /\ \A j \in net.logins : DOMAIN j = {"of", "step", "save"}

\* While the reader stays at a node, whatever is on its way is about that node.
SessionOwn ==
  /\ net.boots \subseteq {ui.node} /\ net.asks \subseteq {ui.node} /\ net.outs \subseteq {ui.node}
  /\ (\A q \in net.reads : q.of = ui.node) /\ \A j \in net.logins : j.of = ui.node
  /\ ui.session.role # "none" => ui.session.of = ui.node

\* A page that opens has asked the node nothing.
SessionBoots ==
  net.boots # {} => ui.booting /\ ui.session.role = "none" /\ net.asks = {} /\ net.reads = {} /\ net.logins = {}

\* A read of the session on its way is the one of the opening, of a login that is lost, or of a login being made.
SessionReads ==
  net.reads # {} =>
    \/ ui.session.role = "none" /\ net.asks = {} /\ \A q, r \in net.reads : q = r
    \/ srv.held[ui.node] = "none" /\ \A q \in net.reads : q.role = "none"
    \/ (\E j \in net.logins : j.step = "save") /\ \A q, r \in net.reads : q = r

\* After a 401 the server holds no login, and what the page shows of one, or is about to, says so.
SessionLost ==
  past.refused =>
    /\ srv.held[ui.node] = "none" /\ \A q \in net.reads : q.role = "none"
    /\ net.reads # {} \/ ui.session.role = "none"

SessionInv == SessionShape /\ (~past.crossed => SessionOwn /\ SessionBoots /\ SessionReads /\ SessionLost)

LEMMA SessionInit == Session!Init => SessionInv
<1> SUFFICES ASSUME Session!Init PROVE SessionInv
  OBVIOUS
<1>1. PICK n \in Alike :
        /\ ui = [node |-> n, session |-> Session!NoSession, contact |-> Session!None, booting |-> TRUE, error |-> FALSE,
                 save |-> FALSE, loggingIn |-> FALSE]
        /\ net = [boots |-> {n}, reads |-> {}, logins |-> {}, outs |-> {}, asks |-> {}]
  BY DEF Session!Init
<1>2. DOMAIN ui = SessionUi /\ ui.session = Session!NoSession /\ ui.node = n /\ ui.booting = TRUE
  BY <1>1 DEF SessionUi
<1>3. DOMAIN net = SessionNet /\ net.boots = {n} /\ net.reads = {} /\ net.logins = {} /\ net.outs = {} /\ net.asks = {}
  BY <1>1 DEF SessionNet
<1>4. DOMAIN ui.session = {"of", "role"} /\ ui.session.role = "none"
  BY <1>2 DEF Session!NoSession, Session!None
<1>5. DOMAIN srv = {"held", "saved"} /\ DOMAIN srv.held = Alike
  BY DEF Session!Init
<1>6. DOMAIN past = {"moves", "faults", "crossed", "refused"} /\ past.crossed = FALSE /\ past.refused = FALSE
  BY DEF Session!Init
<1> QED BY <1>2, <1>3, <1>4, <1>5, <1>6 DEF SessionInv, SessionShape, SessionOwn, SessionBoots, SessionReads, SessionLost

\* What a page at its own node relies on.
SessionGood == SessionOwn /\ SessionBoots /\ SessionReads /\ SessionLost

\* A read that is asked, or answered.
LEMMA SessionAsking ==
  ASSUME NEW reads, NEW n
  PROVE  \E q : Session!Asking(reads, n) = reads \cup {q} /\ SessionRead(q) /\ q.of = n /\ q.role = "none"
<1> DEFINE q == [of |-> n, got |-> "asked", role |-> Session!None]
<1>1. Session!Asking(reads, n) = reads \cup {q}
  BY DEF Session!Asking
<1>2. SessionRead(q) /\ q.of = n /\ q.role = "none"
  BY DEF SessionRead, Session!None
<1> HIDE DEF q
<1> QED BY <1>1, <1>2

LEMMA SessionNext == SessionInv /\ Session!Next => SessionInv'
<1> SUFFICES ASSUME SessionInv, Session!Next PROVE SessionInv'
  OBVIOUS
<1>0. /\ DOMAIN ui = SessionUi /\ DOMAIN net = SessionNet /\ DOMAIN srv = {"held", "saved"}
      /\ DOMAIN past = {"moves", "faults", "crossed", "refused"} /\ past.crossed \in BOOLEAN /\ past.refused \in BOOLEAN
      /\ DOMAIN ui.session = {"of", "role"} /\ DOMAIN srv.held = Alike /\ ui.node \in Alike /\ ui.booting \in BOOLEAN
      /\ (\A q \in net.reads : SessionRead(q)) /\ \A j \in net.logins : DOMAIN j = {"of", "step", "save"}
  BY DEF SessionInv, SessionShape
<1>00. ~past.crossed => SessionGood
  BY DEF SessionInv, SessionGood
<1>1. ASSUME NEW q \in net.reads, Session!ServeSession(q) PROVE SessionInv'
  <2> DEFINE a == [q EXCEPT !.got = "ok", !.role = srv.held[q.of]]
  <2>1. net' = [net EXCEPT !.reads = (@ \ {q}) \cup {a}] /\ ui' = ui /\ srv' = srv /\ past' = past
    BY <1>1 DEF Session!ServeSession
  <2>2. SessionRead(a) /\ a.of = q.of /\ a.role = srv.held[q.of]
    BY <1>0 DEF SessionRead
  <2> HIDE DEF a
  <2>3. /\ DOMAIN net' = SessionNet /\ net'.reads = (net.reads \ {q}) \cup {a} /\ net'.boots = net.boots /\ net'.logins = net.logins
        /\ net'.outs = net.outs /\ net'.asks = net.asks
    BY <1>0, <2>1 DEF SessionNet
  <2>4. SessionShape'
    BY <1>0, <2>1, <2>2, <2>3 DEF SessionShape
  <2>5. ASSUME ~past.crossed PROVE SessionGood'
    <3>1. SessionOwn' /\ SessionBoots'
      BY <1>00, <2>1, <2>2, <2>3, <2>5 DEF SessionGood, SessionOwn, SessionBoots
    <3>2. a.role = srv.held[ui.node]
      BY <1>00, <2>2, <2>5 DEF SessionGood, SessionOwn
    <3>3. SessionReads' /\ SessionLost'
      BY <1>00, <2>1, <2>3, <2>5, <3>2 DEF SessionGood, SessionReads, SessionLost
    <3> QED BY <3>1, <3>3 DEF SessionGood
  <2> QED BY <2>1, <2>4, <2>5 DEF SessionInv, SessionGood
<1>2. ASSUME NEW q \in net.reads, Session!LandSession(q) PROVE SessionInv'
  <2> DEFINE got == [of |-> q.of, role |-> q.role]
  <2>1. /\ net' = [net EXCEPT !.reads = @ \ {q}] /\ srv' = srv
        /\ \/ ui' = [ui EXCEPT !.session = got] /\ past' = past
           \/ ui' = [ui EXCEPT !.session = Session!NoSession] /\ past' = [past EXCEPT !.faults = @ + 1]
    BY <1>2 DEF Session!LandSession
  <2>2. DOMAIN got = {"of", "role"} /\ got.of = q.of /\ got.role = q.role
    OBVIOUS
  <2>3. DOMAIN Session!NoSession = {"of", "role"} /\ Session!NoSession.role = "none"
    BY DEF Session!NoSession, Session!None
  <2> HIDE DEF got
  <2>4. /\ DOMAIN net' = SessionNet /\ net'.reads = net.reads \ {q} /\ net'.boots = net.boots /\ net'.logins = net.logins
        /\ net'.outs = net.outs /\ net'.asks = net.asks
    BY <1>0, <2>1 DEF SessionNet
  <2>5. /\ DOMAIN ui' = SessionUi /\ ui'.node = ui.node /\ ui'.booting = ui.booting /\ DOMAIN ui'.session = {"of", "role"}
        /\ ui'.session.role = "none" \/ (ui'.session.role = q.role /\ ui'.session.of = q.of)
    BY <1>0, <2>1, <2>2, <2>3 DEF SessionUi
  <2>6. DOMAIN past' = DOMAIN past /\ past'.crossed = past.crossed /\ past'.refused = past.refused
    BY <1>0, <2>1
  <2>7. SessionShape'
    BY <1>0, <2>1, <2>4, <2>5, <2>6 DEF SessionShape
  <2>8. ASSUME ~past.crossed PROVE SessionGood'
    <3>1. SessionOwn' /\ SessionBoots' /\ SessionLost'
      BY <1>00, <2>1, <2>4, <2>5, <2>6, <2>8 DEF SessionGood, SessionOwn, SessionBoots, SessionLost
    <3>2. SessionReads'
      BY <1>00, <2>1, <2>4, <2>5, <2>8 DEF SessionGood, SessionReads
    <3> QED BY <3>1, <3>2 DEF SessionGood
  <2> QED BY <2>6, <2>7, <2>8 DEF SessionInv, SessionGood
<1>3. ASSUME NEW n \in Alike, Session!GoTo(n) PROVE SessionInv'
  <2>1. /\ DOMAIN ui' = SessionUi /\ ui'.node = n /\ ui'.booting = TRUE /\ ui'.session = ui.session /\ srv' = srv
        /\ DOMAIN net' = SessionNet /\ net'.reads = net.reads /\ net'.logins = net.logins
    BY <1>0, <1>3 DEF Session!GoTo, SessionUi, SessionNet
  <2>2. DOMAIN past' = DOMAIN past /\ past'.crossed = TRUE /\ past'.refused = past.refused
    BY <1>0, <1>3 DEF Session!GoTo
  <2> QED BY <1>0, <2>1, <2>2 DEF SessionInv, SessionShape
<1>4. ASSUME NEW n \in Alike, Session!LoseLogin(n) PROVE SessionInv'
  <2>1. ui' = ui /\ net' = net /\ DOMAIN srv' = DOMAIN srv /\ srv'.held = [srv.held EXCEPT ![n] = "none"]
    BY <1>0, <1>4 DEF Session!LoseLogin, Session!None
  <2>2. DOMAIN past' = DOMAIN past /\ past'.crossed = past.crossed /\ past'.refused = past.refused
    BY <1>0, <1>4 DEF Session!LoseLogin
  <2>3. DOMAIN srv'.held = Alike /\ (srv.held[ui.node] = "none" => srv'.held[ui.node] = "none")
    BY <1>0, <2>1
  <2>4. SessionShape'
    BY <1>0, <2>1, <2>2, <2>3 DEF SessionShape
  <2>5. ~past.crossed => SessionGood'
    BY <1>00, <2>1, <2>2, <2>3 DEF SessionGood, SessionOwn, SessionBoots, SessionReads, SessionLost
  <2> QED BY <2>2, <2>4, <2>5 DEF SessionInv, SessionGood
<1>5. ASSUME NEW n \in net.boots, Session!BootLands(n) PROVE SessionInv'
  <2>1. srv' = srv /\ DOMAIN past' = DOMAIN past /\ past'.crossed = past.crossed /\ past'.refused = past.refused
    BY <1>0, <1>5 DEF Session!BootLands
  <2>2. DOMAIN ui' = SessionUi /\ ui'.node = ui.node /\ ui'.booting = FALSE /\ ui'.session = ui.session
    BY <1>0, <1>5 DEF Session!BootLands, SessionUi
  <2>3. /\ net' = [net EXCEPT !.boots = @ \ {n}, !.reads = Session!Asking(@, n)] \/ net' = [net EXCEPT !.boots = @ \ {n}]
    BY <1>5 DEF Session!BootLands
  <2>4. PICK q : Session!Asking(net.reads, n) = net.reads \cup {q} /\ SessionRead(q) /\ q.of = n /\ q.role = "none"
    BY SessionAsking
  <2>5. /\ DOMAIN net' = SessionNet /\ (net'.reads = net.reads \/ net'.reads = net.reads \cup {q}) /\ net'.boots = net.boots \ {n}
        /\ net'.logins = net.logins /\ net'.outs = net.outs /\ net'.asks = net.asks
    BY <1>0, <2>3, <2>4 DEF SessionNet
  <2>6. SessionShape'
    BY <1>0, <2>1, <2>2, <2>4, <2>5 DEF SessionShape
  <2>7. ASSUME ~past.crossed PROVE SessionGood'
    <3>1. n = ui.node /\ net.reads = {} /\ net.asks = {} /\ ui.session.role = "none" /\ net'.boots = {}
      BY <1>00, <2>5, <2>7 DEF SessionGood, SessionOwn, SessionBoots
    <3>2. SessionOwn' /\ SessionBoots'
      BY <1>00, <2>2, <2>4, <2>5, <2>7, <3>1 DEF SessionGood, SessionOwn, SessionBoots
    <3>3. SessionReads' /\ SessionLost'
      BY <1>00, <2>1, <2>2, <2>4, <2>5, <2>7, <3>1 DEF SessionGood, SessionReads, SessionLost
    <3> QED BY <3>2, <3>3 DEF SessionGood
  <2> QED BY <2>1, <2>6, <2>7 DEF SessionInv, SessionGood
<1>6. CASE Session!AskLogin
  <2> DEFINE j == [of |-> ui.node, step |-> "login", save |-> ui.save]
  <2>1. /\ ~ui.booting /\ DOMAIN ui' = SessionUi /\ ui'.node = ui.node /\ ui'.booting = ui.booting /\ ui'.session = ui.session
        /\ srv' = srv /\ past' = past
    BY <1>0, <1>6 DEF Session!AskLogin, Session!Form, SessionUi
  <2>2. /\ DOMAIN net' = SessionNet /\ net'.logins = net.logins \cup {j} /\ net'.reads = net.reads /\ net'.boots = net.boots
        /\ net'.outs = net.outs /\ net'.asks = net.asks
    BY <1>0, <1>6 DEF Session!AskLogin, SessionNet
  <2>3. DOMAIN j = {"of", "step", "save"} /\ j.of = ui.node
    OBVIOUS
  <2> HIDE DEF j
  <2>4. SessionShape'
    BY <1>0, <2>1, <2>2, <2>3 DEF SessionShape
  <2>5. ~past.crossed => SessionGood'
    BY <1>00, <2>1, <2>2, <2>3 DEF SessionGood, SessionOwn, SessionBoots, SessionReads, SessionLost
  <2> QED BY <2>1, <2>4, <2>5 DEF SessionInv, SessionGood
<1>7. CASE Session!ToggleSave
  <2>1. /\ DOMAIN ui' = SessionUi /\ ui'.node = ui.node /\ ui'.booting = ui.booting /\ ui'.session = ui.session
        /\ net' = net /\ srv' = srv /\ past' = past
    BY <1>0, <1>7 DEF Session!ToggleSave, SessionUi
  <2>2. SessionShape'
    BY <1>0, <2>1 DEF SessionShape
  <2>3. ~past.crossed => SessionGood'
    BY <1>00, <2>1 DEF SessionGood, SessionOwn, SessionBoots, SessionReads, SessionLost
  <2> QED BY <2>1, <2>2, <2>3 DEF SessionInv, SessionGood
<1>8. ASSUME NEW j \in net.logins, Session!LoginLands(j) PROVE SessionInv'
  <2>1. CASE ui' = [ui EXCEPT !.loggingIn = FALSE] /\ past' = [past EXCEPT !.faults = @ + 1] /\ srv' = srv
             /\ net' = [net EXCEPT !.logins = @ \ {j}]
    <3>1. /\ DOMAIN ui' = SessionUi /\ ui'.node = ui.node /\ ui'.booting = ui.booting /\ ui'.session = ui.session /\ srv' = srv
          /\ DOMAIN past' = DOMAIN past /\ past'.crossed = past.crossed /\ past'.refused = past.refused
      BY <1>0, <2>1 DEF SessionUi
    <3>2. /\ DOMAIN net' = SessionNet /\ net'.logins = net.logins \ {j} /\ net'.reads = net.reads /\ net'.boots = net.boots
          /\ net'.outs = net.outs /\ net'.asks = net.asks
      BY <1>0, <2>1 DEF SessionNet
    <3>3. SessionShape'
      BY <1>0, <3>1, <3>2 DEF SessionShape
    <3>4. j.step = "login"
      BY <1>8 DEF Session!LoginLands
    <3>5. ~past.crossed => SessionGood'
      BY <1>00, <3>1, <3>2, <3>4 DEF SessionGood, SessionOwn, SessionBoots, SessionReads, SessionLost
    <3> QED BY <3>1, <3>3, <3>5 DEF SessionInv, SessionGood
  <2>2. CASE ui' = ui /\ (\E r \in {"admin"} : srv' = [srv EXCEPT !.held[j.of] = r])
             /\ net' = [net EXCEPT !.logins = (@ \ {j}) \cup {[j EXCEPT !.step = "save"]}, !.reads = Session!Asking(@, j.of)]
             /\ past' = [past EXCEPT !.crossed = @ \/ net.reads # {} \/ j.of # ui.node \/ net.outs # {}, !.refused = FALSE]
    <3> DEFINE k == [j EXCEPT !.step = "save"]
    <3>1. DOMAIN k = {"of", "step", "save"} /\ k.of = j.of /\ k.step = "save"
      BY <1>0
    <3>2. net' = [net EXCEPT !.logins = (@ \ {j}) \cup {k}, !.reads = Session!Asking(@, j.of)]
      BY <2>2
    <3> HIDE DEF k
    <3>3. PICK q : Session!Asking(net.reads, j.of) = net.reads \cup {q} /\ SessionRead(q) /\ q.of = j.of /\ q.role = "none"
      BY SessionAsking
    <3>4. /\ DOMAIN net' = SessionNet /\ net'.reads = net.reads \cup {q} /\ net'.logins = (net.logins \ {j}) \cup {k}
          /\ net'.boots = net.boots /\ net'.outs = net.outs /\ net'.asks = net.asks
      BY <1>0, <3>2, <3>3 DEF SessionNet
    <3>5. DOMAIN srv' = DOMAIN srv /\ DOMAIN srv'.held = Alike /\ ui' = ui
      BY <1>0, <2>2
    <3>6. /\ DOMAIN past' = DOMAIN past /\ past'.refused = FALSE
          /\ past'.crossed = (past.crossed \/ net.reads # {} \/ j.of # ui.node \/ net.outs # {})
      BY <1>0, <2>2
    <3>7. SessionShape'
      BY <1>0, <3>1, <3>3, <3>4, <3>5, <3>6 DEF SessionShape
    <3>8. ASSUME ~past'.crossed PROVE SessionGood'
      <4>1. ~past.crossed /\ net.reads = {} /\ j.of = ui.node /\ net'.reads = {q}
        BY <3>4, <3>6, <3>8
      <4>2. net.boots = {}
        BY <1>00, <4>1 DEF SessionGood, SessionBoots
      <4>3. SessionOwn' /\ SessionBoots'
        BY <1>00, <3>1, <3>3, <3>4, <3>5, <4>1, <4>2 DEF SessionGood, SessionOwn, SessionBoots
      <4>4. SessionReads' /\ SessionLost'
        BY <3>1, <3>4, <3>6, <4>1 DEF SessionReads, SessionLost
      <4> QED BY <4>3, <4>4 DEF SessionGood
    <3> QED BY <3>7, <3>8 DEF SessionInv, SessionGood
  <2> QED BY <1>8, <2>1, <2>2 DEF Session!LoginLands
<1>9. ASSUME NEW j \in net.logins, Session!PasswordSaved(j) PROVE SessionInv'
  <2>1. /\ j.step = "save" /\ (\A q \in net.reads : q.of # j.of) /\ past' = past
        /\ DOMAIN ui' = SessionUi /\ ui'.node = ui.node /\ ui'.booting = ui.booting /\ ui'.session = ui.session
    BY <1>0, <1>9 DEF Session!PasswordSaved, SessionUi
  <2>2. DOMAIN srv' = DOMAIN srv /\ srv'.held = srv.held
    BY <1>0, <1>9 DEF Session!PasswordSaved
  <2>3. /\ DOMAIN net' = SessionNet /\ net'.logins = net.logins \ {j} /\ net'.reads = net.reads /\ net'.boots = net.boots
        /\ net'.outs = net.outs /\ net'.asks = net.asks
    BY <1>0, <1>9 DEF Session!PasswordSaved, SessionNet
  <2>4. SessionShape'
    BY <1>0, <2>1, <2>2, <2>3 DEF SessionShape
  <2>5. ASSUME ~past.crossed PROVE SessionGood'
    <3>1. net.reads = {}
      BY <1>00, <2>1, <2>5 DEF SessionGood, SessionOwn
    <3> QED BY <1>00, <2>1, <2>2, <2>3, <2>5, <3>1 DEF SessionGood, SessionOwn, SessionBoots, SessionReads, SessionLost
  <2> QED BY <2>1, <2>4, <2>5 DEF SessionInv, SessionGood
<1>10. CASE Session!Logout \/ Session!Ask
  <2>1. ui.session.role # "none" /\ ui' = ui /\ srv' = srv
    BY <1>10 DEF Session!Logout, Session!Ask, Session!Tabs, Session!LoggedIn, Session!None
  <2>2. /\ DOMAIN past' = DOMAIN past /\ past'.crossed \in BOOLEAN /\ (past.crossed => past'.crossed) /\ past'.refused = past.refused
        /\ DOMAIN net' = SessionNet /\ net'.logins = net.logins /\ net'.reads = net.reads /\ net'.boots = net.boots
    BY <1>0, <1>10 DEF Session!Logout, Session!Ask, SessionNet
  <2>3. /\ net'.outs \subseteq net.outs \cup {ui.node} /\ net'.asks \subseteq net.asks \cup {ui.node}
    BY <1>0, <1>10 DEF Session!Logout, Session!Ask, SessionNet
  <2>4. SessionShape'
    BY <1>0, <2>1, <2>2 DEF SessionShape
  <2>5. ASSUME ~past'.crossed PROVE SessionGood'
    <3>1. SessionOwn' /\ SessionBoots'
      BY <1>00, <2>1, <2>2, <2>3, <2>5 DEF SessionGood, SessionOwn, SessionBoots
    <3>2. SessionReads' /\ SessionLost'
      BY <1>00, <2>1, <2>2, <2>5 DEF SessionGood, SessionReads, SessionLost
    <3> QED BY <3>1, <3>2 DEF SessionGood
  <2> QED BY <2>4, <2>5 DEF SessionInv, SessionGood
<1>11. ASSUME NEW n \in net.outs, Session!LogoutLands(n) PROVE SessionInv'
  <2> DEFINE over == [past EXCEPT !.crossed = @ \/ n # ui.node \/ net.reads # {}]
  <2>0. /\ net' = [net EXCEPT !.outs = @ \ {n}] /\ (past' = over \/ past' = [over EXCEPT !.faults = @ + 1])
        /\ ui' = [ui EXCEPT !.session = Session!NoSession] \/ ui' = ui
        /\ srv' = srv \/ srv' = [srv EXCEPT !.held[n] = "none"]
    BY <1>11 DEF Session!LogoutLands, Session!Dropped, Session!None
  <2>1. DOMAIN Session!NoSession = {"of", "role"} /\ Session!NoSession.role = "none"
    BY DEF Session!NoSession, Session!None
  <2>2. /\ DOMAIN ui' = SessionUi /\ ui'.node = ui.node /\ ui'.booting = ui.booting
        /\ ui'.session = Session!NoSession \/ ui'.session = ui.session
    BY <1>0, <2>0 DEF SessionUi
  <2>3. DOMAIN srv' = DOMAIN srv /\ (srv'.held = srv.held \/ srv'.held = [srv.held EXCEPT ![n] = "none"])
    BY <1>0, <2>0
  <2>4. /\ DOMAIN net' = SessionNet /\ net'.logins = net.logins /\ net'.reads = net.reads /\ net'.boots = net.boots
        /\ net'.outs = net.outs \ {n} /\ net'.asks = net.asks
    BY <1>0, <2>0 DEF SessionNet
  <2>5. DOMAIN past' = DOMAIN past /\ past'.crossed = (past.crossed \/ n # ui.node \/ net.reads # {}) /\ past'.refused = past.refused
    BY <1>0, <2>0
  <2> HIDE DEF over
  <2>6. DOMAIN srv'.held = Alike /\ (srv.held[ui.node] = "none" => srv'.held[ui.node] = "none")
    BY <1>0, <2>3
  <2>7. SessionShape'
    BY <1>0, <2>1, <2>2, <2>3, <2>4, <2>5, <2>6 DEF SessionShape
  <2>8. ASSUME ~past'.crossed PROVE SessionGood'
    <3>1. ~past.crossed /\ net.reads = {}
      BY <2>5, <2>8
    <3> QED BY <1>00, <2>1, <2>2, <2>4, <2>5, <2>6, <3>1 DEF SessionGood, SessionOwn, SessionBoots, SessionReads, SessionLost
  <2> QED BY <2>7, <2>8 DEF SessionInv, SessionGood
<1>12. ASSUME NEW n \in net.asks, Session!Answered(n) PROVE SessionInv'
  <2>0. ui' = ui /\ srv' = srv
    BY <1>12 DEF Session!Answered
  <2>1. CASE net' = [net EXCEPT !.asks = @ \ {n}] /\ past' = past
    <3>1. /\ DOMAIN net' = SessionNet /\ net'.logins = net.logins /\ net'.reads = net.reads /\ net'.boots = net.boots
          /\ net'.outs = net.outs /\ net'.asks = net.asks \ {n}
      BY <1>0, <2>1 DEF SessionNet
    <3>2. SessionShape'
      BY <1>0, <2>0, <2>1, <3>1 DEF SessionShape
    <3>3. ~past.crossed => SessionGood'
      BY <1>00, <2>0, <2>1, <3>1 DEF SessionGood, SessionOwn, SessionBoots, SessionReads, SessionLost
    <3> QED BY <2>1, <3>2, <3>3 DEF SessionInv, SessionGood
  <2>2. CASE /\ srv.held[n] = Session!None /\ net' = [net EXCEPT !.asks = @ \ {n}, !.reads = Session!Asking(@, n)]
             /\ past' = [past EXCEPT !.refused = @ \/ n = ui.node, !.crossed = @ \/ net.logins # {} \/ n # ui.node]
    <3>1. PICK q : Session!Asking(net.reads, n) = net.reads \cup {q} /\ SessionRead(q) /\ q.of = n /\ q.role = "none"
      BY SessionAsking
    <3>2. /\ DOMAIN net' = SessionNet /\ net'.logins = net.logins /\ net'.reads = net.reads \cup {q} /\ net'.boots = net.boots
          /\ net'.outs = net.outs /\ net'.asks = net.asks \ {n}
      BY <1>0, <2>2, <3>1 DEF SessionNet
    <3>3. /\ DOMAIN past' = DOMAIN past /\ past'.crossed = (past.crossed \/ net.logins # {} \/ n # ui.node)
          /\ past'.refused = (past.refused \/ n = ui.node)
      BY <1>0, <2>2
    <3>4. SessionShape'
      BY <1>0, <2>0, <3>1, <3>2, <3>3 DEF SessionShape
    <3>5. ASSUME ~past'.crossed PROVE SessionGood'
      <4>1. ~past.crossed /\ net.logins = {} /\ n = ui.node /\ srv.held[ui.node] = "none"
        BY <2>2, <3>3, <3>5 DEF Session!None
      <4>2. \A r \in net.reads : r.role = "none"
        BY <1>00, <4>1 DEF SessionGood, SessionReads
      <4>3. net.boots = {}
        BY <1>00, <4>1 DEF SessionGood, SessionBoots
      <4>4. SessionOwn' /\ SessionBoots'
        BY <1>00, <2>0, <3>1, <3>2, <4>1, <4>3 DEF SessionGood, SessionOwn, SessionBoots
      <4>5. SessionReads' /\ SessionLost'
        BY <2>0, <3>1, <3>2, <4>1, <4>2 DEF SessionReads, SessionLost
      <4> QED BY <4>4, <4>5 DEF SessionGood
    <3> QED BY <3>4, <3>5 DEF SessionInv, SessionGood
  <2> QED BY <1>12, <2>1, <2>2 DEF Session!Answered
<1> QED BY <1>1, <1>2, <1>3, <1>4, <1>5, <1>6, <1>7, <1>8, <1>9, <1>10, <1>11, <1>12 DEF Session!Next

LEMMA SessionStutters == SessionInv /\ UNCHANGED <<ui, net, srv, past>> => SessionInv'
BY DEF SessionInv, SessionShape, SessionRead, SessionOwn, SessionBoots, SessionReads, SessionLost

LEMMA SessionKeeps == SessionInv => Session!LostLoginNoticed /\ Session!OwnSession
BY DEF SessionInv, SessionOwn, SessionLost, SessionShape, Session!LostLoginNoticed, Session!OwnSession, Session!AtRest, Session!Tabs, Session!LoggedIn, Session!None

-----------------------------------------------------------------------------
(* The tabs of a remote node.                                              *)

TabsUi == {"kind", "active", "fetched", "err", "busy", "pages", "total", "entries", "busyKey", "add"}
TabsShape ==
  /\ DOMAIN ui = TabsUi /\ DOMAIN net = {"reads", "changes", "discover"} /\ DOMAIN past = {"faults", "overlap", "freed", "behind"}
  /\ ui.active \in BOOLEAN /\ ui.fetched \in BOOLEAN /\ ui.err \in BOOLEAN /\ past.overlap \in BOOLEAN /\ net.discover \in BOOLEAN
  /\ ui.kind \in {"plain", "neighbors", "access"}

\* Only the access list is changed, and only neighbours are looked for.
TabsKind ==
  /\ (net.changes # {} \/ ui.add # "closed" => ui.kind = "access")
  /\ (net.discover => ui.kind = "neighbors")

\* One read at a time, and a tab that is shown waits for it when it has neither data nor an error.
TabsOne ==
  ~past.overlap =>
    /\ \A q, r \in net.reads : q = r
    /\ net.reads # {} => ui.busy # "none" /\ ~net.discover
    /\ net.discover => ui.busy # "none" /\ (ui.fetched \/ ui.err)
    /\ ui.active => ui.fetched \/ ui.err \/ net.reads # {}

TabsInv == TabsShape /\ TabsKind /\ TabsOne

LEMMA TabsInit == Tabs!Init => TabsInv
<1> SUFFICES ASSUME Tabs!Init PROVE TabsInv
  OBVIOUS
<1>1. /\ DOMAIN ui = TabsUi /\ ui.active = FALSE /\ ui.fetched = FALSE /\ ui.err = FALSE /\ ui.add = "closed"
      /\ ui.kind \in {"plain", "neighbors", "access"}
  BY DEF Tabs!Init, Tabs!Kinds, TabsUi
<1>2. DOMAIN net = {"reads", "changes", "discover"} /\ net.reads = {} /\ net.changes = {} /\ net.discover = FALSE
  BY DEF Tabs!Init
<1>3. DOMAIN past = {"faults", "overlap", "freed", "behind"} /\ past.overlap = FALSE
  BY DEF Tabs!Init
<1> QED BY <1>1, <1>2, <1>3 DEF TabsInv, TabsShape, TabsKind, TabsOne

\* What leaves the reads, the discovery and what is shown of them alone.
LEMMA TabsQuiet ==
  ASSUME TabsInv, DOMAIN ui' = TabsUi, ui'.kind = ui.kind, ui'.active \in BOOLEAN, ui'.active => ui.active, ui'.fetched = ui.fetched,
         ui'.err = ui.err, ui'.busy = ui.busy, DOMAIN net' = DOMAIN net, net'.reads = net.reads, net'.discover = net.discover,
         net'.changes # {} \/ ui'.add # "closed" => ui.kind = "access", DOMAIN past' = DOMAIN past, past'.overlap = past.overlap
  PROVE  TabsInv'
<1>1. TabsShape'
  BY DEF TabsInv, TabsShape
<1>2. TabsKind' /\ TabsOne'
  BY DEF TabsInv, TabsKind, TabsOne
<1> QED BY <1>1, <1>2 DEF TabsInv

\* A read goes out, alone or overlapping another.
LEMMA TabsReads ==
  ASSUME TabsInv, DOMAIN ui' = TabsUi, ui'.kind = ui.kind, ui'.active \in BOOLEAN, ui'.fetched = ui.fetched, ui'.err = FALSE,
         ui'.busy # "none", ui'.add = ui.add, NEW q, DOMAIN net' = DOMAIN net, net'.reads = net.reads \cup {q},
         net'.discover = net.discover, net'.changes \subseteq net.changes,
         DOMAIN past' = DOMAIN past, past'.overlap \in BOOLEAN, ~past'.overlap => ~past.overlap /\ net.reads = {} /\ ~net.discover
  PROVE  TabsInv'
<1>1. TabsShape'
  BY DEF TabsInv, TabsShape
<1>2. TabsKind' /\ TabsOne'
  BY DEF TabsInv, TabsKind, TabsOne
<1> QED BY <1>1, <1>2 DEF TabsInv

LEMMA TabsNext == TabsInv /\ Tabs!Next => TabsInv'
<1> SUFFICES ASSUME TabsInv, Tabs!Next PROVE TabsInv'
  OBVIOUS
<1>0. /\ DOMAIN ui = TabsUi /\ DOMAIN net = {"reads", "changes", "discover"} /\ DOMAIN past = {"faults", "overlap", "freed", "behind"}
      /\ ui.active \in BOOLEAN /\ ui.fetched \in BOOLEAN /\ ui.err \in BOOLEAN /\ past.overlap \in BOOLEAN /\ net.discover \in BOOLEAN
      /\ ui.kind \in {"plain", "neighbors", "access"}
  BY DEF TabsInv, TabsShape
<1>00. /\ net.changes # {} \/ ui.add # "closed" => ui.kind = "access"
       /\ net.discover => ui.kind = "neighbors"
  BY DEF TabsInv, TabsKind
<1>01. ~past.overlap /\ net.discover => ui.busy # "none" /\ (ui.fetched \/ ui.err)
  BY DEF TabsInv, TabsOne
<1>1. CASE Tabs!Show
  <2>1. CASE ui.fetched /\ ui' = [ui EXCEPT !.active = TRUE] /\ UNCHANGED <<net, past>>
    <3>1. /\ DOMAIN ui' = TabsUi /\ ui'.kind = ui.kind /\ ui'.active = TRUE /\ ui'.fetched = TRUE /\ ui'.err = ui.err
          /\ ui'.busy = ui.busy /\ ui'.add = ui.add
      BY <1>0, <2>1 DEF TabsUi
    <3>2. TabsShape'
      BY <1>0, <2>1, <3>1 DEF TabsShape
    <3>3. TabsKind' /\ TabsOne'
      BY <2>1, <3>1 DEF TabsInv, TabsKind, TabsOne
    <3> QED BY <3>2, <3>3 DEF TabsInv
  <2>2. CASE /\ ui' = [Tabs!Refreshing(ui) EXCEPT !.active = TRUE]
             /\ net' = [net EXCEPT !.reads = Tabs!Sent(@, 0, Tabs!None, Tabs!None)]
             /\ past' = [past EXCEPT !.overlap = Tabs!Overlapping \/ net.discover]
    <3>1. /\ DOMAIN ui' = TabsUi /\ ui'.kind = ui.kind /\ ui'.active = TRUE /\ ui'.fetched = ui.fetched /\ ui'.err = FALSE
          /\ ui'.busy # "none" /\ ui'.add = ui.add
      BY <1>0, <2>2 DEF TabsUi, Tabs!Refreshing
    <3>2. PICK q : Tabs!Sent(net.reads, 0, Tabs!None, Tabs!None) = net.reads \cup {q}
      BY DEF Tabs!Sent
    <3>3. DOMAIN net' = DOMAIN net /\ net'.reads = net.reads \cup {q} /\ net'.discover = net.discover /\ net'.changes = net.changes
      BY <1>0, <2>2, <3>2
    <3>4. DOMAIN past' = DOMAIN past /\ past'.overlap = (past.overlap \/ net.reads # {} \/ net.discover)
      BY <1>0, <2>2 DEF Tabs!Overlapping
    <3> QED BY <1>0, <3>1, <3>3, <3>4, TabsReads
  <2> QED BY <1>1, <2>1, <2>2 DEF Tabs!Show
<1>2. CASE Tabs!Hide
  <2>1. /\ DOMAIN ui' = TabsUi /\ ui'.kind = ui.kind /\ ui'.active = FALSE /\ ui'.fetched = ui.fetched /\ ui'.err = ui.err
        /\ ui'.busy = ui.busy /\ ui'.add = ui.add /\ net' = net /\ past' = past
    BY <1>0, <1>2 DEF TabsUi, Tabs!Hide
  <2> QED BY <1>00, <2>1, TabsQuiet
<1>3. ASSUME Tabs!Refresh \/ Tabs!LoadMore PROVE TabsInv'
  <2>1. /\ ui.busy = "none" /\ DOMAIN ui' = TabsUi /\ ui'.kind = ui.kind /\ ui'.active = ui.active /\ ui'.fetched = ui.fetched
        /\ ui'.err = FALSE /\ ui'.busy # "none" /\ ui'.add = ui.add
    <3>1. ui.busy = "none" /\ \E b \in {"refresh", "more"} : ui' = [ui EXCEPT !.busy = b, !.err = FALSE]
      BY <1>3 DEF Tabs!Refresh, Tabs!LoadMore, Tabs!Refreshing, Tabs!None
    <3> QED BY <1>0, <3>1 DEF TabsUi
  <2>2. PICK o : net' = [net EXCEPT !.reads = Tabs!Sent(@, o, Tabs!None, Tabs!None)]
    BY <1>3 DEF Tabs!Refresh, Tabs!LoadMore
  <2>3. PICK q : Tabs!Sent(net.reads, o, Tabs!None, Tabs!None) = net.reads \cup {q}
    BY DEF Tabs!Sent
  <2>4. DOMAIN net' = DOMAIN net /\ net'.reads = net.reads \cup {q} /\ net'.discover = net.discover /\ net'.changes = net.changes
    BY <1>0, <2>2, <2>3
  <2>5. DOMAIN past' = DOMAIN past /\ past'.overlap = (past.overlap \/ net.reads # {})
    BY <1>0, <1>3 DEF Tabs!Refresh, Tabs!LoadMore, Tabs!Overlapping
  <2> QED BY <1>0, <1>01, <2>1, <2>4, <2>5, TabsReads
<1>4. CASE Tabs!Discover
  <2>1. /\ ui.busy = "none" /\ ui.active /\ ui.kind = "neighbors" /\ DOMAIN ui' = TabsUi /\ ui'.kind = ui.kind /\ ui'.active = ui.active
        /\ ui'.fetched = ui.fetched /\ ui'.err = ui.err /\ ui'.busy = "discover" /\ ui'.add = ui.add /\ past' = past
    BY <1>0, <1>4 DEF TabsUi, Tabs!Discover, Tabs!None
  <2>2. DOMAIN net' = DOMAIN net /\ net'.reads = net.reads /\ net'.discover = TRUE /\ net'.changes = net.changes
    BY <1>0, <1>4 DEF Tabs!Discover
  <2>3. TabsShape'
    BY <1>0, <2>1, <2>2 DEF TabsShape
  <2>4. TabsKind' /\ TabsOne'
    BY <2>1, <2>2 DEF TabsInv, TabsKind, TabsOne
  <2> QED BY <2>3, <2>4 DEF TabsInv
<1>5. CASE Tabs!DiscoverLands
  <2>1. /\ net.discover /\ DOMAIN ui' = TabsUi /\ ui'.kind = ui.kind /\ ui'.active = ui.active /\ ui'.fetched = ui.fetched
        /\ ui'.err = ui.err /\ ui'.add = ui.add /\ DOMAIN past' = DOMAIN past /\ past'.overlap = past.overlap
    BY <1>0, <1>5 DEF TabsUi, Tabs!DiscoverLands
  <2>2. DOMAIN net' = DOMAIN net /\ net'.reads = net.reads /\ net'.discover = FALSE /\ net'.changes = net.changes
    BY <1>0, <1>5 DEF Tabs!DiscoverLands
  <2>3. TabsShape'
    BY <1>0, <2>1, <2>2 DEF TabsShape
  <2>4. TabsKind' /\ TabsOne'
    BY <2>1, <2>2 DEF TabsInv, TabsKind, TabsOne
  <2> QED BY <2>3, <2>4 DEF TabsInv
<1>6. CASE Tabs!NeighborFound \/ Tabs!Pushed \/ Tabs!OpenAdd \/ Tabs!CloseAdd
  <2>1. /\ DOMAIN ui' = TabsUi /\ ui'.kind = ui.kind /\ ui'.active = ui.active /\ ui'.fetched = ui.fetched /\ ui'.err = ui.err
        /\ ui'.busy = ui.busy /\ (ui'.add # ui.add => ui'.add = "closed" \/ ui.kind = "access") /\ net' = net /\ past' = past
    BY <1>0, <1>6 DEF TabsUi, Tabs!NeighborFound, Tabs!Pushed, Tabs!OpenAdd, Tabs!CloseAdd
  <2> QED BY <1>0, <1>00, <2>1, TabsQuiet
<1>7. ASSUME NEW r \in net.reads, Tabs!Serve(r) PROVE TabsInv'
  <2>1. PICK a : ui' = ui /\ net' = [net EXCEPT !.reads = (@ \ {r}) \cup {a}]
    BY <1>7 DEF Tabs!Serve
  <2>2. DOMAIN past' = DOMAIN past /\ past'.overlap = past.overlap
    BY <1>0, <1>7 DEF Tabs!Serve
  <2>3. DOMAIN net' = DOMAIN net /\ net'.reads = (net.reads \ {r}) \cup {a} /\ net'.discover = net.discover /\ net'.changes = net.changes
    BY <1>0, <2>1
  <2>4. TabsShape' /\ TabsKind'
    BY <1>0, <1>00, <2>1, <2>2, <2>3 DEF TabsShape, TabsKind
  <2>5. TabsOne'
    BY <2>1, <2>2, <2>3 DEF TabsInv, TabsOne
  <2> QED BY <2>4, <2>5 DEF TabsInv
<1>8. ASSUME NEW r \in net.reads, Tabs!Land(r) PROVE TabsInv'
  <2> DEFINE e == Tabs!Ended(ui, r.after, r.via)
             u == [e EXCEPT !.busy = "none"]
  <2>1. ui' = (IF r.got = "ok" THEN Tabs!Read1(u, r) ELSE [u EXCEPT !.err = TRUE])
    BY <1>8 DEF Tabs!Land, Tabs!None
  <2>2. /\ DOMAIN e = TabsUi /\ e.kind = ui.kind /\ e.active = ui.active /\ e.fetched = ui.fetched /\ e.err = ui.err
        /\ e.add \in {ui.add, "closed"}
    BY <1>0 DEF TabsUi, Tabs!Ended
  <2> HIDE DEF e
  <2>3. /\ DOMAIN u = TabsUi /\ u.kind = ui.kind /\ u.active = ui.active /\ u.fetched = ui.fetched /\ u.err = ui.err
        /\ u.add \in {ui.add, "closed"}
    BY <2>2 DEF TabsUi
  <2> HIDE DEF u
  <2>4. \E p, l, t : ui' \in {[u EXCEPT !.err = TRUE], [u EXCEPT !.fetched = TRUE], [u EXCEPT !.fetched = TRUE, !.entries = l],
                           [u EXCEPT !.fetched = TRUE, !.total = t, !.pages = p]}
    <3>1. CASE r.got # "ok"
      BY <2>1, <3>1
    <3>2. CASE r.got = "ok" /\ ui.kind = "plain"
      <4>1. ui' = [u EXCEPT !.fetched = TRUE]
        BY <2>1, <3>2 DEF Tabs!Read1
      <4> QED BY <4>1
    <3>3. CASE r.got = "ok" /\ ui.kind = "access"
      <4>1. ui' = [u EXCEPT !.fetched = TRUE, !.entries = r.list]
        BY <2>1, <3>3 DEF Tabs!Read1
      <4> QED BY <4>1
    <3>4. CASE r.got = "ok" /\ ui.kind = "neighbors"
      <4>1. \E p : ui' = [u EXCEPT !.fetched = TRUE, !.total = r.total, !.pages = p]
        BY <2>1, <3>4 DEF Tabs!Read1
      <4> QED BY <4>1
    <3> QED BY <1>0, <3>1, <3>2, <3>3, <3>4
  <2>5. /\ DOMAIN ui' = TabsUi /\ ui'.kind = ui.kind /\ ui'.active = ui.active /\ ui'.fetched \in BOOLEAN /\ ui'.err \in BOOLEAN
        /\ (ui.fetched => ui'.fetched) /\ (ui'.fetched \/ ui'.err) /\ ui'.add \in {ui.add, "closed"}
    <3>1. PICK p, l, t : ui' \in {[u EXCEPT !.err = TRUE], [u EXCEPT !.fetched = TRUE], [u EXCEPT !.fetched = TRUE, !.entries = l],
                           [u EXCEPT !.fetched = TRUE, !.total = t, !.pages = p]}
      BY <2>4
    <3>2. u.fetched \in BOOLEAN /\ u.err \in BOOLEAN
      BY <1>0, <2>3 DEF TabsShape
    <3>3. /\ DOMAIN ui' = TabsUi /\ ui'.kind = u.kind /\ ui'.active = u.active /\ ui'.add = u.add
          /\ ui'.err \in {u.err, TRUE} /\ ui'.fetched \in {u.fetched, TRUE} /\ (ui'.fetched = TRUE \/ ui'.err = TRUE)
      BY <2>3, <3>1 DEF TabsUi
    <3> QED BY <2>3, <3>2, <3>3
  <2>6. /\ DOMAIN net' = DOMAIN net /\ net'.reads = net.reads \ {r} /\ net'.discover = net.discover /\ net'.changes = net.changes
        /\ DOMAIN past' = DOMAIN past /\ past'.overlap = past.overlap
    BY <1>0, <1>8 DEF Tabs!Land
  <2>7. TabsShape' /\ TabsKind'
    BY <1>0, <1>00, <2>1, <2>5, <2>6 DEF TabsShape, TabsKind
  <2>8. TabsOne'
    BY <2>1, <2>5, <2>6 DEF TabsInv, TabsOne
  <2> QED BY <2>7, <2>8 DEF TabsInv
<1>9. ASSUME NEW k, NEW p, Tabs!Remove(k) \/ Tabs!SetPerm(k, p) \/ Tabs!Add(k, p) PROVE TabsInv'
  <2>1. ui.kind = "access"
    BY <1>00, <1>9 DEF Tabs!Remove, Tabs!SetPerm, Tabs!Add, Tabs!Row
  <2>2. PICK u, c : /\ u \in {ui, [ui EXCEPT !.add = "sending"]} /\ ui' = [u EXCEPT !.busyKey = k] /\ past' = past
                    /\ net' = [net EXCEPT !.changes = @ \cup {c}]
    BY <1>9 DEF Tabs!Remove, Tabs!SetPerm, Tabs!Add, Tabs!Begin
  <2>3. /\ DOMAIN u = TabsUi /\ u.kind = ui.kind /\ u.active = ui.active /\ u.fetched = ui.fetched /\ u.err = ui.err /\ u.busy = ui.busy
    BY <1>0, <2>2 DEF TabsUi
  <2>4. /\ DOMAIN ui' = TabsUi /\ ui'.kind = ui.kind /\ ui'.active = ui.active /\ ui'.fetched = ui.fetched /\ ui'.err = ui.err /\ ui'.busy = ui.busy
    BY <2>2, <2>3 DEF TabsUi
  <2>5. DOMAIN net' = DOMAIN net /\ net'.reads = net.reads /\ net'.discover = net.discover
    BY <1>0, <2>2
  <2> QED BY <1>0, <2>1, <2>2, <2>4, <2>5, TabsQuiet
<1>10. ASSUME NEW c \in net.changes, Tabs!ChangeLands(c) PROVE TabsInv'
  <2>1. CASE /\ ui' = Tabs!Refreshing(ui) /\ past' = [past EXCEPT !.overlap = Tabs!Overlapping]
             /\ net' = [net EXCEPT !.changes = @ \ {c}, !.reads = Tabs!Sent(@, 0, c.key, c.via)]
    <3>1. /\ DOMAIN ui' = TabsUi /\ ui'.kind = ui.kind /\ ui'.active = ui.active /\ ui'.fetched = ui.fetched /\ ui'.err = FALSE
          /\ ui'.busy # "none" /\ ui'.add = ui.add
      BY <1>0, <2>1 DEF TabsUi, Tabs!Refreshing
    <3>2. PICK q : Tabs!Sent(net.reads, 0, c.key, c.via) = net.reads \cup {q}
      BY DEF Tabs!Sent
    <3>3. /\ DOMAIN net' = DOMAIN net /\ net'.reads = net.reads \cup {q} /\ net'.discover = net.discover
          /\ net'.changes = net.changes \ {c}
      BY <1>0, <2>1, <3>2
    <3>4. DOMAIN past' = DOMAIN past /\ past'.overlap = (past.overlap \/ net.reads # {})
      BY <1>0, <2>1 DEF Tabs!Overlapping
    <3>5. ~net.discover
      BY <1>00
    <3> QED BY <1>0, <3>1, <3>3, <3>4, <3>5, TabsReads
  <2>2. CASE /\ ui' = Tabs!Ended(ui, c.key, c.via) /\ net' = [net EXCEPT !.changes = @ \ {c}]
             /\ (past' = [past EXCEPT !.faults = @ + 1] \/ past' = [past EXCEPT !.faults = @ + 1, !.behind = TRUE])
    <3>1. /\ DOMAIN ui' = TabsUi /\ ui'.kind = ui.kind /\ ui'.active = ui.active /\ ui'.fetched = ui.fetched /\ ui'.err = ui.err
          /\ ui'.busy = ui.busy
      BY <1>0, <2>2 DEF TabsUi, Tabs!Ended
    <3>2. DOMAIN net' = DOMAIN net /\ net'.reads = net.reads /\ net'.discover = net.discover
      BY <1>0, <2>2
    <3>3. DOMAIN past' = DOMAIN past /\ past'.overlap = past.overlap
      BY <1>0, <2>2
    <3>4. ui.kind = "access"
      BY <1>00
    <3> QED BY <1>0, <3>1, <3>2, <3>3, <3>4, TabsQuiet
  <2> QED BY <1>10, <2>1, <2>2 DEF Tabs!ChangeLands
<1> QED BY <1>1, <1>2, <1>3, <1>4, <1>5, <1>6, <1>7, <1>8, <1>9, <1>10 DEF Tabs!Next

LEMMA TabsStutters == TabsInv /\ UNCHANGED <<ui, net, srv, past>> => TabsInv'
BY DEF TabsInv, TabsShape, TabsKind, TabsOne

LEMMA TabsKeeps == TabsInv => Tabs!NeverBlank
BY DEF TabsInv, TabsOne, TabsShape, Tabs!NeverBlank, Tabs!None

-----------------------------------------------------------------------------
(* A repeater that runs.                                                   *)

LiveUi == {"running", "stats", "neighbors", "acl", "refreshing", "tab", "busy", "doing", "cooling"}
LiveNet == {"rep", "polls", "ops", "pushes", "commands", "soon"}
LivePoll(p) == DOMAIN p = {"asked", "got", "stats", "neighbors", "acl"}
LivePolls(polls) == DOMAIN polls = 1..More /\ \A i \in 1..More : LivePoll(polls[i])
LiveShape ==
  /\ DOMAIN ui = LiveUi /\ DOMAIN net = LiveNet /\ LivePolls(net.polls) /\ ui.running \in BOOLEAN /\ ui.refreshing \in BOOLEAN
  /\ DOMAIN past = {"changes", "faults", "late"} /\ past.late \in BOOLEAN

\* A repeater seen stopped shows nothing, unless a refresh landed after; the three signs of a wait stand for a refresh, a
\* command and an operation that are under way.
LiveStopped(u, late) == ~u.running /\ ~late => u.acl = {} /\ ~u.stats
LiveRefreshes(u, polls) == u.refreshing => \E i \in 1..More : polls[i].asked
LiveDoes(u, commands) == u.doing # "none" => u.doing \in commands /\ u.doing # "clear"
LiveBusy(u, ops) == u.busy # "none" => \E op \in ops : op.client = u.busy /\ op.mine

LiveInv ==
  LiveShape /\ LiveStopped(ui, past.late) /\ LiveRefreshes(ui, net.polls) /\ LiveDoes(ui, net.commands) /\ LiveBusy(ui, net.ops)

LEMMA LiveFree == LivePoll(Live!Free) /\ LivePoll([Live!Free EXCEPT !.asked = TRUE]) /\ [Live!Free EXCEPT !.asked = TRUE].asked
BY DEF LivePoll, Live!Free

LEMMA LiveInit == Live!Init => LiveInv
<1> SUFFICES ASSUME Live!Init PROVE LiveInv
  OBVIOUS
<1>1. /\ DOMAIN ui = LiveUi /\ ui.running = FALSE /\ ui.acl = {} /\ ui.stats = FALSE /\ ui.refreshing = FALSE /\ ui.doing = "none"
      /\ ui.busy = "none"
  BY DEF Live!Init, Live!None, LiveUi
<1>2. DOMAIN net = LiveNet /\ net.polls = [i \in 1..More |-> Live!Free]
  BY DEF Live!Init, LiveNet
<1>3. LivePolls(net.polls)
  BY <1>2, LiveFree DEF LivePolls
<1>4. DOMAIN past = {"changes", "faults", "late"} /\ past.late = FALSE
  BY DEF Live!Init
<1> QED BY <1>1, <1>2, <1>3, <1>4 DEF LiveInv, LiveShape, LiveStopped, LiveRefreshes, LiveDoes, LiveBusy

\* A refresh takes an idle poll when there is one; either way one is under way.
LEMMA LiveRefreshing ==
  ASSUME NEW n, DOMAIN n = LiveNet, LivePolls(n.polls), More \in Nat \ {0}
  PROVE  LET m == Live!RefreshLive(n) IN
         /\ DOMAIN m = LiveNet /\ LivePolls(m.polls) /\ m.rep = n.rep /\ m.ops = n.ops /\ m.commands = n.commands
         /\ \E i \in 1..More : m.polls[i].asked
<1>1. CASE Live!Idle(n) = {}
  <2>1. Live!RefreshLive(n) = n
    BY <1>1 DEF Live!RefreshLive
  <2>2. 1 \in 1..More
    OBVIOUS
  <2>3. n.polls[1].asked
    BY <1>1, <2>2 DEF Live!Idle
  <2> QED BY <2>1, <2>2, <2>3
<1>2. CASE Live!Idle(n) # {}
  <2> DEFINE j == CHOOSE i \in Live!Idle(n) : TRUE
             p == [Live!Free EXCEPT !.asked = TRUE]
  <2>1. j \in 1..More
    BY <1>2 DEF Live!Idle
  <2>2. Live!RefreshLive(n) = [n EXCEPT !.polls[j] = p]
    BY <1>2 DEF Live!RefreshLive
  <2>3. LivePoll(p) /\ p.asked
    BY LiveFree
  <2> HIDE DEF j, p
  <2> DEFINE m == [n EXCEPT !.polls[j] = p]
  <2>4. DOMAIN m = LiveNet /\ m.polls = [n.polls EXCEPT ![j] = p] /\ m.rep = n.rep /\ m.ops = n.ops /\ m.commands = n.commands
    BY DEF LiveNet
  <2> HIDE DEF m
  <2>5. LivePolls(m.polls) /\ m.polls[j].asked
    BY <2>1, <2>3, <2>4 DEF LivePolls
  <2> QED BY <2>1, <2>2, <2>4, <2>5 DEF m
<1> QED BY <1>1, <1>2

\* What refreshes the page, and otherwise ends or begins a wait.
LEMMA LiveRefreshed ==
  ASSUME LiveInv, NEW u, NEW n, ui' = [u EXCEPT !.refreshing = TRUE], net' = Live!RefreshLive(n), DOMAIN u = LiveUi, u.running \in BOOLEAN,
         DOMAIN n = LiveNet, LivePolls(n.polls), LiveStopped(u, past.late), LiveDoes(u, n.commands), LiveBusy(u, n.ops), past' = past
  PROVE  LiveInv'
<1>1. /\ DOMAIN net' = LiveNet /\ LivePolls(net'.polls) /\ net'.ops = n.ops /\ net'.commands = n.commands
      /\ \E i \in 1..More : net'.polls[i].asked
  BY LiveRefreshing, BoundsAssumption
<1>2. /\ DOMAIN ui' = LiveUi /\ ui'.running = u.running /\ ui'.acl = u.acl /\ ui'.stats = u.stats /\ ui'.refreshing = TRUE
      /\ ui'.doing = u.doing /\ ui'.busy = u.busy
  BY DEF LiveUi
<1>3. LiveShape'
  BY <1>1, <1>2 DEF LiveInv, LiveShape
<1>4. /\ LiveStopped(ui', past'.late) /\ LiveRefreshes(ui', net'.polls) /\ LiveDoes(ui', net'.commands) /\ LiveBusy(ui', net'.ops)
  BY <1>1, <1>2 DEF LiveInv, LiveStopped, LiveRefreshes, LiveDoes, LiveBusy
<1> QED BY <1>3, <1>4 DEF LiveInv, LiveStopped, LiveRefreshes, LiveDoes, LiveBusy

\* What leaves the polls alone.
LEMMA LiveQuiet ==
  ASSUME LiveInv, DOMAIN ui' = LiveUi, DOMAIN net' = LiveNet, ui'.running \in BOOLEAN, ui'.refreshing = ui.refreshing,
         LivePolls(net'.polls), \A i \in 1..More : net.polls[i].asked => net'.polls[i].asked,
         DOMAIN past' = DOMAIN past, past'.late = past.late,
         LiveStopped(ui', past.late), LiveDoes(ui', net'.commands), LiveBusy(ui', net'.ops)
  PROVE  LiveInv'
<1>1. LiveShape'
  BY DEF LiveInv, LiveShape
<1>2. LiveRefreshes(ui', net'.polls)
  BY DEF LiveInv, LiveRefreshes
<1> QED BY <1>1, <1>2 DEF LiveInv, LiveStopped, LiveRefreshes, LiveDoes, LiveBusy

LEMMA LiveNext == LiveInv /\ Live!Next => LiveInv'
<1> SUFFICES ASSUME LiveInv, Live!Next PROVE LiveInv'
  OBVIOUS
<1>0. /\ DOMAIN ui = LiveUi /\ DOMAIN net = LiveNet /\ LivePolls(net.polls) /\ ui.running \in BOOLEAN /\ ui.refreshing \in BOOLEAN
      /\ DOMAIN past = {"changes", "faults", "late"} /\ past.late \in BOOLEAN
  BY DEF LiveInv, LiveShape
<1>00. LiveStopped(ui, past.late) /\ LiveRefreshes(ui, net.polls) /\ LiveDoes(ui, net.commands) /\ LiveBusy(ui, net.ops)
  BY DEF LiveInv
<1>1. CASE Live!Tick
  <2>1. ui' = [ui EXCEPT !.refreshing = TRUE] /\ net' = Live!RefreshLive(net) /\ past' = past
    BY <1>1 DEF Live!Tick, Live!Refresh
  <2> QED BY <1>0, <1>00, <2>1, LiveRefreshed
<1>2. CASE Live!Reload \/ Live!RepServed
  <2>1. PICK r : ui' = ui /\ past' = past /\ net' = [net EXCEPT !.rep = r]
    BY <1>2 DEF Live!Reload, Live!RepServed
  <2>2. DOMAIN net' = LiveNet /\ net'.polls = net.polls /\ net'.commands = net.commands /\ net'.ops = net.ops
    BY <1>0, <2>1 DEF LiveNet
  <2> QED BY <1>0, <1>00, <2>1, <2>2, LiveQuiet
<1>3. CASE Live!RepLands
  <2> DEFINE over == [net EXCEPT !.rep = Live!None]
             seen == [ui EXCEPT !.running = TRUE]
  <2>1. /\ past' = past
        /\ \/ ui' = ui /\ net' = over
           \/ ui' = [seen EXCEPT !.refreshing = TRUE] /\ net' = Live!RefreshLive(over)
           \/ net' = over /\ ui' = [ui EXCEPT !.running = FALSE, !.stats = FALSE, !.neighbors = {}, !.acl = {}]
    BY <1>3 DEF Live!RepLands, Live!Refresh
  <2>2. DOMAIN over = LiveNet /\ over.polls = net.polls /\ over.commands = net.commands /\ over.ops = net.ops
    BY <1>0 DEF LiveNet
  <2>3. /\ DOMAIN seen = LiveUi /\ seen.running = TRUE /\ seen.doing = ui.doing /\ seen.busy = ui.busy
    BY <1>0 DEF LiveUi
  <2> HIDE DEF over, seen
  <2>4. CASE ui' = ui /\ net' = over
    BY <1>0, <1>00, <2>1, <2>2, <2>4, LiveQuiet
  <2>5. CASE ui' = [seen EXCEPT !.refreshing = TRUE] /\ net' = Live!RefreshLive(over)
    <3>1. LiveStopped(seen, past.late) /\ LiveDoes(seen, over.commands) /\ LiveBusy(seen, over.ops)
      BY <1>00, <2>2, <2>3 DEF LiveStopped, LiveDoes, LiveBusy
    <3> QED BY <1>0, <2>1, <2>2, <2>3, <2>5, <3>1, LiveRefreshed
  <2>6. CASE net' = over /\ ui' = [ui EXCEPT !.running = FALSE, !.stats = FALSE, !.neighbors = {}, !.acl = {}]
    <3>1. /\ DOMAIN ui' = LiveUi /\ ui'.running = FALSE /\ ui'.stats = FALSE /\ ui'.acl = {} /\ ui'.refreshing = ui.refreshing
          /\ ui'.doing = ui.doing /\ ui'.busy = ui.busy
      BY <1>0, <2>6 DEF LiveUi
    <3>2. LiveStopped(ui', past.late) /\ LiveDoes(ui', net'.commands) /\ LiveBusy(ui', net'.ops)
      BY <1>00, <2>2, <2>6, <3>1 DEF LiveStopped, LiveDoes, LiveBusy
    <3> QED BY <1>0, <2>1, <2>2, <2>6, <3>1, <3>2, LiveQuiet
  <2> QED BY <2>1, <2>4, <2>5, <2>6
<1>4. CASE Live!OnWsNeighbor
  <2>1. /\ DOMAIN ui' = LiveUi /\ ui'.running = ui.running /\ ui'.stats = ui.stats /\ ui'.acl = ui.acl /\ ui'.refreshing = ui.refreshing
        /\ ui'.doing = ui.doing /\ ui'.busy = ui.busy /\ past' = past
    BY <1>0, <1>4 DEF Live!OnWsNeighbor, LiveUi
  <2>2. DOMAIN net' = LiveNet /\ net'.polls = net.polls /\ net'.commands = net.commands /\ net'.ops = net.ops
    BY <1>0, <1>4 DEF Live!OnWsNeighbor, LiveNet
  <2>3. LiveStopped(ui', past.late) /\ LiveDoes(ui', net'.commands) /\ LiveBusy(ui', net'.ops)
    BY <1>00, <2>1, <2>2 DEF LiveStopped, LiveDoes, LiveBusy
  <2> QED BY <1>0, <2>1, <2>2, <2>3, LiveQuiet
<1>5. ASSUME NEW n, Live!StartOrStop \/ Live!Admit(n) \/ Live!HearNeighbor(n) PROVE LiveInv'
  <2>1. /\ ui' = ui /\ DOMAIN net' = LiveNet /\ net'.polls = net.polls /\ net'.commands = net.commands /\ net'.ops = net.ops
        /\ past' = [past EXCEPT !.changes = @ + 1]
    BY <1>0, <1>5 DEF Live!StartOrStop, Live!Admit, Live!HearNeighbor, Live!Changed, LiveNet
  <2>2. DOMAIN past' = DOMAIN past /\ past'.late = past.late
    BY <1>0, <2>1
  <2> QED BY <1>0, <1>00, <2>1, <2>2, LiveQuiet
<1>6. ASSUME NEW d, NEW command, Live!Tell(command), ui' = [ui EXCEPT !.doing = d], d = command, d # "clear" PROVE LiveInv'
  <2>1. /\ DOMAIN ui' = LiveUi /\ ui'.running = ui.running /\ ui'.stats = ui.stats /\ ui'.acl = ui.acl /\ ui'.refreshing = ui.refreshing
        /\ ui'.doing = d /\ ui'.busy = ui.busy
    BY <1>0, <1>6 DEF LiveUi
  <2>2. /\ DOMAIN net' = LiveNet /\ net'.polls = net.polls /\ net'.commands = net.commands \cup {command} /\ net'.ops = net.ops
    BY <1>0, <1>6 DEF Live!Tell, LiveNet
  <2>3. DOMAIN past' = DOMAIN past /\ past'.late = past.late
    BY <1>0, <1>6 DEF Live!Tell, Live!Changed
  <2>4. LiveStopped(ui', past.late) /\ LiveDoes(ui', net'.commands) /\ LiveBusy(ui', net'.ops)
    BY <1>00, <1>6, <2>1, <2>2 DEF LiveStopped, LiveDoes, LiveBusy
  <2> QED BY <1>0, <2>1, <2>2, <2>3, <2>4, LiveQuiet
<1>7. CASE Live!AskClear \/ Live!ClearStats \/ Live!CooledDown
  <2>1. /\ DOMAIN ui' = LiveUi /\ ui'.running = ui.running /\ ui'.stats = ui.stats /\ ui'.acl = ui.acl /\ ui'.refreshing = ui.refreshing
        /\ ui'.doing = ui.doing /\ ui'.busy = ui.busy
    BY <1>0, <1>7 DEF Live!AskClear, Live!ClearStats, Live!CooledDown, LiveUi
  <2>2. /\ DOMAIN net' = LiveNet /\ net'.polls = net.polls /\ net.commands \subseteq net'.commands /\ net'.ops = net.ops
    BY <1>0, <1>7 DEF Live!AskClear, Live!ClearStats, Live!CooledDown, Live!Tell, LiveNet
  <2>3. DOMAIN past' = DOMAIN past /\ past'.late = past.late
    BY <1>0, <1>7 DEF Live!AskClear, Live!ClearStats, Live!CooledDown, Live!Tell, Live!Changed
  <2>4. LiveStopped(ui', past.late) /\ LiveDoes(ui', net'.commands) /\ LiveBusy(ui', net'.ops)
    BY <1>00, <2>1, <2>2 DEF LiveStopped, LiveDoes, LiveBusy
  <2> QED BY <1>0, <2>1, <2>2, <2>3, <2>4, LiveQuiet
<1>8. CASE Live!SoonFires
  <2> DEFINE n == [net EXCEPT !.soon = FALSE]
  <2>1. ui' = [ui EXCEPT !.refreshing = TRUE] /\ net' = Live!RefreshLive(n) /\ past' = past
    BY <1>8 DEF Live!SoonFires, Live!Refresh
  <2>2. DOMAIN n = LiveNet /\ n.polls = net.polls /\ n.commands = net.commands /\ n.ops = net.ops
    BY <1>0 DEF LiveNet
  <2> HIDE DEF n
  <2> QED BY <1>0, <1>00, <2>1, <2>2, LiveRefreshed
<1>9. ASSUME NEW tab, Live!SwitchTab(tab) PROVE LiveInv'
  <2>1. /\ DOMAIN ui' = LiveUi /\ ui'.running = ui.running /\ ui'.stats = ui.stats /\ ui'.acl = ui.acl /\ ui'.refreshing = ui.refreshing
        /\ ui'.doing = ui.doing /\ ui'.busy = "none" /\ past' = past
    BY <1>0, <1>9 DEF Live!SwitchTab, Live!None, LiveUi
  <2>2. PICK ops : net' = [net EXCEPT !.ops = ops]
    BY <1>9 DEF Live!SwitchTab
  <2>3. DOMAIN net' = LiveNet /\ net'.polls = net.polls /\ net'.commands = net.commands
    BY <1>0, <2>2 DEF LiveNet
  <2>4. LiveStopped(ui', past.late) /\ LiveDoes(ui', net'.commands) /\ LiveBusy(ui', net'.ops)
    BY <1>00, <2>1, <2>3 DEF LiveStopped, LiveDoes, LiveBusy
  <2> QED BY <1>0, <2>1, <2>3, <2>4, LiveQuiet
<1>10. ASSUME NEW command \in {"advert", "discover", "clear"}, Live!CommandLands(command) PROVE LiveInv'
  <2> DEFINE u == IF command = "clear" THEN ui ELSE [ui EXCEPT !.doing = "none"]
             over == [net EXCEPT !.commands = @ \ {command}]
  <2>1. /\ \/ ui' = u /\ net' = over
           \/ ui' = u /\ net' = [over EXCEPT !.soon = TRUE]
           \/ ui' = [u EXCEPT !.cooling = TRUE] /\ net' = over
           \/ command = "clear" /\ ui' = [u EXCEPT !.refreshing = TRUE] /\ net' = Live!RefreshLive(over)
        /\ past' = past \/ past' = [past EXCEPT !.faults = @ + 1]
        /\ command = "clear" /\ past' # past => ui' = u /\ net' = over
    BY <1>10 DEF Live!CommandLands, Live!Fails, Live!Succeeds, Live!Spent, Live!Refresh, Live!None
  <2>2. DOMAIN over = LiveNet /\ over.polls = net.polls /\ over.commands = net.commands \ {command} /\ over.ops = net.ops
    BY <1>0 DEF LiveNet
  <2>3. /\ DOMAIN u = LiveUi /\ u.running = ui.running /\ u.stats = ui.stats /\ u.acl = ui.acl /\ u.refreshing = ui.refreshing
        /\ u.doing = (IF command = "clear" THEN ui.doing ELSE "none") /\ u.busy = ui.busy
    BY <1>0 DEF LiveUi
  <2> HIDE DEF u, over
  <2>4. LiveStopped(u, past.late) /\ LiveDoes(u, over.commands) /\ LiveBusy(u, over.ops)
    BY <1>00, <2>2, <2>3 DEF LiveStopped, LiveDoes, LiveBusy
  <2>5. DOMAIN past' = DOMAIN past /\ past'.late = past.late
    BY <1>0, <2>1
  <2>6. CASE ui' \in {u, [u EXCEPT !.cooling = TRUE]} /\ net' \in {over, [over EXCEPT !.soon = TRUE]}
    <3>1. /\ DOMAIN ui' = LiveUi /\ ui'.running = u.running /\ ui'.stats = u.stats /\ ui'.acl = u.acl /\ ui'.refreshing = u.refreshing
          /\ ui'.doing = u.doing /\ ui'.busy = u.busy
      BY <2>3, <2>6 DEF LiveUi
    <3>2. DOMAIN net' = LiveNet /\ net'.polls = over.polls /\ net'.commands = over.commands /\ net'.ops = over.ops
      BY <2>2, <2>6 DEF LiveNet
    <3>3. LiveStopped(ui', past.late) /\ LiveDoes(ui', net'.commands) /\ LiveBusy(ui', net'.ops)
      BY <2>4, <3>1, <3>2 DEF LiveStopped, LiveDoes, LiveBusy
    <3> QED BY <1>0, <2>2, <2>3, <2>5, <3>1, <3>2, <3>3, LiveQuiet
  <2>7. CASE command = "clear" /\ ui' = [u EXCEPT !.refreshing = TRUE] /\ net' = Live!RefreshLive(over) /\ past' = past
    BY <1>0, <2>2, <2>3, <2>4, <2>7, LiveRefreshed
  <2> QED BY <2>1, <2>6, <2>7
<1>11. ASSUME NEW i \in 1..More, Live!RefreshLands(i) PROVE LiveInv'
  <2>1. /\ DOMAIN ui' = LiveUi /\ ui'.running = ui.running /\ ui'.refreshing = FALSE /\ ui'.doing = ui.doing /\ ui'.busy = ui.busy
    BY <1>0, <1>11 DEF Live!RefreshLands, LiveUi
  <2>2. /\ DOMAIN net' = LiveNet /\ net'.polls = [net.polls EXCEPT ![i] = Live!Free] /\ net'.commands = net.commands
        /\ net'.ops = net.ops
    BY <1>0, <1>11 DEF Live!RefreshLands, LiveNet
  <2>3. DOMAIN past' = DOMAIN past /\ past'.late = (past.late \/ ~ui.running)
    BY <1>0, <1>11 DEF Live!RefreshLands
  <2>4. LivePolls(net'.polls)
    BY <1>0, <2>2, LiveFree DEF LivePolls
  <2>5. LiveShape'
    BY <1>0, <2>1, <2>2, <2>3, <2>4 DEF LiveShape
  <2>6. LiveStopped(ui', past'.late) /\ LiveRefreshes(ui', net'.polls) /\ LiveDoes(ui', net'.commands) /\ LiveBusy(ui', net'.ops)
    BY <1>00, <2>1, <2>2, <2>3 DEF LiveStopped, LiveRefreshes, LiveDoes, LiveBusy
  <2> QED BY <2>5, <2>6 DEF LiveInv, LiveStopped, LiveRefreshes, LiveDoes, LiveBusy
<1>12. ASSUME NEW i \in 1..More, NEW read \in {"stats", "neighbors", "acl"}, Live!Serve(i, read) PROVE LiveInv'
  <2>1. PICK p : /\ net' = [net EXCEPT !.polls[i] = p] /\ LivePoll(p) /\ p.asked = net.polls[i].asked
    <3> DEFINE q == net.polls[i]
               g == [q EXCEPT !.got = @ \cup {read}]
               n == [net EXCEPT !.polls[i] = g]
    <3>1. LivePoll(q)
      BY <1>0 DEF LivePolls
    <3>2. LivePoll(g) /\ g.asked = q.asked
      BY <3>1 DEF LivePoll
    <3>3. PICK x : net' = n \/ net' = [n EXCEPT !.polls[i][read] = x]
      BY <1>0, <1>12 DEF Live!Serve, LiveNet
    <3>4. DOMAIN n = LiveNet /\ n.polls = [net.polls EXCEPT ![i] = g] /\ DOMAIN net.polls = 1..More
      BY <1>0 DEF LiveNet, LivePolls
    <3> HIDE DEF g, q
    <3>5. n.polls[i] = g
      BY <3>4
    <3> DEFINE h == [g EXCEPT ![read] = x]
    <3>6. LivePoll(h) /\ h.asked = q.asked
      BY <3>2 DEF LivePoll
    <3>7. CASE net' = n
      BY <3>2, <3>7 DEF q
    <3>8. CASE net' = [n EXCEPT !.polls[i][read] = x]
      <4>1. net' = [net EXCEPT !.polls[i] = h]
        BY <1>0, <3>8 DEF LiveNet, LivePolls
      <4> HIDE DEF h
      <4> QED BY <3>6, <4>1 DEF q
    <3> QED BY <3>3, <3>7, <3>8
  <2>2. ui' = ui /\ DOMAIN past' = DOMAIN past /\ past'.late = past.late
    BY <1>0, <1>12 DEF Live!Serve, Live!Spent
  <2>3. DOMAIN net' = LiveNet /\ net'.polls = [net.polls EXCEPT ![i] = p] /\ net'.commands = net.commands /\ net'.ops = net.ops
    BY <1>0, <2>1 DEF LiveNet
  <2>4. LivePolls(net'.polls) /\ \A k \in 1..More : net.polls[k].asked => net'.polls[k].asked
    BY <1>0, <2>1, <2>3 DEF LivePolls
  <2> QED BY <1>0, <1>00, <2>2, <2>3, <2>4, LiveQuiet
<1>13. ASSUME NEW c \in {"c"}, NEW grant \in BOOLEAN, Live!AclOp(c, grant) PROVE LiveInv'
  <2> DEFINE op == [client |-> c, grant |-> grant, mine |-> TRUE]
  <2>1. /\ DOMAIN ui' = LiveUi /\ ui'.running = ui.running /\ ui'.stats = ui.stats /\ ui'.acl = ui.acl /\ ui'.refreshing = ui.refreshing
        /\ ui'.doing = ui.doing /\ ui'.busy = c
    BY <1>0, <1>13 DEF Live!AclOp, LiveUi
  <2>2. DOMAIN net' = LiveNet /\ net'.polls = net.polls /\ net'.commands = net.commands /\ net'.ops = net.ops \cup {op}
    BY <1>0, <1>13 DEF Live!AclOp, LiveNet
  <2>3. DOMAIN past' = DOMAIN past /\ past'.late = past.late
    BY <1>0, <1>13 DEF Live!AclOp, Live!Changed
  <2>4. op.client = c /\ op.mine
    OBVIOUS
  <2> HIDE DEF op
  <2>5. LiveStopped(ui', past.late) /\ LiveDoes(ui', net'.commands) /\ LiveBusy(ui', net'.ops)
    BY <1>00, <2>1, <2>2, <2>4 DEF LiveStopped, LiveDoes, LiveBusy
  <2> QED BY <1>0, <2>1, <2>2, <2>3, <2>5, LiveQuiet
<1>14. ASSUME NEW op \in net.ops, Live!AclLands(op) PROVE LiveInv'
  <2> DEFINE u == IF op.mine THEN [ui EXCEPT !.busy = "none"] ELSE ui
             over == [net EXCEPT !.ops = @ \ {op}]
  <2>0. past' = past \/ past' = Live!Spent
    BY <1>14 DEF Live!AclLands, Live!Succeeds, Live!Fails
  <2>7. DOMAIN past' = DOMAIN past /\ past'.late = past.late
    BY <1>0, <2>0 DEF Live!Spent
  <2>1. /\ \/ ui' = u /\ net' = over
           \/ ui' = [u EXCEPT !.refreshing = TRUE] /\ net' = Live!RefreshLive(over) /\ past' = past
    BY <1>14 DEF Live!AclLands, Live!Succeeds, Live!Refresh, Live!None
  <2>2. DOMAIN over = LiveNet /\ over.polls = net.polls /\ over.commands = net.commands /\ over.ops = net.ops \ {op}
    BY <1>0 DEF LiveNet
  <2>3. /\ DOMAIN u = LiveUi /\ u.running = ui.running /\ u.stats = ui.stats /\ u.acl = ui.acl /\ u.refreshing = ui.refreshing
        /\ u.doing = ui.doing /\ u.busy = IF op.mine THEN "none" ELSE ui.busy
    BY <1>0 DEF LiveUi
  <2> HIDE DEF u, over
  <2>4. LiveStopped(u, past.late) /\ LiveDoes(u, over.commands) /\ LiveBusy(u, over.ops)
    BY <1>00, <2>2, <2>3 DEF LiveStopped, LiveDoes, LiveBusy
  <2>5. CASE ui' = u /\ net' = over
    BY <1>0, <2>1, <2>2, <2>3, <2>4, <2>5, <2>7, LiveQuiet
  <2>6. CASE ui' = [u EXCEPT !.refreshing = TRUE] /\ net' = Live!RefreshLive(over) /\ past' = past
    BY <1>0, <2>1, <2>2, <2>3, <2>4, <2>6, LiveRefreshed
  <2> QED BY <2>1, <2>5, <2>6
<1>15. CASE Live!Advert \/ Live!Discover
  BY <1>6, <1>15 DEF Live!Advert, Live!Discover
<1> QED BY <1>1, <1>2, <1>3, <1>4, <1>5, <1>7, <1>8, <1>9, <1>10, <1>11, <1>12, <1>13, <1>14, <1>15
        DEF Live!Next, Live!Commands, Live!Reads

LEMMA LiveStutters == LiveInv /\ UNCHANGED <<ui, net, srv, past>> => LiveInv'
BY DEF LiveInv, LiveShape, LivePolls, LivePoll, LiveStopped, LiveRefreshes, LiveDoes, LiveBusy

LEMMA LiveKeeps == LiveInv => Live!StoppedShowsNothing /\ Live!BusyMeansUnderWay
BY DEF LiveInv, LiveStopped, LiveRefreshes, LiveDoes, LiveBusy, Live!StoppedShowsNothing, Live!BusyMeansUnderWay, Live!None

-----------------------------------------------------------------------------
(* The list of peers.                                                      *)

HeardUi == {"items", "filter", "selected", "confirm", "deleting"}
HeardNet == {"read", "pushes", "up", "bulk"}
HeardShape == DOMAIN ui = HeardUi /\ DOMAIN net = HeardNet /\ DOMAIN net.bulk = {"at", "peers"}

\* "deleting" is said exactly while a deletion is under way.
HeardBulk ==
  /\ ui.deleting \in BOOLEAN /\ (ui.deleting => net.bulk.at # "none") /\ (~ui.deleting => net.bulk.at = "none")

HeardInv == HeardShape /\ HeardBulk

LEMMA HeardInit == Heard!Init => HeardInv
<1> SUFFICES ASSUME Heard!Init PROVE HeardInv
  OBVIOUS
<1>1. DOMAIN ui = HeardUi /\ ui.deleting = FALSE
  BY DEF Heard!Init, HeardUi
<1>2. DOMAIN net = HeardNet /\ net.bulk = Heard!NoBulk
  BY DEF Heard!Init, HeardNet
<1>3. DOMAIN net.bulk = {"at", "peers"} /\ net.bulk.at = "none"
  BY <1>2 DEF Heard!NoBulk
<1> QED BY <1>1, <1>2, <1>3 DEF HeardInv, HeardShape, HeardBulk

\* A push is queued, or lost, and leaves the deletion as it was.
LEMMA HeardPushed ==
  ASSUME NEW n, NEW t, NEW x, DOMAIN n = HeardNet, Heard!Pushed(n, t, x)
  PROVE  DOMAIN net' = HeardNet /\ net'.bulk = n.bulk
BY DEF Heard!Pushed, Heard!Overtaken, HeardNet

\* A step keeps the invariant, and ticks only what is in view.
HeardKept == HeardInv' /\ Heard!TicksKept

\* What leaves the ticks and the deletion alone.
LEMMA HeardQuiet ==
  ASSUME HeardInv, DOMAIN ui' = HeardUi, ui'.selected = ui.selected, ui'.deleting = ui.deleting,
         DOMAIN net' = HeardNet, net'.bulk = net.bulk
  PROVE  HeardKept
BY DEF HeardInv, HeardShape, HeardBulk, HeardKept, Heard!TicksKept

LEMMA HeardNext == HeardInv /\ Heard!Next => HeardKept
<1> SUFFICES ASSUME HeardInv, Heard!Next PROVE HeardKept
  OBVIOUS
<1> USE DEF HeardInv
<1>1. ASSUME NEW p \in Alike, Heard!Hear(p) PROVE HeardKept
  <2> DEFINE x == [kind |-> "advert", peer |-> p, seq |-> past.heard + 1]
             t == [past EXCEPT !.heard = @ + 1, !.revived = @ \/ (net.bulk.at = "deleted" /\ p \in net.bulk.peers)]
  <2>1. ui' = ui /\ Heard!Pushed(net, t, x)
    BY <1>1 DEF Heard!Hear
  <2> HIDE DEF t, x
  <2> QED BY <2>1, HeardPushed, HeardQuiet DEF HeardShape
<1>2. CASE Heard!Reload \/ Heard!ServeRead
  <2>1. ui' = ui /\ DOMAIN net' = HeardNet /\ net'.bulk = net.bulk
    BY <1>2 DEF Heard!Reload, Heard!ServeRead, Heard!Reread, HeardShape, HeardNet
  <2> QED BY <2>1, HeardQuiet DEF HeardShape
<1>3. CASE Heard!ReadLands \/ Heard!PushLands
  <2>1. DOMAIN ui' = HeardUi /\ ui'.selected = ui.selected /\ ui'.deleting = ui.deleting
    BY <1>3 DEF Heard!ReadLands, Heard!PushLands, HeardShape, HeardUi
  <2>2. DOMAIN net' = HeardNet /\ net'.bulk = net.bulk
    BY <1>3 DEF Heard!ReadLands, Heard!PushLands, Heard!Overtaken, HeardShape, HeardNet
  <2> QED BY <2>1, <2>2, HeardQuiet
<1>4. CASE Heard!FirstOpen \/ Heard!Drop \/ Heard!Resume
  <2>1. ui' = ui /\ DOMAIN net' = HeardNet /\ net'.bulk = net.bulk
    BY <1>4 DEF Heard!FirstOpen, Heard!Drop, Heard!Resume, Heard!Reread, HeardShape, HeardNet
  <2> QED BY <2>1, HeardQuiet DEF HeardShape
<1>5. ASSUME NEW F, Heard!EditFilter(F) PROVE HeardKept
  <2>1. net' = net /\ DOMAIN ui' = HeardUi /\ ui'.selected = ui.selected /\ ui'.deleting = ui.deleting
    BY <1>5 DEF Heard!EditFilter, HeardShape, HeardUi
  <2> QED BY <2>1, HeardQuiet DEF HeardShape
<1>6. ASSUME NEW p \in Alike, Heard!ToggleSelect(p) PROVE HeardKept
  <2>1. /\ p \in Heard!Filtered /\ net' = net /\ DOMAIN ui' = HeardUi /\ ui'.deleting = ui.deleting
        /\ ui'.selected = IF p \in ui.selected THEN ui.selected \ {p} ELSE ui.selected \cup {p}
    BY <1>6 DEF Heard!ToggleSelect, HeardShape, HeardUi
  <2> HIDE DEF HeardInv
  <2>2. ui'.selected \ Heard!Filtered = ui.selected \ Heard!Filtered
    BY <2>1
  <2> QED BY <2>1, <2>2 DEF HeardInv, HeardShape, HeardBulk, HeardKept, Heard!TicksKept
<1>7. CASE Heard!ToggleSelectAll
  <2>1. net' = net /\ DOMAIN ui' = HeardUi /\ ui'.deleting = ui.deleting /\ ui'.selected = Heard!Toggled(ui.selected)
    BY <1>7 DEF Heard!ToggleSelectAll, HeardShape, HeardUi
  <2>2. ui'.selected \ Heard!Filtered = ui.selected \ Heard!Filtered
    BY <2>1 DEF Heard!Toggled
  <2> QED BY <2>1, <2>2 DEF HeardShape, HeardBulk, HeardKept, Heard!TicksKept
<1>8. CASE Heard!AskBulk
  <2>1. net' = net /\ DOMAIN ui' = HeardUi /\ ui'.selected = ui.selected /\ ui'.deleting = ui.deleting
    BY <1>8 DEF Heard!AskBulk, HeardShape, HeardUi
  <2> QED BY <2>1, HeardQuiet DEF HeardShape
<1>9. CASE Heard!BulkDelete
  <2>1. DOMAIN ui' = HeardUi /\ ui'.selected = ui.selected /\ ui'.deleting = TRUE
    BY <1>9 DEF Heard!BulkDelete, HeardShape, HeardUi
  <2>2. DOMAIN net' = HeardNet /\ net'.bulk = [at |-> "asked", peers |-> ui.selected]
    BY <1>9 DEF Heard!BulkDelete, HeardShape, HeardNet
  <2>3. DOMAIN net'.bulk = {"at", "peers"} /\ net'.bulk.at = "asked"
    BY <2>2
  <2> QED BY <2>1, <2>2, <2>3 DEF HeardShape, HeardBulk, HeardKept, Heard!TicksKept
<1>10. CASE Heard!ServeBulk
  <2>1. ui' = ui /\ net.bulk.at = "asked" /\ DOMAIN net' = HeardNet
        /\ (net'.bulk = [net.bulk EXCEPT !.at = "deleted"] \/ net'.bulk = [net.bulk EXCEPT !.at = "failed"])
    BY <1>10 DEF Heard!ServeBulk, HeardShape, HeardNet
  <2>2. DOMAIN net'.bulk = {"at", "peers"} /\ net'.bulk.at # "none"
    BY <2>1 DEF HeardShape
  <2> QED BY <2>1, <2>2 DEF HeardShape, HeardBulk, HeardKept, Heard!TicksKept
<1>11. CASE Heard!BulkLands
  <2>1. net.bulk.at # "none" /\ DOMAIN ui' = HeardUi /\ ui'.deleting = FALSE
    BY <1>11 DEF Heard!BulkLands, Heard!BulkDone, HeardShape, HeardUi
  <2>2. DOMAIN net' = HeardNet /\ net'.bulk = Heard!NoBulk
    BY <1>11 DEF Heard!BulkLands, HeardShape, HeardNet
  <2>3. DOMAIN net'.bulk = {"at", "peers"} /\ net'.bulk.at = "none"
    BY <2>2 DEF Heard!NoBulk
  <2>4. ui.deleting
    BY <2>1 DEF HeardBulk
  <2> QED BY <2>1, <2>2, <2>3, <2>4 DEF HeardShape, HeardBulk, HeardKept, Heard!TicksKept
<1>12. CASE Heard!AfterDelete
  <2> DEFINE n == [net EXCEPT !.bulk.at = "ok"]
             x == [kind |-> "delete", peers |-> net.bulk.peers]
  <2>1. net.bulk.at = "deleted" /\ ui' = ui /\ Heard!Pushed(n, past, x)
    BY <1>12 DEF Heard!AfterDelete
  <2>2. DOMAIN n = HeardNet /\ DOMAIN n.bulk = {"at", "peers"} /\ n.bulk.at = "ok"
    BY DEF HeardShape, HeardNet
  <2> HIDE DEF n, x
  <2>3. DOMAIN net' = HeardNet /\ DOMAIN net'.bulk = {"at", "peers"} /\ net'.bulk.at # "none"
    BY <2>1, <2>2, HeardPushed
  <2> QED BY <2>1, <2>3 DEF HeardShape, HeardBulk, HeardKept, Heard!TicksKept
<1>13. CASE Heard!Clear
  <2>1. net' = net /\ DOMAIN ui' = HeardUi /\ ui'.deleting = ui.deleting /\ ui'.selected = {}
    BY <1>13 DEF Heard!Clear, HeardShape, HeardUi
  <2> QED BY <2>1 DEF HeardShape, HeardBulk, HeardKept, Heard!TicksKept
<1> QED BY <1>1, <1>2, <1>3, <1>4, <1>5, <1>6, <1>7, <1>8, <1>9, <1>10, <1>11, <1>12, <1>13 DEF Heard!Next

LEMMA HeardStutters == HeardInv /\ UNCHANGED <<ui, net, srv, past>> => HeardInv'
BY DEF HeardInv, HeardShape, HeardBulk

LEMMA HeardKeeps == HeardInv => Heard!DeletingShown
BY DEF HeardInv, HeardBulk, Heard!DeletingShown

-----------------------------------------------------------------------------
(* The map of peers.                                                       *)

ViewUi == {"items", "hidden", "mode", "path", "pin", "links", "confirm", "clearing"}
ViewMap == {"markers", "drawn", "route", "pinned", "view", "fitted"}
ViewShape ==
  /\ DOMAIN ui = ViewUi /\ DOMAIN map = ViewMap
  /\ ui.pin \in BOOLEAN /\ ui.path \in BOOLEAN /\ map.fitted \in BOOLEAN

\* A pin is on the map while the address names one, and the view was put there.
ViewPin == (ui.pin => map.pinned = TRUE /\ map.fitted) /\ (~ui.pin => map.pinned = FALSE)

ViewInv == ViewShape /\ ViewPin

LEMMA ViewInit == View!Init => ViewInv
<1> SUFFICES ASSUME View!Init PROVE ViewInv
  OBVIOUS
<1>1. PICK pin \in BOOLEAN, path \in BOOLEAN :
        /\ ui = [items |-> {}, hidden |-> {}, mode |-> "peers", path |-> path, pin |-> pin, links |-> FALSE,
                 confirm |-> FALSE, clearing |-> FALSE]
        /\ map = [markers |-> {}, drawn |-> FALSE, route |-> {}, pinned |-> pin, fitted |-> pin,
                  view |-> IF pin THEN "pin" ELSE "start"]
  BY DEF View!Init
<1>2. DOMAIN ui = ViewUi /\ ui.pin = pin /\ ui.path = path
  BY <1>1 DEF ViewUi
<1>3. DOMAIN map = ViewMap /\ map.pinned = pin /\ map.fitted = pin
  BY <1>1 DEF ViewMap
<1> QED BY <1>2, <1>3 DEF ViewInv, ViewShape, ViewPin

\* A path that is not shown frames nothing.
LEMMA ViewUnframed == ASSUME NEW u, u.path = FALSE PROVE View!PathView(u) = {} /\ ~(View!Cardinality(View!PathView(u)) > 1)
<1>1. View!PathView(u) = {}
  BY DEF View!PathView
<1>2. View!Cardinality({}) = Cardinality({})
  BY DEF View!Cardinality, Cardinality, View!IsFiniteSet, IsFiniteSet
<1>3. View!Cardinality({}) = 0
  BY <1>2, FS_EmptySet
<1> QED BY <1>1, <1>3

\* A step keeps the invariant, and moves the view for peers that arrive only where it may.
ViewStep == ViewInv' /\ View!ViewKept

\* A render with the pin as it was, or with none.
ViewFine(u, mp) ==
  /\ DOMAIN u = ViewUi /\ u.path \in BOOLEAN /\ u.pin \in BOOLEAN /\ (u.pin = ui.pin \/ u.pin = FALSE)
  /\ DOMAIN mp = ViewMap /\ mp.fitted \in BOOLEAN /\ mp.pinned = map.pinned /\ (mp.fitted = map.fitted \/ u.pin = FALSE)
  /\ u.items # ui.items => u.pin = ui.pin /\ u.path = ui.path /\ mp = map
ViewRenders == \E u, n, mp : ViewFine(u, mp) /\ View!Render(u, n, mp)

LEMMA ViewBy == ASSUME NEW u, NEW n, NEW mp, ViewFine(u, mp), View!Render(u, n, mp) PROVE ViewRenders
BY DEF ViewRenders

LEMMA ViewRendered == ViewInv /\ ViewRenders => ViewStep
<1> SUFFICES ASSUME ViewInv, ViewRenders PROVE ViewStep
  OBVIOUS
<1>0. PICK u, n, mp : ViewFine(u, mp) /\ View!Render(u, n, mp)
  BY DEF ViewRenders
<1> USE <1>0 DEF ViewFine
<1> DEFINE a == View!PinEffect(u, mp)
           b == View!PathEffect(u, a)
           c == View!MarkerEffect(u, b)
           r == [c EXCEPT !.drawn = View!LinksDrawn(u, n)]
<1>1. ui' = u /\ u.pin \in BOOLEAN
  BY DEF View!Render
<1>2. /\ DOMAIN r = ViewMap /\ r.fitted \in BOOLEAN /\ (mp.fitted => r.fitted)
      /\ u.pin = ui.pin => r.pinned = mp.pinned
      /\ u.pin # ui.pin => /\ u.pin => r.pinned = TRUE /\ r.fitted
                           /\ ~u.pin => r.pinned = FALSE
      /\ u.pin = ui.pin /\ u.path = FALSE /\ mp.fitted => r.view = mp.view
  <2>1. /\ DOMAIN a = ViewMap /\ a.fitted \in BOOLEAN /\ (mp.fitted => a.fitted)
        /\ u.pin = ui.pin => a.pinned = mp.pinned /\ a.view = mp.view
        /\ u.pin # ui.pin => (u.pin => a.pinned = TRUE /\ a.fitted) /\ (~u.pin => a.pinned = FALSE)
    BY <1>1 DEF View!PinEffect, ViewMap
  <2> HIDE DEF a
  <2>2. DOMAIN b = ViewMap /\ b.fitted = a.fitted /\ b.pinned = a.pinned
    BY <2>1 DEF View!PathEffect, ViewMap
  <2>3. u.path = FALSE => b.view = a.view
    BY <2>1, ViewUnframed DEF View!PathEffect, ViewMap
  <2> HIDE DEF b
  <2>4. /\ DOMAIN c = ViewMap /\ c.fitted \in BOOLEAN /\ (b.fitted => c.fitted /\ c.view = b.view) /\ c.pinned = b.pinned
    BY <2>1, <2>2 DEF View!MarkerEffect, ViewMap
  <2> HIDE DEF c
  <2>5. DOMAIN r = ViewMap /\ r.fitted = c.fitted /\ r.pinned = c.pinned /\ r.view = c.view
    BY <2>4 DEF ViewMap
  <2> HIDE DEF r
  <2> QED BY <2>1, <2>2, <2>3, <2>4, <2>5
<1>3. map' = r
  BY DEF View!Render
<1> HIDE DEF r
<1>4. ViewShape'
  BY <1>1, <1>2, <1>3 DEF ViewShape
<1>5. ViewPin'
  <2>1. CASE u.pin = ui.pin
    BY <1>1, <1>2, <1>3, <2>1 DEF ViewInv, ViewShape, ViewPin
  <2>2. CASE u.pin # ui.pin
    BY <1>1, <1>2, <1>3, <2>2 DEF ViewInv, ViewShape, ViewPin
  <2> QED BY <2>1, <2>2
<1>6. View!ViewKept
  <2> SUFFICES ASSUME u.items # ui.items, ui.path = FALSE, map.pinned = TRUE \/ map.fitted PROVE map'.view = map.view
    BY <1>1 DEF View!ViewKept, ViewInv, ViewShape, ViewPin
  <2>1. mp.fitted /\ u.pin = ui.pin /\ u.path = FALSE
    BY DEF ViewInv, ViewShape, ViewPin
  <2> QED BY <2>1, <1>2, <1>3
<1> QED BY <1>4, <1>5, <1>6 DEF ViewStep, ViewInv

\* What leaves what is drawn, and what is shown of the peers, alone.
LEMMA ViewQuiet ==
  ASSUME ViewInv, DOMAIN ui' = ViewUi, ui'.items = ui.items, ui'.pin = ui.pin, ui'.path = ui.path,
         DOMAIN map' = ViewMap, map'.pinned = map.pinned, map'.fitted = map.fitted
  PROVE  ViewStep
BY DEF ViewInv, ViewShape, ViewPin, ViewStep, View!ViewKept

LEMMA ViewNext == ViewInv /\ View!Next => ViewStep
<1> SUFFICES ASSUME ViewInv, View!Next PROVE ViewStep
  OBVIOUS
<1> USE DEF ViewInv, ViewShape
<1>1. ASSUME NEW S, NEW n, View!Render([ui EXCEPT !.items = S], n, map) PROVE ViewRenders
  <2>1. ViewFine([ui EXCEPT !.items = S], map)
    BY <1>1 DEF ViewFine, ViewUi, ViewMap
  <2> QED BY <1>1, <2>1, ViewBy
<1>2. ASSUME View!PushLands \/ View!ReadLands PROVE ViewRenders
  <2>1. CASE View!ReadLands
    <3>1. View!Render([ui EXCEPT !.items = net.read.list], [net EXCEPT !.read = View!NoRead], map)
      BY <2>1 DEF View!ReadLands
    <3> QED BY <1>1, <3>1
  <2>2. CASE View!PushLands
    <3> DEFINE x == View!Head(net.pushes)
               S == IF x.kind = "delete" THEN ui.items \ x.peers ELSE ui.items \cup x.peers
    <3>1. View!Render([ui EXCEPT !.items = S], View!Overtaken([net EXCEPT !.pushes = View!Tail(@)]), map)
      BY <2>2 DEF View!PushLands
    <3> HIDE DEF S
    <3> QED BY <1>1, <3>1
  <2> QED BY <1>2, <2>1, <2>2
<1>3. ASSUME NEW m \in {"peers", "connections"}, View!SetMode(m) PROVE ViewRenders
  <2> DEFINE u == [ui EXCEPT !.mode = m, !.path = FALSE, !.pin = FALSE]
             mp == [map EXCEPT !.fitted = FALSE]
  <2>1. \E n : View!Render(u, n, mp)
    BY <1>3 DEF View!SetMode
  <2>2. ViewFine(u, mp)
    BY DEF ViewFine, ViewUi, ViewMap
  <2> QED BY <2>1, <2>2, ViewBy
<1>4. ASSUME View!ClearPath PROVE ViewRenders
  <2>1. View!Render([ui EXCEPT !.path = FALSE], net, map)
    BY <1>4 DEF View!ClearPath
  <2>2. ViewFine([ui EXCEPT !.path = FALSE], map)
    BY DEF ViewFine, ViewUi, ViewMap
  <2> QED BY <2>1, <2>2, ViewBy
<1>5. ASSUME View!ClearPin PROVE ViewRenders
  <2> DEFINE u == [ui EXCEPT !.pin = FALSE]
             mp == [map EXCEPT !.view = IF map.markers # {} THEN "all" ELSE @]
  <2>1. View!Render(u, net, mp)
    BY <1>5 DEF View!ClearPin
  <2>2. ViewFine(u, mp)
    BY DEF ViewFine, ViewUi, ViewMap
  <2> QED BY <2>1, <2>2, ViewBy
<1>6. ASSUME NEW p \in Alike \cup {none}, View!ToggleType(p) PROVE ViewRenders
  <2> DEFINE u == [ui EXCEPT !.hidden = IF p \in @ THEN @ \ {p} ELSE @ \cup {p}]
  <2>1. View!Render(u, net, map)
    BY <1>6 DEF View!ToggleType
  <2>2. ViewFine(u, map)
    BY DEF ViewFine, ViewUi, ViewMap
  <2> QED BY <2>1, <2>2, ViewBy
<1>7. ASSUME View!ToggleLinks PROVE ViewRenders
  <2>1. \E n : View!Render([ui EXCEPT !.links = ~@], n, map)
    BY <1>7 DEF View!ToggleLinks
  <2>2. ViewFine([ui EXCEPT !.links = ~@], map)
    BY DEF ViewFine, ViewUi, ViewMap
  <2> QED BY <2>1, <2>2, ViewBy
<1>8. ASSUME View!LinksLand PROVE ViewRenders
  <2>1. \E n : View!Render(ui, n, map)
    BY <1>8 DEF View!LinksLand
  <2>2. ViewFine(ui, map)
    BY DEF ViewFine
  <2> QED BY <2>1, <2>2, ViewBy
<1>9. CASE View!Pan
  <2>1. ui' = ui /\ DOMAIN map' = ViewMap /\ map'.pinned = map.pinned /\ map'.fitted = map.fitted
    BY <1>9 DEF View!Pan, ViewMap
  <2> QED BY <2>1, ViewQuiet
<1>10. CASE View!AskClear \/ View!DeleteShown \/ View!ClearLands
  <2>1. map' = map /\ DOMAIN ui' = ViewUi /\ ui'.items = ui.items /\ ui'.pin = ui.pin /\ ui'.path = ui.path
    BY <1>10 DEF View!AskClear, View!DeleteShown, View!ClearLands, ViewUi
  <2> QED BY <2>1, ViewQuiet
<1>11. CASE \/ View!Reload \/ View!ServeRead \/ View!FirstOpen \/ View!Drop \/ View!Resume \/ View!ServeClear
            \/ View!AfterDelete \/ \E p \in Alike \cup {none} : View!Hear(p)
  <2>1. ui' = ui /\ map' = map
    BY <1>11 DEF View!Reload, View!ServeRead, View!FirstOpen, View!Drop, View!Resume, View!ServeClear, View!AfterDelete, View!Hear
  <2> QED BY <2>1, ViewQuiet
<1> QED BY <1>2, <1>3, <1>4, <1>5, <1>6, <1>7, <1>8, <1>9, <1>10, <1>11, ViewRendered DEF View!Next

LEMMA ViewStutters == ViewInv /\ UNCHANGED <<ui, net, srv, past, map>> => ViewInv'
BY DEF ViewInv, ViewShape, ViewPin

-----------------------------------------------------------------------------
(* The pages together.                                                     *)

PagesInv ==
  /\ part = "composer" => ComposerInv
  /\ part \in {"settings", "left"} => SettingsInv
  /\ part = "regions" => RegionsInv({"h"} \cup GivenNames, 0)
  /\ part = "outlive" => RegionsInv(GivenNames, Few)
  /\ part = "watch" => WatchInv
  /\ part = "mqtt" => MqttInv
  /\ part = "sensor" => SensorInv
  /\ part = "wizard" => SetupInv
  /\ part = "node" => NodeInv
  /\ part = "access" => AccessInv(Few)
  /\ part = "again" => AccessInv(More)
  /\ part = "path" => PathInv
  /\ part = "grants" => GrantsInv
  /\ part \in {"companions", "links"} => RosterInv
  /\ part = "session" => SessionInv
  /\ part = "tabs" => TabsInv
  /\ part = "live" => LiveInv
  /\ part = "peers" => HeardInv
  /\ part = "view" => ViewInv

LEMMA ComposerStutters == ComposerInv /\ UNCHANGED <<ui, net, srv, past>> => ComposerInv'
BY DEF ComposerInv, ComposerShape, ComposerCounts, ComposerSession, ComposerPost, ComposerOnce
LEMMA SettingsStutters == SettingsInv /\ UNCHANGED <<ui, net, srv, past>> => SettingsInv'
BY DEF SettingsInv, SettingsShape, SettingsAlone, SettingsJob, SettingsHeld
LEMMA RegionsStutters ==
  ASSUME NEW names, NEW leaves PROVE RegionsInv(names, leaves) /\ UNCHANGED <<ui, net, srv, past>> => RegionsInv(names, leaves)'
BY DEF RegionsInv, RegionsShape, RegionsAlone, RegionsMarked, RegionsAgree, RegionsAct, Agrees
LEMMA WatchStutters == WatchInv /\ UNCHANGED <<ui, net, srv, past>> => WatchInv'
BY DEF WatchInv, WatchShape, WatchPatch, WatchEdited, WatchRoom

\* Every page's invariant holds whichever page a behaviour is about.
THEOREM Invariant == Spec => []PagesInv
<1>1. Init => PagesInv
  <2> SUFFICES ASSUME Init PROVE PagesInv
    OBVIOUS
  <2>1. /\ part = "composer" => ComposerInv
        /\ part \in {"settings", "left"} => SettingsInv
        /\ part = "regions" => RegionsInv({"h"} \cup GivenNames, 0)
        /\ part = "outlive" => RegionsInv(GivenNames, Few)
        /\ part = "watch" => WatchInv
        /\ part = "mqtt" => MqttInv
        /\ part = "sensor" => SensorInv
        /\ part = "wizard" => SetupInv
        /\ part = "node" => NodeInv
    BY ComposerInit, SettingsInit, RegionsInit, WatchInit, MqttInit, SensorInit, SetupInit, NodeInit DEF Init
  <2>2. /\ part = "access" => AccessInv(Few)
        /\ part = "again" => AccessInv(More)
        /\ part = "path" => PathInv
        /\ part = "grants" => GrantsInv
        /\ part \in {"companions", "links"} => RosterInv
        /\ part = "session" => SessionInv
        /\ part = "tabs" => TabsInv
        /\ part = "live" => LiveInv
        /\ part = "peers" => HeardInv
        /\ part = "view" => ViewInv
    BY AccessInit, PathInit, GrantsInit, RosterInit, SessionInit, TabsInit, LiveInit, HeardInit, ViewInit, BoundsAssumption DEF Init
  <2> QED BY <2>1, <2>2 DEF PagesInv
<1>2. PagesInv /\ [Next]_vars => PagesInv'
  <2> SUFFICES ASSUME PagesInv, [Next]_vars PROVE PagesInv'
    OBVIOUS
  <2>1. CASE UNCHANGED vars
    <3>1. part' = part /\ UNCHANGED <<ui, net, srv, past>> /\ map' = map
      BY <2>1 DEF vars
    <3>2. UNCHANGED <<ui, net, srv, past, map>>
      BY <3>1
    <3> QED BY <3>1, <3>2, ComposerStutters, SettingsStutters, RegionsStutters, WatchStutters, MqttStutters, SensorStutters, SetupStutters,
                  NodeStutters, AccessStutters, PathStutters, GrantsStutters, RosterStutters, SessionStutters, TabsStutters, LiveStutters,
                  HeardStutters, ViewStutters
            DEF PagesInv
  <2>2. CASE Next
    <3>1. part' = part /\ Few \in Nat /\ More \in Nat
      BY <2>2, BoundsAssumption DEF Next
    <3>2. /\ part = "composer" => ComposerInv'
          /\ part \in {"settings", "left"} => SettingsInv'
          /\ part = "regions" => RegionsInv({"h"} \cup GivenNames, 0)'
          /\ part = "outlive" => RegionsInv(GivenNames, Few)'
          /\ part = "watch" => WatchInv'
          /\ part = "mqtt" => MqttInv'
          /\ part = "sensor" => SensorInv'
          /\ part = "wizard" => SetupInv'
          /\ part = "node" => NodeInv'
      <4>1. NodeKept => NodeInv'
        BY DEF NodeKept
      <4> QED BY <2>2, <4>1, ComposerNext, SettingsNext, RegionsNext, WatchNext, MqttNext, SensorNext, SetupNext, NodeNext DEF Next, PagesInv
    <3>3. /\ part = "access" => AccessInv(Few)'
          /\ part = "again" => AccessInv(More)'
          /\ part = "session" => SessionInv'
          /\ part = "tabs" => TabsInv'
          /\ part = "live" => LiveInv'
      BY <2>2, <3>1, AccessNext, SessionNext, TabsNext, LiveNext DEF Next, PagesInv
    <3>4. /\ part = "path" => PathKept
          /\ part = "grants" => GrantsKept
          /\ part = "companions" => RosterKept({Word("x")}, More, Few)
          /\ part = "links" => RosterKept({Word("x"), Digits}, Few, 0)
          /\ part = "peers" => HeardKept
          /\ part = "view" => ViewStep
      BY <2>2, PathNext, GrantsNext, RosterNext, HeardNext, ViewNext DEF Next, PagesInv
    <3>5. /\ part = "path" => PathInv'
          /\ part = "grants" => GrantsInv'
          /\ part \in {"companions", "links"} => RosterInv'
          /\ part = "peers" => HeardInv'
          /\ part = "view" => ViewInv'
      BY <3>4 DEF PathKept, GrantsKept, RosterKept, HeardKept, ViewStep
    <3> QED BY <3>1, <3>2, <3>3, <3>5 DEF PagesInv
  <2> QED BY <2>1, <2>2
<1> QED BY <1>1, <1>2, PTL DEF Spec

\* A text the reader wrote is still in the composer or is posted, is posted once while no request fails, and the
\* composer of a room is shown only with a session of that room.
THEOREM TextsAreKept == Spec => []WrittenIsKept
<1>1. PagesInv => WrittenIsKept
  BY ComposerKeeps DEF PagesInv, WrittenIsKept
<1> QED BY <1>1, Invariant, PTL

\* What a page says of a save is so: a field said to be saved is what the node holds, and regions changed since
\* the last save are marked as unsaved.
THEOREM SaysSo == Spec => []SaysWhatIsSo
<1>1. PagesInv => SaysWhatIsSo
  BY SettingsKeeps, RegionsKeeps DEF PagesInv, SaysWhatIsSo
<1> QED BY <1>1, Invariant, PTL

\* What a page stores can be worked with: no more readings are watched than there is room for, a broker has a node to
\* speak as, a set-up node its companion, and no save the sensor's form lets through is refused.
THEOREM StoresSound == Spec => []StoredIsSound
<1>1. PagesInv => StoredIsSound
  BY WatchKeeps, MqttKeeps, SetupKeeps, SensorKeeps DEF PagesInv, StoredIsSound
<1> QED BY <1>1, Invariant, PTL

\* A page shows, and saves, what is of the contact, companion, node or form it is about, however answers arrive: a route is
\* saved to the contact it was opened for, a link leads to the companion it names by its id, a session is of the node shown.
THEOREM PagesShowTheirOwn == Spec => []ShowsOwn
<1>1. PagesInv => ShowsOwn
  <2>1. Few \in Nat /\ More \in Nat
    BY BoundsAssumption
  <2> QED BY <2>1, PathKeeps, RosterKeeps, AccessKeeps, SessionKeeps, SensorKeeps DEF PagesInv, ShowsOwn
<1> QED BY <1>1, Invariant, PTL

\* A page that says it is busy, or shows nothing, waits for an answer that is on its way, however requests fail, pages are left
\* and answers overtake each other.
THEOREM NoPageHangs == Spec => []NothingHangs
<1>1. PagesInv => NothingHangs
  <2>1. Few \in Nat /\ More \in Nat
    BY BoundsAssumption
  <2> QED BY <2>1, AccessKeeps, SessionKeeps, TabsKeeps, LiveKeeps, HeardKeeps, SetupKeeps DEF PagesInv, NothingHangs
<1> QED BY <1>1, Invariant, PTL

\* A save changes what the reader changed, and nothing that is stored beside it: the app's port, what is watched, a remote
\* node's regions, the node's password, a sensor's secret and what was set up before.
THEOREM SavesKeep == Spec => StoredKept
<1> DEFINE Kept == /\ part = "access" => Access(Few, Few, Few)!ChangesOnlyAsked
                   /\ part = "again" => Access(More, 0, 0)!ChangesOnlyAsked
                   /\ part = "watch" => Watch!GrantSurvives /\ Watch!SavesOnlyEdits
                   /\ part = "regions" => Carries({"h"} \cup GivenNames, 0)!AddsOnlyNew
                   /\ part = "outlive" => Carries(GivenNames, Few)!AddsOnlyNew
                   /\ part = "node" => Node!PasswordAsked
                   /\ part = "sensor" => Sensor!SecretKept
                   /\ part = "wizard" => Wizard!ReplacesOnlyUnset
<1>1. PagesInv /\ [Next]_vars => [Kept]_vars
  <2> SUFFICES ASSUME PagesInv, Next PROVE Kept
    BY Zenon
  <2>1. Few \in Nat /\ More \in Nat
    BY BoundsAssumption
  <2>2. (part = "access" => Access(Few, Few, Few)!ChangesOnlyAsked) /\ (part = "again" => Access(More, 0, 0)!ChangesOnlyAsked)
    BY <2>1, AccessSteps DEF PagesInv, Next
  <2>3. part = "watch" => Watch!GrantSurvives /\ Watch!SavesOnlyEdits
    BY WatchSteps DEF PagesInv, Next
  <2>4. /\ part = "regions" => Carries({"h"} \cup GivenNames, 0)!AddsOnlyNew
        /\ part = "outlive" => Carries(GivenNames, Few)!AddsOnlyNew
    BY RegionsAdds DEF PagesInv, Next
  <2>5. part = "node" => Node!PasswordAsked
    BY NodeNext DEF PagesInv, Next, NodeKept
  <2>6. part = "sensor" => Sensor!SecretKept
    BY SensorSteps DEF PagesInv, Next
  <2>7. part = "wizard" => Wizard!ReplacesOnlyUnset
    BY SetupSteps DEF PagesInv, Next
  <2> QED BY <2>2, <2>3, <2>4, <2>5, <2>6, <2>7
<1> QED BY <1>1, Invariant, PTL DEF Spec, StoredKept

\* What the reader is editing, has ticked or is looking at is changed by no answer and no push, and what the reader left alone
\* by no save.
THEOREM EditsSurvive == Spec => EditsKept
<1> DEFINE Kept == /\ part = "path" => Path!EditsKept
                   /\ part = "grants" => Grants!ClosesOnlyChosen
                   /\ part = "companions" => Roster({Word("x")}, More, Few)!EditorKept
                   /\ part = "links" => Roster({Word("x"), Digits}, Few, 0)!EditorKept
                   /\ part = "watch" => Watch!EditsKept
                   /\ part = "node" => Node!FieldsSurviveRegions
                   /\ part = "peers" => Heard!TicksKept
                   /\ part = "mqtt" => Mqtt!StatusForward
                   /\ part = "view" => View!ViewKept
                   /\ part = "sensor" => Sensor!EditsKept
<1>1. PagesInv /\ [Next]_vars => [Kept]_vars
  <2> SUFFICES ASSUME PagesInv, Next PROVE Kept
    BY Zenon
  <2>1. part = "path" => Path!EditsKept
    BY PathNext DEF PagesInv, Next, PathKept
  <2>2. part = "grants" => Grants!ClosesOnlyChosen
    BY GrantsNext DEF PagesInv, Next, GrantsKept
  <2>3. /\ part = "companions" => Roster({Word("x")}, More, Few)!EditorKept
        /\ part = "links" => Roster({Word("x"), Digits}, Few, 0)!EditorKept
    BY RosterNext DEF PagesInv, Next, RosterKept
  <2>4. part = "watch" => Watch!EditsKept
    BY WatchSteps DEF PagesInv, Next
  <2>5. part = "node" => Node!FieldsSurviveRegions
    BY NodeNext DEF PagesInv, Next, NodeKept
  <2>6. part = "peers" => Heard!TicksKept
    BY HeardNext DEF PagesInv, Next, HeardKept
  <2>7. part = "mqtt" => Mqtt!StatusForward
    BY MqttSteps DEF PagesInv, Next
  <2>8. part = "view" => View!ViewKept
    BY ViewNext DEF PagesInv, Next, ViewStep
  <2>9. part = "sensor" => Sensor!EditsKept
    BY SensorSteps DEF PagesInv, Next
  <2> QED BY <2>1, <2>2, <2>3, <2>4, <2>5, <2>6, <2>7, <2>8, <2>9
<1> QED BY <1>1, Invariant, PTL DEF Spec, EditsKept
=============================================================================

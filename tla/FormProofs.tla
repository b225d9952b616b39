----------------------------- MODULE FormProofs -----------------------------
(***************************************************************************)
(* Proofs about the pages of the console that are filled in and saved: the *)
(* composer, a remote node's settings and regions, monitoring, brokers,    *)
(* the setup, sensors and the node's settings.  Each page has an inductive *)
(* invariant of its own, shown to hold initially and to be kept by every   *)
(* step of the page; PageProofs has the other pages, and puts all of them  *)
(* together.                                                               *)
(***************************************************************************)
EXTENDS MCForms, FiniteSetTheorems, TLAPS

-----------------------------------------------------------------------------
(* The composer of the chat page.                                          *)

LEMMA ComposerCardinality == ASSUME NEW S PROVE Composer!Cardinality(S) = Cardinality(S)
BY DEF Composer!Cardinality, Cardinality, Composer!IsFiniteSet, IsFiniteSet

ComposerShape ==
  /\ DOMAIN ui = {"active", "text", "sending", "session", "checking", "meta", "save", "joining"}
  /\ DOMAIN net = {"posts", "ask", "contact", "joins"}
  /\ DOMAIN srv = {"live", "saved", "posted"}
  /\ DOMAIN past = {"written", "faults", "late", "astray"}
  /\ past.astray \in BOOLEAN /\ ui.sending \in BOOLEAN
  /\ \A j \in net.joins : DOMAIN j = {"room", "step", "save", "known"}
  /\ \A p \in net.posts : DOMAIN p = {"thread", "text"}
ComposerCounts == past.written \in Nat /\ past.faults \in Nat

\* A session shown is one the server holds, and the open room's unless a join is astray.
ComposerSession ==
  /\ ui.session # Composer!None => ui.session \in srv.live
  /\ \A j \in net.joins : j.step \in {"session", "save"} => j.room \in srv.live
  /\ ~past.astray => /\ ui.session # Composer!None => ui.session = ui.active
                     /\ net.ask # Composer!None => net.ask = ui.active
                     /\ \A j \in net.joins : j.room = ui.active

\* The composer holds the last text written or none; a post on its way carries that text, or one that was
\* followed by a late one.
ComposerPost ==
  /\ IF ui.sending THEN \E p : net.posts = {p} ELSE net.posts = {}
  /\ ui.text \in {Composer!Empty, past.written}
  /\ past.written # 0 => \/ ui.text = past.written \/ past.written \in past.late
                         \/ \E p \in srv.posted : p.text = past.written
  /\ \A p \in net.posts :
       /\ p.text \in 1..past.written
       /\ p.text # past.written => past.written \in past.late \/ \E q \in srv.posted : q.text = past.written
  /\ \A p \in srv.posted : p.text \in 1..past.written

\* Until a request fails, what was posted is neither in the composer nor on its way again.
ComposerOnce ==
  past.faults = 0 => /\ \A p, q \in srv.posted : p.text = q.text => p = q
                     /\ \A p \in srv.posted : p.text # ui.text /\ \A q \in net.posts : p.text # q.text

ComposerInv == ComposerShape /\ ComposerCounts /\ ComposerSession /\ ComposerPost /\ ComposerOnce

LEMMA ComposerInit == Composer!Init => ComposerInv
<1> SUFFICES ASSUME Composer!Init PROVE ComposerInv
  OBVIOUS
<1> USE DEF Composer!Init
<1>1. ComposerShape
  BY DEF ComposerShape
<1>2. ComposerCounts
  BY DEF ComposerCounts
<1>3. ComposerSession
  BY DEF ComposerSession
<1>4. ComposerPost
  BY DEF ComposerPost, Composer!Empty
<1>5. ComposerOnce
  BY DEF ComposerOnce
<1> QED BY <1>1, <1>2, <1>3, <1>4, <1>5 DEF ComposerInv

LEMMA ComposerNext == ComposerInv /\ Composer!Next => ComposerInv'
<1> SUFFICES ASSUME ComposerInv, Composer!Next PROVE ComposerInv'
  OBVIOUS
<1> USE DEF ComposerInv
<1>1. ASSUME NEW t \in Composer!Threads \cup {Composer!None}, Composer!OpenThread(t) PROVE ComposerInv'
  <2> USE <1>1 DEF Composer!OpenThread
  <2>1. ComposerShape'
    BY DEF ComposerShape
  <2>2. ComposerCounts'
    BY DEF ComposerShape, ComposerCounts
  <2>3. ComposerSession'
    BY DEF ComposerShape, ComposerSession, Composer!None
  <2>4. ComposerPost'
    BY DEF ComposerShape, ComposerCounts, ComposerPost, Composer!Empty
  <2>5. ComposerOnce'
    BY DEF ComposerShape, ComposerCounts, ComposerPost, ComposerOnce, Composer!Empty
  <2> QED BY <2>1, <2>2, <2>3, <2>4, <2>5
<1>2. CASE Composer!SessionLands
  <2> USE <1>2 DEF Composer!SessionLands, Composer!Fault
  <2>1. ComposerShape'
    BY DEF ComposerShape
  <2>2. ComposerCounts'
    BY DEF ComposerShape, ComposerCounts
  <2>3. ComposerSession'
    BY DEF ComposerShape, ComposerSession, Composer!None
  <2>4. ComposerPost'
    BY DEF ComposerShape, ComposerCounts, ComposerPost, Composer!Empty
  <2>5. ComposerOnce'
    <3>1. ui'.text = ui.text /\ net'.posts = net.posts /\ srv' = srv
      BY DEF ComposerShape
    <3>2. past'.faults = 0 => past.faults = 0
      BY DEF ComposerShape, ComposerCounts
    <3> QED BY <3>1, <3>2 DEF ComposerOnce
  <2> QED BY <2>1, <2>2, <2>3, <2>4, <2>5
<1>3. CASE Composer!ContactLands
  <2> USE <1>3 DEF Composer!ContactLands, Composer!Fault
  <2>1. ComposerShape'
    BY DEF ComposerShape
  <2>2. ComposerCounts'
    BY DEF ComposerShape, ComposerCounts
  <2>3. ComposerSession'
    BY DEF ComposerShape, ComposerSession, Composer!None
  <2>4. ComposerPost'
    BY DEF ComposerShape, ComposerCounts, ComposerPost, Composer!Empty
  <2>5. ComposerOnce'
    <3>1. ui'.text = ui.text /\ net'.posts = net.posts /\ srv' = srv
      BY DEF ComposerShape
    <3>2. past'.faults = 0 => past.faults = 0
      BY DEF ComposerShape, ComposerCounts
    <3> QED BY <3>1, <3>2 DEF ComposerOnce
  <2> QED BY <2>1, <2>2, <2>3, <2>4, <2>5
<1>4. CASE Composer!ToggleSave
  <2> USE <1>4 DEF Composer!ToggleSave
  <2>1. ComposerShape'
    BY DEF ComposerShape
  <2>2. ComposerCounts'
    BY DEF ComposerShape, ComposerCounts
  <2>3. ComposerSession'
    BY DEF ComposerShape, ComposerSession, Composer!None
  <2>4. ComposerPost'
    BY DEF ComposerShape, ComposerCounts, ComposerPost, Composer!Empty
  <2>5. ComposerOnce'
    BY DEF ComposerShape, ComposerCounts, ComposerPost, ComposerOnce, Composer!Empty
  <2> QED BY <2>1, <2>2, <2>3, <2>4, <2>5
<1>5. CASE Composer!AskJoin
  <2> USE <1>5 DEF Composer!AskJoin
  <2>1. ComposerShape'
    BY DEF ComposerShape
  <2>2. ComposerCounts'
    BY DEF ComposerShape, ComposerCounts
  <2>3. ComposerSession'
    BY DEF ComposerShape, ComposerSession, Composer!None
  <2>4. ComposerPost'
    BY DEF ComposerShape, ComposerCounts, ComposerPost, Composer!Empty
  <2>5. ComposerOnce'
    BY DEF ComposerShape, ComposerCounts, ComposerPost, ComposerOnce, Composer!Empty
  <2> QED BY <2>1, <2>2, <2>3, <2>4, <2>5
<1>6. ASSUME NEW j \in net.joins, Composer!JoinStep(j) PROVE ComposerInv'
  <2> USE DEF Composer!JoinNext, Composer!JoinEnds, Composer!Fault
  <2>1. DOMAIN ui' = DOMAIN ui /\ DOMAIN net' = DOMAIN net /\ DOMAIN srv' = DOMAIN srv /\ DOMAIN past' = DOMAIN past
    BY <1>6 DEF Composer!JoinStep, ComposerShape
  <2>2. ui'.sending = ui.sending /\ past'.astray = past.astray /\ net'.posts = net.posts /\ net'.ask = net.ask
    BY <1>6 DEF Composer!JoinStep, ComposerShape
  <2>3. /\ ui'.text = ui.text /\ ui'.active = ui.active /\ srv'.posted = srv.posted /\ srv.live \subseteq srv'.live
        /\ past'.written = past.written /\ past'.late = past.late
    <3>1. CASE j.step = "login"
      BY <1>6, <3>1 DEF Composer!JoinStep, ComposerShape
    <3>2. CASE j.step = "save"
      BY <1>6, <3>2 DEF Composer!JoinStep, ComposerShape
    <3>3. CASE j.step = "session"
      BY <1>6, <3>3 DEF Composer!JoinStep, ComposerShape
    <3> QED BY <1>6, <3>1, <3>2, <3>3 DEF Composer!JoinStep
  <2>4. past'.faults = past.faults \/ past'.faults = past.faults + 1
    BY <1>6 DEF Composer!JoinStep, ComposerShape
  <2>5. \A k \in net'.joins : k \in net.joins \/ \E step \in {"save", "session"} : k = [j EXCEPT !.step = step]
    BY <1>6 DEF Composer!JoinStep, ComposerShape
  <2>6. j.step = "login" => j.room \in srv'.live
    BY <1>6 DEF Composer!JoinStep, ComposerShape
  <2>7. ui'.session = ui.session \/ (j.step = "session" /\ ui'.session = j.room)
    BY <1>6 DEF Composer!JoinStep, ComposerShape
  <2>8. j.step \in {"login", "save", "session"}
    BY <1>6 DEF Composer!JoinStep
  <2>9. ComposerShape'
    BY <2>1, <2>2, <2>5 DEF ComposerShape
  <2>10. ComposerCounts'
    BY <2>3, <2>4 DEF ComposerCounts
  <2>11. ComposerSession'
    <3>1. \A k \in net'.joins : k \in net.joins \/ k.room = j.room
      BY <2>5 DEF ComposerShape
    <3>2. \A k \in net'.joins : k.step \in {"session", "save"} => k.room \in srv'.live
      BY <2>3, <2>6, <2>8, <3>1 DEF ComposerSession
    <3> QED BY <2>2, <2>3, <2>7, <3>1, <3>2 DEF ComposerSession
  <2>12. ComposerPost'
    BY <2>2, <2>3 DEF ComposerPost
  <2>13. ComposerOnce'
    BY <2>2, <2>3, <2>4 DEF ComposerOnce, ComposerCounts
  <2> QED BY <2>9, <2>10, <2>11, <2>12, <2>13
<1>7. ASSUME NEW j \in net.joins, Composer!JoinFails(j) PROVE ComposerInv'
  <2> USE <1>7 DEF Composer!JoinFails, Composer!JoinEnds, Composer!Fault
  <2>1. ComposerShape'
    BY DEF ComposerShape
  <2>2. ComposerCounts'
    BY DEF ComposerShape, ComposerCounts
  <2>3. ComposerSession'
    BY DEF ComposerShape, ComposerSession, Composer!None
  <2>4. ComposerPost'
    BY DEF ComposerShape, ComposerCounts, ComposerPost, Composer!Empty
  <2>5. ComposerOnce'
    BY DEF ComposerShape, ComposerCounts, ComposerPost, ComposerOnce, Composer!Empty
  <2> QED BY <2>1, <2>2, <2>3, <2>4, <2>5
<1>8. CASE Composer!Write
  <2> USE <1>8 DEF Composer!Write
  <2>1. ComposerShape'
    BY DEF ComposerShape
  <2>2. ComposerCounts'
    BY DEF ComposerShape, ComposerCounts
  <2>3. ComposerSession'
    BY DEF ComposerShape, ComposerSession, Composer!None
  <2>4. ComposerPost'
    <3>1. /\ ui'.sending = ui.sending /\ net' = net /\ srv' = srv /\ past'.written = past.written + 1
          /\ ui'.text = past.written + 1
      BY DEF ComposerShape
    <3>2. ui.sending => past.written + 1 \in past'.late
      BY DEF ComposerShape
    <3>3. \A p \in net.posts : ui.sending /\ p.text \in 1..past.written
      BY DEF ComposerPost
    <3>4. past.written + 1 \in Nat \ {0} /\ 1..past.written \subseteq 1..past.written + 1
      BY DEF ComposerCounts
    <3>5. \A p \in net.posts : p.text \in 1..past'.written /\ past'.written \in past'.late
      BY <3>1, <3>2, <3>3, <3>4
    <3>6. \A p \in srv.posted : p.text \in 1..past'.written
      BY <3>1, <3>4 DEF ComposerPost
    <3> QED BY <3>1, <3>5, <3>6 DEF ComposerPost
  <2>5. ComposerOnce'
    BY DEF ComposerShape, ComposerCounts, ComposerPost, ComposerOnce, Composer!Empty
  <2> QED BY <2>1, <2>2, <2>3, <2>4, <2>5
<1>9. CASE Composer!HandleReply
  <2> USE <1>9 DEF Composer!HandleReply
  <2>1. ComposerShape'
    BY DEF ComposerShape
  <2>2. ComposerCounts'
    BY DEF ComposerShape, ComposerCounts
  <2>3. ComposerSession'
    BY DEF ComposerShape, ComposerSession, Composer!None
  <2>4. ComposerPost'
    <3>1. /\ ui'.sending = ui.sending /\ net' = net /\ srv' = srv /\ past'.written = past.written + 1
          /\ ui'.text = past.written + 1
      BY DEF ComposerShape
    <3>2. past.written + 1 \in past'.late
      BY DEF ComposerShape, ComposerCounts, Composer!Empty
    <3>3. \A p \in net.posts : ui.sending /\ p.text \in 1..past.written
      BY DEF ComposerPost
    <3>4. past.written + 1 \in Nat \ {0} /\ 1..past.written \subseteq 1..past.written + 1
      BY DEF ComposerCounts
    <3>5. \A p \in net.posts : p.text \in 1..past'.written /\ past'.written \in past'.late
      BY <3>1, <3>2, <3>3, <3>4
    <3>6. \A p \in srv.posted : p.text \in 1..past'.written
      BY <3>1, <3>4 DEF ComposerPost
    <3> QED BY <3>1, <3>5, <3>6 DEF ComposerPost
  <2>5. ComposerOnce'
    BY DEF ComposerShape, ComposerCounts, ComposerPost, ComposerOnce, Composer!Empty
  <2> QED BY <2>1, <2>2, <2>3, <2>4, <2>5
<1>10. CASE Composer!Send
  <2> USE <1>10 DEF Composer!Send
  <2>1. ComposerShape'
    BY DEF ComposerShape
  <2>2. ComposerCounts'
    BY DEF ComposerShape, ComposerCounts
  <2>3. ComposerSession'
    BY DEF ComposerShape, ComposerSession, Composer!None
  <2>4. ComposerPost'
    <3>1. /\ ui'.sending /\ ~ui.sending /\ ui'.text = ui.text /\ ui.text = past.written /\ ui.text # Composer!Empty
          /\ srv' = srv /\ past' = past
      BY DEF ComposerShape, ComposerPost
    <3>2. net'.posts = {[thread |-> ui.active, text |-> ui.text]}
      BY <3>1 DEF ComposerShape, ComposerPost
    <3>3. past.written \in 1..past.written
      BY <3>1 DEF ComposerCounts, Composer!Empty
    <3>4. (\A p \in net'.posts : p.text = past.written) /\ \E p : net'.posts = {p}
      <4>1. [thread |-> ui.active, text |-> ui.text].text = past.written
        BY <3>1
      <4> QED BY <3>2, <4>1, Zenon
    <3>5. \A p \in net'.posts : p.text \in 1..past'.written /\ p.text = past'.written
      BY <3>1, <3>3, <3>4
    <3>6. ui'.sending = TRUE /\ ui'.text = past'.written
      BY <3>1 DEF ComposerShape
    <3> QED BY <3>1, <3>4, <3>5, <3>6 DEF ComposerPost
  <2>5. ComposerOnce'
    BY DEF ComposerShape, ComposerCounts, ComposerPost, ComposerOnce, Composer!Empty
  <2> QED BY <2>1, <2>2, <2>3, <2>4, <2>5
<1>11. ASSUME NEW p \in net.posts, Composer!SendOk(p) PROVE ComposerInv'
  <2> USE <1>11 DEF Composer!SendOk
  <2>1. ComposerShape'
    BY DEF ComposerShape
  <2>2. ComposerCounts'
    BY DEF ComposerShape, ComposerCounts
  <2>3. ComposerSession'
    BY DEF ComposerShape, ComposerSession, Composer!None
  <2>4. ComposerPost'
    BY DEF ComposerShape, ComposerCounts, ComposerPost, Composer!Empty
  <2>5. ComposerOnce'
    BY DEF ComposerShape, ComposerCounts, ComposerPost, ComposerOnce, Composer!Empty
  <2> QED BY <2>1, <2>2, <2>3, <2>4, <2>5
<1>12. ASSUME NEW p \in net.posts, Composer!SendFailed(p) PROVE ComposerInv'
  <2> USE <1>12 DEF Composer!SendFailed, Composer!Fault
  <2>1. ComposerShape'
    BY DEF ComposerShape
  <2>2. ComposerCounts'
    BY DEF ComposerShape, ComposerCounts
  <2>3. ComposerSession'
    BY DEF ComposerShape, ComposerSession, Composer!None
  <2>4. ComposerPost'
    BY DEF ComposerShape, ComposerCounts, ComposerPost, Composer!Empty
  <2>5. ComposerOnce'
    BY DEF ComposerShape, ComposerCounts, ComposerPost, ComposerOnce, Composer!Empty
  <2> QED BY <2>1, <2>2, <2>3, <2>4, <2>5
<1> QED BY <1>1, <1>2, <1>3, <1>4, <1>5, <1>6, <1>7, <1>8, <1>9, <1>10, <1>11, <1>12 DEF Composer!Next

LEMMA ComposerKeeps == ComposerInv => Composer!RoomNeedsSession /\ Composer!WrittenIsKept /\ Composer!PostedOnce
<1> SUFFICES ASSUME ComposerInv PROVE Composer!RoomNeedsSession /\ Composer!WrittenIsKept /\ Composer!PostedOnce
  OBVIOUS
<1> USE DEF ComposerInv
<1>1. Composer!RoomNeedsSession
  BY DEF Composer!RoomNeedsSession, Composer!ShowsComposer, Composer!ShowsJoinBar, Composer!LoggedIn, ComposerSession
<1>2. Composer!WrittenIsKept
  BY DEF Composer!WrittenIsKept, ComposerPost, ComposerCounts
<1>3. Composer!PostedOnce
  <2>1. CASE ui.sending
    <3>1. PICK p : net.posts = {p}
      BY <2>1 DEF ComposerPost
    <3>2. Cardinality(net.posts) = 1
      BY <3>1, FS_Singleton
    <3> QED BY <3>2, ComposerCardinality DEF Composer!PostedOnce, ComposerOnce
  <2>2. CASE ~ui.sending
    <3>1. Cardinality(net.posts) = 0
      BY <2>2, FS_EmptySet DEF ComposerPost
    <3> QED BY <3>1, ComposerCardinality DEF Composer!PostedOnce, ComposerOnce
  <2> QED BY <2>1, <2>2
<1> QED BY <1>1, <1>2, <1>3

-----------------------------------------------------------------------------
(* A section of a remote node's settings.                                  *)

SettingsShape ==
  /\ DOMAIN ui = {"section", "vals", "loaded", "edited", "busy"}
  /\ DOMAIN past = {"faults", "leaves", "said", "doubt", "crossed"} /\ past.crossed \in BOOLEAN
  /\ ui.section \in {"radio", "position", "advert", "network", "vars", "owner", "security"} /\ ui.edited \subseteq 1..More
  /\ DOMAIN ui.vals = 1..More /\ DOMAIN ui.loaded = 1..More
  /\ DOMAIN past.said = 1..More /\ DOMAIN srv = 1..More
  /\ \A j \in net : /\ DOMAIN j = {"what", "at", "send", "vals", "mine"} /\ DOMAIN j.vals = 1..More
                    /\ j.at \in 1..More /\ j.send \subseteq 1..More /\ j.what \in {"load", "save"}

\* Unless a job outlived its form there is at most one, and it is what the form is busy with.
SettingsAlone ==
  ~past.crossed => /\ \A j, k \in net : j = k
                   /\ \A j \in net : j.mine /\ ui.busy = j.what

\* What the commands of a job have read or written so far is what the node holds, and a job that saves leaves
\* out only fields that are blank, or those of the routing section that are as they were loaded.
SettingsJob ==
  ~past.crossed => \A j \in net :
    /\ j.what = "load" => /\ j.send = {} /\ \A f \in 1..More : f < j.at => j.vals[f] = srv[f]
                          /\ \A f \in 1..More : past.said[f] # "blank" => srv[f] = past.said[f]
    /\ j.what = "save" => /\ \A f \in 1..More : past.said[f] = "blank"
                          /\ \A f \in j.send : f < j.at => srv[f] = j.vals[f]
                          /\ ui.section # "vars" => \A f \in 1..More \ j.send :
                               j.vals[f] = "blank" \/ (ui.section = "network" /\ j.vals[f] = ui.loaded[f])

\* What was said to be saved, and what routing compares with, is what the node holds but for the fields in doubt
\* and those the save under way has written.
SettingsHeld ==
  ~past.crossed => \A f \in 1..More \ past.doubt :
    /\ past.said[f] # "blank" => srv[f] = past.said[f]
    /\ ui.section = "network" /\ ui.loaded[f] # "blank" /\ (\A j \in net : f \in j.send => f >= j.at) => srv[f] = ui.loaded[f]

SettingsInv == SettingsShape /\ SettingsAlone /\ SettingsJob /\ SettingsHeld

LEMMA SettingsInit == ASSUME NEW faults, NEW leaves PROVE Settings(faults, leaves)!Init => SettingsInv
<1> SUFFICES ASSUME Settings(faults, leaves)!Init PROVE SettingsInv
  OBVIOUS
<1> USE BoundsAssumption DEF Settings!Init, Settings!Fresh, Settings!Nothing, Settings!Blank, Settings!Idle
<1>1. SettingsShape
  <2>1. PICK k \in Settings(faults, leaves)!Sections : ui = Settings(faults, leaves)!Fresh(k)
    OBVIOUS
  <2>2. DOMAIN ui.vals = 1..More
    BY <2>1
  <2> QED BY <2>1, <2>2 DEF SettingsShape, Settings!Sections
<1> QED BY <1>1 DEF SettingsInv, SettingsAlone, SettingsJob, SettingsHeld

LEMMA SettingsNext == ASSUME NEW faults, NEW leaves PROVE SettingsInv /\ Settings(faults, leaves)!Next => SettingsInv'
<1> SUFFICES ASSUME SettingsInv, Settings(faults, leaves)!Next PROVE SettingsInv'
  OBVIOUS
<1> USE BoundsAssumption DEF SettingsInv
<1>1. CASE Settings(faults, leaves)!Leave
  <2> USE <1>1 DEF Settings!Leave, Settings!Fresh, Settings!Nothing, Settings!Blank, Settings!Idle
  <2>1. SettingsShape'
    <3>1. DOMAIN ui'.vals = 1..More /\ ui'.section = ui.section
      BY DEF SettingsShape
    <3>2. \A k \in net' : \E j \in net : k = [j EXCEPT !.mine = FALSE]
      OBVIOUS
    <3>3. /\ DOMAIN ui' = {"section", "vals", "loaded", "edited", "busy"} /\ ui'.loaded = [f \in 1..More |-> "blank"] /\ ui'.edited = {}
          /\ DOMAIN past' = DOMAIN past /\ past'.crossed \in BOOLEAN /\ past'.said = [f \in 1..More |-> "blank"]
      BY DEF SettingsShape
    <3>4. \A k \in net' : /\ DOMAIN k = {"what", "at", "send", "vals", "mine"} /\ DOMAIN k.vals = 1..More
                          /\ k.at \in 1..More /\ k.send \subseteq 1..More /\ k.what \in {"load", "save"}
      <4> SUFFICES ASSUME NEW k \in net'
                   PROVE  /\ DOMAIN k = {"what", "at", "send", "vals", "mine"} /\ DOMAIN k.vals = 1..More
                          /\ k.at \in 1..More /\ k.send \subseteq 1..More /\ k.what \in {"load", "save"}
        OBVIOUS
      <4>1. PICK j \in net : k = [j EXCEPT !.mine = FALSE]
        BY <3>2
      <4>2. /\ DOMAIN j = {"what", "at", "send", "vals", "mine"} /\ DOMAIN j.vals = 1..More
            /\ j.at \in 1..More /\ j.send \subseteq 1..More /\ j.what \in {"load", "save"}
        BY DEF SettingsShape
      <4> QED BY <4>1, <4>2
    <3>5. srv' = srv
      OBVIOUS
    <3> QED BY <3>1, <3>3, <3>4, <3>5 DEF SettingsShape
  <2>2. SettingsAlone' /\ SettingsJob' /\ SettingsHeld'
    <3>1. CASE net = {}
      <4>1. net' = {}
        BY <3>1
      <4> QED BY <4>1 DEF SettingsShape, SettingsAlone, SettingsJob, SettingsHeld
    <3>2. CASE net # {}
      <4>1. past'.crossed
        BY <3>2 DEF SettingsShape
      <4> QED BY <4>1 DEF SettingsAlone, SettingsJob, SettingsHeld
    <3> QED BY <3>1, <3>2
  <2> QED BY <2>1, <2>2
<1>2. ASSUME NEW f \in 1..More, NEW v \in {"on", "off"}, Settings(faults, leaves)!Edit(f, v) PROVE SettingsInv'
  <2> USE <1>2 DEF Settings!Edit
  <2>1. SettingsShape'
    BY DEF SettingsShape
  <2>2. net' = net /\ srv' = srv /\ past' = past /\ ui'.section = ui.section /\ ui'.loaded = ui.loaded /\ ui'.busy = ui.busy
    BY DEF SettingsShape
  <2> QED BY <2>1, <2>2 DEF SettingsAlone, SettingsJob, SettingsHeld
<1>3. ASSUME NEW what \in {"load", "save"}, NEW send \in SUBSET (1..More), NEW vals, DOMAIN vals = 1..More,
             Settings(faults, leaves)!Start(what, send, vals),
             what = "load" => send = {},
             what = "save" /\ ui.section # "vars" => \A f \in 1..More \ send :
               vals[f] = "blank" \/ (ui.section = "network" /\ vals[f] = ui.loaded[f])
      PROVE SettingsInv'
  <2> USE <1>3 DEF Settings!Start, Settings!Nothing, Settings!Blank, Settings!Idle
  <2> DEFINE j == [what |-> what, at |-> 1, send |-> send, vals |-> vals, mine |-> TRUE]
  <2>1. SettingsShape'
    BY DEF SettingsShape
  <2>2. /\ srv' = srv /\ ui'.section = ui.section /\ ui'.loaded = ui.loaded /\ ui'.busy = what /\ past'.doubt = past.doubt
        /\ past'.crossed = past.crossed /\ \A f \in 1..More : past'.said[f] = "blank"
    BY DEF SettingsShape
  <2>3. ~past.crossed => net' = {j}
    <3>1. ~past.crossed => net = {}
      BY DEF SettingsAlone, SettingsShape
    <3> QED BY <3>1
  <2>4. j.what = what /\ j.at = 1 /\ j.send = send /\ j.vals = vals /\ j.mine = TRUE
    OBVIOUS
  <2> HIDE DEF j
  <2>5. \A k \in net' : ~past.crossed => k = j
    BY <2>3
  <2>6. SettingsAlone'
    BY <2>2, <2>4, <2>5 DEF SettingsAlone
  <2>7. SettingsJob'
    BY <2>2, <2>4, <2>5 DEF SettingsJob
  <2>8. SettingsHeld'
    <3>1. ~past.crossed => net = {}
      BY DEF SettingsAlone, SettingsShape
    <3> QED BY <2>2, <3>1 DEF SettingsHeld
  <2> QED BY <2>1, <2>6, <2>7, <2>8
<1>4. CASE Settings(faults, leaves)!Load
  <2>1. Settings(faults, leaves)!Start("load", {}, [f \in 1..More |-> "blank"])
    BY <1>4 DEF Settings!Load, Settings!Nothing, Settings!Blank
  <2> QED BY <2>1, <1>3
<1>5. CASE Settings(faults, leaves)!Save
  <2> DEFINE S == Settings(faults, leaves)!ToSend
  <2>1. Settings(faults, leaves)!Start("save", S, ui.vals)
    BY <1>5 DEF Settings!Save
  <2>2. S \subseteq 1..More /\ (ui.section # "vars" => \A f \in 1..More \ S :
                                  ui.vals[f] = "blank" \/ (ui.section = "network" /\ ui.vals[f] = ui.loaded[f]))
    BY DEF SettingsShape, Settings!ToSend, Settings!RadioSends, Settings!PositionSends, Settings!AdvertSends, Settings!NetworkSends,
           Settings!VarsSends, Settings!OwnerSends, Settings!SecuritySends, Settings!Filled, Settings!Blank
  <2> QED BY <2>1, <2>2, <1>3 DEF SettingsShape
<1>6. ASSUME NEW j \in net, Settings(faults, leaves)!Failed(j) PROVE SettingsInv'
  <2> USE <1>6 DEF Settings!Failed, Settings!Carried, Settings!Idle
  <2>1. SettingsShape'
    BY DEF SettingsShape
  <2>2. CASE past.crossed
    <3>1. past'.crossed
      BY <2>2 DEF SettingsShape
    <3> QED BY <2>1, <3>1 DEF SettingsAlone, SettingsJob, SettingsHeld
  <2>3. CASE ~past.crossed
    <3>1. net' = {}
      BY <2>3 DEF SettingsAlone
    <3>2. /\ past'.said = past.said /\ past'.doubt = past.doubt \cup {f \in j.send : f < j.at \/ (f = j.at /\ srv' # srv)}
          /\ ui'.section = ui.section /\ ui'.loaded = ui.loaded /\ \A f \in 1..More : f # j.at => srv'[f] = srv[f]
      BY DEF SettingsShape
    <3>3. srv' # srv => j.at \in j.send
      OBVIOUS
    <3>4. j.send # {} => \A f \in 1..More : past.said[f] = "blank"
      BY <2>3 DEF SettingsShape, SettingsJob
    <3>5. SettingsHeld'
      BY <2>3, <3>1, <3>2, <3>3, <3>4 DEF SettingsHeld, SettingsShape
    <3> QED BY <2>1, <3>1, <3>5 DEF SettingsAlone, SettingsJob
  <2> QED BY <2>2, <2>3
<1>7. ASSUME NEW j \in net, Settings(faults, leaves)!Answered(j) PROVE SettingsInv'
  <2> DEFINE k == IF j.what = "load" THEN [j EXCEPT !.vals[j.at] = srv[j.at]] ELSE j
  <2>1. /\ net' = (net \ {j}) \cup Settings(faults, leaves)!Step(k)
        /\ srv' = IF j.at \in j.send THEN [srv EXCEPT ![j.at] = j.vals[j.at]] ELSE srv
        /\ (j.at < More /\ UNCHANGED <<ui, past>>) \/ (j.at = More /\ Settings(faults, leaves)!Ended(k))
    BY <1>7 DEF Settings!Answered, Settings!Carried
  <2>2. /\ DOMAIN k = {"what", "at", "send", "vals", "mine"} /\ DOMAIN k.vals = 1..More
        /\ k.at = j.at /\ k.send = j.send /\ k.what = j.what /\ k.mine = j.mine
        /\ j.what # "load" => k.vals = j.vals
        /\ j.what = "load" => k.vals = [j.vals EXCEPT ![j.at] = srv[j.at]]
    BY DEF SettingsShape
  <2>3. /\ DOMAIN j = {"what", "at", "send", "vals", "mine"} /\ DOMAIN j.vals = 1..More
        /\ j.at \in 1..More /\ j.send \subseteq 1..More /\ j.what \in {"load", "save"}
    BY DEF SettingsShape
  <2> HIDE DEF k
  <2>0. DOMAIN srv' = 1..More /\ DOMAIN k.vals = 1..More
    BY <2>1, <2>2 DEF SettingsShape
  <2>4. /\ j.at \in j.send => srv'[j.at] = j.vals[j.at]
        /\ \A f \in 1..More : f # j.at \/ f \notin j.send => srv'[f] = srv[f]
    BY <2>1, <2>3 DEF SettingsShape
  <2>5. CASE j.at < More
    <3> DEFINE n == [k EXCEPT !.at = @ + 1]
    <3>1. net' = (net \ {j}) \cup {n} /\ ui' = ui /\ past' = past
      BY <2>1, <2>2, <2>5 DEF Settings!Step
    <3>2. /\ DOMAIN n = {"what", "at", "send", "vals", "mine"} /\ n.vals = k.vals /\ n.at = j.at + 1 /\ n.send = j.send
          /\ n.what = j.what /\ n.mine = j.mine
      BY <2>2
    <3> HIDE DEF n
    <3>3. /\ DOMAIN n = {"what", "at", "send", "vals", "mine"} /\ DOMAIN n.vals = 1..More
          /\ n.at \in 1..More /\ n.send \subseteq 1..More /\ n.what \in {"load", "save"}
      BY <2>0, <2>3, <2>5, <3>2
    <3>4. SettingsShape'
      BY <2>0, <3>1, <3>3 DEF SettingsShape
    <3>5. SettingsAlone'
      BY <3>1, <3>2 DEF SettingsAlone
    <3>6. ~past.crossed => net = {j} /\ net' = {n}
      BY <3>1 DEF SettingsAlone
    <3>7. SettingsJob'
      <4> SUFFICES ASSUME ~past.crossed
                   PROVE /\ n.what = "load" => /\ n.send = {} /\ \A f \in 1..More : f < n.at => n.vals[f] = srv'[f]
                                               /\ \A f \in 1..More : past.said[f] # "blank" => srv'[f] = past.said[f]
                         /\ n.what = "save" => /\ \A f \in 1..More : past.said[f] = "blank"
                                               /\ \A f \in n.send : f < n.at => srv'[f] = n.vals[f]
                                               /\ ui.section # "vars" => \A f \in 1..More \ n.send :
                                                    n.vals[f] = "blank" \/ (ui.section = "network" /\ n.vals[f] = ui.loaded[f])
        BY <3>1, <3>6 DEF SettingsJob
      <4>1. \A f \in 1..More : f < n.at <=> f < j.at \/ f = j.at
        BY <2>3, <3>2
      <4>2. CASE j.what = "load"
        <5>1. \A f \in 1..More : k.vals[f] = IF f = j.at THEN srv[f] ELSE j.vals[f]
          BY <2>2, <2>3, <4>2
        <5>2. j.send = {} /\ srv' = srv
          BY <2>1, <4>2 DEF SettingsJob
        <5> QED BY <3>2, <4>1, <4>2, <5>1, <5>2 DEF SettingsJob
      <4>3. CASE j.what = "save"
        BY <2>2, <2>3, <2>4, <3>2, <4>1, <4>3 DEF SettingsJob
      <4> QED BY <2>3, <4>2, <4>3
    <3>8. SettingsHeld'
      BY <2>3, <2>4, <3>1, <3>2, <3>6 DEF SettingsHeld, SettingsJob, SettingsShape
    <3> QED BY <3>4, <3>5, <3>7, <3>8
  <2>6. CASE j.at = More
    <3> DEFINE n == [k EXCEPT !.what = "load", !.at = 1, !.send = {}, !.vals = [f \in 1..More |-> "blank"]]
               again == j.what = "save" /\ ui.section = "vars"
    <3>1. net' = (net \ {j}) \cup (IF again THEN {n} ELSE {}) /\ Settings(faults, leaves)!Ended(k)
      BY <2>1, <2>2, <2>6 DEF Settings!Step, Settings!Reloads, Settings!Nothing, Settings!Blank
    <3>2. /\ DOMAIN n = {"what", "at", "send", "vals", "mine"} /\ n.vals = [f \in 1..More |-> "blank"] /\ n.at = 1 /\ n.send = {}
          /\ n.what = "load" /\ n.mine = j.mine
      BY <2>2
    <3> HIDE DEF n
    <3>0. /\ DOMAIN n = {"what", "at", "send", "vals", "mine"} /\ DOMAIN n.vals = 1..More
          /\ n.at \in 1..More /\ n.send \subseteq 1..More /\ n.what \in {"load", "save"}
      BY <3>2
    <3>3. CASE ~j.mine
      <4>1. ui' = ui /\ past' = past
        BY <2>2, <3>1, <3>3 DEF Settings!Ended
      <4>2. past.crossed
        BY <3>3 DEF SettingsAlone
      <4>3. SettingsShape'
        BY <2>0, <3>0, <3>1, <4>1 DEF SettingsShape
      <4> QED BY <4>1, <4>2, <4>3 DEF SettingsAlone, SettingsJob, SettingsHeld
    <3>4. CASE j.mine /\ j.what = "load"
      <4>1. /\ DOMAIN ui' = DOMAIN ui /\ DOMAIN past' = DOMAIN past /\ past'.crossed = past.crossed /\ past'.said = past.said
            /\ past'.doubt = {} /\ ui'.section = ui.section /\ ui'.edited = {}
            /\ ui'.loaded = IF ui.section = "network" THEN k.vals ELSE [f \in 1..More |-> "blank"]
            /\ DOMAIN ui'.vals = 1..More
        <5>1. /\ ui' = [ui EXCEPT !.busy = "idle", !.loaded = IF ui.section = "network" THEN k.vals ELSE [f \in 1..More |-> "blank"],
                                  !.edited = {}, !.vals = IF ui.section = "security" THEN [k.vals EXCEPT ![1] = ui.vals[1]] ELSE k.vals]
              /\ past' = [past EXCEPT !.doubt = {}]
          BY <2>2, <3>1, <3>4 DEF Settings!Ended, Settings!Base, Settings!Nothing, Settings!Blank, Settings!Secret, Settings!Idle
        <5>2. DOMAIN ui'.vals = 1..More
          BY <2>0, <5>1 DEF SettingsShape
        <5> QED BY <5>1, <5>2 DEF SettingsShape
      <4>2. SettingsShape'
        BY <2>0, <3>0, <3>1, <3>4, <4>1 DEF SettingsShape
      <4>3. ~past.crossed => net = {j} /\ net' = {}
        BY <3>1, <3>4 DEF SettingsAlone
      <4>4. ~past.crossed => j.send = {} /\ \A f \in 1..More : k.vals[f] = srv[f] /\ (past.said[f] # "blank" => srv[f] = past.said[f])
        BY <2>2, <2>3, <2>6, <3>4 DEF SettingsJob, SettingsShape
      <4>5. SettingsHeld'
        BY <2>4, <4>1, <4>3, <4>4 DEF SettingsHeld
      <4> QED BY <4>1, <4>2, <4>3, <4>5 DEF SettingsAlone, SettingsJob
    <3>5. CASE j.mine /\ j.what = "save"
      <4>1. /\ DOMAIN ui' = DOMAIN ui /\ DOMAIN past' = DOMAIN past /\ past'.crossed = past.crossed
            /\ past'.doubt = past.doubt \ j.send /\ ui'.section = ui.section /\ ui'.edited = ui.edited
            /\ ui'.loaded = IF ui.section = "network" THEN k.vals ELSE [f \in 1..More |-> "blank"]
            /\ DOMAIN ui'.vals = 1..More
            /\ again => ui'.busy = "load"
            /\ past'.said = [f \in 1..More |-> IF again /\ f \notin j.send THEN "blank" ELSE k.vals[f]]
        <5>1. /\ ui' = [ui EXCEPT !.busy = IF again THEN "load" ELSE "idle",
                                  !.loaded = IF ui.section = "network" THEN k.vals ELSE [f \in 1..More |-> "blank"],
                                  !.vals = IF ui.section = "security" THEN [@ EXCEPT ![1] = "blank"] ELSE @]
              /\ past' = [past EXCEPT !.said = [f \in 1..More |-> IF again /\ f \notin j.send THEN "blank" ELSE k.vals[f]],
                                      !.doubt = @ \ j.send]
          BY <2>2, <3>1, <3>5 DEF Settings!Ended, Settings!Base, Settings!Nothing, Settings!Blank, Settings!Secret, Settings!Reloads, Settings!Idle
        <5>2. DOMAIN ui'.vals = 1..More
          BY <5>1 DEF SettingsShape
        <5> QED BY <5>1, <5>2 DEF SettingsShape
      <4>2. SettingsShape'
        BY <2>0, <3>0, <3>1, <3>5, <4>1 DEF SettingsShape
      <4>3. ~past.crossed => net = {j} /\ net' = IF again THEN {n} ELSE {}
        BY <3>1, <3>5 DEF SettingsAlone
      <4>4. ~past.crossed => \A f \in j.send : srv'[f] = k.vals[f]
        <5>1. ~past.crossed => \A f \in j.send : f < j.at => srv[f] = j.vals[f]
          BY <3>5 DEF SettingsJob
        <5>2. \A f \in j.send : f < j.at \/ f = j.at
          BY <2>3, <2>6
        <5> QED BY <2>2, <2>3, <2>4, <3>5, <5>1, <5>2
      <4>5. ~past.crossed /\ ~again => \A f \in 1..More \ j.send :
              k.vals[f] = "blank" \/ (ui.section = "network" /\ k.vals[f] = ui.loaded[f])
        BY <2>2, <3>5 DEF SettingsJob
      <4>6. ~past.crossed => \A f \in 1..More \ (past.doubt \cup j.send) : ui.section = "network" /\ ui.loaded[f] # "blank" => srv'[f] = ui.loaded[f]
        BY <2>4, <4>3 DEF SettingsHeld
      <4>7. SettingsHeld'
        <5> SUFFICES ASSUME ~past'.crossed, NEW f \in 1..More \ past'.doubt
                     PROVE /\ past'.said[f] # "blank" => srv'[f] = past'.said[f]
                           /\ ui'.section = "network" /\ ui'.loaded[f] # "blank" => srv'[f] = ui'.loaded[f]
          BY DEF SettingsHeld
        <5>1. CASE f \in j.send
          BY <4>1, <4>4, <5>1
        <5>2. CASE f \notin j.send
          BY <4>1, <4>5, <4>6, <5>2
        <5> QED BY <5>1, <5>2
      <4>8. SettingsAlone'
        <5>1. ~past.crossed => n.mine /\ n.what = "load" /\ \A i \in net' : again /\ i = n
          BY <3>2, <3>5, <4>3
        <5> QED BY <4>1, <5>1 DEF SettingsAlone
      <4>9. SettingsJob'
        BY <2>3, <3>2, <4>1, <4>3, <4>4 DEF SettingsJob
      <4> QED BY <4>2, <4>7, <4>8, <4>9
    <3> QED BY <2>3, <3>3, <3>4, <3>5
  <2> QED BY <2>3, <2>5, <2>6
<1> QED BY <1>1, <1>2, <1>4, <1>5, <1>6, <1>7 DEF Settings!Next

LEMMA SettingsKeeps == ASSUME NEW faults, NEW leaves PROVE SettingsInv => Settings(faults, leaves)!SavedMeansHeld
BY DEF SettingsInv, SettingsHeld, Settings!SavedMeansHeld, Settings!Blank

-----------------------------------------------------------------------------
(* The regions of a remote node.                                           *)

RegionVerbs == {"add", "move", "denyf", "allowf", "remove", "home", "default", "save"}
RegionsShape(names) ==
  /\ DOMAIN ui = {"map", "loading", "fetched", "busy", "unsaved"} /\ DOMAIN net = {"load", "acts"}
  /\ DOMAIN srv = {"mem", "dirty", "cut", "allows", "marker"} /\ DOMAIN past = {"faults", "leaves", "doubt", "outlived"}
  /\ past.outlived \in BOOLEAN /\ past.doubt \in BOOLEAN /\ ui.busy \in BOOLEAN /\ ui.loading \in BOOLEAN
  /\ DOMAIN ui.map = {"list", "home", "default"} /\ DOMAIN ui.map.list = names
  /\ DOMAIN srv.mem = {"list", "home", "default"} /\ DOMAIN srv.mem.list = names
  /\ \A x \in net.acts : /\ DOMAIN x = {"verb", "name", "step", "was", "mine"}
                         /\ x.step \in {"get", "main", "again"} /\ x.verb \in RegionVerbs

\* Unless an act outlived its tab there is at most one, its tab is busy with it, and no list is on its way.
RegionsAlone ==
  ~past.outlived => /\ \A x, y \in net.acts : x = y
                    /\ \A x \in net.acts : x.mine /\ ui.busy /\ ~ui.loading
                    /\ net.load => ui.loading

RegionsMarked == srv.dirty /\ ~past.outlived => srv.marker /\ ui.unsaved

\* The list shown, and the one an act is about to change, is the node's but for the region its console leaves out.
Agrees(names, leaves, m, n) ==
  /\ m.home = n.home /\ m.default = n.default
  /\ \A r \in names : \/ m.list[r] = n.list[r]
                      \/ srv.cut /\ r = Carries(names, leaves)!Hidden /\ m.list[r] = "absent"
RegionsAgree(names, leaves) ==
  ~past.doubt /\ ~past.outlived /\ (ui.map # Carries(names, leaves)!NotRead \/ net.acts # {}) => Agrees(names, leaves, ui.map, srv.mem)

\* An add that is past its question is of a region the node does not have; the other acts are on regions listed.
RegionsAct(names) ==
  ~past.doubt /\ ~past.outlived => \A x \in net.acts :
    /\ x.verb = "add" => x.name \in names /\ x.step # "again" /\ (x.step = "main" => srv.mem.list[x.name] = "absent")
    /\ x.verb # "add" => x.step # "get" /\ (x.verb # "save" /\ x.name \in names => ui.map.list[x.name] # "absent")
    /\ x.verb = "move" => x.name \in names
    /\ x.step = "again" => x.verb = "move"

RegionsInv(names, leaves) ==
  RegionsShape(names) /\ RegionsAlone /\ RegionsMarked /\ RegionsAgree(names, leaves) /\ RegionsAct(names)

\* What the console does with an act keeps the shape of a map, and the agreement of the two it is done to.
LEMMA RegionsMadeShape ==
  ASSUME NEW names, NEW leaves, NEW x, NEW m, DOMAIN m = {"list", "home", "default"}, DOMAIN m.list = names,
         x.step \in {"get", "main", "again"}, x.verb \in RegionVerbs
  PROVE  LET n == Carries(names, leaves)!Made(m, x) IN DOMAIN n = {"list", "home", "default"} /\ DOMAIN n.list = names
<1> USE DEF Carries!Made
<1>1. CASE x.step = "get"
  BY <1>1
<1>2. CASE x.step = "again"
  BY <1>2 DEF Carries!Denied
<1>3. CASE x.step = "main"
  <2>1. CASE x.verb \in {"denyf", "allowf", "save"}
    BY <1>3, <2>1 DEF Carries!Changed, Carries!Denied
  <2>2. CASE x.verb \in {"add", "move"}
    BY <1>3, <2>2 DEF Carries!Changed, Carries!Put
  <2>3. CASE x.verb \in {"remove", "home"}
    BY <1>3, <2>3 DEF Carries!Changed, Carries!Removed
  <2>4. CASE x.verb = "default"
    BY <1>3, <2>4 DEF Carries!Changed, Carries!Defaulted
  <2> QED BY <2>1, <2>2, <2>3, <2>4 DEF RegionVerbs
<1> QED BY <1>1, <1>2, <1>3
LEMMA RegionsMade ==
  ASSUME NEW names, NEW leaves, NEW x, NEW m, DOMAIN m = {"list", "home", "default"}, DOMAIN m.list = names,
         NEW n, DOMAIN n = {"list", "home", "default"}, DOMAIN n.list = names, Agrees(names, leaves, m, n),
         x.step \in {"get", "main", "again"}, x.verb \in RegionVerbs,
         x.verb = "add" /\ x.step = "main" => x.name \in names /\ n.list[x.name] = "absent",
         x.verb \in {"move", "denyf", "allowf", "remove", "home", "default"} /\ x.name \in names => m.list[x.name] # "absent",
         x.step = "again" => x.name \in names /\ x.verb = "move"
  PROVE  Agrees(names, leaves, Carries(names, leaves)!Made(m, x), Carries(names, leaves)!Made(n, x))
<1> USE DEF Agrees, Carries!Made
<1>1. CASE x.step = "get"
  BY <1>1
<1>2. CASE x.step = "again"
  BY <1>2 DEF Carries!Denied
<1>3. CASE x.step = "main"
  <2>1. CASE x.verb = "save"
    BY <1>3, <2>1 DEF Carries!Changed
  <2>2. CASE x.verb = "denyf"
    BY <1>3, <2>2 DEF Carries!Changed, Carries!Denied
  <2>3. CASE x.verb = "allowf"
    BY <1>3, <2>3 DEF Carries!Changed, Carries!Denied
  <2>4. CASE x.verb \in {"add", "move"}
    BY <1>3, <2>4 DEF Carries!Changed, Carries!Put, Carries!Absent
  <2>5. CASE x.verb = "remove"
    BY <1>3, <2>5 DEF Carries!Changed, Carries!Removed, Carries!Absent
  <2>6. CASE x.verb = "home"
    BY <1>3, <2>6 DEF Carries!Changed
  <2>7. CASE x.verb = "default"
    BY <1>3, <2>7 DEF Carries!Changed, Carries!Defaulted
  <2> QED BY <2>1, <2>2, <2>3, <2>4, <2>5, <2>6, <2>7 DEF RegionVerbs
<1> QED BY <1>1, <1>2, <1>3

LEMMA RegionsInit == ASSUME NEW names, NEW leaves PROVE Carries(names, leaves)!Init => RegionsInv(names, leaves)
BY DEF Carries!Init, Carries!Fresh, Carries!NotRead, RegionsInv, RegionsShape, RegionsAlone, RegionsMarked, RegionsAgree, RegionsAct

LEMMA RegionsBegin ==
  ASSUME NEW names, NEW leaves, RegionsInv(names, leaves), NEW verb \in RegionVerbs, NEW name,
         Carries(names, leaves)!Begin(verb, name),
         verb = "add" => name \in names /\ ui.map.list[name] = "absent",
         verb \notin {"add", "save"} /\ name \in names => ui.map.list[name] # "absent", verb = "move" => name \in names
  PROVE  RegionsInv(names, leaves)'
<1> USE DEF RegionsInv, Carries!Begin
<1> DEFINE n == [verb |-> verb, name |-> name, mine |-> TRUE, step |-> IF verb = "add" /\ srv.cut THEN "get" ELSE "main",
                 was |-> IF name \in names THEN ui.map.list[name] ELSE "absent"]
<1>1. /\ ui' = [ui EXCEPT !.busy = TRUE] /\ net' = [net EXCEPT !.acts = @ \cup {n}] /\ srv' = srv /\ past' = past
      /\ ~ui.busy /\ ~ui.loading /\ ui.map # Carries(names, leaves)!NotRead
  BY DEF Carries!Absent
<1>2. /\ DOMAIN n = {"verb", "name", "step", "was", "mine"} /\ n.step \in {"get", "main"} /\ n.verb = verb /\ n.name = name /\ n.mine
      /\ (n.step = "get" <=> verb = "add" /\ srv.cut)
  OBVIOUS
<1> HIDE DEF n, Carries!Begin
<1>3. /\ ui'.busy /\ ui'.loading = ui.loading /\ ui'.map = ui.map /\ ui'.unsaved = ui.unsaved /\ net'.load = net.load
      /\ net'.acts = net.acts \cup {n}
  BY <1>1 DEF RegionsShape
<1>4. RegionsShape(names)'
  BY <1>1, <1>2 DEF RegionsShape
<1>5. ~past.outlived => net.acts = {}
  BY <1>1 DEF RegionsAlone
<1>6. RegionsAlone'
  BY <1>1, <1>2, <1>3, <1>5 DEF RegionsAlone
<1>7. RegionsMarked'
  BY <1>1, <1>3 DEF RegionsMarked
<1>8. RegionsAgree(names, leaves)'
  BY <1>1, <1>3 DEF RegionsAgree, Agrees
<1>9. RegionsAct(names)'
  <2> SUFFICES ASSUME ~past.doubt, ~past.outlived
               PROVE  /\ n.verb = "add" => n.name \in names /\ n.step # "again" /\ (n.step = "main" => srv.mem.list[n.name] = "absent")
                      /\ n.verb # "add" => n.step # "get" /\ (n.verb # "save" /\ n.name \in names => ui.map.list[n.name] # "absent")
                      /\ n.verb = "move" => n.name \in names
                      /\ n.step = "again" => n.verb = "move"
    BY <1>1, <1>3, <1>5 DEF RegionsAct
  <2>1. Agrees(names, leaves, ui.map, srv.mem)
    BY <1>1 DEF RegionsAgree
  <2> QED BY <1>2, <2>1 DEF Agrees
<1> QED BY <1>4, <1>6, <1>7, <1>8, <1>9

LEMMA RegionsNext == ASSUME NEW names, NEW leaves PROVE RegionsInv(names, leaves) /\ Carries(names, leaves)!Next => RegionsInv(names, leaves)'
<1> SUFFICES ASSUME RegionsInv(names, leaves), Carries(names, leaves)!Next PROVE RegionsInv(names, leaves)'
  OBVIOUS
<1> USE DEF RegionsInv
<1>1. CASE Carries(names, leaves)!Load
  <2> USE <1>1 DEF Carries!Load
  <2>1. RegionsShape(names)'
    BY DEF RegionsShape
  <2>2. /\ ui'.map = ui.map /\ ui'.unsaved = ui.unsaved /\ net'.acts = net.acts /\ srv' = srv /\ past' = past
        /\ ui'.loading /\ ~ui.busy
    BY DEF RegionsShape
  <2>3. ~past.outlived => net.acts = {}
    BY <2>2 DEF RegionsAlone
  <2> QED BY <2>1, <2>2, <2>3 DEF RegionsAlone, RegionsMarked, RegionsAgree, RegionsAct, Agrees
<1>2. CASE Carries(names, leaves)!LoadLands
  <2> USE <1>2 DEF Carries!LoadLands, Carries!Spend
  <2>1. /\ DOMAIN ui' = DOMAIN ui /\ DOMAIN net' = DOMAIN net /\ srv' = srv /\ DOMAIN past' = DOMAIN past
        /\ past'.outlived = past.outlived /\ past'.doubt \in {past.doubt, FALSE} /\ ui'.loading = FALSE /\ ui'.busy = ui.busy
        /\ net'.load = FALSE /\ net'.acts = net.acts /\ ui'.unsaved = ui.unsaved
        /\ (ui'.map = ui.map /\ past'.doubt = past.doubt) \/ ui'.map = Carries(names, leaves)!Listed
    BY DEF RegionsShape
  <2>2. LET l == Carries(names, leaves)!Listed IN
        DOMAIN l = {"list", "home", "default"} /\ DOMAIN l.list = names /\ Agrees(names, leaves, l, srv.mem)
    BY DEF RegionsShape, Carries!Listed, Agrees, Carries!Absent
  <2>3. RegionsShape(names)'
    BY <2>1, <2>2 DEF RegionsShape
  <2>4. ~past.outlived => net.acts = {}
    BY DEF RegionsAlone
  <2>5. RegionsAgree(names, leaves)'
    BY <2>1, <2>2 DEF RegionsAgree, Agrees
  <2> QED BY <2>1, <2>3, <2>4, <2>5 DEF RegionsAlone, RegionsMarked, RegionsAct
<1>3. CASE Carries(names, leaves)!Leave
  <2> USE <1>3 DEF Carries!Leave
  <2>1. /\ ui' = Carries(names, leaves)!Fresh(srv.marker) /\ srv' = srv /\ net'.load = FALSE /\ DOMAIN net' = DOMAIN net
        /\ net'.acts = {[x EXCEPT !.mine = FALSE] : x \in net.acts}
    BY DEF RegionsShape
  <2>2. DOMAIN past' = DOMAIN past /\ past'.doubt = FALSE /\ past'.outlived \in BOOLEAN /\ (past'.outlived <=> past.outlived \/ net.acts # {})
    BY DEF RegionsShape
  <2>3. /\ DOMAIN ui' = DOMAIN ui /\ ui'.map = Carries(names, leaves)!NotRead /\ ui'.loading = FALSE /\ ui'.busy = FALSE
        /\ ui'.unsaved = srv.marker
    BY <2>1 DEF RegionsShape, Carries!Fresh
  <2>4. DOMAIN ui'.map = {"list", "home", "default"} /\ DOMAIN ui'.map.list = names
    BY <2>3 DEF Carries!NotRead
  <2>5. \A y \in net'.acts : /\ DOMAIN y = {"verb", "name", "step", "was", "mine"}
                             /\ y.step \in {"get", "main", "again"} /\ y.verb \in RegionVerbs
    BY <2>1 DEF RegionsShape
  <2>6. RegionsShape(names)'
    BY <2>1, <2>2, <2>3, <2>4, <2>5 DEF RegionsShape
  <2>7. ~past'.outlived => ~past.outlived /\ net'.acts = {}
    BY <2>1, <2>2 DEF RegionsShape
  <2> QED BY <2>1, <2>2, <2>3, <2>6, <2>7 DEF RegionsAlone, RegionsMarked, RegionsAgree, RegionsAct
<1>4. CASE Carries(names, leaves)!Save
  BY <1>4, RegionsBegin DEF Carries!Save, RegionVerbs
<1>5. ASSUME NEW r \in names, Carries(names, leaves)!Add(r) PROVE RegionsInv(names, leaves)'
  <2>1. Carries(names, leaves)!Begin("add", r) /\ ui.map.list[r] = "absent"
    BY <1>5 DEF Carries!Add, Carries!Shown, Carries!Absent
  <2> QED BY <2>1, RegionsBegin DEF RegionVerbs
<1>6. ASSUME NEW r \in names, NEW verb \in {"move", "denyf", "allowf", "remove"}, Carries(names, leaves)!Shown(r),
             Carries(names, leaves)!Begin(verb, r)
      PROVE  RegionsInv(names, leaves)'
  BY <1>6, RegionsBegin DEF RegionVerbs, Carries!Shown, Carries!Absent
<1>7. ASSUME NEW r \in names, Carries(names, leaves)!Move(r) \/ Carries(names, leaves)!Deny(r) \/ Carries(names, leaves)!RemoveRegion(r)
      PROVE  RegionsInv(names, leaves)'
  BY <1>6, <1>7 DEF Carries!Move, Carries!Deny, Carries!RemoveRegion
<1>8. ASSUME NEW r, Carries(names, leaves)!Home(r) \/ Carries(names, leaves)!Default(r) PROVE RegionsInv(names, leaves)'
  <2>1. PICK verb \in {"home", "default"} : Carries(names, leaves)!Begin(verb, r)
    BY <1>8 DEF Carries!Home, Carries!Default
  <2>2. r \in names => ui.map.list[r] # "absent"
    BY <1>8 DEF Carries!Home, Carries!Default, Carries!Shown, Carries!Absent
  <2> QED BY <2>1, <2>2, RegionsBegin DEF RegionVerbs
<1>9. ASSUME NEW x \in net.acts, Carries(names, leaves)!Over(x), Carries(names, leaves)!Finds(x) \/ srv' = srv,
             DOMAIN ui' = DOMAIN ui, ui'.loading = ui.loading, ui'.busy = IF x.mine THEN FALSE ELSE ui.busy, ui'.map = ui.map, srv'.mem = srv.mem,
             DOMAIN srv' = DOMAIN srv, srv'.cut = srv.cut,
             DOMAIN past' = DOMAIN past, past'.doubt = past.doubt, past'.outlived = past.outlived, RegionsMarked'
      PROVE  RegionsInv(names, leaves)'
  <2>1. net'.acts = net.acts \ {x} /\ net'.load = net.load /\ DOMAIN net' = DOMAIN net
    BY <1>9 DEF Carries!Over, RegionsShape
  <2>2. RegionsShape(names)'
    BY <1>9, <2>1 DEF RegionsShape
  <2>3. ~past.outlived => net'.acts = {} /\ ~net'.load
    BY <2>1 DEF RegionsAlone
  <2>4. RegionsAgree(names, leaves)'
    BY <1>9, <2>1 DEF RegionsAgree, Agrees
  <2> QED BY <1>9, <2>2, <2>3, <2>4 DEF RegionsAlone, RegionsAct
<1>10. ASSUME NEW x \in net.acts, Carries(names, leaves)!Got(x) PROVE RegionsInv(names, leaves)'
  <2> USE <1>10 DEF Carries!Got
  <2>1. CASE srv.mem.list[x.name] = "absent" /\ Carries(names, leaves)!On(x, "main") /\ ui' = ui
    <3> DEFINE n == [x EXCEPT !.step = "main"]
    <3>1. net'.acts = (net.acts \ {x}) \cup {n} /\ net'.load = net.load /\ DOMAIN net' = DOMAIN net
      BY <2>1 DEF Carries!On, RegionsShape
    <3>2. DOMAIN n = {"verb", "name", "step", "was", "mine"} /\ n.step = "main" /\ n.verb = x.verb /\ n.name = x.name /\ n.mine = x.mine
      BY DEF RegionsShape
    <3> HIDE DEF n
    <3>3. x.step = "get" /\ srv' = srv /\ past' = past
      OBVIOUS
    <3>4. RegionsShape(names)'
      BY <2>1, <3>1, <3>2, <3>3 DEF RegionsShape
    <3>5. ~past.outlived => net.acts = {x} /\ net'.acts = {n}
      BY <3>1 DEF RegionsAlone
    <3>6. RegionsAlone' /\ RegionsMarked'
      BY <2>1, <3>1, <3>2, <3>3, <3>5 DEF RegionsAlone, RegionsMarked
    <3>7. RegionsAgree(names, leaves)'
      BY <2>1, <3>1, <3>3 DEF RegionsAgree, Agrees
    <3>8. RegionsAct(names)'
      BY <2>1, <3>2, <3>3, <3>5 DEF RegionsAct
    <3> QED BY <3>4, <3>6, <3>7, <3>8
  <2>2. CASE Carries(names, leaves)!Over(x) /\ ui' = Carries(names, leaves)!Unbusy(x)
    BY <1>9, <2>2 DEF Carries!Unbusy, RegionsShape, RegionsMarked
  <2> QED BY <2>1, <2>2 DEF Carries!Absent
<1>11. ASSUME NEW x \in net.acts, Carries(names, leaves)!Refused(x) PROVE RegionsInv(names, leaves)'
  BY <1>9, <1>11 DEF Carries!Refused, Carries!Unbusy, Carries!Spend, RegionsShape, RegionsMarked
<1>12. ASSUME NEW x \in net.acts PROVE LET s == Carries(names, leaves)!Carried(x) IN
         /\ DOMAIN s = DOMAIN srv /\ s.cut = srv.cut /\ s.allows = srv.allows /\ s.mem = Carries(names, leaves)!Made(srv.mem, x)
         /\ (x.verb \in {"save", "default"} => ~s.dirty)
         /\ DOMAIN s.mem = {"list", "home", "default"} /\ DOMAIN s.mem.list = names
  <2>1. LET n == Carries(names, leaves)!Made(srv.mem, x) IN DOMAIN n = {"list", "home", "default"} /\ DOMAIN n.list = names
    <3>1. DOMAIN srv.mem = {"list", "home", "default"} /\ DOMAIN srv.mem.list = names
      BY DEF RegionsShape
    <3>2. x.step \in {"get", "main", "again"} /\ x.verb \in RegionVerbs
      BY DEF RegionsShape
    <3> QED BY <3>1, <3>2, RegionsMadeShape
  <2> QED BY <2>1 DEF Carries!Carried, RegionsShape
<1>13. ASSUME NEW x \in net.acts, Carries(names, leaves)!NoReply(x) PROVE RegionsInv(names, leaves)'
  <2> USE <1>13 DEF Carries!NoReply, Carries!Spend
  <2>1. CASE x.step = "get"
    BY <1>9, <2>1 DEF Carries!Unbusy, RegionsShape, RegionsMarked
  <2>2. CASE x.step # "get"
    <3>1. /\ net'.acts = net.acts \ {x} /\ net'.load = net.load /\ DOMAIN net' = DOMAIN net
          /\ DOMAIN past' = DOMAIN past /\ past'.doubt = TRUE /\ past'.outlived = past.outlived
      BY <2>2 DEF Carries!Over, RegionsShape
    <3>2. ui' = IF x.mine THEN [ui EXCEPT !.busy = FALSE, !.unsaved = TRUE] ELSE ui
      BY <2>2
    <3>3. srv'.marker /\ DOMAIN srv' = DOMAIN srv /\ DOMAIN srv'.mem = {"list", "home", "default"} /\ DOMAIN srv'.mem.list = names
      <4>1. PICK s \in {srv, Carries(names, leaves)!Carried(x)} : srv' = [s EXCEPT !.marker = TRUE]
        BY <2>2 DEF Carries!Marked
      <4> QED BY <4>1, <1>12 DEF RegionsShape
    <3>4. RegionsShape(names)'
      BY <3>1, <3>2, <3>3 DEF RegionsShape
    <3>5. ~past.outlived => net'.acts = {} /\ ~net'.load /\ ui'.unsaved
      BY <3>1, <3>2 DEF RegionsAlone, RegionsShape
    <3> QED BY <3>1, <3>3, <3>4, <3>5 DEF RegionsAlone, RegionsMarked, RegionsAgree, RegionsAct
  <2> QED BY <2>1, <2>2
<1>14. ASSUME NEW x \in net.acts, Carries(names, leaves)!Answered(x) PROVE RegionsInv(names, leaves)'
  <2> DEFINE made(m) == Carries(names, leaves)!Made(m, x)
             u == IF x.mine THEN [ui EXCEPT !.map = made(@), !.unsaved = ~(x.verb \in {"save", "default"})] ELSE ui
  <2>1. /\ x.step # "get" /\ past' = past /\ srv' = [Carries(names, leaves)!Carried(x) EXCEPT !.marker = ~(x.verb \in {"save", "default"})]
        /\ \/ Carries(names, leaves)!DeniesAgain(x) /\ Carries(names, leaves)!On(x, "again") /\ ui' = u
           \/ Carries(names, leaves)!Over(x) /\ ui' = IF x.mine THEN [u EXCEPT !.busy = FALSE] ELSE u
    BY <1>14 DEF Carries!Answered, Carries!Marked
  <2>2. /\ DOMAIN srv' = DOMAIN srv /\ srv'.cut = srv.cut /\ srv'.mem = made(srv.mem)
        /\ (x.verb \in {"save", "default"} => ~srv'.dirty) /\ (x.verb \notin {"save", "default"} => srv'.marker)
        /\ DOMAIN srv'.mem = {"list", "home", "default"} /\ DOMAIN srv'.mem.list = names
    <3> DEFINE s == Carries(names, leaves)!Carried(x)
    <3>1. /\ DOMAIN s = DOMAIN srv /\ s.cut = srv.cut /\ s.mem = made(srv.mem) /\ (x.verb \in {"save", "default"} => ~s.dirty)
          /\ DOMAIN s.mem = {"list", "home", "default"} /\ DOMAIN s.mem.list = names
      BY <1>12
    <3>2. srv' = [s EXCEPT !.marker = ~(x.verb \in {"save", "default"})]
      BY <2>1
    <3>3. {"mem", "cut", "dirty", "marker"} \subseteq DOMAIN srv
      BY DEF RegionsShape
    <3> HIDE DEF s, made
    <3> QED BY <3>1, <3>2, <3>3
  <2>3. DOMAIN made(ui.map) = {"list", "home", "default"} /\ DOMAIN made(ui.map).list = names
    <3>1. DOMAIN ui.map = {"list", "home", "default"} /\ DOMAIN ui.map.list = names
      BY DEF RegionsShape
    <3>2. x.step \in {"get", "main", "again"} /\ x.verb \in RegionVerbs
      BY DEF RegionsShape
    <3> QED BY <3>1, <3>2, RegionsMadeShape
  <2>4. /\ DOMAIN u = DOMAIN ui /\ u.loading = ui.loading /\ u.busy = ui.busy
        /\ u.map = IF x.mine THEN made(ui.map) ELSE ui.map
        /\ x.mine /\ x.verb \notin {"save", "default"} => u.unsaved
        /\ DOMAIN u.map = {"list", "home", "default"} /\ DOMAIN u.map.list = names
    BY <2>3 DEF RegionsShape
  <2> HIDE DEF u, made
  <2>5. ~past.outlived => net.acts = {x} /\ x.mine /\ ~ui.loading /\ ~net.load
    BY DEF RegionsAlone, RegionsShape
  <2>6. ~past.doubt /\ ~past.outlived => Agrees(names, leaves, made(ui.map), made(srv.mem))
    <3> SUFFICES ASSUME ~past.doubt, ~past.outlived PROVE Agrees(names, leaves, made(ui.map), made(srv.mem))
      OBVIOUS
    <3>1. Agrees(names, leaves, ui.map, srv.mem)
      BY DEF RegionsAgree
    <3>2. /\ x.step \in {"get", "main", "again"} /\ x.verb \in RegionVerbs
          /\ DOMAIN ui.map = {"list", "home", "default"} /\ DOMAIN ui.map.list = names
          /\ DOMAIN srv.mem = {"list", "home", "default"} /\ DOMAIN srv.mem.list = names
      BY DEF RegionsShape
    <3>3. /\ x.verb = "add" /\ x.step = "main" => x.name \in names /\ srv.mem.list[x.name] = "absent"
          /\ x.verb \in {"move", "denyf", "allowf", "remove", "home", "default"} /\ x.name \in names => ui.map.list[x.name] # "absent"
          /\ x.step = "again" => x.name \in names /\ x.verb = "move"
      BY DEF RegionsAct
    <3> QED BY <3>1, <3>2, <3>3, RegionsMade DEF made
  <2>7. /\ DOMAIN ui' = DOMAIN ui /\ ui'.loading = ui.loading /\ ui'.map = u.map /\ ui'.unsaved = u.unsaved /\ ui'.busy \in BOOLEAN
    <3>1. ui' \in {u, [u EXCEPT !.busy = FALSE]}
      BY <2>1, <2>4
    <3>2. {"loading", "busy", "map", "unsaved"} \subseteq DOMAIN u /\ u.busy \in BOOLEAN
      BY <2>4 DEF RegionsShape
    <3> QED BY <2>4, <3>1, <3>2
  <2>8. RegionsMarked'
    BY <2>1, <2>2, <2>4, <2>5, <2>7 DEF RegionsMarked
  <2>9. RegionsAgree(names, leaves)'
    BY <2>1, <2>2, <2>4, <2>5, <2>6, <2>7 DEF RegionsAgree, Agrees
  <2>10. CASE Carries(names, leaves)!Over(x) /\ ui' = IF x.mine THEN [u EXCEPT !.busy = FALSE] ELSE u
    <3>1. net'.acts = net.acts \ {x} /\ net'.load = net.load /\ DOMAIN net' = DOMAIN net
      BY <2>10 DEF Carries!Over, RegionsShape
    <3>2. RegionsShape(names)'
      BY <2>1, <2>2, <2>4, <2>7, <3>1 DEF RegionsShape
    <3>3. ~past.outlived => net'.acts = {} /\ ~net'.load
      BY <2>5, <3>1
    <3> QED BY <2>1, <2>8, <2>9, <3>2, <3>3 DEF RegionsAlone, RegionsAct
  <2>11. CASE Carries(names, leaves)!DeniesAgain(x) /\ Carries(names, leaves)!On(x, "again") /\ ui' = u
    <3> DEFINE n == [x EXCEPT !.step = "again"]
    <3>1. net'.acts = (net.acts \ {x}) \cup {n} /\ net'.load = net.load /\ DOMAIN net' = DOMAIN net
      BY <2>11 DEF Carries!On, RegionsShape
    <3>2. DOMAIN n = {"verb", "name", "step", "was", "mine"} /\ n.step = "again" /\ n.verb = x.verb /\ n.name = x.name /\ n.mine = x.mine
      BY DEF RegionsShape
    <3> HIDE DEF n
    <3>3. x.verb = "move" /\ x.step = "main" /\ srv.allows
      BY <2>11 DEF Carries!DeniesAgain
    <3>4. RegionsShape(names)'
      BY <2>1, <2>2, <2>4, <2>7, <3>1, <3>2, <3>3 DEF RegionsShape
    <3>5. ~past.outlived => net'.acts = {n} /\ n.mine
      BY <2>5, <3>1, <3>2
    <3>6. RegionsAlone'
      BY <2>1, <2>4, <2>5, <2>11, <3>1, <3>5 DEF RegionsAlone
    <3>7. x.name \in names => made(ui.map).list[x.name] = "flood"
      BY <3>3 DEF made, Carries!Made, Carries!Changed, Carries!Put, RegionsShape
    <3>8. RegionsAct(names)'
      BY <2>1, <2>4, <2>5, <2>7, <3>2, <3>3, <3>5, <3>7 DEF RegionsAct
    <3> QED BY <2>8, <2>9, <3>4, <3>6, <3>8
  <2> QED BY <2>1, <2>10, <2>11
<1> QED BY <1>1, <1>2, <1>3, <1>4, <1>5, <1>7, <1>8, <1>10, <1>11, <1>13, <1>14 DEF Carries!Next


\* An add changes the node's regions only where the node had none of that name.
LEMMA RegionsAdds ==
  ASSUME NEW names, NEW leaves, RegionsInv(names, leaves), Carries(names, leaves)!Next PROVE Carries(names, leaves)!AddsOnlyNew
<1> SUFFICES ASSUME NEW x \in net.acts, x.verb = "add", x \notin net'.acts, srv'.mem # srv.mem, ~past.doubt, ~past'.outlived
             PROVE  srv.mem.list[x.name] = "absent"
  BY DEF Carries!AddsOnlyNew, Carries!Absent
<1> USE DEF RegionsInv
<1>1. PICK y \in net.acts : Carries(names, leaves)!Got(y) \/ Carries(names, leaves)!Answered(y) \/ Carries(names, leaves)!Refused(y) \/ Carries(names, leaves)!NoReply(y)
  BY DEF Carries!Next, Carries!Load, Carries!LoadLands, Carries!Leave, Carries!Save, Carries!Add, Carries!Move, Carries!Deny, Carries!RemoveRegion,
         Carries!Home, Carries!Default, Carries!Begin
<1>2. past'.outlived = past.outlived
  BY <1>1 DEF Carries!Got, Carries!Answered, Carries!Refused, Carries!NoReply, Carries!Spend, RegionsShape
<1>3. y = x
  BY <1>2 DEF RegionsAlone, RegionsShape
<1>4. x.step # "get"
  BY <1>1, <1>3 DEF Carries!Got, Carries!Answered, Carries!Refused, Carries!NoReply
<1> QED BY <1>2, <1>4 DEF RegionsAct, RegionsShape

LEMMA RegionsKeeps == ASSUME NEW names, NEW leaves PROVE RegionsInv(names, leaves) => Carries(names, leaves)!UnsavedSeen
BY DEF RegionsInv, RegionsMarked, Carries!UnsavedSeen

-----------------------------------------------------------------------------
(* What is watched of a contact.                                           *)

LEMMA WatchCardinality == ASSUME NEW S PROVE Watch!Cardinality(S) = Cardinality(S)
BY DEF Watch!Cardinality, Cardinality, Watch!IsFiniteSet, IsFiniteSet

Owned(m) == {"on", "push"} \cup (IF m.push THEN {"ticked"} ELSE {})
Metadata == {"on", "push", "ticked", "grant"}

WatchShape ==
  /\ DOMAIN ui = {"given", "loaded", "form", "rows", "base", "saving", "reading"} /\ DOMAIN net = {"load", "patches", "read"}
  /\ DOMAIN past = {"faults", "edited", "failed", "late"} /\ past.failed \in BOOLEAN /\ past.late \in BOOLEAN
  /\ ui.given \in BOOLEAN /\ ui.loaded \in BOOLEAN /\ ui.saving \in BOOLEAN /\ net.load \in BOOLEAN
  /\ DOMAIN ui.form = Metadata /\ DOMAIN ui.base = Metadata /\ DOMAIN srv = Metadata
  /\ \A p \in net.patches : DOMAIN p = {"meta", "base", "fields"} /\ DOMAIN p.meta = Metadata /\ DOMAIN p.base = Metadata

\* One save at a time, of a form that is loaded; it sends what the form owns, as it stood, and what the save
\* started from.
WatchPatch ==
  /\ net.load <=> ~ui.loaded
  /\ ui.given => ui.loaded
  /\ ui.saving <=> net.patches # {}
  /\ ui.saving => ui.loaded
  /\ \A p, q \in net.patches : p = q
  /\ \A p \in net.patches : p.fields = Owned(p.meta) /\ p.base = ui.base

\* Where the load went well, what differs from the contact's metadata, or from the save under way, was edited.
WatchEdited ==
  /\ \A p \in net.patches : ~past.late => \A f \in {"on", "push", "ticked"} : ui.form[f] = p.meta[f]
  /\ ~past.failed => \A f \in {"on", "push", "ticked"} :
       /\ ui.loaded => ui.base[f] = srv[f] /\ (ui.form[f] # srv[f] => f \in past.edited)
       /\ \A p \in net.patches : /\ p.meta[f] # srv[f] => f \in past.edited
                                 /\ ui.form[f] # p.meta[f] => f \in past.edited

\* No more readings are ticked than there is room for.
PatchFits(T) == IsFiniteSet(T) /\ Cardinality(T) <= Few
WatchRoom ==
  /\ PatchFits(srv.ticked) /\ PatchFits(ui.form.ticked) /\ PatchFits(ui.base.ticked) /\ IsFiniteSet(ui.rows)
  /\ \A p \in net.patches : PatchFits(p.meta.ticked)

WatchInv == WatchShape /\ WatchPatch /\ WatchEdited /\ WatchRoom

LEMMA WatchInit == Watch!Init => WatchInv
<1> SUFFICES ASSUME Watch!Init PROVE WatchInv
  OBVIOUS
<1>1. PICK g \in BOOLEAN, t \in SUBSET Alike :
        /\ Cardinality(t) <= Few /\ srv = [on |-> TRUE, push |-> t # {}, ticked |-> t, grant |-> FALSE]
        /\ ui = (IF g THEN Watch!Apply(Watch!Fresh(g), srv) ELSE Watch!Fresh(g)) /\ net = [load |-> ~g, patches |-> {}, read |-> FALSE]
        /\ past = [faults |-> 0, edited |-> {}, failed |-> FALSE, late |-> FALSE]
  BY WatchCardinality DEF Watch!Init
<1>2. /\ DOMAIN ui = {"given", "loaded", "form", "rows", "base", "saving", "reading"} /\ ui.given = g /\ ui.loaded = g /\ ui.saving = FALSE
      /\ ui.form = (IF g THEN srv ELSE Watch!Empty) /\ ui.base = ui.form /\ ui.rows = IF g THEN t ELSE {}
  BY <1>1 DEF Watch!Apply, Watch!Fresh
<1>3. WatchShape
  <2>1. DOMAIN srv = Metadata /\ DOMAIN Watch!Empty = Metadata
    BY <1>1 DEF Watch!Empty, Metadata
  <2> QED BY <1>1, <1>2, <2>1 DEF WatchShape
<1>4. WatchPatch /\ WatchEdited
  BY <1>1, <1>2 DEF WatchPatch, WatchEdited, Watch!Empty
<1>5. IsFiniteSet(t) /\ PatchFits({}) /\ IsFiniteSet({})
  BY FiniteAssumption, BoundsAssumption, FS_Subset, FS_EmptySet DEF PatchFits
<1>6. WatchRoom
  BY <1>1, <1>2, <1>5 DEF WatchRoom, Watch!Empty, PatchFits
<1> QED BY <1>3, <1>4, <1>6 DEF WatchInv

\* Of the readings found, no more are ticked than there is room for.
LEMMA WatchPicked == ASSUME NEW fresh, IsFiniteSet(fresh), NEW T \in Watch!Picked(fresh) PROVE PatchFits(T)
<1>1. T \subseteq fresh /\ Cardinality(T) = IF Cardinality(fresh) < Few THEN Cardinality(fresh) ELSE Few
  BY WatchCardinality DEF Watch!Picked
<1>2. Cardinality(fresh) \in Nat
  BY FS_CardinalityType
<1> QED BY <1>1, <1>2, BoundsAssumption, FS_Subset DEF PatchFits

\* A change of one field of the form, which counts as an edit of it.
LEMMA WatchEdit ==
  ASSUME WatchInv, NEW f \in {"on", "push", "ticked"}, Watch!Edited(f), srv' = srv, net'.load = net.load, net'.patches = net.patches,
         DOMAIN net' = DOMAIN net, DOMAIN ui' = DOMAIN ui, DOMAIN ui'.form = Metadata, ui'.given = ui.given, ui'.loaded = ui.loaded, ui'.base = ui.base,
         ui'.saving = ui.saving, \A g \in Metadata \ {f} : ui'.form[g] = ui.form[g], IsFiniteSet(ui'.rows), PatchFits(ui'.form.ticked)
  PROVE  WatchInv'
<1> USE DEF WatchInv
<1>1. /\ DOMAIN past' = DOMAIN past /\ past'.failed = past.failed /\ past'.edited = past.edited \cup {f}
      /\ past'.late \in BOOLEAN /\ (past'.late <=> past.late \/ net.patches # {})
  BY DEF Watch!Edited, WatchShape
<1>2. WatchShape'
  BY <1>1 DEF WatchShape
<1>3. WatchPatch'
  BY DEF WatchPatch
<1>4. WatchEdited'
  BY <1>1 DEF WatchEdited, Metadata
<1>5. WatchRoom'
  BY DEF WatchRoom
<1> QED BY <1>2, <1>3, <1>4, <1>5

LEMMA WatchNext == WatchInv /\ Watch!Next => WatchInv'
<1> SUFFICES ASSUME WatchInv, Watch!Next PROVE WatchInv'
  OBVIOUS
<1> USE DEF WatchInv
<1>1. CASE Watch!LoadLands
  <2> USE <1>1 DEF Watch!LoadLands
  <2>1. ~ui.loaded /\ net.patches = {} /\ ~ui.given
    BY DEF WatchPatch, WatchShape
  <2>2. PICK m : ui' = Watch!Apply(ui, m) /\ ((m = srv /\ past' = [past EXCEPT !.edited = {}])
                  \/ (m = Watch!Empty /\ past' = [past EXCEPT !.faults = @ + 1, !.failed = TRUE]))
    BY DEF Watch!Fault
  <2>3. DOMAIN m = Metadata /\ PatchFits(m.ticked)
    <3>1. DOMAIN Watch!Empty = Metadata /\ Watch!Empty.ticked = {}
      BY DEF Watch!Empty, Metadata
    <3>2. PatchFits({})
      BY BoundsAssumption, FS_EmptySet DEF PatchFits
    <3> QED BY <2>2, <3>1, <3>2 DEF WatchShape, WatchRoom
  <2>4. /\ DOMAIN ui' = DOMAIN ui /\ ui'.given = ui.given /\ ui'.loaded = TRUE /\ ui'.form = m /\ ui'.base = m /\ ui'.rows = m.ticked
        /\ ui'.saving = ui.saving
    BY <2>2 DEF Watch!Apply, WatchShape
  <2>5. DOMAIN net' = DOMAIN net /\ net'.load = FALSE /\ net'.patches = {} /\ srv' = srv
    BY <2>1 DEF WatchShape
  <2>6. DOMAIN past' = DOMAIN past /\ past'.late = past.late /\ ((past'.failed = past.failed /\ m = srv) \/ past'.failed = TRUE)
    BY <2>2 DEF WatchShape
  <2>7. WatchShape'
    BY <2>3, <2>4, <2>5, <2>6 DEF WatchShape
  <2>8. WatchPatch'
    BY <2>1, <2>4, <2>5 DEF WatchPatch
  <2>9. WatchEdited'
    BY <2>4, <2>5, <2>6 DEF WatchEdited
  <2>10. WatchRoom'
    BY <2>3, <2>4, <2>5 DEF WatchRoom, PatchFits
  <2> QED BY <2>7, <2>8, <2>9, <2>10
<1>2. CASE Watch!Toggle
  <2>1. DOMAIN ui' = DOMAIN ui /\ DOMAIN ui'.form = Metadata /\ ui'.form.ticked = ui.form.ticked
    BY <1>2 DEF Watch!Toggle, WatchShape, Metadata
  <2> QED BY <1>2, <2>1, WatchEdit DEF Watch!Toggle, WatchShape, WatchRoom, Metadata
<1>3. CASE Watch!Turn
  <2>1. /\ DOMAIN ui' = DOMAIN ui /\ DOMAIN ui'.form = Metadata /\ ui'.form.ticked = ui.form.ticked
        /\ \A g \in Metadata \ {"push"} : ui'.form[g] = ui.form[g]
    BY <1>3 DEF Watch!Turn, WatchShape, Metadata
  <2>2. /\ DOMAIN net' = DOMAIN net /\ net'.load = net.load /\ net'.patches = net.patches /\ srv' = srv /\ Watch!Edited("push")
        /\ ui'.given = ui.given /\ ui'.loaded = ui.loaded /\ ui'.base = ui.base /\ ui'.saving = ui.saving /\ ui'.rows = ui.rows
    BY <1>3 DEF Watch!Turn, WatchShape
  <2>3. PatchFits(ui'.form.ticked) /\ IsFiniteSet(ui'.rows)
    BY <2>1, <2>2 DEF WatchRoom
  <2> QED BY <2>1, <2>2, <2>3, WatchEdit
<1>4. CASE Watch!LoadReadings
  <2>1. /\ ui' = [ui EXCEPT !.reading = TRUE] /\ net' = [net EXCEPT !.read = TRUE] /\ srv' = srv /\ past' = past
    BY <1>4 DEF Watch!LoadReadings
  <2> QED BY <2>1 DEF WatchShape, WatchPatch, WatchEdited, WatchRoom
<1>5. CASE Watch!ReadingsLand
  <2>1. CASE ui' = [ui EXCEPT !.reading = FALSE] /\ past' = [past EXCEPT !.faults = @ + 1]
    <3>1. net' = [net EXCEPT !.read = FALSE] /\ srv' = srv
      BY <1>5 DEF Watch!ReadingsLand
    <3> QED BY <2>1, <3>1 DEF WatchShape, WatchPatch, WatchEdited, WatchRoom
  <2>2. ASSUME NEW sent \in SUBSET Alike, NEW fresh \in SUBSET sent, ui' \in Watch!MergeReadings(ui, fresh, sent), Watch!Edited("ticked")
        PROVE  WatchInv'
    <3> DEFINE kept == ui.form.ticked \ (sent \ fresh)
    <3>1. net' = [net EXCEPT !.read = FALSE] /\ srv' = srv
      BY <1>5 DEF Watch!ReadingsLand
    <3>2. PICK T \in IF kept # {} THEN {kept} ELSE Watch!Picked(fresh) :
             ui' = [ui EXCEPT !.rows = fresh \cup kept, !.form.ticked = T, !.reading = FALSE]
      BY <2>2 DEF Watch!MergeReadings
    <3>3. /\ IsFiniteSet(ui.form.ticked) /\ kept \subseteq ui.form.ticked /\ Cardinality(ui.form.ticked) \in Nat /\ IsFiniteSet(fresh)
      BY FiniteAssumption, FS_Subset, FS_CardinalityType DEF WatchRoom, PatchFits
    <3>4. PatchFits(kept)
      <4>1. IsFiniteSet(kept) /\ Cardinality(kept) <= Cardinality(ui.form.ticked) /\ Cardinality(kept) \in Nat
        BY <3>3, FS_Subset, FS_CardinalityType
      <4> QED BY <3>3, <4>1, BoundsAssumption DEF PatchFits, WatchRoom
    <3>5. IsFiniteSet(fresh \cup kept)
      BY <3>3, <3>4, FS_Union DEF PatchFits
    <3>6. PatchFits(T)
      <4>1. CASE kept # {}
        BY <3>2, <3>4, <4>1
      <4>2. CASE kept = {}
        BY <3>2, <3>3, <4>2, WatchPicked
      <4> QED BY <4>1, <4>2
    <3> HIDE DEF kept
    <3>7. /\ ui'.rows = fresh \cup kept /\ DOMAIN ui'.form = Metadata /\ (\A g \in Metadata \ {"ticked"} : ui'.form[g] = ui.form[g])
          /\ ui'.form.ticked = T /\ DOMAIN ui' = DOMAIN ui
          /\ ui'.given = ui.given /\ ui'.loaded = ui.loaded /\ ui'.base = ui.base /\ ui'.saving = ui.saving
      BY <3>2 DEF WatchShape, Metadata
    <3>8. DOMAIN net' = DOMAIN net /\ net'.load = net.load /\ net'.patches = net.patches
      BY <3>1 DEF WatchShape
    <3>9. IsFiniteSet(ui'.rows) /\ PatchFits(ui'.form.ticked)
      BY <3>5, <3>6, <3>7
    <3> QED BY <2>2, <3>1, <3>7, <3>8, <3>9, WatchEdit
  <2> QED BY <1>5, <2>1, <2>2 DEF Watch!ReadingsLand
<1>6. ASSUME NEW r \in Alike, Watch!Tick(r) PROVE WatchInv'
  <2>1. /\ DOMAIN ui' = DOMAIN ui /\ DOMAIN ui'.form = Metadata /\ \A g \in Metadata \ {"ticked"} : ui'.form[g] = ui.form[g]
        /\ ui'.form.ticked = (IF r \in ui.form.ticked THEN ui.form.ticked \ {r} ELSE ui.form.ticked \cup {r})
        /\ ui'.given = ui.given /\ ui'.loaded = ui.loaded /\ ui'.base = ui.base /\ ui'.saving = ui.saving /\ ui'.rows = ui.rows
        /\ net' = net /\ srv' = srv /\ Watch!Edited("ticked")
        /\ r \in ui.form.ticked \/ Cardinality(ui.form.ticked) < Few
    BY <1>6, WatchCardinality DEF Watch!Tick, WatchShape, Metadata
  <2>2. PatchFits(ui'.form.ticked)
    <3> DEFINE T == ui.form.ticked
    <3>1. IsFiniteSet(T) /\ Cardinality(T) \in Nat /\ Cardinality(T) <= Few
      BY FS_CardinalityType DEF WatchRoom, PatchFits
    <3> HIDE DEF T
    <3>2. CASE r \in T
      <4>1. IsFiniteSet(T \ {r}) /\ Cardinality(T \ {r}) = Cardinality(T) - 1
        BY <3>1, <3>2, FS_RemoveElement
      <4> QED BY <2>1, <3>1, <3>2, <4>1, BoundsAssumption DEF PatchFits, T
    <3>3. CASE r \notin T
      <4>1. IsFiniteSet(T \cup {r}) /\ Cardinality(T \cup {r}) = Cardinality(T) + 1
        BY <3>1, <3>3, FS_AddElement
      <4> QED BY <2>1, <3>1, <3>3, <4>1, BoundsAssumption DEF PatchFits, T
    <3> QED BY <3>2, <3>3
  <2> QED BY <2>1, <2>2, WatchEdit DEF WatchRoom
<1>7. CASE Watch!Save
  <2> DEFINE n == [meta |-> ui.form, base |-> ui.base, fields |-> Watch!Owned(ui)]
  <2>1. /\ ui' = [ui EXCEPT !.saving = TRUE] /\ net' = [net EXCEPT !.patches = @ \cup {n}] /\ past' = [past EXCEPT !.late = FALSE]
        /\ srv' = srv /\ ui.loaded /\ ~ui.saving
    BY <1>7 DEF Watch!Save, Watch!CanSave
  <2>2. DOMAIN n = {"meta", "base", "fields"} /\ n.meta = ui.form /\ n.base = ui.base /\ n.fields = Owned(ui.form)
    BY DEF Watch!Owned, Owned
  <2> HIDE DEF n
  <2>3. net'.patches = {n}
    BY <2>1 DEF WatchPatch, WatchShape
  <2>4. /\ DOMAIN ui' = DOMAIN ui /\ ui'.form = ui.form /\ ui'.base = ui.base /\ ui'.rows = ui.rows /\ ui'.given = ui.given
        /\ ui'.loaded = ui.loaded /\ ui'.saving = TRUE /\ DOMAIN net' = DOMAIN net /\ net'.load = net.load
        /\ DOMAIN past' = DOMAIN past /\ past'.failed = past.failed /\ past'.late = FALSE /\ past'.edited = past.edited
    BY <2>1 DEF WatchShape
  <2>5. WatchShape'
    BY <2>1, <2>2, <2>3, <2>4 DEF WatchShape
  <2>6. WatchPatch'
    BY <2>1, <2>2, <2>3, <2>4 DEF WatchPatch
  <2>7. WatchEdited'
    BY <2>1, <2>2, <2>3, <2>4 DEF WatchEdited
  <2>8. WatchRoom'
    BY <2>1, <2>2, <2>3, <2>4 DEF WatchRoom
  <2> QED BY <2>5, <2>6, <2>7, <2>8
<1>8. ASSUME NEW p \in net.patches, Watch!SaveLands(p) PROVE WatchInv'
  <2> DEFINE meta == Watch!Merged(p.base, p)
             saved == [ui EXCEPT !.saving = FALSE, !.base = meta]
  <2>1. /\ net' = [net EXCEPT !.patches = @ \ {p}]
        /\ \/ /\ srv' = Watch!Merged(srv, p) /\ ui' = IF ui.given THEN Watch!Apply(saved, meta) ELSE saved
              /\ past' = [past EXCEPT !.edited = IF ui.given THEN {} ELSE IF past.late THEN @ ELSE @ \ p.fields]
           \/ past' = [past EXCEPT !.faults = @ + 1] /\ ui' = [ui EXCEPT !.saving = FALSE] /\ srv' = srv
    BY <1>8 DEF Watch!SaveLands
  <2>2. DOMAIN net' = DOMAIN net /\ net'.load = net.load /\ net'.patches = {}
    BY <2>1 DEF WatchShape, WatchPatch
  <2>3. /\ ui.saving /\ ui.loaded /\ p.fields = Owned(p.meta) /\ p.base = ui.base /\ net.patches = {p}
    BY DEF WatchPatch
  <2>4. CASE past' = [past EXCEPT !.faults = @ + 1] /\ ui' = [ui EXCEPT !.saving = FALSE] /\ srv' = srv
    <3>1. /\ DOMAIN ui' = DOMAIN ui /\ ui'.form = ui.form /\ ui'.base = ui.base /\ ui'.rows = ui.rows /\ ui'.given = ui.given
          /\ ui'.loaded = ui.loaded /\ ui'.saving = FALSE
          /\ DOMAIN past' = DOMAIN past /\ past'.failed = past.failed /\ past'.late = past.late /\ past'.edited = past.edited
      BY <2>4 DEF WatchShape
    <3> QED BY <2>2, <2>4, <3>1 DEF WatchShape, WatchPatch, WatchEdited, WatchRoom
  <2>5. CASE /\ srv' = Watch!Merged(srv, p) /\ ui' = IF ui.given THEN Watch!Apply(saved, meta) ELSE saved
             /\ past' = [past EXCEPT !.edited = IF ui.given THEN {} ELSE IF past.late THEN @ ELSE @ \ p.fields]
    <3>1. /\ DOMAIN meta = Metadata /\ \A f \in Metadata : meta[f] = IF f \in p.fields THEN p.meta[f] ELSE ui.base[f]
      BY <2>3 DEF Watch!Merged, WatchShape
    <3>2. /\ DOMAIN srv' = Metadata /\ \A f \in Metadata : srv'[f] = IF f \in p.fields THEN p.meta[f] ELSE srv[f]
      BY <2>5 DEF Watch!Merged, WatchShape
    <3>3. PatchFits(meta.ticked) /\ PatchFits(srv'.ticked)
      BY <3>1, <3>2 DEF WatchRoom, Metadata
    <3> HIDE DEF meta
    <3>4. /\ DOMAIN ui' = DOMAIN ui /\ ui'.given = ui.given /\ ui'.loaded = TRUE /\ ui'.saving = FALSE /\ ui'.base = meta
          /\ ui'.form = (IF ui.given THEN meta ELSE ui.form) /\ ui'.rows = (IF ui.given THEN meta.ticked ELSE ui.rows)
      BY <2>3, <2>5 DEF WatchShape, Watch!Apply
    <3>5. /\ DOMAIN past' = DOMAIN past /\ past'.failed = past.failed /\ past'.late = past.late
          /\ past'.edited = IF ui.given THEN {} ELSE IF past.late THEN past.edited ELSE past.edited \ p.fields
      BY <2>5 DEF WatchShape
    <3>6. WatchShape'
      BY <2>2, <3>1, <3>2, <3>4, <3>5 DEF WatchShape
    <3>7. WatchPatch'
      BY <2>2, <2>3, <3>4 DEF WatchPatch
    <3>8. WatchEdited'
      <4> SUFFICES ASSUME ~past.failed, NEW f \in {"on", "push", "ticked"}
                   PROVE  meta[f] = srv'[f] /\ (ui'.form[f] # srv'[f] => f \in past'.edited)
        BY <2>2, <3>4, <3>5 DEF WatchEdited
      <4>1. ui.base[f] = srv[f] /\ (ui.form[f] # srv[f] => f \in past.edited) /\ (ui.form[f] # p.meta[f] => f \in past.edited)
            /\ (~past.late => ui.form[f] = p.meta[f])
        BY <2>3 DEF WatchEdited
      <4>2. meta[f] = srv'[f]
        BY <3>1, <3>2, <4>1 DEF Metadata
      <4>3. f \in Metadata
        BY DEF Metadata
      <4> QED BY <3>2, <3>4, <3>5, <4>1, <4>2, <4>3
    <3>9. WatchRoom'
      BY <2>2, <3>3, <3>4 DEF WatchRoom, PatchFits
    <3> QED BY <3>6, <3>7, <3>8, <3>9
  <2> QED BY <2>1, <2>4, <2>5
<1>9. CASE Watch!Grant
  <2>1. /\ DOMAIN srv' = DOMAIN srv /\ (\A f \in {"on", "push", "ticked"} : srv'[f] = srv[f]) /\ srv'.ticked = srv.ticked
        /\ ui' = ui /\ net' = net /\ past' = past
    BY <1>9 DEF Watch!Grant, WatchShape, Metadata
  <2> QED BY <2>1 DEF WatchShape, WatchPatch, WatchEdited, WatchRoom
<1> QED BY <1>1, <1>2, <1>3, <1>4, <1>5, <1>6, <1>7, <1>8, <1>9 DEF Watch!Next

LEMMA WatchKeeps == WatchInv => Watch!WatchFits
BY WatchCardinality DEF WatchInv, WatchRoom, PatchFits, Watch!WatchFits

\* A save takes no grant back, changes only what was edited, and leaves the form as it is.
LEMMA WatchSteps == WatchInv /\ Watch!Next => Watch!GrantSurvives /\ Watch!SavesOnlyEdits /\ Watch!EditsKept
<1> SUFFICES ASSUME WatchInv, Watch!Next PROVE Watch!GrantSurvives /\ Watch!SavesOnlyEdits /\ Watch!EditsKept
  OBVIOUS
<1> USE DEF WatchInv
<1>1. ASSUME NEW p \in net.patches, Watch!SaveLands(p) PROVE Watch!GrantSurvives /\ Watch!SavesOnlyEdits /\ Watch!EditsKept
  <2>1. ui.saving /\ ui.loaded /\ p.fields = Owned(p.meta) /\ p.base = ui.base
    BY DEF WatchPatch
  <2>2. srv' = srv \/ \A f \in Metadata : srv'[f] = IF f \in p.fields THEN p.meta[f] ELSE srv[f]
    BY <1>1 DEF Watch!SaveLands, Watch!Merged, WatchShape
  <2>3. Watch!GrantSurvives
    BY <2>1, <2>2 DEF Watch!GrantSurvives, Owned, Metadata
  <2>4. Watch!SavesOnlyEdits
    BY <2>1, <2>2 DEF Watch!SavesOnlyEdits, Watch!Fields, WatchEdited, Metadata
  <2>5. CASE ui'.form = ui.form
    BY <2>3, <2>4, <2>5 DEF Watch!EditsKept
  <2>6. CASE ui'.form = Watch!Merged(p.base, p)
    <3>1. \A f \in Metadata : ui'.form[f] = IF f \in p.fields THEN p.meta[f] ELSE ui.base[f]
      BY <2>1, <2>6 DEF Watch!Merged, WatchShape
    <3>2. ~past.late => \A f \in {"on", "push", "ticked"} : ui.form[f] = p.meta[f]
      BY DEF WatchEdited
    <3> QED BY <2>1, <2>3, <2>4, <3>1, <3>2 DEF Watch!EditsKept, Owned, Metadata
  <2> QED BY <1>1, <2>5, <2>6 DEF Watch!SaveLands, Watch!Apply, WatchShape
<1>2. CASE Watch!LoadLands
  <2>1. srv' = srv /\ ui'.saving = ui.saving
    BY <1>2 DEF Watch!LoadLands, Watch!Apply, WatchShape
  <2> QED BY <2>1 DEF Watch!GrantSurvives, Watch!SavesOnlyEdits, Watch!EditsKept
<1>3. CASE Watch!Grant
  <2>1. ui' = ui /\ srv'.grant /\ \A f \in {"on", "push", "ticked"} : srv'[f] = srv[f]
    BY <1>3 DEF Watch!Grant, WatchShape, Metadata
  <2> QED BY <2>1 DEF Watch!GrantSurvives, Watch!SavesOnlyEdits, Watch!EditsKept, Watch!Fields
<1>4. CASE Watch!Toggle \/ Watch!Turn \/ Watch!LoadReadings \/ Watch!Save \/ \E r \in Alike : Watch!Tick(r)
  <2>1. srv' = srv /\ (ui.saving => ui'.saving)
    BY <1>4 DEF Watch!Toggle, Watch!Turn, Watch!LoadReadings, Watch!Save, Watch!Tick, WatchShape
  <2> QED BY <2>1 DEF Watch!GrantSurvives, Watch!SavesOnlyEdits, Watch!EditsKept
<1>5. CASE Watch!ReadingsLand
  <2>1. ASSUME NEW fresh, NEW sent, ui' \in Watch!MergeReadings(ui, fresh, sent) PROVE ui'.saving = ui.saving
    BY <2>1 DEF Watch!MergeReadings, WatchShape
  <2>2. srv' = srv /\ ui'.saving = ui.saving
    BY <1>5, <2>1 DEF Watch!ReadingsLand, WatchShape
  <2> QED BY <2>2 DEF Watch!GrantSurvives, Watch!SavesOnlyEdits, Watch!EditsKept
<1> QED BY <1>1, <1>2, <1>3, <1>4, <1>5 DEF Watch!Next

-----------------------------------------------------------------------------
(* The MQTT page.                                                          *)

MqttShape ==
  /\ DOMAIN ui = {"feed", "loaded", "nodes", "list", "editing", "host", "savingFeed", "saving", "status"}
  /\ DOMAIN net = {"settings", "companions", "brokers", "put", "save", "removals", "polls"}
  /\ DOMAIN srv = {"node", "field", "brokers", "now"}
  /\ DOMAIN past = {"saves", "edits", "faults", "touched", "blind", "lost", "unlisted"}
  /\ DOMAIN ui.feed = {"node", "field"} /\ DOMAIN ui.loaded = {"at", "feed"} /\ DOMAIN net.settings = {"at", "feed"}
  /\ DOMAIN net.settings.feed = {"node", "field"} /\ DOMAIN ui.loaded.feed = {"node", "field"}
  /\ DOMAIN net.put = {"at", "feed"} /\ DOMAIN net.save = {"at", "feed", "broker"}
  /\ ui.nodes \in BOOLEAN /\ past.blind \in BOOLEAN

\* A poll brings a status no older than the one shown, and there is one poll at a time.
MqttStatus ==
  /\ ui.status \in Nat /\ srv.now \in Nat /\ ui.status <= srv.now
  /\ \A x, y \in net.polls : x = y
  /\ \A x \in net.polls : x.n \in Nat /\ ui.status <= x.n /\ x.n <= srv.now

\* What is saved of the feed is valid and has a node; a broker is on its way only once the feed has one.
MqttSaves ==
  /\ ui.nodes => ui.feed.node # "none"
  /\ net.put.at = "asked" => net.put.feed.node # "none" /\ net.put.feed.field # "bad"
  /\ net.save.at = "feed" => net.save.feed.node # "none" /\ net.save.feed.field # "bad"
  /\ net.save.at = "broker" => srv.node # "none" \/ past.blind
MqttNode ==
  /\ srv.field # "bad" /\ (srv.brokers # {} => srv.node # "none" \/ past.blind)
  /\ ui.editing # none => ui.loaded.at = "served"
  /\ ui.loaded.feed.node # "none" => srv.node # "none"
  /\ net.settings.feed.node # "none" => srv.node # "none"

MqttInv == MqttShape /\ MqttStatus /\ MqttSaves /\ MqttNode

LEMMA MqttInit == Mqtt!Init => MqttInv
<1> SUFFICES ASSUME Mqtt!Init PROVE MqttInv
  OBVIOUS
<1> USE DEF Mqtt!Init, Mqtt!Unread, Mqtt!Unlisted, Mqtt!NoSave
<1>1. MqttShape
  BY DEF MqttShape
<1>2. MqttStatus
  BY DEF MqttStatus
<1>3. MqttSaves
  BY DEF MqttSaves
<1>4. MqttNode
  BY DEF MqttNode
<1> QED BY <1>1, <1>2, <1>3, <1>4 DEF MqttInv

LEMMA MqttNext == MqttInv /\ Mqtt!Next => MqttInv'
<1> SUFFICES ASSUME MqttInv, Mqtt!Next PROVE MqttInv'
  OBVIOUS
<1> USE DEF MqttInv
<1>1. CASE Mqtt!ServeSettings
  <2> USE <1>1 DEF Mqtt!ServeSettings, Mqtt!Unread, Mqtt!Stored, Mqtt!Lost, Mqtt!Spent
  <2>1. MqttShape'
    <3>1. /\ ui' = ui /\ srv' = srv /\ DOMAIN net' = DOMAIN net /\ DOMAIN past' = DOMAIN past /\ past'.blind = past.blind
          /\ net'.put = net.put /\ net'.save = net.save
      BY DEF MqttShape
    <3>2. DOMAIN net'.settings = {"at", "feed"} /\ DOMAIN net'.settings.feed = {"node", "field"}
      BY DEF MqttShape
    <3> QED BY <3>1, <3>2 DEF MqttShape
  <2>2. MqttStatus'
    BY DEF MqttShape, MqttStatus
  <2>3. MqttSaves'
    BY DEF MqttShape, MqttSaves, MqttNode
  <2>4. MqttNode'
    <3>1. ui' = ui /\ srv' = srv /\ past'.blind = past.blind
      BY DEF MqttShape
    <3>2. net'.settings.feed.node \in {srv.node, "none"}
      BY DEF MqttShape
    <3> QED BY <3>1, <3>2 DEF MqttNode
  <2> QED BY <2>1, <2>2, <2>3, <2>4
<1>2. CASE Mqtt!SettingsLand
  <2> USE <1>2 DEF Mqtt!SettingsLand, Mqtt!Unread, Mqtt!Filled, Mqtt!Defaulted
  <2>1. MqttShape'
    BY DEF MqttShape
  <2>2. MqttStatus'
    BY DEF MqttShape, MqttStatus
  <2>3. MqttSaves'
    BY DEF MqttShape, MqttSaves, MqttNode
  <2>4. MqttNode'
    BY DEF MqttShape, MqttSaves, MqttNode
  <2> QED BY <2>1, <2>2, <2>3, <2>4
<1>3. CASE Mqtt!CompanionsLand
  <2> USE <1>3 DEF Mqtt!CompanionsLand, Mqtt!Defaulted, Mqtt!Spent
  <2>1. MqttShape'
    <3>1. /\ ui' = ui \/ ui' = Mqtt!Defaulted([ui EXCEPT !.nodes = TRUE])
          /\ srv' = srv /\ net' = [net EXCEPT !.companions = FALSE] /\ DOMAIN past' = DOMAIN past /\ past'.blind = past.blind
      BY DEF MqttShape
    <3>2. DOMAIN ui' = DOMAIN ui /\ ui'.loaded = ui.loaded /\ DOMAIN ui'.feed = {"node", "field"} /\ ui'.nodes \in BOOLEAN
      <4>1. CASE ui' = ui
        BY <4>1 DEF MqttShape
      <4>2. CASE ui' = Mqtt!Defaulted([ui EXCEPT !.nodes = TRUE])
        <5> DEFINE u == [ui EXCEPT !.nodes = TRUE]
        <5>1. DOMAIN u = DOMAIN ui /\ u.loaded = ui.loaded /\ DOMAIN u.feed = {"node", "field"} /\ u.nodes \in BOOLEAN
          BY DEF MqttShape
        <5>2. ui' = u \/ ui' = [u EXCEPT !.feed.node = "n1"]
          BY <4>2
        <5> HIDE DEF u
        <5>3. CASE ui' = u
          BY <5>1, <5>3
        <5>4. CASE ui' = [u EXCEPT !.feed.node = "n1"]
          <6>1. DOMAIN ui' = DOMAIN u /\ ui'.loaded = u.loaded /\ ui'.nodes = u.nodes
            BY <5>4
          <6>2. ui'.feed = [u.feed EXCEPT !.node = "n1"]
            BY <5>1, <5>4 DEF MqttShape
          <6> QED BY <5>1, <6>1, <6>2
        <5> QED BY <5>2, <5>3, <5>4
      <4> QED BY <3>1, <4>1, <4>2
    <3>3. DOMAIN net' = DOMAIN net /\ net'.settings = net.settings /\ net'.put = net.put /\ net'.save = net.save
      BY <3>1 DEF MqttShape
    <3> QED BY <3>1, <3>2, <3>3 DEF MqttShape
  <2>2. MqttStatus'
    BY DEF MqttShape, MqttStatus
  <2>3. MqttSaves'
    <3>1. srv' = srv /\ past'.blind = past.blind /\ net'.put = net.put /\ net'.save = net.save
      BY DEF MqttShape
    <3>2. ui'.nodes => ui'.feed.node # "none"
      <4>1. CASE ui' = ui
        BY <4>1 DEF MqttSaves
      <4>2. CASE ui' = Mqtt!Defaulted([ui EXCEPT !.nodes = TRUE])
        <5> DEFINE u == [ui EXCEPT !.nodes = TRUE]
        <5>1. DOMAIN u.feed = {"node", "field"} /\ u.nodes
          BY DEF MqttShape
        <5>2. CASE u.feed.node = "none"
          <6>1. ui' = [u EXCEPT !.feed.node = "n1"]
            BY <4>2, <5>1, <5>2
          <6>2. DOMAIN u = DOMAIN ui /\ "feed" \in DOMAIN u
            BY DEF MqttShape
          <6> QED BY <5>1, <6>1, <6>2
        <5>3. CASE u.feed.node # "none"
          BY <4>2, <5>2, <5>3
        <5> QED BY <5>2, <5>3
      <4> QED BY <4>1, <4>2
    <3> QED BY <3>1, <3>2 DEF MqttSaves
  <2>4. MqttNode'
    <3>1. srv' = srv /\ past'.blind = past.blind /\ net'.settings = net.settings
      BY DEF MqttShape
    <3>2. ui'.editing = ui.editing /\ ui'.loaded = ui.loaded
      BY DEF MqttShape
    <3> QED BY <3>1, <3>2 DEF MqttNode
  <2> QED BY <2>1, <2>2, <2>3, <2>4
<1>4. CASE Mqtt!Retry
  <2>1. /\ ui' = ui /\ srv' = srv /\ past' = past /\ DOMAIN net' = DOMAIN net
        /\ net'.put = net.put /\ net'.save = net.save /\ net'.polls = net.polls
        /\ net'.settings = net.settings \/ net'.settings = [Mqtt!Unread EXCEPT !.at = "asked"]
    BY <1>4 DEF Mqtt!Retry, Mqtt!Reread, Mqtt!Relist, MqttShape
  <2>2. DOMAIN net'.settings = {"at", "feed"} /\ DOMAIN net'.settings.feed = {"node", "field"}
        /\ (net'.settings.feed.node # "none" => net'.settings = net.settings)
    BY <2>1 DEF Mqtt!Unread, MqttShape
  <2> QED BY <2>1, <2>2 DEF MqttShape, MqttStatus, MqttSaves, MqttNode
<1>5. CASE Mqtt!ServeBrokers
  <2> USE <1>5 DEF Mqtt!ServeBrokers, Mqtt!Unlisted, Mqtt!Spent
  <2>1. MqttShape'
    BY DEF MqttShape
  <2>2. MqttStatus'
    BY DEF MqttShape, MqttStatus
  <2>3. MqttSaves'
    BY DEF MqttShape, MqttSaves, MqttNode
  <2>4. MqttNode'
    BY DEF MqttShape, MqttSaves, MqttNode
  <2> QED BY <2>1, <2>2, <2>3, <2>4
<1>6. CASE Mqtt!BrokersLand
  <2> USE <1>6 DEF Mqtt!BrokersLand, Mqtt!Unlisted
  <2>1. MqttShape'
    BY DEF MqttShape
  <2>2. MqttStatus'
    BY DEF MqttShape, MqttStatus
  <2>3. MqttSaves'
    BY DEF MqttShape, MqttSaves, MqttNode
  <2>4. MqttNode'
    BY DEF MqttShape, MqttSaves, MqttNode
  <2> QED BY <2>1, <2>2, <2>3, <2>4
<1>7. CASE Mqtt!SaveFeed
  <2> USE <1>7 DEF Mqtt!SaveFeed, Mqtt!CanSave, Mqtt!Ready, Mqtt!Invalid
  <2>1. MqttShape'
    BY DEF MqttShape
  <2>2. MqttStatus'
    BY DEF MqttShape, MqttStatus
  <2>3. MqttSaves'
    BY DEF MqttShape, MqttSaves, MqttNode
  <2>4. MqttNode'
    BY DEF MqttShape, MqttSaves, MqttNode
  <2> QED BY <2>1, <2>2, <2>3, <2>4
<1>8. CASE Mqtt!ServePut
  <2> USE <1>8 DEF Mqtt!ServePut, Mqtt!Spent
  <2>1. MqttShape'
    BY DEF MqttShape
  <2>2. MqttStatus'
    BY DEF MqttShape, MqttStatus
  <2>3. MqttSaves'
    <3>1. ui' = ui /\ past'.blind = past.blind /\ net'.save = net.save
      BY DEF MqttShape
    <3>2. net'.put.at # "asked"
      BY DEF MqttShape
    <3>3. srv' = srv \/ srv'.node = net.put.feed.node
      BY DEF MqttShape
    <3> QED BY <3>1, <3>2, <3>3 DEF MqttSaves
  <2>4. MqttNode'
    <3>1. ui' = ui /\ past'.blind = past.blind /\ net'.settings = net.settings /\ srv'.brokers = srv.brokers
      BY DEF MqttShape
    <3>2. srv' = srv \/ (srv'.node = net.put.feed.node /\ srv'.field = net.put.feed.field)
      BY DEF MqttShape
    <3> QED BY <3>1, <3>2 DEF MqttNode, MqttSaves
  <2> QED BY <2>1, <2>2, <2>3, <2>4
<1>9. CASE Mqtt!PutLands
  <2> USE <1>9 DEF Mqtt!PutLands, Mqtt!Unread, Mqtt!Reread
  <2>1. MqttShape'
    BY DEF MqttShape
  <2>2. MqttStatus'
    BY DEF MqttShape, MqttStatus
  <2>3. MqttSaves'
    BY DEF MqttShape, MqttSaves, MqttNode
  <2>4. MqttNode'
    BY DEF MqttShape, MqttSaves, MqttNode
  <2> QED BY <2>1, <2>2, <2>3, <2>4
<1>10. CASE Mqtt!CloseEditor
  <2> USE <1>10 DEF Mqtt!CloseEditor
  <2>1. MqttShape'
    BY DEF MqttShape
  <2>2. MqttStatus'
    BY DEF MqttShape, MqttStatus
  <2>3. MqttSaves'
    BY DEF MqttShape, MqttSaves, MqttNode
  <2>4. MqttNode'
    BY DEF MqttShape, MqttSaves, MqttNode
  <2> QED BY <2>1, <2>2, <2>3, <2>4
<1>11. CASE Mqtt!EditBroker
  <2> USE <1>11 DEF Mqtt!EditBroker
  <2>1. MqttShape'
    BY DEF MqttShape
  <2>2. MqttStatus'
    BY DEF MqttShape, MqttStatus
  <2>3. MqttSaves'
    BY DEF MqttShape, MqttSaves, MqttNode
  <2>4. MqttNode'
    BY DEF MqttShape, MqttSaves, MqttNode
  <2> QED BY <2>1, <2>2, <2>3, <2>4
<1>12. CASE Mqtt!Submit
  <2> USE <1>12 DEF Mqtt!Submit, Mqtt!PendingNode, Mqtt!Invalid, Mqtt!NoSave
  <2>1. MqttShape'
    BY DEF MqttShape
  <2>2. MqttStatus'
    BY DEF MqttShape, MqttStatus
  <2>3. MqttSaves'
    BY DEF MqttShape, MqttSaves, MqttNode
  <2>4. MqttNode'
    BY DEF MqttShape, MqttSaves, MqttNode
  <2> QED BY <2>1, <2>2, <2>3, <2>4
<1>13. CASE Mqtt!ServeSave
  <2>1. ui' = ui /\ net.save.at \in {"feed", "broker"}
    BY <1>13 DEF Mqtt!ServeSave
  <2>2. ASSUME net.save.at = "feed", srv' = [srv EXCEPT !.node = net.save.feed.node, !.field = net.save.feed.field],
               net' = Mqtt!Reread([net EXCEPT !.save.at = "broker"]), past' = past PROVE MqttInv'
    <3> DEFINE n == [net EXCEPT !.save.at = "broker"]
    <3>1. /\ DOMAIN n = DOMAIN net /\ n.save.at = "broker" /\ DOMAIN n.save = DOMAIN net.save
          /\ \A f \in DOMAIN net \ {"save"} : n[f] = net[f]
      BY DEF MqttShape
    <3> HIDE DEF n
    <3>2. net' = [n EXCEPT !.settings = [Mqtt!Unread EXCEPT !.at = "asked"]]
      BY <2>2 DEF Mqtt!Reread, n
    <3>3. /\ DOMAIN net' = DOMAIN net /\ net'.save.at = "broker" /\ DOMAIN net'.save = DOMAIN net.save
          /\ net'.put = net.put /\ net'.polls = net.polls
      BY <3>1, <3>2 DEF MqttShape
    <3>4. DOMAIN net'.settings = {"at", "feed"} /\ DOMAIN net'.settings.feed = {"node", "field"} /\ net'.settings.feed.node = "none"
      BY <3>1, <3>2 DEF MqttShape, Mqtt!Unread
    <3>5. /\ DOMAIN srv' = DOMAIN srv /\ srv'.node = net.save.feed.node /\ srv'.field = net.save.feed.field
          /\ srv'.now = srv.now /\ srv'.brokers = srv.brokers
      BY <2>2 DEF MqttShape
    <3>6. MqttShape'
      BY <2>1, <2>2, <3>3, <3>4 DEF MqttShape
    <3>7. MqttStatus'
      BY <2>1, <3>3, <3>5 DEF MqttStatus
    <3>8. MqttSaves'
      BY <2>1, <2>2, <3>3, <3>5 DEF MqttSaves
    <3>9. MqttNode'
      BY <2>1, <2>2, <3>4, <3>5 DEF MqttNode, MqttSaves
    <3> QED BY <3>6, <3>7, <3>8, <3>9
  <2>3. ASSUME net.save.at = "broker", srv' = [srv EXCEPT !.brokers = @ \cup {net.save.broker}],
               net' = [net EXCEPT !.save.at = "saved"], past' = past PROVE MqttInv'
    <3>1. /\ DOMAIN srv' = DOMAIN srv /\ srv'.node = srv.node /\ srv'.field = srv.field /\ srv'.now = srv.now
      BY <2>3 DEF MqttShape
    <3>2. /\ DOMAIN net' = DOMAIN net /\ net'.save.at = "saved" /\ DOMAIN net'.save = DOMAIN net.save
          /\ net'.put = net.put /\ net'.polls = net.polls /\ net'.settings = net.settings
      BY <2>3 DEF MqttShape
    <3> QED BY <2>1, <2>3, <3>1, <3>2 DEF MqttShape, MqttStatus, MqttSaves, MqttNode
  <2>4. ASSUME past' = Mqtt!Spent, srv' = srv, net' = [net EXCEPT !.save.at = "failed"] PROVE MqttInv'
    <3>1. DOMAIN past' = DOMAIN past /\ past'.blind = past.blind
      BY <2>4 DEF MqttShape, Mqtt!Spent
    <3>2. /\ DOMAIN net' = DOMAIN net /\ net'.save.at = "failed" /\ DOMAIN net'.save = DOMAIN net.save
          /\ net'.put = net.put /\ net'.polls = net.polls /\ net'.settings = net.settings
      BY <2>4 DEF MqttShape
    <3> QED BY <2>1, <2>4, <3>1, <3>2 DEF MqttShape, MqttStatus, MqttSaves, MqttNode
  <2> QED BY <1>13, <2>2, <2>3, <2>4 DEF Mqtt!ServeSave
<1>14. CASE Mqtt!SaveLands
  <2> USE <1>14 DEF Mqtt!SaveLands, Mqtt!NoSave, Mqtt!Relist, Mqtt!Unlisted
  <2>1. MqttShape'
    BY DEF MqttShape
  <2>2. MqttStatus'
    BY DEF MqttShape, MqttStatus
  <2>3. MqttSaves'
    BY DEF MqttShape, MqttSaves, MqttNode
  <2>4. MqttNode'
    BY DEF MqttShape, MqttSaves, MqttNode
  <2> QED BY <2>1, <2>2, <2>3, <2>4
<1>15. CASE Mqtt!Poll
  <2> USE <1>15 DEF Mqtt!Poll
  <2>1. MqttShape'
    BY DEF MqttShape
  <2>2. MqttStatus'
    BY DEF MqttShape, MqttStatus
  <2>3. MqttSaves'
    BY DEF MqttShape, MqttSaves, MqttNode
  <2>4. MqttNode'
    BY DEF MqttShape, MqttSaves, MqttNode
  <2> QED BY <2>1, <2>2, <2>3, <2>4
<1>16. CASE Mqtt!StatusChanges
  <2> USE <1>16 DEF Mqtt!StatusChanges
  <2>1. MqttShape'
    BY DEF MqttShape
  <2>2. MqttStatus'
    BY DEF MqttShape, MqttStatus
  <2>3. MqttSaves'
    BY DEF MqttShape, MqttSaves, MqttNode
  <2>4. MqttNode'
    BY DEF MqttShape, MqttSaves, MqttNode
  <2> QED BY <2>1, <2>2, <2>3, <2>4
<1>17. ASSUME NEW f \in [node : {"n1", "n2"}, field : Mqtt!Fields], Mqtt!EditFeed(f) PROVE MqttInv'
  <2> USE <1>17 DEF Mqtt!EditFeed, Mqtt!Defaulted, Mqtt!Ready
  <2>1. MqttShape'
    BY DEF MqttShape
  <2>2. MqttStatus'
    BY DEF MqttShape, MqttStatus
  <2>3. MqttSaves'
    BY DEF MqttShape, MqttSaves, MqttNode
  <2>4. MqttNode'
    BY DEF MqttShape, MqttSaves, MqttNode
  <2> QED BY <2>1, <2>2, <2>3, <2>4
<1>18. ASSUME NEW b \in GivenNames, Mqtt!OpenEditor(b) PROVE MqttInv'
  <2> USE <1>18 DEF Mqtt!OpenEditor, Mqtt!Ready
  <2>1. MqttShape'
    BY DEF MqttShape
  <2>2. MqttStatus'
    BY DEF MqttShape, MqttStatus
  <2>3. MqttSaves'
    BY DEF MqttShape, MqttSaves, MqttNode
  <2>4. MqttNode'
    BY DEF MqttShape, MqttSaves, MqttNode
  <2> QED BY <2>1, <2>2, <2>3, <2>4
<1>19. ASSUME NEW b \in GivenNames, Mqtt!RemoveBroker(b) PROVE MqttInv'
  <2> USE <1>19 DEF Mqtt!RemoveBroker
  <2>1. MqttShape'
    BY DEF MqttShape
  <2>2. MqttStatus'
    BY DEF MqttShape, MqttStatus
  <2>3. MqttSaves'
    BY DEF MqttShape, MqttSaves, MqttNode
  <2>4. MqttNode'
    BY DEF MqttShape, MqttSaves, MqttNode
  <2> QED BY <2>1, <2>2, <2>3, <2>4
<1>20. ASSUME NEW r \in net.removals, Mqtt!ServeRemoval(r) PROVE MqttInv'
  <2> USE <1>20 DEF Mqtt!ServeRemoval, Mqtt!Spent
  <2>1. MqttShape'
    BY DEF MqttShape
  <2>2. MqttStatus'
    BY DEF MqttShape, MqttStatus
  <2>3. MqttSaves'
    BY DEF MqttShape, MqttSaves, MqttNode
  <2>4. MqttNode'
    BY DEF MqttShape, MqttSaves, MqttNode
  <2> QED BY <2>1, <2>2, <2>3, <2>4
<1>21. ASSUME NEW r \in net.removals, Mqtt!RemovalLands(r) PROVE MqttInv'
  <2> USE <1>21 DEF Mqtt!RemovalLands, Mqtt!Relist, Mqtt!Unlisted
  <2>1. MqttShape'
    BY DEF MqttShape
  <2>2. MqttStatus'
    BY DEF MqttShape, MqttStatus
  <2>3. MqttSaves'
    BY DEF MqttShape, MqttSaves, MqttNode
  <2>4. MqttNode'
    BY DEF MqttShape, MqttSaves, MqttNode
  <2> QED BY <2>1, <2>2, <2>3, <2>4
<1>22. ASSUME NEW x \in net.polls, Mqtt!PollLands(x) PROVE MqttInv'
  <2> USE <1>22 DEF Mqtt!PollLands
  <2>1. MqttShape'
    BY DEF MqttShape
  <2>2. MqttStatus'
    BY DEF MqttShape, MqttStatus
  <2>3. MqttSaves'
    BY DEF MqttShape, MqttSaves, MqttNode
  <2>4. MqttNode'
    BY DEF MqttShape, MqttSaves, MqttNode
  <2> QED BY <2>1, <2>2, <2>3, <2>4
<1> QED BY <1>1, <1>2, <1>3, <1>4, <1>5, <1>6, <1>7, <1>8, <1>9, <1>10, <1>11, <1>12, <1>13, <1>14, <1>15, <1>16, <1>17, <1>18, <1>19, <1>20, <1>21, <1>22 DEF Mqtt!Next

LEMMA MqttStutters == MqttInv /\ UNCHANGED <<ui, net, srv, past>> => MqttInv'
BY DEF MqttInv, MqttShape, MqttStatus, MqttSaves, MqttNode

LEMMA MqttKeeps == MqttInv => Mqtt!NodeBeforeBroker
BY DEF MqttInv, MqttShape, MqttNode, Mqtt!NodeBeforeBroker

\* A poll lands with a status at least as new as the one shown; nothing else changes it.
LEMMA MqttSteps == MqttInv /\ Mqtt!Next => Mqtt!StatusForward
<1> SUFFICES ASSUME MqttInv, Mqtt!Next PROVE ui'.status >= ui.status
  BY DEF Mqtt!StatusForward
<1>1. CASE \E x \in net.polls : Mqtt!PollLands(x)
  BY <1>1 DEF MqttInv, MqttShape, MqttStatus, Mqtt!PollLands
<1>2. CASE ~\E x \in net.polls : Mqtt!PollLands(x)
  <2>1. ui'.status = ui.status
    <3> USE DEF MqttInv, MqttShape
    <3>1. CASE Mqtt!ServeSettings \/ Mqtt!Retry \/ Mqtt!ServeBrokers \/ Mqtt!ServePut \/ Mqtt!ServeSave \/ Mqtt!Poll \/ Mqtt!StatusChanges
      BY <3>1 DEF Mqtt!ServeSettings, Mqtt!Retry, Mqtt!ServeBrokers, Mqtt!ServePut, Mqtt!ServeSave, Mqtt!Poll, Mqtt!StatusChanges
    <3>2. CASE \E r \in net.removals : Mqtt!ServeRemoval(r) \/ Mqtt!RemovalLands(r)
      BY <3>2 DEF Mqtt!ServeRemoval, Mqtt!RemovalLands
    <3>3. CASE Mqtt!SettingsLand \/ Mqtt!CompanionsLand
      BY <3>3 DEF Mqtt!SettingsLand, Mqtt!CompanionsLand, Mqtt!Filled, Mqtt!Defaulted
    <3>4. CASE Mqtt!BrokersLand \/ Mqtt!SaveFeed \/ Mqtt!PutLands \/ Mqtt!CloseEditor \/ Mqtt!EditBroker \/ Mqtt!Submit \/ Mqtt!SaveLands
      BY <3>4 DEF Mqtt!BrokersLand, Mqtt!SaveFeed, Mqtt!PutLands, Mqtt!CloseEditor, Mqtt!EditBroker, Mqtt!Submit, Mqtt!SaveLands
    <3>5. CASE \E f \in [node : {"n1", "n2"}, field : Mqtt!Fields] : Mqtt!EditFeed(f)
      BY <3>5 DEF Mqtt!EditFeed, Mqtt!Defaulted
    <3>6. CASE \E b \in GivenNames : Mqtt!OpenEditor(b) \/ Mqtt!RemoveBroker(b)
      BY <3>6 DEF Mqtt!OpenEditor, Mqtt!RemoveBroker
    <3> QED BY <1>2, <3>1, <3>2, <3>3, <3>4, <3>5, <3>6 DEF Mqtt!Next
  <2> QED BY <2>1 DEF MqttInv, MqttStatus
<1> QED BY <1>1, <1>2

-----------------------------------------------------------------------------
(* The first run and its wizard.                                           *)

SetupShown == ui.settings = "new" /\ ui.companions = "none"
SetupWizard == {"step", "backend", "board", "rf", "name", "skip", "busy", "file", "restoring", "result"}
SetupShape ==
  /\ DOMAIN ui = {"settings", "companions", "w"} /\ DOMAIN ui.w = SetupWizard
  /\ DOMAIN net = {"settings", "companions", "finish", "restore"} /\ DOMAIN srv = {"setup", "companions", "radio", "staged"}
  /\ DOMAIN net.finish = {"at", "name"} /\ DOMAIN net.restore = {"at", "file"}
  /\ DOMAIN past = {"opens", "edits", "elsewhere", "faults", "held", "left", "unread", "wanted"}
  /\ ui.w.busy \in BOOLEAN /\ ui.w.restoring \in BOOLEAN /\ srv.setup \in BOOLEAN /\ srv.staged \in BOOLEAN
  /\ past.left \in BOOLEAN /\ past.unread \in BOOLEAN /\ past.held \in BOOLEAN
  /\ ui.w.step \in {"welcome", "restore", "radio", "companion", "review"}
  /\ net.settings \in {"none", "asked", "new", "complete", "failed"}
  /\ net.companions \in {"none", "asked", "empty", "some", "failed"}
  /\ past.elsewhere \in Nat
  /\ ui.w.file \in {"none", "config", "database"} /\ (net.restore.at # "none" => net.restore.file \in {"config", "database"})

\* The wizard holds nothing while it is not shown.  A node configured when the console opened is read as such, by its
\* settings or by its companions.
SetupGate ==
  /\ (~SetupShown => ~ui.w.busy /\ ~ui.w.restoring /\ ui.w.result = "none") /\ (ui.w.busy => ui.w.step = "review")
  /\ net.companions = "some" => srv.companions # {}
  /\ past.held => \/ ui.settings # "new" /\ net.settings # "new" /\ srv.setup
                  \/ ui.companions # "none" /\ net.companions # "empty" /\ srv.companions # {}

\* The wizard is shown with no read on its way, unless it waits for the one after its saves or its restore.
SetupLoads ==
  ~past.left => \/ /\ net.settings # "none" => ui.settings = Wizard!NotRead
                   /\ net.companions # "none" => ui.companions = Wizard!NotRead
                \/ /\ SetupShown
                   /\ (ui.w.busy /\ ui.w.step = "review") \/ (ui.w.step = "restore" /\ ui.w.result = "config")
                \/ ui.settings = "complete" /\ net.settings = "none"
                \/ ui.companions = "some" /\ net.companions = "none"

\* A restore that the reader has not left has the restore step to itself, up to the restart it waits for.
SetupRestore ==
  ~past.left =>
    /\ net.restore.at # "none" => SetupShown /\ ui.w.step = "restore" /\ ui.w.restoring /\ ui.w.result = "none"
                                  /\ net.settings = "none" /\ net.companions = "none"
    /\ ui.w.result # "none" => SetupShown /\ ui.w.step = "restore"
    /\ srv.staged => \/ net.restore.at = "done" /\ net.restore.file = "database"
                     \/ ui.w.result = "database" /\ net.settings = "none" /\ net.companions = "none"

\* A finish has the review to itself, and asks for the settings only with the companion stored.
SetupFinish ==
  /\ ~past.left => /\ net.finish.at # "none" => SetupShown /\ ui.w.busy /\ ui.w.step = "review"
                                                /\ net.settings = "none" /\ net.companions = "none"
                   /\ net.finish.at = "created" => net.finish.name \in srv.companions
                   /\ net.finish.at = "settings" /\ net.finish.name # "" => net.finish.name \in srv.companions
                   /\ srv.setup /\ past.wanted # "" => past.wanted \in srv.companions
  /\ past.wanted # "" => srv.setup

\* A wizard that is busy without a finish waits for a read that will tell it the node is set up, or that failed.
SetupBusy ==
  /\ net.finish.at = "done" => srv.setup
  /\ net.settings = "failed" => past.unread
  /\ ui.w.busy /\ net.finish.at = "none" /\ ~past.unread => net.settings \in {"asked", "complete"} /\ srv.setup

\* A node set up by the wizard, or by its restore, is not offered to be set up again.
SetupOnce ==
  srv.setup /\ ~past.left /\ past.elsewhere = 0 =>
    \/ ui.settings # "new" /\ net.settings # "new"
    \/ ui.companions # "none" /\ net.companions # "empty" /\ srv.companions # {}
    \/ /\ SetupShown /\ net.settings # "new"
       /\ \/ ui.w.busy /\ ui.w.step = "review" /\ net.finish.at \in {"none", "done"}
          \/ ui.w.step = "restore" /\ (net.restore.at = "done" \/ ui.w.result # "none")

SetupInv == SetupShape /\ SetupGate /\ SetupLoads /\ SetupRestore /\ SetupFinish /\ SetupBusy /\ SetupOnce

LEMMA SetupInit == Wizard!Init => SetupInv
<1> SUFFICES ASSUME Wizard!Init PROVE SetupInv
  OBVIOUS
<1> USE DEF Wizard!Init, Wizard!Opened, Wizard!Loading, Wizard!NotRead, Wizard!Fresh, Wizard!NoFinish, Wizard!NoRestore
<1>1. PICK setup \in BOOLEAN, cs \in {{}, {"first"}} :
        srv = [setup |-> setup, companions |-> cs, radio |-> "default", staged |-> FALSE]
  OBVIOUS
<1>2. SetupShape
  BY <1>1 DEF SetupShape, SetupWizard, Wizard!Configured
<1>3. SetupGate
  BY <1>1 DEF SetupGate, SetupShown, Wizard!Configured
<1>4. SetupLoads /\ SetupRestore /\ SetupFinish /\ SetupBusy /\ SetupOnce
  BY <1>1 DEF SetupLoads, SetupRestore, SetupFinish, SetupBusy, SetupOnce, SetupShown
<1> QED BY <1>2, <1>3, <1>4 DEF SetupInv

\* What leaves the wizard busy or not as it was, and on the restore step or off it, with nothing else happening.
LEMMA SetupEdits ==
  ASSUME SetupInv, SetupShown, ui'.settings = ui.settings, ui'.companions = ui.companions, DOMAIN ui' = DOMAIN ui, DOMAIN ui'.w = SetupWizard,
         ui'.w.busy = ui.w.busy, ui'.w.restoring = ui.w.restoring, ui'.w.result = ui.w.result,
         ui'.w.file \in {"none", "config", "database"},
         ui'.w.step \in {"welcome", "restore", "radio", "companion", "review"}, ui'.w.step = ui.w.step \/ ui.w.step \notin {"review", "restore"}, net' = net, srv' = srv, DOMAIN past' = DOMAIN past,
         past'.held = past.held, past'.left = past.left, past'.unread = past.unread, past'.wanted = past.wanted,
         past'.elsewhere = past.elsewhere
  PROVE  SetupInv'
<1> USE DEF SetupInv, SetupShown
<1>1. SetupShape'
  BY DEF SetupShape
<1>2. SetupGate'
  BY DEF SetupGate
<1>3. SetupLoads'
  BY DEF SetupLoads, SetupShape, SetupGate
<1>4. SetupRestore'
  BY DEF SetupRestore
<1>5. SetupFinish'
  BY DEF SetupFinish
<1>6. SetupBusy'
  BY DEF SetupBusy
<1>7. SetupOnce'
  BY DEF SetupOnce, SetupShape, SetupGate
<1> QED BY <1>1, <1>2, <1>3, <1>4, <1>5, <1>6, <1>7

LEMMA SetupNext == SetupInv /\ Wizard!Next => SetupInv'
<1> SUFFICES ASSUME SetupInv, Wizard!Next PROVE SetupInv'
  OBVIOUS
<1> USE DEF SetupInv
<1>1. CASE Wizard!ServeLoads
  <2> USE DEF SetupShape, SetupShown, SetupWizard
  <2>1. ui' = ui /\ srv' = srv
    BY <1>1 DEF Wizard!ServeLoads
  <2>2. DOMAIN net' = DOMAIN net /\ net'.finish = net.finish /\ net'.restore = net.restore
    BY <1>1 DEF Wizard!ServeLoads
  <2>3. \/ net'.settings = net.settings
        \/ net.settings = "asked" /\ net'.settings = IF srv.setup THEN "complete" ELSE "new"
        \/ net.settings = "asked" /\ net'.settings = "failed" /\ past'.unread
    BY <1>1 DEF Wizard!ServeLoads, Wizard!Spent
  <2>4. \/ net'.companions = net.companions
        \/ net.companions = "asked" /\ net'.companions = IF srv.companions = {} THEN "empty" ELSE "some"
        \/ net.companions = "asked" /\ net'.companions = "failed" /\ past'.unread
    BY <1>1 DEF Wizard!ServeLoads, Wizard!Spent
  <2>5. /\ DOMAIN past' = DOMAIN past /\ past'.held = past.held /\ past'.left = past.left /\ past'.wanted = past.wanted
        /\ past'.elsewhere = past.elsewhere /\ past'.unread \in BOOLEAN /\ (past.unread => past'.unread)
    BY <1>1 DEF Wizard!ServeLoads, Wizard!Spent
  <2>6. SetupShape'
    BY <2>1, <2>2, <2>3, <2>4, <2>5
  <2>7. SetupGate'
    BY <2>1, <2>2, <2>3, <2>4, <2>5 DEF SetupGate
  <2>8. SetupLoads'
    BY <2>1, <2>2, <2>3, <2>4, <2>5 DEF SetupLoads, SetupRestore, SetupFinish, SetupGate
  <2>9. SetupRestore'
    BY <2>1, <2>2, <2>3, <2>4, <2>5 DEF SetupRestore, SetupLoads, SetupFinish
  <2>10. SetupFinish'
    BY <2>1, <2>2, <2>3, <2>4, <2>5 DEF SetupFinish
  <2>11. SetupBusy'
    BY <2>1, <2>2, <2>3, <2>4, <2>5 DEF SetupBusy, SetupFinish
  <2>12. SetupOnce'
    <3> SUFFICES ASSUME srv.setup, ~past.left, past.elsewhere = 0
                 PROVE  SetupOnce'
      BY <2>1, <2>5 DEF SetupOnce
    <3>1. net'.settings = "new" => net.settings = "new"
      BY <2>3
    <3>2. net'.companions = "empty" => net.companions = "empty" \/ srv.companions = {}
      BY <2>4
    <3>3. \/ ui.settings # "new" /\ net.settings # "new"
          \/ ui.companions # "none" /\ net.companions # "empty" /\ srv.companions # {}
          \/ /\ SetupShown /\ net.settings # "new"
             /\ \/ ui.w.busy /\ ui.w.step = "review" /\ net.finish.at \in {"none", "done"}
                \/ ui.w.step = "restore" /\ (net.restore.at = "done" \/ ui.w.result # "none")
      BY DEF SetupOnce
    <3> HIDE DEF SetupInv, SetupShape
    <3> QED BY <2>1, <2>2, <3>1, <3>2, <3>3 DEF SetupOnce
  <2> QED BY <2>6, <2>7, <2>8, <2>9, <2>10, <2>11, <2>12
<1>2. CASE Wizard!SettingsLand
  <2> USE <1>2 DEF Wizard!SettingsLand, Wizard!Gated, Wizard!NeedsSetup, Wizard!Fresh, Wizard!NotRead
  <2>1. SetupShape'
    BY DEF SetupShape, SetupWizard
  <2>2. SetupGate'
    BY DEF SetupShape, SetupShown, SetupGate
  <2>3. SetupLoads'
    BY DEF SetupShape, SetupShown, SetupLoads, SetupRestore, SetupFinish
  <2>4. SetupRestore'
    BY DEF SetupShape, SetupShown, SetupLoads, SetupRestore, SetupFinish
  <2>5. SetupFinish'
    BY DEF SetupShape, SetupShown, SetupLoads, SetupRestore, SetupFinish
  <2>6. SetupBusy'
    BY DEF SetupShape, SetupShown, SetupGate, SetupBusy
  <2>7. SetupOnce'
    BY DEF SetupShape, SetupShown, SetupGate, SetupLoads, SetupRestore, SetupFinish, SetupBusy, SetupOnce
  <2> QED BY <2>1, <2>2, <2>3, <2>4, <2>5, <2>6, <2>7
<1>3. CASE Wizard!CompanionsLand
  <2> USE <1>3 DEF Wizard!CompanionsLand, Wizard!Gated, Wizard!NeedsSetup, Wizard!Fresh, Wizard!NotRead
  <2>1. SetupShape'
    BY DEF SetupShape, SetupWizard
  <2>2. SetupGate'
    BY DEF SetupShape, SetupShown, SetupGate
  <2>3. SetupLoads'
    BY DEF SetupShape, SetupShown, SetupLoads, SetupRestore, SetupFinish
  <2>4. SetupRestore'
    BY DEF SetupShape, SetupShown, SetupLoads, SetupRestore, SetupFinish
  <2>5. SetupFinish'
    BY DEF SetupShape, SetupShown, SetupLoads, SetupRestore, SetupFinish
  <2>6. SetupBusy'
    BY DEF SetupShape, SetupShown, SetupGate, SetupBusy
  <2>7. SetupOnce'
    BY DEF SetupShape, SetupShown, SetupGate, SetupLoads, SetupRestore, SetupFinish, SetupBusy, SetupOnce
  <2> QED BY <2>1, <2>2, <2>3, <2>4, <2>5, <2>6, <2>7
<1>4. CASE Wizard!Reopen
  <2> USE <1>4 DEF Wizard!Reopen, Wizard!Opened, Wizard!Loading, Wizard!Fresh, Wizard!NotRead, Wizard!NoFinish, Wizard!NoRestore, Wizard!Configured
  <2>1. SetupShape'
    BY DEF SetupShape, SetupWizard
  <2>2. SetupGate'
    BY DEF SetupShape, SetupShown, SetupGate
  <2>3. SetupLoads'
    BY DEF SetupShape, SetupShown, SetupLoads, SetupRestore, SetupFinish
  <2>4. SetupRestore'
    BY DEF SetupShape, SetupShown, SetupLoads, SetupRestore, SetupFinish
  <2>5. SetupFinish'
    BY DEF SetupShape, SetupShown, SetupLoads, SetupRestore, SetupFinish
  <2>6. SetupBusy'
    BY DEF SetupShape, SetupShown, SetupGate, SetupBusy
  <2>7. SetupOnce'
    BY DEF SetupShape, SetupShown, SetupGate, SetupLoads, SetupRestore, SetupFinish, SetupBusy, SetupOnce
  <2> QED BY <2>1, <2>2, <2>3, <2>4, <2>5, <2>6, <2>7
<1>5. CASE Wizard!Begin
  <2> USE <1>5 DEF Wizard!Begin, Wizard!Wizard, Wizard!NeedsSetup, Wizard!Set, Wizard!Step, Wizard!Still, SetupShape, SetupShown, SetupWizard
  <2>1. SetupShown /\ net' = net /\ srv' = srv /\ (past' = past \/ past' = [past EXCEPT !.edits = @ + 1])
    OBVIOUS
  <2>2. /\ ui'.settings = ui.settings /\ ui'.companions = ui.companions /\ DOMAIN ui' = DOMAIN ui /\ DOMAIN ui'.w = SetupWizard
        /\ ui'.w.busy = ui.w.busy /\ ui'.w.restoring = ui.w.restoring /\ ui'.w.result = ui.w.result
    OBVIOUS
  <2>3. ui'.w.file \in {"none", "config", "database"} /\ (ui'.w.step = ui.w.step \/ ui.w.step \notin {"review", "restore"})
    OBVIOUS
  <2> QED BY <2>1, <2>2, <2>3, SetupEdits
<1>6. CASE Wizard!ToRestore
  <2> USE <1>6 DEF Wizard!ToRestore, Wizard!Wizard, Wizard!NeedsSetup, Wizard!Set, Wizard!Step, Wizard!Still, SetupShape, SetupShown, SetupWizard
  <2>1. SetupShown /\ net' = net /\ srv' = srv /\ (past' = past \/ past' = [past EXCEPT !.edits = @ + 1])
    OBVIOUS
  <2>2. /\ ui'.settings = ui.settings /\ ui'.companions = ui.companions /\ DOMAIN ui' = DOMAIN ui /\ DOMAIN ui'.w = SetupWizard
        /\ ui'.w.busy = ui.w.busy /\ ui'.w.restoring = ui.w.restoring /\ ui'.w.result = ui.w.result
    OBVIOUS
  <2>3. ui'.w.file \in {"none", "config", "database"} /\ (ui'.w.step = ui.w.step \/ ui.w.step \notin {"review", "restore"})
    OBVIOUS
  <2> QED BY <2>1, <2>2, <2>3, SetupEdits
<1>7. CASE Wizard!RadioNext
  <2> USE <1>7 DEF Wizard!RadioNext, Wizard!Wizard, Wizard!NeedsSetup, Wizard!Set, Wizard!Step, Wizard!Still, SetupShape, SetupShown, SetupWizard
  <2>1. SetupShown /\ net' = net /\ srv' = srv /\ (past' = past \/ past' = [past EXCEPT !.edits = @ + 1])
    OBVIOUS
  <2>2. /\ ui'.settings = ui.settings /\ ui'.companions = ui.companions /\ DOMAIN ui' = DOMAIN ui /\ DOMAIN ui'.w = SetupWizard
        /\ ui'.w.busy = ui.w.busy /\ ui'.w.restoring = ui.w.restoring /\ ui'.w.result = ui.w.result
    OBVIOUS
  <2>3. ui'.w.file \in {"none", "config", "database"} /\ (ui'.w.step = ui.w.step \/ ui.w.step \notin {"review", "restore"})
    OBVIOUS
  <2> QED BY <2>1, <2>2, <2>3, SetupEdits
<1>8. CASE Wizard!Skip
  <2> USE <1>8 DEF Wizard!Skip, Wizard!Wizard, Wizard!NeedsSetup, Wizard!Set, Wizard!Still, SetupShape, SetupShown, SetupWizard
  <2>1. SetupShown /\ net' = net /\ srv' = srv /\ (past' = past \/ past' = [past EXCEPT !.edits = @ + 1])
    OBVIOUS
  <2>2. /\ ui'.settings = ui.settings /\ ui'.companions = ui.companions /\ DOMAIN ui' = DOMAIN ui /\ DOMAIN ui'.w = SetupWizard
        /\ ui'.w.busy = ui.w.busy /\ ui'.w.restoring = ui.w.restoring /\ ui'.w.result = ui.w.result
    OBVIOUS
  <2>3. ui'.w.file \in {"none", "config", "database"} /\ (ui'.w.step = ui.w.step \/ ui.w.step \notin {"review", "restore"})
    OBVIOUS
  <2> QED BY <2>1, <2>2, <2>3, SetupEdits
<1>9. CASE Wizard!Review
  <2> USE <1>9 DEF Wizard!Review, Wizard!Wizard, Wizard!NeedsSetup, Wizard!Set, Wizard!Still, SetupShape, SetupShown, SetupWizard
  <2>1. SetupShown /\ net' = net /\ srv' = srv /\ (past' = past \/ past' = [past EXCEPT !.edits = @ + 1])
    OBVIOUS
  <2>2. /\ ui'.settings = ui.settings /\ ui'.companions = ui.companions /\ DOMAIN ui' = DOMAIN ui /\ DOMAIN ui'.w = SetupWizard
        /\ ui'.w.busy = ui.w.busy /\ ui'.w.restoring = ui.w.restoring /\ ui'.w.result = ui.w.result
    OBVIOUS
  <2>3. ui'.w.file \in {"none", "config", "database"} /\ (ui'.w.step = ui.w.step \/ ui.w.step \notin {"review", "restore"})
    OBVIOUS
  <2> QED BY <2>1, <2>2, <2>3, SetupEdits
<1>10. CASE Wizard!Back
  <2> USE DEF SetupShape, SetupShown, SetupWizard
  <2>1. /\ SetupShown /\ net' = net /\ srv' = srv /\ ~ui.w.busy
        /\ past' = [past EXCEPT !.left = @ \/ net.restore.at # "none" \/ ui.w.result # "none"]
    BY <1>10 DEF Wizard!Back, Wizard!Wizard, Wizard!NeedsSetup
  <2>2. PICK step \in {"welcome", "radio", "companion"} :
          \/ ui.w.step = "restore" /\ ui' = [ui EXCEPT !.w = [ui.w EXCEPT !.step = step, !.file = "none", !.restoring = FALSE, !.result = "none"]]
          \/ ui.w.step \in {"radio", "companion", "review"} /\ ui' = [ui EXCEPT !.w = [ui.w EXCEPT !.step = step]]
    BY <1>10 DEF Wizard!Back, Wizard!Set
  <2>3. /\ ui'.settings = ui.settings /\ ui'.companions = ui.companions /\ DOMAIN ui' = DOMAIN ui /\ DOMAIN ui'.w = SetupWizard
        /\ ui'.w.busy = ui.w.busy /\ ui'.w.step = step /\ ui'.w.file \in {ui.w.file, "none"} /\ ui'.w.restoring \in {ui.w.restoring, FALSE}
    <3>1. CASE ui.w.step = "restore"
      <4> DEFINE w == [ui.w EXCEPT !.step = step, !.file = "none", !.restoring = FALSE, !.result = "none"]
      <4>1. DOMAIN w = SetupWizard /\ w.busy = ui.w.busy /\ w.step = step /\ w.file = "none" /\ w.restoring = FALSE
        OBVIOUS
      <4>2. ui' = [ui EXCEPT !.w = w]
        BY <2>2, <3>1
      <4> HIDE DEF w
      <4> QED BY <4>1, <4>2
    <3>2. CASE ui.w.step # "restore"
      <4> DEFINE w == [ui.w EXCEPT !.step = step]
      <4>1. /\ DOMAIN w = SetupWizard /\ w.busy = ui.w.busy /\ w.step = step /\ w.file = ui.w.file /\ w.restoring = ui.w.restoring
        OBVIOUS
      <4>2. ui' = [ui EXCEPT !.w = w]
        BY <2>2, <3>2
      <4> HIDE DEF w
      <4> QED BY <4>1, <4>2
    <3> QED BY <3>1, <3>2
  <2>4. /\ ui'.w.result \in {ui.w.result, "none"}
        /\ ui.w.step # "restore" => ui'.w.result = ui.w.result /\ ui'.w.restoring = ui.w.restoring
    <3>1. CASE ui.w.step = "restore"
      <4>1. ui' = [ui EXCEPT !.w = [ui.w EXCEPT !.step = step, !.file = "none", !.restoring = FALSE, !.result = "none"]]
        BY <2>2, <3>1
      <4> QED BY <3>1, <4>1
    <3>2. CASE ui.w.step # "restore"
      <4>1. ui' = [ui EXCEPT !.w = [ui.w EXCEPT !.step = step]]
        BY <2>2, <3>2
      <4> QED BY <4>1
    <3> QED BY <3>1, <3>2
  <2>5. past'.left \in BOOLEAN /\ (~past'.left => ~past.left /\ net.restore.at = "none" /\ ui.w.result = "none")
    BY <2>1
  <2>6. /\ DOMAIN past' = DOMAIN past /\ past'.held = past.held /\ past'.unread = past.unread /\ past'.wanted = past.wanted
        /\ past'.elsewhere = past.elsewhere
    BY <2>1
  <2>7. SetupShape'
    <3>1. ui'.w.file \in {"none", "config", "database"} /\ ui'.w.restoring \in BOOLEAN
      BY <2>3
    <3> QED BY <2>1, <2>3, <2>5, <2>6, <3>1
  <2>8. SetupGate'
    BY <2>1, <2>3, <2>6 DEF SetupGate
  <2>9. SetupLoads'
    BY <2>1, <2>3, <2>5 DEF SetupLoads
  <2>10. SetupRestore'
    BY <2>1, <2>3, <2>4, <2>5 DEF SetupRestore
  <2>11. SetupFinish'
    BY <2>1, <2>3, <2>5, <2>6 DEF SetupFinish
  <2>12. SetupBusy'
    BY <2>1, <2>3, <2>6 DEF SetupBusy
  <2>13. SetupOnce'
    BY <2>1, <2>3, <2>4, <2>5, <2>6 DEF SetupOnce
  <2> QED BY <2>7, <2>8, <2>9, <2>10, <2>11, <2>12, <2>13
<1>11. CASE Wizard!EditRadio
  <2> USE <1>11 DEF Wizard!EditRadio, Wizard!Wizard, Wizard!NeedsSetup, Wizard!Set, Wizard!Edit, SetupShape, SetupShown, SetupWizard
  <2>1. SetupShown /\ net' = net /\ srv' = srv /\ (past' = past \/ past' = [past EXCEPT !.edits = @ + 1])
    OBVIOUS
  <2>2. /\ ui'.settings = ui.settings /\ ui'.companions = ui.companions /\ DOMAIN ui' = DOMAIN ui /\ DOMAIN ui'.w = SetupWizard
        /\ ui'.w.busy = ui.w.busy /\ ui'.w.restoring = ui.w.restoring /\ ui'.w.result = ui.w.result
    OBVIOUS
  <2>3. ui'.w.file \in {"none", "config", "database"} /\ (ui'.w.step = ui.w.step \/ ui.w.step \notin {"review", "restore"})
    OBVIOUS
  <2> QED BY <2>1, <2>2, <2>3, SetupEdits
<1>12. CASE Wizard!EditName
  <2> USE DEF SetupShape, SetupShown, SetupWizard
  <2>1. PICK n \in GivenNames \cup {""} : Wizard!Edit([ui.w EXCEPT !.name = n])
    BY <1>12 DEF Wizard!EditName
  <2>2. SetupShown /\ net' = net /\ srv' = srv /\ past' = [past EXCEPT !.edits = @ + 1] /\ ui' = [ui EXCEPT !.w = [ui.w EXCEPT !.name = n]]
    BY <2>1 DEF Wizard!Edit, Wizard!Set, Wizard!Wizard, Wizard!NeedsSetup
  <2>3. /\ ui'.settings = ui.settings /\ ui'.companions = ui.companions /\ DOMAIN ui' = DOMAIN ui /\ DOMAIN ui'.w = SetupWizard
        /\ ui'.w.busy = ui.w.busy /\ ui'.w.restoring = ui.w.restoring /\ ui'.w.result = ui.w.result
        /\ ui'.w.file = ui.w.file /\ ui'.w.step = ui.w.step
    BY <2>2
  <2> QED BY <2>2, <2>3, SetupEdits
<1>13. CASE Wizard!Finish
  <2> USE DEF SetupShape, SetupShown, SetupWizard
  <2>1. SetupShown /\ srv' = srv /\ past' = past /\ ui.w.step = "review" /\ ~ui.w.busy /\ ui' = [ui EXCEPT !.w = [ui.w EXCEPT !.busy = TRUE]]
    BY <1>13 DEF Wizard!Finish, Wizard!Wizard, Wizard!NeedsSetup, Wizard!Set
  <2>2. ui'.settings = ui.settings /\ ui'.companions = ui.companions /\ DOMAIN ui' = DOMAIN ui /\ DOMAIN ui'.w = SetupWizard
        /\ ui'.w.busy /\ ui'.w.step = ui.w.step /\ ui'.w.file = ui.w.file /\ ui'.w.restoring = ui.w.restoring /\ ui'.w.result = ui.w.result /\ ui'.w.busy \in BOOLEAN
    BY <2>1
  <2>3. DOMAIN net' = DOMAIN net /\ DOMAIN net'.finish = DOMAIN net.finish /\ DOMAIN net'.restore = DOMAIN net.restore /\ net'.settings = net.settings /\ net'.companions = net.companions
        /\ net'.restore = net.restore
    BY <1>13 DEF Wizard!Finish
  <2>4. net'.finish.at \in {"companion", "settings"} /\ (net'.finish.at = "settings" => net'.finish.name = "")
    BY <1>13 DEF Wizard!Finish
  <2>5. ~past.left => net.settings = "none" /\ net.companions = "none" /\ net.restore.at = "none"
    BY <2>1 DEF SetupLoads, SetupRestore, Wizard!NotRead
  <2>6. SetupShape'
    BY <2>1, <2>2, <2>3, <2>4, <2>5
  <2>7. SetupGate'
    BY <2>1, <2>2, <2>3, <2>4, <2>5 DEF SetupGate
  <2>8. SetupLoads'
    BY <2>1, <2>2, <2>3, <2>4, <2>5 DEF SetupLoads, SetupRestore, SetupFinish, SetupGate
  <2>9. SetupRestore'
    BY <2>1, <2>2, <2>3 DEF SetupRestore
  <2>10. SetupFinish'
    BY <2>1, <2>2, <2>3, <2>4, <2>5 DEF SetupFinish
  <2>11. SetupBusy'
    BY <2>1, <2>2, <2>3, <2>4, <2>5 DEF SetupBusy, SetupFinish
  <2>12. SetupOnce'
    BY <2>1, <2>2, <2>3, <2>4, <2>5 DEF SetupOnce, SetupFinish, SetupRestore, SetupLoads, SetupBusy, SetupGate
  <2> QED BY <2>6, <2>7, <2>8, <2>9, <2>10, <2>11, <2>12
<1>14. CASE Wizard!CompanionSaved
  <2> USE <1>14 DEF Wizard!CompanionSaved
  <2>1. SetupShape'
    BY DEF SetupShape, SetupWizard
  <2>2. SetupGate'
    BY DEF SetupShape, SetupShown, SetupGate
  <2>3. SetupLoads'
    BY DEF SetupShape, SetupShown, SetupLoads, SetupRestore, SetupFinish
  <2>4. SetupRestore'
    BY DEF SetupShape, SetupShown, SetupLoads, SetupRestore, SetupFinish
  <2>5. SetupFinish'
    BY DEF SetupShape, SetupShown, SetupLoads, SetupRestore, SetupFinish
  <2>6. SetupBusy'
    BY DEF SetupShape, SetupShown, SetupGate, SetupBusy
  <2>7. SetupOnce'
    BY DEF SetupShape, SetupShown, SetupGate, SetupLoads, SetupRestore, SetupFinish, SetupBusy, SetupOnce
  <2> QED BY <2>1, <2>2, <2>3, <2>4, <2>5, <2>6, <2>7
<1>15. CASE Wizard!Failed
  <2> USE DEF SetupShape, SetupShown, SetupWizard
  <2>1. srv' = srv /\ past' = past /\ net' = [net EXCEPT !.finish = Wizard!NoFinish] /\ net.finish.at = "failed"
    BY <1>15 DEF Wizard!Failed
  <2>2. ui' = [ui EXCEPT !.w = IF SetupShown THEN [ui.w EXCEPT !.busy = FALSE] ELSE ui.w]
    BY <1>15 DEF Wizard!Failed, Wizard!Set, Wizard!Wizard, Wizard!NeedsSetup
  <2>3. ui'.settings = ui.settings /\ ui'.companions = ui.companions /\ DOMAIN ui' = DOMAIN ui /\ DOMAIN ui'.w = SetupWizard
        /\ ui'.w.step = ui.w.step /\ ui'.w.file = ui.w.file /\ ui'.w.restoring = ui.w.restoring /\ ui'.w.result = ui.w.result
    BY <2>2
  <2>4. (SetupShown => ui'.w.busy = FALSE) /\ (~SetupShown => ui'.w = ui.w /\ ~ui.w.busy)
    BY <2>2 DEF SetupGate, Wizard!Fresh
  <2>5. DOMAIN net' = DOMAIN net /\ DOMAIN net'.finish = DOMAIN net.finish /\ DOMAIN net'.restore = DOMAIN net.restore /\ net'.settings = net.settings /\ net'.companions = net.companions
        /\ net'.restore = net.restore /\ net'.finish.at = "none"
    BY <2>1 DEF Wizard!NoFinish
  <2>6. SetupShape'
    BY <2>1, <2>2, <2>3, <2>4, <2>5
  <2>7. SetupGate'
    BY <2>1, <2>2, <2>3, <2>4, <2>5 DEF SetupGate
  <2>8. SetupLoads'
    BY <2>1, <2>2, <2>3, <2>4, <2>5 DEF SetupLoads, SetupRestore, SetupFinish, SetupGate
  <2>9. SetupRestore'
    BY <2>1, <2>2, <2>3, <2>4, <2>5 DEF SetupRestore, SetupLoads, SetupFinish
  <2>10. SetupFinish'
    BY <2>1, <2>2, <2>3, <2>4, <2>5 DEF SetupFinish
  <2>11. SetupBusy'
    BY <2>1, <2>2, <2>3, <2>4, <2>5 DEF SetupBusy, SetupFinish
  <2>12. SetupOnce'
    BY <2>1, <2>2, <2>3, <2>4, <2>5 DEF SetupOnce, SetupFinish, SetupRestore, SetupLoads, SetupBusy, SetupGate
  <2> QED BY <2>6, <2>7, <2>8, <2>9, <2>10, <2>11, <2>12
<1>16. CASE Wizard!Finished
  <2> USE <1>16 DEF Wizard!Finished, Wizard!Reloaded, Wizard!NoFinish
  <2>1. SetupShape'
    BY DEF SetupShape, SetupWizard
  <2>2. SetupGate'
    BY DEF SetupShape, SetupShown, SetupGate
  <2>3. SetupLoads'
    BY DEF SetupShape, SetupShown, SetupLoads, SetupRestore, SetupFinish
  <2>4. SetupRestore'
    BY DEF SetupShape, SetupShown, SetupLoads, SetupRestore, SetupFinish
  <2>5. SetupFinish'
    BY DEF SetupShape, SetupShown, SetupLoads, SetupRestore, SetupFinish
  <2>6. SetupBusy'
    BY DEF SetupShape, SetupShown, SetupGate, SetupBusy
  <2>7. SetupOnce'
    BY DEF SetupShape, SetupShown, SetupGate, SetupLoads, SetupRestore, SetupFinish, SetupBusy, SetupOnce
  <2> QED BY <2>1, <2>2, <2>3, <2>4, <2>5, <2>6, <2>7
<1>17. CASE Wizard!Restore
  <2> USE DEF SetupShape, SetupShown, SetupWizard
  <2>1. /\ SetupShown /\ ui.w.step = "restore" /\ ui.w.result = "none" /\ ui.w.file # "none" /\ net.restore.at = "none" /\ srv' = srv /\ past' = past
        /\ ui' = [ui EXCEPT !.w = [ui.w EXCEPT !.restoring = TRUE]] /\ net' = [net EXCEPT !.restore = [at |-> "asked", file |-> ui.w.file]]
    BY <1>17 DEF Wizard!Restore, Wizard!Set, Wizard!Wizard, Wizard!NeedsSetup
  <2>2. ui'.settings = ui.settings /\ ui'.companions = ui.companions /\ DOMAIN ui' = DOMAIN ui /\ DOMAIN ui'.w = SetupWizard
        /\ ui'.w.busy = ui.w.busy /\ ui'.w.step = ui.w.step /\ ui'.w.file = ui.w.file /\ ui'.w.restoring = TRUE /\ ui'.w.result = ui.w.result
    BY <2>1
  <2>3. DOMAIN net' = DOMAIN net /\ DOMAIN net'.finish = DOMAIN net.finish /\ DOMAIN net'.restore = DOMAIN net.restore /\ net'.settings = net.settings /\ net'.companions = net.companions
        /\ net'.finish = net.finish /\ net'.restore.at = "asked" /\ net'.restore.file = ui.w.file
    BY <2>1
  <2>4. ~past.left => net.settings = "none" /\ net.companions = "none" /\ net.finish.at = "none"
    BY <2>1 DEF SetupLoads, SetupFinish, Wizard!NotRead
  <2>5. SetupShape'
    BY <2>1, <2>2, <2>3, <2>4
  <2>6. SetupGate'
    BY <2>1, <2>2, <2>3, <2>4 DEF SetupGate
  <2>7. SetupLoads'
    BY <2>1, <2>2, <2>3, <2>4 DEF SetupLoads, SetupRestore, SetupFinish, SetupGate
  <2>8. SetupRestore'
    BY <2>1, <2>2, <2>3, <2>4 DEF SetupRestore, SetupLoads, SetupFinish
  <2>9. SetupFinish'
    BY <2>1, <2>2, <2>3, <2>4 DEF SetupFinish, SetupLoads, SetupRestore, SetupGate
  <2>10. SetupBusy'
    BY <2>1, <2>2, <2>3, <2>4 DEF SetupBusy, SetupFinish
  <2>11. SetupOnce'
    BY <2>1, <2>2, <2>3, <2>4 DEF SetupOnce, SetupFinish, SetupRestore, SetupLoads, SetupBusy, SetupGate
  <2> QED BY <2>5, <2>6, <2>7, <2>8, <2>9, <2>10, <2>11
<1>18. CASE Wizard!RestoreLands
  <2> USE DEF SetupShape, SetupShown, SetupWizard
  <2>1. srv' = srv /\ past' = past /\ net.restore.at \in {"done", "failed"}
    BY <1>18 DEF Wizard!RestoreLands
  <2>2. PICK w : /\ ui' = [ui EXCEPT !.w = w] /\ DOMAIN w = SetupWizard /\ w.busy = ui.w.busy /\ w.step = ui.w.step
                 /\ w.file \in {ui.w.file, "none"} /\ w.restoring = FALSE /\ (~ui.w.restoring => w = ui.w)
                 /\ w.result = IF ui.w.restoring /\ net.restore.at = "done" THEN net.restore.file ELSE ui.w.result
    <3> DEFINE w == IF ui.w.restoring THEN [ui.w EXCEPT !.restoring = FALSE] ELSE ui.w
               v == IF ui.w.restoring THEN [w EXCEPT !.result = net.restore.file, !.file = "none"] ELSE w
    <3>1. /\ DOMAIN w = SetupWizard /\ w.busy = ui.w.busy /\ w.step = ui.w.step /\ w.file = ui.w.file /\ w.restoring = FALSE
          /\ w.result = ui.w.result /\ (~ui.w.restoring => w = ui.w)
      OBVIOUS
    <3>2. net.restore.at = "failed" => ui' = [ui EXCEPT !.w = w]
      BY <1>18 DEF Wizard!RestoreLands, Wizard!Set
    <3>3. net.restore.at = "done" => ui' = [ui EXCEPT !.w = v]
      BY <1>18 DEF Wizard!RestoreLands, Wizard!Set
    <3> HIDE DEF w
    <3>4. /\ DOMAIN v = SetupWizard /\ v.busy = ui.w.busy /\ v.step = ui.w.step /\ v.file \in {ui.w.file, "none"} /\ v.restoring = FALSE
          /\ (~ui.w.restoring => v = ui.w) /\ v.result = IF ui.w.restoring THEN net.restore.file ELSE ui.w.result
      BY <3>1
    <3> HIDE DEF v
    <3>5. CASE net.restore.at = "failed"
      BY <3>1, <3>2, <3>5
    <3>6. CASE net.restore.at = "done"
      BY <3>3, <3>4, <3>6
    <3> QED BY <2>1, <3>5, <3>6
  <2>3. ui'.settings = ui.settings /\ ui'.companions = ui.companions /\ DOMAIN ui' = DOMAIN ui /\ DOMAIN ui'.w = SetupWizard
        /\ ui'.w.busy = ui.w.busy /\ ui'.w.step = ui.w.step /\ ui'.w.file \in {ui.w.file, "none"} /\ ui'.w.restoring = FALSE
        /\ ui'.w.result = (IF ui.w.restoring /\ net.restore.at = "done" THEN net.restore.file ELSE ui.w.result)
    BY <2>2
  <2>4. ~ui.w.restoring => ui'.w = ui.w
    BY <2>2
  <2>5. SetupShown \/ ~ui.w.restoring
    BY DEF SetupGate, Wizard!Fresh
  <2>6. DOMAIN net' = DOMAIN net /\ DOMAIN net'.finish = DOMAIN net.finish /\ DOMAIN net'.restore = DOMAIN net.restore /\ net'.finish = net.finish /\ net'.restore.at = "none"
    <3> DEFINE n == [net EXCEPT !.restore = Wizard!NoRestore]
    <3>1. n.finish = net.finish /\ DOMAIN n = DOMAIN net /\ DOMAIN n.restore = DOMAIN net.restore /\ n.restore.at = "none"
      BY DEF Wizard!NoRestore
    <3>2. net' = n \/ net' = [n EXCEPT !.settings = "asked", !.companions = "asked"]
      BY <1>18 DEF Wizard!RestoreLands, Wizard!Reloaded
    <3> HIDE DEF n
    <3>3. CASE net' = n
      BY <3>1, <3>3
    <3>4. CASE net' = [n EXCEPT !.settings = "asked", !.companions = "asked"]
      <4>1. net'.finish = n.finish /\ net'.restore = n.restore /\ DOMAIN net' = DOMAIN n
        BY <3>1, <3>4
      <4> QED BY <3>1, <4>1
    <3> QED BY <3>2, <3>3, <3>4
  <2>7. IF net.restore.at = "done" /\ net.restore.file = "config" THEN net'.settings = "asked" /\ net'.companions = "asked"
        ELSE net'.settings = net.settings /\ net'.companions = net.companions
    BY <1>18 DEF Wizard!RestoreLands, Wizard!NoRestore, Wizard!Reloaded
  <2>15. ~past.left => net.finish.at = "none" /\ ui.w.step = "restore" /\ SetupShown /\ net.settings = "none" /\ net.companions = "none"
    BY <2>1 DEF SetupRestore, SetupFinish
  <2>8. SetupShape'
    BY <2>1, <2>2, <2>3, <2>4, <2>5, <2>6, <2>7
  <2>9. SetupGate'
    BY <2>1, <2>2, <2>3, <2>4, <2>5, <2>6, <2>7 DEF SetupGate
  <2>10. SetupLoads'
    BY <2>1, <2>2, <2>3, <2>4, <2>5, <2>6, <2>7 DEF SetupLoads, SetupRestore, SetupFinish, SetupGate
  <2>11. SetupRestore'
    BY <2>1, <2>2, <2>3, <2>4, <2>5, <2>6, <2>7 DEF SetupRestore, SetupLoads, SetupFinish
  <2>12. SetupFinish'
    BY <2>1, <2>3, <2>6, <2>15 DEF SetupFinish
  <2>13. SetupBusy'
    BY <2>1, <2>3, <2>6, <2>7 DEF SetupBusy
  <2>14. SetupOnce'
    BY <2>1, <2>2, <2>3, <2>4, <2>5, <2>6, <2>7 DEF SetupOnce, SetupFinish, SetupRestore, SetupLoads, SetupBusy, SetupGate
  <2> QED BY <2>8, <2>9, <2>10, <2>11, <2>12, <2>13, <2>14
<1>19. ASSUME NEW f \in {"config", "database"}, Wizard!PickFile(f) PROVE SetupInv'
  <2> USE <1>19 DEF Wizard!PickFile, Wizard!Wizard, Wizard!NeedsSetup, Wizard!Set, Wizard!Still, SetupShape, SetupShown, SetupWizard
  <2>1. SetupShown /\ net' = net /\ srv' = srv /\ (past' = past \/ past' = [past EXCEPT !.edits = @ + 1])
    OBVIOUS
  <2>2. /\ ui'.settings = ui.settings /\ ui'.companions = ui.companions /\ DOMAIN ui' = DOMAIN ui /\ DOMAIN ui'.w = SetupWizard
        /\ ui'.w.busy = ui.w.busy /\ ui'.w.restoring = ui.w.restoring /\ ui'.w.result = ui.w.result
    OBVIOUS
  <2>3. ui'.w.file \in {"none", "config", "database"} /\ (ui'.w.step = ui.w.step \/ ui.w.step \notin {"review", "restore"})
    OBVIOUS
  <2> QED BY <2>1, <2>2, <2>3, SetupEdits
<1>20. CASE Wizard!ServeFinish
  <2> USE DEF SetupShape, SetupShown, SetupWizard
  <2>1. ui' = ui /\ net.finish.at \in {"companion", "settings"}
    BY <1>20 DEF Wizard!ServeFinish
  <2>2. ASSUME net.finish.at = "companion", past' = past, srv' = [srv EXCEPT !.companions = @ \cup {net.finish.name}],
               net' = [net EXCEPT !.finish.at = "created"] PROVE SetupInv'
    <3>1. /\ DOMAIN net' = DOMAIN net /\ net'.settings = net.settings /\ net'.companions = net.companions /\ net'.restore = net.restore
          /\ DOMAIN net'.finish = DOMAIN net.finish /\ net'.finish.name = net.finish.name /\ net'.finish.at = "created"
      BY <2>2
    <3>2. DOMAIN srv' = DOMAIN srv /\ srv'.setup = srv.setup /\ srv'.staged = srv.staged /\ srv'.companions = srv.companions \cup {net.finish.name}
      BY <2>2
    <3>3. SetupShape'
      BY <2>1, <2>2, <3>1, <3>2
    <3>4. SetupGate'
      BY <2>1, <2>2, <3>1, <3>2 DEF SetupGate
    <3>5. SetupLoads'
      BY <2>1, <2>2, <3>1, <3>2 DEF SetupLoads
    <3>6. SetupRestore'
      BY <2>1, <2>2, <3>1, <3>2 DEF SetupRestore, SetupFinish
    <3>7. SetupFinish'
      BY <2>1, <2>2, <3>1, <3>2 DEF SetupFinish, SetupRestore
    <3>8. SetupBusy'
      BY <2>1, <2>2, <3>1, <3>2 DEF SetupBusy
    <3>9. SetupOnce'
      BY <2>1, <2>2, <3>1, <3>2 DEF SetupOnce, SetupGate, SetupFinish, SetupRestore, SetupBusy
    <3> QED BY <3>3, <3>4, <3>5, <3>6, <3>7, <3>8, <3>9
  <2>3. ASSUME net.finish.at = "companion", srv' = srv, past' = past, net' = [net EXCEPT !.finish.at = "failed"] PROVE SetupInv'
    <3>1. /\ DOMAIN net' = DOMAIN net /\ net'.settings = net.settings /\ net'.companions = net.companions /\ net'.restore = net.restore
          /\ DOMAIN net'.finish = DOMAIN net.finish /\ net'.finish.name = net.finish.name /\ net'.finish.at = "failed"
      BY <2>3
    <3>2. SetupShape'
      BY <2>1, <2>3, <3>1
    <3>3. SetupGate'
      BY <2>1, <2>3, <3>1 DEF SetupGate
    <3>4. SetupLoads'
      BY <2>1, <2>3, <3>1 DEF SetupLoads
    <3>5. SetupRestore'
      BY <2>1, <2>3, <3>1 DEF SetupRestore, SetupFinish
    <3>6. SetupFinish'
      BY <2>1, <2>3, <3>1 DEF SetupFinish, SetupRestore
    <3>7. SetupBusy'
      BY <2>1, <2>3, <3>1 DEF SetupBusy
    <3>8. SetupOnce'
      BY <2>1, <2>3, <3>1 DEF SetupOnce, SetupGate, SetupFinish, SetupRestore, SetupBusy
    <3> QED BY <3>2, <3>3, <3>4, <3>5, <3>6, <3>7, <3>8
  <2>4. ASSUME net.finish.at = "settings", past' = [past EXCEPT !.wanted = net.finish.name], srv' = [srv EXCEPT !.setup = TRUE, !.radio = "wizard"],
               net' = [net EXCEPT !.finish.at = "done"] PROVE SetupInv'
    <3>1. /\ DOMAIN net' = DOMAIN net /\ net'.settings = net.settings /\ net'.companions = net.companions /\ net'.restore = net.restore
          /\ DOMAIN net'.finish = DOMAIN net.finish /\ net'.finish.name = net.finish.name /\ net'.finish.at = "done"
      BY <2>4
    <3>2. DOMAIN srv' = DOMAIN srv /\ srv'.setup = TRUE /\ srv'.staged = srv.staged /\ srv'.companions = srv.companions
      BY <2>4
    <3>3. /\ DOMAIN past' = DOMAIN past /\ past'.held = past.held /\ past'.left = past.left /\ past'.unread = past.unread
          /\ past'.elsewhere = past.elsewhere /\ past'.wanted = net.finish.name
      BY <2>4
    <3>4. SetupShape'
      BY <2>1, <2>4, <3>1, <3>2, <3>3
    <3>5. SetupGate'
      BY <2>1, <2>4, <3>1, <3>2, <3>3 DEF SetupGate
    <3>6. SetupLoads'
      BY <2>1, <2>4, <3>1, <3>2, <3>3 DEF SetupLoads
    <3>7. SetupRestore'
      BY <2>1, <2>4, <3>1, <3>2, <3>3 DEF SetupRestore, SetupFinish
    <3>8. SetupFinish'
      BY <2>1, <2>4, <3>1, <3>2, <3>3 DEF SetupFinish, SetupRestore
    <3>9. SetupBusy'
      BY <2>1, <2>4, <3>1, <3>2, <3>3 DEF SetupBusy
    <3>11. ~past.left => SetupShown /\ ui.w.busy /\ ui.w.step = "review" /\ net.settings = "none"
      BY <2>4 DEF SetupFinish
    <3>10. SetupOnce'
      BY <2>1, <2>4, <3>1, <3>2, <3>3, <3>11 DEF SetupOnce
    <3> QED BY <3>4, <3>5, <3>6, <3>7, <3>8, <3>9, <3>10
  <2>5. ASSUME net.finish.at \in {"companion", "settings"}, srv' = srv, past' = Wizard!Spent, net' = [net EXCEPT !.finish.at = "failed"] PROVE SetupInv'
    <3>1. /\ DOMAIN net' = DOMAIN net /\ net'.settings = net.settings /\ net'.companions = net.companions /\ net'.restore = net.restore
          /\ DOMAIN net'.finish = DOMAIN net.finish /\ net'.finish.name = net.finish.name /\ net'.finish.at = "failed"
      BY <2>5
    <3>2. /\ DOMAIN past' = DOMAIN past /\ past'.held = past.held /\ past'.left = past.left /\ past'.unread = past.unread
          /\ past'.elsewhere = past.elsewhere /\ past'.wanted = past.wanted
      BY <2>5 DEF Wizard!Spent
    <3>3. SetupShape'
      BY <2>1, <2>5, <3>1, <3>2
    <3>4. SetupGate'
      BY <2>1, <2>5, <3>1, <3>2 DEF SetupGate
    <3>5. SetupLoads'
      BY <2>1, <2>5, <3>1, <3>2 DEF SetupLoads
    <3>6. SetupRestore'
      BY <2>1, <2>5, <3>1, <3>2 DEF SetupRestore, SetupFinish
    <3>7. SetupFinish'
      BY <2>1, <2>5, <3>1, <3>2 DEF SetupFinish, SetupRestore
    <3>8. SetupBusy'
      BY <2>1, <2>5, <3>1, <3>2 DEF SetupBusy
    <3>10. ~(srv.setup /\ ~past.left /\ past.elsewhere = 0)
      BY <2>5 DEF SetupOnce, SetupFinish
    <3>9. SetupOnce'
      BY <2>5, <3>2, <3>10 DEF SetupOnce
    <3> QED BY <3>3, <3>4, <3>5, <3>6, <3>7, <3>8, <3>9
  <2> QED BY <1>20, <2>2, <2>3, <2>4, <2>5 DEF Wizard!ServeFinish
<1>21. CASE Wizard!ServeRestore
  <2> USE DEF SetupShape, SetupShown, SetupWizard
  <2>1. ui' = ui /\ net.restore.at = "asked"
    BY <1>21 DEF Wizard!ServeRestore
  <2>2. ASSUME net.restore.file = "config", srv' = Wizard!Imported(srv), net' = [net EXCEPT !.restore.at = "done"],
               past' = [past EXCEPT !.wanted = ""] PROVE SetupInv'
    <3>1. /\ DOMAIN net' = DOMAIN net /\ net'.settings = net.settings /\ net'.companions = net.companions /\ net'.finish = net.finish
          /\ DOMAIN net'.restore = DOMAIN net.restore /\ net'.restore.file = net.restore.file /\ net'.restore.at = "done"
      BY <2>2
    <3>2. DOMAIN srv' = DOMAIN srv /\ srv'.setup = TRUE /\ srv'.staged = FALSE /\ srv'.companions = {"backup"}
      BY <2>2 DEF Wizard!Imported
    <3>3. /\ DOMAIN past' = DOMAIN past /\ past'.held = past.held /\ past'.left = past.left /\ past'.unread = past.unread
          /\ past'.elsewhere = past.elsewhere /\ past'.wanted = ""
      BY <2>2
    <3>4. SetupShape'
      BY <2>1, <2>2, <3>1, <3>2, <3>3
    <3>5. SetupGate'
      BY <2>1, <2>2, <3>1, <3>2, <3>3 DEF SetupGate
    <3>6. SetupLoads'
      BY <2>1, <2>2, <3>1, <3>2, <3>3 DEF SetupLoads
    <3>7. SetupRestore'
      BY <2>1, <2>2, <3>1, <3>2, <3>3 DEF SetupRestore, SetupFinish
    <3>8. SetupFinish'
      BY <2>1, <2>2, <3>1, <3>2, <3>3 DEF SetupFinish, SetupRestore
    <3>9. SetupBusy'
      BY <2>1, <2>2, <3>1, <3>2, <3>3 DEF SetupBusy
    <3>10. SetupOnce'
      BY <2>1, <2>2, <3>1, <3>2, <3>3 DEF SetupOnce, SetupGate, SetupFinish, SetupRestore, SetupBusy
    <3> QED BY <3>4, <3>5, <3>6, <3>7, <3>8, <3>9, <3>10
  <2>3. ASSUME net.restore.file = "database", srv' = [srv EXCEPT !.staged = TRUE], net' = [net EXCEPT !.restore.at = "done"], past' = past PROVE SetupInv'
    <3>1. /\ DOMAIN net' = DOMAIN net /\ net'.settings = net.settings /\ net'.companions = net.companions /\ net'.finish = net.finish
          /\ DOMAIN net'.restore = DOMAIN net.restore /\ net'.restore.file = net.restore.file /\ net'.restore.at = "done"
      BY <2>3
    <3>2. DOMAIN srv' = DOMAIN srv /\ srv'.setup = srv.setup /\ srv'.staged = TRUE /\ srv'.companions = srv.companions
      BY <2>3
    <3>3. SetupShape'
      BY <2>1, <2>3, <3>1, <3>2
    <3>4. SetupGate'
      BY <2>1, <2>3, <3>1, <3>2 DEF SetupGate
    <3>5. SetupLoads'
      BY <2>1, <2>3, <3>1, <3>2 DEF SetupLoads
    <3>6. SetupRestore'
      BY <2>1, <2>3, <3>1, <3>2 DEF SetupRestore, SetupFinish
    <3>7. SetupFinish'
      BY <2>1, <2>3, <3>1, <3>2 DEF SetupFinish, SetupRestore
    <3>8. SetupBusy'
      BY <2>1, <2>3, <3>1, <3>2 DEF SetupBusy
    <3>9. SetupOnce'
      BY <2>1, <2>3, <3>1, <3>2 DEF SetupOnce, SetupGate, SetupFinish, SetupRestore, SetupBusy
    <3> QED BY <3>3, <3>4, <3>5, <3>6, <3>7, <3>8, <3>9
  <2>4. ASSUME srv' = srv, past' = Wizard!Spent, net' = [net EXCEPT !.restore.at = "failed"] PROVE SetupInv'
    <3>1. /\ DOMAIN net' = DOMAIN net /\ net'.settings = net.settings /\ net'.companions = net.companions /\ net'.finish = net.finish
          /\ DOMAIN net'.restore = DOMAIN net.restore /\ net'.restore.file = net.restore.file /\ net'.restore.at = "failed"
      BY <2>4
    <3>2. /\ DOMAIN past' = DOMAIN past /\ past'.held = past.held /\ past'.left = past.left /\ past'.unread = past.unread
          /\ past'.elsewhere = past.elsewhere /\ past'.wanted = past.wanted
      BY <2>4 DEF Wizard!Spent
    <3>3. SetupShape'
      BY <2>1, <2>4, <3>1, <3>2
    <3>4. SetupGate'
      BY <2>1, <2>4, <3>1, <3>2 DEF SetupGate
    <3>5. SetupLoads'
      BY <2>1, <2>4, <3>1, <3>2 DEF SetupLoads
    <3>6. SetupRestore'
      BY <2>1, <2>4, <3>1, <3>2 DEF SetupRestore, SetupFinish
    <3>7. SetupFinish'
      BY <2>1, <2>4, <3>1, <3>2 DEF SetupFinish, SetupRestore
    <3>8. SetupBusy'
      BY <2>1, <2>4, <3>1, <3>2 DEF SetupBusy
    <3>9. SetupOnce'
      BY <2>1, <2>4, <3>1, <3>2 DEF SetupOnce, SetupRestore
    <3> QED BY <3>3, <3>4, <3>5, <3>6, <3>7, <3>8, <3>9
  <2> QED BY <1>21, <2>2, <2>3, <2>4 DEF Wizard!ServeRestore
<1>22. CASE Wizard!Restart
  <2> USE <1>22 DEF Wizard!Restart, Wizard!Imported
  <2>1. SetupShape'
    BY DEF SetupShape, SetupWizard
  <2>2. SetupGate'
    BY DEF SetupShape, SetupShown, SetupGate
  <2>3. SetupLoads'
    BY DEF SetupShape, SetupShown, SetupLoads, SetupRestore, SetupFinish
  <2>4. SetupRestore'
    BY DEF SetupShape, SetupShown, SetupLoads, SetupRestore, SetupFinish
  <2>5. SetupFinish'
    BY DEF SetupShape, SetupShown, SetupLoads, SetupRestore, SetupFinish
  <2>6. SetupBusy'
    BY DEF SetupShape, SetupShown, SetupGate, SetupBusy
  <2>7. SetupOnce'
    BY DEF SetupShape, SetupShown, SetupGate, SetupLoads, SetupRestore, SetupFinish, SetupBusy, SetupOnce
  <2> QED BY <2>1, <2>2, <2>3, <2>4, <2>5, <2>6, <2>7
<1>23. CASE Wizard!SetUpElsewhere
  <2> USE <1>23 DEF Wizard!SetUpElsewhere, Wizard!Configured
  <2>1. SetupShape'
    BY DEF SetupShape, SetupWizard
  <2>2. SetupGate'
    BY DEF SetupShape, SetupShown, SetupGate
  <2>3. SetupLoads'
    BY DEF SetupShape, SetupShown, SetupLoads, SetupRestore, SetupFinish
  <2>4. SetupRestore'
    BY DEF SetupShape, SetupShown, SetupLoads, SetupRestore, SetupFinish
  <2>5. SetupFinish'
    BY DEF SetupShape, SetupShown, SetupLoads, SetupRestore, SetupFinish
  <2>6. SetupBusy'
    BY DEF SetupShape, SetupShown, SetupGate, SetupBusy
  <2>7. SetupOnce'
    <3>1. past'.elsewhere # 0
      BY DEF SetupShape
    <3> QED BY <3>1 DEF SetupOnce
  <2> QED BY <2>1, <2>2, <2>3, <2>4, <2>5, <2>6, <2>7
<1> QED BY <1>1, <1>2, <1>3, <1>4, <1>5, <1>6, <1>7, <1>8, <1>9, <1>10, <1>11, <1>12, <1>13, <1>14, <1>15, <1>16, <1>17, <1>18, <1>19, <1>20, <1>21, <1>22, <1>23 DEF Wizard!Next

LEMMA SetupStutters == SetupInv /\ UNCHANGED <<ui, net, srv, past>> => SetupInv'
<1> SUFFICES ASSUME SetupInv, UNCHANGED <<ui, net, srv, past>> PROVE SetupInv'
  OBVIOUS
<1> USE DEF SetupInv, SetupShown
<1>1. SetupShape' /\ SetupGate' /\ SetupLoads'
  BY DEF SetupShape, SetupGate, SetupLoads, Wizard!NotRead, SetupWizard
<1>2. SetupRestore' /\ SetupFinish' /\ SetupBusy' /\ SetupOnce'
  BY DEF SetupRestore, SetupFinish, SetupBusy, SetupOnce
<1> QED BY <1>1, <1>2

LEMMA SetupKeeps == SetupInv => Wizard!NoFlash /\ Wizard!CompleteHasCompanion /\ Wizard!BusyMeansUnderWay
<1> SUFFICES ASSUME SetupInv PROVE Wizard!NoFlash /\ Wizard!CompleteHasCompanion /\ Wizard!BusyMeansUnderWay
  OBVIOUS
<1> USE DEF SetupInv, SetupShown, Wizard!Wizard, Wizard!NeedsSetup
<1>1. Wizard!NoFlash
  BY DEF Wizard!NoFlash, SetupGate
<1>2. Wizard!CompleteHasCompanion
  BY DEF Wizard!CompleteHasCompanion, SetupFinish
<1>3. Wizard!BusyMeansUnderWay
  BY DEF Wizard!BusyMeansUnderWay, SetupBusy
<1> QED BY <1>1, <1>2, <1>3

\* Only a configuration served replaces what a node runs at once, and the wizard offers that to no node set up.
LEMMA SetupSteps == SetupInv /\ Wizard!Next => Wizard!ReplacesOnlyUnset
<1> SUFFICES ASSUME SetupInv, Wizard!Next, srv.setup, srv'.radio = "backup", srv.radio # "backup", ~past.left, past.elsewhere = 0, ~srv.staged
             PROVE  FALSE
  BY DEF Wizard!ReplacesOnlyUnset, SetupInv, SetupShape
<1>1. Wizard!ServeRestore
  <2> USE DEF SetupInv, SetupShape
  <2>1. CASE srv' = srv
    BY <2>1
  <2>2. CASE Wizard!ServeFinish
    BY <2>2 DEF Wizard!ServeFinish
  <2>3. CASE Wizard!Restart \/ Wizard!SetUpElsewhere
    BY <2>3 DEF Wizard!Restart, Wizard!SetUpElsewhere, Wizard!Configured
  <2>4. srv' = srv \/ Wizard!ServeFinish \/ Wizard!Restart \/ Wizard!SetUpElsewhere \/ Wizard!ServeRestore
    BY DEF Wizard!Next, Wizard!ServeLoads, Wizard!SettingsLand, Wizard!CompanionsLand, Wizard!Reopen, Wizard!Begin, Wizard!ToRestore, Wizard!RadioNext,
           Wizard!Skip, Wizard!Review, Wizard!Back, Wizard!EditRadio, Wizard!EditName, Wizard!Edit, Wizard!Finish, Wizard!CompanionSaved, Wizard!Failed,
           Wizard!Finished, Wizard!Restore, Wizard!RestoreLands, Wizard!PickFile, Wizard!Still
  <2> QED BY <2>1, <2>2, <2>3, <2>4
<1>2. net.restore.at = "asked" /\ ui.settings = "new" /\ ui.companions = "none" /\ ui.w.step = "restore" /\ ui.w.result = "none"
  BY <1>1 DEF Wizard!ServeRestore, SetupInv, SetupRestore, SetupShown
<1> QED BY <1>2 DEF SetupInv, SetupOnce

-----------------------------------------------------------------------------
(* The form of a sensor.                                                   *)

SensorUi == {"kinds", "list", "open", "form", "editing", "row", "picked", "pick", "seed", "saving", "failed", "test", "testing"}
SensorRow(r) == DOMAIN r = {"name", "auth", "secret", "every"} /\ (r.secret # "none" => r.auth \in {"basic", "bearer"})
SensorShape ==
  /\ DOMAIN ui = SensorUi /\ DOMAIN net = {"saves", "tests"} /\ DOMAIN past = {"edits", "elsewhere", "faults", "touched", "crossed"}
  /\ DOMAIN ui.pick = {"known", "name", "auth", "typed", "every"}
  /\ ui.open \in BOOLEAN /\ ui.picked \in BOOLEAN /\ past.touched \in BOOLEAN /\ past.crossed \in BOOLEAN
  /\ past.edits \in Nat /\ past.elsewhere \in Nat

\* A sensor is stored with a secret only where its login has one; the list shows sensors that are stored.
SensorRows ==
  /\ \A s \in DOMAIN srv : SensorRow(srv[s])
  /\ DOMAIN ui.list \subseteq DOMAIN srv /\ \A s \in DOMAIN ui.list : SensorRow(ui.list[s])
  /\ SensorRow(ui.row)

\* The form of a sensor that is changed holds its login until the reader chooses another.
SensorPick ==
  /\ ui.editing # {} => ui.picked /\ \E s \in DOMAIN srv : ui.editing = {s}
  /\ ui.editing # {} /\ ~past.touched => ui.pick.auth = ui.row.auth

\* A save under way was let through by the form: its name was free, its fields were in order, and what it leaves
\* blank it names to be kept.
SensorSave(c) ==
  /\ DOMAIN c = {"form", "id", "body", "keep", "row", "names", "touched", "at"} /\ DOMAIN c.body = {"known", "name", "auth", "typed", "every"}
  /\ SensorRow(c.row) /\ (c.id = {} \/ \E s \in DOMAIN srv : c.id = {s})
  /\ c.body.name \notin c.names /\ c.body.typed \subseteq Sensor!Secret(c.body.auth) /\ c.keep \subseteq Sensor!Secret(c.body.auth)
  /\ c.body.known => ~Sensor!TooShort(c.body.every)
  /\ c.body.known /\ c.body.auth = "bearer" => c.body.typed # {} \/ (c.id # {} /\ c.keep # {})
  /\ c.keep \subseteq Sensor!Stored(c.row)
  /\ c.id # {} /\ c.body.known /\ ~c.touched /\ c.row.secret # "none" => c.body.typed # {} \/ c.keep # {}
SensorSaves == \A c \in net.saves : SensorSave(c)

\* A result shown is of a try of this form, as are those still out.
SensorTests == ~past.crossed => ui.test \in {0, ui.form} /\ \A c \in net.tests : c = ui.form

SensorInv == SensorShape /\ SensorRows /\ SensorPick /\ SensorSaves /\ SensorTests

LEMMA SensorSecret ==
  /\ Sensor!Secret("basic") = {"password"} /\ Sensor!Secret("bearer") = {"token"}
  /\ \A a : a \notin {"basic", "bearer"} => Sensor!Secret(a) = {}
BY DEF Sensor!Secret

LEMMA SensorSeeded ==
  ASSUME NEW u, DOMAIN u = SensorUi
  PROVE  LET v == Sensor!Seeded(u) IN
         /\ DOMAIN v = SensorUi /\ v.kinds = u.kinds /\ v.list = u.list /\ v.open = u.open /\ v.form = u.form /\ v.editing = u.editing
         /\ v.row = u.row /\ v.testing = u.testing /\ v.test = 0 /\ v.picked \in BOOLEAN /\ (v.picked <=> u.editing # {})
         /\ v.pick = IF u.editing = {} THEN Sensor!NoPick ELSE Sensor!SeedPick(u.row, u.kinds = "loaded")
BY DEF Sensor!Seeded, SensorUi

LEMMA SensorPicks ==
  /\ DOMAIN Sensor!NoPick = {"known", "name", "auth", "typed", "every"} /\ SensorRow(Sensor!NoRow)
  /\ \A r, k : LET p == Sensor!SeedPick(r, k) IN DOMAIN p = {"known", "name", "auth", "typed", "every"} /\ p.auth = r.auth
BY DEF Sensor!NoPick, Sensor!NoRow, Sensor!SeedPick, SensorRow

LEMMA SensorInit == Sensor!Init => SensorInv
<1> SUFFICES ASSUME Sensor!Init PROVE SensorInv
  OBVIOUS
<1>1. PICK s \in 1..Few, auth \in Sensor!Logins :
        srv = [x \in {s} |-> [Sensor!NoRow EXCEPT !.auth = auth, !.secret = IF auth = "none" THEN "none" ELSE "kept"]]
  BY DEF Sensor!Init
<1>2. \A x \in DOMAIN srv : SensorRow(srv[x])
  BY <1>1 DEF SensorRow, Sensor!NoRow, Sensor!Logins
<1>3. SensorShape
  BY DEF Sensor!Init, SensorShape, SensorUi, Sensor!NoPick
<1>4. SensorRows
  BY <1>2, SensorPicks DEF Sensor!Init, SensorRows
<1>5. SensorPick /\ SensorSaves /\ SensorTests
  BY DEF Sensor!Init, SensorPick, SensorSaves, SensorTests
<1> QED BY <1>3, <1>4, <1>5 DEF SensorInv

\* What changes the dialog and stores nothing.
LEMMA SensorDialog ==
  ASSUME SensorInv, srv' = srv, net'.saves = net.saves, DOMAIN net' = DOMAIN net, DOMAIN past' = DOMAIN past, SensorShape',
         ui'.list = ui.list, SensorRow(ui'.row), SensorPick', SensorTests'
  PROVE  SensorInv'
<1>1. SensorRows'
  BY DEF SensorInv, SensorRows, SensorRow
<1>2. SensorSaves'
  BY DEF SensorInv, SensorSaves, SensorSave, SensorRow, Sensor!Secret, Sensor!TooShort, Sensor!Span, Sensor!Stored, Sensor!Fresh
<1> QED BY <1>1, <1>2 DEF SensorInv

\* An edit of the form: one more, and touched if it is of the login.
LEMMA SensorEdit ==
  ASSUME SensorInv, NEW p, DOMAIN p = {"known", "name", "auth", "typed", "every"}, Sensor!Edit(p)
  PROVE  SensorInv' /\ past'.edits # past.edits
<1> USE DEF SensorInv
<1>1. /\ ui.open /\ ui' = [ui EXCEPT !.pick = p] /\ net' = net /\ srv' = srv
      /\ past' = [past EXCEPT !.edits = @ + 1, !.touched = @ \/ p.auth # ui.pick.auth]
  BY DEF Sensor!Edit
<1>2. /\ DOMAIN ui' = SensorUi /\ ui'.pick = p /\ \A f \in SensorUi \ {"pick"} : ui'[f] = ui[f]
  BY <1>1 DEF SensorShape, SensorUi
<1>3. /\ DOMAIN past' = DOMAIN past /\ past'.edits = past.edits + 1 /\ past'.elsewhere = past.elsewhere /\ past'.crossed = past.crossed
      /\ past'.touched \in BOOLEAN /\ (~past'.touched => ~past.touched /\ p.auth = ui.pick.auth)
  BY <1>1 DEF SensorShape
<1>4. SensorShape'
  <2>1. ui'.open = ui.open /\ ui'.picked = ui.picked
    BY <1>2 DEF SensorUi
  <2>2. past'.edits \in Nat /\ past'.elsewhere \in Nat /\ past'.crossed \in BOOLEAN /\ past'.touched \in BOOLEAN /\ net' = net
    BY <1>1, <1>3 DEF SensorShape
  <2>3. DOMAIN ui' = SensorUi /\ DOMAIN ui'.pick = {"known", "name", "auth", "typed", "every"} /\ DOMAIN past' = DOMAIN past
    BY <1>2, <1>3
  <2> QED BY <2>1, <2>2, <2>3 DEF SensorShape
<1>5. SensorPick'
  BY <1>1, <1>2, <1>3 DEF SensorPick, SensorUi
<1>6. SensorTests'
  BY <1>1, <1>2, <1>3 DEF SensorTests, SensorUi
<1>7. ui'.list = ui.list /\ SensorRow(ui'.row)
  BY <1>2 DEF SensorUi, SensorRows
<1>8. SensorInv'
  BY <1>1, <1>3, <1>4, <1>5, <1>6, <1>7, SensorDialog
<1> QED BY <1>3, <1>8 DEF SensorShape

LEMMA SensorNext == SensorInv /\ Sensor!Next => SensorInv'
<1> SUFFICES ASSUME SensorInv, Sensor!Next PROVE SensorInv'
  OBVIOUS
<1> USE DEF SensorInv
<1>1. CASE Sensor!KindsLand
  <2> DEFINE u == [ui EXCEPT !.kinds = "loaded"]
  <2>1. /\ DOMAIN u = SensorUi /\ u.kinds = "loaded" /\ u.list = ui.list /\ u.open = ui.open /\ u.form = ui.form /\ u.editing = ui.editing
        /\ u.row = ui.row /\ u.test = ui.test /\ u.picked = ui.picked /\ u.pick = ui.pick
    BY DEF SensorShape, SensorUi
  <2>2. ui' = u \/ ui' = Sensor!Seeded(u) \/ ui' = [ui EXCEPT !.kinds = "failed"]
    BY <1>1 DEF Sensor!KindsLand
  <2> HIDE DEF u
  <2>3. /\ DOMAIN ui' = SensorUi /\ ui'.list = ui.list /\ ui'.open = ui.open /\ ui'.form = ui.form /\ ui'.editing = ui.editing /\ ui'.row = ui.row
        /\ ui'.test \in {0, ui.test} /\ ui'.picked \in BOOLEAN
    <3>1. CASE ui' = u
      BY <2>1, <3>1 DEF SensorShape
    <3>2. CASE ui' = Sensor!Seeded(u)
      <4>1. /\ DOMAIN ui' = SensorUi /\ ui'.list = u.list /\ ui'.open = u.open /\ ui'.form = u.form /\ ui'.editing = u.editing
            /\ ui'.row = u.row /\ ui'.test = 0 /\ ui'.picked \in BOOLEAN
        BY <2>1, <3>2, SensorSeeded
      <4> QED BY <2>1, <4>1
    <3>3. CASE ui' = [ui EXCEPT !.kinds = "failed"]
      BY <3>3 DEF SensorShape, SensorUi
    <3> QED BY <2>2, <3>1, <3>2, <3>3
  <2>4. \/ ui'.picked = ui.picked /\ ui'.pick = ui.pick
        \/ /\ ui'.picked <=> ui.editing # {}
           /\ ui'.pick = IF ui.editing = {} THEN Sensor!NoPick ELSE Sensor!SeedPick(ui.row, TRUE)
    <3>1. CASE ui' = u
      BY <2>1, <3>1
    <3>2. CASE ui' = Sensor!Seeded(u)
      <4>1. (ui'.picked <=> u.editing # {}) /\ ui'.pick = IF u.editing = {} THEN Sensor!NoPick ELSE Sensor!SeedPick(u.row, u.kinds = "loaded")
        BY <2>1, <3>2, SensorSeeded
      <4>2. (u.kinds = "loaded") = TRUE /\ u.editing = ui.editing /\ u.row = ui.row
        BY <2>1
      <4> QED BY <4>1, <4>2
    <3>3. CASE ui' = [ui EXCEPT !.kinds = "failed"]
      BY <3>3 DEF SensorShape, SensorUi
    <3> QED BY <2>2, <3>1, <3>2, <3>3
  <2>5. /\ net' = net /\ srv' = srv /\ DOMAIN past' = DOMAIN past /\ past'.touched = past.touched /\ past'.crossed = past.crossed
        /\ past'.edits = past.edits /\ past'.elsewhere = past.elsewhere
    BY <1>1 DEF Sensor!KindsLand, Sensor!Spent, SensorShape
  <2>9. DOMAIN ui'.pick = DOMAIN ui.pick /\ (ui'.pick.auth = ui.pick.auth \/ ui.editing = {} \/ ui'.pick.auth = ui.row.auth)
    <3>1. CASE ui'.pick = ui.pick
      BY <3>1
    <3> DEFINE p == Sensor!SeedPick(ui.row, TRUE)
    <3>2. DOMAIN ui.pick = {"known", "name", "auth", "typed", "every"}
      BY DEF SensorShape
    <3>3. DOMAIN Sensor!NoPick = {"known", "name", "auth", "typed", "every"}
      BY SensorPicks
    <3>4. DOMAIN p = {"known", "name", "auth", "typed", "every"} /\ p.auth = ui.row.auth
      BY SensorPicks
    <3> HIDE DEF p
    <3>5. CASE ui.editing = {} /\ ui'.pick = Sensor!NoPick
      BY <3>2, <3>3, <3>5
    <3>6. CASE ui'.pick = p
      BY <3>2, <3>4, <3>6
    <3> QED BY <2>4, <3>1, <3>5, <3>6 DEF p
  <2>10. ui.editing # {} => ui'.picked
    BY <2>4 DEF SensorPick
  <2>6. SensorShape'
    BY <2>3, <2>5, <2>9 DEF SensorShape
  <2>7. SensorPick'
    BY <2>3, <2>5, <2>9, <2>10 DEF SensorPick
  <2>8. SensorTests'
    BY <2>3, <2>5 DEF SensorTests
  <2> QED BY <2>3, <2>5, <2>6, <2>7, <2>8, SensorDialog DEF SensorRows
<1>2. CASE Sensor!RetryKinds
  <2> USE <1>2 DEF Sensor!RetryKinds
  <2>1. SensorShape'
    BY DEF SensorShape, SensorUi
  <2>2. SensorPick' /\ SensorTests' /\ ui'.list = ui.list /\ ui'.row = ui.row
    BY DEF SensorShape, SensorUi, SensorPick, SensorTests
  <2> QED BY <2>1, <2>2, SensorDialog DEF SensorRows
<1>3. CASE Sensor!ListLands
  <2> USE <1>3 DEF Sensor!ListLands
  <2>1. SensorShape'
    BY DEF SensorShape, SensorUi
  <2>2. SensorPick' /\ SensorTests'
    BY DEF SensorShape, SensorUi, SensorPick, SensorTests
  <2>3. SensorRows'
    BY DEF SensorShape, SensorUi, SensorRows, SensorRow
  <2>4. SensorSaves'
    BY DEF SensorSaves, SensorSave, SensorRow, Sensor!Secret, Sensor!TooShort, Sensor!Span, Sensor!Stored, Sensor!Fresh
  <2> QED BY <2>1, <2>2, <2>3, <2>4
<1>4. ASSUME NEW id, NEW r, id = {} \/ (\E s \in DOMAIN srv : id = {s}), SensorRow(r), Sensor!OpenDialog(id, r) PROVE SensorInv'
  <2> DEFINE u == [ui EXCEPT !.open = TRUE, !.form = @ + 1, !.editing = id, !.row = r]
  <2>1. DOMAIN u = SensorUi /\ u.kinds = ui.kinds /\ u.list = ui.list /\ u.open = TRUE /\ u.editing = id /\ u.row = r
    BY DEF SensorShape, SensorUi
  <2>2. /\ ui' = Sensor!Seeded(u) /\ net' = net /\ srv' = srv
        /\ past' = [past EXCEPT !.touched = FALSE, !.crossed = @ \/ net.tests # {}]
    BY <1>4 DEF Sensor!OpenDialog
  <2> HIDE DEF u
  <2>3. /\ DOMAIN ui' = SensorUi /\ ui'.list = ui.list /\ ui'.open = TRUE /\ ui'.editing = id /\ ui'.row = r /\ ui'.test = 0 /\ ui'.picked \in BOOLEAN
        /\ ui'.picked <=> id # {}
    BY <2>1, <2>2, SensorSeeded
  <2>4. \E k : ui'.pick = IF id = {} THEN Sensor!NoPick ELSE Sensor!SeedPick(r, k)
    BY <2>1, <2>2, SensorSeeded
  <2>5. /\ DOMAIN past' = DOMAIN past /\ past'.edits = past.edits /\ past'.elsewhere = past.elsewhere /\ past'.touched = FALSE
        /\ past'.crossed \in BOOLEAN /\ (~past'.crossed => net.tests = {})
    BY <2>2 DEF SensorShape
  <2>9. DOMAIN ui'.pick = DOMAIN ui.pick
    <3>1. PICK k : ui'.pick = IF id = {} THEN Sensor!NoPick ELSE Sensor!SeedPick(r, k)
      BY <2>4
    <3>2. CASE id = {}
      BY <3>1, <3>2, SensorPicks DEF SensorShape
    <3>3. CASE id # {}
      BY <3>1, <3>3, SensorPicks DEF SensorShape
    <3> QED BY <3>2, <3>3
  <2>6. SensorShape'
    BY <2>2, <2>3, <2>5, <2>9 DEF SensorShape
  <2>7. SensorPick'
    BY <1>4, <2>2, <2>3, <2>4, SensorPicks DEF SensorPick
  <2>8. SensorTests'
    BY <2>2, <2>3, <2>5 DEF SensorTests
  <2> QED BY <1>4, <2>2, <2>3, <2>5, <2>6, <2>7, <2>8, SensorDialog
<1>5. CASE Sensor!Add
  BY <1>4, <1>5, SensorPicks DEF Sensor!Add
<1>6. ASSUME NEW s \in DOMAIN ui.list, Sensor!EditSensor(s) PROVE SensorInv'
  <2>1. s \in DOMAIN srv /\ SensorRow(ui.list[s]) /\ Sensor!OpenDialog({s}, ui.list[s])
    BY <1>6 DEF SensorRows, Sensor!EditSensor
  <2> QED BY <1>4, <2>1
<1>7. ASSUME NEW u, DOMAIN u = SensorUi, u.open = FALSE, u.editing = {}, u.picked \in BOOLEAN, u.pick = Sensor!NoPick, u.row = Sensor!NoRow,
             u.test = 0, u.list = ui.list, u.form = ui.form, ui' = u, srv' = srv, past' = past, net'.saves \subseteq net.saves, net'.tests = net.tests,
             DOMAIN net' = DOMAIN net
      PROVE  SensorInv'
  <2>1. SensorShape'
    BY <1>7, SensorPicks DEF SensorShape
  <2>2. SensorPick' /\ SensorTests'
    BY <1>7 DEF SensorPick, SensorTests
  <2>3. SensorRows'
    BY <1>7, SensorPicks DEF SensorRows, SensorRow, Sensor!NoRow
  <2>4. SensorSaves'
    BY <1>7 DEF SensorSaves, SensorSave, SensorRow, Sensor!Secret, Sensor!TooShort, Sensor!Span, Sensor!Stored, Sensor!Fresh
  <2> QED BY <2>1, <2>2, <2>3, <2>4
<1>8. LET v == Sensor!Closed(ui) IN
      /\ DOMAIN v = SensorUi /\ v.open = FALSE /\ v.editing = {} /\ v.picked \in BOOLEAN /\ v.pick = Sensor!NoPick /\ v.row = Sensor!NoRow
      /\ v.test = 0 /\ v.list = ui.list /\ v.form = ui.form
  <2> DEFINE u == [ui EXCEPT !.open = FALSE, !.editing = {}, !.row = Sensor!NoRow]
  <2>1. DOMAIN u = SensorUi /\ u.open = FALSE /\ u.editing = {} /\ u.row = Sensor!NoRow /\ u.list = ui.list /\ u.form = ui.form
    BY DEF SensorShape, SensorUi
  <2>2. Sensor!Closed(ui) = Sensor!Seeded(u)
    BY DEF Sensor!Closed
  <2> HIDE DEF u
  <2> QED BY <2>1, <2>2, SensorSeeded
<1>9. CASE Sensor!Cancel
  <2> DEFINE v == Sensor!Closed(ui)
             u == [v EXCEPT !.saving = ui.saving]
  <2>1. DOMAIN u = DOMAIN v /\ \A f \in SensorUi \ {"saving"} : u[f] = v[f]
    BY <1>8 DEF SensorUi
  <2>2. ui' = u /\ net' = net /\ srv' = srv /\ past' = past
    BY <1>9 DEF Sensor!Cancel
  <2> HIDE DEF u
  <2> QED BY <1>7, <1>8, <2>1, <2>2 DEF SensorUi
<1>10. CASE Sensor!Choose
  <2> USE DEF Sensor!Choose
  <2>1. ui.editing = {} /\ net' = net /\ srv' = srv
    BY <1>10 DEF SensorPick
  <2>2. /\ DOMAIN ui' = SensorUi /\ ui'.list = ui.list /\ ui'.open = ui.open /\ ui'.form = ui.form /\ ui'.editing = ui.editing /\ ui'.row = ui.row
        /\ ui'.test = 0 /\ ui'.picked = TRUE /\ \E r : ui'.pick = Sensor!SeedPick(r, TRUE)
    BY <1>10 DEF SensorShape, SensorUi
  <2>3. /\ DOMAIN past' = DOMAIN past /\ past'.edits = past.edits /\ past'.elsewhere = past.elsewhere /\ past'.touched = past.touched
        /\ past'.crossed \in BOOLEAN /\ (~past'.crossed => net.tests = {})
    BY <1>10 DEF SensorShape
  <2>6. DOMAIN ui'.pick = DOMAIN ui.pick
    <3>1. DOMAIN ui.pick = {"known", "name", "auth", "typed", "every"}
      BY DEF SensorShape
    <3>2. PICK r : ui'.pick = Sensor!SeedPick(r, TRUE)
      BY <2>2
    <3>3. DOMAIN Sensor!SeedPick(r, TRUE) = {"known", "name", "auth", "typed", "every"}
      BY SensorPicks
    <3> QED BY <3>1, <3>2, <3>3
  <2>4. SensorShape'
    BY <2>1, <2>2, <2>3, <2>6 DEF SensorShape
  <2>5. SensorPick' /\ SensorTests'
    BY <2>1, <2>2, <2>3 DEF SensorPick, SensorTests
  <2> QED BY <2>1, <2>2, <2>3, <2>4, <2>5, SensorDialog DEF SensorRows
<1>11. CASE Sensor!Back
  <2>1. /\ ui.editing = {} /\ net' = net /\ srv' = srv /\ past' = past
        /\ ui' = [ui EXCEPT !.picked = FALSE, !.pick = Sensor!NoPick, !.failed = FALSE]
    BY <1>11 DEF Sensor!Back
  <2>2. /\ DOMAIN ui' = SensorUi /\ ui'.list = ui.list /\ ui'.open = ui.open /\ ui'.form = ui.form /\ ui'.editing = ui.editing /\ ui'.row = ui.row
        /\ ui'.test = ui.test /\ ui'.picked = FALSE /\ ui'.pick = Sensor!NoPick
    BY <2>1 DEF SensorShape, SensorUi
  <2>3. SensorShape'
    BY <2>1, <2>2, SensorPicks DEF SensorShape
  <2>4. SensorPick' /\ SensorTests'
    BY <2>1, <2>2 DEF SensorPick, SensorTests
  <2> QED BY <2>1, <2>2, <2>3, <2>4, SensorDialog DEF SensorRows
<1>12. CASE Sensor!SetField
  <2>1. \A f, v : f \in {"auth", "typed", "every"} => DOMAIN [ui.pick EXCEPT ![f] = v] = {"known", "name", "auth", "typed", "every"}
    BY DEF SensorShape
  <2>2. CASE \E a \in Sensor!Logins : Sensor!Edit([ui.pick EXCEPT !.auth = a])
    BY <2>1, <2>2, SensorEdit
  <2>3. CASE \E k \in Sensor!Secret(ui.pick.auth) :
               Sensor!Edit([ui.pick EXCEPT !.typed = @ \cup {k}]) \/ Sensor!Edit([ui.pick EXCEPT !.typed = @ \ {k}])
    BY <2>1, <2>3, SensorEdit
  <2>4. CASE \E v \in Sensor!Spans : Sensor!Edit([ui.pick EXCEPT !.every = v])
    BY <2>1, <2>4, SensorEdit
  <2> QED BY <1>12, <2>2, <2>3, <2>4 DEF Sensor!SetField
<1>13. ASSUME NEW n, Sensor!SetName(n) PROVE SensorInv'
  <2>1. DOMAIN [ui.pick EXCEPT !.name = n] = {"known", "name", "auth", "typed", "every"}
    BY DEF SensorShape
  <2> QED BY <1>13, <2>1, SensorEdit DEF Sensor!SetName
<1>14. CASE Sensor!Test
  <2> USE <1>14 DEF Sensor!Test
  <2>1. SensorShape'
    BY DEF SensorShape, SensorUi
  <2>2. SensorPick' /\ ui'.list = ui.list /\ ui'.row = ui.row /\ srv' = srv /\ net'.saves = net.saves
    BY DEF SensorShape, SensorUi, SensorPick
  <2>3. SensorTests'
    BY DEF SensorShape, SensorUi, SensorTests
  <2> QED BY <2>1, <2>2, <2>3, SensorDialog DEF SensorRows, SensorShape
<1>15. ASSUME NEW c \in net.tests, Sensor!TestLands(c) PROVE SensorInv'
  <2> USE <1>15 DEF Sensor!TestLands
  <2>1. SensorShape'
    BY DEF SensorShape, SensorUi
  <2>2. SensorPick' /\ ui'.list = ui.list /\ ui'.row = ui.row /\ srv' = srv /\ net'.saves = net.saves
    BY DEF SensorShape, SensorUi, SensorPick
  <2>3. SensorTests'
    BY DEF SensorShape, SensorUi, SensorTests
  <2> QED BY <2>1, <2>2, <2>3, SensorDialog DEF SensorRows, SensorShape
<1>16. CASE Sensor!Save
  <2> DEFINE c == Sensor!Request(ui)
  <2>1. /\ ui.open /\ ~Sensor!BlockedBy(ui) /\ srv' = srv /\ past' = past
        /\ ui' = [ui EXCEPT !.saving = TRUE, !.failed = FALSE] /\ net' = [net EXCEPT !.saves = @ \cup {c}]
    BY <1>16 DEF Sensor!Save
  <2>2. /\ DOMAIN c = {"form", "id", "body", "keep", "row", "names", "touched", "at"} /\ c.id = ui.editing /\ c.body = Sensor!Body(ui)
        /\ c.keep = Sensor!Keep(ui) /\ c.row = ui.row /\ c.names = Sensor!Taken(ui.list, ui.editing) /\ c.touched = past.touched
    BY DEF Sensor!Request
  <2>3. /\ DOMAIN c.body = DOMAIN ui.pick /\ c.body.known = ui.pick.known /\ c.body.name = ui.pick.name /\ c.body.auth = ui.pick.auth
        /\ c.body.every = ui.pick.every /\ c.body.typed = ui.pick.typed \cap Sensor!Secret(ui.pick.auth)
    BY <2>2 DEF Sensor!Body, SensorShape
  <2> HIDE DEF c
  <2>4. ui.picked /\ ui.pick.name \notin c.names /\ ~Sensor!FieldsProblem(ui.pick, IF ui.editing = {} THEN {} ELSE Sensor!Stored(ui.row))
    BY <2>1, <2>2 DEF Sensor!BlockedBy
  <2>5. c.body.known => ~Sensor!TooShort(c.body.every)
    BY <2>3, <2>4 DEF Sensor!FieldsProblem
  <2>6. c.keep = IF ui.pick.known /\ ui.editing # {} THEN (Sensor!Secret(ui.pick.auth) \ ui.pick.typed) \cap Sensor!Stored(ui.row) ELSE {}
    BY <2>2 DEF Sensor!Keep
  <2>7. c.body.known /\ c.body.auth = "bearer" => c.body.typed # {} \/ (c.id # {} /\ c.keep # {})
    <3> SUFFICES ASSUME ui.pick.known, ui.pick.auth = "bearer", c.body.typed = {} PROVE ui.editing # {} /\ c.keep # {}
      BY <2>2, <2>3
    <3>1. "token" \notin ui.pick.typed /\ Sensor!Secret(ui.pick.auth) = {"token"}
      BY <2>3, SensorSecret
    <3>2. ui.editing # {} /\ "token" \in Sensor!Stored(ui.row)
      BY <2>4, <3>1 DEF Sensor!FieldsProblem
    <3> QED BY <2>6, <3>1, <3>2
  <2>8. c.id # {} /\ c.body.known /\ ~c.touched /\ c.row.secret # "none" => c.body.typed # {} \/ c.keep # {}
    <3> SUFFICES ASSUME ui.editing # {}, ui.pick.known, ~past.touched, ui.row.secret # "none" PROVE c.body.typed # {} \/ c.keep # {}
      BY <2>2, <2>3
    <3>1. ui.pick.auth = ui.row.auth /\ ui.row.auth \in {"basic", "bearer"}
      BY DEF SensorPick, SensorRows, SensorRow
    <3>2. Sensor!Stored(ui.row) = Sensor!Secret(ui.row.auth) /\ Sensor!Secret(ui.row.auth) # {}
      BY <3>1, SensorSecret DEF Sensor!Stored
    <3> QED BY <2>3, <2>6, <3>1, <3>2
  <2>9. SensorSave(c)
    BY <2>2, <2>3, <2>4, <2>5, <2>6, <2>7, <2>8 DEF SensorSave, SensorRows, SensorPick, SensorShape
  <2>10. /\ DOMAIN ui' = SensorUi /\ \A f \in SensorUi \ {"saving", "failed"} : ui'[f] = ui[f]
    BY <2>1 DEF SensorShape, SensorUi
  <2>11. DOMAIN net' = DOMAIN net /\ net'.tests = net.tests /\ net'.saves = net.saves \cup {c}
    BY <2>1 DEF SensorShape
  <2>12. SensorShape'
    BY <2>1, <2>10, <2>11 DEF SensorShape, SensorUi
  <2>13. SensorPick' /\ SensorTests'
    BY <2>1, <2>10, <2>11 DEF SensorPick, SensorTests, SensorUi
  <2>14. SensorRows'
    BY <2>1, <2>10 DEF SensorRows, SensorRow, SensorUi
  <2>15. SensorSaves'
    <3>1. \A d \in net'.saves : SensorSave(d)
      BY <2>9, <2>11 DEF SensorSaves
    <3> QED BY <2>1, <3>1 DEF SensorSaves, SensorSave, SensorRow, Sensor!Secret, Sensor!TooShort, Sensor!Span, Sensor!Stored, Sensor!Fresh
  <2> QED BY <2>12, <2>13, <2>14, <2>15
<1>17. ASSUME NEW c \in net.saves, Sensor!SaveLands(c) PROVE SensorInv'
  <2>1. DOMAIN net' = DOMAIN net /\ net'.tests = net.tests /\ net'.saves \subseteq net.saves /\ srv' = srv /\ past' = past
    BY <1>17 DEF Sensor!SaveLands, SensorShape
  <2>2. CASE ui' = Sensor!Closed(ui)
    BY <1>7, <1>8, <2>1, <2>2
  <2>3. CASE ui' = [ui EXCEPT !.saving = FALSE, !.failed = ui.open]
    <3>1. /\ DOMAIN ui' = SensorUi /\ \A f \in SensorUi \ {"saving", "failed"} : ui'[f] = ui[f]
      BY <2>3 DEF SensorShape, SensorUi
    <3>2. SensorShape'
      BY <2>1, <3>1 DEF SensorShape, SensorUi
    <3>3. SensorPick' /\ SensorTests'
      BY <2>1, <3>1 DEF SensorPick, SensorTests, SensorUi
    <3>4. SensorRows'
      BY <2>1, <3>1 DEF SensorRows, SensorRow, SensorUi
    <3>5. SensorSaves'
      BY <2>1 DEF SensorSaves, SensorSave, SensorRow, Sensor!Secret, Sensor!TooShort, Sensor!Span, Sensor!Stored, Sensor!Fresh
    <3> QED BY <3>2, <3>3, <3>4, <3>5
  <2> QED BY <1>17, <2>2, <2>3 DEF Sensor!SaveLands
<1>18. ASSUME NEW c \in net.saves, NEW s, Sensor!ServeSave(c, s) PROVE SensorInv'
  <2>1. /\ ui' = ui /\ DOMAIN past' = DOMAIN past /\ past'.edits = past.edits /\ past'.elsewhere = past.elsewhere /\ past'.touched = past.touched
        /\ past'.crossed = past.crossed
    BY <1>18 DEF Sensor!ServeSave, Sensor!Spent, SensorShape
  <2>2. PICK at : net' = [net EXCEPT !.saves = (@ \ {c}) \cup {[c EXCEPT !.at = at]}]
    BY <1>18 DEF Sensor!ServeSave, Sensor!Answer
  <2>3. DOMAIN net' = DOMAIN net /\ net'.tests = net.tests /\ net'.saves = (net.saves \ {c}) \cup {[c EXCEPT !.at = at]}
    BY <2>2 DEF SensorShape
  <2>4. DOMAIN srv \subseteq DOMAIN srv' /\ \A x \in DOMAIN srv' : SensorRow(srv'[x])
    <3>1. CASE srv' = srv
      BY <3>1 DEF SensorRows
    <3>2. CASE srv' = [x \in DOMAIN srv \cup {s} |-> IF x = s THEN Sensor!Prepared(c, s) ELSE srv[x]]
      <4> DEFINE r == Sensor!Prepared(c, s)
      <4>1. /\ DOMAIN r = {"name", "auth", "secret", "every"} /\ r.auth = c.body.auth
            /\ r.secret = IF c.body.typed # {} THEN "typed" ELSE Sensor!Kept(c, s)
        BY DEF Sensor!Prepared
      <4>2. r.secret # "none" => c.body.typed # {} \/ c.keep # {}
        BY <4>1 DEF Sensor!Kept
      <4>3. c.body.typed \subseteq Sensor!Secret(c.body.auth) /\ c.keep \subseteq Sensor!Secret(c.body.auth)
        BY DEF SensorSaves, SensorSave
      <4>4. SensorRow(r)
        BY <4>1, <4>2, <4>3, SensorSecret DEF SensorRow
      <4> HIDE DEF r
      <4>5. srv' = [x \in DOMAIN srv \cup {s} |-> IF x = s THEN r ELSE srv[x]]
        BY <3>2 DEF r
      <4> QED BY <4>4, <4>5 DEF SensorRows
    <3> QED BY <1>18, <3>1, <3>2 DEF Sensor!ServeSave
  <2>5. SensorShape'
    BY <2>1, <2>3 DEF SensorShape
  <2>6. SensorPick'
    BY <2>1, <2>4 DEF SensorPick
  <2>7. SensorTests'
    BY <2>1, <2>3 DEF SensorTests
  <2>8. SensorRows'
    BY <2>1, <2>4 DEF SensorRows, SensorRow
  <2>9. SensorSaves'
    <3> DEFINE d == [c EXCEPT !.at = at]
    <3>1. SensorSave(c)
      BY DEF SensorSaves
    <3>2. DOMAIN d = DOMAIN c /\ \A f \in DOMAIN c \ {"at"} : d[f] = c[f]
      OBVIOUS
    <3> HIDE DEF d
    <3>3. SensorSave(d)
      BY <3>1, <3>2 DEF SensorSave
    <3>4. \A e \in net'.saves : SensorSave(e)
      BY <2>3, <3>3 DEF SensorSaves, d
    <3> QED BY <2>4, <3>4 DEF SensorSaves, SensorSave, SensorRow, Sensor!Secret, Sensor!TooShort, Sensor!Span, Sensor!Stored, Sensor!Fresh
  <2> QED BY <2>5, <2>6, <2>7, <2>8, <2>9
<1>19. ASSUME NEW s \in DOMAIN srv, Sensor!ChangedElsewhere(s) PROVE SensorInv'
  <2>1. /\ ui' = ui /\ net' = net /\ DOMAIN past' = DOMAIN past /\ past'.edits = past.edits /\ past'.elsewhere = past.elsewhere + 1
        /\ past'.touched = past.touched /\ past'.crossed = past.crossed
    BY <1>19 DEF Sensor!ChangedElsewhere, SensorShape
  <2>2. DOMAIN srv' = DOMAIN srv /\ \A x \in DOMAIN srv' : SensorRow(srv'[x])
    <3>1. CASE srv' = [srv EXCEPT ![s].auth = "none", ![s].secret = "none"]
      BY <3>1 DEF SensorRows, SensorRow
    <3>2. CASE \E n \in Sensor!Names : srv' = [srv EXCEPT ![s].name = n]
      BY <3>2 DEF SensorRows, SensorRow
    <3> QED BY <1>19, <3>1, <3>2 DEF Sensor!ChangedElsewhere
  <2>3. SensorShape'
    BY <2>1 DEF SensorShape
  <2>4. SensorPick' /\ SensorTests'
    BY <2>1, <2>2 DEF SensorPick, SensorTests
  <2>5. SensorRows'
    BY <2>1, <2>2 DEF SensorRows, SensorRow
  <2>6. SensorSaves'
    BY <2>1, <2>2 DEF SensorSaves, SensorSave, SensorRow, Sensor!Secret, Sensor!TooShort, Sensor!Span, Sensor!Stored, Sensor!Fresh
  <2> QED BY <2>3, <2>4, <2>5, <2>6
<1> QED BY <1>1, <1>2, <1>3, <1>5, <1>6, <1>9, <1>10, <1>11, <1>12, <1>13, <1>14, <1>15, <1>16, <1>17, <1>18, <1>19 DEF Sensor!Next

LEMMA SensorStutters == SensorInv /\ UNCHANGED <<ui, net, srv, past>> => SensorInv'
BY DEF SensorInv, SensorShape, SensorRows, SensorRow, SensorPick, SensorSaves, SensorSave, SensorTests, Sensor!Secret, Sensor!TooShort, Sensor!Span,
       Sensor!Stored, Sensor!Fresh

LEMMA SensorKeeps == SensorInv => Sensor!RefusedOnlyStale /\ Sensor!TestIsOwn
<1> SUFFICES ASSUME SensorInv PROVE Sensor!RefusedOnlyStale /\ Sensor!TestIsOwn
  OBVIOUS
<1>1. ASSUME NEW c \in net.saves, c.body.known, c.names = Sensor!Taken(srv, c.id), c.id # {} => \A s \in c.id : c.row = srv[s],
             NEW s, IF c.id = {} THEN s \notin DOMAIN srv ELSE c.id = {s}
      PROVE  ~Sensor!Refuses(c, s)
  <2>1. SensorSave(c)
    BY DEF SensorInv, SensorSaves
  <2>2. c.body.name \notin Sensor!Taken(srv, {s})
    BY <1>1, <2>1 DEF SensorSave, Sensor!Taken
  <2>3. c.body.auth = "bearer" => Sensor!Prepared(c, s).secret # "none"
    <3> SUFFICES ASSUME c.body.auth = "bearer", c.body.typed = {} PROVE Sensor!Kept(c, s) # "none"
      BY DEF Sensor!Prepared
    <3>1. c.id = {s} /\ c.keep # {} /\ s \in DOMAIN srv /\ c.row = srv[s] /\ c.keep \subseteq Sensor!Stored(c.row)
      BY <1>1, <2>1 DEF SensorSave
    <3>2. srv[s].secret # "none"
      BY <3>1 DEF Sensor!Stored
    <3> QED BY <3>1, <3>2 DEF Sensor!Kept
  <2> QED BY <1>1, <2>1, <2>2, <2>3 DEF Sensor!Refuses, SensorSave
<1>2. Sensor!RefusedOnlyStale
  BY <1>1 DEF Sensor!RefusedOnlyStale
<1>3. Sensor!TestIsOwn
  BY DEF Sensor!TestIsOwn, SensorInv, SensorTests
<1> QED BY <1>2, <1>3

\* A save that names what it keeps keeps it; and of the page's steps only an edit and the catalogue change an open
\* form.
LEMMA SensorSteps == SensorInv /\ Sensor!Next => Sensor!SecretKept /\ Sensor!EditsKept
<1> SUFFICES ASSUME SensorInv, Sensor!Next PROVE Sensor!SecretKept /\ Sensor!EditsKept
  OBVIOUS
<1> USE DEF SensorInv
<1>1. srv' = srv \/ (\E c \in net.saves, s \in 1..Few : Sensor!ServeSave(c, s)) \/ past'.elsewhere # past.elsewhere
  <2>1. CASE \E s \in DOMAIN srv : Sensor!ChangedElsewhere(s)
    BY <2>1 DEF Sensor!ChangedElsewhere, SensorShape
  <2>2. CASE Sensor!SetField \/ \E n \in Sensor!Names \cup {""} : Sensor!SetName(n)
    BY <2>2 DEF Sensor!SetField, Sensor!SetName, Sensor!Edit
  <2> QED BY <2>1, <2>2 DEF Sensor!Next, Sensor!KindsLand, Sensor!RetryKinds, Sensor!ListLands, Sensor!Add, Sensor!EditSensor, Sensor!OpenDialog,
                            Sensor!Cancel, Sensor!Choose, Sensor!Back, Sensor!Test, Sensor!TestLands, Sensor!Save, Sensor!SaveLands
<1>2. Sensor!SecretKept
  <2> SUFFICES ASSUME NEW s \in DOMAIN srv, srv[s].secret # "none", srv'[s].secret = "none", past'.elsewhere = past.elsewhere
               PROVE  \E c \in net.saves : c.id = {s} /\ (c.touched \/ ~c.body.known \/ c.row # srv[s])
    BY DEF Sensor!SecretKept
  <2>1. PICK c \in net.saves, x \in 1..Few : Sensor!ServeSave(c, x)
    BY <1>1
  <2>2. /\ srv' = [y \in DOMAIN srv \cup {x} |-> IF y = x THEN Sensor!Prepared(c, x) ELSE srv[y]]
        /\ IF c.id = {} THEN x \notin DOMAIN srv ELSE c.id = {x}
    BY <2>1 DEF Sensor!ServeSave
  <2>3. x = s /\ c.id = {s} /\ Sensor!Prepared(c, s).secret = "none"
    BY <2>2
  <2>4. SensorSave(c)
    BY DEF SensorSaves
  <2>5. c.body.typed = {} /\ Sensor!Kept(c, s) = "none"
    BY <2>3 DEF Sensor!Prepared
  <2>6. c.keep = {} \/ ~(c.keep \subseteq Sensor!Stored(srv[s]))
    BY <2>5 DEF Sensor!Kept
  <2> QED BY <2>3, <2>4, <2>5, <2>6 DEF SensorSave
<1>3. Sensor!EditsKept
  <2> SUFFICES ASSUME ui.open, ui'.open, ui.picked, ui.editing # {}, ui.form = ui'.form, ui'.pick # ui.pick, past'.edits = past.edits, ui'.kinds = ui.kinds
               PROVE  FALSE
    BY DEF Sensor!EditsKept
  <2> USE DEF SensorShape, SensorUi
  <2>1. ~Sensor!SetField
    <3>1. \A f, v : f \in {"auth", "typed", "every"} => DOMAIN [ui.pick EXCEPT ![f] = v] = {"known", "name", "auth", "typed", "every"}
      OBVIOUS
    <3>2. \A a : ~Sensor!Edit([ui.pick EXCEPT !.auth = a]) /\ ~Sensor!Edit([ui.pick EXCEPT !.every = a])
      BY <3>1, SensorEdit
    <3>3. \A k : ~Sensor!Edit([ui.pick EXCEPT !.typed = @ \cup {k}]) /\ ~Sensor!Edit([ui.pick EXCEPT !.typed = @ \ {k}])
      BY <3>1, SensorEdit
    <3> QED BY <3>2, <3>3 DEF Sensor!SetField
  <2>2. \A n : ~Sensor!SetName(n)
    <3> SUFFICES ASSUME NEW n, Sensor!SetName(n) PROVE FALSE
      OBVIOUS
    <3>1. DOMAIN [ui.pick EXCEPT !.name = n] = {"known", "name", "auth", "typed", "every"}
      OBVIOUS
    <3> QED BY <3>1, SensorEdit DEF Sensor!SetName
  <2>3. ~Sensor!KindsLand
    BY SensorSeeded DEF Sensor!KindsLand
  <2>4. ~Sensor!Add /\ ~Sensor!Choose /\ ~Sensor!Back /\ \A s \in DOMAIN ui.list : ~Sensor!EditSensor(s)
    BY DEF Sensor!Add, Sensor!Choose, Sensor!Back, Sensor!EditSensor, Sensor!OpenDialog
  <2>5. ~Sensor!Cancel /\ \A c \in net.saves : ~Sensor!SaveLands(c)
    <3> DEFINE u == [ui EXCEPT !.open = FALSE, !.editing = {}, !.row = Sensor!NoRow]
    <3>1. DOMAIN u = SensorUi /\ u.open = FALSE
      OBVIOUS
    <3>2. Sensor!Closed(ui) = Sensor!Seeded(u)
      BY DEF Sensor!Closed
    <3> HIDE DEF u
    <3>3. DOMAIN Sensor!Closed(ui) = SensorUi /\ Sensor!Closed(ui).open = FALSE
      BY <3>1, <3>2, SensorSeeded
    <3> QED BY <3>3 DEF Sensor!Cancel, Sensor!SaveLands
  <2>6. ~Sensor!RetryKinds /\ ~Sensor!ListLands /\ ~Sensor!Test /\ ~Sensor!Save /\ \A c \in net.tests : ~Sensor!TestLands(c)
    BY DEF Sensor!RetryKinds, Sensor!ListLands, Sensor!Test, Sensor!Save, Sensor!TestLands
  <2>7. (\A c \in net.saves, s \in 1..Few : ~Sensor!ServeSave(c, s)) /\ \A s \in DOMAIN srv : ~Sensor!ChangedElsewhere(s)
    BY DEF Sensor!ServeSave, Sensor!ChangedElsewhere
  <2> QED BY <2>1, <2>2, <2>3, <2>4, <2>5, <2>6, <2>7 DEF Sensor!Next
<1> QED BY <1>2, <1>3

-----------------------------------------------------------------------------
(* The settings of the own repeater.                                       *)

NodeUi == {"there", "form", "password", "regions", "home", "saving"}
NodeNet == {"read", "found", "save", "sent", "password", "op", "reread", "again", "remove", "create"}
NodeSrv == {"there", "fields", "password", "regions", "home"}
NodeShape ==
  /\ DOMAIN ui = NodeUi /\ DOMAIN net = NodeNet /\ DOMAIN srv = NodeSrv
  /\ DOMAIN past = {"saves", "edits", "faults", "crossed", "blind"}

\* A password is sent by the save of its own section alone, and a repeater that is gone has none.
NodePassword ==
  /\ net.password # "keep" => net.save = "admin"
  /\ srv.there \in BOOLEAN /\ (~srv.there => srv.password = "")

NodeInv == NodeShape /\ NodePassword

LEMMA NodeRecords ==
  /\ Node!Gone.there = FALSE /\ Node!Gone.password = "" /\ DOMAIN Node!Gone = NodeSrv
  /\ \A p : LET c == Node!Created(p) IN c.there = TRUE /\ c.password = p /\ DOMAIN c = NodeSrv
BY DEF Node!Gone, Node!Created, NodeSrv

LEMMA NodeInit == Node!Init => NodeInv
<1> SUFFICES ASSUME Node!Init PROVE NodeInv
  OBVIOUS
<1>1. DOMAIN srv = NodeSrv /\ srv.there = TRUE
  BY NodeRecords DEF Node!Init, Node!Stored
<1>2. DOMAIN ui = NodeUi /\ DOMAIN past = {"saves", "edits", "faults", "crossed", "blind"}
  BY DEF Node!Init, NodeUi
<1>3. DOMAIN net = NodeNet /\ net.password = "keep"
  BY DEF Node!Init, NodeNet, Node!Keep
<1> QED BY <1>1, <1>2, <1>3 DEF NodeInv, NodeShape, NodePassword

\* A step keeps the invariant, fills the fields again only from a read of the configuration, and changes the
\* password only to one that is being saved.
NodeKept == NodeInv' /\ Node!FieldsSurviveRegions /\ Node!PasswordAsked

\* What leaves the configuration and the save under way alone.
LEMMA NodeQuiet ==
  ASSUME NodeInv, srv' = srv, DOMAIN ui' = NodeUi, DOMAIN net' = NodeNet, DOMAIN past' = DOMAIN past,
         net'.save = net.save, net'.password = net.password, Node!FieldsSurviveRegions
  PROVE  NodeKept
BY DEF NodeInv, NodeShape, NodePassword, NodeKept, Node!PasswordAsked

LEMMA NodeNext == NodeInv /\ Node!Next => NodeKept
<1> SUFFICES ASSUME NodeInv, Node!Next PROVE NodeKept
  OBVIOUS
<1> USE DEF NodeInv
<1>1. CASE Node!ReadServed \/ Node!RereadServed \/ Node!Remove \/ Node!Create
  <2>1. /\ ui' = ui /\ srv' = srv /\ DOMAIN net' = NodeNet /\ net'.save = net.save /\ net'.password = net.password /\ DOMAIN past' = DOMAIN past
    BY <1>1 DEF Node!ReadServed, Node!RereadServed, Node!Remove, Node!Create, NodeShape, NodeNet
  <2>2. Node!FieldsSurviveRegions
    BY <2>1 DEF Node!FieldsSurviveRegions
  <2> QED BY <2>1, <2>2, NodeQuiet DEF NodeShape
<1>2. CASE Node!ReadLands
  <2>1. /\ srv' = srv /\ DOMAIN net' = NodeNet /\ net'.save = net.save /\ net'.password = net.password
        /\ net.read = "served" /\ net'.read = "none"
    BY <1>2 DEF Node!ReadLands, Node!None, NodeShape, NodeNet
  <2>2. DOMAIN past' = DOMAIN past
    BY <1>2 DEF Node!ReadLands, Node!Spent, NodeShape
  <2>3. DOMAIN ui' = NodeUi
    BY <1>2 DEF Node!ReadLands, Node!Filled, NodeShape, NodeUi
  <2>4. Node!FieldsSurviveRegions
    BY <2>1 DEF Node!FieldsSurviveRegions
  <2> QED BY <2>1, <2>2, <2>3, <2>4, NodeQuiet
<1>3. CASE Node!RereadLands
  <2>1. /\ srv' = srv /\ DOMAIN net' = NodeNet /\ net'.save = net.save /\ net'.password = net.password
    BY <1>3 DEF Node!RereadLands, NodeShape, NodeNet
  <2>2. DOMAIN past' = DOMAIN past
    BY <1>3 DEF Node!RereadLands, Node!Spent, NodeShape
  <2>3. DOMAIN ui' = NodeUi /\ ui'.form = ui.form
    BY <1>3 DEF Node!RereadLands, NodeShape, NodeUi
  <2>4. Node!FieldsSurviveRegions
    BY <2>3 DEF Node!FieldsSurviveRegions
  <2> QED BY <2>1, <2>2, <2>3, <2>4, NodeQuiet
<1>4. ASSUME NEW s \in {"node", "admin"}, Node!Edit(s) PROVE NodeKept
  <2>1. net' = net /\ srv' = srv /\ past' = past /\ DOMAIN ui' = NodeUi /\ ui'.regions = ui.regions
    BY <1>4 DEF Node!Edit, NodeShape, NodeUi
  <2>2. Node!FieldsSurviveRegions
    BY <2>1 DEF Node!FieldsSurviveRegions
  <2> QED BY <2>1, <2>2, NodeQuiet DEF NodeShape
<1>5. ASSUME NEW p \in {"", "new"}, Node!TypePassword(p) PROVE NodeKept
  <2>1. net' = net /\ srv' = srv /\ past' = past /\ DOMAIN ui' = NodeUi /\ ui'.form = ui.form
    BY <1>5 DEF Node!TypePassword, NodeShape, NodeUi
  <2>2. Node!FieldsSurviveRegions
    BY <2>1 DEF Node!FieldsSurviveRegions
  <2> QED BY <2>1, <2>2, NodeQuiet DEF NodeShape
<1>6. ASSUME NEW s \in {"node", "admin"}, Node!Save(s) PROVE NodeKept
  <2>1. /\ srv' = srv /\ DOMAIN ui' = NodeUi /\ ui'.form = ui.form /\ DOMAIN net' = NodeNet /\ DOMAIN past' = DOMAIN past
        /\ net'.save = s /\ (net'.password # "keep" => s = "admin")
    BY <1>6 DEF Node!Save, Node!Keep, NodeShape, NodeUi, NodeNet
  <2> QED BY <2>1 DEF NodeShape, NodePassword, NodeKept, Node!PasswordAsked, Node!FieldsSurviveRegions
<1>7. CASE Node!SaveLands
  <2>1. DOMAIN ui' = NodeUi /\ ui'.form = ui.form
    BY <1>7 DEF Node!SaveLands, NodeShape, NodeUi
  <2>2. DOMAIN net' = NodeNet /\ net'.password = "keep"
    BY <1>7 DEF Node!SaveLands, Node!Reload, Node!Keep, NodeShape, NodeNet
  <2>3. DOMAIN past' = DOMAIN past
    BY <1>7 DEF Node!SaveLands, Node!Spent, NodeShape
  <2>4. srv' = srv \/ (srv.there /\ srv' = Node!Written(srv))
    BY <1>7 DEF Node!SaveLands
  <2>5. /\ DOMAIN srv' = NodeSrv /\ srv'.there = srv.there
        /\ srv'.password # srv.password => srv.there /\ net.password # "keep" /\ srv'.password = net.password
    BY <2>4 DEF Node!Written, Node!Keep, NodeShape, NodeSrv
  <2> QED BY <2>1, <2>2, <2>3, <2>5 DEF NodeShape, NodePassword, NodeKept, Node!PasswordAsked, Node!FieldsSurviveRegions
<1>8. ASSUME NEW kind \in {"add", "remove", "home"}, NEW r \in Node!Homes, Node!RegionOp([kind |-> kind, region |-> r]) PROVE NodeKept
  <2> DEFINE c == [kind |-> kind, region |-> r]
  <2>1. ui' = Node!Shows(ui, c) /\ net' = [net EXCEPT !.op = c] /\ srv' = srv /\ DOMAIN past' = DOMAIN past
    BY <1>8 DEF Node!RegionOp, NodeShape
  <2> HIDE DEF c
  <2>2. DOMAIN ui' = NodeUi /\ ui'.form = ui.form
    BY <2>1 DEF Node!Shows, NodeShape, NodeUi
  <2>3. DOMAIN net' = NodeNet /\ net'.save = net.save /\ net'.password = net.password
    BY <2>1 DEF NodeShape, NodeNet
  <2>4. Node!FieldsSurviveRegions
    BY <2>2 DEF Node!FieldsSurviveRegions
  <2> QED BY <2>1, <2>2, <2>3, <2>4, NodeQuiet
<1>9. CASE Node!OpLands
  <2>1. DOMAIN ui' = NodeUi /\ ui'.form = ui.form
    BY <1>9 DEF Node!OpLands, NodeShape, NodeUi
  <2>2. DOMAIN net' = NodeNet /\ net'.save = net.save /\ net'.password = net.password
    BY <1>9 DEF Node!OpLands, NodeShape, NodeNet
  <2>3. DOMAIN past' = DOMAIN past
    BY <1>9 DEF Node!OpLands, Node!Spent, NodeShape
  <2>4. srv' = srv \/ srv' = Node!Carried(net.op)
    BY <1>9 DEF Node!OpLands
  <2>5. DOMAIN srv' = NodeSrv /\ srv'.there = srv.there /\ srv'.password = srv.password
    BY <2>4 DEF Node!Carried, NodeShape, NodeSrv
  <2> QED BY <2>1, <2>2, <2>3, <2>5 DEF NodeShape, NodePassword, NodeKept, Node!PasswordAsked, Node!FieldsSurviveRegions
<1>10. CASE Node!RemoveLands
  <2>1. DOMAIN net' = NodeNet /\ net'.save = net.save /\ net'.password = net.password
    BY <1>10 DEF Node!RemoveLands, Node!Reload, NodeShape, NodeNet
  <2>2. DOMAIN past' = DOMAIN past /\ ui' = ui /\ (srv' = srv \/ srv' = Node!Gone)
    BY <1>10 DEF Node!RemoveLands, Node!Spent, NodeShape
  <2>3. DOMAIN srv' = NodeSrv /\ srv'.there \in BOOLEAN /\ (~srv'.there => srv'.password = "")
    BY <2>2, NodeRecords DEF NodeShape, NodePassword
  <2>4. srv'.password # srv.password => srv'.there # srv.there
    BY <2>2, NodeRecords DEF NodePassword
  <2> QED BY <2>1, <2>2, <2>3, <2>4 DEF NodeShape, NodePassword, NodeKept, Node!PasswordAsked, Node!FieldsSurviveRegions
<1>11. CASE Node!CreateLands
  <2>1. DOMAIN net' = NodeNet /\ net'.save = net.save /\ net'.password = net.password
    BY <1>11 DEF Node!CreateLands, Node!Reload, NodeShape, NodeNet
  <2>2. DOMAIN past' = DOMAIN past /\ ui' = ui /\ (srv' = srv \/ (~srv.there /\ srv' = Node!Created("new")))
    BY <1>11 DEF Node!CreateLands, Node!Spent, NodeShape
  <2>3. DOMAIN srv' = NodeSrv /\ srv'.there \in BOOLEAN /\ (~srv'.there => srv'.password = "")
    BY <2>2, NodeRecords DEF NodeShape, NodePassword
  <2>4. srv'.password # srv.password => srv'.there # srv.there
    BY <2>2, NodeRecords DEF NodePassword
  <2> QED BY <2>1, <2>2, <2>3, <2>4 DEF NodeShape, NodePassword, NodeKept, Node!PasswordAsked, Node!FieldsSurviveRegions
<1> QED BY <1>1, <1>2, <1>3, <1>4, <1>5, <1>6, <1>7, <1>8, <1>9, <1>10, <1>11 DEF Node!Next

LEMMA NodeStutters == NodeInv /\ UNCHANGED <<ui, net, srv, past>> => NodeInv'
BY DEF NodeInv, NodeShape, NodePassword
=============================================================================

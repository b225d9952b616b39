---------------------------- MODULE ChatComposer ----------------------------
(***************************************************************************)
(* The foot of the chat page: the composer of the open thread, the post of *)
(* what it holds, and the bar that takes its place in a room until a login *)
(* session exists.  A text is a number; what it says does not matter, only *)
(* whether it fits.                                                        *)
(***************************************************************************)
EXTENDS Integers, FiniteSets

CONSTANTS Rooms,      \* threads that need a login session
          Sensors,    \* threads that take no text
          Others,     \* the rest
          MaxTexts,   \* bound: texts ever written
          TooLong,    \* those over charLimit
          MaxJoins,   \* bound: logins in flight
          MaxFaults   \* bound: requests that fail

VARIABLES
  ui,    \* active, text, sending; session and checking of the room; the join bar's meta, save, joining
  net,   \* on its way: the post, the room's session fetch and its contact's, and joins
  srv,   \* the server: rooms with a session, rooms with a saved password, and what was posted
  past   \* texts written, faults, texts that may be lost, and whether a join crossed a change of thread

vars == <<ui, net, srv, past>>

\* Rooms, sensors and other threads are different threads.

None == "none"
Empty == 0
Texts == 1..MaxTexts
Threads == Rooms \cup Sensors \cup Others
Post == [thread : Threads, text : Texts]
Join == [room : Rooms, step : {"login", "save", "session"}, save : BOOLEAN, known : BOOLEAN]

TypeOK ==
  /\ ui.active \in Threads \cup {None} /\ ui.text \in Texts \cup {Empty}
  /\ ui.session \in Rooms \cup {None} /\ ui.meta \in Rooms \cup {None}
  /\ {ui.sending, ui.checking, ui.save, ui.joining, past.astray} \subseteq BOOLEAN
  /\ \A p \in net.posts : p \in Post
  /\ \A j \in net.joins : j \in Join
  /\ net.ask \in Rooms \cup {None} /\ net.contact \in Rooms \cup {None}
  /\ srv.live \subseteq Rooms /\ srv.saved \subseteq Rooms /\ srv.posted \subseteq Post
  /\ past.written \in 0..MaxTexts /\ past.faults \in 0..MaxFaults
  /\ past.late \subseteq Texts

\* Opened from a link, the page may start with a text in the composer (?compose=).
Init ==
  /\ \E n \in {0, 1} : /\ ui = [active |-> None, text |-> n, sending |-> FALSE, session |-> None,
                                checking |-> FALSE, meta |-> None, save |-> FALSE, joining |-> FALSE]
                       /\ past = [written |-> n, faults |-> 0, late |-> {}, astray |-> FALSE]
  /\ net = [posts |-> {}, ask |-> None, contact |-> None, joins |-> {}]
  /\ \E S \in SUBSET Rooms : srv = [live |-> {}, saved |-> S, posted |-> {}]

Fault == past.faults < MaxFaults /\ past' = [past EXCEPT !.faults = @ + 1]
-----------------------------------------------------------------------------
\* roomLoggedIn looks at the session alone: whose it is, it does not ask.
LoggedIn(u) == u.session # None
ShowsJoinBar(u) == u.active \in Rooms /\ ~LoggedIn(u)
ShowsComposer(u) == u.active # None /\ ~ShowsJoinBar(u)
Locked(u) == u.active \in Sensors

\* The thread changes: the session effect forgets the old room's and, for a room, asks for the new
\* one's, the old answer being cancelled; the join bar starts afresh with the room's contact.
OpenThread(t) ==
  /\ t # ui.active
  /\ LET room == IF t \in Rooms THEN t ELSE None
         kept == t \in Rooms /\ ShowsJoinBar(ui)   \* the bar stays mounted, and so does joining
     IN /\ ui' = [ui EXCEPT !.active = t, !.session = None, !.checking = @ \/ t \in Rooms,
                            !.meta = None, !.save = FALSE, !.joining = @ /\ kept]
        /\ net' = [net EXCEPT !.ask = room, !.contact = room]
  /\ past' = [past EXCEPT !.astray = net.joins # {}] /\ srv' = srv

\* The answer may have been read before a join that has landed since.
SessionLands ==
  /\ net.ask # None
  /\ \/ /\ UNCHANGED past
        /\ \E answer \in {net.ask, None} :
             /\ IF answer = None THEN net.ask \notin srv.live \/ ui.session # None ELSE answer \in srv.live
             /\ ui' = [ui EXCEPT !.checking = FALSE, !.session = answer]
     \/ Fault /\ ui' = [ui EXCEPT !.checking = FALSE]
  /\ net' = [net EXCEPT !.ask = None] /\ srv' = srv
ContactLands ==
  /\ net.contact # None
  /\ \/ UNCHANGED past /\ ui' = [ui EXCEPT !.meta = net.contact, !.save = @ \/ net.contact \in srv.saved]
     \/ Fault /\ ui' = ui
  /\ net' = [net EXCEPT !.contact = None] /\ srv' = srv
ToggleSave == ShowsJoinBar(ui) /\ ui' = [ui EXCEPT !.save = ~@] /\ UNCHANGED <<net, srv, past>>

\* join, from Enter while the session is still being checked too: log in, save or forget the password if that changes the contact, read the session back.
AskJoin ==
  /\ ShowsJoinBar(ui) /\ ~ui.joining /\ Cardinality(net.joins) < MaxJoins
  /\ ui' = [ui EXCEPT !.joining = TRUE]
  /\ net' = [net EXCEPT !.joins = @ \cup
       {[room |-> ui.active, step |-> "login", save |-> ui.save, known |-> ui.meta # None]}]
  /\ UNCHANGED <<srv, past>>
JoinNext(j, step) == net' = [net EXCEPT !.joins = (@ \ {j}) \cup {[j EXCEPT !.step = step]}]
JoinEnds(j) == net' = [net EXCEPT !.joins = @ \ {j}]
JoinStep(j) ==
  \/ /\ j.step = "login" /\ srv' = [srv EXCEPT !.live = @ \cup {j.room}]
     /\ JoinNext(j, IF j.known /\ j.save # (j.room \in srv.saved) THEN "save" ELSE "session")
     /\ UNCHANGED <<ui, past>>
  \/ /\ j.step = "save" /\ JoinNext(j, "session") /\ ui' = ui
     /\ \/ srv' = [srv EXCEPT !.saved = IF j.save THEN @ \cup {j.room} ELSE @ \ {j.room}] /\ past' = past
        \/ Fault /\ srv' = srv
  \/ /\ j.step = "session" /\ JoinEnds(j) /\ UNCHANGED <<srv, past>>
     /\ ui' = [ui EXCEPT !.session = j.room, !.joining = FALSE]
JoinFails(j) ==
  /\ j.step # "save" /\ Fault /\ JoinEnds(j)
  /\ ui' = [ui EXCEPT !.joining = FALSE] /\ srv' = srv

\* The reader writes, or a reply takes the place of what was written.
Write ==
  /\ ShowsComposer(ui) /\ ~Locked(ui) /\ past.written < MaxTexts
  /\ ui' = [ui EXCEPT !.text = past.written + 1]
  /\ past' = [past EXCEPT !.written = @ + 1, !.late = IF ui.sending THEN @ \cup {past.written + 1} ELSE @]
  /\ UNCHANGED <<net, srv>>
HandleReply ==
  /\ ui.active # None /\ past.written < MaxTexts
  /\ ui' = [ui EXCEPT !.text = past.written + 1]
  /\ past' = [past EXCEPT !.written = @ + 1, !.late = @ \cup ({ui.text, past.written + 1} \ {Empty})]
  /\ UNCHANGED <<net, srv>>

\* send, from the button or from Enter.
Send ==
  /\ ShowsComposer(ui) /\ ~Locked(ui)
  /\ ui.text \notin TooLong \cup {Empty} /\ ~ui.sending
  /\ ui' = [ui EXCEPT !.sending = TRUE]
  /\ net' = [net EXCEPT !.posts = @ \cup {[thread |-> ui.active, text |-> ui.text]}]
  /\ UNCHANGED <<srv, past>>
\* Answered, whatever is in the composer by now is cleared; failed, it stays, stored or not.
SendOk(p) ==
  /\ net' = [net EXCEPT !.posts = @ \ {p}] /\ srv' = [srv EXCEPT !.posted = @ \cup {p}]
  /\ ui' = [ui EXCEPT !.sending = FALSE, !.text = Empty]
  /\ past' = past
\* The bug of a failed send that clears the composer.
SendFailedClears(p) ==
  /\ Fault /\ net' = [net EXCEPT !.posts = @ \ {p}]
  /\ \E stored \in BOOLEAN : srv' = IF stored THEN [srv EXCEPT !.posted = @ \cup {p}] ELSE srv
  /\ ui' = [ui EXCEPT !.sending = FALSE, !.text = Empty]
SendFailed(p) ==
  /\ Fault /\ net' = [net EXCEPT !.posts = @ \ {p}]
  /\ \E stored \in BOOLEAN : srv' = IF stored THEN [srv EXCEPT !.posted = @ \cup {p}] ELSE srv
  /\ ui' = [ui EXCEPT !.sending = FALSE]

Next ==
  \/ \E t \in Threads \cup {None} : OpenThread(t)
  \/ SessionLands \/ ContactLands \/ ToggleSave \/ AskJoin \/ Write \/ HandleReply \/ Send
  \/ \E j \in net.joins : JoinStep(j) \/ JoinFails(j)
  \/ \E p \in net.posts : SendOk(p) \/ SendFailed(p)
Spec == Init /\ [][Next]_vars
-----------------------------------------------------------------------------
\* A room shows the composer only while it has a session, unless the thread was changed with a join
\* under way (then the answer counts for whichever room is open).
RoomNeedsSession ==
  ui.active \in Rooms /\ ShowsComposer(ui) /\ ~past.astray => ui.active \in srv.live
\* The same, as the comment on RoomJoinBar has it, with no exception.
ReplacedUntilJoined == ui.active \in Rooms /\ ShowsComposer(ui) => ui.active \in srv.live

\* A text leaves the composer unposted only if it was written while another was being sent, or if a
\* reply took its place: a failed post or a change of thread loses nothing.
WrittenIsKept ==
  \A n \in 1..past.written :
    n = past.written => \/ ui.text = n \/ n \in past.late
                        \/ \E p \in srv.posted : p.text = n
\* One post at a time, and of one text to one thread unless a post of it failed.
PostedOnce ==
  /\ Cardinality(net.posts) <= 1
  /\ past.faults = 0 => \A p, q \in srv.posted : p.text = q.text => p = q
=============================================================================

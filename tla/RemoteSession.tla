--------------------------- MODULE RemoteSession ---------------------------
(***************************************************************************)
(* The page of a remote node: what it loads when it opens, the login the   *)
(* server holds for it, and remoteFetch, which takes the page back to its  *)
(* login form when a request is answered 401.  The page stays mounted when *)
(* the reader goes to another node.                                        *)
(***************************************************************************)
EXTENDS Integers, FiniteSets

CONSTANTS Nodes,
          Roles,      \* what a login may grant: "guest", "admin"
          MaxReads,   \* bound: session reads in flight
          MaxMoves,   \* bound: times the reader goes to another node
          MaxFaults   \* bound: logins the server loses, and requests that fail

VARIABLES
  ui,    \* node, session (of whom, and whether admin), contact, booting, error, save, loggingIn
  net,   \* on its way: boots, session reads, logins (by step), logouts, and requests to the node
  srv,   \* the login the server holds for each node, and the nodes with a saved password
  past   \* moves; faults; whether session answers may be out of order; whether a 401 came since the login

vars == <<ui, net, srv, past>>

None == "none"
Held == Roles \cup {None}
NoSession == [of |-> None, role |-> None]
Read == [of : Nodes, got : {"asked", "ok"}, role : Held]
Login == [of : Nodes, step : {"login", "save"}, save : BOOLEAN]

TypeOK ==
  /\ ui.node \in Nodes /\ ui.contact \in Nodes \cup {None}
  /\ ui.session.of \in Nodes \cup {None} /\ ui.session.role \in Held
  /\ {ui.booting, ui.error, ui.save, ui.loggingIn, past.crossed, past.refused} \subseteq BOOLEAN
  /\ net.boots \subseteq Nodes /\ net.asks \subseteq Nodes /\ net.outs \subseteq Nodes
  /\ net.reads \subseteq Read /\ net.logins \subseteq Login
  /\ srv.held \in [Nodes -> Held] /\ srv.saved \subseteq Nodes
  /\ past.faults \in 0..MaxFaults /\ past.moves \in 0..MaxMoves

Init ==
  /\ \E n \in Nodes :
       /\ ui = [node |-> n, session |-> NoSession, contact |-> None, booting |-> TRUE, error |-> FALSE,
                save |-> FALSE, loggingIn |-> FALSE]
       /\ net = [boots |-> {n}, reads |-> {}, logins |-> {}, outs |-> {}, asks |-> {}]
  /\ \E h \in [Nodes -> Held], S \in SUBSET Nodes : srv = [held |-> h, saved |-> S]
  /\ past = [moves |-> 0, faults |-> 0, crossed |-> FALSE, refused |-> FALSE]

Spends == past.faults < MaxFaults
LoggedIn == ui.session.role # None
Tabs == ~ui.booting /\ ~ui.error /\ LoggedIn
Form == ~ui.booting /\ ~ui.error /\ ~LoggedIn
-----------------------------------------------------------------------------
\* refreshSession asks for the session of the node it was made for; nothing tells an old answer.
Asking(reads, n) == reads \cup {[of |-> n, got |-> "asked", role |-> None]}
ServeSession(q) ==
  /\ q.got = "asked"
  /\ net' = [net EXCEPT !.reads = (@ \ {q}) \cup {[q EXCEPT !.got = "ok", !.role = srv.held[q.of]]}]
  /\ UNCHANGED <<ui, srv, past>>
\* A read that fails counts as no session, like one that finds none.
LandSession(q) ==
  /\ q.got = "ok" /\ net' = [net EXCEPT !.reads = @ \ {q}]
  /\ \/ ui' = [ui EXCEPT !.session = [of |-> q.of, role |-> q.role]] /\ past' = past
     \/ Spends /\ past' = [past EXCEPT !.faults = @ + 1] /\ ui' = [ui EXCEPT !.session = NoSession]
  /\ srv' = srv

\* The page goes to another node: bootstrap runs again, and the old one is not cancelled.
GoTo(n) ==
  /\ n # ui.node /\ past.moves < MaxMoves
  /\ ui' = [ui EXCEPT !.node = n, !.booting = TRUE, !.error = FALSE]
  /\ net' = [net EXCEPT !.boots = @ \cup {n}]
  /\ past' = [past EXCEPT !.moves = @ + 1, !.crossed = TRUE] /\ srv' = srv
\* bootstrap: the contact and its saved password, then the session; booting ends when that is asked
\* and answered, or at once on an error.
BootLands(n) ==
  /\ \/ /\ Cardinality(net.reads) < MaxReads
        /\ net' = [net EXCEPT !.boots = @ \ {n}, !.reads = Asking(@, n)]
        /\ ui' = [ui EXCEPT !.contact = n, !.save = @ \/ n \in srv.saved, !.booting = FALSE] /\ past' = past
     \/ /\ Spends /\ past' = [past EXCEPT !.faults = @ + 1]
        /\ net' = [net EXCEPT !.boots = @ \ {n}] /\ ui' = [ui EXCEPT !.error = TRUE, !.booting = FALSE]
  /\ srv' = srv

\* handleLogin: log in, read the session, then save or clear the password of the contact.
AskLogin ==
  /\ Form /\ ~ui.loggingIn
  /\ ui' = [ui EXCEPT !.loggingIn = TRUE]
  /\ net' = [net EXCEPT !.logins = @ \cup {[of |-> ui.node, step |-> "login", save |-> ui.save]}]
  /\ UNCHANGED <<srv, past>>
ToggleSave == Form /\ ui' = [ui EXCEPT !.save = ~@] /\ UNCHANGED <<net, srv, past>>
LoginLands(j) ==
  /\ j.step = "login"
  /\ \/ /\ Cardinality(net.reads) < MaxReads /\ ui' = ui
        /\ \E r \in Roles : srv' = [srv EXCEPT !.held[j.of] = r]
        /\ net' = [net EXCEPT !.logins = (@ \ {j}) \cup {[j EXCEPT !.step = "save"]}, !.reads = Asking(@, j.of)]
        /\ past' = [past EXCEPT !.crossed = @ \/ net.reads # {} \/ j.of # ui.node \/ net.outs # {},
                                !.refused = FALSE]
     \/ /\ Spends /\ past' = [past EXCEPT !.faults = @ + 1] /\ srv' = srv
        /\ net' = [net EXCEPT !.logins = @ \ {j}] /\ ui' = [ui EXCEPT !.loggingIn = FALSE]
\* The patch of the contact: only once the session it waits for is in, and its errors are ignored.
PasswordSaved(j) ==
  /\ j.step = "save" /\ ~\E q \in net.reads : q.of = j.of
  /\ net' = [net EXCEPT !.logins = @ \ {j}] /\ ui' = [ui EXCEPT !.loggingIn = FALSE]
  /\ \E ok \in BOOLEAN :
       srv' = IF ok THEN [srv EXCEPT !.saved = IF j.save THEN @ \cup {j.of} ELSE @ \ {j.of}] ELSE srv
  /\ past' = past

Logout ==
  /\ Tabs /\ net' = [net EXCEPT !.outs = @ \cup {ui.node}] /\ UNCHANGED <<ui, srv>>
  /\ past' = [past EXCEPT !.crossed = @ \/ net.reads # {}]
\* handleLogout: a refused DELETE counts as a logout, and one that gets no answer leaves the session shown.
Dropped(n) == [srv EXCEPT !.held[n] = None]
LogoutLands(n) ==
  LET over == [past EXCEPT !.crossed = @ \/ n # ui.node \/ net.reads # {}]
      out == [ui EXCEPT !.session = NoSession] IN
  /\ net' = [net EXCEPT !.outs = @ \ {n}]
  /\ \/ srv' = Dropped(n) /\ ui' = out /\ past' = over
     \/ Spends /\ past' = [over EXCEPT !.faults = @ + 1] /\ srv' = srv /\ ui' = out
     \/ Spends /\ past' = [over EXCEPT !.faults = @ + 1] /\ srv' \in {srv, Dropped(n)} /\ ui' = ui

\* The server drops a login; a tab asks the node something, and a 401 makes the page read the session.
LoseLogin(n) ==
  /\ Spends /\ srv.held[n] # None
  /\ srv' = [srv EXCEPT !.held[n] = None] /\ past' = [past EXCEPT !.faults = @ + 1] /\ UNCHANGED <<ui, net>>
Ask == Tabs /\ net' = [net EXCEPT !.asks = @ \cup {ui.node}] /\ UNCHANGED <<ui, srv, past>>
Answered(n) ==
  \/ srv.held[n] # None /\ net' = [net EXCEPT !.asks = @ \ {n}] /\ UNCHANGED <<ui, srv, past>>
  \/ /\ srv.held[n] = None /\ Cardinality(net.reads) < MaxReads
     /\ net' = [net EXCEPT !.asks = @ \ {n}, !.reads = Asking(@, n)]
     /\ past' = [past EXCEPT !.refused = @ \/ n = ui.node, !.crossed = @ \/ net.logins # {} \/ n # ui.node]
     /\ UNCHANGED <<ui, srv>>

Next ==
  \/ \E q \in net.reads : ServeSession(q) \/ LandSession(q)
  \/ \E n \in Nodes : GoTo(n) \/ LoseLogin(n)
  \/ \E n \in net.boots : BootLands(n)
  \/ \E n \in net.outs : LogoutLands(n)
  \/ \E n \in net.asks : Answered(n)
  \/ \E j \in net.logins : LoginLands(j) \/ PasswordSaved(j)
  \/ AskLogin \/ ToggleSave \/ Logout \/ Ask
Spec == Init /\ [][Next]_vars
-----------------------------------------------------------------------------
AtRest == net.boots = {} /\ net.reads = {} /\ net.logins = {} /\ net.outs = {}

\* A 401 takes the page back to its login form: once the session was read again, no tab is shown
\* until a login, unless session answers could overtake each other or the reader went elsewhere.
LostLoginNoticed == AtRest /\ past.refused /\ ~past.crossed => ~Tabs

\* The tabs a page shows at rest are those of a login to its own node.
OwnSession == AtRest /\ ~past.crossed /\ LoggedIn => ui.session.of = ui.node
=============================================================================

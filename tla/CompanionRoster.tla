-------------------------- MODULE CompanionRoster --------------------------
(***************************************************************************)
(* The companions as three places of the console know them: the side bar   *)
(* (AppShell), the page that lists and edits them (CompanionsPage), and    *)
(* the cache a companion's own pages share (useCompanions), with the       *)
(* links between them, which name a companion by its id and its slug.      *)
(***************************************************************************)
EXTENDS Integers, Sequences, FiniteSets

CONSTANTS MaxId,      \* bound: ids given out
          Names,      \* texts a companion may be named, each [id, word]: what it reads as an id (0: none), and the rest
          Bookmarks,  \* texts of links kept from before: names, and refs whose slug may be an old one
          MaxMoves,   \* bound: links followed
          MaxWrites,  \* bound: companions saved and removed
          MaxFaults   \* bound: requests that fail

VARIABLES
  ui,    \* at (where the console is), edit (?edit=); shell, list, known (rosters read), shellError, listError;
         \* editing (the editor), saving (its write, 0: none), confirming (the row that asks)
  net,   \* shell, list (the read that counts), reads (those of the cache), inflight, writes, timers (of 1200 ms)
  srv,   \* stored, running (the companions that run), next (the id a new one gets)
  past   \* visit (mounts of the list page), moves, writes, faults, meant (the companion a link led to, 0: none is known),
         \* over (reads of the cache overlapped), behind (a read of it failed, or was made too early), lost (an answer),
         \* astray (a write landed for a list page that was left)

vars == <<ui, net, srv, past>>

\* s without its element at i.
Without(s, i) == SubSeq(s, 1, i - 1) \o SubSeq(s, i + 1, Len(s))

Ids == 1..MaxId
Gone == [id |-> 0, word |-> ""]
Page(word) == [id |-> 0, word |-> word]   \* not a companion's: the list page, the others, and no place
List == Page("/list")
Other == Page("/other")
Nowhere == Page("/")
NotRead == <<>>
Rosters == [Ids -> Names \cup {Gone}]
Texts == Names \cup Bookmarks \cup [id : Ids, word : {n.word : n \in Names} \cup {"digits"}]
Held(r) == {c \in DOMAIN r : r[c] # Gone}
Closed == [of |-> -1, draft |-> Gone]
Idle == [step |-> "idle", got |-> NotRead]
Asked == [step |-> "asked", got |-> NotRead]

TypeOK ==
  /\ ui.at \in Texts \cup {List, Other} /\ ui.edit \in Texts \cup {Nowhere}
  /\ {ui.shell, ui.list, ui.known} \subseteq Rosters \cup {NotRead} /\ {ui.shellError, ui.listError} \subseteq BOOLEAN
  /\ ui.editing.of \in Ids \cup {0, -1} /\ ui.editing.draft \in Names \cup {Gone} /\ ui.confirming \in Ids \cup {0} /\ ui.saving \in 0..MaxWrites
  /\ \A s \in {net.shell, net.list} \cup {net.reads[i] : i \in DOMAIN net.reads} : s.step \in {"idle", "asked", "served"} /\ s.got \in Rosters \cup {NotRead}
  /\ net.inflight => net.reads # <<>>
  /\ \A w \in {net.writes[i] : i \in DOMAIN net.writes} : w.id \in Ids \cup {0} /\ w.step \in {"asked", "done", "refused"}
  /\ net.timers \in 0..MaxWrites
  /\ {srv.stored, srv.running} \subseteq Rosters /\ srv.next \in 1..MaxId + 1
  /\ past.visit \in 0..MaxMoves + 1 /\ past.moves \in 0..MaxMoves /\ past.writes \in 0..MaxWrites
  /\ past.faults \in 0..MaxFaults /\ past.meant \in Ids \cup {0} /\ {past.over, past.behind, past.lost, past.astray} \subseteq BOOLEAN
-----------------------------------------------------------------------------
\* companionRef: the id and the slug of the name; digits are a word too once they follow an id.
RefOf(c, r) == [id |-> c, word |-> IF r[c].id = 0 THEN r[c].word ELSE "digits"]
\* findByRef: an exact name wins, and only then is the text read as an id; 0 is none.
FindByRef(seg, r) ==
  LET named == {c \in Held(r) : r[c] = seg}
  IN IF named # {} THEN CHOOSE c \in named : TRUE ELSE IF seg.id \in Held(r) THEN seg.id ELSE 0

Editing == ui.editing # Closed
AtCompanion(u) == u.at \notin {List, Other}
\* A link from before refs existed is swapped for the ref once the side bar's roster has it.
Redirects(u) == AtCompanion(u) /\ u.at.id = 0 /\ \E c \in Held(u.shell) : u.shell[c] = u.at
Redirected(u) == [u EXCEPT !.at = RefOf(FindByRef(@, u.shell), u.shell)]
ReloadShell(n) == [n EXCEPT !.shell = Asked]
\* fetchCompanions: a read under way is shared.
Fetch(n) == [n EXCEPT !.reads = Append(@, Asked), !.inflight = TRUE]
Revalidate(n) == IF n.inflight THEN n ELSE Fetch(n)
Fetching(p) == [p EXCEPT !.over = net.reads # <<>>]

\* The page at a new place: the side bar reads again around the companions, the list page starts anew, a
\* companion's page has the cache read, and a link by name is swapped at once if its companion is known.
Arrive(u, meant) ==
  LET to == IF Redirects(u) THEN Redirected(u) ELSE u
      fresh == [to EXCEPT !.list = NotRead, !.listError = FALSE, !.editing = Closed, !.saving = 0, !.confirming = 0]
      near == u.at # ui.at /\ (u.at # Other \/ ui.at # Other)
      mounts == AtCompanion(u) /\ ~AtCompanion(ui)
      n == [(IF near THEN ReloadShell(net) ELSE net) EXCEPT !.list = IF u.at = List THEN Asked ELSE Idle]
  IN /\ ui' = [fresh EXCEPT !.shellError = @ /\ ~near]
     /\ net' = IF mounts THEN Revalidate(n) ELSE n
     /\ past' = [(IF ~mounts THEN past ELSE IF net.inflight THEN [past EXCEPT !.behind = TRUE] ELSE Fetching(past)) EXCEPT
                   !.moves = @ + 1, !.astray = FALSE, !.lost = FALSE, !.visit = IF u.at = List THEN @ + 1 ELSE @,
                   !.meant = IF Redirects(u) THEN FindByRef(u.at, u.shell) ELSE meant]

Init ==
  /\ \E r \in Rosters :
       /\ Held(r) # {} /\ \A c, d \in Held(r) : r[c] = r[d] => c = d
       /\ srv = [stored |-> r, running |-> r, next |-> 1 + CHOOSE c \in Held(r) : \A d \in Held(r) : d <= c]
  /\ \E at \in Bookmarks \cup {List, Other} :
       /\ ui = [at |-> at, edit |-> Nowhere, shell |-> NotRead, list |-> NotRead, known |-> NotRead, shellError |-> FALSE,
                listError |-> FALSE, editing |-> Closed, saving |-> 0, confirming |-> 0]
       /\ net = [shell |-> Asked, list |-> IF at = List THEN Asked ELSE Idle,
                 reads |-> IF AtCompanion(ui) THEN <<Asked>> ELSE <<>>, inflight |-> AtCompanion(ui), writes |-> <<>>, timers |-> 0]
       /\ past = [visit |-> IF at = List THEN 1 ELSE 0, moves |-> 0, writes |-> 0, faults |-> 0,
                  meant |-> IF at.id \in Held(srv.stored) THEN at.id ELSE 0,
                  over |-> FALSE, behind |-> FALSE, lost |-> FALSE, astray |-> FALSE]
Fault == past.faults < MaxFaults
Spent == [past EXCEPT !.faults = @ + 1]
-----------------------------------------------------------------------------
\* Links: the side bar's to each companion, the phone bar's straight to an only one, the rows of the list.
LinksTo(r) == {[at |-> RefOf(c, r), meant |-> c] : c \in Held(r)}
SideLinks == LinksTo(ui.shell)
MessagesTo == IF Cardinality(Held(ui.shell)) = 1 THEN SideLinks ELSE {[at |-> List, meant |-> 0]}
ListShown == ui.at = List /\ ~ui.listError /\ net.list = Idle
RowLinks == IF ListShown THEN LinksTo(ui.list) ELSE {}
Follow ==
  /\ past.moves < MaxMoves /\ srv' = srv
  /\ \/ \E l \in SideLinks \cup MessagesTo \cup RowLinks : ~Editing /\ l.at # ui.at /\ Arrive([ui EXCEPT !.at = l.at, !.edit = Nowhere], l.meant)
     \/ \E to \in {List, Other} \ {ui.at} : Arrive([ui EXCEPT !.at = to, !.edit = Nowhere], 0)
     \/ AtCompanion(ui) /\ Arrive([ui EXCEPT !.at = List, !.edit = ui.at], 0)

Served(s) == [step |-> "served", got |-> s]
ShellServed == net.shell = Asked /\ net' = [net EXCEPT !.shell = Served(srv.stored)] /\ UNCHANGED <<ui, srv, past>>
ShellLands ==
  /\ net.shell.step = "served"
  /\ LET u == [ui EXCEPT !.shell = net.shell.got]
         over == [net EXCEPT !.shell = Idle]
     IN IF Redirects(u)
          THEN ui' = Redirected(u) /\ net' = ReloadShell(over) /\ past' = [past EXCEPT !.meant = FindByRef(u.at, u.shell)]
          ELSE ui' = u /\ net' = over /\ past' = past
  /\ srv' = srv
ShellFails ==
  /\ net.shell # Idle /\ Fault
  /\ ui' = [ui EXCEPT !.shellError = TRUE] /\ net' = [net EXCEPT !.shell = Idle] /\ past' = Spent /\ srv' = srv

ListServed == net.list = Asked /\ net' = [net EXCEPT !.list = Served(srv.stored)] /\ UNCHANGED <<ui, srv, past>>
\* The editor's companion, and the fields it starts with; one that is open keeps its fields.
Opened(u, c, name) == [u EXCEPT !.editing = [of |-> c, draft |-> IF u.editing = Closed THEN name ELSE u.editing.draft]]
\* With the list there, ?edit= opens the editor of its companion, if it has one, and is taken off the address.
EditLink(u) ==
  LET c == FindByRef(u.edit, u.list)
  IN [(IF u.edit # Nowhere /\ c # 0 THEN Opened(u, c, u.list[c]) ELSE u) EXCEPT !.edit = Nowhere]
ListLands ==
  /\ net.list.step = "served"
  /\ ui' = EditLink([ui EXCEPT !.list = net.list.got]) /\ net' = [net EXCEPT !.list = Idle] /\ UNCHANGED <<srv, past>>
ListFails ==
  /\ net.list # Idle /\ Fault
  /\ ui' = [ui EXCEPT !.listError = TRUE] /\ net' = [net EXCEPT !.list = Idle] /\ past' = Spent /\ srv' = srv
ReloadList(u, n) == /\ ui' = [u EXCEPT !.listError = FALSE] /\ net' = [n EXCEPT !.list = Asked]
Retry == ui.listError /\ ReloadList(ui, net) /\ UNCHANGED <<srv, past>>

\* The cache: whichever read lands last is kept; an answer that is an error empties it, no answer keeps it.
KnownServed(i) ==
  /\ net.reads[i] = Asked /\ net' = [net EXCEPT !.reads[i] = Served(srv.running)]
  /\ past' = [past EXCEPT !.behind = @ /\ (Len(net.reads) > 1 \/ srv.running # srv.stored)] /\ UNCHANGED <<ui, srv>>
Landed(i) == [net EXCEPT !.reads = Without(@, i), !.inflight = FALSE]
KnownLands(i) ==
  /\ net.reads[i].step = "served" /\ net' = Landed(i)
  /\ ui' = [ui EXCEPT !.known = net.reads[i].got] /\ UNCHANGED <<srv, past>>
KnownFails(i) ==
  /\ Fault /\ net' = Landed(i) /\ past' = [Spent EXCEPT !.behind = TRUE] /\ srv' = srv
  /\ \/ ui' = [ui EXCEPT !.known = NotRead]
     \/ ui' = ui
-----------------------------------------------------------------------------
\* The editor and the rows of the list page.
Row(c) == ListShown /\ c \in Held(ui.list) /\ ~Editing
MayWrite == past.writes < MaxWrites
OpenEditor ==
  /\ \/ ui.at = List /\ ~Editing /\ ui' = Opened(ui, 0, Gone)
     \/ \E c \in Ids : Row(c) /\ ui' = Opened(ui, c, ui.list[c])
  /\ UNCHANGED <<net, srv, past>>
Type ==
  /\ Editing /\ ui.saving = 0 /\ \E n \in Names : ui' = [ui EXCEPT !.editing.draft = n]
  /\ UNCHANGED <<net, srv, past>>
Close == Editing /\ ui' = [ui EXCEPT !.editing = Closed, !.saving = 0] /\ UNCHANGED <<net, srv, past>>
AskRemove == MayWrite /\ \E c \in Ids : Row(c) /\ ui' = [ui EXCEPT !.confirming = c] /\ UNCHANGED <<net, srv, past>>
Cancel == ui.confirming # 0 /\ ui' = [ui EXCEPT !.confirming = 0] /\ UNCHANGED <<net, srv, past>>

Write(op, c, name) ==
  /\ MayWrite /\ past' = [past EXCEPT !.writes = @ + 1] /\ srv' = srv
  /\ net' = [net EXCEPT !.writes = Append(@, [op |-> op, id |-> c, name |-> name, step |-> "asked", visit |-> past.visit, n |-> past.writes + 1])]
Submit ==
  /\ Editing /\ ui.saving = 0 /\ ui.editing.draft # Gone
  /\ Write("save", ui.editing.of, ui.editing.draft) /\ ui' = [ui EXCEPT !.saving = past.writes + 1]
\* removeCompanion
RemoveCompanion == Row(ui.confirming) /\ Write("remove", ui.confirming, Gone) /\ ui' = [ui EXCEPT !.confirming = 0]

\* External: a name is one companion's, an id is given once, and what is gone is not saved again.
Accepted(w) ==
  /\ w.op = "save" => \A c \in Held(srv.stored) : srv.stored[c] = w.name => c = w.id
  /\ w.op = "save" /\ w.id # 0 => w.id \in Held(srv.stored)
Applied(w) ==
  LET c == IF w.id = 0 THEN srv.next ELSE w.id
  IN [srv EXCEPT !.stored[c] = w.name, !.next = IF w.id = 0 THEN @ + 1 ELSE @]
WriteServed(i) ==
  /\ net.writes[i].step = "asked" /\ (net.writes[i].id = 0 => srv.next <= MaxId) /\ ui' = ui
  /\ LET w == net.writes[i]
         answer(step) == net' = [net EXCEPT !.writes[i].step = step]
     IN \/ Accepted(w) /\ srv' = Applied(w) /\ answer("done") /\ past' = past
        \/ ~Accepted(w) /\ srv' = srv /\ answer("refused") /\ past' = past
        \/ Fault /\ Accepted(w) /\ srv' = Applied(w) /\ answer("refused") /\ past' = [Spent EXCEPT !.lost = TRUE, !.behind = TRUE]
        \/ Fault /\ srv' = srv /\ answer("refused") /\ past' = Spent

\* notifyCompanionsChanged: the side bar and, on a companion's page, the cache are read again.
Notified(n) == IF AtCompanion(ui) THEN Fetch(ReloadShell(n)) ELSE ReloadShell(n)
Notifying(p) == IF AtCompanion(ui) THEN Fetching(p) ELSE p
\* What lands is for the page that asked: refresh reads its list again, a save closes its editor; the others
\* are told now and after 1200 ms.
WriteLands(i) ==
  /\ net.writes[i].step # "asked" /\ srv' = srv
  /\ LET w == net.writes[i]
         over == [net EXCEPT !.writes = Without(@, i)]
         here == ui.at = List /\ w.visit = past.visit
         quiet == [ui EXCEPT !.saving = IF @ = w.n THEN 0 ELSE @]
         told == [Notified(over) EXCEPT !.timers = @ + 1]
     IN \/ w.step = "refused" /\ ui' = quiet /\ net' = over /\ past' = past
        \/ /\ w.step = "done" /\ past' = [Notifying(past) EXCEPT !.astray = @ \/ ~here]
           /\ LET u == [quiet EXCEPT !.shellError = FALSE] IN
              IF ~here THEN ui' = u /\ net' = told
              ELSE ReloadList(IF w.op = "save" THEN [u EXCEPT !.editing = Closed, !.saving = 0] ELSE u, told)
Timer ==
  /\ net.timers > 0 /\ net' = [Notified(net) EXCEPT !.timers = @ - 1]
  /\ ui' = [ui EXCEPT !.shellError = FALSE] /\ srv' = srv
  /\ past' = [Notifying(past) EXCEPT !.behind = @ \/ srv.running # srv.stored]
\* External: the companions that run are replaced by those stored, some time after a write.
Restart == srv.running # srv.stored /\ srv' = [srv EXCEPT !.running = srv.stored] /\ UNCHANGED <<ui, net, past>>

Next ==
  \/ Follow \/ ShellServed \/ ShellLands \/ ShellFails \/ ListServed \/ ListLands \/ ListFails \/ Retry
  \/ \E i \in DOMAIN net.reads : KnownServed(i) \/ KnownLands(i) \/ KnownFails(i)
  \/ OpenEditor \/ Type \/ Close \/ AskRemove \/ Cancel \/ Submit \/ RemoveCompanion
  \/ \E i \in DOMAIN net.writes : WriteServed(i) \/ WriteLands(i)
  \/ Timer \/ Restart
Spec == Init /\ [][Next]_vars
-----------------------------------------------------------------------------
\* routeLabel and useCompanionRef: the companion named above a page, and the one the page is about.
Label == FindByRef(ui.at, ui.shell)
Named == FindByRef(ui.at, ui.known)
\* A companion's page reached by a link is that companion's for the header, the page and the daemon alike,
\* whatever it was renamed to, unless another is named exactly as the link reads.
OwnPage ==
  LET Own(c, r) == c \in {0, past.meant} \/ r[c] = ui.at IN
  AtCompanion(ui) /\ past.meant # 0 =>
    /\ Own(Label, ui.shell) /\ Own(Named, ui.known)
    /\ \A r \in {srv.stored, srv.running} : Own(FindByRef(ui.at, r), r)

\* With nothing on its way the side bar and the list show the companions as they are stored, unless a read failed
\* or the answer to a write was lost, and then until the next link; a list page left and come back to is not told of the writes it made before.
ShellAgrees ==
  net.shell = Idle /\ net.writes = <<>> /\ ~past.lost =>
    /\ ~ui.shellError => ui.shell = srv.stored
    /\ ui.at = List /\ net.list = Idle /\ ~ui.listError /\ ~past.astray => ui.list = srv.stored

\* On a companion's page the names are those of the companions that run, if they were restarted within the
\* 1200 ms that the list page waits before it has them read again, and unless two reads crossed or one failed.
NamesAgree ==
  /\ AtCompanion(ui) /\ srv.running = srv.stored /\ net.reads = <<>> /\ net.writes = <<>> /\ net.timers = 0
  /\ ~past.over /\ ~past.behind
  => ui.known = srv.running

\* What is typed in an editor, and the companion it is saved to, are changed by no answer: but an edit link that
\* opens late takes an open editor over with what is typed in it, and a save that lands closes the one open.
EditorKept ==
  Editing /\ ui'.editing # ui.editing /\ net' # net /\ past'.moves = past.moves =>
    \/ ui.edit # Nowhere /\ ui'.editing.draft = ui.editing.draft
    \/ ui'.editing = Closed /\ Len(net'.writes) < Len(net.writes)
=============================================================================

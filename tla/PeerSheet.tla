----------------------------- MODULE PeerSheet -----------------------------
(***************************************************************************)
(* The sheet of a discovered peer: the companions that hold it as a        *)
(* contact, the dialogs that add it, show its QR code and share it in a    *)
(* message, and its deletion.  The lists of peers and of companions are    *)
(* live: they are pushed while the sheet and its dialogs are open.         *)
(***************************************************************************)
EXTENDS Integers, FiniteSets

CONSTANTS Peers, Companions, NoOne,
          MaxSends,    \* bound: contacts added and peers deleted
          MaxPushes,   \* bound: the companion list pushed again, and peers heard again
          MaxFaults    \* bound: requests that fail

VARIABLES
  ui,    \* key (the peer selected), listed, hits, dialog, add (companion, submitting), share (companion, the
         \* owner of the channel chosen), qr, first (companions[0]), confirm, deleting
  net,   \* member, talks and qr (under way and not cancelled), adds and deletes in flight
  srv,   \* known (the peers), held (per peer, the companions that hold it)
  past   \* sends, pushes, faults, chosen (what the reader last chose in the add dialog), lost (a failed read)

vars == <<ui, net, srv, past>>
Maybe(S) == S \cup {NoOne}
Served == {"no", "ok", "failed"}
Sent == [peer : Peers, companion : Companions, served : Served, gone : BOOLEAN]
Deletion == [peer : Peers, served : Served, gone : BOOLEAN]

TypeOK ==
  /\ {ui.add.submitting, ui.confirm, ui.deleting, net.qr, net.member, net.talks, past.lost} \subseteq BOOLEAN
  /\ ui.key \in Maybe(Peers) /\ ui.listed \subseteq Peers /\ ui.qr \in Maybe(Peers) /\ ui.hits \subseteq Companions
  /\ ui.dialog \in {"none", "add", "qr", "share"} /\ ui.first \in Companions
  /\ {ui.add.companion, ui.share.companion, ui.share.channel, past.chosen} \subseteq Maybe(Companions)
  /\ net.adds \subseteq Sent /\ net.deletes \subseteq Deletion
  /\ srv.known \subseteq Peers /\ srv.held \in [Peers -> SUBSET Companions]
  /\ past.sends \in 0..MaxSends /\ past.pushes \in 0..MaxPushes /\ past.faults \in 0..MaxFaults

Init ==
  /\ \E c \in Companions :
       ui = [key |-> NoOne, listed |-> Peers, hits |-> {}, dialog |-> "none", first |-> c, qr |-> NoOne,
             confirm |-> FALSE, deleting |-> FALSE, add |-> [companion |-> NoOne, submitting |-> FALSE],
             share |-> [companion |-> NoOne, channel |-> NoOne]]
  /\ net = [member |-> FALSE, talks |-> FALSE, qr |-> FALSE, adds |-> {}, deletes |-> {}]
  /\ srv = [known |-> Peers, held |-> [p \in Peers |-> {}]]
  /\ past = [sends |-> 0, pushes |-> 0, faults |-> 0, chosen |-> NoOne, lost |-> FALSE]
Fault == past.faults < MaxFaults
Spent == [past EXCEPT !.faults = @ + 1]

\* The sheet is open on a peer that is still listed; its dialogs are drawn only then.
Peer(u) == IF u.key \in u.listed THEN u.key ELSE NoOne
Dialog(u) == IF Peer(u) = NoOne THEN "none" ELSE u.dialog
-----------------------------------------------------------------------------
\* The effects of a render.  A body that shows another peer starts afresh, and asks the companions for it.
Remounted(u) ==
  IF Peer(u) = Peer(ui) THEN u
  ELSE [u EXCEPT !.hits = {}, !.confirm = FALSE, !.deleting = FALSE, !.qr = NoOne,
                 !.add = [companion |-> NoOne, submitting |-> FALSE], !.share = [companion |-> NoOne, channel |-> NoOne]]
Orphaned(S) == {[s EXCEPT !.gone = TRUE] : s \in S}
Asked(u, n) ==
  IF Peer(u) = Peer(ui) THEN n
  ELSE [n EXCEPT !.member = Peer(u) # NoOne, !.adds = Orphaned(@), !.deletes = Orphaned(@)]

\* AddPeerContactDialog is reset when it opens; ShareInMessageDialog whenever the companions are pushed too.
AddReset(u) ==
  IF Dialog(u) = "add" /\ Dialog(ui) # "add" THEN [u EXCEPT !.add = [companion |-> u.first, submitting |-> FALSE]] ELSE u
ShareReset(u, pushed) ==
  IF Dialog(u) = "share" /\ (pushed \/ Dialog(ui) # "share") THEN [u EXCEPT !.share.companion = u.first]
  ELSE IF Dialog(u) # "share" THEN [u EXCEPT !.share.channel = NoOne] ELSE u

\* Its conversations are read when it opens and when its companion changes.
TalksAsked(u, n) ==
  Dialog(u) = "share" /\ (n.talks \/ Dialog(ui) # "share" \/ u.share.companion # ui.share.companion)
QrAsked(u, n) == Dialog(u) = "qr" /\ (n.qr \/ Dialog(ui) # "qr")

Render(u, n, pushed) ==
  LET v == ShareReset(AddReset(Remounted(u)), pushed)
  IN ui' = v /\ net' = [Asked(v, n) EXCEPT !.talks = TalksAsked(v, n), !.qr = QrAsked(v, n)]
-----------------------------------------------------------------------------
SelectPeer(p) ==
  /\ ui.key = NoOne /\ p \in ui.listed /\ Render([ui EXCEPT !.key = p], net, FALSE)
  /\ past' = [past EXCEPT !.lost = FALSE, !.chosen = ui.first] /\ srv' = srv
CloseSheet ==
  /\ ui.key # NoOne /\ Dialog(ui) = "none" /\ Render([ui EXCEPT !.key = NoOne], net, FALSE) /\ UNCHANGED <<srv, past>>

\* The live lists.
PeersPushed ==
  /\ ui.listed # srv.known /\ Render([ui EXCEPT !.listed = srv.known], net, FALSE)
  /\ past' = [past EXCEPT !.chosen = IF ui.key \in ui.listed THEN @ ELSE ui.first] /\ srv' = srv
PeerHeard(p) ==
  /\ p \notin srv.known /\ past.pushes < MaxPushes /\ past' = [past EXCEPT !.pushes = @ + 1]
  /\ srv' = [srv EXCEPT !.known = @ \cup {p}] /\ UNCHANGED <<ui, net>>
CompanionsPushed(c) ==
  /\ past.pushes < MaxPushes /\ past' = [past EXCEPT !.pushes = @ + 1] /\ srv' = srv
  /\ Render([ui EXCEPT !.first = c], net, TRUE)

\* usePeerMembership: one request to each companion; one that fails counts as "not a contact".
MemberLands ==
  /\ net.member /\ net' = [net EXCEPT !.member = FALSE] /\ srv' = srv
  /\ \/ ui' = [ui EXCEPT !.hits = srv.held[Peer(ui)]] /\ past' = past
     \/ /\ Fault /\ past' = [Spent EXCEPT !.lost = TRUE]
        /\ \E c \in Companions : ui' = [ui EXCEPT !.hits = srv.held[Peer(ui)] \ {c}]

\* handleDelete: a body that is gone when the answer comes is left alone, but onClose closes the sheet.
DeletePeer ==
  /\ Peer(ui) # NoOne /\ ui.dialog = "none" /\ ~ui.deleting /\ srv' = srv
  /\ \/ ui' = [ui EXCEPT !.confirm = ~@] /\ UNCHANGED <<net, past>>
     \/ /\ ui.confirm /\ past.sends < MaxSends
        /\ ui' = [ui EXCEPT !.deleting = TRUE] /\ past' = [past EXCEPT !.sends = @ + 1]
        /\ net' = [net EXCEPT !.deletes = @ \cup {[peer |-> ui.key, served |-> "no", gone |-> FALSE]}]
ServeDelete(d) ==
  /\ d.served = "no" /\ ui' = ui
  /\ \/ /\ net' = [net EXCEPT !.deletes = (@ \ {d}) \cup {[d EXCEPT !.served = "ok"]}] /\ past' = past
        /\ srv' = [srv EXCEPT !.known = @ \ {d.peer}]
     \/ /\ Fault /\ past' = Spent /\ srv' = srv
        /\ net' = [net EXCEPT !.deletes = (@ \ {d}) \cup {[d EXCEPT !.served = "failed"]}]
DeleteLands(d) ==
  LET n == [net EXCEPT !.deletes = @ \ {d}]
  IN /\ d.served # "no" /\ UNCHANGED <<srv, past>>
     /\ IF d.served = "ok" THEN Render([ui EXCEPT !.key = NoOne], n, FALSE)
        ELSE /\ ui' = IF d.gone THEN ui ELSE [ui EXCEPT !.deleting = FALSE, !.confirm = FALSE]
             /\ net' = n

OpenDialog(d) ==
  /\ Peer(ui) # NoOne /\ ui.dialog = "none" /\ Render([ui EXCEPT !.dialog = d], net, FALSE)
  /\ past' = [past EXCEPT !.chosen = ui.first] /\ srv' = srv
CloseDialog ==
  /\ Dialog(ui) # "none" /\ Render([ui EXCEPT !.dialog = "none"], net, FALSE) /\ UNCHANGED <<srv, past>>

\* AddPeerContactDialog; onAdded bumps the version, and the membership of the peer shown is read again.
ChooseCompanion(c) ==
  /\ Dialog(ui) = "add" /\ ui' = [ui EXCEPT !.add.companion = c]
  /\ past' = [past EXCEPT !.chosen = c] /\ UNCHANGED <<net, srv>>
SubmitAdd ==
  /\ Dialog(ui) = "add" /\ ui.add.companion # NoOne /\ ~ui.add.submitting /\ past.sends < MaxSends
  /\ ui' = [ui EXCEPT !.add.submitting = TRUE] /\ past' = [past EXCEPT !.sends = @ + 1] /\ srv' = srv
  /\ net' = [net EXCEPT !.adds =
       @ \cup {[peer |-> ui.key, companion |-> ui.add.companion, served |-> "no", gone |-> FALSE]}]
ServeAdd(s) ==
  /\ s.served = "no" /\ ui' = ui
  /\ \/ /\ srv' = [srv EXCEPT !.held[s.peer] = @ \cup {s.companion}] /\ past' = past
        /\ net' = [net EXCEPT !.adds = (@ \ {s}) \cup {[s EXCEPT !.served = "ok"]}]
     \/ /\ Fault /\ past' = Spent /\ srv' = srv
        /\ net' = [net EXCEPT !.adds = (@ \ {s}) \cup {[s EXCEPT !.served = "failed"]}]
Rechecked(n) == [n EXCEPT !.member = Peer(ui) # NoOne]
AddLands(s) ==
  LET u == IF s.gone THEN ui ELSE [ui EXCEPT !.add.submitting = FALSE]
      n == [net EXCEPT !.adds = @ \ {s}]
  IN /\ s.served # "no" /\ UNCHANGED <<srv, past>>
     /\ IF s.served = "ok"
        THEN /\ Render([u EXCEPT !.hits = {}, !.dialog = IF @ = "add" THEN "none" ELSE @], Rechecked(n), FALSE)
        ELSE ui' = u /\ net' = n

\* QrDialog: the code it drew before stays up until the new one is drawn.
QrDrawn ==
  /\ net.qr /\ ui' = [ui EXCEPT !.qr = Peer(ui)] /\ net' = [net EXCEPT !.qr = FALSE] /\ UNCHANGED <<srv, past>>

\* ShareInMessageDialog: a read that fails empties the list and leaves the channel.
ChooseShare(c) ==
  /\ Dialog(ui) = "share" /\ Render([ui EXCEPT !.share.companion = c], net, FALSE) /\ UNCHANGED <<srv, past>>
TalksLand ==
  /\ net.talks /\ net' = [net EXCEPT !.talks = FALSE] /\ srv' = srv
  /\ \/ ui' = [ui EXCEPT !.share.channel = ui.share.companion] /\ past' = past
     \/ Fault /\ past' = [Spent EXCEPT !.lost = TRUE] /\ ui' = ui
MayOpenComposer == Dialog(ui) = "share" /\ ui.share.companion # NoOne /\ ui.share.channel # NoOne
Go == MayOpenComposer /\ Render([ui EXCEPT !.dialog = "none"], net, FALSE) /\ UNCHANGED <<srv, past>>

Next ==
  \/ \E p \in Peers : SelectPeer(p) \/ PeerHeard(p)
  \/ CloseSheet \/ PeersPushed \/ MemberLands \/ DeletePeer \/ CloseDialog \/ SubmitAdd \/ QrDrawn \/ TalksLand \/ Go
  \/ \E d \in net.deletes : ServeDelete(d) \/ DeleteLands(d)
  \/ \E d \in {"add", "qr", "share"} : OpenDialog(d)
  \/ \E c \in Companions : CompanionsPushed(c) \/ ChooseCompanion(c) \/ ChooseShare(c)
  \/ \E s \in net.adds : ServeAdd(s) \/ AddLands(s)
Spec == Init /\ [][Next]_vars
-----------------------------------------------------------------------------
\* At rest the sheet lists the companions that hold its peer, whatever was added meanwhile and for whom.
MembershipAgrees ==
  Peer(ui) # NoOne /\ ~net.member /\ net.adds = {} /\ ~past.lost => ui.hits = srv.held[Peer(ui)]

\* A pushed companion list takes nothing the reader chose: the contact goes where the dialog says.
ChoiceKept == Dialog(ui) = "add" => ui.add.companion = past.chosen

\* Once it has loaded, the dialog offers a channel of the companion it names, and the QR code drawn is of
\* the peer on the sheet.
OffersOwn ==
  /\ MayOpenComposer /\ ~net.talks /\ ~past.lost => ui.share.channel = ui.share.companion
  /\ Dialog(ui) = "qr" => ui.qr \in {NoOne, Peer(ui)} /\ (~net.qr => ui.qr # NoOne)
=============================================================================

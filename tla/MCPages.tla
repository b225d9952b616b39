------------------------------- MODULE MCPages -------------------------------
(***************************************************************************)
(* The pages of the console that put together what others sent or a test   *)
(* brought: the threads of a chat, traces, signal tests, bots and their    *)
(* trial, the published map, a remote node's terminal, peers, packets and  *)
(* the connection map; and the radio's form.  Each is an instance of its   *)
(* module; a behaviour takes one page and stays with it.  The other pages  *)
(* on which the reader writes and saves are in MCForms.                    *)
(***************************************************************************)
EXTENDS Integers, Sequences, TLC

CONSTANTS Parts,     \* the pages to check
          Alike,     \* what a page treats alike: threads, companions, peers, tests
          Few, More, \* bounds: what happens once, or seldom, and what happens again
          none       \* no peer, no packet
ASSUME BoundsAssumption == Few \in Nat /\ More \in Nat \ {0}

VARIABLES part, ui, net, srv, past,
          row, next, up, stream, trouble, active, view, cache, atStart, loading, strayed, behind, tainted
thread == <<row, next, up, stream, trouble, active, view, cache, atStart, loading, strayed, behind, tainted>>
vars == <<part, ui, net, srv, past, thread>>

Thread == INSTANCE ChatThread WITH Channels <- Alike, Start <- "open", MaxId <- More, Page <- Few, BackfillPage <- Few, MaxLoads <- Few, MaxStream <- Few, MaxTrouble <- Few
Gap == INSTANCE ChatThread WITH Channels <- {"c"}, Start <- "first", MaxId <- 3, Page <- Few, BackfillPage <- Few, MaxLoads <- Few, MaxStream <- Few, MaxTrouble <- Few
Overlap == INSTANCE ChatThread WITH Channels <- Alike, Start <- "open", MaxId <- More, Page <- Few, BackfillPage <- Few, MaxLoads <- More, MaxStream <- Few, MaxTrouble <- 0
Badges == INSTANCE ChatRoster WITH Channels <- Alike, Configured <- {}, Start <- "first", MaxId <- More, MaxLoads <- Few, MaxTrouble <- Few
Reloads == INSTANCE ChatRoster WITH Channels <- Alike, Configured <- {}, Start <- "open", MaxId <- More, MaxLoads <- More, MaxTrouble <- 0
Dialogs == INSTANCE ChatDialogs WITH Threads <- Alike, Lists <- {"participants"}, MaxLoads <- More, MaxFaults <- Few
Traces == INSTANCE TraceSend WITH MaxHops <- More, MaxTraces <- More, MaxFaults <- Few
Signal == INSTANCE SignalTests WITH Companions <- Alike, MaxTests <- Few, MaxRuns <- Few, MaxSwitches <- Few, MaxFaults <- Few
Saved == INSTANCE SavedTests WITH Tests <- Alike, MaxReloads <- Few, MaxOpens <- Few, MaxFaults <- Few
Bots == INSTANCE BotForm WITH Companions <- Alike, Channels <- {"x"}, MaxSaves <- Few, MaxFaults <- Few
Preview == INSTANCE BotTest WITH Urls <- {"u", "v"}, Items <- {"x", "y"}, MaxEdits <- Few, MaxAnswers <- More, MaxFaults <- Few
Published == INSTANCE PublishedMap WITH MaxChannel <- 3, Budget <- More, MaxEdits <- 3, MaxReloads <- Few, MaxFaults <- Few
Terminal == INSTANCE RemoteConsole WITH MaxText <- 3, MaxHistory <- 6, MaxFaults <- Few
Sheet == INSTANCE PeerSheet WITH Peers <- Alike, Companions <- {"c", "d"}, NoOne <- none, MaxSends <- Few, MaxPushes <- Few, MaxFaults <- Few
Log == INSTANCE PacketsList WITH Packets <- {"p"}, NoPacket <- none, Words <- {}, Handlers <- {"rx", "tx"}, Limit <- Few, Buffer <- 3,
                                  FilterLimit <- Few, MaxObs <- 3, MaxReads <- Few, MaxFaults <- Few
Filter == INSTANCE PacketsList WITH Packets <- Alike, NoPacket <- none, Words <- Alike, Handlers <- {"rx"}, Limit <- Few, Buffer <- More,
                                     FilterLimit <- Few, MaxObs <- More, MaxReads <- More, MaxFaults <- Few
Web == INSTANCE ConnectionView WITH Candidates <- {"p", "q"}, NoNode <- "none", MaxPackets <- Few, MaxChanges <- More, MaxFaults <- Few
Folds == INSTANCE ConnectionView WITH Candidates <- {"p"}, NoNode <- "none", MaxPackets <- More, MaxChanges <- Few, MaxFaults <- 0
Radio == INSTANCE RadioForm WITH MaxEdits <- More, MaxSaves <- Few, MaxFaults <- Few

InThread == part \in {"thread", "gap", "overlap"}
Init ==
  /\ part \in Parts
  /\ \/ /\ InThread /\ ui = 0 /\ srv = 0 /\ past = 0
        /\ \/ part = "thread" /\ Thread!Init
           \/ part = "gap" /\ Gap!Init
           \/ part = "overlap" /\ Overlap!Init
     \/ /\ ~InThread
        /\ row = 0 /\ next = 0 /\ up = 0 /\ stream = 0 /\ trouble = 0 /\ active = 0 /\ view = 0 /\ cache = 0
        /\ atStart = 0 /\ loading = 0 /\ strayed = 0 /\ behind = 0 /\ tainted = 0
        /\ \/ part = "badges" /\ Badges!Init
           \/ part = "reloads" /\ Reloads!Init
           \/ part = "dialogs" /\ Dialogs!Init /\ srv = 0
           \/ part = "traces" /\ Traces!Init
           \/ part = "signal" /\ Signal!Init
           \/ part = "saved" /\ Saved!Init
           \/ part = "bots" /\ Bots!Init
           \/ part = "preview" /\ Preview!Init /\ srv = 0
           \/ part = "published" /\ Published!Init
           \/ part = "terminal" /\ Terminal!Init
           \/ part = "sheet" /\ Sheet!Init
           \/ part = "packets" /\ Log!Init
           \/ part = "filter" /\ Filter!Init
           \/ part = "web" /\ Web!Init
           \/ part = "folds" /\ Folds!Init
           \/ part = "radio" /\ Radio!Init
Next ==
  /\ part' = part
  /\ \/ part = "thread" /\ Thread!Next /\ UNCHANGED <<ui, srv, past>>
     \/ part = "gap" /\ Gap!Next /\ UNCHANGED <<ui, srv, past>>
     \/ part = "overlap" /\ Overlap!Next /\ UNCHANGED <<ui, srv, past>>
     \/ part = "badges" /\ Badges!Next /\ UNCHANGED thread
     \/ part = "reloads" /\ Reloads!Next /\ UNCHANGED thread
     \/ part = "dialogs" /\ Dialogs!Next /\ UNCHANGED <<srv, thread>>
     \/ part = "traces" /\ Traces!Next /\ UNCHANGED thread
     \/ part = "signal" /\ Signal!Next /\ UNCHANGED thread
     \/ part = "saved" /\ Saved!Next /\ UNCHANGED thread
     \/ part = "bots" /\ Bots!Next /\ UNCHANGED thread
     \/ part = "preview" /\ Preview!Next /\ UNCHANGED <<srv, thread>>
     \/ part = "published" /\ Published!Next /\ UNCHANGED thread
     \/ part = "terminal" /\ Terminal!Next /\ UNCHANGED thread
     \/ part = "sheet" /\ Sheet!Next /\ UNCHANGED thread
     \/ part = "packets" /\ Log!Next /\ UNCHANGED thread
     \/ part = "filter" /\ Filter!Next /\ UNCHANGED thread
     \/ part = "web" /\ Web!Next /\ UNCHANGED thread
     \/ part = "folds" /\ Folds!Next /\ UNCHANGED thread
     \/ part = "radio" /\ Radio!Next /\ UNCHANGED thread
Spec == Init /\ [][Next]_vars
Symmetry == Permutations(Alike)
-----------------------------------------------------------------------------
\* Each page's variables have their types.
TypeOK ==
  /\ part = "thread" => Thread!TypeOK
  /\ part = "gap" => Gap!TypeOK
  /\ part = "overlap" => Overlap!TypeOK
  /\ part = "badges" => Badges!TypeOK
  /\ part = "reloads" => Reloads!TypeOK
  /\ part = "dialogs" => Dialogs!TypeOK
  /\ part = "traces" => Traces!TypeOK
  /\ part = "signal" => Signal!TypeOK
  /\ part = "saved" => Saved!TypeOK
  /\ part = "bots" => Bots!TypeOK
  /\ part = "preview" => Preview!TypeOK
  /\ part = "published" => Published!TypeOK
  /\ part = "terminal" => Terminal!TypeOK
  /\ part = "sheet" => Sheet!TypeOK
  /\ part = "packets" => Log!TypeOK
  /\ part = "filter" => Filter!TypeOK
  /\ part = "web" => Web!TypeOK
  /\ part = "folds" => Folds!TypeOK
  /\ part = "radio" => Radio!TypeOK

\* What is on screen of a thread is that thread's and, with nothing on its way, all of it that the server holds;
\* the unread counts shown at rest are the server's, the thread watched is read, and a list said to load does so.
ChatAgrees ==
  /\ part = "thread" => Thread!OwnThread /\ Thread!CaughtUp
  /\ part = "gap" => Gap!OwnThread /\ Gap!CaughtUp
  /\ part = "overlap" => Overlap!OwnThread /\ Overlap!CaughtUp
  /\ part = "badges" => Badges!BadgesAgree /\ Badges!WatchedIsRead /\ Badges!SkeletonEnds
  /\ part = "reloads" => Reloads!BadgesAgree /\ Reloads!WatchedIsRead /\ Reloads!SkeletonEnds

\* A page shows, and saves, what is of the thread, contact, companion, node, peer or form it is about, however
\* the answers to earlier requests arrive.
ShowsOwn ==
  /\ part = "dialogs" => Dialogs!ShowsOwn
  /\ part = "traces" => Traces!OwnEchoes /\ Traces!WaitsEnd
  /\ part = "signal" => Signal!OwnTest
  /\ part = "preview" => Preview!ShowsLatest
  /\ part = "sheet" => Sheet!OffersOwn /\ Sheet!ChoiceKept
  /\ part = "web" => Web!FollowsMatch

\* With nothing under way a page shows what the server, or the remote node, holds; what it stores there is sound,
\* and what it says of a save is so.
StoredAgrees ==
  /\ part = "signal" => Signal!FollowsTest
  /\ part = "saved" => Saved!ListAgrees /\ Saved!ComparesAll
  /\ part = "bots" => Bots!BotFits /\ Bots!SavedUntouched
  /\ part = "published" => Published!StoredIsSendable /\ Published!UnsavedMeansEdited /\ Published!ServesAgrees
  /\ part = "terminal" => Terminal!NameAgrees
  /\ part = "sheet" => Sheet!MembershipAgrees
  /\ part = "packets" => Log!StreamAgrees
  /\ part = "filter" => Filter!StreamAgrees
  /\ part = "web" => Web!WindowAgrees
  /\ part = "radio" => /\ Radio!FormAgrees /\ Radio!TellsWhatWasSaved
                       /\ Radio!BackendFits /\ Radio!BaudFits /\ Radio!HatOnItsPort

=============================================================================

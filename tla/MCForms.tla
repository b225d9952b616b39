------------------------------- MODULE MCForms -------------------------------
(***************************************************************************)
(* The pages of the console on which the reader writes, ticks and saves:   *)
(* the composer of a chat, the editors of routes, grants, companions, the  *)
(* app's port, regions, monitoring, the node, brokers, sensors and the     *)
(* setup, the lists of peers, and a remote node's login and lists.  Each   *)
(* is an instance of its module; a behaviour takes one page and stays with *)
(* it.  The pages that are only looked at are in MCPages.                  *)
(***************************************************************************)
EXTENDS Integers, Sequences, FiniteSets, TLC

CONSTANTS Parts,      \* the pages to check
          Alike,      \* what a page treats alike: threads, contacts, nodes, peers
          Others,     \* threads of the composer that are neither rooms nor sensors
          TooLong,    \* texts of the composer that do not fit
          GivenNames, \* names of regions, brokers and companions
          Few, More,  \* bounds: what happens once, or seldom, and what happens again
          none        \* no broker; of the peers, one off the path
ASSUME BoundsAssumption == Few \in Nat /\ More \in Nat \ {0}
ASSUME FiniteAssumption == IsFiniteSet(Alike)

VARIABLES part, ui, net, srv, past,
          map   \* of the map page alone
vars == <<part, ui, net, srv, past, map>>

Composer == INSTANCE ChatComposer WITH Rooms <- Alike, Sensors <- {"sensor"}, Others <- Others, MaxTexts <- More, TooLong <- TooLong,
                                       MaxJoins <- Few, MaxFaults <- Few
Path == INSTANCE PathEditor WITH Contacts <- Alike, MaxRoute <- Few, MaxLoads <- More, MaxFaults <- Few, MaxOpens <- More
Grants == INSTANCE TelemetryGrants WITH Classes <- {"r1", "r2"}, Contacts <- Alike, MaxQueue <- More, MaxFaults <- Few
Word(w) == [id |-> 0, word |-> w]
Digits == [id |-> 2, word |-> ""]
Roster(names, moves, faults) == INSTANCE CompanionRoster WITH MaxId <- More, Names <- names, Bookmarks <- {Word("x"), [id |-> 1, word |-> "x"]},
                                       MaxMoves <- moves, MaxWrites <- Few, MaxFaults <- faults
Access(saves, else, polls) == INSTANCE AppAccess WITH Ports <- 1..More, Sizes <- 1..More, MaxSaves <- saves, MaxElse <- else,
                                       MaxPolls <- polls, MaxFaults <- Few
Session == INSTANCE RemoteSession WITH Nodes <- Alike, Roles <- {"admin"}, MaxReads <- Few, MaxMoves <- Few, MaxFaults <- Few
Tabs == INSTANCE RemoteTabs WITH Keys <- Alike, Perms <- {"admin"}, MaxPages <- 3, MaxReads <- More, MaxChanges <- Few, MaxFaults <- Few
Settings(faults, leaves) == INSTANCE RemoteSettings WITH N <- More, Values <- {"on", "off"}, Off <- "off", MaxFaults <- faults, MaxLeaves <- leaves
Carries(names, leaves) == INSTANCE RemoteRegions WITH Regions <- names, MaxFaults <- Few, MaxLeaves <- leaves
Watch == INSTANCE MonitoringForm WITH Readings <- Alike, MaxTicked <- Few, MaxFaults <- Few
Live == INSTANCE NodeLive WITH Neighbors <- {"n"}, Clients <- {"c"}, MaxPolls <- More, MaxChanges <- Few, MaxFaults <- Few
Node == INSTANCE NodeSettings WITH Sections <- {"node", "admin"}, Regions <- GivenNames, MaxSaves <- More, MaxEdits <- Few, MaxFaults <- More
Heard == INSTANCE PeersList WITH Peers <- Alike, MaxHeard <- More, MaxReads <- More, MaxBulk <- Few, MaxFaults <- Few
Mqtt == INSTANCE MqttFeed WITH Brokers <- GivenNames, NoBroker <- none, MaxSaves <- More, MaxEdits <- Few, MaxPolls <- Few, MaxFaults <- Few
View == INSTANCE MapView WITH Peers <- Alike \cup {none}, OnPath <- Alike, MaxHeard <- Few, MaxMoves <- More, MaxReads <- More, MaxClears <- Few, MaxFaults <- Few
Sensor == INSTANCE SensorForm WITH Sensors <- 1..Few, MaxSpan <- More, MaxOpens <- More, MaxEdits <- Few, MaxElse <- Few, MaxFaults <- Few
Wizard == INSTANCE Setup WITH Names <- GivenNames, MaxEdits <- Few, MaxOpens <- More, MaxElse <- Few, MaxFaults <- Few

Init ==
  /\ part \in Parts
  /\ part # "view" => map = none
  /\ \/ part = "composer" /\ Composer!Init
     \/ part = "path" /\ Path!Init
     \/ part = "grants" /\ Grants!Init
     \/ part = "companions" /\ Roster({Word("x")}, More, Few)!Init
     \/ part = "links" /\ Roster({Word("x"), Digits}, Few, 0)!Init
     \/ part = "access" /\ Access(Few, Few, Few)!Init
     \/ part = "again" /\ Access(More, 0, 0)!Init
     \/ part = "session" /\ Session!Init
     \/ part = "tabs" /\ Tabs!Init
     \/ part = "settings" /\ Settings(Few, 0)!Init
     \/ part = "left" /\ Settings(0, Few)!Init
     \/ part = "regions" /\ Carries({"h"} \cup GivenNames, 0)!Init
     \/ part = "outlive" /\ Carries(GivenNames, Few)!Init
     \/ part = "watch" /\ Watch!Init
     \/ part = "live" /\ Live!Init
     \/ part = "node" /\ Node!Init
     \/ part = "peers" /\ Heard!Init
     \/ part = "mqtt" /\ Mqtt!Init
     \/ part = "view" /\ View!Init
     \/ part = "sensor" /\ Sensor!Init
     \/ part = "wizard" /\ Wizard!Init
Next ==
  /\ part' = part
  /\ part # "view" => map' = map
  /\ \/ part = "composer" /\ Composer!Next
     \/ part = "path" /\ Path!Next
     \/ part = "grants" /\ Grants!Next
     \/ part = "companions" /\ Roster({Word("x")}, More, Few)!Next
     \/ part = "links" /\ Roster({Word("x"), Digits}, Few, 0)!Next
     \/ part = "access" /\ Access(Few, Few, Few)!Next
     \/ part = "again" /\ Access(More, 0, 0)!Next
     \/ part = "session" /\ Session!Next
     \/ part = "tabs" /\ Tabs!Next
     \/ part = "settings" /\ Settings(Few, 0)!Next
     \/ part = "left" /\ Settings(0, Few)!Next
     \/ part = "regions" /\ Carries({"h"} \cup GivenNames, 0)!Next
     \/ part = "outlive" /\ Carries(GivenNames, Few)!Next
     \/ part = "watch" /\ Watch!Next
     \/ part = "live" /\ Live!Next
     \/ part = "node" /\ Node!Next
     \/ part = "peers" /\ Heard!Next
     \/ part = "mqtt" /\ Mqtt!Next
     \/ part = "view" /\ View!Next
     \/ part = "sensor" /\ Sensor!Next
     \/ part = "wizard" /\ Wizard!Next
Spec == Init /\ [][Next]_vars
Symmetry == Permutations(Alike)
-----------------------------------------------------------------------------
\* Each page's variables have their types.
TypeOK ==
  /\ part = "composer" => Composer!TypeOK
  /\ part = "path" => Path!TypeOK
  /\ part = "grants" => Grants!TypeOK
  /\ part = "companions" => Roster({Word("x")}, More, Few)!TypeOK
  /\ part = "links" => Roster({Word("x"), Digits}, Few, 0)!TypeOK
  /\ part = "access" => Access(Few, Few, Few)!TypeOK
  /\ part = "again" => Access(More, 0, 0)!TypeOK
  /\ part = "session" => Session!TypeOK
  /\ part = "tabs" => Tabs!TypeOK
  /\ part = "settings" => Settings(Few, 0)!TypeOK
  /\ part = "left" => Settings(0, Few)!TypeOK
  /\ part = "regions" => Carries({"h"} \cup GivenNames, 0)!TypeOK
  /\ part = "outlive" => Carries(GivenNames, Few)!TypeOK
  /\ part = "watch" => Watch!TypeOK
  /\ part = "live" => Live!TypeOK
  /\ part = "node" => Node!TypeOK
  /\ part = "peers" => Heard!TypeOK
  /\ part = "mqtt" => Mqtt!TypeOK
  /\ part = "view" => View!TypeOK
  /\ part = "sensor" => Sensor!TypeOK
  /\ part = "wizard" => Wizard!TypeOK

\* A text written is in the composer or posted, never to a room without a session, and posted once.
WrittenIsKept ==
  part = "composer" => Composer!RoomNeedsSession /\ Composer!WrittenIsKept /\ Composer!PostedOnce

\* A page shows, and saves, what is of the contact, companion, node or form it is about, however the answers to
\* earlier requests arrive.
ShowsOwn ==
  /\ part = "path" => Path!SavesOwnRoute
  /\ part = "companions" => Roster({Word("x")}, More, Few)!OwnPage
  /\ part = "links" => Roster({Word("x"), Digits}, Few, 0)!OwnPage
  /\ part = "access" => Access(Few, Few, Few)!OffersFree
  /\ part = "again" => Access(More, 0, 0)!OffersFree
  /\ part = "session" => Session!OwnSession
  /\ part = "sensor" => Sensor!TestIsOwn

\* With nothing under way a page shows what the remote node, or the daemon, holds.
AgreesAtRest ==
  /\ part = "grants" => Grants!GrantsAgree
  /\ part = "companions" => Roster({Word("x")}, More, Few)!ShellAgrees /\ Roster({Word("x")}, More, 0)!NamesAgree
  /\ part = "links" => Roster({Word("x"), Digits}, Few, 0)!ShellAgrees /\ Roster({Word("x"), Digits}, Few, Few)!NamesAgree
  /\ part = "access" => Access(Few, Few, Few)!PageAgrees
  /\ part = "again" => Access(More, 0, 0)!PageAgrees
  /\ part = "tabs" => Tabs!AccessAgrees /\ Tabs!PagesInOrder
  /\ part = "regions" => Carries({"h"} \cup GivenNames, 0)!MapAgrees
  /\ part = "outlive" => Carries(GivenNames, Few)!MapAgrees
  /\ part = "node" => Node!RegionsAgree
  /\ part = "peers" => Heard!ListAgrees
  /\ part = "mqtt" => Mqtt!PageAgrees
  /\ part = "view" => View!DrawnAgrees

\* What a page stores is something the daemon, or the sensor, can work with.
StoredIsSound ==
  /\ part = "watch" => Watch!WatchFits
  /\ part = "mqtt" => Mqtt!NodeBeforeBroker
  /\ part = "wizard" => Wizard!CompleteHasCompanion
  /\ part = "sensor" => Sensor!RefusedOnlyStale

\* What a page says of a save, saved, unsaved or not saved, is so.
SaysWhatIsSo ==
  /\ part = "settings" => Settings(Few, 0)!SavedMeansHeld
  /\ part = "left" => Settings(0, Few)!SavedMeansHeld
  /\ part = "regions" => Carries({"h"} \cup GivenNames, 0)!UnsavedSeen
  /\ part = "outlive" => Carries(GivenNames, Few)!UnsavedSeen

\* A page that says it is busy, or shows nothing, waits for an answer that is on its way.
NothingHangs ==
  /\ part = "access" => Access(Few, Few, Few)!BusyMeansUnderWay
  /\ part = "again" => Access(More, 0, 0)!BusyMeansUnderWay
  /\ part = "session" => Session!LostLoginNoticed
  /\ part = "tabs" => Tabs!NeverBlank
  /\ part = "live" => Live!StoppedShowsNothing /\ Live!BusyMeansUnderWay
  /\ part = "peers" => Heard!DeletingShown
  /\ part = "wizard" => Wizard!NoFlash /\ Wizard!BusyMeansUnderWay

\* A save changes what the reader changed, and nothing that is stored beside it.
StoredKept ==
  [][ /\ part = "access" => Access(Few, Few, Few)!ChangesOnlyAsked
      /\ part = "again" => Access(More, 0, 0)!ChangesOnlyAsked
      /\ part = "watch" => Watch!GrantSurvives /\ Watch!SavesOnlyEdits
      /\ part = "regions" => Carries({"h"} \cup GivenNames, 0)!AddsOnlyNew
      /\ part = "outlive" => Carries(GivenNames, Few)!AddsOnlyNew
      /\ part = "node" => Node!PasswordAsked
      /\ part = "sensor" => Sensor!SecretKept
      /\ part = "wizard" => Wizard!ReplacesOnlyUnset ]_vars

\* What the reader is editing, has ticked or is looking at is changed by no answer and no push, and what the
\* reader left alone by no save.
EditsKept ==
  [][ /\ part = "path" => Path!EditsKept
      /\ part = "grants" => Grants!ClosesOnlyChosen
      /\ part = "companions" => Roster({Word("x")}, More, Few)!EditorKept
      /\ part = "links" => Roster({Word("x"), Digits}, Few, 0)!EditorKept
      /\ part = "watch" => Watch!EditsKept
      /\ part = "node" => Node!FieldsSurviveRegions
      /\ part = "peers" => Heard!TicksKept
      /\ part = "mqtt" => Mqtt!StatusForward
      /\ part = "view" => View!ViewKept
      /\ part = "sensor" => Sensor!EditsKept ]_vars
=============================================================================

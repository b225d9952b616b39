# OwlShack in TLA+

Specifications of OwlShack, the MeshCore node server of this repository and its
web console, kept beside the code: what the concurrent parts of the daemon do,
what a page of the console may show or save while answers, pushes and failures
overtake one another, and what can go wrong between two steps that a unit test
would hardly line up. TLC checks every module on small instances; TLAPS proves
the safety of every module of the daemon for every instance (the store writer,
the supervisor, both kinds of direct message, the routes, the node monitor, the
failover trigger and the repeater's list of clients), and, of the pages of the
console on which the reader writes and saves, all that their run asks but the
agreement of a page at rest.

## The system

### The daemon

One process. A main loop (`internal/app/app.go`) owns the radio and builds, on
top of it, the nodes of one *generation*: companions (chat identities), at most
one repeater, the MQTT observer and the listeners the MeshCore phone app
connects to. A reload, a reconnect or a retry replaces some or all of them. The
database, the web server, the node monitor, the sensors and the signal tester
outlive generations and reach the current one through pointers that the loop
moves.

| part | state | operations | what is hard | what must hold |
|---|---|---|---|---|
| store writer (`internal/store/store.go`) | queue, closing, writerDone | WriteAsync, WriteSync, Close, checkpoint | Close races both calls; checks and sends are two steps | every closure runs at most once, in order, on an open database; a saved row survives a power cut |
| supervisor (`internal/app/app.go`) | configuration, generation, retry timer, registry, backend | SIGHUP, reconnect, retry, shutdown | coalesced signals, stale requests, starts that fail half way | no save is lost, one radio open, a retry pending iff the radio is down |
| direct messages (`node/companion/send.go`) | attempts, dmsInFlight, chat row | sendDM, ACK, timeout, Stop | an ACK, the last timeout and Stop race | one outcome, told once, the row agrees with the chat |
| app direct messages (`node/companion/app.go`) | appDMs, generation, timer | SendAppDM, settleAppDM | the phone retries by itself; timers that have already fired | a delivered message stays delivered |
| routes (`recv.go`, `client/repeater`, hydration) | peer table, contact row | path return, failed send, operator, rebuild | two copies written in two steps | table and row agree; a rebuild loses no learned route |
| node monitor (`internal/monitor`) | nextDue, failures, inFlight, airtime lock | scheduler, PollNow, PollSoon | the lock is given up before the poll is accounted for | no asked-for poll forgotten, every node polled |
| channel trigger with failover (`internal/trigger/channel.go`) | pending replies, timers | request, another bot's answer, deadline, Stop | the timer and the answer race | one reply a request, none after an answer or Stop |
| repeater node (`node/repeater`) | list of admin clients, replay timestamps, rate limits | login, request, CLI, SetACL, forward | the list in memory and in the database; a message handled while an operator changes its sender | no command is run twice, a role given is a role kept |
| repeater client (`client/repeater`) | pending tags, logins, CLI prefixes, sessions | request, reply, timeout | a late reply meets a reused tag | a reply reaches the request it answers |
| app server (`internal/companionapp`) | one connection, queue | connect, replace, push, pop | a new connection replaces the old one in the middle of a pop | every message reaches the app |
| echo tracker, discovery, signal tests, MQTT observer, web socket hub, sensors | a map or queue each | | results of an earlier round arriving in a later one | |
| REST API, configuration, regions, telemetry values, drivers | none shared | | | |

They interact by direct calls into the companions and the store, by closures
queued to the one writer, by callbacks from the radio's dispatch goroutine
(`recv.go`), by timers, and by two channels of capacity one into the main loop
(`sighup`, `reconnectCh`).

### The console

A single page in React (`src/web/frontend/src`), open in any number of browsers.
It asks the daemon over REST and hears pushes over one web socket; each page
keeps copies of what the daemon holds and lets the reader change them. The event
loop runs one handler at a time, so nothing interleaves inside a handler; what
does is everything between a request and its answer: another answer, a push, a
keystroke, a change of thread or of companion, an unmount, a lost socket.
`useApiList` and `useApiObject` drop every answer but the latest asked for,
`useResume` reads again when the socket comes back; what a page asks for by
itself it has to guard by itself.

| part | state | operations | what is hard | what must hold |
|---|---|---|---|---|
| chat (`CompanionDetailPage.tsx`, `ChatHeaderMenu.tsx`) | messages per thread, cache, roster, badges, composer, room session | open, scroll, backfill, send, reply, join, delete, pushes | a delta lands after a push, a thread changes under a load or a join | what is shown is the thread's, all of it; what was written is posted or kept |
| path and telemetry dialogs (`PathDialog.tsx`, `TelemetryAccess.tsx`) | a copy of what is stored, an edit | load, edit, save, reset, toggle | the dialog outlives the contact it was opened for | saved only for its own contact; a grant shown is a grant stored |
| traces, signal tests (`TracesPage.tsx`) | a trace waited for, a test followed, tests ticked | send, echo, timeout, start, cancel, compare | echoes and answers of an earlier trace or companion | the echoes shown are the trace's own; no wait is for ever |
| bots (`BotsPage.tsx`, `BotTestPanel.tsx`) | a form over a stored trigger, a preview | change type, save, preview | fields that a type has no use for; previews that overtake | a stored bot fits its type; the latest preview is shown |
| published telemetry (`TelemetryMapEditor.tsx`) | rows and channels | load, refresh, edit, save | a refresh under an edit; limits of a reply | what is stored can be sent |
| remote nodes (`RepeaterDetailPage.tsx`, `RemoteRegionsTab.tsx`, `CliTerminal.tsx`) | session, tabs, settings, regions, transcript | login, read, save by console commands, page by page reads | a command refused or unanswered half way, a login lost | what is called saved is on the node; no page twice |
| monitoring, own repeater (`MonitoringSettings.tsx`, `SensorPushSettings.tsx`, `RepeaterNodePage.tsx`) | forms over shared metadata, live tables | load, save, poll, region changes | polls, pushes and other pages' writes | a save keeps what it did not change; the tables heal |
| peers, packets, maps (`PeersPage.tsx`, `PeerDetailSheet.tsx`, `PacketsPage.tsx`, `MapPage.tsx`, `useConnectionWeb.ts`) | lists fed by reads and pushes, selections, views | reads, pushes, bulk delete, filters, pan | a push overtakes a read; a selection of a row that goes | at rest the list is the daemon's; the view is the reader's |
| companions (`AppShell.tsx`, `CompanionsPage.tsx`, `useCompanions.ts`, `companionRef.ts`) | three rosters: the side bar's, the list's and a shared cache; links that name one | follow a link, edit, remove, rename; reads around them | the daemon restarts after a write and a name may read as another's id | a link leads to its own companion; the names are those stored |
| app access (`CompanionAppPage.tsx`) | a list, the port and size chosen, a save | turn on, move, turn off, set the size; poll the port | a save reads before it writes, lists overlap | a save changes only what it was asked to |
| MQTT, sensors, radio, setup (`MqttPage.tsx`, `SensorDialog.tsx`, `RadioPage.tsx`, `SetupWizard.tsx`) | forms | load, edit, save in one or several requests | one request of several fails, lists load in any order | what is stored is sound; secrets are kept |

PROJECT.json lists every component with its status, the hazards at their lines,
and the lines each definition translates.

## Modules

Every module keeps the source's names for state and steps. An action is one
stretch of code that no other actor can see the middle of: what runs under one
lock, inside one closure of the writer, or between two points where a goroutine
can be overtaken. Variables marked "history" in a module are not in the code:
they record what a property speaks of. A definition introduced as "the bug of"
is not part of any specification: it is a plausible mistake, kept beside the
definition it would replace, that some property of the module catches.

`MCPages` and `MCForms` instantiate the pages of the console; the `.cfg` files
give the constants. Proofs are in a module of their own, or, in DirectMessage,
AppDirectMessage, RouteTable and Poller, at the end of the module; SupervisorProofs
also has those of the store writer and of the failover trigger, whose
definitions carry `Writer` and `Trigger` in their names for that. Safety and liveness are checked in the same run, under the fairness
named below; the runs without a liveness property check `Spec` without any.

| run | module | asks |
|---|---|---|
| `store_writer` | StoreWriter | are writes run once, in order, durable, and do all callers return |
| `direct_message` | DirectMessage | does every message have one outcome, told to chat and row |
| `app_dm` | AppDirectMessage | the same for messages that the phone resends |
| `route_table` | RouteTable | do the two copies of a route agree |
| `poller` | Poller | is every node polled, and no asked-for poll forgotten |
| `failover` | FailoverReply | one reply or an answer, never both, never neither |
| `supervisor` | Supervisor | is no save forgotten, does the radio come back |
| `repeater_acl` | RepeaterACL | is no command run twice, no role lost |
| `pages` | MCPages | the pages that put together what others sent or a test brought, under every order of answers |
| `forms` | MCForms | the pages on which the reader writes and saves, likewise |
| `web_live` | NodeLive | does the page of the own repeater heal |
| `sensor_secret` | SensorForm | is a secret left blank kept (it is not: see Findings) |

### StoreWriter

`writerCh`, `closing`, `writer`, `current` are the fields and the goroutine of
`Store`; `pc` is where each call of WriteSync or WriteAsync stands, `closer`
where each Close stands. WriteAsync is two actions (`AsyncCheck`, `AsyncSend`)
because Close fits between them. WriteSync has all its ends: served, seen late,
stranded in the queue and run by the caller, never queued. `log` is the order
in which writes reach the database and `durable` how much of it a checkpoint is
known to have made safe. A checkpoint may fail, or stop where a reader holds an
older snapshot (`CheckpointOf`, `store.go:174-182`), and its caller is told of
success all the same: `owed` remembers the saves this happened to, until a later
checkpoint completes.

Run `store_writer`: two WriteSync calls, one WriteAsync, two Close calls, a queue
of two. `ExactlyOnce`, `Barrier` (a WriteSync returns after everything queued
before it), `SavedIsDurable` (what was saved is on disk, but for the saves in
`owed`: no save is lost that the log does not warn of or a reader hold back), and
`CallsReturn`: every WriteSync and every Close that began returns. These are
enough for every pair of actors to race and for the queue to be full (a second
WriteAsync multiplies the states by ten and adds none that the proofs, for any
number of calls, do not cover); deadlock is checked. The fairness is weak, of each
goroutine, which the Go scheduler gives.

WriteAsync may report true for a write that never runs, if Close and its drain
fit between its test and its send. `Barrier` leaves that send out, and the
module says so where it does.

### Supervisor and SupervisorProofs

The select loop as `stage` and `arm`; `radio` is the running generation with the
configuration each of its parts was built from; `sighup` and `reconnectCh` are
the channels, of capacity one; `opened` the modems that are open. `Load` to
`Reloaded` are a reload, `OpenRadio` and `StartNodes` are startRadio, and a
fault may hit each of them. Watchers of a modem (`modem.go`) run beside it.

Run `supervisor`: two saves of good or bad settings, two faults, one reset, and a
shutdown, at every step of the loop; delays are seconds up to 3 instead of 30, so
that the backoff still reaches its cap. `NoSaveForgotten` is the coalescing of
signals; `RetryIffDown` says that no left-over retry meets a radio that is up;
`RunsItsConfig` that the comparison of modem settings is made with what runs;
`RadioComesBack` that the loop never gives up on a radio that would
open. Strong fairness of the arms: Go's select picks among ready arms at random.

### MessageLife

What a companion promises of a message it sends: it is stored, it is sending, it
ends delivered or failed, and delivered is final; failed is final too unless the
sender resends by itself (`Resends`). Three refinements: DirectMessage implements
it without resends twice, by what the open chats are told (`shown`) and by what
the database says (`row`), and AppDirectMessage with resends by what it has
decided (`status`).

### DirectMessage

sendDM with its attempts over the route and then by flood (`Attempts`, with the
code's numbers 5, 3 and 3), `dmsInFlight` as `inFlight`, `shown` what the web
socket said, `row` what the database says, `writes` the queue between them.
`CollectAborts` and `Abort` are Stop's abortAll, which copies the functions under
its lock and runs them outside it. The table of expected ACKs belongs to
meshcore-go: an ACK may come as long as its attempt is waited for.

Run `direct_message`: two messages, a queue that can refuse a write (depth one),
a route to begin with or none, one route learned, Stop. `FirstOutcomeCounts` (the
two refinements), `RowAgreesWithChat`, `RouteDroppedOnlyWhenExhausted`, and
`EverySettled` under weak fairness: a goroutine that can go on does, timers fire
while the node runs, a Stop that began ends. Nothing obliges an ACK to arrive.

A message that gives up drops whatever route the table holds by then, a newer one
that was never tried included: `ResetRoute` does as the code does.

### AppDirectMessage

A message the phone app sends and retries by itself: one `appDM` with its
generation and timer, each call of SendAppDM in the code's steps, settleAppDM
in the two halves it has (what it decides under the lock, `Publish` after it).

Run `app_dm`: one message sent three times, with its ACKs, timers and a Stop in
every order; three sends let a timer, an ACK and a resend of different attempts
meet. `DeliveredIsFinal` (the refinement), `RowAgrees`, `EverySettled`.

### RouteTable

One contact's route twice: `table` in the node's peer table, `row` in the
database, `writes` on their way. Path returns (`rx`), sends that exhaust a route
(`dropper`), the operator, and a rebuild that hydrates a new table from the row
behind an empty WriteSync. The table belongs to one companion and the row to
them all. Stop ends the direct messages in flight, but a login waits on a timer
of its own (`login.go:159`) and a request keeps the companion it was given
(`held`): either may outlive its companion, and then changes the stopped one's
table and the row of the running one. A row may fail to be saved, which only the
operator's SetPeerPath holds its table back for.

Run `route_table`: three changes, a rebuild, two routes, a login and a direct
message. `AgreeUnlessRaced` (they agree once nothing is on its way, unless two
changes overlapped, a row was refused or not saved, or the last change saved was
made through a stopped companion: each of these really leaves them different),
`HydratesWhatWasQueued`. Three changes are one by each of path return, send and
operator, in every order around the rebuild.

### Poller

runCycle with its list, pause, lock, poll and late accounting, PollNow,
PollSoon, settings that change, and a signal test on the same lock.

Run `poller`: two nodes, one PollNow at a time, two retries; nothing is bounded
but these, since due times are kept as due, waiting and retrying. `PollSoonKept`,
and `EveryNodePolled` with weak fairness of the goroutines and of
time, and strong fairness of the scheduler's lock: a Go mutex hands itself to a
waiter that has starved for a millisecond.

### FailoverReply

armReply and expireReply: a request waits for another bot's answer, at most
`maxPendingReplies` at once, and a timer that has fired may wait for the lock.

Run `failover`: three requests on two channels with room for two, so that one can
find no room, and four messages heard. `OneReplyPerWait`, `NoLateReply` (none
after an answer, none after Stop), and `NeverSilent` under weak fairness of timers and
callbacks.

### RepeaterACL and RepeaterACLProofs

The list of admin clients: `acl` is the cache of each repeater built, `row` the
table, `writes` the way between them, `doing` what the two goroutines that change
it are in the middle of: the radio's dispatch, which handles one message at a
time, and a call of the REST API. A change of the cache and the queueing of its
write are two steps, WriteAsync may drop the write, and a reload reads the table
without waiting for the queue. `stage`, `gen` and `published` are the reload: the
API still calls the old repeater for a while. A kill loses the queue.

`heard` is what each client has sent under each timestamp: the radio loses,
repeats and reorders messages, and a repeat is the same message with the same
timestamp. A message that changes nothing (a repeat of a login, a command from a
client with no role) is not a step. The alert bits of a permission and the times
clients were last seen are left out.

Run `repeater_acl`: one client with two messages, heard any number of times in any
order, a second client that is only given roles, one SetACL of the API, a queue of
two, one reload or kill. Two messages are enough for a newer one to overtake an
older, and two clients for one to set the other's role. `RunsOnce` (a repeated
command is not run again) and `GrantHolds` (a role given is not taken back by a
message in progress). `stale` and `lost` name the clients these leave out: those
whose changes overlapped, those whose write was dropped, and those a restart read
before their write had run.

### The pages of the console

Each page is a module over the same four variables: `ui` is what the component
keeps (its useState and useRef values), `net` the requests and pushes on their
way, `srv` what the daemon or a remote node holds, `past` the history that the
properties need (ChatThread, the oldest of them, spells them out). A request is an
element of `net` with what its closure captured; answers land in any order, and
any request may fail, up to `MaxFaults` (`MaxTrouble`). A push is lost in three
ways, each of them a branch of the action that makes it: the socket is down
(`useResume` reads again when it is back), the hub's buffer for this client is full
(`websocket.go:84`; the socket stays up and nothing reads again), or the socket has
not opened yet (`up = "first"`: the first open reads nothing, `useWebSocket.ts:57`).
The first two spend a fault; the properties except what the last two lost, until
the page reads again. Where the page drops all
answers but the latest, only the latest is kept in `net`. An effect of React that
follows a change of state is part of the action that changes it, as React runs it
before the next event. The daemon's side of a page is external to it: what it
answers is read off the requests.

`past` also marks the interleavings that a property excepts: `overlap`, `crossed`,
`late`, `astray`, `doubt` are set by the action in which two answers, or an answer
and a push, really overtake one another. Each exception is a race that the code
does not guard against; what it leads to is listed under Known deviations where
the code or a comment claims otherwise.

`MCPages` and `MCForms` are the pages together, one a behaviour: `part` says which,
and never changes. The properties of the pages are joined under the question they
answer; those about steps (`EditsKept`, `StoredKept`) are stated unboxed in the
page's module and boxed there. The page modules take any bounds; the instances
are written over a few constants, so that what TLC checks with small values of them is
what the proofs are about for all: `Alike` is what a page treats alike (threads,
contacts, nodes, peers), `GivenNames` the names of regions, brokers and companions, `Others` and
`TooLong` the threads and the texts of the composer that are special, `none` no broker and no
peer, `Few` and `More` how often things happen. `BoundsAssumption` (both are natural numbers, `More` is not
zero) and `FiniteAssumption` (`Alike` is finite) are all that is assumed of them.

| part of `pages` | module | about |
|---|---|---|
| thread, gap, overlap | ChatThread | messages of a thread: first load, backfill, older pages, cache, pushes, deletion. `thread` has failures and a lost socket or push, `gap` a page whose socket has not opened yet and more missed than one backfill brings, `overlap` two loads at once |
| badges, reloads | ChatRoster | the list of threads, unread counts and read marks; `badges` from before the first open, `reloads` two rosters at once |
| dialogs | ChatDialogs | the dialogs of a thread or a message |
| traces | TraceSend | one trace, its echoes and its timer |
| signal | SignalTests | the test followed, its pushes lost or late |
| saved | SavedTests | past tests: label, delete, compare |
| bots, preview | BotForm, BotTest | a trigger's form; the preview of what it would post |
| published | PublishedMap | the channels and readings a node publishes |
| terminal | RemoteConsole | the terminal, its history and the quick actions |
| sheet | PeerSheet | one peer's sheet with its dialogs |
| packets, filter | PacketsList | the packet log: two handlers that queue a row and push it, the writer behind them, the live list and the filtered one; `packets` is one packet observed three times, `filter` two and the words looked for |
| web, folds | ConnectionView | the web of connections, with a route that comes by its nodes twice; `web` the choices of window, node and match, `folds` the sums of links and of a node's sheet |
| radio | RadioForm | modem connection and radio settings |

| part of `forms` | module | about |
|---|---|---|
| composer | ChatComposer | text, reply, send, and joining a room in three requests |
| path | PathEditor | a contact's route, edited |
| grants | TelemetryGrants | who may read telemetry: modes saved, contacts toggled one after another |
| companions, links | CompanionRoster | the companions in the side bar, the list and the shared cache, over two links and a write; `links` has one link and a request that fails |
| access, again | AppAccess | the port open to the phone app; `access` has changes elsewhere and polls, `again` two saves |
| session | RemoteSession | login to a remote node, lost or carried to another |
| tabs | RemoteTabs | what a tab read, page by page, two reads at once included; the access list |
| settings, left | RemoteSettings | sections saved with one console command after another; `left` leaves the tab half way |
| regions, outlive | RemoteRegions | the region map of a remote node; `outlive` has an act that outlives its tab |
| watch | MonitoringForm | what is watched of a contact; rows a reply no longer lists or cannot find go, as `mergeReadings` has it |
| live, node | NodeLive, NodeSettings | the own repeater: tables, commands, stopping; settings, creation and removal |
| peers | PeersList | the list of peers: reads, pushes, ticks, bulk deletion and the notice of it |
| mqtt | MqttFeed | the feed, its brokers, the node it speaks as; a list that could not be read stays the old one |
| view | MapView | the map of peers, read and pushed apart, and the socket that changes with the mode |
| sensor | SensorForm | the dialog of a sensor: part, fields, secret, test |
| wizard | Setup | first set-up and the restore of a backup |

Bounds: two of everything that a page treats alike, with symmetry, one of what it does
not, one fault, and one or two each of
reads, saves and edits, which is what it takes for any two of them to overlap and
for one to fail. `thread` starts with its socket open and `gap` before that, with one
thread and three messages, which is a gap of two where a backfill brings one; the
companions are checked once with one name and more moves, once with a second name
that reads as an id and one move. Deadlock is not checked, since a page whose bounded requests are
spent may stop. Both runs finish in a few minutes.

Run `web_live`: NodeLive alone with liveness. `Heals`: what a running repeater
holds is in the end what the page shows, with two clients, two polls under way
and one lost push or poll. The fairness is weak, of the page's timer, of the
answers to what it asked and of pushes: the timer is a setInterval of a mounted
page, and a browser resolves or rejects every fetch.

## Findings

- **A stored secret left blank is cleared.** A sensor edited while the catalogue of
  parts has not loaded, or failed to, is saved with no secret to keep: the dialog
  works `keepSecrets` out of the part's fields, and the part is not found
  (`SensorDialog.tsx:133`, run `sensor_secret`).

### Known deviations

Comments of the code that a module states without the exceptions its checked
properties have, as definitions no run lists. To reproduce one, name it as the
INVARIANT, or the PROPERTY, of a copy of the run's `.cfg` in place of its own:
TLC finds it violated. Those of a page need a configuration of the page's module
with the constants its instance has in `MCPages` or `MCForms`.

| definition | says | what happens |
|---|---|---|
| AppDirectMessage.DeliveredIsShown | `companion/app.go:201`: shown delivered once any attempt is ACKed | the timer decides, the ACK decides and writes, the timer writes failed |
| RouteTable.AgreeUnlessRaced without `~stale` | `login.go:160`: a login that times out drops its route so that the retry floods | a reload while it waits: it empties the row and the stopped companion's table, and the retry goes along the route the new one read from the row |
| StoreWriter.SavedIsDurable without `owed` | a save is on disk when WriteSync returns | its checkpoint fails or a reader holds it back (`store.go:176`); the caller is told of success |
| RouteTable.HydrateKeepsLearned | `app.go:601`: hydration never overwrites what RX learned | a route learned between the test and the set is overwritten |
| Poller.PollSoonHolds | `monitor.go:293`: a PollSoon asked mid-poll holds past that poll | a PollNow of another node takes the lock between the poll and its accounting; the PollSoon then finds its node not in flight, and the accounting puts it off |
| RepeaterACL.RepeatsNeverRun | `cli.go:364`: a repeat is never re-run | SetACL writes back a copy of the entry taken before a command; its timestamp is lost (one client, one generation are enough) |
| RemoteSettings.SavesWhatChanged | Save sends what changed | a value carried out by a command whose reply was lost is not sent again when it is changed back |
| Setup.RunningNodeKept | `SetupWizard.tsx:210`: a running node is never overwritten | the restore step left while its upload runs |
| ChatThread.OtherChannelsCatchUp | other channels catch up on re-open, by a backfill | the backfill asks from the newest id cached, and a gap below it stays |
| ChatComposer.ReplacedUntilJoined | a room has no composer until it is joined | the answer to a join lands after the thread was changed |
| ChatThread.CaughtUp, ChatRoster.BadgesAgree, PeersList.ListAgrees, MapView.DrawnAgrees, PacketsList.StreamAgrees without what they say of lost pushes (`behind`, `missed`, `gone`, `stale`) | a page at rest with its socket up shows what the daemon holds | a push meets a full buffer (`resume.ts:16` knows of it), or comes before the first open; nothing reads again until the socket drops or the tab is shown again |
| ChatThread.CaughtUp without `behind`, after a lost socket | a resume brings what was missed | more was missed than the 500 rows of one backfill (`CompanionDetailPage.tsx:795`), which brings the oldest of them |
| SignalTests.FollowsTest without `past.missed` | the page follows a test to its end | it has no useResume: a lost push leaves a run out, or the test running |
| PacketsList.StreamAgrees without `~past.crossed` and `~past.overlap` | the live list is the last rows stored, each once | a packet is pushed before its row is stored (`packetlog.go:66`): a read in between lands without it, or with a push of it still to come |
| PacketsList.OriginIsFirst without `~past.jumbled` | `PacketsPage.tsx:133`: the row of a packet is its first observation | what is received and what is sent queue their rows in the other order; ids and times then disagree |
| ConnectionView.FoldConserves with equality where a route repeats a node | a node's sheet and the links of the map count the same | `foldLinks` counts every occurrence of a link, `nodeNeighbours` the first of a node (`connectionWeb.ts:211`) |
| PeersList.ListAgrees, MapView.DrawnAgrees, of a peer heard between its deletion and the notice | a deletion takes what was deleted | the peer is stored again and the notice, which comes after, takes it from every open list |
| MapView.DrawnAgrees, of a change of mode | the map is kept by its socket | other topics are another socket, whose first open reads nothing: what the old one carried, or missed while down, is lost |
| RemoteTabs.PagesInOrder without `~past.freed` | the neighbours shown are the node's, from its start | a first page, or the end of a discovery, lands while a further page is on its way: it starts the list again or frees the buttons, and a page is missing or comes twice |
| RemoteSession.LogoutLands | logged out is logged out | a refused DELETE counts as a logout on the page, and one without an answer as none (`RepeaterDetailPage.tsx:419`) |
| PathEditor.ReopenStartsBlank | a dialog never shows the last contact's route | a load of the last contact lands after it was opened again |
| PublishedMap.UnsavedMeansEdited without `~past.early` | rows are unsaved when edited | the page's refresh answers before the first load |
| ConnectionView.WindowAgrees without `~past.stale` | the routes drawn are of the window chosen | a match changes while the window does |
| CompanionRoster.NamesAgree without `~past.over` and `~past.behind` | `CompanionsPage.tsx:95`: read once the companions have restarted | reads of the cache cross, one fails, or the restart takes longer than 1200 ms; the old name stays until the next mount |
| CompanionRoster.EditorKept without its exceptions | a dialog opened for one companion saves that one | an edit link opens after another editor was: the fields typed are saved to its target; a save that lands closes the editor open by then |
| AppAccess.ChangesOnlyAsked without `fresh` | `CompanionAppPage.tsx:189`: a new size keeps access as it is now | access changed elsewhere between the save's read and its write is put back |
| AppAccess.PageAgrees without `~past.over` | the page shows what is stored | two reads of the list land the wrong way round |

## Proofs

`SupervisorProofs.tla` proves, at its end, for any sets of callers and any queue depth,
that the writer's state is well typed, that closures run once, that a caller
runs its own closure only after the writer has stopped, that the database is
open whenever the writer runs one, that a save is on disk when its WriteSync
returns unless its own checkpoint fell short, and that writes land in queue order. They rest on the assumptions the module names: the
kinds of calls are disjoint, the queue has room for at least one.

The inductive invariant ties what a call believes (`pc`) to what the writer
holds: a closure is in the queue, in the writer's hands or run, never two of
them; `current` and the queue contain only calls that are waiting or have been
accepted; nothing is queued with `runs` above zero; and the drain has ended
before any caller runs its own. None of the properties is inductive by itself:
`ExactlyOnce` needs the queue to hold no closure twice, which needs `pc`.

That a WriteSync is a barrier (`WriteSyncIsBarrier`) needs the order of the queue
(`FifoInv`) and `BarrierInv`: while the writer runs, every write that was accepted
is in the queue, in the writer's hands or run, and everything ahead of a served
WriteSync has run, because nothing ahead of the closure in hand is still queued.
Once the writer has stopped a send may have slipped past Close, and `Barrier` says
nothing of it.

`DirectMessage.tla` proves at its end, for any messages, routes, numbers of attempts
and depth of the queue, that the state is well typed (`TypeCorrect`), that a
settled message's chat and row agree once the queue is empty (`RowAndChatAgree`),
and that both implement MessageLife (`OneOutcome`). That the row implements it
needs the most: a queued write must find a row that is still sending, so it must
be the only write of its message. `IInv` says that a message in flight is shown
and stored as sending and has no write queued (`FlightInv`, `WritesInv`), and that
a row differs from its chat only while a write is queued or after one was refused
(`AgreeInv`). The steps fall into five kinds (`StepKinds`), and each kind has one
lemma: those that only move on, those that settle, storing, beginning, and the
writer's. `RouteKept` is an action property: a route is dropped only by a message
that was sent every time it may be and was the first to say how it ended.
`ExhaustInv` carries what that counts, the direct sends among the attempts made,
through every step of sendDM; a Stop, a refused send or an ACK that gets in first
leaves a message that is no longer in flight, and its goroutine drops nothing.

`AppDirectMessage.tla` proves at its end the same of a message the phone resends, for
any number of resends: `DeliveredIsFinal`, which says that it implements
MessageLife and that only the last attempt's time fails it, and `RowAgrees`. A
settle decides under the lock and tells the store after it, so between the two
the row is behind: `OneTold` says that then exactly one outcome waits to be told
and is the status, unless changes crossed. `Unborn` says that nothing settles a
message before the first call has put it in the map, without which an ACK could
take it from absent to delivered.

Of the failover trigger `SupervisorProofs.tla` proves, for any channels of any requests and any room
for waits, that a wait ends in at most one reply (`OneReply`) and that none is
handed out after an answer or after Stop (`NoReplyTooLate`). It assumes that the
room and the number of messages are natural numbers. `OneReplyPerWait` counts a
request that waits as a reply still owed, which a timer hands out and Stop
forgives, and keeps itself; `NoLateReply` needs that whoever answered a request
that still waits is noted where its timer will look (`AnswersNoted`), which a
request heard a second time must not lose.

`SupervisorProofs.tla` proves, for any modem settings, delays, saves, faults and
resets, the three invariants of the main loop: `RetryIffDown`, `RunsItsConfig` and
`NoSaveForgotten`. They speak of the loop between two arms, so the invariant says
of every stage inside an arm what is true there. `Opened`: which generation's
modem is open, none of them once a radio is being started. `Retrying`: from the end of
an attempt to the next, a retry is pending exactly while the radio is down.
`Running`: in a reload the radio's modem settings are those being applied before its
companions are, and its companions before its repeater; a retry finds the
backend empty, which is why it need not empty it. `Remembered`: a save is on its
way, or the configuration being applied is what was saved, unless the load
failed. The assumptions: bounds and delays are natural numbers, the first
delay is at most the longest and not zero.

`RouteTable.tla` proves at its end, for any routes, senders, numbers of changes and of
rebuilds and any depth of the queue, that table and row agree when nothing is on
its way (`TableAndRowAgree`) and that a rebuilt companion reads everything its
predecessor had queued (`HydrationComplete`), unless changes overlapped or a row
was not saved; logins and requests that outlive their companion are among the
steps, and the table is excused only from the change one of them saved last. As
long as none overlapped, the table, the row, the queue and the goroutines between them are
in one of eight phases, from `Settled` over a route learned, dropped or reset and
its write queued to a new companion draining, reading and hydrating; `IInv` says
that some phase holds. Each phase pins the whole state down, so a step is a move
from phase to phase. `HydrationComplete` rests on `Draining`: behind the barrier there
is one save at most, and the row comes to what the table was when the rebuild
began (`owed`). The assumptions: the depth is a natural number, and no route is
`NoRoute`; logins are among the sends.

`Poller.tla` proves at its end, for any finite set of nodes, any callers of
PollNow and any number of retries, `RequestsKept` (no PollSoon is forgotten) and
that one round trip at a time uses the radio (`AirtimeExclusive`). `LockInv` ties the
lock to what its holder is doing. `FlightInv` says that a poll the scheduler has
made and not accounted for excludes a PollNow, and that the node in flight is its
own, unless a PollNow got in between; with that, a PollSoon made during a poll
finds it in flight and is remembered in `soon` until the poll is accounted for
(`AskedInv`). The assumptions: nodes are finite in number, retries are a natural
number, and the names of the other callers are no PollNow's.

`RepeaterACLProofs.tla` proves, for any clients, roles, messages, calls of the API,
repeaters built and depth of the queue, that no command is run twice
(`CommandsRunOnce`) and that a role given is the role held (`GrantsHold`), with the
clients the properties leave out: those with overlapping changes, and those a
restart read before their write had run. A client is *clean* while it is neither.
`CleanInv` says of a clean client that one goroutine at a time changes its entry,
in the running repeater, and that its row, with what is queued for it, comes to
its entry (`ChangeInv`); that a change under way carries a timestamp no older than
the entry's, and that a command about to be run has not been and is not newer than
it (`TakenInv`, `ToRunInv`); and that every command that was run is covered by the
entry's timestamp (`RanInv`), which is why the timestamp check turns a repeat away.
A reload keeps all of it because the row it reads comes to the entry, or the
client is lost by it. `RoleInv` holds of every client that is not lost: overlapping
changes never cost a role, since touchClient writes into the entry that is there.
`ReloadInv` and `StepsInv` say how far a reload has come and what a step carries.
The assumptions: the roles include guest and admin, an absent entry is no entry,
bounds are natural numbers, and the queue and the repeaters are at least one.

`FormProofs.tla` and `PageProofs.tla` prove, for any threads, contacts, texts, names and
bounds, what the run `forms` asks of its twenty-one parts: `TextsAreKept`, `SaysSo`,
`StoresSound`, `PagesShowTheirOwn`, `NoPageHangs`, and the steps
`SavesKeep` and `EditsSurvive`. `PagesInv` gives each page an invariant of its own;
every one of them carries, of each request in `net`, what its closure captured and what its
answer will find, as far as the page's properties depend on it, because an answer can land
at any later step. In short:

| page | what its invariant says, and why the properties are not inductive without it |
|---|---|
| ChatComposer | a post under way carries what was written and not yet posted or given back (`ComposerPost`); a session shown is of the room shown, and so is a join that may still answer (`ComposerSession`) |
| RemoteSettings | at most one job of console commands runs, unless the tab was left (`SettingsAlone`); the fields it has written or read so far are what the node holds (`SettingsJob`) |
| RemoteRegions | one act at a time, unless one outlived its tab; a map changed since the last save is marked (`RegionsMarked`); the page's map is the node's between acts (`RegionsAgree`), and an act speaks of regions the page lists (`RegionsAct`) |
| MonitoringForm | the patch a save carries fits the room there is and touches only what was edited (`WatchPatch`, `WatchEdited`) |
| MqttFeed | one status poll is awaited, and none is older than what is shown (`MqttStatus`); a broker is stored only once the feed has a node to speak as, which a save of both must preserve between its two requests (`MqttNode`, `MqttSaves`) |
| Setup | how far each of the loads, the restore and the last step has come (`SetupLoads`, `SetupRestore`, `SetupFinish`), that only one of them keeps the page busy (`SetupBusy`), and that a step writes once (`SetupOnce`) |
| SensorForm | which rows have a secret that may be kept (`SensorRows`), that a save asks to keep exactly those left blank (`SensorSaves`), and that a test under way is of the form open (`SensorTests`) |
| NodeSettings | a password on its way was typed by an admin who saved it (`NodePassword`) |
| AppAccess | one save a mount; a save's read, once it has answered, is what was stored unless something changed since |
| PathEditor | a seed lands only in a dialog with nothing to lose; a load or save is of the contact it was opened for |
| TelemetryGrants | modes saved differ from those drafted only in what was drafted since |
| CompanionRoster | a link names its companion by its id once the roster is known; rosters differ only by reads under way |
| RemoteSession | unless carried across, every request is of the node shown, and a lost login is noticed by the next answer |
| RemoteTabs | one read at a time, and the shown tab either has its page or waits for it |
| NodeLive | each sign of waiting stands for a request, a command or a push under way |
| PeersList | rows shown as being deleted are those of a deletion under way |
| MapView | the map has a pin exactly for the peer the address names |

What the reader's steps preserve is mostly what React does with a state update; the
difficult cases are the answers, and within them those after a page was left and mounted
again (`leaves`, `mount`). Of the list of peers and the map only the steps and the busy signs are proved: that
they agree at rest with the daemon (`AgreesAtRest`) is model-checked. All rests on
`BoundsAssumption` and `FiniteAssumption` only.
The proof found one exception too narrow in the model's history: a creation of the
repeater asked for while its settings are being read, followed by a removal, leaves the
regions of the old repeater shown, which takes more saves than the run has. `NodeSettings`
counts that as crossed now (`Create`).

Only proved, and stated in no run: `WriterHasDatabase` and `Fifo` of the writer, the
monitor's `OneRoundTrip`, and the types of the writer's module and of
DirectMessage, which the proofs of the others rest on.

Only model-checked: liveness (`CallsReturn`, `EverySettled`, `NeverSilent`,
`EveryNodePolled`, `RadioComesBack`, `Heals`), which is out of the prover's reach;
`MCForms.TypeOK`, of which the proofs carry what they need as each page's shape, and
`MCForms.AgreesAtRest` as a whole;
and the run `pages`, whose properties speak of sequences folded or merged step by step
(`FoldConserves`, `TranscriptPaired`, `CaughtUp`), that is of induction over data.
Every safety property of the daemon that a run checks is a theorem.

## Not modelled

In the daemon: SQL inside a closure, migrations and backup files; sensor drivers
and their arithmetic; hardware setup; request decoding; the repeater client's
requests, the phone app's server, received messages and echoes, the MQTT
observer, discovery and signal tests, of which the modules above model only what
touches them. Each component's note in PROJECT.json says why.

In the console: the wizard that makes a backup (`BackupWizard.tsx`), dashboards,
charts, the plain lists of repeaters, contacts and channels, and everything
about layout, dragging, scrolling positions and formatting. Their state is one read
and one render, guarded by the hooks that the modules of other pages model.

## Plan

Done: the daemon's concurrent core and the pages of the console that edit or
follow something. What remains, in order:

1. the app server with its queue (a connection replaced in the middle of a pop),
   and the repeater client's tags, logins and CLI prefixes (a late reply meeting
   a reused tag);
2. received direct messages (dedupe, ACK and order) and channel posts with their
   echoes;
3. discovery, the MQTT observer's queue, sensors and signal tests in the daemon.

Theorems still worth proving: of the run `pages`, `ShowsOwn` first, whose parts
(ChatDialogs, TraceSend, SignalTests, BotTest, PeerSheet) have the shape of the
pages already proved, then PublishedMap's and RadioForm's part in `StoredAgrees`.

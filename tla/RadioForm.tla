------------------------------- MODULE RadioForm -------------------------------
(***************************************************************************)
(* The settings page: the connection to the radio, kept as one address     *)
(* whose scheme names the backend, the pickers that build it, and a save   *)
(* in two requests, the regions and then everything else.                  *)
(***************************************************************************)
EXTENDS Naturals

CONSTANTS MaxEdits,   \* bound: edits
          MaxSaves,   \* bound: saves
          MaxFaults   \* bound: requests that fail, or whose answer is lost

VARIABLES
  ui,    \* the settings held (or not), loading, error, boards (listed or not), ports (those listed), saving, and the form
  net,   \* the read of the settings that counts, the lists of boards and ports, the save
  srv,   \* the settings
  past   \* edits, saves, faults; dirty (edited since the form last agreed), early (the backend was picked before the boards
         \* were listed), typed (an address, port or rate chosen by hand), lost (an answer), unread (a read failed),
         \* told (what the last save said), before (the regions when it began)

vars == <<ui, net, srv, past>>
Schemes == {"serial", "tcp", "spi", "openhop"}
Devices == {"tty", "stable"}                     \* "stable" is the lasting name of the device "tty", the default
SpiPorts == {"P0", "P1"}
Targets == Devices \cup SpiPorts \cup {"", "host"}
Addresses == [scheme : Schemes, target : Targets]
At(scheme, target) == [scheme |-> scheme, target |-> target]
Backends == {"kiss", "openhop", "spi"}
Rates == {"kiss", "hop", "other"}
Hats == {"h1", "h2"}
HatPort(hat) == IF hat = "h2" THEN "P1" ELSE "P0"
Settings == [conn : Addresses, baud : Rates, board : Hats \cup {""}, regions : 0..1]
Forms == [type : Backends, conn : Addresses, baud : Rates, board : Hats \cup {""}, regions : 0..1]
Body(f) == [conn |-> f.conn, baud |-> f.baud, board |-> f.board, regions |-> f.regions]

TypeOK ==
  /\ ui.held \in BOOLEAN /\ ui.loading \in BOOLEAN /\ ui.error \in BOOLEAN /\ ui.boards \in BOOLEAN /\ ui.saving \in BOOLEAN
  /\ ui.ports \in {"none", "plain", "stable"} /\ ui.form \in Forms
  /\ net.read \in {"none", "asked", "served", "failed"} /\ net.found \in Settings
  /\ net.boards \in {"none", "asked"} /\ net.ports \in {"none", "asked"}
  /\ net.save \in {"none", "regions", "taken", "settings", "done", "refused", "half"} /\ net.sent \in Forms /\ srv \in Settings
  /\ past.edits \in 0..MaxEdits /\ past.saves \in 0..MaxSaves /\ past.faults \in 0..MaxFaults
  /\ {past.dirty, past.early, past.typed, past.lost, past.unread} \subseteq BOOLEAN
  /\ past.told \in {"", "saved", "nothing", "half"} /\ past.before \in 0..1

\* The backend is read off the address, never off the stored type.
BackendFor(conn) == IF conn.scheme \in {"spi", "openhop"} THEN conn.scheme ELSE "kiss"
\* A form filled from the settings.
Filled(s) == [type |-> BackendFor(s.conn), conn |-> s.conn, baud |-> s.baud, board |-> s.board, regions |-> s.regions]
Stored == {At("serial", "tty"), At("tcp", "host"), At("spi", "P1"), At("openhop", "host"), At("openhop", "stable")}
Valid(s) == /\ s.conn.scheme = "spi" => s.board # ""
            /\ s.conn.scheme = "openhop" /\ s.conn.target \in Devices => s.baud = "hop"
Blank == [conn |-> At("serial", ""), baud |-> "kiss", board |-> "", regions |-> 0]
Init ==
  /\ ui = [held |-> FALSE, loading |-> TRUE, error |-> FALSE, boards |-> FALSE, ports |-> "none", saving |-> FALSE,
           form |-> Filled(Blank)]
  /\ net = [read |-> "asked", found |-> Blank, boards |-> "asked", ports |-> "none", save |-> "none", sent |-> Filled(Blank)]
  /\ \E conn \in Stored, board \in {"", "h2"} :
       srv = [conn |-> conn, baud |-> IF conn = At("openhop", "stable") THEN "hop" ELSE "kiss", board |-> board, regions |-> 0]
  /\ Valid(srv)
  /\ past = [edits |-> 0, saves |-> 0, faults |-> 0, dirty |-> FALSE, early |-> FALSE, typed |-> FALSE, lost |-> FALSE,
             unread |-> FALSE, told |-> "", before |-> 0]
Fault == past.faults < MaxFaults
Spent == [past EXCEPT !.faults = @ + 1]
-----------------------------------------------------------------------------
\* The effect that adopts the lasting name of a serial device stored by its tty.
Adopted(u) ==
  IF u.form.type = "kiss" /\ u.form.conn = At("serial", "tty") /\ u.ports = "stable"
  THEN [u EXCEPT !.form.conn.target = "stable"] ELSE u
Shown == ui.held /\ ~ui.loading

\* useApiObject: the fields go while a read is under way, and come back with no ports listed.
Reload(n) == [n EXCEPT !.read = "asked", !.found = Blank, !.ports = "none"]
Retry ==
  ui.error /\ ui' = [ui EXCEPT !.loading = TRUE, !.error = FALSE, !.ports = "none"] /\ net' = Reload(net) /\ UNCHANGED <<srv, past>>
ReadLands ==
  /\ net.read \in {"served", "failed"} /\ srv' = srv
  /\ LET failed == net.read = "failed"
         form == IF failed THEN ui.form ELSE Filled(net.found)
     IN /\ ui' = [ui EXCEPT !.held = @ \/ ~failed, !.error = failed, !.loading = FALSE, !.form = form]
        /\ net' = [net EXCEPT !.read = "none", !.found = Blank,
                              !.ports = IF (ui.held \/ ~failed) /\ form.type # "spi" THEN "asked" ELSE "none"]
        /\ past' = [past EXCEPT !.unread = failed, !.dirty = failed /\ @]
BoardsLand ==
  /\ net.boards = "asked" /\ net' = [net EXCEPT !.boards = "none"] /\ srv' = srv
  /\ (ui' = [ui EXCEPT !.boards = TRUE] /\ past' = past) \/ (Fault /\ ui' = ui /\ past' = Spent)
\* No port found is also what a failure looks like.
PortsLand(list) ==
  /\ net.ports = "asked" /\ net' = [net EXCEPT !.ports = "none"] /\ UNCHANGED <<srv, past>>
  /\ ui' = Adopted([ui EXCEPT !.ports = list])
-----------------------------------------------------------------------------
\* The pickers.
Path == ui.form.conn.target \in Devices
Transport(f) ==
  CASE f.type = "spi" -> "spi" [] f.type = "openhop" -> (IF f.conn.target \in Devices THEN "serial" ELSE "tcp")
    [] OTHER -> f.conn.scheme
FirstPort == IF ui.ports = "stable" THEN "stable" ELSE "tty"
Edited(f, p) ==
  /\ Shown /\ f # ui.form /\ past.edits < MaxEdits /\ srv' = srv /\ ui' = Adopted([ui EXCEPT !.form = f])
  /\ past' = [p EXCEPT !.edits = @ + 1, !.dirty = TRUE]
  /\ net' = IF ui.form.type = "spi" /\ f.type # "spi" THEN [net EXCEPT !.ports = "asked"] ELSE net
Hat(f) == IF ui.boards /\ f.board # "" THEN f.board ELSE IF ui.boards THEN "h1" ELSE ""
PickBackend(v) ==
  LET f == [ui.form EXCEPT !.type = v, !.baud = IF v # "openhop" /\ @ = "hop" THEN "kiss" ELSE @]
      scheme == f.conn.scheme
  IN /\ v # ui.form.type
     /\ \/ /\ v = "spi"
           /\ Edited([f EXCEPT !.board = IF @ = "" THEN Hat(f) ELSE @,
                               !.conn = IF scheme # "spi" THEN At("spi", HatPort(Hat(f))) ELSE @],
                     [past EXCEPT !.early = @ \/ ~ui.boards])
        \/ v = "openhop" /\ Edited([f EXCEPT !.conn = IF scheme # "openhop" THEN At("openhop", "") ELSE @], past)
        \/ v = "kiss" /\ Edited([f EXCEPT !.conn = IF scheme \in {"spi", "openhop"} THEN At("serial", FirstPort) ELSE @], past)
PickTransport(v) ==
  /\ ui.form.type # "spi" /\ v # Transport(ui.form)
  /\ IF ui.form.type = "openhop"
     THEN Edited([ui.form EXCEPT !.conn = At("openhop", IF v = "tcp" THEN "" ELSE FirstPort),
                                 !.baud = IF v = "serial" THEN "hop" ELSE @], past)
     ELSE Edited([ui.form EXCEPT !.conn = IF v = "tcp" THEN At("tcp", "") ELSE At("serial", FirstPort)], past)
\* The bug of a board picked and its port not.
PickHatOnly(hat) == ui.form.type = "spi" /\ Edited([ui.form EXCEPT !.board = hat], [past EXCEPT !.typed = @ \/ ~ui.boards])
PickHat(hat) ==
  /\ ui.form.type = "spi"
  /\ IF ui.boards THEN Edited([ui.form EXCEPT !.board = hat, !.conn = At("spi", HatPort(hat))], past)
     ELSE Edited([ui.form EXCEPT !.board = hat], [past EXCEPT !.typed = TRUE])
PickSpiPort(p) == ui.form.type = "spi" /\ Edited([ui.form EXCEPT !.conn = At("spi", p)], [past EXCEPT !.typed = TRUE])
\* setTarget: a network address, or a device of those listed or typed.
SetTarget(v) ==
  LET f == ui.form
      to == [f EXCEPT !.conn = At(IF f.type = "openhop" THEN "openhop" ELSE Transport(f), v)]
  IN \/ Transport(f) = "tcp" /\ v \in Devices \cup {"host"} /\ Edited(to, [past EXCEPT !.typed = @ \/ v \in Devices])
     \/ Transport(f) = "serial" /\ v \in (IF ui.ports = "none" THEN Devices ELSE {FirstPort}) /\ Edited(to, past)
SetBaud(v) ==
  ui.form.type = "kiss" /\ Transport(ui.form) = "serial" /\ Edited([ui.form EXCEPT !.baud = v], [past EXCEPT !.typed = @ \/ v = "hop"])
EditRegions == Edited([ui.form EXCEPT !.regions = 1 - @], past)

\* onSave: the regions first, for a refusal then to save nothing; the hat only with the backend that has one.
Save ==
  /\ ui.held /\ ~ui.loading /\ ~ui.saving /\ past.saves < MaxSaves
  /\ ui' = [ui EXCEPT !.saving = TRUE] /\ net' = [net EXCEPT !.save = "regions", !.sent = ui.form] /\ srv' = srv
  /\ past' = [past EXCEPT !.saves = @ + 1, !.dirty = FALSE, !.lost = FALSE, !.told = "", !.before = srv.regions]
SendSettings == net.save = "taken" /\ net' = [net EXCEPT !.save = "settings"] /\ UNCHANGED <<ui, srv, past>>
SaveLands ==
  /\ net.save \in {"done", "refused", "half"} /\ srv' = srv
  /\ LET over == [net EXCEPT !.save = "none", !.sent = Filled(Blank)]
         told == [done |-> "saved", refused |-> "nothing", half |-> "half"][net.save]
     IN IF net.save = "done"
        THEN /\ ui' = [ui EXCEPT !.saving = FALSE, !.loading = TRUE, !.error = FALSE, !.ports = "none"] /\ net' = Reload(over)
             /\ past' = [past EXCEPT !.told = told]
        ELSE ui' = [ui EXCEPT !.saving = FALSE] /\ net' = over /\ past' = [past EXCEPT !.told = told, !.dirty = TRUE]
-----------------------------------------------------------------------------
\* The daemon: a hat that is not sent is kept, and settings that do not hold together are refused.
ServeRead ==
  /\ net.read = "asked" /\ UNCHANGED <<ui, srv>>
  /\ \/ net' = [net EXCEPT !.read = "served", !.found = srv] /\ past' = past
     \/ Fault /\ net' = [net EXCEPT !.read = "failed"] /\ past' = Spent
Merged(s, f) == [Body(f) EXCEPT !.board = IF f.type = "spi" THEN @ ELSE s.board, !.regions = s.regions]
ServeSave ==
  /\ ui' = ui
  /\ \/ /\ net.save = "regions" /\ srv' = [srv EXCEPT !.regions = net.sent.regions]
        /\ \/ net' = [net EXCEPT !.save = "taken"] /\ past' = past
           \/ Fault /\ net' = [net EXCEPT !.save = "refused"] /\ past' = [Spent EXCEPT !.lost = TRUE]
     \/ net.save = "regions" /\ Fault /\ srv' = srv /\ net' = [net EXCEPT !.save = "refused"] /\ past' = Spent
     \/ /\ net.save = "settings" /\ Valid(Merged(srv, net.sent)) /\ srv' = Merged(srv, net.sent)
        /\ \/ net' = [net EXCEPT !.save = "done"] /\ past' = past
           \/ Fault /\ net' = [net EXCEPT !.save = "half"] /\ past' = [Spent EXCEPT !.lost = TRUE]
     \/ /\ net.save = "settings" /\ ~Valid(Merged(srv, net.sent)) /\ srv' = srv /\ net' = [net EXCEPT !.save = "half"]
        /\ past' = past

Next ==
  \/ Retry \/ ReadLands \/ BoardsLand \/ EditRegions \/ Save \/ SendSettings \/ SaveLands \/ ServeRead \/ ServeSave
  \/ \E list \in {"none", "plain", "stable"} : PortsLand(list)
  \/ \E v \in Backends : PickBackend(v)
  \/ \E v \in {"serial", "tcp"} : PickTransport(v)
  \/ \E hat \in Hats : PickHat(hat)
  \/ \E p \in SpiPorts : PickSpiPort(p)
  \/ \E v \in Targets : SetTarget(v)
  \/ \E v \in Rates : SetBaud(v)
Spec == Init /\ [][Next]_vars
-----------------------------------------------------------------------------
\* The backend the page names is the one the daemon takes from the address it saves.
BackendFits == ui.form.type = BackendFor(ui.form.conn)

\* A serial openHop modem is left at its one rate and a KISS modem never at that rate, unless typed so.
BaudFits ==
  ~past.typed => /\ ui.form.type = "openhop" /\ Path => ui.form.baud = "hop"
                 /\ ui.form.type # "openhop" => ui.form.baud # "hop"

\* A hat is driven on the port it is wired to, unless the reader chose another or picked the backend before the
\* boards were listed.
HatOnItsPort ==
  ui.form.type = "spi" /\ ~past.typed /\ ~past.early => ui.form.board # "" /\ ui.form.conn.target = HatPort(ui.form.board)

\* "Nothing was saved" and "the other settings were not" are true of every save whose answers arrived.
TellsWhatWasSaved ==
  ~past.lost /\ past.told = "nothing" => srv.regions = past.before

\* With nothing under way and nothing edited, the form shows the settings, but for a device renamed under it.
FormAgrees ==
  /\ Shown /\ net.save = "none" /\ net.read = "none" /\ ~past.dirty /\ ~past.unread
  => \/ Body(ui.form) = srv
     \/ srv.conn = At("serial", "tty") /\ Body(ui.form) = [srv EXCEPT !.conn.target = "stable"]
=============================================================================

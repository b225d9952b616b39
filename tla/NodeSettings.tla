---------------------------- MODULE NodeSettings ----------------------------
(***************************************************************************)
(* RepeaterNodePage's settings: three sections saved by a button each, one *)
(* at a time, after which the configuration is read again and fills every  *)
(* field; the regions, saved per change, which never make that happen; and *)
(* the repeater removed, and created anew from the card shown then.        *)
(***************************************************************************)
EXTENDS Integers, FiniteSets

CONSTANTS Sections,   \* node, relay and admin: the last holds the password
          Regions,
          MaxSaves,   \* bound: sections saved, repeaters removed and created
          MaxEdits,   \* bound: region changes made
          MaxFaults   \* bound: requests that fail

VARIABLES
  ui,    \* there (the settings are shown, not the card to create with); form (a value per section), password (kept, or
         \* a new value); regions, home, saving (a section)
  net,   \* read (the read of the configuration that counts), save, op (a region change), reread (after a refusal);
         \* remove, create
  srv,   \* the configuration: there (a repeater is configured), fields (per section), password, regions, home
  past   \* saves, edits, faults; and whether a region change or a creation crossed a read, or a reread failed

vars == <<ui, net, srv, past>>

None == "none"
Keep == "keep"
Homes == Regions \cup {"*"}
Values == 0..1
Passwords == {"", "old", "new"}
Config ==
  [there : BOOLEAN, fields : [Sections -> Values], password : Passwords, regions : SUBSET Regions, home : Homes \cup {""}]
Change == [kind : {None, "add", "remove", "home"}, region : Homes]
NoChange == [kind |-> None, region |-> "*"]

TypeOK ==
  /\ ui.form \in [Sections -> Values] /\ ui.password \in Passwords \cup {Keep}
  /\ ui.regions \in SUBSET Regions /\ ui.home \in Homes \cup {""}
  /\ ui.saving \in Sections \cup {None}
  /\ net.read \in {None, "asked", "served"} /\ net.found \in Config
  /\ net.save \in Sections \cup {None} /\ net.sent \in [Sections -> Values]
  /\ net.password \in Passwords \cup {Keep}
  /\ net.op \in Change /\ net.reread \in {None, "asked", "served"} /\ net.again \in Config
  /\ srv \in Config /\ {ui.there, net.remove, net.create, past.crossed, past.blind} \subseteq BOOLEAN
  /\ past.saves \in 0..MaxSaves /\ past.edits \in 0..MaxEdits /\ past.faults \in 0..MaxFaults

Created(password) == [there |-> TRUE, fields |-> [s \in Sections |-> 0], password |-> password, regions |-> {}, home |-> "*"]
Stored == Created("old")
Gone == [Created("") EXCEPT !.there = FALSE, !.home = ""]
\* The effect of a configuration read: every field is filled from it.
Filled(u, rep) ==
  [u EXCEPT !.there = TRUE, !.form = rep.fields, !.password = Keep, !.regions = rep.regions, !.home = rep.home]
Init ==
  /\ ui = [there |-> TRUE, form |-> Stored.fields, password |-> Keep, regions |-> {}, home |-> "*", saving |-> None]
  /\ net = [read |-> None, found |-> Stored, save |-> None, sent |-> Stored.fields, password |-> Keep,
            op |-> NoChange, reread |-> None, again |-> Stored, remove |-> FALSE, create |-> FALSE]
  /\ srv = Stored
  /\ past = [saves |-> 0, edits |-> 0, faults |-> 0, crossed |-> FALSE, blind |-> FALSE]
Fault == past.faults < MaxFaults
Spent == [past EXCEPT !.faults = @ + 1]
-----------------------------------------------------------------------------
\* useApiObject: the latest read counts, and one that fails leaves what is shown.
Reload(n) == [n EXCEPT !.read = "asked", !.found = Stored]
ReadServed ==
  /\ net.read = "asked" /\ net' = [net EXCEPT !.read = "served", !.found = srv]
  /\ past' = [past EXCEPT !.crossed = @ \/ net.op # NoChange] /\ UNCHANGED <<ui, srv>>
ReadLands ==
  /\ net.read = "served" /\ srv' = srv
  /\ net' = [net EXCEPT !.read = None, !.found = Stored]
  /\ \/ /\ ui' = IF net.found.there THEN Filled(ui, net.found) ELSE [ui EXCEPT !.there = FALSE]
        /\ past' = past
     \/ Fault /\ ui' = ui /\ past' = [Spent EXCEPT !.blind = TRUE]

Edit(s) == ui.there /\ ui' = [ui EXCEPT !.form[s] = 1 - @] /\ UNCHANGED <<net, srv, past>>
TypePassword(p) == ui.there /\ ui' = [ui EXCEPT !.password = p] /\ UNCHANGED <<net, srv, past>>

\* section: one save at a time, then the configuration is read again.
Save(s) ==
  /\ ui.there /\ ui.saving = None /\ past.saves < MaxSaves
  /\ ui' = [ui EXCEPT !.saving = s]
  /\ net' = [net EXCEPT !.save = s, !.sent = ui.form, !.password = IF s = "admin" THEN ui.password ELSE Keep]
  /\ past' = [past EXCEPT !.saves = @ + 1] /\ srv' = srv
Written(c) ==
  [c EXCEPT !.fields[net.save] = net.sent[net.save], !.password = IF net.password = Keep THEN @ ELSE net.password]
SaveLands ==
  /\ net.save # None /\ ui' = [ui EXCEPT !.saving = None]
  /\ LET over == [net EXCEPT !.save = None, !.sent = Stored.fields, !.password = Keep] IN
     \/ srv.there /\ srv' = Written(srv) /\ net' = Reload(over) /\ past' = past
     \/ ~srv.there /\ net' = over /\ UNCHANGED <<srv, past>>
     \/ Fault /\ net' = over /\ srv' = srv /\ past' = Spent
\* regionOp: shown at once and sent one at a time.
Shows(u, c) ==
  CASE c.kind = "add" -> [u EXCEPT !.regions = @ \cup {c.region}]
    [] c.kind = "remove" -> [u EXCEPT !.regions = @ \ {c.region}]
    [] OTHER -> [u EXCEPT !.home = c.region]
Offered(c) ==
  \/ c.kind = "add" /\ c.region \in Regions \ ui.regions
  \/ c.kind = "remove" /\ c.region \in ui.regions
  \/ c.kind = "home" /\ c.region \in (ui.regions \cup {"*"}) \ {ui.home}
Busy == net.op # NoChange \/ net.reread # None
RegionOp(c) ==
  /\ ui.there /\ ~Busy /\ Offered(c) /\ past.edits < MaxEdits
  /\ ui' = Shows(ui, c) /\ net' = [net EXCEPT !.op = c] /\ srv' = srv
  /\ past' = [past EXCEPT !.edits = @ + 1, !.crossed = @ \/ net.read = "served"]
\* The server: a region removed is no longer the home; one it does not hold is refused.
Takes(c) == srv.there /\ (c.kind # "add" => c.region \in srv.regions \cup {"*"})
Carried(c) ==
  LET done == Shows([regions |-> srv.regions, home |-> srv.home], c) IN
  [srv EXCEPT !.regions = done.regions, !.home = IF done.home \in done.regions THEN done.home ELSE "*"]
OpLands ==
  /\ net.op # NoChange
  /\ \/ /\ Takes(net.op) /\ srv' = Carried(net.op) /\ net' = [net EXCEPT !.op = NoChange]
        /\ ui' = IF net.op.kind = "remove" /\ ui.home = net.op.region THEN [ui EXCEPT !.home = "*"] ELSE ui
        /\ past' = [past EXCEPT !.crossed = @ \/ net.read = "served"]
     \/ /\ ~Takes(net.op) \/ Fault
        /\ net' = [net EXCEPT !.op = NoChange, !.reread = "asked"] /\ UNCHANGED <<ui, srv>>
        /\ past' = IF Takes(net.op) THEN Spent ELSE past
RereadServed ==
  /\ net.reread = "asked" /\ net' = [net EXCEPT !.reread = "served", !.again = srv] /\ UNCHANGED <<ui, srv, past>>
RereadLands ==
  /\ net.reread = "served" /\ srv' = srv
  /\ net' = [net EXCEPT !.reread = None, !.again = Stored]
  /\ \/ ui' = [ui EXCEPT !.regions = net.again.regions, !.home = net.again.home] /\ past' = past
     \/ Fault /\ ui' = ui /\ past' = [Spent EXCEPT !.blind = TRUE]

\* The repeater is removed, whatever is under way; and created, once the card to do it with is shown and nothing
\* of the old one is under way (a bound).
Remove ==
  /\ ui.there /\ ~net.remove /\ past.saves < MaxSaves
  /\ net' = [net EXCEPT !.remove = TRUE] /\ past' = [past EXCEPT !.saves = @ + 1] /\ UNCHANGED <<ui, srv>>
RemoveLands ==
  /\ net.remove /\ ui' = ui
  /\ LET over == [net EXCEPT !.remove = FALSE] IN
     \/ srv' = Gone /\ net' = Reload(over) /\ past' = past
     \/ Fault /\ net' = over /\ srv' = srv /\ past' = Spent
Create ==
  /\ ~ui.there /\ ~net.create /\ net.save = None /\ ~Busy /\ ~net.remove /\ past.saves < MaxSaves
  /\ net' = [net EXCEPT !.create = TRUE] /\ UNCHANGED <<ui, srv>>
  /\ past' = [past EXCEPT !.saves = @ + 1, !.crossed = @ \/ net.read # None]
CreateLands ==
  /\ net.create /\ ui' = ui
  /\ LET over == [net EXCEPT !.create = FALSE] IN
     \/ ~srv.there /\ srv' = Created("new") /\ net' = Reload(over) /\ past' = past
     \/ srv.there /\ net' = over /\ UNCHANGED <<srv, past>>
     \/ Fault /\ net' = over /\ srv' = srv /\ past' = Spent

Next ==
  \/ ReadServed \/ ReadLands \/ SaveLands \/ OpLands \/ RereadServed \/ RereadLands
  \/ Remove \/ RemoveLands \/ Create \/ CreateLands
  \/ \E s \in Sections : Edit(s) \/ Save(s)
  \/ \E p \in {"", "new"} : TypePassword(p)
  \/ \E kind \in {"add", "remove", "home"}, r \in Homes : RegionOp([kind |-> kind, region |-> r])
Spec == Init /\ [][Next]_vars
-----------------------------------------------------------------------------
\* With no region change on its way the regions shown are those of the node, refusals included, unless a change,
\* or a creation asked for again, crossed a read of the configuration, or the read after a refusal failed too.
RegionsAgree ==
  ui.there /\ srv.there /\ ~Busy /\ ~past.crossed /\ ~past.blind => ui.regions = srv.regions /\ ui.home = srv.home

\* Editing regions never touches an unsaved field: what fills the fields again is a save of a section.
FieldsSurviveRegions ==
  ui'.form # ui.form /\ net'.read = net.read => net' = net /\ ui'.regions = ui.regions

\* The administrator's password of a repeater changes only to what the reader typed since the fields were last
\* filled: a save of another section, or of a field left alone, keeps it.
PasswordAsked ==
  srv'.password # srv.password => srv'.there # srv.there \/ (net.save = "admin" /\ srv'.password = net.password)
=============================================================================

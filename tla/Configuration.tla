--------------------------- MODULE Configuration ---------------------------
(***************************************************************************)
(* The configuration file (config.py) and those who write it: the user,    *)
(* and the commands pair and recover-id, which load it, wait for the       *)
(* boiler's association broadcast and save it whole, in place, over        *)
(* whatever the user did meanwhile.  A document is what the file says of   *)
(* the Connect, the sonde and the zones; settings that only have a format  *)
(* are left out.                                                           *)
(***************************************************************************)
EXTENDS Integers, Sequences

CONSTANTS
  None,        \* nobody, nothing
  Torn,        \* a file that does not parse, or breaks off in a table's first fields: load refuses it
  Documents,   \* what the user may write in the file
  ZoneNumbers  \* the zones of the boiler, 1 among them

ASSUME ConfigurationAssumption == 1 \in ZoneNumbers /\ ZoneNumbers \subseteq 1 .. 3

VARIABLES
  file,     \* the configuration file: a document or Torn
  cli,      \* the pairing or recovery under way, or None
  paired,   \* ghost: the roles paired in the file as it is
  meant     \* ghost: the document that was last to be in the file

configVars == <<file, cli, paired, meant>>

Profiles == {"central_boiler", "flow_temp"}                    \* ZONE1_ONLY_MODES
VirtualModes == {"virtual_satellite", "simple_satellite"} \cup Profiles
ZoneModes == {"disabled", "satellite"} \cup VirtualModes

\* A zone without a table, and one with just a mode and perhaps an association id.
Zone(mode, id) == [mode |-> mode, id |-> id, curve |-> "absent", fallback |-> "absent"]
NoZone == Zone("absent", FALSE)

Document(connect, id, sonde, zones) ==
  [network |-> FALSE, connect |-> [mode |-> connect, id |-> id], sonde |-> sonde, zones |-> zones]

\* A curve is absent, usable (or was, and has another maximum since) or inverted, a fallback flow within
\* its curve's range or not.
ZoneType ==
  [mode : ZoneModes \cup {"absent"}, id : BOOLEAN, curve : {"absent", "usable", "lowered", "inverted"},
   fallback : {"absent", "reachable", "unreachable"}]
DocumentType ==
  [network : BOOLEAN, connect : [mode : {"absent", "passive", "read", "full"}, id : BOOLEAN],
   sonde : {"absent", "on", "off"}, zones : [ZoneNumbers -> ZoneType]]

ASSUME DocumentsAssumption == Documents \subseteq DocumentType /\ None \notin DocumentType

Satellite(n) == CASE n = 1 -> "satellite_z1" [] n = 2 -> "satellite_z2" [] OTHER -> "satellite_z3"
Roles == {"connect", "sonde"} \cup {Satellite(n) : n \in ZoneNumbers}

ZoneEnabled(doc, n) == doc.zones[n].mode \notin {"absent", "disabled"}
UsesVirtualSatellite(doc, n) == doc.zones[n].mode \in VirtualModes
ReadsEnabled(doc) == doc.connect.id /\ doc.connect.mode \in {"read", "full"}
WritesEnabled(doc) == doc.connect.id /\ doc.connect.mode = "full"
FlowTemp(doc) == doc.zones[1].mode = "flow_temp"

\* The roles that have an association id; the sonde always does.
Identities(doc) ==
  (IF doc.connect.id THEN {"connect"} ELSE {}) \cup (IF doc.sonde # "absent" THEN {"sonde"} ELSE {})
  \cup {Satellite(n) : n \in {m \in ZoneNumbers : doc.zones[m].id}}

-----------------------------------------------------------------------------
(* load: what it accepts.                                                  *)

LoadConnect(connect) == connect.mode \in {"read", "full"} => connect.id

LoadHeatingCurve(curve) == curve # "inverted"   \* min_flow is below max_flow

\* Mutant of LoadZone: a zone of the bridge's own is accepted without an association id.
OrphanLoadZone(zone, n) ==
  /\ zone.mode \in Profiles => n = 1
  /\ LoadHeatingCurve(zone.curve)
  /\ zone.mode = "flow_temp" => zone.curve # "absent"
  /\ zone.fallback # "absent" => zone.mode = "flow_temp" /\ zone.fallback = "reachable"

LoadZone(zone, n) ==
  /\ zone.mode \in Profiles => n = 1
  /\ zone.mode \in VirtualModes => zone.id
  /\ LoadHeatingCurve(zone.curve)
  /\ zone.mode = "flow_temp" => zone.curve # "absent"
  /\ zone.fallback # "absent" => zone.mode = "flow_temp" /\ zone.fallback = "reachable"

\* A profile on zone 1 has the boiler to itself; flow_temp works through the sonde.
ZoneTopology(doc) ==
  doc.zones[1].mode \in Profiles =>
    /\ \A n \in ZoneNumbers \ {1} : ~ZoneEnabled(doc, n)
    /\ FlowTemp(doc) => doc.sonde = "on"

Loads(doc) ==
  /\ LoadConnect(doc.connect)
  /\ \A n \in ZoneNumbers : LoadZone(doc.zones[n], n)
  /\ ZoneTopology(doc)

\* What load writes when there is no file.
DefaultDocument == Document("absent", FALSE, "absent", [n \in ZoneNumbers |-> NoZone])

-----------------------------------------------------------------------------
(* save: the whole document again.                                         *)

\* Mutant of ZoneTable: the heating curve is left out.
CurvelessZoneTable(zone) == [zone EXCEPT !.curve = "absent"]

ZoneTable(zone) == zone

Saved(doc) == [doc EXCEPT !.zones = [n \in ZoneNumbers |-> ZoneTable(doc.zones[n])]]

\* What a save leaves of a zone's table that breaks off in the curve's last number, its maximum flow.
CutCurve(zone) ==
  {cut \in ZoneType :
     /\ zone.curve # "absent" /\ cut.curve \in {"lowered", "inverted"}
     /\ cut.mode = zone.mode /\ cut.id = zone.id
     /\ cut.fallback = "absent" <=> zone.fallback = "absent"}

\* What it leaves of a zone's table: nothing, its first fields, all but the curve, part of it, or all.
CutZone(zone) ==
  {NoZone, Zone(zone.mode, FALSE), Zone(zone.mode, zone.id), [zone EXCEPT !.curve = "absent"], zone}
  \cup CutCurve(zone)

\* What it leaves of the document: nothing that loads, or the document up to some table.
CutShort(doc) ==
  {Torn}
  \cup {[DefaultDocument EXCEPT !.network = doc.network, !.connect = connect] :
           connect \in {doc.connect, DefaultDocument.connect, [doc.connect EXCEPT !.id = FALSE]}}
  \cup UNION {{[doc EXCEPT !.zones = [n \in ZoneNumbers |->
                   CASE n < k -> doc.zones[n] [] n = k -> zone [] OTHER -> NoZone]] :
                 zone \in CutZone(doc.zones[k])} : k \in ZoneNumbers}

\* set_identity: a role that is new gets a table in its full mode.
SetIdentity(doc, role) ==
  CASE role = "connect" ->
         [doc EXCEPT !.connect = [mode |-> IF @.mode = "absent" THEN "full" ELSE @.mode, id |-> TRUE]]
    [] role = "sonde" -> [doc EXCEPT !.sonde = IF @ = "absent" THEN "on" ELSE @]
    [] OTHER ->
         [doc EXCEPT !.zones = [n \in ZoneNumbers |->
            IF Satellite(n) # role THEN doc.zones[n]
            ELSE IF doc.zones[n].mode = "absent" THEN Zone("virtual_satellite", TRUE)
            ELSE [doc.zones[n] EXCEPT !.id = TRUE]]]

-----------------------------------------------------------------------------
ConfigInit ==
  /\ file \in Documents \cup {DefaultDocument}
  /\ cli = None /\ paired = {} /\ meant = file

\* The user writes the file, or removes it: then load writes another.
UserEdits ==
  /\ file' \in (Documents \cup {DefaultDocument}) \ {file} /\ paired' = {} /\ meant' = file'
  /\ UNCHANGED cli

\* pair and recover-id load the file and wait; a role of None is recovery.  They share the serial
\* port with the service, which does not run meanwhile.
CliStarts ==
  /\ cli = None /\ file # Torn /\ Loads(file)
  /\ \E role \in Roles \cup {None} : cli' = [role |-> role, doc |-> file, heard |-> FALSE, had |-> paired]
  /\ UNCHANGED <<file, paired, meant>>

\* The broadcast is heard (and answered, when pairing).
BroadcastHeard ==
  /\ cli # None /\ ~cli.heard
  /\ cli' = [cli EXCEPT !.heard = TRUE,
                        !.doc = [(IF cli.role = None THEN @ ELSE SetIdentity(@, cli.role)) EXCEPT !.network = TRUE]]
  /\ UNCHANGED <<file, paired, meant>>

CliSaves ==
  /\ cli # None /\ cli.heard
  /\ file' = Saved(cli.doc) /\ meant' = cli.doc
  /\ paired' = cli.had \cup ({cli.role} \ {None})
  /\ cli' = None

\* No broadcast comes, or the command is interrupted.
CliGivesUp ==
  /\ cli # None
  /\ cli' = None
  /\ UNCHANGED <<file, paired, meant>>

\* It is interrupted while it writes the file.
CliDies ==
  /\ cli # None /\ cli.heard
  /\ file' \in CutShort(Saved(cli.doc)) /\ meant' = cli.doc
  /\ cli' = None /\ paired' = {}

-----------------------------------------------------------------------------
\* The zone is configured as it was meant to be: its mode, and what the bridge drives it with if it is
\* one of its own.  The maximum of a flow curve may have lost digits.
ZoneAsMeant(n) ==
  LET zone == file.zones[n]
      asked == meant.zones[n]
  IN  /\ zone.mode = asked.mode
      /\ zone.mode \in VirtualModes => zone.id = asked.id
      /\ zone.mode = "flow_temp" =>
           zone.curve \in {asked.curve, "lowered"} /\ (zone.fallback = "absent" <=> asked.fallback = "absent")

ConnectAsMeant ==
  file.connect.mode = meant.connect.mode /\ (file.connect.mode # "passive" => file.connect.id = meant.connect.id)

\* A configuration that load accepts, whoever wrote the file and wherever a save of it was cut short, is
\* what it was meant to be up to some table, and after it nothing: no zone is left that lacks the identity,
\* curve or fallback it had, none before one that is as it should be, and no Connect that lost its identity.
RunsAsMeant ==
  LET lost(n) == \A m \in ZoneNumbers : m >= n => file.zones[m].mode = "absent"
  IN  file # Torn /\ Loads(file) =>
        /\ ConnectAsMeant \/ (file.connect.mode = "absent" /\ file.sonde = "absent" /\ lost(1))
        /\ file.sonde = meant.sonde \/ (file.sonde = "absent" /\ lost(1))
        /\ \A n \in ZoneNumbers : ZoneAsMeant(n) \/ lost(n)

\* The one pairing that load refuses: another zone's satellite, which makes that zone a virtual
\* satellite, where zone 1 has a profile.
PairedBeside(doc, roles) ==
  doc.zones[1].mode \in Profiles /\ roles \cap {Satellite(n) : n \in ZoneNumbers \ {1}} # {}

\* What pair has saved loads again with the identities it was asked for, that one pairing excepted.
PairedFileLoads ==
  paired # {} =>
    /\ paired \subseteq Identities(file)
    /\ Loads(file) \/ PairedBeside(file, paired)
=============================================================================

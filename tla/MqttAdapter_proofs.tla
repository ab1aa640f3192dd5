-------------------------- MODULE MqttAdapter_proofs --------------------------
(***************************************************************************)
(* What holds of the configuration and of the MQTT adapter for any zones,  *)
(* documents, modes and bounds: a configuration that loads is what it was  *)
(* meant to be, what pairing saved loads, the bridge knows what the broker *)
(* retains, and no entity of a former run is forgotten.                    *)
(***************************************************************************)
EXTENDS MqttAdapter, SequenceTheorems, FiniteSetTheorems, TLAPS

-----------------------------------------------------------------------------
(* Documents.                                                              *)

\* A save loses nothing.
LEMMA SavedIsSame == ASSUME NEW doc \in DocumentType PROVE Saved(doc) = doc
  BY DEF Saved, ZoneTable, DocumentType

LEMMA NoZoneType == NoZone \in ZoneType
  BY DEF NoZone, Zone, ZoneType

LEMMA DefaultType == DefaultDocument \in DocumentType
  BY NoZoneType DEF DefaultDocument, Document, DocumentType

LEMMA CutZoneType ==
  ASSUME NEW whole \in ZoneType, NEW zone \in CutZone(whole)
  PROVE  zone \in ZoneType
<1>1. CASE zone = NoZone
  BY <1>1, NoZoneType
<1>2. CASE zone = Zone(whole.mode, FALSE) \/ zone = Zone(whole.mode, whole.id)
  <2>1. whole.mode \in ZoneModes \cup {"absent"} /\ whole.id \in BOOLEAN
    BY DEF ZoneType
  <2>2. \A id \in BOOLEAN : Zone(whole.mode, id) \in ZoneType
    BY <2>1 DEF Zone, ZoneType
  <2>3. QED BY <1>2, <2>1, <2>2
<1>3. CASE zone = [whole EXCEPT !.curve = "absent"] \/ zone = whole
  BY <1>3 DEF ZoneType
<1>4. CASE zone \in CutCurve(whole)
  BY <1>4 DEF CutCurve
<1>5. QED BY <1>1, <1>2, <1>3, <1>4 DEF CutZone

\* A save that is cut short leaves nothing that parses, or a document.
LEMMA CutShortType ==
  ASSUME NEW doc \in DocumentType, NEW cut \in CutShort(doc)
  PROVE  cut = Torn \/ cut \in DocumentType
<1>1. ASSUME NEW connect \in {doc.connect, DefaultDocument.connect, [doc.connect EXCEPT !.id = FALSE]}
      PROVE  [DefaultDocument EXCEPT !.network = doc.network, !.connect = connect] \in DocumentType
  BY <1>1, DefaultType DEF DocumentType
<1>2. ASSUME NEW k \in ZoneNumbers, NEW zone \in CutZone(doc.zones[k])
      PROVE  [doc EXCEPT !.zones = [n \in ZoneNumbers |->
                CASE n < k -> doc.zones[n] [] n = k -> zone [] OTHER -> NoZone]] \in DocumentType
  <2>1. doc.zones[k] \in ZoneType /\ \A n \in ZoneNumbers : doc.zones[n] \in ZoneType
    BY DEF DocumentType
  <2>2. zone \in ZoneType
    BY <1>2, <2>1, CutZoneType
  <2>3. ASSUME NEW n \in ZoneNumbers
        PROVE  (CASE n < k -> doc.zones[n] [] n = k -> zone [] OTHER -> NoZone) \in ZoneType
    BY <2>1, <2>2, NoZoneType, ConfigurationAssumption
  <2>4. [n \in ZoneNumbers |-> CASE n < k -> doc.zones[n] [] n = k -> zone [] OTHER -> NoZone]
          \in [ZoneNumbers -> ZoneType]
    BY <2>3
  <2>5. QED BY <2>4 DEF DocumentType
<1>3. QED BY <1>1, <1>2 DEF CutShort

\* The zones have satellites of their own.
LEMMA SatelliteInjective ==
  /\ \A n \in ZoneNumbers : Satellite(n) \notin {"connect", "sonde"}
  /\ \A m, n \in ZoneNumbers : Satellite(m) = Satellite(n) => m = n
  BY ConfigurationAssumption DEF Satellite

-----------------------------------------------------------------------------
(* set_identity.                                                           *)

LEMMA SetIdentityType ==
  ASSUME NEW doc \in DocumentType, NEW role \in Roles
  PROVE  SetIdentity(doc, role) \in DocumentType
<1>1. CASE role = "connect"
  BY <1>1 DEF SetIdentity, DocumentType
<1>2. CASE role = "sonde"
  BY <1>2 DEF SetIdentity, DocumentType
<1>3. CASE role \notin {"connect", "sonde"}
  <2> DEFINE Given(n) ==
        IF Satellite(n) # role THEN doc.zones[n]
        ELSE IF doc.zones[n].mode = "absent" THEN Zone("virtual_satellite", TRUE)
        ELSE [doc.zones[n] EXCEPT !.id = TRUE]
  <2>1. ASSUME NEW n \in ZoneNumbers PROVE Given(n) \in ZoneType
    <3>1. doc.zones[n] \in ZoneType
      BY DEF DocumentType
    <3>2. QED BY <3>1 DEF ZoneType, Zone, ZoneModes, VirtualModes
  <2>2. [n \in ZoneNumbers |-> Given(n)] \in [ZoneNumbers -> ZoneType]
    BY <2>1
  <2>3. SetIdentity(doc, role) = [doc EXCEPT !.zones = [n \in ZoneNumbers |-> Given(n)]]
    BY <1>3 DEF SetIdentity
  <2> HIDE DEF Given
  <2>4. QED BY <2>2, <2>3 DEF DocumentType
<1>4. QED BY <1>1, <1>2, <1>3

\* What set_identity does to each zone.
LEMMA SetIdentityZones ==
  ASSUME NEW doc \in DocumentType, NEW role \in Roles \ {"connect", "sonde"}, NEW n \in ZoneNumbers
  PROVE  SetIdentity(doc, role).zones[n] =
           IF Satellite(n) # role THEN doc.zones[n]
           ELSE IF doc.zones[n].mode = "absent" THEN Zone("virtual_satellite", TRUE)
           ELSE [doc.zones[n] EXCEPT !.id = TRUE]
<1> DEFINE Given(k) ==
      IF Satellite(k) # role THEN doc.zones[k]
      ELSE IF doc.zones[k].mode = "absent" THEN Zone("virtual_satellite", TRUE)
      ELSE [doc.zones[k] EXCEPT !.id = TRUE]
<1>1. SetIdentity(doc, role) = [doc EXCEPT !.zones = [k \in ZoneNumbers |-> Given(k)]]
  BY DEF SetIdentity
<1>2. SetIdentity(doc, role).zones = [k \in ZoneNumbers |-> Given(k)]
  <2> HIDE DEF Given
  <2> QED BY <1>1 DEF DocumentType
<1>3. QED BY <1>2

\* The rest of the document stays.
LEMMA SetIdentityRest ==
  ASSUME NEW doc \in DocumentType, NEW role \in Roles \ {"connect", "sonde"}
  PROVE  SetIdentity(doc, role).connect = doc.connect /\ SetIdentity(doc, role).sonde = doc.sonde
<1> DEFINE zones ==
      [n \in ZoneNumbers |->
         IF Satellite(n) # role THEN doc.zones[n]
         ELSE IF doc.zones[n].mode = "absent" THEN Zone("virtual_satellite", TRUE)
         ELSE [doc.zones[n] EXCEPT !.id = TRUE]]
<1>1. SetIdentity(doc, role) = [doc EXCEPT !.zones = zones]
  BY DEF SetIdentity
<1> HIDE DEF zones
<1>2. QED BY <1>1 DEF DocumentType

\* The role has its identity, and no other loses its own.
LEMMA SetIdentityIdentities ==
  ASSUME NEW doc \in DocumentType, NEW role \in Roles
  PROVE  Identities(doc) \cup {role} \subseteq Identities(SetIdentity(doc, role))
<1>1. CASE role = "connect"
  BY <1>1 DEF SetIdentity, Identities, DocumentType
<1>2. CASE role = "sonde"
  BY <1>2 DEF SetIdentity, Identities, DocumentType
<1>3. CASE role \notin {"connect", "sonde"}
  <2> DEFINE new == SetIdentity(doc, role)
  <2>1. new.connect = doc.connect /\ new.sonde = doc.sonde
    BY <1>3, SetIdentityRest
  <2>2. \A n \in ZoneNumbers : doc.zones[n].id \/ Satellite(n) = role => new.zones[n].id
    <3> TAKE n \in ZoneNumbers
    <3>1. doc.zones[n] \in ZoneType
      BY DEF DocumentType
    <3>2. CASE Satellite(n) # role
      BY <1>3, <3>2, SetIdentityZones
    <3>3. CASE Satellite(n) = role
      <4>1. Zone("virtual_satellite", TRUE).id
        BY DEF Zone
      <4>2. [doc.zones[n] EXCEPT !.id = TRUE].id
        BY <3>1 DEF ZoneType
      <4>3. new.zones[n] = Zone("virtual_satellite", TRUE) \/ new.zones[n] = [doc.zones[n] EXCEPT !.id = TRUE]
        BY <1>3, <3>3, SetIdentityZones
      <4>4. CASE new.zones[n] = Zone("virtual_satellite", TRUE)
        BY <4>1, <4>4, Zenon
      <4>5. CASE new.zones[n] = [doc.zones[n] EXCEPT !.id = TRUE]
        BY <4>2, <4>5, Zenon
      <4>6. QED BY <4>3, <4>4, <4>5
    <3>4. QED BY <3>2, <3>3
  <2>3. PICK k \in ZoneNumbers : role = Satellite(k)
    BY <1>3 DEF Roles
  <2> HIDE DEF new
  <2>4. Identities(doc) \cup {role} \subseteq Identities(new)
    BY <2>1, <2>2, <2>3 DEF Identities
  <2>5. QED BY <2>4 DEF new
<1>4. QED BY <1>1, <1>2, <1>3

\* The document loads again, but for a zone paired beside a profile.
LEMMA SetIdentityLoads ==
  ASSUME NEW doc \in DocumentType, NEW role \in Roles, Loads(doc)
  PROVE  Loads(SetIdentity(doc, role)) \/ PairedBeside(SetIdentity(doc, role), {role})
<1> DEFINE new == SetIdentity(doc, role)
<1>1. CASE role = "connect"
  <2>1. new.connect.id = TRUE /\ new.sonde = doc.sonde /\ new.zones = doc.zones
    BY <1>1 DEF SetIdentity, DocumentType
  <2> HIDE DEF new
  <2>2. Loads(new)
    BY <2>1 DEF Loads, LoadConnect, ZoneTopology, ZoneEnabled, FlowTemp
  <2>3. QED BY <2>2 DEF new
<1>2. CASE role = "sonde"
  <2>1. new.connect = doc.connect /\ (doc.sonde = "on" => new.sonde = "on") /\ new.zones = doc.zones
    BY <1>2 DEF SetIdentity, DocumentType
  <2> HIDE DEF new
  <2>2. Loads(new)
    BY <2>1 DEF Loads, LoadConnect, ZoneTopology, ZoneEnabled, FlowTemp
  <2>3. QED BY <2>2 DEF new
<1>3. CASE role \notin {"connect", "sonde"}
  <2>1. new.connect = doc.connect /\ new.sonde = doc.sonde
    BY <1>3, SetIdentityRest
  <2>2. \A n \in ZoneNumbers :
          new.zones[n] = IF Satellite(n) # role THEN doc.zones[n]
                         ELSE IF doc.zones[n].mode = "absent" THEN Zone("virtual_satellite", TRUE)
                         ELSE [doc.zones[n] EXCEPT !.id = TRUE]
    BY <1>3, SetIdentityZones
  <2>3. PICK k \in ZoneNumbers : role = Satellite(k)
    BY <1>3 DEF Roles
  <2> HIDE DEF new
  <2>4. \A n \in ZoneNumbers : doc.zones[n] \in ZoneType /\ LoadZone(doc.zones[n], n)
    BY DEF Loads, DocumentType
  <2>5. \A n \in ZoneNumbers : LoadZone(new.zones[n], n)
    <3> TAKE n \in ZoneNumbers
    <3>1. CASE Satellite(n) # role
      BY <2>2, <2>4, <3>1
    <3>2. CASE Satellite(n) = role /\ doc.zones[n].mode = "absent"
      <4>1. new.zones[n] = Zone("virtual_satellite", TRUE)
        BY <2>2, <3>2
      <4>2. QED BY <4>1 DEF Zone, LoadZone, LoadHeatingCurve, Profiles
    <3>3. CASE Satellite(n) = role /\ doc.zones[n].mode # "absent"
      <4>1. new.zones[n] = [doc.zones[n] EXCEPT !.id = TRUE]
        BY <2>2, <3>3
      <4>2. new.zones[n].id = TRUE /\ new.zones[n].mode = doc.zones[n].mode
            /\ new.zones[n].curve = doc.zones[n].curve /\ new.zones[n].fallback = doc.zones[n].fallback
        BY <2>4, <4>1 DEF ZoneType
      <4>3. QED BY <2>4, <4>2 DEF LoadZone
    <3>4. QED BY <3>1, <3>2, <3>3
  <2>6. \A n \in ZoneNumbers : n # k => new.zones[n] = doc.zones[n]
    BY <2>2, <2>3, SatelliteInjective
  <2>7. new.zones[1].mode \in Profiles => doc.zones[1].mode = new.zones[1].mode
    <3>1. Zone("virtual_satellite", TRUE).mode \notin Profiles
      BY DEF Zone, Profiles
    <3>2. [doc.zones[1] EXCEPT !.id = TRUE].mode = doc.zones[1].mode
      BY <2>4, ConfigurationAssumption DEF ZoneType
    <3>3. QED BY <2>2, <3>1, <3>2, ConfigurationAssumption
  <2>8. CASE new.zones[1].mode \in Profiles /\ k # 1
    BY <2>3, <2>8 DEF PairedBeside, new
  <2>9. CASE new.zones[1].mode \in Profiles /\ k = 1
    <3>1. \A n \in ZoneNumbers \ {1} : ~ZoneEnabled(new, n)
      BY <2>6, <2>7, <2>9 DEF ZoneEnabled, Loads, ZoneTopology
    <3>2. ZoneTopology(new)
      BY <2>1, <2>7, <2>9, <3>1 DEF ZoneTopology, Loads, FlowTemp
    <3>3. Loads(new)
      BY <2>1, <2>5, <3>2 DEF Loads
    <3>4. QED BY <3>3 DEF new
  <2>10. CASE new.zones[1].mode \notin Profiles
    <3>1. Loads(new)
      BY <2>1, <2>5, <2>10 DEF Loads, ZoneTopology
    <3>2. QED BY <3>1 DEF new
  <2>11. QED BY <2>8, <2>9, <2>10
<1>4. QED BY <1>1, <1>2, <1>3

-----------------------------------------------------------------------------
(* The file and those who write it.                                        *)

\* A pairing under way: what it loaded and, once the broadcast is heard, what it will save.
CliType == [role : Roles \cup {None}, doc : DocumentType, heard : BOOLEAN, had : SUBSET Roles]
NowPaired(c) == c.had \cup ({c.role} \ {None})

CliSound(c) ==
  /\ c \in CliType
  /\ c.had \subseteq Identities(c.doc)
  /\ ~c.heard => Loads(c.doc)
  /\ c.heard => /\ NowPaired(c) \subseteq Identities(c.doc)
                /\ Loads(c.doc) \/ PairedBeside(c.doc, NowPaired(c))

FileSound ==
  /\ file = Torn \/ file \in DocumentType
  /\ paired \subseteq Roles
  /\ paired # {} => file \in DocumentType
  /\ PairedFileLoads
  /\ cli = None \/ CliSound(cli)
  /\ meant \in DocumentType /\ file \in {meant} \cup CutShort(meant)

\* The network id in a document has no part in what loads or who is in it.
LEMMA NetworkNeutral ==
  ASSUME NEW doc \in DocumentType, NEW roles
  PROVE  LET new == [doc EXCEPT !.network = TRUE]
         IN  /\ new \in DocumentType /\ Identities(new) = Identities(doc)
             /\ Loads(new) <=> Loads(doc)
             /\ PairedBeside(new, roles) <=> PairedBeside(doc, roles)
<1> DEFINE new == [doc EXCEPT !.network = TRUE]
<1>1. new \in DocumentType /\ new.connect = doc.connect /\ new.sonde = doc.sonde /\ new.zones = doc.zones
  BY DEF DocumentType
<1> HIDE DEF new
<1>2. Identities(new) = Identities(doc)
  BY <1>1 DEF Identities
<1>3. Loads(new) <=> Loads(doc)
  BY <1>1 DEF Loads, ZoneTopology, ZoneEnabled, FlowTemp
<1>4. PairedBeside(new, roles) <=> PairedBeside(doc, roles)
  BY <1>1 DEF PairedBeside
<1>5. QED BY <1>1, <1>2, <1>3, <1>4 DEF new

\* The document a pairing saves once it has heard the broadcast.
LEMMA HeardSound ==
  ASSUME FileSound, cli # None, BroadcastHeard
  PROVE  CliSound(cli)'
<1> DEFINE doc == IF cli.role = None THEN cli.doc ELSE SetIdentity(cli.doc, cli.role)
           new == [doc EXCEPT !.network = TRUE]
<1>1. cli \in CliType /\ CliSound(cli) /\ Loads(cli.doc)
  BY DEF FileSound, CliSound, BroadcastHeard
<1>2. cli.doc \in DocumentType /\ cli.role \in Roles \cup {None} /\ cli.had \in SUBSET Roles
  BY <1>1 DEF CliType
<1>3. doc \in DocumentType
  BY <1>2, SetIdentityType
<1>4. NowPaired(cli) \subseteq Identities(doc)
  <2>1. CASE cli.role = None
    BY <1>1, <2>1 DEF NowPaired, CliSound
  <2>2. CASE cli.role # None
    BY <1>1, <1>2, <2>2, SetIdentityIdentities DEF NowPaired, CliSound
  <2>3. QED BY <2>1, <2>2
<1>5. Loads(doc) \/ PairedBeside(doc, NowPaired(cli))
  <2>1. CASE cli.role = None
    BY <1>1, <2>1
  <2>2. CASE cli.role # None
    <3>1. Loads(doc) \/ PairedBeside(doc, {cli.role})
      BY <1>1, <1>2, <2>2, SetIdentityLoads
    <3>2. QED BY <2>2, <3>1 DEF PairedBeside, NowPaired
  <2>3. QED BY <2>1, <2>2
<1>6. cli' = [cli EXCEPT !.heard = TRUE, !.doc = new]
  BY <1>1 DEF BroadcastHeard, CliType
<1> HIDE DEF doc
<1>7. new \in DocumentType /\ Identities(new) = Identities(doc)
      /\ (Loads(new) \/ PairedBeside(new, NowPaired(cli)))
  BY <1>3, <1>5, NetworkNeutral
<1> HIDE DEF new
<1>8. cli' \in CliType /\ cli'.heard = TRUE /\ cli'.doc = new /\ cli'.had = cli.had /\ cli'.role = cli.role
  BY <1>1, <1>6, <1>7 DEF CliType
<1>10. NowPaired(cli') = NowPaired(cli)
  BY <1>8 DEF NowPaired
<1>11. cli'.had \subseteq NowPaired(cli)
  BY <1>8 DEF NowPaired
<1>12. QED BY <1>4, <1>7, <1>8, <1>10, <1>11 DEF CliSound

\* No write of the file, whole or cut short, spoils it for load.
LEMMA FileSoundStep == FileSound /\ [Configure]_configVars => FileSound'
<1> SUFFICES ASSUME FileSound, [Configure]_configVars
             PROVE  FileSound'
  OBVIOUS
<1>1. CASE UserEdits
  <2>1. file' \in DocumentType /\ paired' = {} /\ cli' = cli /\ meant' = file'
    BY <1>1, DefaultType, DocumentsAssumption DEF UserEdits
  <2>2. QED BY <2>1 DEF FileSound, PairedFileLoads, CliSound
<1>2. CASE CliStarts
  <2>1. file \in DocumentType /\ Loads(file) /\ UNCHANGED <<file, paired, meant>>
    BY <1>2 DEF CliStarts, FileSound
  <2>2. PICK role \in Roles \cup {None} : cli' = [role |-> role, doc |-> file, heard |-> FALSE, had |-> paired]
    BY <1>2 DEF CliStarts
  <2>3. cli' \in CliType /\ cli'.heard = FALSE /\ cli'.doc = file /\ cli'.had = paired
    BY <2>1, <2>2 DEF CliType, FileSound
  <2>4. paired \subseteq Identities(file)
    BY DEF FileSound, PairedFileLoads
  <2>5. CliSound(cli)'
    BY <2>1, <2>3, <2>4 DEF CliSound
  <2>6. QED BY <2>1, <2>5 DEF FileSound, PairedFileLoads
<1>3. CASE BroadcastHeard
  <2>1. CliSound(cli)'
    BY <1>3, HeardSound DEF BroadcastHeard
  <2>2. UNCHANGED <<file, paired, meant>>
    BY <1>3 DEF BroadcastHeard
  <2>3. QED BY <2>1, <2>2 DEF FileSound, PairedFileLoads
<1>4. CASE CliSaves
  <2>1. CliSound(cli) /\ cli.heard
    BY <1>4 DEF CliSaves, FileSound
  <2>2. cli.doc \in DocumentType /\ NowPaired(cli) \subseteq Roles
    BY <2>1 DEF CliSound, CliType, NowPaired
  <2>3. file' = cli.doc /\ paired' = NowPaired(cli) /\ cli' = None /\ meant' = cli.doc
    BY <1>4, <2>2, SavedIsSame DEF CliSaves, NowPaired
  <2>4. QED BY <2>1, <2>2, <2>3 DEF FileSound, PairedFileLoads, CliSound
<1>5. CASE CliGivesUp
  BY <1>5 DEF CliGivesUp, FileSound, PairedFileLoads
<1>6. CASE CliDies
  <2>1. cli.doc \in DocumentType
    BY <1>6 DEF CliDies, FileSound, CliSound, CliType
  <2>2. file' \in CutShort(cli.doc) /\ meant' = cli.doc /\ paired' = {} /\ cli' = None
    BY <1>6, <2>1, SavedIsSame DEF CliDies
  <2>3. file' = Torn \/ file' \in DocumentType
    BY <2>1, <2>2, CutShortType
  <2>4. QED BY <2>1, <2>2, <2>3 DEF FileSound, PairedFileLoads
<1>7. CASE UNCHANGED configVars
  BY <1>7 DEF configVars, FileSound, PairedFileLoads, CliSound
<1>8. QED BY <1>1, <1>2, <1>3, <1>4, <1>5, <1>6, <1>7 DEF Configure

\* Only the commands and the user write the file.
LEMMA ConfigurationSteps == [Next]_vars => [Configure]_configVars
  BY DEF Next, vars, configVars, Start, Stop, Subscribe, Discover, PublishDevice, Noted, PublishMarker,
         ClearLegacy, HomeGoes, HomeReturns, Commands, HandleDevice, HandleLegacy, HandleBirth, HandleZone,
         HandleDhw, WriteSucceeds, WriteFails, Expire, Read, BoilerChanges, Take, Snapshot, Publish, Finish

LEMMA FileSoundInit == Init => FileSound
  BY DefaultType, DocumentsAssumption DEF Init, ConfigInit, FileSound, PairedFileLoads

LEMMA FileSoundAlways == Spec => []FileSound
<1>1. FileSound /\ [Next]_vars => FileSound'
  BY FileSoundStep, ConfigurationSteps
<1>2. QED BY <1>1, FileSoundInit, PTL DEF Spec

\* Of the tables of a zone, whole or cut short, load accepts those that drive it as was meant.
LEMMA CutZoneRuns ==
  ASSUME meant \in DocumentType, NEW n \in ZoneNumbers, file.zones[n] \in CutZone(meant.zones[n]),
         LoadZone(file.zones[n], n)
  PROVE  ZoneAsMeant(n) \/ file.zones[n] = NoZone
<1> DEFINE zone == file.zones[n]
           whole == meant.zones[n]
<1>1. whole \in ZoneType
  BY DEF DocumentType
<1>2. ASSUME NEW id \in {FALSE, whole.id}, zone = Zone(whole.mode, id) PROVE ZoneAsMeant(n)
  <2>1. zone.mode = whole.mode /\ zone.curve = "absent" /\ zone.id = id
    BY <1>2 DEF Zone
  <2>2. zone.mode \in VirtualModes => zone.id
    BY DEF LoadZone
  <2>3. zone.mode # "flow_temp"
    BY <2>1 DEF LoadZone
  <2> QED BY <1>2, <2>1, <2>2, <2>3 DEF ZoneAsMeant
<1>3. CASE zone = [whole EXCEPT !.curve = "absent"]
  <2>1. zone.mode = whole.mode /\ zone.id = whole.id /\ zone.curve = "absent"
    BY <1>1, <1>3 DEF ZoneType
  <2>2. zone.mode # "flow_temp"
    BY <2>1 DEF LoadZone
  <2> QED BY <2>1, <2>2 DEF ZoneAsMeant
<1>4. CASE zone \in CutCurve(whole)
  <2>1. /\ zone.mode = whole.mode /\ zone.id = whole.id /\ zone.curve \in {"lowered", "inverted"}
        /\ zone.fallback = "absent" <=> whole.fallback = "absent"
    BY <1>4 DEF CutCurve
  <2>2. zone.curve = "lowered"
    BY <2>1 DEF LoadZone, LoadHeatingCurve
  <2> QED BY <2>1, <2>2 DEF ZoneAsMeant
<1>5. CASE zone = whole
  BY <1>5 DEF ZoneAsMeant
<1> QED
  BY <1>2, <1>3, <1>4, <1>5 DEF CutZone

\* So does it of the documents.
LEMMA CutRuns ==
  ASSUME meant \in DocumentType, file \in CutShort(meant) PROVE RunsAsMeant
<1> SUFFICES ASSUME file # Torn, Loads(file) PROVE RunsAsMeant
  BY DEF RunsAsMeant
<1>a. NoZone.mode = "absent"
  BY DEF NoZone, Zone
<1>1. ASSUME NEW connect \in {meant.connect, DefaultDocument.connect, [meant.connect EXCEPT !.id = FALSE]},
             file = [DefaultDocument EXCEPT !.network = meant.network, !.connect = connect]
      PROVE  RunsAsMeant
  <2>1. /\ file.connect = connect /\ file.sonde = "absent"
        /\ \A n \in ZoneNumbers : file.zones[n].mode = "absent"
    BY <1>a, <1>1 DEF DefaultDocument, Document
  <2>2. connect.mode \in {"read", "full"} => connect.id
    BY <2>1 DEF Loads, LoadConnect
  <2>3. connect.mode = "absent" \/ ConnectAsMeant
    <3>1. CASE connect = meant.connect
      BY <2>1, <3>1 DEF ConnectAsMeant
    <3>2. CASE connect = DefaultDocument.connect
      BY <3>2 DEF DefaultDocument, Document
    <3>3. CASE connect = [meant.connect EXCEPT !.id = FALSE]
      <4>1. connect.mode = meant.connect.mode /\ connect.id = FALSE
            /\ connect.mode \in {"absent", "passive", "read", "full"}
        BY <3>3 DEF DocumentType
      <4> QED BY <2>1, <2>2, <4>1 DEF ConnectAsMeant
    <3> QED BY <3>1, <3>2, <3>3
  <2> QED BY <2>1, <2>3 DEF RunsAsMeant
<1>2. ASSUME NEW k \in ZoneNumbers, NEW zone \in CutZone(meant.zones[k]),
             file = [meant EXCEPT !.zones = [n \in ZoneNumbers |->
                       CASE n < k -> meant.zones[n] [] n = k -> zone [] OTHER -> NoZone]]
      PROVE  RunsAsMeant
  <2>1. /\ file.connect = meant.connect /\ file.sonde = meant.sonde
        /\ file.zones = [n \in ZoneNumbers |-> CASE n < k -> meant.zones[n] [] n = k -> zone [] OTHER -> NoZone]
    BY <1>2 DEF DocumentType
  <2>2. \A n \in ZoneNumbers : n \in Int
    BY ConfigurationAssumption
  <2>3. /\ file.zones[k] = zone
        /\ \A n \in ZoneNumbers : n < k => file.zones[n] = meant.zones[n]
        /\ \A n \in ZoneNumbers : n > k => file.zones[n] = NoZone
    BY <2>1, <2>2
  <2>4. ZoneAsMeant(k) \/ file.zones[k] = NoZone
    BY <1>2, <2>3, CutZoneRuns DEF Loads
  <2>5. ASSUME NEW n \in ZoneNumbers
        PROVE  ZoneAsMeant(n) \/ \A m \in ZoneNumbers : m >= n => file.zones[m].mode = "absent"
    <3>1. CASE n < k
      BY <2>3, <3>1 DEF ZoneAsMeant
    <3>2. CASE n = k
      BY <1>a, <2>2, <2>3, <2>4, <3>2
    <3>3. CASE n > k
      BY <1>a, <2>2, <2>3, <3>3
    <3> QED BY <2>2, <3>1, <3>2, <3>3
  <2>6. ConnectAsMeant
    BY <2>1 DEF ConnectAsMeant
  <2> QED BY <2>1, <2>5, <2>6 DEF RunsAsMeant
<1> QED
  BY <1>1, <1>2 DEF CutShort

\* A configuration that load accepts, wherever a save of it was cut short, is what it was meant to be, but
\* for the tables at its end.
THEOREM LoadedIsMeant == Spec => []RunsAsMeant
<1>1. FileSound => RunsAsMeant
  <2> SUFFICES ASSUME FileSound PROVE RunsAsMeant
    OBVIOUS
  <2>1. CASE file = meant
    BY <2>1 DEF RunsAsMeant, ConnectAsMeant, ZoneAsMeant
  <2>2. CASE file \in CutShort(meant)
    BY <2>2, CutRuns DEF FileSound
  <2> QED BY <2>1, <2>2 DEF FileSound
<1>2. QED BY <1>1, FileSoundAlways, PTL

\* What pair has saved loads again, with every identity it was asked for.
THEOREM PairingLasts == Spec => []PairedFileLoads
<1>1. FileSound => PairedFileLoads
  BY DEF FileSound
<1>2. QED BY <1>1, FileSoundAlways, PTL

-----------------------------------------------------------------------------
(* Publication.                                                            *)

\* One task at a time publishes: what it compares with is retained, and what it published still is.
Published ==
  /\ phase \in [Tasks -> {"idle", "comparing", "published"}]
  /\ snap = [t \in Tasks |-> snap[t]]
  /\ lock \in Tasks \cup {None}
  /\ \A t \in Tasks : phase[t] # "idle" <=> lock = t
  /\ \A t \in Tasks : phase[t] = "published" => snap[t] = shown
  /\ (\A t \in Tasks : phase[t] # "published") => record \in {None, shown}

\* The steps that have no part in it.
LEMMA OtherSteps ==
  [Next]_vars =>
    \/ UNCHANGED <<publishing, shown>> \/ Stop \/ HandleBirth
    \/ \E t \in Tasks : Take(t) \/ Publish(t) \/ Finish(t)
  BY DEF Next, vars, broker, publishing, Start, Configure, Subscribe, Discover, PublishDevice, Noted, PublishMarker,
         ClearLegacy, HomeGoes, HomeReturns, Commands, HandleDevice, HandleLegacy, HandleZone,
         HandleDhw, WriteSucceeds, WriteFails, Expire, Read, BoilerChanges

LEMMA PublishedStep == Published /\ [Next]_vars => Published'
<1> SUFFICES ASSUME Published, [Next]_vars PROVE Published'
  OBVIOUS
<1>1. CASE UNCHANGED <<publishing, shown>>
  BY <1>1 DEF publishing, Published
<1>2. CASE Stop
  <2>1. record' = None /\ lock' = None
        /\ phase' = [t \in Tasks |-> "idle"] /\ snap' = [t \in Tasks |-> None]
    BY <1>2 DEF Stop
  <2>2. QED BY <2>1, MqttAdapterAssumption DEF Published
<1>3. CASE HandleBirth
  <2>1. record' = None /\ UNCHANGED <<lock, phase, snap, shown>>
    BY <1>3 DEF HandleBirth, broker
  <2>2. QED BY <2>1 DEF Published
<1>4. ASSUME NEW t \in Tasks, Take(t) PROVE Published'
  <2>1. PICK value : /\ phase' = [phase EXCEPT ![t] = "comparing"]
                     /\ snap' = [snap EXCEPT ![t] = value]
                     /\ UNCHANGED <<record, shown>>
    BY <1>4 DEF Take, Snapshot, broker
  <2>2. lock = None /\ lock' = t
    BY <1>4 DEF Take
  <2>3. \A u \in Tasks : phase[u] = "idle"
    BY <2>2, MqttAdapterAssumption DEF Published
  <2>4. QED BY <2>1, <2>2, <2>3 DEF Published
<1>5. ASSUME NEW t \in Tasks, Publish(t) PROVE Published'
  <2>1. /\ phase[t] = "comparing" /\ shown' = snap[t]
        /\ phase' = [phase EXCEPT ![t] = "published"]
        /\ UNCHANGED <<record, lock, snap>>
    BY <1>5 DEF Publish
  <2>2. \A u \in Tasks : u # t => phase[u] = "idle"
    BY <2>1 DEF Published
  <2>3. QED BY <2>1, <2>2 DEF Published
<1>6. ASSUME NEW t \in Tasks, Finish(t) PROVE Published'
  <2>1. /\ phase[t] # "idle" /\ lock' = None /\ shown' = shown
        /\ phase' = [phase EXCEPT ![t] = "idle"] /\ snap' = [snap EXCEPT ![t] = None]
    BY <1>6 DEF Finish, broker
  <2>2. \A u \in Tasks : u # t => phase[u] = "idle"
    BY <2>1 DEF Published
  <2>3. record' \in {None, shown}
    <3>1. CASE phase[t] = "published" /\ record' = snap[t]
      BY <3>1 DEF Published
    <3>2. CASE phase[t] = "comparing" /\ record' = record
      BY <2>2, <3>2 DEF Published
    <3>3. QED BY <1>6, <3>1, <3>2 DEF Finish
  <2>4. QED BY <2>1, <2>2, <2>3, MqttAdapterAssumption DEF Published
<1>7. QED BY <1>1, <1>2, <1>3, <1>4, <1>5, <1>6, OtherSteps

\* Whatever task published last, the bridge takes for published what the broker retains.
THEOREM RecordMatchesBroker == Spec => []RecordIsShown
<1>1. Init => Published
  BY MqttAdapterAssumption DEF Init, AdapterInit, Published
<1>2. Published => RecordIsShown
  BY DEF Published, RecordIsShown
<1>3. QED BY <1>1, <1>2, PublishedStep, PTL DEF Spec

-----------------------------------------------------------------------------
(* What a configuration exposes, and types.                                *)

LEMMA ComponentsType ==
  ASSUME NEW doc, NEW ops \in SUBSET Operations
  PROVE  Components(doc, ops) \subseteq Keys
<1>1. \A n \in ZoneNumbers : n \in 0 .. 3
  BY ConfigurationAssumption
<1>2. ASSUME NEW n \in ZoneNumbers PROVE ZoneComponents(doc, n) \subseteq Keys
  BY <1>1 DEF ZoneComponents, Keys
<1>3. ASSUME NEW o \in ops PROVE <<"rf", o>> \in Keys
  BY DEF Keys
<1>4. <<IF WritesEnabled(doc) THEN "select_dhw" ELSE "sensor_dhw", 0>> \in Keys
  BY DEF Keys
<1>5. <<"sensor_boiler", 0>> \in Keys /\ <<"number_outside", 0>> \in Keys
  BY DEF Keys
<1>6. (UNION {ZoneComponents(doc, n) : n \in {m \in ZoneNumbers : ZoneEnabled(doc, m)}}) \subseteq Keys
  BY <1>2
<1>7. {<<"rf", o>> : o \in ops} \subseteq Keys
  BY <1>3
<1> QED
  BY <1>4, <1>5, <1>6, <1>7 DEF Components

\* More operations only add entities.
LEMMA ComponentsGrow ==
  ASSUME NEW doc, NEW few, NEW more, few \subseteq more
  PROVE  Components(doc, few) \subseteq Components(doc, more)
  BY DEF Components

LEMMA DiagnosticsType == ASSUME NEW doc PROVE RfDiagnostics(doc) \subseteq Operations
  BY DEF RfDiagnostics, Operations

\* The steps of a plan and the messages, each with what it needs.
Whats == Legacy \cup Modes \cup {None, "changed", "forced"}
Steps ==
  {s \in [do : {"subscribe", "discover", "state", "device", "noted", "marker", "clear", "write",
                "legacy", "birth", "zone", "dhw"},
          keys : SUBSET Keys, gone : SUBSET Keys, what : Whats] :
     /\ s.do \in {"write", "dhw"} => s.what \in Modes
     /\ s.do \in {"marker", "clear", "legacy"} => s.what \in Legacy
     /\ s.do \notin {"device", "noted"} => s.keys = {}}

LEMMA StepsType ==
  /\ \A do \in {"subscribe", "state", "birth", "zone"} : Do(do, None) \in Steps
  /\ Do("discover", "changed") \in Steps /\ Do("discover", "forced") \in Steps
  /\ \A k \in Legacy : Do("legacy", k) \in Steps /\ Do("marker", k) \in Steps /\ Do("clear", k) \in Steps
  /\ \A m \in Modes : Do("write", m) \in Steps /\ Do("dhw", m) \in Steps
  /\ \A keys \in SUBSET Keys : \A gone \in SUBSET Keys :
       Step("device", keys, gone, None) \in Steps /\ Step("noted", keys, gone, None) \in Steps
  BY DEF Steps, Do, Step, Whats

\* A step put before a plan.
LEMMA Cons ==
  ASSUME NEW S, NEW e \in S, NEW s \in Seq(S)
  PROVE  /\ <<e>> \o s \in Seq(S) /\ <<e>> \o s # <<>>
         /\ Head(<<e>> \o s) = e /\ Tail(<<e>> \o s) = s
<1>1. <<e>> \in Seq(S) /\ Len(<<e>>) = 1 /\ <<e>>[1] = e
  OBVIOUS
<1> DEFINE c == <<e>> \o s
<1>2. c \in Seq(S) /\ Len(c) = 1 + Len(s) /\ Len(s) \in Nat
      /\ \A i \in 1 .. 1 + Len(s) : c[i] = IF i <= 1 THEN <<e>>[i] ELSE s[i - 1]
  BY <1>1, ConcatProperties, LenProperties
<1> HIDE DEF c
<1>3. c # <<>> /\ Head(c) = e
  BY <1>1, <1>2
<1>4. Tail(c) \in Seq(S) /\ Len(Tail(c)) = Len(s) /\ \A i \in 1 .. Len(s) : Tail(c)[i] = s[i]
  BY <1>2, <1>3, HeadTailProperties
<1>5. Tail(c) = s
  BY <1>4, SeqEqual
<1> QED
  BY <1>2, <1>3, <1>5 DEF c

\* What a queue holds after an arrival, and after its first element left.
Elements(q) == {q[i] : i \in DOMAIN q}

LEMMA QueueElements ==
  ASSUME NEW S, NEW q \in Seq(S)
  PROVE  /\ \A e \in S : Elements(Append(q, e)) = Elements(q) \cup {e}
         /\ q # <<>> => Elements(q) = {Head(q)} \cup Elements(Tail(q))
         /\ \A s \in Seq(S) : Elements(q \o s) = Elements(q) \cup Elements(s)
<1>1. ASSUME NEW e \in S
      PROVE  Elements(Append(q, e)) = Elements(q) \cup {e}
  <2>1. Append(q, e) \in Seq(S) /\ Len(Append(q, e)) = Len(q) + 1
        /\ (\A i \in 1 .. Len(q) : Append(q, e)[i] = q[i]) /\ Append(q, e)[Len(q) + 1] = e
    BY AppendProperties
  <2>2. DOMAIN q = 1 .. Len(q) /\ DOMAIN Append(q, e) = 1 .. Len(q) + 1 /\ Len(q) \in Nat
    BY <2>1, LenProperties
  <2> DEFINE c == Append(q, e)
  <2> HIDE DEF c
  <2>3. \A i \in DOMAIN q : i \in DOMAIN c /\ c[i] = q[i]
    BY <2>1, <2>2 DEF c
  <2>4. Len(q) + 1 \in DOMAIN c /\ c[Len(q) + 1] = e
    BY <2>1, <2>2 DEF c
  <2>5. \A i \in DOMAIN c : i \in DOMAIN q \/ i = Len(q) + 1
    BY <2>2 DEF c
  <2> QED BY <2>3, <2>4, <2>5 DEF c, Elements
<1>2. ASSUME q # <<>>
      PROVE  Elements(q) = {Head(q)} \cup Elements(Tail(q))
  <2>1. Tail(q) \in Seq(S) /\ Len(Tail(q)) = Len(q) - 1 /\ \A i \in 1 .. Len(Tail(q)) : Tail(q)[i] = q[i + 1]
    BY <1>2, HeadTailProperties
  <2>2. DOMAIN q = 1 .. Len(q) /\ DOMAIN Tail(q) = 1 .. Len(q) - 1 /\ Len(q) \in Nat /\ Len(q) > 0
    BY <1>2, <2>1, LenProperties, EmptySeq
  <2>3. Head(q) = q[1]
    BY <1>2
  <2> DEFINE t == Tail(q)
             h == Head(q)
  <2> HIDE DEF t, h
  <2>4. \A i \in DOMAIN q : q[i] = h \/ (i - 1 \in DOMAIN t /\ t[i - 1] = q[i])
    BY <2>1, <2>2, <2>3 DEF t, h
  <2>5. \A i \in DOMAIN t : i + 1 \in DOMAIN q /\ t[i] = q[i + 1]
    BY <2>1, <2>2 DEF t
  <2>6. 1 \in DOMAIN q /\ q[1] = h
    BY <2>2, <2>3 DEF h
  <2> QED BY <2>4, <2>5, <2>6 DEF t, h, Elements
<1>3. ASSUME NEW s \in Seq(S)
      PROVE  Elements(q \o s) = Elements(q) \cup Elements(s)
  <2> DEFINE c == q \o s
  <2>1. c \in Seq(S) /\ Len(c) = Len(q) + Len(s)
        /\ \A i \in 1 .. Len(q) + Len(s) : c[i] = IF i <= Len(q) THEN q[i] ELSE s[i - Len(q)]
    BY ConcatProperties
  <2>2. DOMAIN q = 1 .. Len(q) /\ DOMAIN s = 1 .. Len(s) /\ DOMAIN c = 1 .. Len(q) + Len(s)
        /\ Len(q) \in Nat /\ Len(s) \in Nat
    BY <2>1, LenProperties
  <2> HIDE DEF c
  <2>3. \A i \in DOMAIN q : i \in DOMAIN c /\ c[i] = q[i]
    BY <2>1, <2>2
  <2>4. \A i \in DOMAIN s : i + Len(q) \in DOMAIN c /\ c[i + Len(q)] = s[i]
    BY <2>1, <2>2
  <2>5. \A i \in DOMAIN c : i \in DOMAIN q \/ (i - Len(q) \in DOMAIN s /\ c[i] = s[i - Len(q)])
    BY <2>1, <2>2
  <2>6. \A i \in DOMAIN c : c[i] \in {q[j] : j \in DOMAIN q} \cup {s[j] : j \in DOMAIN s}
    <3> TAKE i \in DOMAIN c
    <3>1. CASE i \in DOMAIN q
      BY <2>3, <3>1
    <3>2. CASE i - Len(q) \in DOMAIN s /\ c[i] = s[i - Len(q)]
      BY <3>2
    <3> QED BY <2>5, <3>1, <3>2
  <2>7. {q[i] : i \in DOMAIN q} \subseteq {c[i] : i \in DOMAIN c}
    BY <2>3
  <2>8. {s[i] : i \in DOMAIN s} \subseteq {c[i] : i \in DOMAIN c}
    BY <2>4
  <2> QED BY <2>6, <2>7, <2>8 DEF c, Elements
<1> QED
  BY <1>1, <1>2, <1>3

\* What a step that is taken carries.
LEMMA QueueType ==
  ASSUME NEW q \in Seq(Steps), q # <<>>
  PROVE  /\ Head(q) \in Steps /\ Tail(q) \in Seq(Steps)
         /\ Head(q).keys \subseteq Keys /\ Head(q).gone \subseteq Keys
         /\ Head(q).do \in {"write", "dhw"} => Head(q).what \in Modes
         /\ Head(q).do \in {"marker", "clear", "legacy"} => Head(q).what \in Legacy
<1>1. Head(q) \in Steps /\ Tail(q) \in Seq(Steps)
  BY HeadTailProperties
<1>2. QED BY <1>1 DEF Steps

LEMMA OneStep == ASSUME NEW S, NEW e \in S PROVE <<e>> \in Seq(S)
  OBVIOUS

\* The message task publishes the state when its plan says so; a bridge that has stopped does nothing.
Paced ==
  /\ phase["mqtt"] # "idle" => Doing("state")
  /\ cfg = None => plan = <<>> /\ inbox = <<>> /\ lock = None

LEMMA PacedStep == FileSound /\ Published /\ Paced /\ [Next]_vars => Paced'
<1> SUFFICES ASSUME FileSound, Published, Paced, [Next]_vars PROVE Paced'
  OBVIOUS
<1>1. CASE UNCHANGED <<cfg, plan, inbox, lock, phase>>
  BY <1>1 DEF Paced, Doing
<1>2. CASE Start
  <2>1. cfg' # None /\ UNCHANGED phase /\ plan = <<>>
    BY <1>2, DocumentsAssumption DEF Start, Paced, publishing, FileSound
  <2> QED BY <2>1 DEF Paced, Doing
<1>3. CASE Stop
  BY <1>3 DEF Stop, Paced, Tasks
<1>4. CASE \/ Subscribe \/ Discover \/ PublishDevice \/ Noted \/ PublishMarker \/ ClearLegacy
           \/ WriteSucceeds \/ WriteFails
  <2>1. plan # <<>> /\ Head(plan).do # "state" /\ UNCHANGED <<cfg, phase>>
    BY <1>4 DEF Subscribe, Discover, PublishDevice, Noted, PublishMarker, ClearLegacy, WriteSucceeds, WriteFails,
                Doing, publishing
  <2> QED BY <2>1 DEF Paced, Doing
<1>5. CASE HandleDevice \/ HandleLegacy \/ HandleBirth \/ HandleZone \/ HandleDhw
  <2>1. plan = <<>> /\ cfg # None /\ UNCHANGED <<cfg, phase>>
    BY <1>5 DEF HandleDevice, HandleLegacy, HandleBirth, HandleZone, HandleDhw, Message, publishing
  <2> QED BY <2>1 DEF Paced, Doing
<1>6. CASE HomeReturns \/ \E c \in HomeCommands : Commands(c)
  <2>1. (Listening \/ inbox' = inbox) /\ UNCHANGED <<cfg, plan, lock, phase>>
    BY <1>6 DEF HomeReturns, Commands, publishing
  <2> QED BY <2>1 DEF Paced, Doing, Listening
<1>7. ASSUME NEW t \in Tasks, Take(t) PROVE Paced'
  <2>1. cfg # None /\ (t = "mqtt" => Doing("state")) /\ UNCHANGED <<cfg, plan>>
        /\ phase' = [phase EXCEPT ![t] = "comparing"]
    BY <1>7 DEF Take, Wants, Snapshot, adapter
  <2> QED BY <2>1 DEF Paced, Doing, Published, Tasks
<1>8. ASSUME NEW t \in Tasks, Publish(t) PROVE Paced'
  <2>1. phase[t] # "idle" /\ UNCHANGED <<cfg, plan, inbox, lock>> /\ phase' = [phase EXCEPT ![t] = "published"]
    BY <1>8 DEF Publish, adapter
  <2> QED BY <2>1 DEF Paced, Doing, Published, Tasks
<1>9. ASSUME NEW t \in Tasks, Finish(t) PROVE Paced'
  <2>1. phase[t] # "idle" /\ UNCHANGED <<cfg, inbox>> /\ lock' = None /\ phase' = [phase EXCEPT ![t] = "idle"]
        /\ (t # "mqtt" => plan' = plan)
    BY <1>9 DEF Finish
  <2>2. cfg # None
    BY <2>1, MqttAdapterAssumption DEF Paced, Published
  <2> QED BY <2>1, <2>2 DEF Paced, Doing, Published, Tasks
<1> QED
  BY <1>1, <1>2, <1>3, <1>4, <1>5, <1>6, <1>7, <1>8, <1>9 DEF Next, Configure, Expire, Read, BoilerChanges, HomeGoes,
     vars, adapter, publishing

DiscoveryType ==
  /\ plan \in Seq(Steps) /\ inbox \in Seq(Steps)
  /\ rf \subseteq Operations /\ discovered \subseteq Keys
  /\ device \in [keys : SUBSET Keys, gone : SUBSET Keys]
  /\ legacy \in [Legacy -> {"config", "marker", "absent"}]
  /\ online \in BOOLEAN /\ entities \cup forgotten \subseteq Keys \cup Legacy

discovery == <<plan, inbox, rf, discovered, device, legacy, online, entities, forgotten>>

\* The steps that have a part in discovery, or end one of the plan.
LEMMA DiscoverySteps ==
  ASSUME [Next]_vars
  PROVE  \/ UNCHANGED <<cfg, last, discovery>>
         \/ Start \/ Stop
         \/ Subscribe \/ Discover \/ PublishDevice \/ Noted \/ PublishMarker \/ ClearLegacy
         \/ HomeGoes \/ HomeReturns
         \/ \E c \in HomeCommands : Commands(c)
         \/ HandleDevice \/ HandleLegacy \/ HandleBirth \/ HandleZone \/ HandleDhw
         \/ WriteSucceeds \/ WriteFails
         \/ Finish("mqtt")
<1> DEFINE same == UNCHANGED <<cfg, last, discovery>>
<1>1. ASSUME NEW t \in Tasks, Take(t) \/ Publish(t) \/ Finish(t)
      PROVE  same \/ Finish("mqtt")
  <2>1. Take(t) => same
    BY DEF Take, Snapshot, adapter, broker, home, discovery
  <2>2. Publish(t) => same
    BY DEF Publish, adapter, broker, home, discovery
  <2>3. t = "diagnostics" /\ Finish(t) => same
    BY DEF Finish, broker, home, discovery
  <2> QED BY <1>1, <2>1, <2>2, <2>3 DEF Tasks
<1>2. Configure \/ Expire \/ Read \/ BoilerChanges \/ UNCHANGED vars => same
  BY DEF Configure, Expire, Read, BoilerChanges, vars, adapter, broker, home, discovery
<1> HIDE DEF same
<1>3. QED BY <1>1, <1>2 DEF Next, same

LEMMA DiscoverType ==
  ASSUME DiscoveryType, Discover
  PROVE  plan' \in Seq(Steps)
<1> DEFINE now == Components(cfg, rf)
           gone == discovered \ now
           first == IF gone # {} THEN <<Step("device", now, gone, None)>> ELSE <<>>
           second == IF Head(plan).what = "forced" \/ gone # {} \/ last # {now}
                     THEN <<Step("device", now, {}, None)>> ELSE <<>>
           third == <<Step("noted", now, {}, None)>>
<1>1. now \in SUBSET Keys /\ gone \in SUBSET Keys /\ {} \in SUBSET Keys
  BY ComponentsType DEF DiscoveryType
<1>2. plan' = first \o second \o third \o Tail(plan)
  BY DEF Discover
<1> HIDE DEF now, gone
<1>3. Step("device", now, gone, None) \in Steps /\ Step("device", now, {}, None) \in Steps
      /\ Step("noted", now, {}, None) \in Steps
  BY <1>1, StepsType
<1>4. first \in Seq(Steps) /\ second \in Seq(Steps) /\ third \in Seq(Steps) /\ Tail(plan) \in Seq(Steps)
  BY <1>3, OneStep, QueueType DEF DiscoveryType, Discover, Doing
<1> HIDE DEF first, second, third
<1> QED BY <1>2, <1>4, ConcatProperties

LEMMA SubscribeType ==
  ASSUME DiscoveryType, Subscribe
  PROVE  inbox' \in Seq(Steps)
<1> DEFINE left == {k \in Legacy : legacy[k] = "config"}
           own == IF device.keys = {} THEN <<>> ELSE <<Step("device", device.keys, {}, None)>>
<1>1. PICK order \in [1 .. Cardinality(left) -> left] :
        inbox' = inbox \o own \o [i \in DOMAIN order |-> Do("legacy", order[i])]
  BY DEF Subscribe
<1> DEFINE letters == [i \in 1 .. Cardinality(left) |-> Do("legacy", order[i])]
<1>2. Cardinality(left) \in Nat
  BY MqttAdapterAssumption, FS_Subset, FS_CardinalityType
<1>3. \A i \in 1 .. Cardinality(left) : Do("legacy", order[i]) \in Steps
  BY StepsType
<1>4. letters \in Seq(Steps)
  BY <1>2, <1>3, SeqDef
<1>5. own \in Seq(Steps)
  <2>1. Step("device", device.keys, {}, None) \in Steps
    BY StepsType DEF DiscoveryType
  <2> QED BY <2>1, OneStep
<1>6. inbox' = inbox \o own \o letters
  BY <1>1
<1> HIDE DEF own, letters
<1> QED BY <1>4, <1>5, <1>6, ConcatProperties DEF DiscoveryType

LEMMA DiscoveryTypeStep == Paced /\ DiscoveryType /\ [Next]_vars => DiscoveryType'
<1> SUFFICES ASSUME Paced, DiscoveryType, [Next]_vars PROVE DiscoveryType'
  OBVIOUS
<1> DEFINE rest == <<rf, discovered, device, legacy, online, entities, forgotten>>
<1>1. CASE UNCHANGED <<cfg, last, discovery>>
  BY <1>1 DEF discovery, DiscoveryType
<1>2. CASE Start
  <2>1. Do("subscribe", None) \in Steps /\ Do("discover", "changed") \in Steps /\ Do("state", None) \in Steps
    BY StepsType
  <2>2. plan' \in Seq(Steps)
    BY <1>2, <2>1 DEF Start
  <2> QED BY <1>2, <2>2, DiagnosticsType DEF Start, DiscoveryType, broker, home
<1>3. CASE Stop
  <2>1. Owed \cup Marked \subseteq Keys \cup Legacy
    <3>1. \A i \in DOMAIN inbox : inbox[i] \in Steps
      BY DEF DiscoveryType
    <3>2. \A i \in DOMAIN inbox : inbox[i].keys \subseteq Keys
      BY <3>1 DEF Steps
    <3> QED BY <3>2 DEF Owed, Marked, DiscoveryType
  <2> QED BY <1>3, <2>1 DEF Stop, DiscoveryType, broker
<1>4. CASE Subscribe
  BY <1>4, SubscribeType, QueueType DEF Subscribe, Doing, DiscoveryType, broker, home
<1>5. CASE Discover
  BY <1>5, DiscoverType DEF Discover, DiscoveryType, broker, home
<1>6. CASE PublishDevice
  BY <1>6, QueueType DEF PublishDevice, Doing, DiscoveryType
<1>7. CASE Noted
  BY <1>7, QueueType DEF Noted, Doing, DiscoveryType, broker, home
<1>8. CASE PublishMarker
  BY <1>8, QueueType DEF PublishMarker, Doing, DiscoveryType, home
<1>9. CASE ClearLegacy
  BY <1>9, QueueType DEF ClearLegacy, Doing, DiscoveryType
<1>10. CASE HomeGoes
  BY <1>10 DEF HomeGoes, DiscoveryType, adapter, broker
<1>11. CASE HomeReturns
  <2>1. inbox' \in Seq(Steps)
    BY <1>11, StepsType, AppendProperties DEF HomeReturns, DiscoveryType
  <2> QED BY <1>11, <2>1 DEF HomeReturns, DiscoveryType, broker
<1>12. ASSUME NEW c \in HomeCommands, Commands(c) PROVE DiscoveryType'
  <2>1. c \in Steps
    BY StepsType DEF HomeCommands
  <2>2. inbox' \in Seq(Steps)
    BY <1>12, <2>1, AppendProperties DEF Commands, DiscoveryType
  <2> QED BY <1>12, <2>2 DEF Commands, DiscoveryType, broker, home
<1>13. CASE HandleDevice
  <2>1. plan' \in Seq(Steps)
    BY <1>13, StepsType, OneStep DEF HandleDevice
  <2> QED BY <1>13, <2>1, QueueType DEF HandleDevice, Message, DiscoveryType, broker, home
<1>14. CASE HandleLegacy
  <2> DEFINE k == Head(inbox).what
  <2>1. k \in Legacy
    BY <1>14, QueueType DEF HandleLegacy, Message, DiscoveryType
  <2>2. Do("marker", k) \in Steps /\ Do("discover", "forced") \in Steps /\ Do("clear", k) \in Steps
    BY <2>1, StepsType
  <2>3. plan' = (IF k \in Components(cfg, rf) THEN <<Do("marker", k), Do("discover", "forced")>> ELSE <<>>)
                \o <<Do("clear", k)>>
    BY <1>14 DEF HandleLegacy
  <2> HIDE DEF k
  <2>4. plan' \in Seq(Steps)
    BY <2>2, <2>3, ConcatProperties
  <2> QED BY <1>14, <2>4, QueueType DEF HandleLegacy, Message, DiscoveryType, broker, home
<1>15. CASE HandleBirth
  <2>1. Do("discover", "forced") \in Steps /\ Do("state", None) \in Steps
    BY StepsType
  <2>2. plan' \in Seq(Steps)
    BY <1>15, <2>1 DEF HandleBirth
  <2> QED BY <1>15, <2>2, QueueType DEF HandleBirth, Message, DiscoveryType, broker, home
<1>16. CASE HandleZone
  <2>1. <<Do("state", None)>> \in Seq(Steps)
    BY StepsType, OneStep
  <2>2. plan' \in {plan, <<>>, <<Do("state", None)>>} /\ rf' \in {rf, rf \cup {"zone_write"}}
    BY <1>16 DEF HandleZone
  <2>3. plan' \in Seq(Steps)
    <3>1. <<>> \in Seq(Steps) /\ plan \in Seq(Steps)
      BY DEF DiscoveryType
    <3> QED BY <2>1, <2>2, <3>1, Zenon
  <2> QED BY <1>16, <2>2, <2>3, QueueType DEF HandleZone, Message, DiscoveryType, broker, home, Operations
<1>17. CASE HandleDhw
  <2>1. Head(inbox).what \in Modes
    BY <1>17, QueueType DEF HandleDhw, Message, DiscoveryType
  <2>2. Do("state", None) \in Steps /\ Do("write", Head(inbox).what) \in Steps
    BY <2>1, StepsType
  <2>3. plan' = plan \/ plan' = <<Do("state", None), Do("write", Head(inbox).what), Do("state", None)>>
    BY <1>17 DEF HandleDhw
  <2>4. <<Do("state", None), Do("write", Head(inbox).what), Do("state", None)>> \in Seq(Steps)
    BY <2>2
  <2>5. plan' \in Seq(Steps)
    BY <2>3, <2>4 DEF DiscoveryType
  <2> QED BY <1>17, <2>5, QueueType DEF HandleDhw, Message, DiscoveryType, broker, home
<1>18. CASE WriteSucceeds
  BY <1>18, QueueType DEF WriteSucceeds, Doing, DiscoveryType, broker, home
<1>19. CASE WriteFails
  BY <1>19, QueueType DEF WriteFails, Doing, DiscoveryType, broker, home
<1>20. CASE Finish("mqtt")
  <2>1. plan # <<>>
    BY <1>20 DEF Finish, Paced, Doing
  <2> QED BY <1>20, <2>1, QueueType DEF Finish, DiscoveryType, broker, home
<1> QED
  BY <1>1, <1>2, <1>3, <1>4, <1>5, <1>6, <1>7, <1>8, <1>9, <1>10, <1>11, <1>12, <1>13, <1>14, <1>15, <1>16,
     <1>17, <1>18, <1>19, <1>20, DiscoverySteps

\* Modes, pending or not, shown and about to be.
DhwType ==
  /\ {mode, pending, shown} \subseteq Modes \cup {None} /\ boiler \in Modes
  /\ expired => pending # None
  /\ \A t \in Tasks : snap[t] \in Modes \cup {None}

LEMMA DhwTypeStep == Published /\ DiscoveryType /\ DhwType /\ [Next]_vars => DhwType'
<1> SUFFICES ASSUME Published, DiscoveryType, DhwType, [Next]_vars PROVE DhwType'
  OBVIOUS
<1>1. CASE UNCHANGED <<mode, pending, expired, boiler, shown, snap>>
  BY <1>1 DEF DhwType
<1>2. CASE Stop
  BY <1>2 DEF Stop, Sets, DhwType, broker
<1>3. CASE HandleDhw
  <2>1. Head(inbox).what \in Modes
    BY <1>3, QueueType DEF HandleDhw, Message, DiscoveryType
  <2>2. \/ UNCHANGED <<mode, pending, expired, boiler>>
        \/ mode' = mode /\ pending' = Head(inbox).what /\ expired' = FALSE /\ boiler' = boiler
    BY <1>3 DEF HandleDhw, Sets, dhw
  <2>3. UNCHANGED <<shown, snap>>
    BY <1>3 DEF HandleDhw, broker, publishing
  <2> QED BY <2>1, <2>2, <2>3 DEF DhwType
<1>4. CASE WriteSucceeds \/ WriteFails
  <2>1. Head(plan).what \in Modes
    BY <1>4, QueueType DEF WriteSucceeds, WriteFails, Doing, DiscoveryType
  <2>2. UNCHANGED <<shown, snap>> /\ boiler' \in {boiler, Head(plan).what} /\ mode' \in {mode, Head(plan).what}
    BY <1>4 DEF WriteSucceeds, WriteFails, Sets, broker, publishing
  <2>3. UNCHANGED <<pending, expired>> \/ (pending' = None /\ expired' = FALSE)
    BY <1>4 DEF WriteSucceeds, WriteFails, Sets
  <2> QED BY <2>1, <2>2, <2>3 DEF DhwType
<1>5. CASE Expire \/ Read
  <2>1. /\ mode' \in {mode, boiler} /\ pending' = pending /\ (expired' => expired \/ pending # None)
        /\ UNCHANGED <<boiler, shown, snap>>
    BY <1>5 DEF Expire, Read, Sets, broker, publishing
  <2> QED BY <2>1 DEF DhwType
<1>6. CASE BoilerChanges
  BY <1>6 DEF BoilerChanges, DhwType, broker, publishing
<1>7. ASSUME NEW t \in Tasks, Take(t) PROVE DhwType'
  <2>1. Visible \in Modes \cup {None}
    BY DEF Visible, DhwType
  <2>2. PICK value \in Modes \cup {None} : snap' = [snap EXCEPT ![t] = value]
    BY <1>7, <2>1 DEF Take, Snapshot
  <2>3. mode' = mode /\ pending' \in {pending, None} /\ expired' = FALSE /\ UNCHANGED <<boiler, shown>>
    BY <1>7 DEF Take, Snapshot, Sets, broker
  <2> QED BY <2>2, <2>3 DEF DhwType, Published
<1>8. ASSUME NEW t \in Tasks, Publish(t) PROVE DhwType'
  <2>1. shown' = snap[t] /\ UNCHANGED <<mode, pending, expired, boiler, snap>>
    BY <1>8 DEF Publish, dhw
  <2> QED BY <2>1 DEF DhwType
<1>9. ASSUME NEW t \in Tasks, Finish(t) PROVE DhwType'
  <2>1. snap' = [snap EXCEPT ![t] = None] /\ UNCHANGED <<mode, pending, expired, boiler, shown>>
    BY <1>9 DEF Finish, dhw, broker
  <2> QED BY <2>1 DEF DhwType, Published
<1>10. \/ UNCHANGED <<mode, pending, expired, boiler, shown, snap>>
       \/ Stop \/ HandleDhw \/ WriteSucceeds \/ WriteFails \/ Expire \/ Read \/ BoilerChanges
       \/ \E t \in Tasks : Take(t) \/ Publish(t) \/ Finish(t)
  BY DEF Next, vars, dhw, broker, publishing, Start, Configure, Subscribe, Discover, PublishDevice, Noted,
         PublishMarker, ClearLegacy, HomeGoes, HomeReturns, Commands, HandleDevice, HandleLegacy, HandleBirth, HandleZone
<1> QED BY <1>1, <1>2, <1>3, <1>4, <1>5, <1>6, <1>7, <1>8, <1>9, <1>10

\* A run has a configuration that loaded.
LEMMA ConfiguredStep == (cfg # None => Loads(cfg)) /\ [Next]_vars => (cfg # None => Loads(cfg))'
<1>1. [Next]_vars => cfg' \in {cfg, None} \/ (cfg' = file /\ Loads(file))
  BY DEF Next, vars, adapter, Start, Stop, Configure, Subscribe, Discover, PublishDevice, Noted, PublishMarker,
         ClearLegacy, HomeGoes, HomeReturns, Commands, HandleDevice, HandleLegacy, HandleBirth, HandleZone,
         HandleDhw, WriteSucceeds, WriteFails, Expire, Read, BoilerChanges, Take, Snapshot, Publish, Finish
<1>2. QED BY <1>1 DEF Loads

TypeInv == FileSound /\ Published /\ Paced /\ DiscoveryType /\ DhwType /\ (cfg # None => Loads(cfg))

LEMMA TypeInvStep == TypeInv /\ [Next]_vars => TypeInv'
  BY FileSoundStep, ConfigurationSteps, PublishedStep, PacedStep, DiscoveryTypeStep, DhwTypeStep, ConfiguredStep
     DEF TypeInv

LEMMA TypeInvInit == Init => TypeInv
<1> SUFFICES ASSUME Init PROVE TypeInv
  OBVIOUS
<1>1. Published /\ Paced
  BY MqttAdapterAssumption DEF Init, AdapterInit, Published, Paced, Tasks
<1>2. legacy \in [Legacy -> {"config", "marker", "absent"}] /\ entities \subseteq Legacy
  BY DEF Init, AdapterInit
<1>3. DiscoveryType
  BY <1>2 DEF Init, AdapterInit, DiscoveryType
<1>4. DhwType
  BY DEF Init, AdapterInit, DhwType
<1> QED BY <1>1, <1>3, <1>4, FileSoundInit DEF TypeInv, Init, AdapterInit

\* The variables keep their types, one task at a time is publishing, the message task when its plan
\* says so, and a bridge that has stopped does nothing.
THEOREM Typing == Spec => []TypeOK
<1>1. TypeInv => TypeOK
  BY DEF TypeInv, TypeOK, Published, Paced, DiscoveryType, DhwType
<1>2. QED BY <1>1, TypeInvInit, TypeInvStep, PTL DEF Spec

-----------------------------------------------------------------------------
(* Nothing is forgotten: where the bridge is in a discovery, and what      *)
(* Home Assistant, the broker and the bridge itself know of at each point. *)

\* The entities of the run, those whose old config is retained, and the messages that wait.
Now == Components(cfg, rf)
Configs == {k \in Legacy : legacy[k] = "config"}
Waiting == Elements(inbox)

\* How the plan goes on at each point of a discovery: configs are the entities with an old config, now
\* those of the run, gone those to remove and had those the broker retains.
First(p, e) == p # <<>> /\ Head(p) = e
Only(p, e) == First(p, e) /\ Tail(p) = <<>>
After(p, configs) ==
  \/ p = <<>> \/ Only(p, Do("state", None))
  \/ \E k \in Legacy \ configs : Only(p, Do("clear", k))
Discovering(p, configs) == (\E w \in {"changed", "forced"} : First(p, Do("discover", w))) /\ After(Tail(p), configs)
Subscribing(p, configs) == First(p, Do("subscribe", None)) /\ Discovering(Tail(p), configs)
Noting(p, configs, now) == First(p, Step("noted", now, {}, None)) /\ After(Tail(p), configs)
Announcing(p, configs, now) == First(p, Step("device", now, {}, None)) /\ Noting(Tail(p), configs, now)
Removing(p, configs, now, gone) == First(p, Step("device", now, gone, None)) /\ Announcing(Tail(p), configs, now)
Migrating(p, now) ==
  \E k \in Legacy \cap now : /\ First(p, Do("marker", k)) /\ First(Tail(p), Do("discover", "forced"))
                             /\ Only(Tail(Tail(p)), Do("clear", k))
Writing(p) == \E m \in Modes : First(p, Do("write", m)) /\ Only(Tail(p), Do("state", None))
Serving(p, configs, had) ==
  \/ p = <<>> \/ Only(p, Do("state", None))
  \/ Writing(p) \/ (First(p, Do("state", None)) /\ Writing(Tail(p)))
  \/ \E k \in Legacy \ (configs \cap had) : Only(p, Do("clear", k))

\* Where the entities come from that Home Assistant may have.
Accounted == device.keys \cup forgotten \cup Configs \cup Owed
Migrated == Marked \cap Now

InSubscribe == Subscribing(plan, Configs) /\ last = {} /\ entities \subseteq Accounted
InDiscover ==
  /\ Discovering(plan, Configs) /\ (last = {} \/ (device.gone = {} /\ last = {device.keys}))
  /\ device.keys \subseteq Now \cup Owed /\ entities \subseteq Accounted \cup Migrated
InRemove ==
  /\ Removing(plan, Configs, Now, discovered \ Now)
  /\ device.keys \subseteq Now \cup Owed /\ entities \subseteq Accounted \cup Migrated
InAnnounce ==
  /\ Announcing(plan, Configs, Now)
  /\ device.keys \subseteq Now \cup Owed /\ entities \subseteq Accounted \cup Migrated
  /\ (entities \cup device.keys) \cap discovered \subseteq Now \cup forgotten \cup Configs
InNote ==
  /\ Noting(plan, Configs, Now) /\ device.keys = Now /\ device.gone = {}
  /\ entities \subseteq Accounted /\ entities \cap discovered \subseteq Now \cup forgotten \cup Configs
InServe ==
  /\ Serving(plan, Configs, device.keys) \/ Migrating(plan, Now)
  /\ device.keys = discovered /\ device.gone = {} /\ last = {discovered}
  /\ discovered \subseteq Now /\ Components(cfg, RfDiagnostics(cfg)) \subseteq discovered
  /\ entities \subseteq Accounted

\* The bridge is at one of these points.
Phases ==
  cfg # None =>
    /\ RfDiagnostics(cfg) \subseteq rf
    /\ InSubscribe \/ InDiscover \/ InRemove \/ InAnnounce \/ InNote \/ InServe

\* Home Assistant follows the broker while it is there, and every old config is dealt with in time.
Followed ==
  /\ entities \cap device.gone \subseteq forgotten /\ device.keys \cap device.gone = {}
  /\ online => device.keys \subseteq entities
  /\ cfg = None => last = {} /\ entities \subseteq device.keys \cup forgotten \cup Configs
Dealt(k) ==
  \/ Doing("subscribe") \/ First(plan, Do("marker", k)) \/ Only(plan, Do("clear", k))
  \/ \E e \in Waiting : e.do = "legacy" /\ e.what = k
Remembered == cfg # None => \A k \in Configs : Dealt(k)

\* What a step says.
LEMMA StepFields ==
  /\ \A do, what : Do(do, what).do = do /\ Do(do, what).what = what /\ Do(do, what).keys = {}
  /\ \A do, keys, gone, what : Step(do, keys, gone, what).do = do /\ Step(do, keys, gone, what).keys = keys
                               /\ Step(do, keys, gone, what).gone = gone
  BY DEF Do, Step

\* Each point begins with a step of its own.
LEMMA Heads ==
  ASSUME NEW p, NEW configs, NEW now, NEW gone, NEW had
  PROVE  /\ Discovering(p, configs) => p # <<>> /\ Head(p).do = "discover"
         /\ Subscribing(p, configs) => p # <<>> /\ Head(p).do = "subscribe"
         /\ Noting(p, configs, now) => p # <<>> /\ Head(p).do = "noted"
         /\ Announcing(p, configs, now) => p # <<>> /\ Head(p).do = "device" /\ Head(p).gone = {}
         /\ Removing(p, configs, now, gone) => p # <<>> /\ Head(p).do = "device" /\ Head(p).gone = gone
         /\ Migrating(p, now) => p # <<>> /\ Head(p).do = "marker"
         /\ Writing(p) => p # <<>> /\ Head(p).do = "write"
         /\ Serving(p, configs, had) => p = <<>> \/ Head(p).do \in {"state", "clear", "write"}
<1>1. \A do : \A q : (\E w : First(q, Do(do, w))) => q # <<>> /\ Head(q).do = do
  BY StepFields DEF First
<1>2. \A do, q, keys, g : First(q, Step(do, keys, g, None)) => q # <<>> /\ Head(q).do = do /\ Head(q).gone = g
  BY StepFields DEF First
<1>3. Discovering(p, configs) => p # <<>> /\ Head(p).do = "discover"
  BY <1>1 DEF Discovering
<1>4. Subscribing(p, configs) => p # <<>> /\ Head(p).do = "subscribe"
  BY <1>1 DEF Subscribing
<1>5. Noting(p, configs, now) => p # <<>> /\ Head(p).do = "noted"
  BY <1>2 DEF Noting
<1>6. Announcing(p, configs, now) => p # <<>> /\ Head(p).do = "device" /\ Head(p).gone = {}
  BY <1>2 DEF Announcing
<1>7. Removing(p, configs, now, gone) => p # <<>> /\ Head(p).do = "device" /\ Head(p).gone = gone
  BY <1>2 DEF Removing
<1>8. Migrating(p, now) => p # <<>> /\ Head(p).do = "marker"
  BY <1>1 DEF Migrating
<1>9. Writing(p) => p # <<>> /\ Head(p).do = "write"
  BY <1>1 DEF Writing
<1>10. Serving(p, configs, had) => p = <<>> \/ Head(p).do \in {"state", "clear", "write"}
  BY <1>1, <1>9 DEF Serving, Only
<1> QED BY <1>3, <1>4, <1>5, <1>6, <1>7, <1>8, <1>9, <1>10

\* The next step tells where the bridge is.
LEMMA AtStep ==
  ASSUME cfg # None, Phases
  PROVE  /\ Doing("subscribe") => InSubscribe
         /\ Doing("discover") => InDiscover
         /\ Doing("device") => InRemove \/ InAnnounce
         /\ Doing("noted") => InNote
         /\ Doing("marker") => InServe /\ Migrating(plan, Now)
         /\ plan = <<>> \/ Doing("state") \/ Doing("clear") \/ Doing("write") =>
              InServe /\ Serving(plan, Configs, device.keys)
<1>1. InSubscribe => plan # <<>> /\ Head(plan).do = "subscribe"
  BY Heads DEF InSubscribe
<1>2. InDiscover => plan # <<>> /\ Head(plan).do = "discover"
  BY Heads DEF InDiscover
<1>3. InRemove \/ InAnnounce => plan # <<>> /\ Head(plan).do = "device"
  BY Heads DEF InRemove, InAnnounce
<1>4. InNote => plan # <<>> /\ Head(plan).do = "noted"
  BY Heads DEF InNote
<1>5. InServe => \/ Serving(plan, Configs, device.keys) /\ (plan = <<>> \/ Head(plan).do \in {"state", "clear", "write"})
                 \/ Migrating(plan, Now) /\ plan # <<>> /\ Head(plan).do = "marker"
  BY Heads DEF InServe
<1> QED BY <1>1, <1>2, <1>3, <1>4, <1>5 DEF Phases, Doing

\* Whatever the bridge is at, Home Assistant has nothing that nobody knows of.
LEMMA AllAccounted == ASSUME cfg # None, Phases PROVE entities \subseteq Accounted \cup Marked
  BY DEF Phases, InSubscribe, InDiscover, InRemove, InAnnounce, InNote, InServe, Migrated

\* Plans of one, two and three steps.
LEMMA Plans ==
  /\ \A a : First(<<a>>, a) /\ Only(<<a>>, a) /\ Tail(<<a>>) = <<>>
  /\ \A a, b : First(<<a, b>>, a) /\ Tail(<<a, b>>) = <<b>>
  /\ \A a, b, c : First(<<a, b, c>>, a) /\ Tail(<<a, b, c>>) = <<b, c>>
  BY DEF First, Only

LEMMA ThreeSteps ==
  ASSUME NEW S, NEW a \in S, NEW b \in S, NEW c \in S
  PROVE  <<a, b>> \o <<c>> = <<a, b, c>>
<1> DEFINE p == <<a, b>>
           q == <<c>>
           r == <<a, b, c>>
<1>1. p \in Seq(S) /\ q \in Seq(S) /\ r \in Seq(S)
  OBVIOUS
<1>2. Len(p) = 2 /\ Len(q) = 1 /\ Len(r) = 3 /\ p[1] = a /\ p[2] = b /\ q[1] = c /\ r[1] = a /\ r[2] = b /\ r[3] = c
  OBVIOUS
<1> HIDE DEF p, q, r
<1>3. p \o q \in Seq(S) /\ Len(p \o q) = 3 /\ \A i \in 1 .. 3 : (p \o q)[i] = IF i <= 2 THEN p[i] ELSE q[i - 2]
  <2>1. p \o q \in Seq(S) /\ Len(p \o q) = Len(p) + Len(q)
    BY <1>1, ConcatProperties
  <2>2. \A i \in 1 .. Len(p) + Len(q) : (p \o q)[i] = IF i <= Len(p) THEN p[i] ELSE q[i - Len(p)]
    BY <1>1, ConcatProperties
  <2> QED BY <1>2, <2>1, <2>2
<1>4. \A i \in 1 .. 3 : (p \o q)[i] = r[i]
  BY <1>2, <1>3
<1>5. p \o q = r
  BY <1>1, <1>2, <1>3, <1>4, SeqEqual
<1> QED BY <1>5 DEF p, q, r

\* What waits, after an arrival and after the message is taken.
LEMMA Arrival ==
  ASSUME DiscoveryType, NEW c \in Steps, inbox' = Append(inbox, c)
  PROVE  Waiting' = Waiting \cup {c}
  BY QueueElements DEF Waiting, DiscoveryType

LEMMA Departure ==
  ASSUME DiscoveryType, inbox # <<>>, inbox' = Tail(inbox)
  PROVE  Waiting = {Head(inbox)} \cup Waiting'
  BY QueueElements DEF Waiting, DiscoveryType

LEMMA OwedIs == Owed = discovered \cup (UNION {e.keys : e \in Waiting})
  BY DEF Owed, Waiting, Elements

LEMMA OwedNext == Owed' = discovered' \cup (UNION {e.keys : e \in Waiting'})
  BY DEF Owed, Waiting, Elements

LEMMA OwedKept == ASSUME Waiting \subseteq Waiting', discovered' = discovered PROVE Owed \subseteq Owed'
  BY OwedIs, OwedNext

\* A message that lists no entities leaves what is owed as it was.
LEMMA OwedTaken ==
  ASSUME DiscoveryType, inbox # <<>>, inbox' = Tail(inbox),
         Head(inbox).do \notin {"device", "noted"}, discovered' = discovered
  PROVE  Owed \subseteq Owed'
<1>1. Head(inbox).keys = {}
  <2>1. Head(inbox) \in Steps
    BY QueueType DEF DiscoveryType
  <2> QED BY <2>1 DEF Steps
<1>2. QED BY <1>1, Departure, OwedIs, OwedNext

\* The broker sends the device's config, if there is one, and every old one.
LEMMA Retained ==
  ASSUME DiscoveryType, Subscribe
  PROVE  /\ Waiting \subseteq Waiting'
         /\ device.keys # {} => Step("device", device.keys, {}, None) \in Waiting'
         /\ \A k \in Configs : Do("legacy", k) \in Waiting'
<1> DEFINE own == IF device.keys = {} THEN <<>> ELSE <<Step("device", device.keys, {}, None)>>
<1>1. PICK order \in [1 .. Cardinality(Configs) -> Configs] :
        /\ {order[i] : i \in DOMAIN order} = Configs
        /\ inbox' = inbox \o own \o [i \in DOMAIN order |-> Do("legacy", order[i])]
  BY DEF Subscribe, Configs
<1> DEFINE letters == [i \in 1 .. Cardinality(Configs) |-> Do("legacy", order[i])]
<1>2. Cardinality(Configs) \in Nat
  BY MqttAdapterAssumption, FS_Subset, FS_CardinalityType DEF Configs
<1>3. \A i \in 1 .. Cardinality(Configs) : Do("legacy", order[i]) \in Steps
  BY StepsType DEF Configs
<1>4. letters \in Seq(Steps)
  BY <1>2, <1>3, SeqDef
<1>5. own \in Seq(Steps)
  <2>1. Step("device", device.keys, {}, None) \in Steps
    BY StepsType DEF DiscoveryType
  <2> QED BY <2>1, OneStep
<1>6. inbox' = (inbox \o own) \o letters
  BY <1>1
<1>7. \A k \in Configs : Do("legacy", k) \in Elements(letters)
  <2> TAKE k \in Configs
  <2>1. PICK i \in 1 .. Cardinality(Configs) : order[i] = k
    BY <1>1
  <2>2. i \in DOMAIN letters /\ letters[i] = Do("legacy", k)
    BY <2>1
  <2> HIDE DEF letters
  <2> QED BY <2>2 DEF Elements
<1>8. device.keys # {} => Step("device", device.keys, {}, None) \in Elements(own)
  BY DEF Elements
<1> HIDE DEF own, letters
<1>9. Waiting' = Elements(inbox) \cup Elements(own) \cup Elements(letters)
  <2> DEFINE both == inbox \o own
  <2>1. both \in Seq(Steps) /\ Elements(both) = Elements(inbox) \cup Elements(own)
    BY <1>5, ConcatProperties, QueueElements DEF DiscoveryType
  <2>2. inbox' = both \o letters
    BY <1>6
  <2> HIDE DEF both
  <2>3. Elements(both \o letters) = Elements(both) \cup Elements(letters)
    BY <2>1, <1>4, QueueElements
  <2> QED BY <2>1, <2>2, <2>3 DEF Waiting
<1> QED BY <1>7, <1>8, <1>9 DEF Waiting

\* What a discovery puts before the rest of the plan.
LEMMA DiscoveryPlan ==
  ASSUME NEW a \in Steps, NEW b \in Steps, NEW c \in Steps, NEW rest \in Seq(Steps)
  PROVE  /\ LET p == (<<>> \o <<>>) \o <<c>> \o rest IN First(p, c) /\ Tail(p) = rest
         /\ LET p == (<<>> \o <<b>>) \o <<c>> \o rest
            IN  First(p, b) /\ First(Tail(p), c) /\ Tail(Tail(p)) = rest
         /\ LET p == (<<a>> \o <<b>>) \o <<c>> \o rest
            IN  First(p, a) /\ First(Tail(p), b) /\ First(Tail(Tail(p)), c) /\ Tail(Tail(Tail(p))) = rest
<1> DEFINE one == <<c>> \o rest
           two == <<b>> \o one
           three == <<a>> \o two
<1>1. <<a>> \in Seq(Steps) /\ <<b>> \in Seq(Steps) /\ <<c>> \in Seq(Steps) /\ <<>> \in Seq(Steps)
  BY OneStep
<1>2. one \in Seq(Steps) /\ First(one, c) /\ Tail(one) = rest
  BY Cons DEF First
<1>3. two \in Seq(Steps) /\ First(two, b) /\ Tail(two) = one
  <2> HIDE DEF one
  <2> QED BY <1>2, Cons DEF First
<1>4. First(three, a) /\ Tail(three) = two
  <2> HIDE DEF two
  <2> QED BY <1>3, Cons DEF First
<1>5. (<<>> \o <<>>) \o <<c>> \o rest = one
  BY <1>1, ConcatEmptySeq
<1>6. (<<>> \o <<b>>) \o <<c>> \o rest = two
  BY <1>1, ConcatEmptySeq, ConcatAssociative
<1>7. (<<a>> \o <<b>>) \o <<c>> \o rest = three
  <2>1. <<a>> \o <<b>> \in Seq(Steps)
    BY <1>1, ConcatProperties
  <2>2. ((<<a>> \o <<b>>) \o <<c>>) \o rest = (<<a>> \o <<b>>) \o one
    BY <1>1, <2>1, ConcatAssociative
  <2> HIDE DEF one
  <2>3. (<<a>> \o <<b>>) \o one = three
    BY <1>1, <1>2, ConcatAssociative
  <2> QED BY <2>2, <2>3
<1> HIDE DEF one, two, three
<1> QED BY <1>2, <1>3, <1>4, <1>5, <1>6, <1>7

-----------------------------------------------------------------------------
(* Where each step leads.                                                  *)

LEMMA NowKept == ASSUME UNCHANGED <<cfg, rf>> PROVE Now' = Now
  BY DEF Now

LEMMA ConfigsKept == ASSUME legacy' = legacy PROVE Configs' = Configs /\ Marked' = Marked
  BY DEF Configs, Marked

LEMMA PhasesStart ==
  ASSUME Followed, Start PROVE Phases'
<1>1. plan' = <<Do("subscribe", None), Do("discover", "changed"), Do("state", None)>>
  BY DEF Start
<1>2. Only(<<Do("state", None)>>, Do("state", None))
  BY Plans
<1>3. Discovering(<<Do("discover", "changed"), Do("state", None)>>, Configs')
  BY <1>2, Plans DEF Discovering, After
<1>4. Subscribing(plan', Configs')
  BY <1>1, <1>3, Plans DEF Subscribing
<1>5. cfg = None /\ rf' = RfDiagnostics(cfg') /\ UNCHANGED <<last, device, legacy, entities, forgotten>>
  BY DEF Start, broker, home
<1>6. InSubscribe'
  BY <1>4, <1>5, ConfigsKept DEF InSubscribe, Followed, Accounted
<1> QED BY <1>5, <1>6 DEF Phases

LEMMA PhasesSubscribe ==
  ASSUME DiscoveryType, Phases, cfg # None, Subscribe PROVE Phases'
<1>1. InSubscribe
  BY AtStep DEF Subscribe
<1>2. UNCHANGED <<cfg, rf, discovered, last, device, legacy, entities, forgotten>> /\ plan' = Tail(plan)
  BY DEF Subscribe, broker, home
<1>3. Now' = Now /\ Configs' = Configs /\ Owed \subseteq Owed'
  BY <1>2, NowKept, ConfigsKept, OwedKept, Retained
<1>4. device.keys \subseteq Owed'
  <2>1. device.keys # {} => \E e \in Waiting' : e.keys = device.keys
    BY Retained, StepFields
  <2> QED BY <2>1, OwedNext
<1>5. InDiscover'
  BY <1>1, <1>2, <1>3, <1>4 DEF InSubscribe, Subscribing, InDiscover, Accounted
<1> QED BY <1>1, <1>2, <1>5 DEF Phases

LEMMA PhasesDiscover ==
  ASSUME DiscoveryType, Phases, cfg # None, Discover PROVE Phases'
<1> DEFINE gone == discovered \ Now
           changed == Head(plan).what = "forced" \/ gone # {} \/ last # {Now}
           a == Step("device", Now, gone, None)
           b == Step("device", Now, {}, None)
           c == Step("noted", Now, {}, None)
           rest == Tail(plan)
<1>1. InDiscover
  BY AtStep DEF Discover
<1>2. UNCHANGED <<cfg, rf, inbox, discovered, last, device, legacy, entities, forgotten>>
  BY DEF Discover, broker, home
<1>3. Now' = Now /\ Configs' = Configs /\ Marked' = Marked /\ Owed' = Owed
  BY <1>2, NowKept, ConfigsKept DEF Owed
<1>4. plan' = ((IF gone # {} THEN <<a>> ELSE <<>>) \o (IF changed THEN <<b>> ELSE <<>>)) \o <<c>> \o rest
  BY DEF Discover, Now
<1>5. a \in Steps /\ b \in Steps /\ c \in Steps /\ rest \in Seq(Steps)
  <2>1. Now \in SUBSET Keys /\ gone \in SUBSET Keys /\ {} \in SUBSET Keys
    BY ComponentsType DEF DiscoveryType, Now
  <2>2. rest \in Seq(Steps)
    BY QueueType DEF DiscoveryType, Discover, Doing
  <2> QED BY <2>1, <2>2, StepsType
<1>6. After(rest, Configs)
  BY <1>1 DEF InDiscover, Discovering
<1>7. CASE gone # {}
  <2>1. plan' = (<<a>> \o <<b>>) \o <<c>> \o rest
    BY <1>4, <1>7
  <2>2. Removing(plan', Configs, Now, gone)
    <3> HIDE DEF a, b, c, rest
    <3>1. First(plan', a) /\ First(Tail(plan'), b) /\ First(Tail(Tail(plan')), c) /\ Tail(Tail(Tail(plan'))) = rest
      BY <1>5, <2>1, DiscoveryPlan
    <3> QED BY <1>6, <3>1 DEF Removing, Announcing, Noting, a, b, c
  <2>3. InRemove'
    BY <1>1, <1>2, <1>3, <2>2 DEF InDiscover, InRemove, Accounted, Migrated
  <2> QED BY <1>2, <2>3 DEF Phases
<1>8. CASE gone = {} /\ changed
  <2>1. plan' = (<<>> \o <<b>>) \o <<c>> \o rest
    BY <1>4, <1>8
  <2>2. Announcing(plan', Configs, Now)
    <3> HIDE DEF a, b, c, rest
    <3>1. LET p == (<<>> \o <<b>>) \o <<c>> \o rest
          IN  First(p, b) /\ First(Tail(p), c) /\ Tail(Tail(p)) = rest
      BY <1>5, DiscoveryPlan
    <3>2. First(plan', b) /\ First(Tail(plan'), c) /\ Tail(Tail(plan')) = rest
      BY <2>1, <3>1
    <3> QED BY <1>6, <3>2 DEF Announcing, Noting, b, c
  <2>3. InAnnounce'
    BY <1>1, <1>2, <1>3, <1>8, <2>2 DEF InDiscover, InAnnounce, Accounted, Migrated
  <2> QED BY <1>2, <2>3 DEF Phases
<1>9. CASE gone = {} /\ ~changed
  <2>1. plan' = (<<>> \o <<>>) \o <<c>> \o rest
    BY <1>4, <1>9
  <2>2. Noting(plan', Configs, Now)
    <3> HIDE DEF a, b, c, rest
    <3>1. First(plan', c) /\ Tail(plan') = rest
      BY <1>5, <2>1, DiscoveryPlan
    <3> QED BY <1>6, <3>1 DEF Noting, c
  <2>3. device.gone = {} /\ device.keys = Now
    BY <1>1, <1>9 DEF InDiscover
  <2>4. InNote'
    BY <1>1, <1>2, <1>3, <1>9, <2>2, <2>3 DEF InDiscover, InNote, Accounted, Migrated
  <2> QED BY <1>2, <2>4 DEF Phases
<1> QED BY <1>7, <1>8, <1>9

LEMMA PhasesPublishDevice ==
  ASSUME Phases, Followed, cfg # None, PublishDevice PROVE Phases'
<1> DEFINE keys == Head(plan).keys
           gone == Head(plan).gone
<1>1. UNCHANGED <<cfg, rf, inbox, discovered, last, legacy>> /\ plan' = Tail(plan)
  BY DEF PublishDevice
<1>2. Now' = Now /\ Configs' = Configs /\ Marked' = Marked /\ Owed' = Owed
  BY <1>1, NowKept, ConfigsKept DEF Owed
<1>3. device'.keys = keys /\ device'.gone = gone
  BY DEF PublishDevice
<1>4. \/ entities' = (entities \cup keys) \ gone /\ forgotten' = forgotten
      \/ entities' = entities /\ forgotten' = forgotten \cup gone
  BY DEF PublishDevice
<1>5. CASE InRemove
  <2>1. keys = Now /\ gone = discovered \ Now /\ Announcing(Tail(plan), Configs, Now)
    BY <1>5, StepFields DEF InRemove, Removing, First
  <2> HIDE DEF keys, gone
  <2>2. InAnnounce'
    BY <1>1, <1>2, <1>3, <1>4, <1>5, <2>1 DEF InRemove, InAnnounce, Accounted, Migrated
  <2> QED BY <1>1, <2>2 DEF Phases
<1>6. CASE InAnnounce
  <2>1. keys = Now /\ gone = {} /\ Noting(Tail(plan), Configs, Now)
    BY <1>6, StepFields DEF InAnnounce, Announcing, First
  <2> HIDE DEF keys, gone
  <2>2. InNote'
    BY <1>1, <1>2, <1>3, <1>4, <1>6, <2>1 DEF InAnnounce, InNote, Accounted, Migrated
  <2> QED BY <1>1, <2>2 DEF Phases
<1> QED BY <1>5, <1>6, AtStep DEF PublishDevice

\* What follows a discovery is work of the message task.
LEMMA AfterServes == ASSUME NEW p, NEW configs, NEW had, After(p, configs) PROVE Serving(p, configs, had)
  BY DEF After, Serving

LEMMA PhasesNoted ==
  ASSUME Phases, cfg # None, Noted PROVE Phases'
<1>1. InNote
  BY AtStep DEF Noted
<1>2. UNCHANGED <<cfg, rf, inbox, device, legacy, entities, forgotten>> /\ plan' = Tail(plan)
  BY DEF Noted, broker, home
<1>3. Now' = Now /\ Configs' = Configs
  BY <1>2, NowKept, ConfigsKept
<1>4. After(Tail(plan), Configs) /\ Head(plan).keys = Now
  BY <1>1, StepFields DEF InNote, Noting, First
<1>5. last' = {Now} /\ discovered' = Now
  BY <1>4 DEF Noted
<1>6. Serving(plan', Configs, device.keys)
  BY <1>2, <1>4, AfterServes
<1>7. RfDiagnostics(cfg) \subseteq rf
  BY DEF Phases
<1>8. Components(cfg, RfDiagnostics(cfg)) \subseteq Now
  BY <1>7, ComponentsGrow DEF Now
<1>9. Owed \subseteq Owed' \cup discovered
  BY <1>2, OwedIs, OwedNext DEF Waiting
<1>10. Components(cfg, RfDiagnostics(cfg))' = Components(cfg, RfDiagnostics(cfg))
  BY <1>2
<1>11. Accounted' = device.keys \cup forgotten \cup Configs \cup Owed'
  BY <1>2, <1>3 DEF Accounted
<1>12. entities \subseteq Accounted'
  BY <1>1, <1>9, <1>11 DEF InNote, Accounted
<1>13. InServe'
  BY <1>1, <1>2, <1>3, <1>5, <1>6, <1>8, <1>10, <1>12 DEF InNote, InServe
<1> QED BY <1>2, <1>7, <1>13 DEF Phases

LEMMA PhasesPublishMarker ==
  ASSUME DiscoveryType, Phases, cfg # None, PublishMarker PROVE Phases'
<1>1. InServe /\ Migrating(plan, Now)
  BY AtStep DEF PublishMarker
<1>2. PICK k \in Legacy \cap Now : /\ First(plan, Do("marker", k)) /\ First(Tail(plan), Do("discover", "forced"))
                                  /\ Only(Tail(Tail(plan)), Do("clear", k))
  BY <1>1 DEF Migrating
<1>3. Head(plan).what = k
  BY <1>2, StepFields DEF First
<1>4. /\ UNCHANGED <<cfg, rf, inbox, discovered, last, device, entities, forgotten>>
      /\ plan' = Tail(plan) /\ legacy' = [legacy EXCEPT ![k] = "marker"]
  BY <1>3 DEF PublishMarker, home
<1>5. Now' = Now /\ Owed' = Owed
  BY <1>4, NowKept DEF Owed
<1>6. Configs' = Configs \ {k} /\ Marked' = Marked \cup {k}
  BY <1>4 DEF Configs, Marked, DiscoveryType
<1>7. Discovering(plan', Configs')
  BY <1>2, <1>4, <1>6 DEF Discovering, After
<1>8. entities \subseteq (Accounted \ {k}) \cup Migrated'
  BY <1>1, <1>2, <1>5, <1>6 DEF InServe, Migrated
<1>9. Accounted \ {k} \subseteq Accounted'
  BY <1>4, <1>5, <1>6 DEF Accounted
<1>10. InDiscover'
  BY <1>1, <1>4, <1>5, <1>7, <1>8, <1>9 DEF InServe, InDiscover
<1> QED BY <1>4, <1>10 DEF Phases

\* The plan to clear an old config.
LEMMA Clearing ==
  ASSUME Phases, cfg # None, Doing("clear")
  PROVE  \E k \in Legacy \ (Configs \cap device.keys) : Only(plan, Do("clear", k)) /\ Head(plan).what = k
<1>1. Serving(plan, Configs, device.keys)
  BY AtStep
<1>2. Head(plan).do = "clear" /\ plan # <<>>
  BY DEF Doing
<1>3. ~Writing(plan)
  BY <1>2, StepFields DEF Writing, First
<1>4. ~First(plan, Do("state", None))
  BY <1>2, StepFields DEF First
<1>5. QED BY <1>1, <1>2, <1>3, <1>4, StepFields DEF Serving, Only, First

LEMMA PhasesClearLegacy ==
  ASSUME DiscoveryType, Phases, cfg # None, ClearLegacy PROVE Phases'
<1>1. InServe
  BY AtStep DEF ClearLegacy
<1>2. PICK k \in Legacy : Only(plan, Do("clear", k)) /\ Head(plan).what = k
  BY Clearing DEF ClearLegacy
<1> DEFINE its == IF legacy[k] = "config" THEN {k} ELSE {}
<1>3. /\ UNCHANGED <<cfg, rf, inbox, discovered, last, device>>
      /\ plan' = Tail(plan) /\ legacy' = [legacy EXCEPT ![k] = "absent"]
      /\ \/ entities' = entities \ its /\ forgotten' = forgotten
         \/ entities' = entities /\ forgotten' = forgotten \cup its
  BY <1>2 DEF ClearLegacy
<1>4. Now' = Now /\ Owed' = Owed
  BY <1>3, NowKept DEF Owed
<1>5. Configs \subseteq Configs' \cup its
  BY <1>3 DEF Configs, DiscoveryType
<1>6. Serving(plan', Configs', device'.keys)
  BY <1>2, <1>3 DEF Only, Serving
<1> HIDE DEF its
<1>7. entities' \subseteq Accounted'
  BY <1>1, <1>3, <1>4, <1>5 DEF InServe, Accounted
<1>8. InServe'
  BY <1>1, <1>3, <1>4, <1>6, <1>7 DEF InServe
<1> QED BY <1>3, <1>8 DEF Phases

LEMMA PhasesHomeReturns ==
  ASSUME DiscoveryType, Followed, Phases, cfg # None, HomeReturns PROVE Phases'
<1>1. UNCHANGED <<cfg, plan, rf, discovered, last, device, legacy, forgotten>>
  BY DEF HomeReturns, broker
<1>2. Now' = Now /\ Configs' = Configs /\ Marked' = Marked
  BY <1>1, NowKept, ConfigsKept
<1>3. Waiting \subseteq Waiting'
  <2>1. Do("birth", None) \in Steps
    BY StepsType
  <2>2. inbox' = inbox \/ inbox' = Append(inbox, Do("birth", None))
    BY DEF HomeReturns
  <2> QED BY <2>1, <2>2, Arrival DEF Waiting
<1>4. Owed \subseteq Owed'
  BY <1>1, <1>3, OwedKept
<1>5. entities' = (entities \cup device.keys \cup Configs) \ device.gone
  BY DEF HomeReturns, Configs
<1>6. Accounted \subseteq Accounted'
  BY <1>1, <1>2, <1>4 DEF Accounted
<1>7. device.keys \cup Configs \subseteq Accounted
  BY DEF Accounted
<1>8. CASE InSubscribe
  BY <1>1, <1>2, <1>5, <1>6, <1>7, <1>8 DEF Phases, InSubscribe
<1>9. CASE InDiscover
  <2>1. InDiscover'
    BY <1>1, <1>2, <1>4, <1>5, <1>6, <1>7, <1>9 DEF InDiscover, Migrated
  <2> QED BY <1>1, <2>1 DEF Phases
<1>10. CASE InRemove
  <2>1. InRemove'
    BY <1>1, <1>2, <1>4, <1>5, <1>6, <1>7, <1>10 DEF InRemove, Migrated
  <2> QED BY <1>1, <2>1 DEF Phases
<1>11. CASE InAnnounce
  <2>1. InAnnounce'
    BY <1>1, <1>2, <1>4, <1>5, <1>6, <1>7, <1>11 DEF InAnnounce, Migrated
  <2> QED BY <1>1, <2>1 DEF Phases
<1>12. CASE InNote
  <2>1. InNote'
    BY <1>1, <1>2, <1>5, <1>6, <1>7, <1>12 DEF InNote
  <2> QED BY <1>1, <2>1 DEF Phases
<1>13. CASE InServe
  <2>1. InServe'
    BY <1>1, <1>2, <1>5, <1>6, <1>7, <1>13 DEF InServe
  <2> QED BY <1>1, <2>1 DEF Phases
<1> QED BY <1>8, <1>9, <1>10, <1>11, <1>12, <1>13 DEF Phases

\* Messages that arrive change nothing else.
LEMMA PhasesArrival ==
  ASSUME Phases, cfg # None, Owed \subseteq Owed',
         UNCHANGED <<cfg, plan, rf, discovered, last, device, legacy, entities, forgotten>>
  PROVE  Phases'
<1>1. Now' = Now /\ Configs' = Configs /\ Marked' = Marked
  BY NowKept, ConfigsKept
<1>2. Accounted \subseteq Accounted' /\ Migrated' = Migrated
  BY <1>1 DEF Accounted, Migrated
<1>3. InSubscribe => InSubscribe'
  BY <1>1, <1>2 DEF InSubscribe
<1>4. InDiscover => InDiscover'
  BY <1>1, <1>2 DEF InDiscover
<1>5. InRemove => InRemove'
  BY <1>1, <1>2 DEF InRemove
<1>6. InAnnounce => InAnnounce'
  BY <1>1, <1>2 DEF InAnnounce
<1>7. InNote => InNote'
  BY <1>1, <1>2 DEF InNote
<1>8. InServe => InServe'
  BY <1>1, <1>2 DEF InServe
<1> QED BY <1>3, <1>4, <1>5, <1>6, <1>7, <1>8 DEF Phases

\* While it serves, the bridge may know of more operations, and lists in its inbox of fewer entities.
LEMMA PhasesServe ==
  ASSUME Phases, cfg # None, InServe, rf \subseteq rf', Owed \subseteq Owed',
         Serving(plan', Configs, device.keys) \/ Migrating(plan', Now'),
         UNCHANGED <<cfg, discovered, last, device, legacy, entities, forgotten>>
  PROVE  Phases'
<1>1. Configs' = Configs
  BY ConfigsKept
<1>2. Now \subseteq Now'
  BY ComponentsGrow DEF Now
<1>3. Accounted \subseteq Accounted'
  BY <1>1 DEF Accounted
<1>4. InServe'
  BY <1>1, <1>2, <1>3 DEF InServe
<1> QED BY <1>4 DEF Phases

\* A discovery that begins while it serves.
LEMMA PhasesAgain ==
  ASSUME Phases, cfg # None, InServe, discovered \cup Owed \subseteq device.keys \cup Owed',
         Discovering(plan', Configs), UNCHANGED <<cfg, rf, last, device, legacy, entities, forgotten>>
  PROVE  Phases'
<1>1. Now' = Now /\ Configs' = Configs /\ Marked' = Marked
  BY NowKept, ConfigsKept
<1>2. Accounted \subseteq Accounted'
  BY <1>1 DEF Accounted, InServe
<1>3. InDiscover'
  BY <1>1, <1>2 DEF InServe, InDiscover
<1> QED BY <1>3 DEF Phases

LEMMA PhasesHandle ==
  ASSUME DiscoveryType, Phases, cfg # None,
         HandleDevice \/ HandleLegacy \/ HandleBirth \/ HandleZone \/ HandleDhw
  PROVE  Phases'
<1>1. plan = <<>> /\ inbox # <<>> /\ inbox' = Tail(inbox)
  BY DEF HandleDevice, HandleLegacy, HandleBirth, HandleZone, HandleDhw, Message
<1>2. InServe
  BY <1>1, AtStep
<1>3. UNCHANGED <<cfg, last, device, legacy, entities, forgotten>>
  BY DEF HandleDevice, HandleLegacy, HandleBirth, HandleZone, HandleDhw, broker, home
<1>4. CASE HandleDevice
  <2>1. plan' = <<Do("discover", "changed")>> /\ discovered' = Head(inbox).keys /\ rf' = rf
    BY <1>4 DEF HandleDevice
  <2>2. Discovering(plan', Configs)
    BY <2>1, Plans DEF Discovering, After
  <2>3. Owed \subseteq discovered \cup Owed'
    BY <1>1, <2>1, Departure, OwedIs, OwedNext
  <2> QED BY <1>2, <1>3, <2>1, <2>2, <2>3, PhasesAgain DEF InServe
<1>5. CASE HandleLegacy
  <2> DEFINE k == Head(inbox).what
  <2>1. Head(inbox).do = "legacy" /\ UNCHANGED <<rf, discovered>> /\ k \in Legacy
    BY <1>5, QueueType DEF HandleLegacy, Message, DiscoveryType
  <2>2. plan' = (IF k \in Now THEN <<Do("marker", k), Do("discover", "forced")>> ELSE <<>>) \o <<Do("clear", k)>>
    BY <1>5 DEF HandleLegacy, Now
  <2>3. Owed \subseteq Owed'
    BY <1>1, <2>1, OwedTaken
  <2>4. Now' = Now
    BY <1>3, <2>1, NowKept
  <2> HIDE DEF k
  <2>5. CASE k \in Now
    <3>1. plan' = <<Do("marker", k), Do("discover", "forced"), Do("clear", k)>>
      <4>1. Do("marker", k) \in Steps /\ Do("discover", "forced") \in Steps /\ Do("clear", k) \in Steps
        BY <2>1, StepsType
      <4> QED BY <2>2, <2>5, <4>1, ThreeSteps
    <3>2. Migrating(plan', Now)
      BY <2>1, <2>5, <3>1, Plans DEF Migrating
    <3> QED BY <1>2, <1>3, <2>1, <2>3, <2>4, <3>2, PhasesServe
  <2>6. CASE k \notin Now
    <3>1. plan' = <<Do("clear", k)>>
      BY <2>2, <2>6
    <3>2. k \notin device.keys
      BY <1>2, <2>6 DEF InServe
    <3>3. Serving(plan', Configs, device.keys)
      BY <2>1, <3>1, <3>2, Plans DEF Serving
    <3> QED BY <1>2, <1>3, <2>1, <2>3, <2>4, <3>3, PhasesServe
  <2> QED BY <2>5, <2>6
<1>6. CASE HandleBirth
  <2>1. plan' = <<Do("discover", "forced"), Do("state", None)>> /\ Head(inbox).do = "birth"
        /\ UNCHANGED <<rf, discovered>>
    BY <1>6 DEF HandleBirth, Message
  <2>2. Discovering(plan', Configs)
    BY <2>1, Plans DEF Discovering, After
  <2>3. Owed \subseteq Owed'
    BY <1>1, <2>1, OwedTaken
  <2> QED BY <1>2, <1>3, <2>1, <2>2, <2>3, PhasesAgain DEF InServe
<1>7. CASE HandleZone
  <2>1. plan' \in {plan, <<>>, <<Do("state", None)>>} /\ Head(inbox).do = "zone"
        /\ rf \subseteq rf' /\ discovered' = discovered
    BY <1>7 DEF HandleZone, Message
  <2>2. Serving(plan', Configs, device.keys)
    BY <1>1, <2>1, Plans DEF Serving
  <2>3. Owed \subseteq Owed'
    BY <1>1, <2>1, OwedTaken
  <2> QED BY <1>2, <1>3, <2>1, <2>2, <2>3, PhasesServe
<1>8. CASE HandleDhw
  <2> DEFINE m == Head(inbox).what
  <2>1. Head(inbox).do = "dhw" /\ UNCHANGED <<rf, discovered>> /\ m \in Modes
    BY <1>8, QueueType DEF HandleDhw, Message, DiscoveryType
  <2>2. plan' = plan \/ plan' = <<Do("state", None), Do("write", m), Do("state", None)>>
    BY <1>8 DEF HandleDhw
  <2> HIDE DEF m
  <2>3. Writing(<<Do("write", m), Do("state", None)>>)
    BY <2>1, Plans DEF Writing
  <2>4. Serving(<<Do("state", None), Do("write", m), Do("state", None)>>, Configs, device.keys)
    BY <2>3, Plans DEF Serving
  <2>5. Serving(plan', Configs, device.keys)
    <3>1. Serving(<<>>, Configs, device.keys)
      BY DEF Serving
    <3> QED BY <1>1, <2>2, <2>4, <3>1
  <2>6. Owed \subseteq Owed'
    BY <1>1, <2>1, OwedTaken
  <2> QED BY <1>2, <1>3, <2>1, <2>5, <2>6, PhasesServe
<1> QED BY <1>4, <1>5, <1>6, <1>7, <1>8

\* The rest of what the message task does while it serves.
LEMMA PhasesWork ==
  ASSUME Paced, Phases, cfg # None, WriteSucceeds \/ WriteFails \/ Finish("mqtt")
  PROVE  Phases'
<1>1. plan # <<>> /\ Head(plan).do \in {"write", "state"}
  BY DEF WriteSucceeds, WriteFails, Finish, Paced, Doing
<1>2. InServe /\ Serving(plan, Configs, device.keys)
  BY <1>1, AtStep DEF Doing
<1>3. plan' = Tail(plan) /\ UNCHANGED <<cfg, inbox, rf, discovered, last, device, legacy, entities, forgotten>>
  BY DEF WriteSucceeds, WriteFails, Finish, broker, home
<1>4. ~\E k \in Legacy : Only(plan, Do("clear", k))
  BY <1>1, StepFields DEF Only, First
<1>5. Serving(plan', Configs, device.keys)
  BY <1>1, <1>2, <1>3, <1>4 DEF Serving, Writing, Only
<1>6. Owed' = Owed
  BY <1>3 DEF Owed
<1> QED BY <1>2, <1>3, <1>5, <1>6, PhasesServe

LEMMA PhasesStep ==
  ASSUME TypeInv, Followed, Phases, [Next]_vars PROVE Phases'
<1>1. Paced /\ DiscoveryType
  BY DEF TypeInv
<1>2. CASE cfg' = None
  BY <1>2 DEF Phases
<1>3. CASE cfg = None /\ cfg' # None
  <2>1. plan = <<>>
    BY <1>1, <1>3 DEF Paced
  <2>2. Start
    BY <1>3, <2>1, DiscoverySteps DEF Stop, Subscribe, Discover, PublishDevice, Noted, PublishMarker, ClearLegacy,
       HomeGoes, HomeReturns, Commands, HandleDevice, HandleLegacy, HandleBirth, HandleZone, HandleDhw,
       WriteSucceeds, WriteFails, Finish, Message, adapter
  <2> QED BY <2>2, PhasesStart
<1>4. CASE cfg # None /\ cfg' # None
  <2>1. ~Start /\ ~Stop
    BY <1>4 DEF Start, Stop
  <2>2. CASE HomeGoes \/ UNCHANGED <<cfg, last, discovery>>
    <3>1. UNCHANGED <<cfg, plan, inbox, rf, discovered, last, device, legacy, entities, forgotten>>
      BY <2>2 DEF HomeGoes, adapter, broker, discovery
    <3>2. Owed' = Owed
      BY <3>1 DEF Owed
    <3> QED BY <1>4, <3>1, <3>2, PhasesArrival
  <2>3. ASSUME NEW c \in HomeCommands, Commands(c) PROVE Phases'
    <3>1. c \in Steps
      BY StepsType DEF HomeCommands
    <3>2. Waiting \subseteq Waiting'
      BY <1>1, <2>3, <3>1, Arrival DEF Commands
    <3>3. UNCHANGED <<cfg, plan, rf, discovered, last, device, legacy, entities, forgotten>>
      BY <2>3 DEF Commands, broker, home
    <3> QED BY <1>4, <3>2, <3>3, OwedKept, PhasesArrival
  <2>4. CASE HandleDevice \/ HandleLegacy \/ HandleBirth \/ HandleZone \/ HandleDhw
    BY <1>1, <1>4, <2>4, PhasesHandle
  <2>5. CASE WriteSucceeds \/ WriteFails \/ Finish("mqtt")
    BY <1>1, <1>4, <2>5, PhasesWork
  <2> QED
    BY <1>1, <1>4, <2>1, <2>2, <2>3, <2>4, <2>5, DiscoverySteps, PhasesSubscribe, PhasesDiscover, PhasesPublishDevice,
       PhasesNoted, PhasesPublishMarker, PhasesClearLegacy, PhasesHomeReturns
<1> QED BY <1>2, <1>3, <1>4

-----------------------------------------------------------------------------
(* What Home Assistant has, and the old configs.                           *)

LEMMA FollowedStep ==
  ASSUME TypeInv, Followed, Phases, [Next]_vars PROVE Followed'
<1>1. Paced /\ DiscoveryType
  BY DEF TypeInv
<1>2. CASE UNCHANGED <<cfg, last, device, legacy, entities, forgotten>> /\ (online' => online)
  BY <1>2, ConfigsKept DEF Followed
<1>3. CASE cfg # None /\ cfg' = cfg /\ UNCHANGED <<device, online, entities, forgotten>>
  BY <1>3 DEF Followed
<1>4. CASE Start
  <2>1. cfg = None /\ UNCHANGED <<last, device, legacy, online, entities, forgotten>>
    BY <1>4 DEF Start, broker, home
  <2> QED BY <2>1, ConfigsKept DEF Followed
<1>5. CASE Stop
  <2>1. /\ last' = {} /\ UNCHANGED <<device, legacy, online, entities>>
        /\ forgotten' = forgotten \cup ((Owed \cup Marked) \ (device.keys \cup device.gone))
    BY <1>5 DEF Stop, broker
  <2>2. entities \subseteq device.keys \cup forgotten \cup Configs \cup Owed \cup Marked
    BY <1>5, AllAccounted DEF Stop, Accounted
  <2>3. entities \subseteq device.keys \cup forgotten' \cup Configs
    BY <2>1, <2>2 DEF Followed
  <2> QED BY <2>1, <2>3, ConfigsKept DEF Followed
<1>6. CASE PublishDevice
  <2> DEFINE keys == Head(plan).keys
             gone == Head(plan).gone
  <2>1. /\ device'.keys = keys /\ device'.gone = gone /\ cfg' = cfg /\ online' = online
        /\ \/ online /\ entities' = (entities \cup keys) \ gone /\ forgotten' = forgotten
           \/ ~online /\ entities' = entities /\ forgotten' = forgotten \cup gone
    BY <1>6 DEF PublishDevice
  <2>2. cfg # None
    BY <1>1, <1>6 DEF PublishDevice, Paced, Doing
  <2>3. keys \cap gone = {}
    <3>1. InRemove \/ InAnnounce
      BY <1>6, <2>2, AtStep DEF PublishDevice
    <3>2. InRemove => keys = Now /\ gone = discovered \ Now
      BY StepFields DEF InRemove, Removing, First
    <3>3. InAnnounce => gone = {}
      BY StepFields DEF InAnnounce, Announcing, First
    <3> QED BY <3>1, <3>2, <3>3
  <2> HIDE DEF keys, gone
  <2> QED BY <2>1, <2>2, <2>3 DEF Followed
<1>7. CASE ClearLegacy
  <2>1. cfg # None
    BY <1>1, <1>7 DEF ClearLegacy, Paced, Doing
  <2>2. PICK k \in Legacy \ (Configs \cap device.keys) : Head(plan).what = k
    BY <1>7, <2>1, Clearing DEF ClearLegacy
  <2> DEFINE its == IF legacy[k] = "config" THEN {k} ELSE {}
  <2>3. its \cap device.keys = {}
    BY <2>2 DEF Configs
  <2>4. /\ UNCHANGED <<cfg, device, online>>
        /\ \/ entities' = entities \ its /\ forgotten' = forgotten
           \/ entities' = entities /\ forgotten' = forgotten \cup its
    BY <1>7, <2>2 DEF ClearLegacy
  <2> HIDE DEF its
  <2> QED BY <2>1, <2>3, <2>4 DEF Followed
<1>8. CASE HomeReturns
  <2>1. /\ UNCHANGED <<cfg, last, device, legacy, forgotten>>
        /\ entities' = (entities \cup device.keys \cup Configs) \ device.gone
    BY <1>8 DEF HomeReturns, broker, Configs
  <2> QED BY <2>1, ConfigsKept DEF Followed
<1>9. CASE \/ Subscribe \/ Discover \/ Noted \/ PublishMarker \/ WriteSucceeds \/ WriteFails \/ Finish("mqtt")
           \/ HandleDevice \/ HandleLegacy \/ HandleBirth \/ HandleZone \/ HandleDhw
  <2>1. cfg # None
    BY <1>1, <1>9 DEF Subscribe, Discover, Noted, PublishMarker, WriteSucceeds, WriteFails, Finish,
       HandleDevice, HandleLegacy, HandleBirth, HandleZone, HandleDhw, Message, Paced, Doing
  <2>2. cfg' = cfg /\ UNCHANGED <<device, online, entities, forgotten>>
    BY <1>9 DEF Subscribe, Discover, Noted, PublishMarker, WriteSucceeds, WriteFails, Finish,
       HandleDevice, HandleLegacy, HandleBirth, HandleZone, HandleDhw, broker, home
  <2> QED BY <1>3, <2>1, <2>2
<1>10. CASE HomeGoes \/ (\E c \in HomeCommands : Commands(c)) \/ UNCHANGED <<cfg, last, discovery>>
  BY <1>2, <1>10 DEF HomeGoes, Commands, adapter, broker, home, discovery
<1> QED BY <1>4, <1>5, <1>6, <1>7, <1>8, <1>9, <1>10, DiscoverySteps

\* An old config that neither the plan nor the subscription deals with is a message that waits.
LEMMA Waits ==
  ASSUME Remembered, cfg # None, NEW k \in Configs,
         ~Doing("subscribe"), ~First(plan, Do("marker", k)), ~Only(plan, Do("clear", k))
  PROVE  \E e \in Waiting : e.do = "legacy" /\ e.what = k
  BY DEF Remembered, Dealt

LEMMA RememberedStep ==
  ASSUME TypeInv, Remembered, Phases, [Next]_vars PROVE Remembered'
<1>1. Paced /\ DiscoveryType
  BY DEF TypeInv
<1>2. CASE cfg' = None
  BY <1>2 DEF Remembered
<1>3. CASE Start
  <2>1. plan' = <<Do("subscribe", None), Do("discover", "changed"), Do("state", None)>>
    BY <1>3 DEF Start
  <2>2. plan' # <<>> /\ Head(plan').do = "subscribe"
    BY <2>1, Plans, StepFields DEF First
  <2> QED BY <2>2 DEF Remembered, Dealt, Doing
<1>4. CASE cfg # None /\ cfg' # None /\ Subscribe
  <2>1. \A k \in Configs : \E e \in Waiting' : e.do = "legacy" /\ e.what = k
    BY <1>1, <1>4, Retained, StepFields
  <2>2. Configs' = Configs
    BY <1>4, ConfigsKept DEF Subscribe, broker
  <2> QED BY <2>1, <2>2 DEF Remembered, Dealt
<1>5. CASE cfg # None /\ UNCHANGED <<plan, legacy>> /\ Waiting \subseteq Waiting'
  BY <1>5, ConfigsKept DEF Remembered, Dealt, Doing
<1>6. CASE cfg # None /\ (Discover \/ PublishDevice \/ Noted \/ WriteSucceeds \/ WriteFails \/ Finish("mqtt"))
  <2>1. plan # <<>> /\ Head(plan).do \notin {"subscribe", "marker", "clear"} /\ inbox' = inbox /\ legacy' = legacy
    BY <1>1, <1>6 DEF Discover, PublishDevice, Noted, WriteSucceeds, WriteFails, Finish, Paced, Doing, broker
  <2>2. \A k \in Configs : ~Doing("subscribe") /\ ~First(plan, Do("marker", k)) /\ ~Only(plan, Do("clear", k))
    BY <2>1, StepFields DEF Doing, First, Only
  <2>3. Waiting' = Waiting /\ Configs' = Configs
    BY <2>1, ConfigsKept DEF Waiting
  <2> QED BY <1>6, <2>2, <2>3, Waits DEF Remembered, Dealt
<1>7. CASE cfg # None /\ (PublishMarker \/ ClearLegacy)
  <2> DEFINE k == Head(plan).what
  <2>1. /\ Head(plan).do \in {"marker", "clear"} /\ plan # <<>> /\ inbox' = inbox
        /\ \E word \in {"marker", "absent"} : legacy' = [legacy EXCEPT ![k] = word]
    BY <1>7 DEF PublishMarker, ClearLegacy, Doing
  <2>2. Configs' \subseteq Configs \ {k}
    BY <1>1, <2>1 DEF Configs, DiscoveryType
  <2>3. \A j \in Configs' : ~Doing("subscribe") /\ ~First(plan, Do("marker", j)) /\ ~Only(plan, Do("clear", j))
    BY <2>1, <2>2, StepFields DEF Doing, First, Only
  <2>4. Waiting' = Waiting
    BY <2>1 DEF Waiting
  <2> HIDE DEF k
  <2> QED BY <1>7, <2>2, <2>3, <2>4, Waits DEF Remembered, Dealt
<1>8. CASE HandleDevice \/ HandleLegacy \/ HandleBirth \/ HandleZone \/ HandleDhw
  <2>1. cfg # None /\ plan = <<>> /\ inbox # <<>> /\ inbox' = Tail(inbox) /\ legacy' = legacy
        /\ (Head(inbox).do = "legacy" => HandleLegacy)
    BY <1>8 DEF HandleDevice, HandleLegacy, HandleBirth, HandleZone, HandleDhw, Message, broker
  <2>2. Configs' = Configs
    BY <2>1, ConfigsKept
  <2>3. ASSUME NEW k \in Configs PROVE Dealt(k)'
    <3>1. PICK e \in Waiting : e.do = "legacy" /\ e.what = k
      BY <2>1, Waits DEF Doing, First, Only
    <3>2. CASE e \in Waiting'
      BY <3>1, <3>2 DEF Dealt
    <3>3. CASE e = Head(inbox)
      <4>1. plan' = (IF k \in Now THEN <<Do("marker", k), Do("discover", "forced")>> ELSE <<>>) \o <<Do("clear", k)>>
        BY <2>1, <3>1, <3>3 DEF HandleLegacy, Now
      <4>2. Do("marker", k) \in Steps /\ Do("discover", "forced") \in Steps /\ Do("clear", k) \in Steps
        BY StepsType DEF Configs
      <4>3. CASE k \in Now
        <5>1. plan' = <<Do("marker", k), Do("discover", "forced"), Do("clear", k)>>
          BY <4>1, <4>2, <4>3, ThreeSteps
        <5> QED BY <5>1, Plans DEF Dealt
      <4>4. CASE k \notin Now
        <5>1. plan' = <<Do("clear", k)>>
          BY <4>1, <4>4
        <5> QED BY <5>1, Plans DEF Dealt
      <4> QED BY <4>3, <4>4
    <3> QED BY <1>1, <2>1, <3>2, <3>3, Departure
  <2> QED BY <2>2, <2>3 DEF Remembered
<1>9. CASE cfg # None /\ cfg' # None /\ HomeReturns
  <2>1. Do("birth", None) \in Steps
    BY StepsType
  <2>2. inbox' = inbox \/ inbox' = Append(inbox, Do("birth", None))
    BY <1>9 DEF HomeReturns
  <2>3. Waiting \subseteq Waiting' /\ UNCHANGED <<plan, legacy>>
    BY <1>1, <1>9, <2>1, <2>2, Arrival DEF Waiting, HomeReturns, broker
  <2> QED BY <1>5, <1>9, <2>3
<1>10. ASSUME cfg # None, NEW c \in HomeCommands, Commands(c) PROVE Remembered'
  <2>1. c \in Steps
    BY StepsType DEF HomeCommands
  <2>2. Waiting \subseteq Waiting' /\ UNCHANGED <<plan, legacy>>
    BY <1>1, <1>10, <2>1, Arrival DEF Commands, broker
  <2> QED BY <1>5, <1>10, <2>2
<1>11. CASE cfg # None /\ (HomeGoes \/ UNCHANGED <<cfg, last, discovery>>)
  <2>1. UNCHANGED <<plan, inbox, legacy>>
    BY <1>11 DEF HomeGoes, adapter, broker, discovery
  <2>2. Waiting' = Waiting
    BY <2>1 DEF Waiting
  <2> QED BY <1>5, <1>11, <2>1, <2>2
<1>12. cfg = None => cfg' = None \/ Start
  <2>1. cfg = None => plan = <<>>
    BY <1>1 DEF Paced
  <2> QED BY <2>1, DiscoverySteps DEF Stop, Subscribe, Discover, PublishDevice, Noted, PublishMarker, ClearLegacy,
       HomeGoes, HomeReturns, Commands, HandleDevice, HandleLegacy, HandleBirth, HandleZone, HandleDhw,
       WriteSucceeds, WriteFails, Finish, Message, Doing, Paced, adapter
<1>13. Stop => cfg' = None
  BY DEF Stop
<1> QED
  BY <1>2, <1>3, <1>4, <1>6, <1>7, <1>8, <1>9, <1>10, <1>11, <1>12, <1>13, DiscoverySteps

\* When the bridge has dealt with its messages, Home Assistant has the entities of its configuration,
\* and of the others only those that a stop or an absence of Home Assistant left behind.
THEOREM Retired == Spec => []NothingForgotten
<1> DEFINE Inv == TypeInv /\ Followed /\ Phases /\ Remembered
<1>1. Init => Inv
  <2> SUFFICES ASSUME Init PROVE Inv
    OBVIOUS
  <2>1. cfg = None /\ last = {} /\ device = [keys |-> {}, gone |-> {}]
    BY DEF Init, AdapterInit
  <2>2. entities \subseteq Configs
    BY DEF Init, AdapterInit, Configs
  <2>3. Followed
    BY <2>1, <2>2 DEF Followed
  <2> QED BY <2>1, <2>3, TypeInvInit DEF Phases, Remembered
<1>2. Inv /\ [Next]_vars => Inv'
  BY TypeInvStep, FollowedStep, PhasesStep, RememberedStep
<1>3. Inv => NothingForgotten
  <2> SUFFICES ASSUME Inv, cfg # None, plan = <<>>, inbox = <<>>
               PROVE  /\ device.gone = {} /\ device.keys = discovered
                      /\ Components(cfg, RfDiagnostics(cfg)) \subseteq device.keys
                      /\ \A k \in Legacy : legacy[k] # "config"
                      /\ online => device.keys \subseteq entities /\ entities \ device.keys \subseteq forgotten
    BY DEF NothingForgotten
  <2>1. InServe
    BY AtStep
  <2>2. Waiting = {}
    BY DEF Waiting, Elements
  <2>3. Configs = {}
    BY <2>2, Waits DEF Doing, First, Only
  <2>4. Owed = discovered
    BY <2>2, OwedIs
  <2>5. entities \subseteq device.keys \cup forgotten
    BY <2>1, <2>3, <2>4 DEF InServe, Accounted
  <2> QED BY <2>1, <2>3, <2>5 DEF InServe, Configs, Followed
<1>4. QED BY <1>1, <1>2, <1>3, PTL DEF Spec

=============================================================================

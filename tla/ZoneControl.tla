---------------------------- MODULE ZoneControl ----------------------------
(***************************************************************************)
(* One heating zone under everybody who may change it: Home Assistant's    *)
(* commands (MqttAdapter, BoilerOps), the physical satellite and its user, *)
(* a real Connect beside it, the boiler's copy of the satellite's last     *)
(* consigne, and the file the bridge keeps the zone in over a restart.     *)
(* A zone write is not acknowledged: its frames go out in a burst, the     *)
(* satellite may catch one of them and reports its settings when they      *)
(* change, and only such a report confirms the write.                      *)
(***************************************************************************)
EXTENDS ZoneModel

CONSTANTS
  None,         \* no frame, no write
  Targets,      \* the target temperatures Home Assistant asks for
  Settings,     \* what the satellite's user, or a real Connect, sets: zone frames
  Repeats,      \* frames in a burst (ZONE_WRITE_REPEATS)
  MaxMoves      \* bound: commands, changes by hand, check-ins, ids drawn, faults and stops in all

ASSUME ZoneControlAssumption ==
  /\ Repeats \in Nat \ {0}
  /\ Targets \subseteq {t \in Nat : Boost < t /\ t <= MaxCode}
  /\ Settings \subseteq FrameType
  /\ None \notin FrameType
  /\ SimpleDefault.Comfort <= MaxCode
  /\ MaxMoves \in Nat

\* The zone's configuration: a satellite the bridge writes as Connect or only listens to, or its own.
Kinds == {"written", "mirrored", "virtual", "simple"}
Satellite == {"written", "mirrored"}   \* zone.source is SATELLITE; else VIRTUAL

Only(hvac, preset, target) == [hvac |-> hvac, preset |-> preset, target |-> target]
Commands ==
  {Only(h, "kept", Unknown) : h \in {"off", "heat", "auto"}}
  \cup {Only("kept", p, Unknown) : p \in {"none", "comfort", "eco", "boost"}}
  \cup {Only("kept", "kept", t) : t \in Targets}

VARIABLES
  up,         \* the bridge runs
  kind,       \* the zone's configuration in this run
  z,          \* the zone in memory
  file,       \* the state file: the zone, and whether it holds the request ids
  write,      \* the zone write under way, or None
  relay,      \* a zone frame at the boiler, which the satellite has not caught yet
  satellite,  \* the settings the satellite is at
  report,     \* the satellite's report of them on the air
  block,      \* the satellite's last consigne, which the boiler keeps
  basis,      \* ghost: what the settings of a satellite's zone rest on (Bases)
  lost,       \* ghost: the parts of the state file that a fault cost
  drawn,      \* ghost: a request id has been drawn and saved
  moves       \* how often one of the bounded things has happened

bridge == <<up, kind, z, file, write, lost, drawn>>
air == <<relay, satellite, report, block>>
vars == <<bridge, air, basis, moves>>

\* The satellite's last report; a write that no report was heard of; a write put over a report that was
\* heard while its frames were sent; or nothing certain, as a report was missed or the bridge is new.
Bases == {"report", "write", "overwritten", "unknown"}

\* The action makes n of the bounded moves.
Moved(n) == moves + n <= MaxMoves /\ moves' = moves + n

\* "of" is a ghost: the settings the satellite sent it at.
NoConsigne == [ambient |-> Unknown, setpoint |-> Unknown, byte |-> 4, of |-> None]

Init ==
  /\ up = TRUE /\ kind \in Kinds /\ z = NewZone
  /\ file = [zone |-> NewZone, ids |-> FALSE] /\ lost = {} /\ drawn = FALSE
  /\ write = None /\ relay = None /\ report = None
  /\ satellite \in Settings /\ block = NoConsigne
  /\ basis = "unknown"
  /\ moves = 0

-----------------------------------------------------------------------------
(* The state file.  Its two owners, the zones and the request ids, each    *)
(* read it all, change their part and put the whole in its place.          *)

\* What the file keeps of a zone: not what the satellite measured.
Saved(zone) == [zone EXCEPT !.setpoint = Unknown, !.ambient = Unknown]

\* A save of one part, in an action of n moves: done, or the file cannot be read and counts as empty,
\* or cannot be written.
Save(part, whole, alone, n) ==
  \/ Moved(n) /\ file' = whole /\ lost' = lost \ {part}
  \/ Moved(n + 1) /\ file' = alone /\ lost' = {"zone", "ids"} \ {part}
  \/ Moved(n + 1) /\ file' = file /\ lost' = lost \cup {part}

Persist(zone, n) ==
  Save("zone", [file EXCEPT !.zone = Saved(zone)], [zone |-> Saved(zone), ids |-> FALSE], n)

\* Mutant of SaveId: the ids are written over the file, without reading it first.
CarelessSaveId ==
  Save("ids", [zone |-> NewZone, ids |-> TRUE], [zone |-> NewZone, ids |-> TRUE], 1)

SaveId == Save("ids", [file EXCEPT !.ids = TRUE], [zone |-> NewZone, ids |-> TRUE], 1)

\* A request id is drawn, by any role at any time, and saved.
DrawId ==
  /\ up /\ ~drawn
  /\ SaveId /\ drawn' = TRUE
  /\ UNCHANGED <<up, kind, z, write, air, basis>>

\* The bridge stops or crashes; what it had not saved is gone, a burst stays unfinished.
Stop ==
  /\ up /\ Moved(1)
  /\ up' = FALSE /\ write' = None /\ z' = NewZone
  /\ UNCHANGED <<kind, file, lost, drawn, air, basis>>

\* It starts again, the zone perhaps configured otherwise; what cannot be read is unknown.
Restart ==
  /\ ~up
  /\ up' = TRUE /\ kind' \in Kinds
  /\ \/ z' = file.zone /\ UNCHANGED <<lost, moves>>
     \/ Moved(1) /\ z' = NewZone /\ lost' = lost \cup {"zone"}
  /\ basis' = "unknown"
  /\ UNCHANGED <<file, drawn, write, air>>

-----------------------------------------------------------------------------
(* Home Assistant's commands, handled one after another.                   *)

Listening == up /\ write = None

Frame == ZoneFrame(write.old, write.intent)

\* A zone written as Connect: refused until its settings are known, else a burst starts.
WriteCommand(c) ==
  LET i == ResolveIntent(z, c)
  IN  /\ kind = "written" /\ Listening /\ Moved(1)
      /\ MetadataComplete(z) /\ i # Refused
      /\ write' = [old |-> z, intent |-> i, left |-> Repeats, heard |-> None]
      /\ UNCHANGED <<up, kind, z, file, lost, drawn, air, basis>>

\* A zone of the bridge's own takes the command and is saved; its satellite sends in its turn.
OwnCommand(c) ==
  LET i == ResolveIntent(z, c)
      after == IF kind = "simple" THEN ApplySimple(z, c)
               ELSE IF i = Refused THEN Refused ELSE ApplyIntent(z, i)
  IN  /\ kind \in {"virtual", "simple"} /\ Listening
      /\ after # Refused
      /\ z' = after /\ Persist(after, 1)
      /\ UNCHANGED <<up, kind, write, drawn, air, basis>>

\* The room temperature Home Assistant reports for it.
ReportedAmbient(t) ==
  /\ kind \in {"virtual", "simple"} /\ Listening
  /\ z' = [z EXCEPT !.reported = t] /\ Persist(z', 1)
  /\ UNCHANGED <<up, kind, write, drawn, air, basis>>

\* The simple profile sends its consigne, which settles the zone's mode but saves nothing.
SendSimple ==
  /\ up /\ kind = "simple"
  /\ z' = SimpleConsigne(z)
  /\ UNCHANGED <<up, kind, file, write, lost, drawn, air, basis, moves>>

-----------------------------------------------------------------------------
(* The burst of a zone write and what becomes of its frames.               *)

Send ==
  /\ write # None /\ write.left > 0
  /\ write' = [write EXCEPT !.left = @ - 1]
  /\ relay' = Frame
  /\ UNCHANGED <<up, kind, z, file, lost, drawn, satellite, report, block, basis, moves>>

\* The modem fails: the command ends in an error, the zone stays as it is.
SendFails ==
  /\ write # None /\ write.left > 0
  /\ write' = None
  /\ UNCHANGED <<up, kind, z, file, lost, drawn, air, basis, moves>>

\* After the last frame the zone takes what was written, whatever was heard during the burst: a report
\* of other settings is overwritten.
WriteDone ==
  /\ write # None /\ write.left = 0
  /\ z' = Written(z, write.old, write.intent)
  /\ basis' = CASE write.heard = None -> "write" [] write.heard = Frame -> "report" [] OTHER -> "overwritten"
  /\ write' = None
  /\ UNCHANGED <<up, kind, file, lost, drawn, air, moves>>

\* The satellite catches a frame, takes its settings and reports them.
Catch ==
  /\ relay # None /\ report = None
  /\ satellite' = relay /\ report' = relay /\ relay' = None
  /\ UNCHANGED <<bridge, block, basis, moves>>

\* The frame goes by unheard.
Fade ==
  /\ relay # None
  /\ relay' = None
  /\ UNCHANGED <<bridge, satellite, report, block, basis, moves>>

-----------------------------------------------------------------------------
(* What is overheard (PassiveMirror).  A zone of the bridge's own takes    *)
(* none of it, but is saved.                                               *)

Take(f) == IF kind \in Satellite THEN DecodeZone(z, f) ELSE z

UserSets(s) ==
  /\ Moved(1) /\ report = None
  /\ satellite' = s /\ report' = s
  /\ UNCHANGED <<bridge, relay, block, basis>>

\* A real Connect's write is heard on its way to the boiler, and taken, whether the satellite catches it
\* or not.
ConnectWrites(s) ==
  /\ up /\ kind = "mirrored" /\ relay = None
  /\ relay' = s
  /\ z' = Take(s) /\ Persist(z', 1)
  /\ basis' = "write"
  /\ UNCHANGED <<up, kind, write, drawn, satellite, report, block>>

\* Ghost: the last report of the satellite during a burst.
Hearing(f) == write' = IF write = None THEN None ELSE [write EXCEPT !.heard = f]

\* Mutant of Overhear: the satellite is not listened to while the bridge writes.
DeafOverhear ==
  /\ up /\ report # None
  /\ IF write = None THEN z' = Take(report) /\ Persist(z', 0)
     ELSE UNCHANGED <<z, file, lost, moves>>
  /\ Hearing(report)
  /\ report' = None
  /\ basis' = "report"
  /\ UNCHANGED <<up, kind, drawn, relay, satellite, block>>

\* The satellite's report, or the boiler's acknowledgement of it, is heard.
Overhear ==
  /\ up /\ report # None
  /\ z' = Take(report) /\ Persist(z', 0)
  /\ report' = None
  /\ basis' = "report"
  /\ Hearing(report)
  /\ UNCHANGED <<up, kind, drawn, relay, satellite, block>>

\* It is not heard, or the bridge is down.
ReportLost ==
  /\ report # None
  /\ report' = None /\ basis' = "unknown"
  /\ Hearing(None)
  /\ UNCHANGED <<up, kind, z, file, lost, drawn, relay, satellite, block, moves>>

Slots == {"comfort", "eco"}   \* the levels of a program

\* The satellite checks in with its consigne: in automatic mode at the program's level, or that of a
\* derogation.  The boiler keeps it; the bridge may hear it too.  Check-ins are bounded like the rest while
\* anything else may happen, and go on for ever after it.
SatelliteConsigne(slot, heard) ==
  LET at == DecodeZone(NewZone, satellite)
      now == IF at.mode = "Auto" /\ ~at.override THEN [at EXCEPT !.level = slot] ELSE at
      setpoint == IF now.mode = "Frost" THEN satellite.frost
                  ELSE IF now.mode = "Comfort" \/ now.level = "comfort" THEN satellite.comfort
                  ELSE satellite.reduced
      c == [ambient |-> 3, setpoint |-> setpoint, byte |-> EncodeMode(now, TRUE),
            of |-> satellite]
  IN  /\ block' = c
      /\ IF heard THEN up /\ kind \in Satellite /\ z' = DecodeConsigne(z, block') ELSE UNCHANGED z
      /\ Moved(1) \/ (moves = MaxMoves /\ UNCHANGED moves)
      /\ UNCHANGED <<up, kind, file, write, lost, drawn, relay, satellite, report, basis>>

\* The boiler's block is read, or overheard: its mode is that of a consigne which may be an old one.
ReadInfo ==
  /\ up /\ kind \in Satellite
  /\ z' = DecodeInfo(z, block)
  /\ UNCHANGED <<up, kind, file, write, lost, drawn, air, basis, moves>>

Next ==
  \/ DrawId \/ Stop \/ Restart
  \/ \E c \in Commands : WriteCommand(c) \/ OwnCommand(c)
  \/ \E t \in Targets : ReportedAmbient(t)
  \/ SendSimple \/ Send \/ SendFails \/ WriteDone \/ Catch \/ Fade
  \/ \E s \in Settings : UserSets(s) \/ ConnectWrites(s)
  \/ Overhear \/ ReportLost
  \/ \E slot \in Slots, heard \in BOOLEAN : SatelliteConsigne(slot, heard)
  \/ ReadInfo

Spec == Init /\ [][Next]_vars

\* The satellite checks in every ten minutes; the bridge, while it runs, hears it now and then.
Fairness == WF_vars(\E slot \in Slots : SatelliteConsigne(slot, TRUE))

FairSpec == Spec /\ Fairness

-----------------------------------------------------------------------------
(* Properties.                                                             *)

ConsigneType ==
  [ambient : Nat, setpoint : Nat, byte : Nat, of : FrameType \cup {None}]

FileType == [zone : ZoneType, ids : BOOLEAN]

WriteType ==
  [old : ZoneType, intent : IntentType, left : 0 .. Repeats, heard : FrameType \cup {None}]

\* Type correctness: what a frame carries is within what its bytes can hold.
TypeOK ==
  /\ up \in BOOLEAN /\ kind \in Kinds /\ basis \in Bases /\ drawn \in BOOLEAN /\ moves \in Nat
  /\ z \in ZoneType
  /\ file \in FileType /\ lost \subseteq {"zone", "ids"}
  /\ write = None \/ write \in WriteType
  /\ satellite \in FrameType /\ {relay, report} \subseteq FrameType \cup {None}
  /\ block \in ConsigneType

\* The comfort temperatures somebody set: in Home Assistant (where a target of boost is two degrees
\* up), at the satellite or a Connect, or by the simple profile.
SetComforts ==
  {Unknown, SimpleDefault.Comfort} \cup Targets \cup {t - Boost : t \in Targets}
  \cup {s.comfort : s \in {t \in Settings : "boost" \notin t.opts}}

\* The two degrees of a boost are never left in the comfort temperature, however often boost goes on
\* and off at the satellite, in Home Assistant and over restarts: it is always one that somebody set.
ComfortIsSet == z.comfort \in SetComforts

\* Does zone, which was before, show what command c asked of it?  With these exceptions: a zone that is
\* off takes no preset; heat without a level (a zone that was off) is automatic; the level and target
\* of an automatic zone are those of the setpoint in force, when one is known.
Shows(zone, before, c) ==
  LET live == zone.mode = "Auto" /\ zone.setpoint # Unknown
  IN  /\ c.hvac # "kept" =>
           HvacMode(zone) = (IF c.hvac = "heat" /\ Preset(before) = "none" THEN "auto" ELSE c.hvac)
      /\ c.preset \in {"comfort", "eco", "boost"} =>
           zone.mode = "Frost" \/ Preset(zone) = c.preset \/ (live /\ zone.override /\ zone.level = c.preset)
      /\ c.preset = "none" => zone.mode \in {"Frost", "Auto"} /\ ~zone.override
      /\ c.target # Unknown => live \/ Target(zone) = c.target
      /\ c.target # Unknown =>
           \E kept \in {{"comfort", "reduced"}, {"comfort", "frost"}, {"reduced", "frost"}} :
              \A part \in kept : zone[part] = before[part]

\* Whatever state the zone has come to, a command that is accepted ends with Home Assistant shown what
\* it asked for, on a zone the bridge writes as on one of its own; so a zone that was taken off boost
\* or off a derogation does not keep it.
CommandShown ==
  \A c \in Commands :
    LET i == ResolveIntent(z, c)
    IN  /\ i # Refused /\ kind # "simple" => Shows(ApplyIntent(z, i), z, c)
        /\ i # Refused /\ kind = "written" /\ MetadataComplete(z) => Shows(Written(z, z, i), z, c)
        /\ kind = "simple" /\ ApplySimple(z, c) # Refused =>
             LET after == ApplySimple(z, c)
             IN  /\ c.hvac # "kept" => SimpleHvacMode(after) = c.hvac
                 /\ c.preset # "kept" => after.mode = "Frost" \/ SimplePreset(after) = c.preset
                 /\ c.target # Unknown => SimpleTarget(after) = c.target

\* Two zones mean the same to a user: mode, derogation and its level; temperatures and boost.
SameMode(a, b) ==
  a.mode = b.mode /\ (a.override <=> b.override) /\ (a.override => a.level = b.level)

SameSettings(a, b) ==
  /\ Encoded(a.reduced) = Encoded(b.reduced) /\ Encoded(a.frost) = Encoded(b.frost)
  /\ a.boost <=> b.boost
  /\ a.boost \/ Encoded(a.comfort) = Encoded(b.comfort)

Agree(a, b) == SameMode(a, b) /\ SameSettings(a, b)

\* What a write records in the zone is what its own frame means to whoever decodes it, the bridge when
\* the satellite repeats it included; and the mode byte of a consigne means the zone it was made from.
SentMeansSame ==
  /\ \A c \in Commands :
       LET i == ResolveIntent(z, c)
       IN  i # Refused /\ MetadataComplete(z) => Agree(DecodeZone(z, ZoneFrame(z, i)), Written(z, z, i))
  /\ \A compat \in BOOLEAN :
       z.mode # "unknown" =>
         LET back == DecodeMode(NewZone, EncodeMode(z, compat))
         IN  /\ back.mode = z.mode
             /\ z.mode = "Auto" =>
                  (back.override <=> z.override) /\ (back.level = "comfort" <=> z.level = "comfort")

\* The satellite's zone: what it would be if decoded from the settings the satellite is at.
AtSatellite == DecodeZone(z, satellite)

\* The temperatures and boost of a report that was heard stay those of the zone, while a burst is under
\* way too, or after one that failed, and over consignes, reads of the boiler and reports in between; a write
\* takes their place in the end, and counts as reported itself only if the last report heard during its
\* burst says so.
ReportKept ==
  up /\ kind \in Satellite /\ report = None /\ basis = "report" => SameSettings(z, AtSatellite)

\* "The satellite's 0xa154 rebroadcast is what confirms the change" (ops.py): once a burst is over and
\* nothing is on the air, a report heard during it, or since, is what the zone has; so a change made at the
\* satellite meanwhile is not shown as undone.
ReportStands ==
  up /\ kind \in Satellite /\ write = None /\ {relay, report} = {None} /\ basis \in {"report", "overwritten"}
    => SameSettings(z, AtSatellite)

\* When nobody changes anything any more, the bridge ends up with the mode and derogation the satellite
\* is in, and stays there: after reports that were missed or overwritten, writes that no satellite caught,
\* and reads of a block that still had the mode of an earlier consigne.
ModeSettles == <>[](up /\ kind \in Satellite /\ write = None => SameMode(z, AtSatellite))

\* What is shown of a zone of the bridge's own; a simple one settles with its first consigne.
Shown(zone) ==
  IF kind = "simple"
  THEN LET own == SimpleConsigne(zone)
       IN  <<SimpleHvacMode(own), SimplePreset(own), SimpleTarget(own), own.reported>>
  ELSE <<HvacMode(zone), Preset(zone), Target(zone), zone.override, zone.reported>>

\* The state file has what it is for at any moment the bridge may stop, unless a fault cost it: the ids
\* of its clients, and of a zone of its own all that it shows.  Neither owner's save drops the other's.
FileKept ==
  /\ drawn /\ "ids" \notin lost => file.ids
  /\ up /\ kind \in {"virtual", "simple"} /\ "zone" \notin lost => Shown(file.zone) = Shown(z)
=============================================================================

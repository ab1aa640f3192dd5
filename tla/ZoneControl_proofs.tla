-------------------------- MODULE ZoneControl_proofs --------------------------
(***************************************************************************)
(* Theorems of ZoneControl, for any settings, targets, length of a burst   *)
(* and range of a frame: what the operators on a zone return, the types,   *)
(* and then the properties of the zone and of its file.                    *)
(***************************************************************************)
EXTENDS ZoneControl, TLAPS

-----------------------------------------------------------------------------
(* What the operators on zones return.                                     *)

LEMMA TargetType == \A t \in Targets : t \in Nat /\ 1 < t /\ t <= MaxCode
  BY ZoneControlAssumption DEF Boost

LEMMA EitherType == ASSUME NEW a \in Nat, NEW b \in Nat PROVE Either(a, b) \in Nat
  BY DEF Either

LEMMA Defaults == SimpleDefault.Frost = 1 /\ SimpleDefault.Reduced = 2 /\ SimpleDefault.Comfort = 4
  BY DEF SimpleDefault

LEMMA NewZoneType == NewZone \in ZoneType
  BY DEF NewZone, ZoneType, Unknown, Levels

LEMMA PresetType ==
  ASSUME NEW x \in ZoneType
  PROVE  /\ Preset(x) \in {"none", "comfort", "eco", "boost"}
         /\ Preset(x) = "boost" <=> x.mode = "Comfort" /\ x.boost
         /\ x.mode = "Reduced" => Preset(x) = "eco"
         /\ x.mode = "Comfort" => Preset(x) \in {"comfort", "boost"}
         /\ x.mode \in {"unknown", "Frost"} => Preset(x) = "none"
  BY DEF Preset, ActivePreset, ZoneType, Modes, Levels

LEMMA HvacModeType ==
  ASSUME NEW x \in ZoneType PROVE HvacMode(x) \in {"unknown", "off", "auto", "heat"}
  BY DEF HvacMode, ZoneType, Modes

LEMMA ResolvedType ==
  ASSUME NEW x \in ZoneType, NEW hvac, NEW preset \in {"none", "comfort", "eco", "boost"},
         Resolved(hvac, preset, x) # Refused
  PROVE  Resolved(hvac, preset, x) \in
           [mode : Modes, boost : BOOLEAN, override : BOOLEAN, level : Levels]
  BY DEF Resolved, Intent, ZoneType, Modes, Levels

LEMMA RetargetedType ==
  ASSUME NEW i \in [mode : Modes, boost : BOOLEAN, override : BOOLEAN, level : Levels],
         NEW t \in {Unknown} \cup Targets
  PROVE  Retargeted(i, t) \in [comfort : Nat, reduced : Nat, frost : Nat]
<1>1. t = 0 \/ (t \in Nat /\ t - 1 \in Nat)
  BY TargetType DEF Unknown
<1>2. CASE t = 0
  BY <1>2 DEF Retargeted, Unknown
<1>3. CASE t \in Nat /\ t # 0 /\ t - 1 \in Nat
  BY <1>3 DEF Retargeted, Unknown, Boost
<1> QED BY <1>1, <1>2, <1>3

LEMMA CommandParts ==
  ASSUME NEW c \in Commands
  PROVE  /\ c.hvac \in {"kept", "off", "heat", "auto"}
         /\ c.preset \in {"kept", "none", "comfort", "eco", "boost"}
         /\ c.target \in {Unknown} \cup Targets /\ c.target \in Nat
<1>1. c.target \in {Unknown} \cup Targets
  BY DEF Commands, Only
<1> QED
  BY <1>1, TargetType DEF Commands, Only, Unknown

\* An accepted command comes to a mode, a level and setpoints.
LEMMA ResolveIntentType ==
  ASSUME NEW x \in ZoneType, NEW c \in Commands, ResolveIntent(x, c) # Refused
  PROVE  ResolveIntent(x, c) \in IntentType
<1> DEFINE hvac == IF c.hvac # "kept" THEN c.hvac ELSE IF x.mode = "unknown" THEN "auto" ELSE HvacMode(x)
           preset == IF c.preset # "kept" THEN c.preset ELSE Preset(x)
           i == Resolved(hvac, preset, x)
           t == Retargeted(i, c.target)
<1>1. preset \in {"none", "comfort", "eco", "boost"}
  BY CommandParts, PresetType
<1>2. i # Refused
  BY DEF ResolveIntent
<1> HIDE DEF hvac, preset
<1>3. i \in [mode : Modes, boost : BOOLEAN, override : BOOLEAN, level : Levels]
  BY <1>1, <1>2, ResolvedType
<1> HIDE DEF i
<1>4. t \in [comfort : Nat, reduced : Nat, frost : Nat]
  BY <1>3, CommandParts, RetargetedType
<1> HIDE DEF t
<1>5. ResolveIntent(x, c) =
        [mode |-> i.mode, boost |-> i.boost, override |-> i.override, level |-> i.level,
         comfort |-> Either(t.comfort, x.comfort), reduced |-> Either(t.reduced, x.reduced),
         frost |-> Either(t.frost, x.frost)]
  BY <1>2 DEF ResolveIntent, i, t, hvac, preset
<1> QED
  BY <1>3, <1>4, <1>5 DEF IntentType, ZoneType, Either

LEMMA ApplyIntentType ==
  ASSUME NEW x \in ZoneType, NEW i \in IntentType PROVE ApplyIntent(x, i) \in ZoneType
<1> DEFINE override == i.mode = "Auto" /\ i.override
           level == IF i.mode = "Auto" THEN i.level ELSE "none"
<1>1. override \in BOOLEAN
  OBVIOUS
<1>2. level \in Levels
  BY DEF IntentType, Levels
<1>3. ApplyIntent(x, i) =
        [x EXCEPT !.mode = i.mode, !.boost = i.boost, !.override = override, !.level = level,
                  !.comfort = i.comfort, !.reduced = i.reduced, !.frost = i.frost]
  BY DEF ApplyIntent
<1> HIDE DEF override, level
<1> QED
  BY <1>1, <1>2, <1>3 DEF ZoneType, IntentType

LEMMA WrittenType ==
  ASSUME NEW x \in ZoneType, NEW old \in ZoneType, NEW i \in IntentType
  PROVE  Written(x, old, i) \in ZoneType
<1> DEFINE override == i.mode = "Auto" /\ i.override
           level == IF i.mode = "Auto" THEN WrittenLevel(old, i) ELSE "none"
<1>1. override \in BOOLEAN
  OBVIOUS
<1>2. level \in Levels
  BY DEF WrittenLevel, ZoneType, IntentType, Modes, Levels
<1>3. Written(x, old, i) =
        [x EXCEPT !.mode = i.mode, !.options = TRUE, !.boost = i.boost, !.level = level,
                  !.override = override, !.comfort = i.comfort, !.reduced = i.reduced, !.frost = i.frost]
  BY DEF Written
<1> HIDE DEF override, level
<1> QED
  BY <1>1, <1>2, <1>3 DEF ZoneType, IntentType

LEMMA ZoneFrameType ==
  ASSUME NEW x \in ZoneType, NEW i \in IntentType PROVE ZoneFrame(x, i) \in FrameType
<1>1. \A t \in Nat : Encoded(t) \in 0 .. MaxCode
  BY MaxCodeAssumption DEF Encoded
<1>2. Boosted(i.comfort, i.boost) \in Nat
  BY DEF Boosted, Boost, Unknown, IntentType
<1>3. ModeOptions(i.mode, WrittenLevel(x, i), i.override, i.boost) \subseteq {"program", "comfort", "boost"}
  BY DEF ModeOptions
<1> QED
  BY <1>1, <1>2, <1>3 DEF ZoneFrame, FrameType, IntentType

LEMMA FrameParts ==
  ASSUME NEW f \in FrameType
  PROVE  f.mode \in Modes /\ f.comfort \in Nat /\ f.reduced \in Nat /\ f.frost \in Nat
<1>1. f.mode \in Modes /\ f.comfort \in 0 .. MaxCode /\ f.reduced \in 0 .. MaxCode /\ f.frost \in 0 .. MaxCode
  BY DEF FrameType
<1> QED BY <1>1, MaxCodeAssumption

LEMMA DecodeZoneType ==
  ASSUME NEW x \in ZoneType, NEW f \in FrameType PROVE DecodeZone(x, f) \in ZoneType
<1> DEFINE boost == "boost" \in f.opts
           override == f.mode = "Auto" /\ "program" \notin f.opts
           level == IF f.mode # "Auto" THEN "none"
                    ELSE IF "comfort" \in f.opts THEN "comfort" ELSE "eco"
           comfort == IF "boost" \in f.opts THEN x.comfort ELSE f.comfort
<1>1. boost \in BOOLEAN /\ override \in BOOLEAN
  OBVIOUS
<1>2. level \in Levels
  BY DEF Levels
<1>3. comfort \in Nat
  BY FrameParts DEF ZoneType
<1>4. DecodeZone(x, f) =
        [x EXCEPT !.mode = f.mode, !.options = TRUE, !.boost = boost, !.comfort = comfort,
                  !.reduced = f.reduced, !.frost = f.frost, !.override = override, !.level = level]
  BY DEF DecodeZone
<1> HIDE DEF boost, override, level, comfort
<1> QED
  BY <1>1, <1>2, <1>3, <1>4, FrameParts DEF ZoneType

LEMMA DecodeModeType ==
  ASSUME NEW x \in ZoneType, NEW byte \in Nat PROVE DecodeMode(x, byte) \in ZoneType
<1> DEFINE b == IF byte >= CompatBit THEN byte - CompatBit ELSE byte
<1>1. CASE b \notin DOMAIN Meaning
  BY <1>1 DEF DecodeMode
<1>2. CASE b \in DOMAIN Meaning
  <2>1. Meaning[b] \in [mode : Modes, boost : BOOLEAN, override : BOOLEAN, level : Levels]
    BY <1>2 DEF Meaning, Intent, Modes, Levels
  <2>2. DecodeMode(x, byte) = [x EXCEPT !.mode = Meaning[b].mode, !.level = Meaning[b].level,
                                        !.override = Meaning[b].override]
    BY <1>2 DEF DecodeMode
  <2> HIDE DEF b
  <2> QED BY <2>1, <2>2 DEF ZoneType
<1> QED BY <1>1, <1>2

LEMMA ConsigneTypes ==
  ASSUME NEW x \in ZoneType, NEW c \in ConsigneType
  PROVE  DecodeConsigne(x, c) \in ZoneType /\ DecodeInfo(x, c) \in ZoneType
<1>1. /\ [x EXCEPT !.setpoint = Either(c.setpoint, @), !.ambient = Either(c.ambient, @)] \in ZoneType
      /\ [x EXCEPT !.setpoint = c.setpoint, !.ambient = c.ambient] \in ZoneType
  BY EitherType DEF ConsigneType, ZoneType
<1>2. c.byte \in Nat
  BY DEF ConsigneType
<1> QED
  BY <1>1, <1>2, DecodeModeType DEF DecodeConsigne, DecodeInfo

LEMMA EncodeModeType ==
  ASSUME NEW x \in ZoneType, x.mode # "unknown", NEW compat \in BOOLEAN
  PROVE  EncodeMode(x, compat) \in Nat
  BY DEF EncodeMode, CompatBit, ZoneType, Modes

LEMMA SimpleTypes ==
  ASSUME NEW x \in ZoneType
  PROVE  /\ SimpleConsigne(x) \in ZoneType
         /\ \A c \in Commands : ApplySimple(x, c) # Refused => ApplySimple(x, c) \in ZoneType
<1>1. \A mode \in Modes : Own(x, mode) \in ZoneType
  BY DEF Own, ZoneType, Levels
<1>2. \A y \in ZoneType : WithDefaults(y) \in ZoneType
    BY Defaults, EitherType DEF WithDefaults, ZoneType
<1>3. SimpleMode(x) \in Modes
  BY DEF SimpleMode, Modes
<1>4. ASSUME NEW c \in Commands, ApplySimple(x, c) # Refused PROVE ApplySimple(x, c) \in ZoneType
  <2> DEFINE was == SimpleMode(x)
             now == CASE c.hvac = "off" -> "Frost"
                      [] c.hvac = "heat" /\ was = "Frost" -> "Comfort"
                      [] c.hvac # "off" /\ c.preset = "comfort" /\ was # "Frost" -> "Comfort"
                      [] c.hvac # "off" /\ c.preset = "eco" /\ was # "Frost" -> "Reduced"
                      [] OTHER -> was
             own == Own(x, now)
             given == [own EXCEPT !.frost = IF now = "Frost" THEN c.target ELSE @,
                                  !.reduced = IF now = "Reduced" THEN c.target ELSE @,
                                  !.comfort = IF now = "Comfort" THEN c.target ELSE @]
  <2>1. now \in Modes
    BY <1>3 DEF Modes
  <2>2. own \in ZoneType
    BY <2>1, <1>1
  <2>3. c.target \in Nat
    BY <1>4, CommandParts
  <2> HIDE DEF own
  <2>4. WithDefaults(own) \in ZoneType /\ given \in ZoneType
    BY <2>2, <2>3, <1>2 DEF ZoneType
  <2> HIDE DEF now, given
  <2> QED
    BY <1>4, <2>4 DEF ApplySimple, own, now, given
<1> QED
  BY <1>1, <1>2, <1>3, <1>4 DEF SimpleConsigne

-----------------------------------------------------------------------------
(* Types.                                                                  *)

LEMMA SettingsType == Settings \subseteq FrameType /\ None \notin Settings /\ None \notin FrameType
  BY ZoneControlAssumption

\* A save keeps the file, or puts one of two others in its place.
LEMMA SaveType ==
  ASSUME NEW part \in {"zone", "ids"}, NEW whole, NEW alone, NEW n \in Nat, Save(part, whole, alone, n),
         moves \in Nat, lost \subseteq {"zone", "ids"}
  PROVE  moves' \in Nat /\ lost' \subseteq {"zone", "ids"} /\ file' \in {whole, alone, file}
<1>1. moves' = moves + n \/ moves' = moves + (n + 1)
  BY DEF Save, Moved
<1>2. lost' \in {lost \ {part}, {"zone", "ids"} \ {part}, lost \cup {part}} /\ file' \in {whole, alone, file}
  BY DEF Save
<1> QED
  BY <1>1, <1>2

LEMMA SavedType ==
  ASSUME NEW x \in ZoneType, NEW ids \in BOOLEAN, NEW f \in FileType
  PROVE  /\ Saved(x) \in ZoneType
         /\ [zone |-> Saved(x), ids |-> ids] \in FileType
         /\ [f EXCEPT !.zone = Saved(x)] \in FileType
         /\ [f EXCEPT !.ids = ids] \in FileType
<1>1. Saved(x) \in ZoneType
  BY DEF Saved, ZoneType, Unknown
<1> QED
  BY <1>1 DEF FileType

LEMMA PersistType ==
  ASSUME TypeOK, NEW x \in ZoneType, NEW n \in Nat, Persist(x, n)
  PROVE  moves' \in Nat /\ lost' \subseteq {"zone", "ids"} /\ file' \in FileType
<1>1. file \in FileType /\ moves \in Nat /\ lost \subseteq {"zone", "ids"}
  BY DEF TypeOK
<1>2. file' \in {[file EXCEPT !.zone = Saved(x)], [zone |-> Saved(x), ids |-> FALSE], file}
      /\ moves' \in Nat /\ lost' \subseteq {"zone", "ids"}
  BY <1>1, SaveType DEF Persist
<1> QED
  BY <1>1, <1>2, SavedType

\* What a satellite sends comes from a zone at its settings.
LEMMA SatelliteZone ==
  ASSUME NEW f \in FrameType
  PROVE  LET at == DecodeZone(NewZone, f)
         IN  /\ at \in ZoneType /\ at.mode = f.mode /\ at.mode # "unknown"
             /\ \A slot \in {"comfort", "eco"} : [at EXCEPT !.level = slot] \in ZoneType
<1> DEFINE at == DecodeZone(NewZone, f)
<1>1. at \in ZoneType
  BY NewZoneType, DecodeZoneType
<1>2. at.mode = f.mode
  BY NewZoneType DEF DecodeZone, ZoneType
<1>3. f.mode # "unknown"
  BY FrameParts DEF Modes
<1> HIDE DEF at
<1>4. ASSUME NEW slot \in {"comfort", "eco"} PROVE [at EXCEPT !.level = slot] \in ZoneType
  BY <1>1 DEF ZoneType, Levels
<1> QED
  BY <1>1, <1>2, <1>3, <1>4 DEF at

\* The consigne a satellite sends, and what it does to the zone of a bridge that hears it.
LEMMA SatelliteSends ==
  ASSUME TypeOK, NEW slot \in Slots, NEW heard \in BOOLEAN, SatelliteConsigne(slot, heard)
  PROVE  block' \in ConsigneType /\ z' \in {z, DecodeConsigne(z, block')}
<1> DEFINE at == DecodeZone(NewZone, satellite)
           now == IF at.mode = "Auto" /\ ~at.override THEN [at EXCEPT !.level = slot] ELSE at
           setpoint == IF now.mode = "Frost" THEN satellite.frost
                       ELSE IF now.mode = "Comfort" \/ now.level = "comfort" THEN satellite.comfort
                       ELSE satellite.reduced
<1>1. satellite \in FrameType
  BY DEF TypeOK
<1>2. at \in ZoneType /\ at.mode # "unknown" /\ [at EXCEPT !.level = slot] \in ZoneType
  BY <1>1, SatelliteZone DEF Slots
<1>3. now \in ZoneType /\ now.mode # "unknown"
  BY <1>2 DEF ZoneType
<1>4. setpoint \in Nat
  BY <1>1, FrameParts
<1>5. EncodeMode(now, TRUE) \in Nat
  BY <1>3, EncodeModeType
<1>6. /\ block' = [ambient |-> 3, setpoint |-> setpoint, byte |-> EncodeMode(now, TRUE), of |-> satellite]
      /\ z' \in {z, DecodeConsigne(z, block')}
  BY DEF SatelliteConsigne
<1> HIDE DEF at, now, setpoint
<1> QED
  BY <1>1, <1>4, <1>5, <1>6 DEF ConsigneType

LEMMA TypeInit == Init => TypeOK
<1> SUFFICES ASSUME Init PROVE TypeOK
  OBVIOUS
<1>1. file \in FileType
  BY NewZoneType DEF Init, FileType
<1>2. satellite \in FrameType
  BY SettingsType DEF Init
<1>3. block \in ConsigneType
  BY DEF Init, NoConsigne, ConsigneType, Unknown
<1> QED
  BY <1>1, <1>2, <1>3, NewZoneType DEF Init, TypeOK, Bases

\* Each action keeps the types; those that leave a variable alone are not told it twice.
LEMMA TypeStep == TypeOK /\ [Next]_vars => TypeOK'
<1> SUFFICES ASSUME TypeOK, [Next]_vars PROVE TypeOK'
  OBVIOUS
<1> USE DEF TypeOK
<1>1. CASE DrawId
  <2>1. file' \in {[file EXCEPT !.ids = TRUE], [zone |-> NewZone, ids |-> TRUE], file}
        /\ moves' \in Nat /\ lost' \subseteq {"zone", "ids"}
    BY <1>1, SaveType DEF DrawId, SaveId
  <2>2. file' \in FileType
    <3>1. [file EXCEPT !.ids = TRUE] \in FileType
      BY SavedType, NewZoneType
    <3>2. [zone |-> NewZone, ids |-> TRUE] \in FileType
      BY NewZoneType DEF FileType
    <3> QED BY <2>1, <3>1, <3>2
  <2> QED BY <1>1, <2>1, <2>2 DEF DrawId, air
<1>2. CASE Stop
  <2>1. moves' \in Nat
    BY <1>2 DEF Stop, Moved
  <2> QED BY <1>2, <2>1, NewZoneType DEF Stop, air
<1>3. CASE Restart
  <2>1. moves' \in Nat
    BY <1>3 DEF Restart, Moved
  <2>2. lost' \in {lost, lost \cup {"zone"}} /\ z' \in {file.zone, NewZone}
    BY <1>3 DEF Restart
  <2>3. lost' \subseteq {"zone", "ids"} /\ z' \in ZoneType
    BY <2>2, NewZoneType DEF FileType
  <2> QED BY <1>3, <2>1, <2>3 DEF Restart, air, Bases
<1>4. ASSUME NEW c \in Commands, WriteCommand(c) PROVE TypeOK'
  <2>1. ResolveIntent(z, c) \in IntentType
    BY <1>4, ResolveIntentType DEF WriteCommand
  <2>2. write' = [old |-> z, intent |-> ResolveIntent(z, c), left |-> Repeats, heard |-> None]
    BY <1>4 DEF WriteCommand
  <2>3. write' \in WriteType
    BY <2>1, <2>2, ZoneControlAssumption DEF WriteType
  <2>4. moves' \in Nat
    BY <1>4 DEF WriteCommand, Moved
  <2> QED BY <1>4, <2>3, <2>4 DEF WriteCommand, air
<1>5. ASSUME NEW c \in Commands, OwnCommand(c) PROVE TypeOK'
  <2>1. z' \in ZoneType /\ Persist(z', 1)
    BY <1>5, ResolveIntentType, ApplyIntentType, SimpleTypes DEF OwnCommand
  <2>2. moves' \in Nat /\ lost' \subseteq {"zone", "ids"} /\ file' \in FileType
    BY <2>1, PersistType
  <2> QED BY <1>5, <2>1, <2>2 DEF OwnCommand, air
<1>6. ASSUME NEW t \in Targets, ReportedAmbient(t) PROVE TypeOK'
  <2>1. z' \in ZoneType /\ Persist(z', 1)
    BY <1>6, TargetType DEF ReportedAmbient, ZoneType
  <2>2. moves' \in Nat /\ lost' \subseteq {"zone", "ids"} /\ file' \in FileType
    BY <2>1, PersistType
  <2> QED BY <1>6, <2>1, <2>2 DEF ReportedAmbient, air
<1>7. CASE SendSimple
  BY <1>7, SimpleTypes DEF SendSimple, air
<1>8. CASE Send
  <2>1. write \in WriteType
    BY <1>8 DEF Send
  <2>2. ZoneFrame(write.old, write.intent) \in FrameType
    BY <2>1, ZoneFrameType DEF WriteType
  <2>3. [write EXCEPT !.left = @ - 1] \in WriteType
    <3>1. write.left - 1 \in 0 .. Repeats
      BY <1>8, <2>1, ZoneControlAssumption DEF Send, WriteType
    <3> QED BY <2>1, <3>1 DEF WriteType
  <2> QED BY <1>8, <2>2, <2>3 DEF Send, Frame
<1>9. CASE SendFails
  BY <1>9 DEF SendFails, air
<1>10. CASE WriteDone
  <2>1. write \in WriteType
    BY <1>10 DEF WriteDone
  <2>2. Written(z, write.old, write.intent) \in ZoneType
    BY <2>1, WrittenType DEF WriteType
  <2>3. basis' \in Bases
    BY <1>10 DEF WriteDone, Bases
  <2> QED BY <1>10, <2>2, <2>3 DEF WriteDone, air
<1>11. CASE Catch
  BY <1>11 DEF Catch, bridge
<1>12. CASE Fade
  BY <1>12 DEF Fade, bridge
<1>13. ASSUME NEW s \in Settings, UserSets(s) PROVE TypeOK'
  <2>1. moves' \in Nat
    BY <1>13 DEF UserSets, Moved
  <2> QED BY <1>13, <2>1, SettingsType DEF UserSets, bridge
<1>14. ASSUME NEW s \in Settings, ConnectWrites(s) PROVE TypeOK'
  <2>1. z' \in ZoneType /\ Persist(z', 1)
    BY <1>14, SettingsType, DecodeZoneType DEF ConnectWrites, Take
  <2>2. moves' \in Nat /\ lost' \subseteq {"zone", "ids"} /\ file' \in FileType
    BY <2>1, PersistType
  <2> QED BY <1>14, <2>1, <2>2, SettingsType DEF ConnectWrites, Bases
<1>15. ASSUME NEW f \in FrameType \cup {None}, Hearing(f) PROVE write' = None \/ write' \in WriteType
  BY <1>15 DEF Hearing, WriteType
<1>16. CASE Overhear
  <2>1. report \in FrameType
    BY <1>16 DEF Overhear
  <2>2. z' \in ZoneType /\ Persist(z', 0)
    BY <1>16, <2>1, DecodeZoneType DEF Overhear, Take
  <2>3. moves' \in Nat /\ lost' \subseteq {"zone", "ids"} /\ file' \in FileType
    BY <2>2, PersistType
  <2>4. write' = None \/ write' \in WriteType
    BY <1>16, <1>15, <2>1 DEF Overhear
  <2> QED BY <1>16, <2>2, <2>3, <2>4 DEF Overhear, Bases
<1>17. CASE ReportLost
  <2>1. write' = None \/ write' \in WriteType
    BY <1>17, <1>15 DEF ReportLost
  <2> QED BY <1>17, <2>1 DEF ReportLost, Bases
<1>18. ASSUME NEW slot \in Slots, NEW heard \in BOOLEAN, SatelliteConsigne(slot, heard) PROVE TypeOK'
  <2>1. block' \in ConsigneType /\ z' \in {z, DecodeConsigne(z, block')}
    BY <1>18, SatelliteSends
  <2>2. z' \in ZoneType
    BY <2>1, ConsigneTypes
  <2>3. moves' \in Nat
    BY <1>18 DEF SatelliteConsigne, Moved
  <2> QED BY <1>18, <2>1, <2>2, <2>3 DEF SatelliteConsigne
<1>19. CASE ReadInfo
  <2>1. z' \in ZoneType
    BY <1>19, ConsigneTypes DEF ReadInfo
  <2> QED BY <1>19, <2>1 DEF ReadInfo, air
<1>20. CASE UNCHANGED vars
  BY <1>20 DEF vars, bridge, air
<1> QED
  BY <1>1, <1>2, <1>3, <1>4, <1>5, <1>6, <1>7, <1>8, <1>9, <1>10, <1>11, <1>12, <1>13, <1>14, <1>16, <1>17,
     <1>18, <1>19, <1>20 DEF Next

\* The types of the zone, of its file, of what is on the air and of a write under way.
THEOREM Typing == Spec => []TypeOK
  BY TypeInit, TypeStep, PTL DEF Spec

-----------------------------------------------------------------------------
(* What commands come to.                                                  *)

HvacOf(x, c) == IF c.hvac # "kept" THEN c.hvac ELSE IF x.mode = "unknown" THEN "auto" ELSE HvacMode(x)
PresetOf(x, c) == IF c.preset # "kept" THEN c.preset ELSE Preset(x)

LEMMA ResolveIntentParts ==
  ASSUME NEW x \in ZoneType, NEW c \in Commands, ResolveIntent(x, c) # Refused
  PROVE  LET i == ResolveIntent(x, c)
             r == Resolved(HvacOf(x, c), PresetOf(x, c), x)
             t == Retargeted(r, c.target)
         IN  /\ r # Refused
             /\ r \in [mode : Modes, boost : BOOLEAN, override : BOOLEAN, level : Levels]
             /\ i.mode = r.mode /\ i.boost = r.boost /\ i.override = r.override /\ i.level = r.level
             /\ i.comfort = Either(t.comfort, x.comfort)
             /\ i.reduced = Either(t.reduced, x.reduced)
             /\ i.frost = Either(t.frost, x.frost)
<1> DEFINE r == Resolved(HvacOf(x, c), PresetOf(x, c), x)
           t == Retargeted(r, c.target)
<1>1. r # Refused
  BY DEF ResolveIntent, HvacOf, PresetOf
<1>2. PresetOf(x, c) \in {"none", "comfort", "eco", "boost"}
  BY CommandParts, PresetType DEF PresetOf
<1>3. r \in [mode : Modes, boost : BOOLEAN, override : BOOLEAN, level : Levels]
  BY <1>1, <1>2, ResolvedType
<1>4. ResolveIntent(x, c) =
        [mode |-> r.mode, boost |-> r.boost, override |-> r.override, level |-> r.level,
         comfort |-> Either(t.comfort, x.comfort), reduced |-> Either(t.reduced, x.reduced),
         frost |-> Either(t.frost, x.frost)]
  BY <1>1 DEF ResolveIntent, HvacOf, PresetOf
<1> HIDE DEF r, t
<1>5. LET i == ResolveIntent(x, c)
      IN  /\ i.mode = r.mode /\ i.boost = r.boost /\ i.override = r.override /\ i.level = r.level
          /\ i.comfort = Either(t.comfort, x.comfort)
          /\ i.reduced = Either(t.reduced, x.reduced)
          /\ i.frost = Either(t.frost, x.frost)
  BY <1>4
<1> QED
  BY <1>1, <1>3, <1>5 DEF r, t

\* Mode, boost, derogation and level a command comes to, by the hvac mode and preset it gives or keeps.
LEMMA ResolvedParts ==
  ASSUME NEW x \in ZoneType, NEW hvac \in {"off", "auto", "heat"},
         NEW preset \in {"none", "comfort", "eco", "boost"}, Resolved(hvac, preset, x) # Refused
  PROVE  LET r == Resolved(hvac, preset, x)
         IN  /\ r.mode = "Frost" <=> hvac = "off"
             /\ hvac # "off" /\ preset = "none" => r.mode = "Auto" /\ ~r.override /\ r.level = x.level
             /\ hvac = "auto" /\ preset # "none" =>
                  r.mode = "Auto" /\ r.override /\ r.level = preset /\ preset \in {"comfort", "eco"}
             /\ hvac = "heat" /\ preset = "eco" => r.mode = "Reduced"
             /\ hvac = "heat" /\ preset \in {"comfort", "boost"} =>
                  r.mode = "Comfort" /\ (r.boost <=> preset = "boost")
             /\ r.boost => r.mode = "Comfort"
             /\ r.override => r.mode = "Auto" /\ r.level = preset /\ preset \in {"comfort", "eco"}
             /\ r.mode = "Auto" /\ r.level = "none" => x.level = "none"
<1> DEFINE r == Resolved(hvac, preset, x)
<1>1. CASE hvac = "off"
  <2>1. r = Intent("Frost", FALSE, FALSE, "none")
    BY <1>1 DEF Resolved
  <2>2. r.mode = "Frost" /\ ~r.boost /\ ~r.override /\ r.level = "none"
    BY <2>1 DEF Intent
  <2> QED BY <1>1, <2>2
<1>2. CASE hvac # "off" /\ preset = "none"
  <2>1. r = Intent("Auto", FALSE, FALSE, x.level)
    BY <1>2 DEF Resolved
  <2>2. r.mode = "Auto" /\ ~r.boost /\ ~r.override /\ r.level = x.level
    BY <2>1 DEF Intent
  <2> QED BY <1>2, <2>2
<1>3. CASE hvac = "auto" /\ preset \in {"comfort", "eco"}
  <2>1. r = Intent("Auto", FALSE, TRUE, preset)
    BY <1>3 DEF Resolved
  <2>2. r.mode = "Auto" /\ ~r.boost /\ r.override /\ r.level = preset
    BY <2>1 DEF Intent
  <2> QED BY <1>3, <2>2
<1>4. CASE hvac = "heat" /\ preset = "eco"
  <2>1. r = Intent("Reduced", FALSE, FALSE, "none")
    BY <1>4 DEF Resolved
  <2>2. r.mode = "Reduced" /\ ~r.boost /\ ~r.override /\ r.level = "none"
    BY <2>1 DEF Intent
  <2> QED BY <1>4, <2>2
<1>5. CASE hvac = "heat" /\ preset = "comfort"
  <2>1. r = Intent("Comfort", FALSE, FALSE, "none")
    BY <1>5 DEF Resolved
  <2>2. r.mode = "Comfort" /\ ~r.boost /\ ~r.override /\ r.level = "none"
    BY <2>1 DEF Intent
  <2> QED BY <1>5, <2>2
<1>6. CASE hvac = "heat" /\ preset = "boost"
  <2>1. r = Intent("Comfort", TRUE, FALSE, "none")
    BY <1>6 DEF Resolved
  <2>2. r.mode = "Comfort" /\ r.boost /\ ~r.override /\ r.level = "none"
    BY <2>1 DEF Intent
  <2> QED BY <1>6, <2>2
<1>7. CASE hvac = "auto" /\ preset = "boost"
  BY <1>7 DEF Resolved
<1> QED
  BY <1>1, <1>2, <1>3, <1>4, <1>5, <1>6, <1>7

LEMMA KeptParts ==
  ASSUME NEW x \in ZoneType, NEW c \in Commands
  PROVE  HvacOf(x, c) \in {"off", "auto", "heat"} /\ PresetOf(x, c) \in {"none", "comfort", "eco", "boost"}
<1>1. x.mode # "unknown" => HvacMode(x) \in {"off", "auto", "heat"}
  BY DEF HvacMode, ZoneType, Modes
<1> QED
  BY <1>1, CommandParts, PresetType DEF HvacOf, PresetOf

\* Only comfort is boosted, and only automatic mode derogated from, to a level that is known.
Sound(i) ==
  /\ i.boost => i.mode = "Comfort"
  /\ i.override => i.mode = "Auto" /\ i.level \in {"comfort", "eco"}

LEMMA ResolveIntentSound ==
  ASSUME NEW x \in ZoneType, NEW c \in Commands, ResolveIntent(x, c) # Refused
  PROVE  Sound(ResolveIntent(x, c))
  BY ResolveIntentParts, ResolvedParts, KeptParts DEF Sound

LEMMA OnePart ==
  ASSUME NEW c \in Commands
  PROVE  /\ c.hvac # "kept" => c.preset = "kept" /\ c.target = Unknown
         /\ c.preset # "kept" => c.hvac = "kept" /\ c.target = Unknown
         /\ c.target # Unknown => c.hvac = "kept" /\ c.preset = "kept"
  BY DEF Commands, Only

\* What Home Assistant is shown of a zone, by its mode.
LEMMA ShownByMode ==
  ASSUME NEW w \in ZoneType
  PROVE  /\ w.mode = "Frost" => HvacMode(w) = "off" /\ Target(w) = w.frost
         /\ w.mode = "Reduced" => HvacMode(w) = "heat" /\ Preset(w) = "eco" /\ Target(w) = w.reduced
         /\ w.mode = "Comfort" =>
              /\ HvacMode(w) = "heat" /\ Preset(w) = IF w.boost THEN "boost" ELSE "comfort"
              /\ Target(w) = Boosted(w.comfort, w.boost)
         /\ w.mode = "Auto" => HvacMode(w) = "auto"
         /\ w.mode = "Auto" /\ w.setpoint = Unknown =>
              /\ Target(w) = IF w.level = "eco" THEN w.reduced ELSE w.comfort
              /\ w.level # "none" => Preset(w) = w.level
  BY DEF HvacMode, Preset, ActivePreset, Target, ZoneType, Modes, Levels

\* A zone that took what a command came to shows what the command asked for.
LEMMA TakenShows ==
  ASSUME NEW x \in ZoneType, NEW c \in Commands, ResolveIntent(x, c) # Refused, NEW w \in ZoneType,
         LET i == ResolveIntent(x, c)
         IN  /\ w.mode = i.mode /\ w.boost = i.boost /\ (w.override <=> i.override)
             /\ w.mode = "Auto" => w.level = i.level
             /\ w.comfort = i.comfort /\ w.reduced = i.reduced /\ w.frost = i.frost
             /\ w.setpoint = x.setpoint
  PROVE  Shows(w, x, c)
<1> DEFINE hvac == HvacOf(x, c)
           preset == PresetOf(x, c)
           r == Resolved(hvac, preset, x)
           t == Retargeted(r, c.target)
           live == w.mode = "Auto" /\ w.setpoint # Unknown
<1>1. hvac \in {"off", "auto", "heat"} /\ preset \in {"none", "comfort", "eco", "boost"} /\ r # Refused
  BY KeptParts, ResolveIntentParts
<1>2. /\ w.mode = r.mode /\ w.boost = r.boost /\ (w.override <=> r.override)
      /\ w.mode = "Auto" => w.level = r.level
      /\ r \in [mode : Modes, boost : BOOLEAN, override : BOOLEAN, level : Levels]
  BY ResolveIntentParts
<1>3. /\ w.comfort = Either(t.comfort, x.comfort) /\ w.reduced = Either(t.reduced, x.reduced)
      /\ w.frost = Either(t.frost, x.frost)
  BY ResolveIntentParts
<1>4. /\ r.mode = "Frost" <=> hvac = "off"
      /\ hvac # "off" /\ preset = "none" => r.mode = "Auto" /\ ~r.override
      /\ hvac = "auto" /\ preset # "none" =>
           r.mode = "Auto" /\ r.override /\ r.level = preset /\ preset \in {"comfort", "eco"}
      /\ hvac = "heat" /\ preset = "eco" => r.mode = "Reduced"
      /\ hvac = "heat" /\ preset \in {"comfort", "boost"} => r.mode = "Comfort" /\ (r.boost <=> preset = "boost")
      /\ r.boost => r.mode = "Comfort"
  BY <1>1, ResolvedParts
<1> HIDE DEF r, t
<1>5. c.hvac # "kept" => HvacMode(w) = (IF c.hvac = "heat" /\ Preset(x) = "none" THEN "auto" ELSE c.hvac)
  BY <1>1, <1>2, <1>4, OnePart, CommandParts, ShownByMode DEF HvacOf, PresetOf
<1>6. c.preset \in {"comfort", "eco", "boost"} =>
        w.mode = "Frost" \/ Preset(w) = c.preset \/ (live /\ w.override /\ w.level = c.preset)
  BY <1>1, <1>2, <1>4, ShownByMode DEF PresetOf
<1>7. c.preset = "none" => w.mode \in {"Frost", "Auto"} /\ ~w.override
  <2>1. r.override => r.mode = "Auto" /\ preset # "none"
    BY <1>1, ResolvedParts DEF r
  <2> QED BY <1>1, <1>2, <1>4, <2>1 DEF PresetOf
<1>8. ASSUME c.target # Unknown
      PROVE  /\ live \/ Target(w) = c.target
             /\ \E kept \in {{"comfort", "reduced"}, {"comfort", "frost"}, {"reduced", "frost"}} :
                  \A part \in kept : w[part] = x[part]
  <2>1. c.target \in Nat /\ c.target > 1 /\ w.mode \in Modes
    BY <1>2, <1>8, CommandParts, TargetType
  <2>2. CASE w.mode = "Frost"
    <3>1. t.frost = c.target /\ t.comfort = Unknown /\ t.reduced = Unknown
      BY <1>2, <1>8, <2>2 DEF t, Retargeted
    <3>2. w.frost = c.target /\ w.comfort = x.comfort /\ w.reduced = x.reduced
      BY <1>3, <1>8, <3>1 DEF Either
    <3> QED BY <2>2, <3>2, ShownByMode
  <2>3. CASE w.mode = "Reduced"
    <3>1. t.reduced = c.target /\ t.comfort = Unknown /\ t.frost = Unknown
      BY <1>2, <1>8, <2>3 DEF t, Retargeted
    <3>2. w.reduced = c.target /\ w.comfort = x.comfort /\ w.frost = x.frost
      BY <1>3, <1>8, <3>1 DEF Either
    <3> QED BY <2>3, <3>2, ShownByMode
  <2>4. CASE w.mode = "Comfort"
    <3>1. t.comfort = c.target - (IF w.boost THEN Boost ELSE 0) /\ t.reduced = Unknown /\ t.frost = Unknown
      BY <1>2, <1>8, <2>4 DEF t, Retargeted
    <3>2. t.comfort # Unknown /\ Boosted(t.comfort, w.boost) = c.target
      BY <2>1, <3>1 DEF Boosted, Boost, Unknown
    <3>3. w.comfort = t.comfort /\ w.reduced = x.reduced /\ w.frost = x.frost
      BY <1>3, <3>1, <3>2 DEF Either
    <3> QED BY <2>4, <3>2, <3>3, ShownByMode
  <2>5. CASE w.mode = "Auto" /\ w.level = "eco"
    <3>1. t.reduced = c.target /\ t.comfort = Unknown /\ t.frost = Unknown
      BY <1>2, <1>8, <2>5 DEF t, Retargeted
    <3>2. w.reduced = c.target /\ w.comfort = x.comfort /\ w.frost = x.frost
      BY <1>3, <1>8, <3>1 DEF Either
    <3> QED BY <2>5, <3>2, ShownByMode
  <2>6. CASE w.mode = "Auto" /\ w.level # "eco"
    <3>1. t.comfort = c.target /\ t.reduced = Unknown /\ t.frost = Unknown
      BY <1>2, <1>8, <2>6 DEF t, Retargeted
    <3>2. w.comfort = c.target /\ w.reduced = x.reduced /\ w.frost = x.frost
      BY <1>3, <1>8, <3>1 DEF Either
    <3> QED BY <2>6, <3>2, ShownByMode
  <2> QED BY <2>1, <2>2, <2>3, <2>4, <2>5, <2>6 DEF Modes
<1> QED
  BY <1>5, <1>6, <1>7, <1>8 DEF Shows

\* The same for the simple profile.
LEMMA SimpleShows ==
  ASSUME NEW x \in ZoneType, NEW c \in Commands, ApplySimple(x, c) # Refused
  PROVE  LET after == ApplySimple(x, c)
         IN  /\ c.hvac # "kept" => SimpleHvacMode(after) = c.hvac
             /\ c.preset # "kept" => after.mode = "Frost" \/ SimplePreset(after) = c.preset
             /\ c.target # Unknown => SimpleTarget(after) = c.target
<1> DEFINE was == SimpleMode(x)
           now == CASE c.hvac = "off" -> "Frost"
                    [] c.hvac = "heat" /\ was = "Frost" -> "Comfort"
                    [] c.hvac # "off" /\ c.preset = "comfort" /\ was # "Frost" -> "Comfort"
                    [] c.hvac # "off" /\ c.preset = "eco" /\ was # "Frost" -> "Reduced"
                    [] OTHER -> was
           own == Own(x, now)
           given == [own EXCEPT !.frost = IF now = "Frost" THEN c.target ELSE @,
                                !.reduced = IF now = "Reduced" THEN c.target ELSE @,
                                !.comfort = IF now = "Comfort" THEN c.target ELSE @]
           after == ApplySimple(x, c)
<1>1. c.hvac # "auto" /\ c.preset \notin {"none", "boost"}
      /\ after = IF c.target = Unknown THEN WithDefaults(own) ELSE given
  BY DEF ApplySimple
<1>2. was \in {"Frost", "Reduced", "Comfort"}
  BY DEF SimpleMode
<1>3. /\ now \in {"Frost", "Reduced", "Comfort"}
      /\ c.hvac = "off" => now = "Frost"
      /\ c.hvac = "heat" => now # "Frost"
      /\ c.preset = "comfort" => now \in {"Frost", "Comfort"}
      /\ c.preset = "eco" => now \in {"Frost", "Reduced"}
  BY <1>2, OnePart, CommandParts
<1> HIDE DEF now
<1>4. own \in ZoneType /\ own.mode = now
  BY <1>3 DEF Own, ZoneType, Modes, Levels
<1> HIDE DEF own
<1>5. after.mode = now
  BY <1>1, <1>4 DEF WithDefaults, ZoneType
<1>6. SimpleMode(after) = now
  BY <1>3, <1>5 DEF SimpleMode
<1>7. c.target # Unknown => SimpleTarget(after) = c.target
  <2> SUFFICES ASSUME c.target # Unknown PROVE SimpleTarget(after) = c.target
    OBVIOUS
  <2>1. /\ now = "Frost" => after.frost = c.target
        /\ now = "Reduced" => after.reduced = c.target
        /\ now = "Comfort" => after.comfort = c.target
    BY <1>1, <1>4 DEF ZoneType
  <2>2. /\ now = "Frost" => SimpleTarget(after) = Either(after.frost, SimpleDefault["Frost"])
        /\ now = "Reduced" => SimpleTarget(after) = Either(after.reduced, SimpleDefault["Reduced"])
        /\ now = "Comfort" => SimpleTarget(after) = Either(after.comfort, SimpleDefault["Comfort"])
    BY <1>6 DEF SimpleTarget
  <2> QED BY <1>3, <2>1, <2>2 DEF Either
<1>8. c.hvac # "kept" => SimpleHvacMode(after) = c.hvac
  BY <1>1, <1>3, <1>5, CommandParts DEF SimpleHvacMode
<1>9. c.preset # "kept" => after.mode = "Frost" \/ SimplePreset(after) = c.preset
  BY <1>1, <1>3, <1>5, CommandParts DEF SimplePreset
<1> QED
  BY <1>7, <1>8, <1>9

\* What a zone takes from an intent that is written, or applied at once.
LEMMA WrittenParts ==
  ASSUME NEW x \in ZoneType, NEW old \in ZoneType, NEW i \in IntentType, Sound(i)
  PROVE  LET w == Written(x, old, i)
         IN  /\ w \in ZoneType
             /\ w.mode = i.mode /\ w.boost = i.boost /\ (w.override <=> i.override)
             /\ w.comfort = i.comfort /\ w.reduced = i.reduced /\ w.frost = i.frost
             /\ w.setpoint = x.setpoint /\ w.ambient = x.ambient
             /\ w.mode = "Auto" => w.level = WrittenLevel(old, i)
<1> DEFINE w == Written(x, old, i)
           override == i.mode = "Auto" /\ i.override
<1>1. w \in ZoneType
  BY WrittenType
<1>2. w = [x EXCEPT !.mode = i.mode, !.options = TRUE, !.boost = i.boost,
                     !.level = IF i.mode = "Auto" THEN WrittenLevel(old, i) ELSE "none",
                     !.override = override, !.comfort = i.comfort, !.reduced = i.reduced, !.frost = i.frost]
  BY DEF Written
<1>3. override <=> i.override
  BY DEF Sound
<1> HIDE DEF override, w
<1>4. /\ w.mode = i.mode /\ w.boost = i.boost /\ w.override = override
      /\ w.comfort = i.comfort /\ w.reduced = i.reduced /\ w.frost = i.frost
      /\ w.setpoint = x.setpoint /\ w.ambient = x.ambient
      /\ w.mode = "Auto" => w.level = WrittenLevel(old, i)
  BY <1>2 DEF ZoneType
<1> QED
  BY <1>1, <1>3, <1>4 DEF w

LEMMA AppliedParts ==
  ASSUME NEW x \in ZoneType, NEW i \in IntentType, Sound(i)
  PROVE  LET w == ApplyIntent(x, i)
         IN  /\ w \in ZoneType
             /\ w.mode = i.mode /\ w.boost = i.boost /\ (w.override <=> i.override)
             /\ w.comfort = i.comfort /\ w.reduced = i.reduced /\ w.frost = i.frost
             /\ w.setpoint = x.setpoint /\ w.ambient = x.ambient
             /\ w.mode = "Auto" => w.level = i.level
<1> DEFINE w == ApplyIntent(x, i)
           override == i.mode = "Auto" /\ i.override
<1>1. w \in ZoneType
  BY ApplyIntentType
<1>2. w = [x EXCEPT !.mode = i.mode, !.boost = i.boost, !.override = override,
                     !.level = IF i.mode = "Auto" THEN i.level ELSE "none",
                     !.comfort = i.comfort, !.reduced = i.reduced, !.frost = i.frost]
  BY DEF ApplyIntent
<1>3. override <=> i.override
  BY DEF Sound
<1> HIDE DEF override, w
<1>4. /\ w.mode = i.mode /\ w.boost = i.boost /\ w.override = override
      /\ w.comfort = i.comfort /\ w.reduced = i.reduced /\ w.frost = i.frost
      /\ w.setpoint = x.setpoint /\ w.ambient = x.ambient
      /\ w.mode = "Auto" => w.level = i.level
  BY <1>2 DEF ZoneType
<1> QED
  BY <1>1, <1>3, <1>4 DEF w

\* Whatever zone it has, the bridge shows what an accepted command asked for.
THEOREM CommandsShown == Spec => []CommandShown
<1>1. TypeOK => CommandShown
  <2> SUFFICES ASSUME TypeOK, NEW c \in Commands
               PROVE  LET i == ResolveIntent(z, c)
                      IN  /\ i # Refused /\ kind # "simple" => Shows(ApplyIntent(z, i), z, c)
                          /\ i # Refused /\ kind = "written" /\ MetadataComplete(z) => Shows(Written(z, z, i), z, c)
                          /\ kind = "simple" /\ ApplySimple(z, c) # Refused =>
                               LET after == ApplySimple(z, c)
                               IN  /\ c.hvac # "kept" => SimpleHvacMode(after) = c.hvac
                                   /\ c.preset # "kept" => after.mode = "Frost" \/ SimplePreset(after) = c.preset
                                   /\ c.target # Unknown => SimpleTarget(after) = c.target
    BY DEF CommandShown
  <2> DEFINE i == ResolveIntent(z, c)
  <2>1. z \in ZoneType
    BY DEF TypeOK
  <2>2. ASSUME i # Refused, NEW w \in {Written(z, z, i), ApplyIntent(z, i)} PROVE Shows(w, z, c)
    <3>1. i \in IntentType /\ Sound(i)
      BY <2>1, <2>2, ResolveIntentType, ResolveIntentSound
    <3>2. i.mode = "Auto" /\ i.level = "none" => z.level = "none"
      BY <2>1, <2>2, ResolveIntentParts, ResolvedParts, KeptParts
    <3> HIDE DEF i
    <3>3. /\ w \in ZoneType
          /\ w.mode = i.mode /\ w.boost = i.boost /\ (w.override <=> i.override)
          /\ w.comfort = i.comfort /\ w.reduced = i.reduced /\ w.frost = i.frost
          /\ w.setpoint = z.setpoint
          /\ w.mode = "Auto" => w.level \in {i.level, WrittenLevel(z, i)}
      <4>1. CASE w = Written(z, z, i)
        BY <2>1, <3>1, <4>1, WrittenParts
      <4>2. CASE w = ApplyIntent(z, i)
        BY <2>1, <3>1, <4>2, AppliedParts
      <4> QED BY <2>2, <4>1, <4>2
    <3>4. w.mode = "Auto" => w.level = i.level
      BY <3>2, <3>3 DEF WrittenLevel
    <3> QED BY <2>1, <2>2, <3>3, <3>4, TakenShows DEF i
  <2> HIDE DEF i
  <2>3. i # Refused => Shows(ApplyIntent(z, i), z, c) /\ Shows(Written(z, z, i), z, c)
    BY <2>2
  <2> QED BY <2>1, <2>3, SimpleShows DEF i
<1> QED
  BY <1>1, Typing, PTL

-----------------------------------------------------------------------------
(* What frames and consignes mean.                                         *)

LEMMA EncodedTwice == \A t \in Nat : Encoded(t) \in 0 .. MaxCode /\ Encoded(Encoded(t)) = Encoded(t)
  BY MaxCodeAssumption DEF Encoded

LEMMA EncodedWithin == \A t \in 0 .. MaxCode : Encoded(t) = t
  BY MaxCodeAssumption DEF Encoded

LEMMA DecodeZoneParts ==
  ASSUME NEW x \in ZoneType, NEW f \in FrameType
  PROVE  LET y == DecodeZone(x, f)
         IN  /\ y \in ZoneType /\ y.mode = f.mode /\ (y.boost <=> "boost" \in f.opts)
             /\ y.override <=> f.mode = "Auto" /\ "program" \notin f.opts
             /\ f.mode = "Auto" => y.level = IF "comfort" \in f.opts THEN "comfort" ELSE "eco"
             /\ y.comfort = IF "boost" \in f.opts THEN x.comfort ELSE f.comfort
             /\ y.reduced = f.reduced /\ y.frost = f.frost
             /\ y.setpoint = x.setpoint /\ y.ambient = x.ambient
<1> DEFINE boost == "boost" \in f.opts
           override == f.mode = "Auto" /\ "program" \notin f.opts
           level == IF f.mode # "Auto" THEN "none"
                    ELSE IF "comfort" \in f.opts THEN "comfort" ELSE "eco"
           comfort == IF "boost" \in f.opts THEN x.comfort ELSE f.comfort
           y == DecodeZone(x, f)
<1>1. y \in ZoneType
  BY DecodeZoneType
<1>2. boost \in BOOLEAN /\ override \in BOOLEAN
  OBVIOUS
<1>3. y = [x EXCEPT !.mode = f.mode, !.options = TRUE, !.boost = boost, !.comfort = comfort,
                    !.reduced = f.reduced, !.frost = f.frost, !.override = override, !.level = level]
  BY DEF DecodeZone
<1> HIDE DEF boost, override, level, comfort, y
<1>4. /\ y.mode = f.mode /\ y.boost = boost /\ y.override = override /\ y.level = level
      /\ y.comfort = comfort /\ y.reduced = f.reduced /\ y.frost = f.frost
      /\ y.setpoint = x.setpoint /\ y.ambient = x.ambient
  BY <1>3 DEF ZoneType
<1>5. (y.boost <=> boost) /\ (y.override <=> override)
  BY <1>2, <1>4
<1> QED
  BY <1>1, <1>4, <1>5 DEF boost, override, level, comfort, y

LEMMA ZoneFrameParts ==
  ASSUME NEW x \in ZoneType, NEW i \in IntentType, Sound(i)
  PROVE  LET f == ZoneFrame(x, i)
         IN  /\ f \in FrameType /\ f.mode = i.mode /\ ("boost" \in f.opts <=> i.boost)
             /\ i.mode = "Auto" => ("program" \notin f.opts <=> i.override)
             /\ i.override => ("comfort" \in f.opts <=> i.level = "comfort")
             /\ f.comfort = Encoded(Boosted(i.comfort, i.boost))
             /\ f.reduced = Encoded(i.reduced) /\ f.frost = Encoded(i.frost)
<1> DEFINE f == ZoneFrame(x, i)
           opts == ModeOptions(i.mode, WrittenLevel(x, i), i.override, i.boost)
<1>1. f \in FrameType
  BY ZoneFrameType
<1>2. f = [mode |-> i.mode, opts |-> opts, comfort |-> Encoded(Boosted(i.comfort, i.boost)),
           reduced |-> Encoded(i.reduced), frost |-> Encoded(i.frost)]
  BY DEF ZoneFrame
<1>3. "boost" \in opts <=> i.boost
  BY DEF ModeOptions, Sound
<1>4. i.mode = "Auto" => ("program" \notin opts <=> i.override)
  BY DEF ModeOptions
<1>5. i.override => ("comfort" \in opts <=> i.level = "comfort")
  BY DEF ModeOptions, WrittenLevel, Sound
<1> HIDE DEF f, opts
<1>6. /\ f.mode = i.mode /\ f.opts = opts /\ f.comfort = Encoded(Boosted(i.comfort, i.boost))
      /\ f.reduced = Encoded(i.reduced) /\ f.frost = Encoded(i.frost)
  BY <1>2
<1> QED
  BY <1>1, <1>3, <1>4, <1>5, <1>6 DEF f

\* What a write records agrees with its frame, whatever zone the frame is decoded into.
LEMMA WriteAgrees ==
  ASSUME NEW x \in ZoneType, NEW old \in ZoneType, NEW y \in ZoneType, NEW i \in IntentType, Sound(i)
  PROVE  Agree(Written(x, old, i), DecodeZone(y, ZoneFrame(old, i)))
<1> DEFINE w == Written(x, old, i)
           f == ZoneFrame(old, i)
           d == DecodeZone(y, f)
<1>1. /\ w.mode = i.mode /\ w.boost = i.boost /\ (w.override <=> i.override)
      /\ w.comfort = i.comfort /\ w.reduced = i.reduced /\ w.frost = i.frost
      /\ w.mode = "Auto" => w.level = WrittenLevel(old, i)
  BY WrittenParts
<1>2. /\ f \in FrameType /\ f.mode = i.mode /\ ("boost" \in f.opts <=> i.boost)
      /\ i.mode = "Auto" => ("program" \notin f.opts <=> i.override)
      /\ i.override => ("comfort" \in f.opts <=> i.level = "comfort")
      /\ f.comfort = Encoded(Boosted(i.comfort, i.boost))
      /\ f.reduced = Encoded(i.reduced) /\ f.frost = Encoded(i.frost)
  BY ZoneFrameParts
<1>3. i.comfort \in Nat /\ i.reduced \in Nat /\ i.frost \in Nat
  BY DEF IntentType
<1>4. i.override => i.mode = "Auto" /\ i.level \in {"comfort", "eco"} /\ WrittenLevel(old, i) = i.level
  BY DEF Sound, WrittenLevel
<1> HIDE DEF w, f
<1>5. /\ d.mode = f.mode /\ (d.boost <=> "boost" \in f.opts)
      /\ d.override <=> f.mode = "Auto" /\ "program" \notin f.opts
      /\ f.mode = "Auto" => d.level = IF "comfort" \in f.opts THEN "comfort" ELSE "eco"
      /\ d.comfort = IF "boost" \in f.opts THEN y.comfort ELSE f.comfort
      /\ d.reduced = f.reduced /\ d.frost = f.frost
  BY <1>2, DecodeZoneParts
<1> HIDE DEF d
<1>6. w.mode = d.mode /\ (w.override <=> d.override) /\ (w.boost <=> d.boost)
  BY <1>1, <1>2, <1>4, <1>5
<1>7. w.override => w.level = d.level
  BY <1>1, <1>2, <1>4, <1>5
<1>8. Encoded(w.reduced) = Encoded(d.reduced) /\ Encoded(w.frost) = Encoded(d.frost)
  BY <1>1, <1>2, <1>3, <1>5, EncodedTwice
<1>9. w.boost \/ Encoded(w.comfort) = Encoded(d.comfort)
  <2>1. ~i.boost => Boosted(i.comfort, i.boost) = i.comfort
    BY DEF Boosted
  <2> QED BY <1>1, <1>2, <1>3, <1>5, <2>1, EncodedTwice
<1> QED
  BY <1>6, <1>7, <1>8, <1>9 DEF Agree, SameMode, SameSettings, w, d, f

\* The mode byte of a consigne, taken from zone x, and what it leaves in zone y.
LEMMA ByteParts ==
  ASSUME NEW x \in ZoneType, x.mode # "unknown", NEW compat \in BOOLEAN, NEW y \in ZoneType
  PROVE  LET d == DecodeMode(y, EncodeMode(x, compat))
         IN  /\ d.mode = x.mode
             /\ d.override <=> x.mode = "Auto" /\ x.override
             /\ x.mode = "Auto" => d.level = IF x.level = "comfort" THEN "comfort" ELSE "eco"
             /\ d.boost = y.boost /\ d.comfort = y.comfort /\ d.reduced = y.reduced /\ d.frost = y.frost
<1> DEFINE byte == EncodeMode(x, compat)
           b == IF byte >= CompatBit THEN byte - CompatBit ELSE byte
           m == Meaning[b]
           d == DecodeMode(y, byte)
<1>1. x.mode \in Modes
  BY DEF ZoneType
<1>2. /\ b = CASE x.mode = "Frost" -> 16
                [] x.mode = "Comfort" -> 1
                [] x.mode = "Reduced" -> 0
                [] x.mode = "Auto" ->
                     (IF x.level = "comfort" THEN 3 ELSE 2) + (IF x.override THEN 0 ELSE 2)
  BY <1>1 DEF EncodeMode, CompatBit, Modes
<1>3. /\ x.mode = "Frost" => b = 16
      /\ x.mode = "Comfort" => b = 1
      /\ x.mode = "Reduced" => b = 0
      /\ x.mode = "Auto" => b = (IF x.level = "comfort" THEN 3 ELSE 2) + (IF x.override THEN 0 ELSE 2)
  BY <1>2
<1> HIDE DEF b
<1>4. CASE x.mode # "Auto"
  <2>1. b \in {0, 1, 16} /\ b \in DOMAIN Meaning
    BY <1>1, <1>3, <1>4 DEF Modes, Meaning
  <2>2. m = Intent(x.mode, FALSE, FALSE, "none")
    <3>1. CASE x.mode = "Frost"
      BY <1>3, <3>1 DEF Meaning
    <3>2. CASE x.mode = "Comfort"
      BY <1>3, <3>2 DEF Meaning
    <3>3. CASE x.mode = "Reduced"
      BY <1>3, <3>3 DEF Meaning
    <3> QED BY <1>1, <1>4, <3>1, <3>2, <3>3 DEF Modes
  <2>3. m.mode = x.mode /\ ~m.override
    BY <2>2 DEF Intent
  <2>4. d = [y EXCEPT !.mode = m.mode, !.level = m.level, !.override = m.override]
    BY <2>1 DEF DecodeMode, b
  <2> HIDE DEF m, d
  <2>5. /\ d.mode = m.mode /\ d.override = m.override
        /\ d.boost = y.boost /\ d.comfort = y.comfort /\ d.reduced = y.reduced /\ d.frost = y.frost
    BY <2>4 DEF ZoneType
  <2> QED BY <1>4, <2>3, <2>5 DEF d
<1>5. CASE x.mode = "Auto"
  <2> DEFINE level == IF x.level = "comfort" THEN "comfort" ELSE "eco"
             over == b \in {2, 3}
  <2>1. b \in {2, 3, 4, 5} /\ (b \in {2, 3} <=> x.override) /\ (b \in {3, 5} <=> x.level = "comfort")
    <3>2. CASE x.override
      BY <1>3, <1>5, <3>2
    <3>3. CASE ~x.override
      BY <1>3, <1>5, <3>3
    <3> QED BY <3>2, <3>3
  <2>7. b \in DOMAIN Meaning
    BY <2>1 DEF Meaning
  <2>2. m = Intent("Auto", FALSE, over, IF b \in {3, 5} THEN "comfort" ELSE "eco")
    <3>1. b \notin {0, 1, 16}
      BY <2>1
    <3>2. Meaning[b] = CASE b = 0 -> Intent("Reduced", FALSE, FALSE, "none")
                         [] b = 1 -> Intent("Comfort", FALSE, FALSE, "none")
                         [] b = 16 -> Intent("Frost", FALSE, FALSE, "none")
                         [] OTHER -> Intent("Auto", FALSE, over, IF b \in {3, 5} THEN "comfort" ELSE "eco")
      BY <2>1 DEF Meaning
    <3> QED BY <3>1, <3>2
  <2>3. over <=> x.override
    BY <2>1
  <2> HIDE DEF over
  <2>4. m.mode = "Auto" /\ m.override = over /\ m.level = level
    BY <2>1, <2>2 DEF Intent
  <2>5. d = [y EXCEPT !.mode = m.mode, !.level = m.level, !.override = m.override]
    BY <2>7 DEF DecodeMode, b
  <2> HIDE DEF m, d
  <2>6. /\ d.mode = m.mode /\ d.override = m.override /\ d.level = m.level
        /\ d.boost = y.boost /\ d.comfort = y.comfort /\ d.reduced = y.reduced /\ d.frost = y.frost
    BY <2>5 DEF ZoneType
  <2> QED BY <1>5, <2>3, <2>4, <2>6 DEF d
<1> QED
  BY <1>4, <1>5

\* Frames and consignes say what the bridge recorded as it sent them.
THEOREM MeaningKept == Spec => []SentMeansSame
<1>1. TypeOK => SentMeansSame
  <2> SUFFICES ASSUME TypeOK PROVE SentMeansSame
    OBVIOUS
  <2>1. z \in ZoneType
    BY DEF TypeOK
  <2>2. ASSUME NEW c \in Commands, ResolveIntent(z, c) # Refused
        PROVE  Agree(DecodeZone(z, ZoneFrame(z, ResolveIntent(z, c))), Written(z, z, ResolveIntent(z, c)))
    <3> DEFINE i == ResolveIntent(z, c)
    <3>1. i \in IntentType /\ Sound(i)
      BY <2>1, <2>2, ResolveIntentType, ResolveIntentSound
    <3> HIDE DEF i
    <3>2. Agree(Written(z, z, i), DecodeZone(z, ZoneFrame(z, i)))
      BY <2>1, <3>1, WriteAgrees
    <3> QED BY <3>2 DEF Agree, SameMode, SameSettings, i
  <2>3. ASSUME z.mode # "unknown", NEW compat \in BOOLEAN
        PROVE  LET back == DecodeMode(NewZone, EncodeMode(z, compat))
               IN  /\ back.mode = z.mode
                   /\ z.mode = "Auto" =>
                        (back.override <=> z.override) /\ (back.level = "comfort" <=> z.level = "comfort")
    <3> DEFINE back == DecodeMode(NewZone, EncodeMode(z, compat))
    <3>1. /\ back.mode = z.mode
          /\ back.override <=> z.mode = "Auto" /\ z.override
          /\ z.mode = "Auto" => back.level = IF z.level = "comfort" THEN "comfort" ELSE "eco"
      BY <2>1, <2>3, NewZoneType, ByteParts
    <3> QED BY <3>1
  <2> QED BY <2>2, <2>3 DEF SentMeansSame
<1> QED
  BY <1>1, Typing, PTL

-----------------------------------------------------------------------------
(* The comfort temperature.                                                *)

\* Besides the zone's: the file's, that of a write under way, and of frames, those of a boost apart.
Plain(f) == "boost" \in f.opts \/ f.comfort \in SetComforts

ComfortInv ==
  /\ z.comfort \in SetComforts /\ file.zone.comfort \in SetComforts
  /\ write # None => Sound(write.intent) /\ write.intent.comfort \in SetComforts
  /\ relay # None => Plain(relay)
  /\ report # None => Plain(report)
  /\ Plain(satellite)

LEMMA SetComfortsParts ==
  /\ Unknown \in SetComforts /\ 4 \in SetComforts
  /\ \A t \in Targets : t \in SetComforts /\ t - Boost \in SetComforts
  /\ \A s \in Settings : Plain(s)
  BY Defaults DEF SetComforts, Plain

LEMMA SetComfortsWithin == SetComforts \subseteq 0 .. MaxCode
<1>1. ASSUME NEW e \in {Unknown, SimpleDefault.Comfort} PROVE e \in 0 .. MaxCode
  BY <1>1, Defaults, ZoneControlAssumption, MaxCodeAssumption DEF Unknown
<1>2. ASSUME NEW t \in Targets PROVE t \in 0 .. MaxCode /\ t - Boost \in 0 .. MaxCode
  BY TargetType, MaxCodeAssumption DEF Boost
<1>3. ASSUME NEW s \in Settings PROVE s.comfort \in 0 .. MaxCode
  BY SettingsType DEF FrameType
<1> QED
  BY <1>1, <1>2, <1>3 DEF SetComforts

LEMMA CommandComfort ==
  ASSUME NEW x \in ZoneType, x.comfort \in SetComforts, NEW c \in Commands
  PROVE  /\ ResolveIntent(x, c) # Refused => ResolveIntent(x, c).comfort \in SetComforts
         /\ ApplySimple(x, c) # Refused => ApplySimple(x, c).comfort \in SetComforts
<1>1. ASSUME ResolveIntent(x, c) # Refused PROVE ResolveIntent(x, c).comfort \in SetComforts
  <2> DEFINE r == Resolved(HvacOf(x, c), PresetOf(x, c), x)
             t == Retargeted(r, c.target)
  <2>1. ResolveIntent(x, c).comfort = Either(t.comfort, x.comfort)
    BY <1>1, ResolveIntentParts
  <2> HIDE DEF r
  <2>2. t.comfort \in {Unknown, c.target, c.target - Boost} /\ (c.target = Unknown => t.comfort = Unknown)
    <3>1. c.target \in Nat
      BY CommandParts
    <3>2. t.comfort = IF c.target = Unknown THEN Unknown
                      ELSE IF r.mode = "Comfort" THEN c.target - (IF r.boost THEN Boost ELSE 0)
                      ELSE IF r.mode = "Auto" /\ r.level # "eco" THEN c.target ELSE Unknown
      BY DEF Retargeted
    <3> HIDE DEF t
    <3> QED BY <3>1, <3>2 DEF Boost, Unknown
  <2> HIDE DEF t
  <2>3. c.target = Unknown \/ (c.target \in SetComforts /\ c.target - Boost \in SetComforts)
    BY CommandParts, SetComfortsParts
  <2> QED BY <2>1, <2>2, <2>3 DEF Either
<1>2. ASSUME ApplySimple(x, c) # Refused PROVE ApplySimple(x, c).comfort \in SetComforts
  <2> DEFINE was == SimpleMode(x)
             now == CASE c.hvac = "off" -> "Frost"
                      [] c.hvac = "heat" /\ was = "Frost" -> "Comfort"
                      [] c.hvac # "off" /\ c.preset = "comfort" /\ was # "Frost" -> "Comfort"
                      [] c.hvac # "off" /\ c.preset = "eco" /\ was # "Frost" -> "Reduced"
                      [] OTHER -> was
             own == Own(x, now)
             given == [own EXCEPT !.frost = IF now = "Frost" THEN c.target ELSE @,
                                  !.reduced = IF now = "Reduced" THEN c.target ELSE @,
                                  !.comfort = IF now = "Comfort" THEN c.target ELSE @]
  <2>1. ApplySimple(x, c) = IF c.target = Unknown THEN WithDefaults(own) ELSE given
    BY <1>2 DEF ApplySimple
  <2> HIDE DEF now
  <2>2. own.comfort = x.comfort /\ "comfort" \in DOMAIN own
    BY DEF Own, ZoneType
  <2> HIDE DEF own
  <2>3. WithDefaults(own).comfort = Either(own.comfort, 4)
    BY <2>2, Defaults DEF WithDefaults
  <2>4. given.comfort \in {own.comfort, c.target}
    BY <2>2
  <2>5. c.target = Unknown \/ c.target \in SetComforts
    BY CommandParts, SetComfortsParts
  <2> HIDE DEF given
  <2> QED BY <2>1, <2>2, <2>3, <2>4, <2>5, SetComfortsParts DEF Either
<1> QED
  BY <1>1, <1>2

LEMMA SimpleConsigneComfort ==
  ASSUME NEW x \in ZoneType, x.comfort \in SetComforts PROVE SimpleConsigne(x).comfort \in SetComforts
<1> DEFINE own == Own(x, SimpleMode(x))
<1>1. own.comfort = x.comfort /\ "comfort" \in DOMAIN own
  BY DEF Own, ZoneType
<1> HIDE DEF own
<1>2. WithDefaults(own).comfort = Either(own.comfort, 4)
  BY <1>1, Defaults DEF WithDefaults
<1> QED
  BY <1>1, <1>2, SetComfortsParts DEF SimpleConsigne, Either, own

LEMMA FrameComfort ==
  ASSUME NEW x \in ZoneType, NEW i \in IntentType, Sound(i), i.comfort \in SetComforts
  PROVE  Plain(ZoneFrame(x, i))
<1> DEFINE f == ZoneFrame(x, i)
<1>1. ("boost" \in f.opts <=> i.boost) /\ f.comfort = Encoded(Boosted(i.comfort, i.boost))
  BY ZoneFrameParts
<1>2. ~i.boost => Boosted(i.comfort, i.boost) = i.comfort
  BY DEF Boosted
<1>3. Encoded(i.comfort) = i.comfort
  BY SetComfortsWithin, EncodedWithin
<1> HIDE DEF f
<1> QED
  BY <1>1, <1>2, <1>3 DEF Plain, f

\* A consigne leaves the temperatures and boost alone.
LEMMA ConsigneParts ==
  ASSUME NEW x \in ZoneType, NEW c \in ConsigneType, NEW y \in {DecodeConsigne(x, c), DecodeInfo(x, c)}
  PROVE  y.boost = x.boost /\ y.comfort = x.comfort /\ y.reduced = x.reduced /\ y.frost = x.frost
<1>1. ASSUME NEW w \in ZoneType, NEW byte
      PROVE  LET d == DecodeMode(w, byte)
             IN  d.boost = w.boost /\ d.comfort = w.comfort /\ d.reduced = w.reduced /\ d.frost = w.frost
  BY DEF DecodeMode, ZoneType
<1> DEFINE v == [x EXCEPT !.setpoint = Either(c.setpoint, @), !.ambient = Either(c.ambient, @)]
           u == [x EXCEPT !.setpoint = c.setpoint, !.ambient = c.ambient]
<1>2. v \in ZoneType /\ u \in ZoneType
  BY EitherType DEF ConsigneType, ZoneType
<1>3. /\ v.boost = x.boost /\ v.comfort = x.comfort /\ v.reduced = x.reduced /\ v.frost = x.frost
      /\ u.boost = x.boost /\ u.comfort = x.comfort /\ u.reduced = x.reduced /\ u.frost = x.frost
  BY DEF ZoneType
<1>4. y \in {x, DecodeMode(v, c.byte), DecodeMode(u, c.byte)}
  BY DEF DecodeConsigne, DecodeInfo
<1> HIDE DEF u, v
<1> QED
  BY <1>1, <1>2, <1>3, <1>4

LEMMA ComfortInit == Init => ComfortInv
<1> SUFFICES ASSUME Init PROVE ComfortInv
  OBVIOUS
<1>1. NewZone.comfort = Unknown /\ z = NewZone /\ file.zone = NewZone
  BY DEF Init, NewZone
<1> QED
  BY <1>1, SetComfortsParts DEF Init, ComfortInv

LEMMA PersistComfort ==
  ASSUME TypeOK, NEW x \in ZoneType, NEW n, Persist(x, n), x.comfort \in SetComforts,
         file.zone.comfort \in SetComforts
  PROVE  file'.zone.comfort \in SetComforts
<1>1. Saved(x).comfort = x.comfort /\ file \in FileType
  BY DEF Saved, ZoneType, TypeOK
<1>2. file' \in {[file EXCEPT !.zone = Saved(x)], [zone |-> Saved(x), ids |-> FALSE], file}
  BY DEF Persist, Save
<1> QED
  BY <1>1, <1>2 DEF FileType

LEMMA ComfortStep == TypeOK /\ ComfortInv /\ [Next]_vars => ComfortInv'
<1> SUFFICES ASSUME TypeOK, ComfortInv, [Next]_vars PROVE ComfortInv'
  OBVIOUS
<1> USE DEF ComfortInv
<1>a. /\ z \in ZoneType /\ satellite \in FrameType /\ file \in FileType /\ block \in ConsigneType
      /\ write # None => write \in WriteType
      /\ relay # None => relay \in FrameType
      /\ report # None => report \in FrameType
  BY DEF TypeOK
<1>b. NewZone.comfort \in SetComforts
  BY SetComfortsParts DEF NewZone
<1>c. ASSUME NEW x \in ZoneType, NEW f \in FrameType, x.comfort \in SetComforts, Plain(f)
      PROVE  DecodeZone(x, f).comfort \in SetComforts
  BY <1>c, DecodeZoneParts DEF Plain
<1>1. CASE DrawId
  <2>1. file' \in {[file EXCEPT !.ids = TRUE], [zone |-> NewZone, ids |-> TRUE], file}
    BY <1>1 DEF DrawId, SaveId, Save
  <2>2. file'.zone.comfort \in SetComforts
    BY <1>a, <1>b, <2>1 DEF FileType
  <2> QED BY <1>1, <2>2 DEF DrawId, air, Plain
<1>2. CASE Stop
  BY <1>2, <1>b DEF Stop, air, Plain
<1>3. CASE Restart
  BY <1>3, <1>b DEF Restart, air, Plain
<1>4. ASSUME NEW c \in Commands, WriteCommand(c) PROVE ComfortInv'
  <2>1. ResolveIntent(z, c) # Refused
        /\ write' = [old |-> z, intent |-> ResolveIntent(z, c), left |-> Repeats, heard |-> None]
    BY <1>4 DEF WriteCommand
  <2>2. Sound(ResolveIntent(z, c)) /\ ResolveIntent(z, c).comfort \in SetComforts
    BY <1>a, <2>1, ResolveIntentSound, CommandComfort
  <2>3. Sound(write'.intent) /\ write'.intent.comfort \in SetComforts
    BY <2>1, <2>2
  <2> QED BY <1>4, <2>3 DEF WriteCommand, air, Plain, Sound
<1>5. ASSUME NEW c \in Commands, OwnCommand(c) PROVE ComfortInv'
  <2>1. /\ z' \in ZoneType /\ Persist(z', 1)
        /\ \/ ResolveIntent(z, c) # Refused /\ z' = ApplyIntent(z, ResolveIntent(z, c))
           \/ ApplySimple(z, c) # Refused /\ z' = ApplySimple(z, c)
    BY <1>5, <1>a, ResolveIntentType, ApplyIntentType, SimpleTypes DEF OwnCommand
  <2>2. ASSUME ResolveIntent(z, c) # Refused
        PROVE  ApplyIntent(z, ResolveIntent(z, c)).comfort = ResolveIntent(z, c).comfort
    BY <1>a, <2>2, ResolveIntentType, ResolveIntentSound, AppliedParts
  <2>3. z'.comfort \in SetComforts
    BY <1>a, <2>1, <2>2, CommandComfort
  <2>4. file'.zone.comfort \in SetComforts
    BY <2>1, <2>3, PersistComfort
  <2> QED BY <1>5, <2>3, <2>4 DEF OwnCommand, air, Plain
<1>6. ASSUME NEW t \in Targets, ReportedAmbient(t) PROVE ComfortInv'
  <2>1. z' = [z EXCEPT !.reported = t] /\ t \in Nat /\ Persist(z', 1)
    BY <1>6, TargetType DEF ReportedAmbient
  <2>2. z' \in ZoneType /\ z'.comfort = z.comfort
    BY <1>a, <2>1 DEF ZoneType
  <2>3. file'.zone.comfort \in SetComforts
    BY <2>1, <2>2, PersistComfort
  <2> QED BY <1>6, <2>2, <2>3 DEF ReportedAmbient, air, Plain
<1>7. CASE SendSimple
  <2>1. z'.comfort \in SetComforts
    BY <1>7, <1>a, SimpleConsigneComfort DEF SendSimple
  <2> QED BY <1>7, <2>1 DEF SendSimple, air, Plain
<1>8. CASE Send
  <2>1. write \in WriteType /\ write # None
    BY <1>8, <1>a DEF Send
  <2>2. Plain(Frame)
    BY <2>1, FrameComfort DEF Frame, WriteType
  <2>3. write'.intent = write.intent /\ write' = [write EXCEPT !.left = @ - 1] /\ relay' = Frame
    BY <1>8, <2>1 DEF Send, WriteType
  <2>4. Sound(write'.intent) /\ Plain(relay')
    BY <2>1, <2>2, <2>3
  <2> QED BY <1>8, <2>1, <2>3, <2>4 DEF Send, Plain, Sound
<1>9. CASE SendFails
  BY <1>9 DEF SendFails, air, Plain
<1>10. CASE WriteDone
  <2>1. write \in WriteType /\ write # None
    BY <1>10, <1>a DEF WriteDone
  <2>2. Written(z, write.old, write.intent).comfort = write.intent.comfort
    BY <1>a, <2>1, WrittenParts DEF WriteType
  <2> QED BY <1>10, <2>1, <2>2 DEF WriteDone, air, Plain
<1>11. CASE Catch
  BY <1>11 DEF Catch, bridge, Plain, Sound
<1>12. CASE Fade
  BY <1>12 DEF Fade, bridge, Plain, Sound
<1>13. ASSUME NEW s \in Settings, UserSets(s) PROVE ComfortInv'
  BY <1>13, SetComfortsParts DEF UserSets, bridge, Plain, Sound
<1>14. ASSUME NEW s \in Settings, ConnectWrites(s) PROVE ComfortInv'
  <2>1. s \in FrameType /\ Plain(s)
    BY SettingsType, SetComfortsParts
  <2>2. z' \in {z, DecodeZone(z, s)} /\ Persist(z', 1)
    BY <1>14 DEF ConnectWrites, Take
  <2>3. z' \in ZoneType /\ z'.comfort \in SetComforts
    BY <1>a, <1>c, <2>1, <2>2, DecodeZoneType
  <2>4. file'.zone.comfort \in SetComforts
    BY <2>2, <2>3, PersistComfort
  <2> QED BY <1>14, <2>1, <2>3, <2>4 DEF ConnectWrites, Plain, Sound
<1>15. ASSUME NEW f, Hearing(f) PROVE write' # None => write # None /\ write'.intent = write.intent
  BY <1>15, <1>a DEF Hearing, WriteType
<1>16. CASE Overhear
  <2>1. report \in FrameType /\ Plain(report)
    BY <1>16, <1>a DEF Overhear
  <2>2. z' \in {z, DecodeZone(z, report)} /\ Persist(z', 0)
    BY <1>16 DEF Overhear, Take
  <2>3. z' \in ZoneType /\ z'.comfort \in SetComforts
    BY <1>a, <1>c, <2>1, <2>2, DecodeZoneType
  <2>4. file'.zone.comfort \in SetComforts
    BY <2>2, <2>3, PersistComfort
  <2>5. write' # None => Sound(write'.intent) /\ write'.intent.comfort \in SetComforts
    BY <1>16, <1>15 DEF Overhear
  <2> QED BY <1>16, <2>3, <2>4, <2>5 DEF Overhear, Plain, Sound
<1>17. CASE ReportLost
  <2>1. write' # None => Sound(write'.intent) /\ write'.intent.comfort \in SetComforts
    BY <1>17, <1>15 DEF ReportLost
  <2> QED BY <1>17, <2>1 DEF ReportLost, Plain, Sound
<1>18. ASSUME NEW slot \in Slots, NEW heard \in BOOLEAN, SatelliteConsigne(slot, heard) PROVE ComfortInv'
  <2>1. block' \in ConsigneType /\ z' \in {z, DecodeConsigne(z, block')}
    BY <1>18, SatelliteSends
  <2>2. z'.comfort = z.comfort
    BY <1>a, <2>1, ConsigneParts
  <2> QED BY <1>18, <2>2 DEF SatelliteConsigne, Plain, Sound
<1>19. CASE ReadInfo
  <2>1. z'.comfort = z.comfort
    BY <1>19, <1>a, ConsigneParts DEF ReadInfo
  <2> QED BY <1>19, <2>1 DEF ReadInfo, air, Plain, Sound
<1>20. CASE UNCHANGED vars
  BY <1>20 DEF vars, bridge, air, Plain, Sound
<1> QED
  BY <1>1, <1>2, <1>3, <1>4, <1>5, <1>6, <1>7, <1>8, <1>9, <1>10, <1>11, <1>12, <1>13, <1>14, <1>16, <1>17,
     <1>18, <1>19, <1>20 DEF Next

\* No boost leaves its two degrees in the comfort temperature.
THEOREM NoCreep == Spec => []ComfortIsSet
<1>1. ComfortInv => ComfortIsSet
  BY DEF ComfortInv, ComfortIsSet
<1> QED
  BY <1>1, ComfortInit, ComfortStep, Typing, PTL DEF Spec

-----------------------------------------------------------------------------
(* The state file.                                                         *)

Mine == {"virtual", "simple"}

\* Neither the file nor a zone of the bridge's own holds what a satellite measured.
Unmeasured(x) == x.setpoint = Unknown /\ x.ambient = Unknown

FileInv ==
  /\ drawn /\ "ids" \notin lost => file.ids
  /\ Unmeasured(file.zone)
  /\ kind \in Mine => Unmeasured(z)
  /\ up /\ kind \in Mine /\ "zone" \notin lost => Shown(file.zone) = Shown(z)

LEMMA SavedSame == ASSUME NEW x \in ZoneType, Unmeasured(x) PROVE Saved(x) = x
<1>1. Saved(x) \in ZoneType
  BY DEF Saved, ZoneType, Unknown
<1> QED
  BY <1>1 DEF Saved, Unmeasured, ZoneType

LEMMA PersistFile ==
  ASSUME TypeOK, FileInv, NEW x \in ZoneType, NEW n, Persist(x, n)
  PROVE  /\ drawn /\ "ids" \notin lost' => file'.ids
         /\ Unmeasured(file'.zone)
         /\ "zone" \notin lost' => file'.zone = Saved(x)
<1>1. file \in FileType /\ lost \subseteq {"zone", "ids"}
  BY DEF TypeOK
<1>2. Unmeasured(Saved(x))
  BY DEF Saved, Unmeasured, ZoneType
<1>3. CASE file' = [file EXCEPT !.zone = Saved(x)] /\ lost' = lost \ {"zone"}
  <2>1. file'.zone = Saved(x) /\ file'.ids = file.ids
    BY <1>1, <1>3 DEF FileType
  <2> QED BY <1>1, <1>2, <1>3, <2>1 DEF FileInv
<1>4. CASE file' = [zone |-> Saved(x), ids |-> FALSE] /\ lost' = {"zone", "ids"} \ {"zone"}
  BY <1>2, <1>4
<1>5. CASE file' = file /\ lost' = lost \cup {"zone"}
  BY <1>1, <1>5 DEF FileInv
<1> QED
  BY <1>3, <1>4, <1>5 DEF Persist, Save

\* A consigne of the simple profile settles the zone: another one leaves it as it is.
LEMMA SimpleConsigneTwice ==
  ASSUME NEW x \in ZoneType
  PROVE  /\ SimpleConsigne(SimpleConsigne(x)) = SimpleConsigne(x)
         /\ Unmeasured(x) => Unmeasured(SimpleConsigne(x))
<1> DEFINE m == SimpleMode(x)
           own == Own(x, m)
           c == WithDefaults(own)
<1>1. CASE Either(x.reported, x.ambient) = Unknown
  BY <1>1 DEF SimpleConsigne
<1>2. CASE Either(x.reported, x.ambient) # Unknown
  <2>1. m \in {"Frost", "Reduced", "Comfort"}
    BY DEF SimpleMode
  <2>2. own \in ZoneType
    BY <2>1 DEF Own, ZoneType, Modes, Levels
  <2>3. /\ own.mode = m /\ own.boost = FALSE /\ own.override = FALSE /\ own.level = "none"
        /\ own.ambient = x.ambient /\ own.setpoint = x.setpoint /\ own.reported = x.reported
    BY DEF Own, ZoneType
  <2> HIDE DEF own
  <2>4. c \in ZoneType
    BY <2>2, Defaults, EitherType DEF WithDefaults, ZoneType
  <2>5. /\ c.mode = own.mode /\ c.boost = own.boost /\ c.override = own.override /\ c.level = own.level
        /\ c.ambient = own.ambient /\ c.setpoint = own.setpoint /\ c.reported = own.reported
        /\ c.frost # Unknown /\ c.reduced # Unknown /\ c.comfort # Unknown
    BY <2>2, Defaults DEF WithDefaults, ZoneType, Either, Unknown
  <2> HIDE DEF c
  <2>6. SimpleConsigne(x) = c
    BY <1>2 DEF SimpleConsigne, c, own
  <2>7. SimpleMode(c) = m
    BY <2>1, <2>3, <2>5 DEF SimpleMode
  <2> HIDE DEF m
  <2>8. Own(c, m) = c
    BY <2>3, <2>4, <2>5 DEF Own, ZoneType
  <2>9. WithDefaults(c) = c
    BY <2>4, <2>5 DEF WithDefaults, Either, ZoneType
  <2>10. SimpleConsigne(c) = c
    BY <1>2, <2>3, <2>5, <2>7, <2>8, <2>9 DEF SimpleConsigne
  <2> QED BY <2>3, <2>5, <2>6, <2>10 DEF Unmeasured
<1> QED
  BY <1>1, <1>2

LEMMA OwnUnmeasured ==
  ASSUME NEW x \in ZoneType, Unmeasured(x), NEW c \in Commands
  PROVE  /\ ResolveIntent(x, c) # Refused => Unmeasured(ApplyIntent(x, ResolveIntent(x, c)))
         /\ ApplySimple(x, c) # Refused => Unmeasured(ApplySimple(x, c))
<1>1. ASSUME ResolveIntent(x, c) # Refused PROVE Unmeasured(ApplyIntent(x, ResolveIntent(x, c)))
  BY <1>1, ResolveIntentType, ResolveIntentSound, AppliedParts DEF Unmeasured
<1>2. ASSUME ApplySimple(x, c) # Refused PROVE Unmeasured(ApplySimple(x, c))
  <2>1. \A mode : Own(x, mode).setpoint = x.setpoint /\ Own(x, mode).ambient = x.ambient
                   /\ {"setpoint", "ambient"} \subseteq DOMAIN Own(x, mode)
    BY DEF Own, ZoneType
  <2>2. \A y : {"setpoint", "ambient"} \subseteq DOMAIN y =>
          WithDefaults(y).setpoint = y.setpoint /\ WithDefaults(y).ambient = y.ambient
    BY DEF WithDefaults
  <2> QED BY <1>2, <2>1, <2>2 DEF ApplySimple, Unmeasured
<1> QED
  BY <1>1, <1>2

\* A zone that is saved whole shows what its file does.
LEMMA PersistShown ==
  ASSUME TypeOK, FileInv, NEW n, z' \in ZoneType, Persist(z', n), kind' = kind, drawn' = drawn,
         kind \in Mine => Unmeasured(z')
  PROVE  FileInv'
<1>1. /\ drawn /\ "ids" \notin lost' => file'.ids
      /\ Unmeasured(file'.zone)
      /\ "zone" \notin lost' => file'.zone = Saved(z')
  BY PersistFile
<1>2. kind \in Mine => Saved(z') = z'
  BY SavedSame
<1>3. kind' \in Mine /\ "zone" \notin lost' => file'.zone = z'
  BY <1>1, <1>2
<1>4. (up /\ kind \in Mine /\ "zone" \notin lost => Shown(file.zone) = Shown(z))'
  BY <1>3 DEF Shown
<1> QED
  BY <1>1, <1>4 DEF FileInv, Mine

\* A burst is under way only while the bridge runs, with a zone it writes.
WriterInv == write # None => up /\ kind = "written"

LEMMA WriterStep == WriterInv /\ [Next]_vars => WriterInv'
<1> SUFFICES ASSUME WriterInv, [Next]_vars PROVE WriterInv'
  OBVIOUS
<1> USE DEF WriterInv
<1>1. ASSUME UNCHANGED <<up, kind>>, write # None \/ write' = None PROVE WriterInv'
  BY <1>1
<1>2. ASSUME Stop \/ DrawId \/ SendSimple \/ Send \/ SendFails \/ WriteDone \/ Catch \/ Fade \/ ReadInfo
      PROVE  WriterInv'
  BY <1>2 DEF Stop, DrawId, SendSimple, Send, SendFails, WriteDone, Catch, Fade, ReadInfo, bridge
<1>3. CASE Restart
  BY <1>3 DEF Restart
<1>4. ASSUME NEW c \in Commands, WriteCommand(c) \/ OwnCommand(c) PROVE WriterInv'
  BY <1>4 DEF WriteCommand, OwnCommand, Listening
<1>5. ASSUME NEW t \in Targets, ReportedAmbient(t) PROVE WriterInv'
  BY <1>5 DEF ReportedAmbient
<1>6. ASSUME NEW s \in Settings, UserSets(s) \/ ConnectWrites(s) PROVE WriterInv'
  BY <1>6 DEF UserSets, ConnectWrites, bridge
<1>7. CASE Overhear \/ ReportLost
  BY <1>1, <1>7 DEF Overhear, ReportLost, Hearing
<1>8. ASSUME NEW slot \in Slots, NEW heard \in BOOLEAN, SatelliteConsigne(slot, heard) PROVE WriterInv'
  BY <1>8 DEF SatelliteConsigne
<1>9. CASE UNCHANGED vars
  BY <1>9 DEF vars, bridge
<1> QED
  BY <1>2, <1>3, <1>4, <1>5, <1>6, <1>7, <1>8, <1>9 DEF Next

LEMMA FileInit == Init => FileInv
<1> SUFFICES ASSUME Init PROVE FileInv
  OBVIOUS
<1>1. Unmeasured(NewZone) /\ z = NewZone /\ file.zone = NewZone /\ drawn = FALSE
  BY DEF Init, Unmeasured, NewZone
<1> QED
  BY <1>1 DEF FileInv, Shown

LEMMA FileStep == TypeOK /\ WriterInv /\ FileInv /\ [Next]_vars => FileInv'
<1> SUFFICES ASSUME TypeOK, WriterInv, FileInv, [Next]_vars PROVE FileInv'
  OBVIOUS
<1>a. /\ z \in ZoneType /\ file \in FileType /\ block \in ConsigneType /\ lost \subseteq {"zone", "ids"}
      /\ report # None => report \in FrameType
  BY DEF TypeOK
<1>b. Unmeasured(NewZone)
  BY DEF NewZone, Unmeasured
<1>c. Mine \cap Satellite = {} /\ Mine = {"virtual", "simple"}
  BY DEF Mine, Satellite
<1>d. ASSUME UNCHANGED <<up, kind, z, file, lost, drawn>> PROVE FileInv'
  BY <1>d DEF FileInv, Shown, Mine, Unmeasured
<1>e. ASSUME UNCHANGED <<up, kind, file, lost, drawn>>, kind \in Satellite PROVE FileInv'
  BY <1>c, <1>e DEF FileInv
<1>1. CASE DrawId
  <2>1. CASE file' = [file EXCEPT !.ids = TRUE] /\ lost' = lost \ {"ids"}
    <3>1. file'.zone = file.zone /\ file'.ids
      BY <1>a, <2>1 DEF FileType
    <3> QED BY <1>1, <2>1, <3>1 DEF DrawId, FileInv, Shown, Mine, Unmeasured
  <2>2. CASE file' = [zone |-> NewZone, ids |-> TRUE] /\ lost' = {"zone", "ids"} \ {"ids"}
    <3>1. file'.zone = NewZone /\ file'.ids /\ "zone" \in lost'
      BY <2>2
    <3> QED BY <1>1, <1>b, <3>1 DEF DrawId, FileInv, Mine, Unmeasured
  <2>3. CASE file' = file /\ lost' = lost \cup {"ids"}
    BY <1>1, <2>3 DEF DrawId, FileInv, Shown, Mine, Unmeasured
  <2> QED BY <1>1, <2>1, <2>2, <2>3 DEF DrawId, SaveId, Save
<1>2. CASE Stop
  <2>1. ~up' /\ z' = NewZone /\ UNCHANGED <<kind, file, lost, drawn>>
    BY <1>2 DEF Stop
  <2> QED BY <2>1, <1>b DEF FileInv, Mine, Unmeasured
<1>3. CASE Restart
  <2>1. UNCHANGED <<file, drawn>>
    BY <1>3 DEF Restart
  <2>2. CASE z' = file.zone /\ lost' = lost
    BY <2>1, <2>2 DEF FileInv, Shown, Mine, Unmeasured
  <2>3. CASE z' = NewZone /\ lost' = lost \cup {"zone"}
    BY <1>b, <2>1, <2>3 DEF FileInv, Mine, Unmeasured
  <2> QED BY <1>3, <2>2, <2>3 DEF Restart
<1>4. ASSUME NEW c \in Commands, WriteCommand(c) PROVE FileInv'
  BY <1>4, <1>d DEF WriteCommand
<1>5. ASSUME NEW c \in Commands, OwnCommand(c) PROVE FileInv'
  <2>1. /\ kind \in Mine /\ UNCHANGED <<kind, drawn>> /\ Persist(z', 1)
        /\ \/ ResolveIntent(z, c) # Refused /\ z' = ApplyIntent(z, ResolveIntent(z, c))
           \/ ApplySimple(z, c) # Refused /\ z' = ApplySimple(z, c)
    BY <1>5 DEF OwnCommand, Mine
  <2>2. z' \in ZoneType
    BY <1>a, <2>1, ResolveIntentType, ApplyIntentType, SimpleTypes
  <2>3. Unmeasured(z)
    BY <2>1 DEF FileInv
  <2>4. Unmeasured(z')
    BY <1>a, <2>1, <2>3, OwnUnmeasured
  <2> QED BY <2>1, <2>2, <2>4, PersistShown
<1>6. ASSUME NEW t \in Targets, ReportedAmbient(t) PROVE FileInv'
  <2>1. /\ kind \in Mine /\ UNCHANGED <<kind, drawn>> /\ Persist(z', 1)
        /\ z' = [z EXCEPT !.reported = t] /\ t \in Nat
    BY <1>6, TargetType DEF ReportedAmbient, Mine
  <2>2. z' \in ZoneType /\ z'.setpoint = z.setpoint /\ z'.ambient = z.ambient
    BY <1>a, <2>1 DEF ZoneType
  <2>3. Unmeasured(z')
    BY <2>1, <2>2 DEF FileInv, Unmeasured
  <2> QED BY <2>1, <2>2, <2>3, PersistShown
<1>7. CASE SendSimple
  <2>1. /\ kind = "simple" /\ z' = SimpleConsigne(z) /\ UNCHANGED <<up, kind, file, lost, drawn>>
    BY <1>7 DEF SendSimple
  <2>2. SimpleConsigne(z') = SimpleConsigne(z) /\ Unmeasured(z')
    BY <1>a, <1>c, <2>1, SimpleConsigneTwice DEF FileInv
  <2>3. Shown(z)' = Shown(z) /\ Shown(file.zone)' = Shown(file.zone)
    BY <2>1, <2>2 DEF Shown
  <2> QED BY <2>1, <2>2, <2>3 DEF FileInv, Unmeasured, Mine
<1>8. CASE Send
  BY <1>8, <1>d DEF Send
<1>9. CASE SendFails
  BY <1>9, <1>d DEF SendFails
<1>10. CASE WriteDone
  BY <1>10, <1>e DEF WriteDone, WriterInv, Satellite
<1>11. CASE Catch
  BY <1>11, <1>d DEF Catch, bridge
<1>12. CASE Fade
  BY <1>12, <1>d DEF Fade, bridge
<1>13. ASSUME NEW s \in Settings, UserSets(s) PROVE FileInv'
  BY <1>13, <1>d DEF UserSets, bridge
<1>14. ASSUME NEW s \in Settings, ConnectWrites(s) PROVE FileInv'
  <2>1. /\ UNCHANGED <<kind, drawn>> /\ Persist(z', 1) /\ z' = Take(s) /\ kind \notin Mine
    BY <1>14, <1>c DEF ConnectWrites
  <2>2. z' \in ZoneType
    BY <1>a, <2>1, SettingsType, DecodeZoneType DEF Take
  <2> QED BY <2>1, <2>2, PersistShown
<1>16. CASE Overhear
  <2>1. /\ UNCHANGED <<kind, drawn>> /\ Persist(z', 0) /\ z' = Take(report) /\ report \in FrameType
    BY <1>16, <1>a DEF Overhear
  <2>2. z' \in ZoneType /\ (kind \in Mine => z' = z)
    BY <1>a, <1>c, <2>1, DecodeZoneType DEF Take
  <2>3. kind \in Mine => Unmeasured(z')
    BY <2>2 DEF FileInv
  <2> QED BY <2>1, <2>2, <2>3, PersistShown
<1>17. CASE ReportLost
  BY <1>17, <1>d DEF ReportLost
<1>18. ASSUME NEW slot \in Slots, NEW heard \in BOOLEAN, SatelliteConsigne(slot, heard) PROVE FileInv'
  <2>1. UNCHANGED <<up, kind, file, lost, drawn>> /\ (kind \in Satellite \/ UNCHANGED z)
    BY <1>18 DEF SatelliteConsigne
  <2> QED BY <2>1, <1>d, <1>e
<1>19. CASE ReadInfo
  BY <1>19, <1>e DEF ReadInfo
<1>20. CASE UNCHANGED vars
  BY <1>20, <1>d DEF vars, bridge
<1> QED
  BY <1>1, <1>2, <1>3, <1>4, <1>5, <1>6, <1>7, <1>8, <1>9, <1>10, <1>11, <1>12, <1>13, <1>14, <1>16, <1>17,
     <1>18, <1>19, <1>20 DEF Next

\* Whenever the bridge may stop, its file has the ids and all that a zone of its own shows.
THEOREM Kept == Spec => []FileKept
<1>1. FileInv => FileKept
  BY DEF FileInv, FileKept, Mine
<1>2. Init => WriterInv
  BY DEF Init, WriterInv
<1>3. Spec => []WriterInv
  BY <1>2, WriterStep, PTL DEF Spec
<1> QED
  BY <1>1, <1>3, FileInit, FileStep, Typing, PTL DEF Spec

-----------------------------------------------------------------------------
(* The zone and its satellite.                                             *)

\* Zone x is at the mode, the derogation and the level of settings f.
AtMode(x, f) ==
  /\ x.mode = f.mode
  /\ x.override <=> f.mode = "Auto" /\ "program" \notin f.opts
  /\ x.override => x.level = IF "comfort" \in f.opts THEN "comfort" ELSE "eco"

AtTemperatures(x, f) ==
  /\ x.boost <=> "boost" \in f.opts
  /\ Encoded(x.reduced) = f.reduced /\ Encoded(x.frost) = f.frost
  /\ x.boost \/ Encoded(x.comfort) = f.comfort

LEMMA AgreeParts ==
  ASSUME NEW x \in ZoneType, NEW y \in ZoneType, NEW f \in FrameType
  PROVE  /\ SameMode(x, DecodeZone(y, f)) <=> AtMode(x, f)
         /\ SameSettings(x, DecodeZone(y, f)) <=> AtTemperatures(x, f)
         /\ Agree(x, DecodeZone(y, f)) <=> AtMode(x, f) /\ AtTemperatures(x, f)
<1> DEFINE d == DecodeZone(y, f)
<1>1. /\ d \in ZoneType /\ d.mode = f.mode /\ (d.boost <=> "boost" \in f.opts)
      /\ d.override <=> f.mode = "Auto" /\ "program" \notin f.opts
      /\ f.mode = "Auto" => d.level = IF "comfort" \in f.opts THEN "comfort" ELSE "eco"
      /\ d.comfort = IF "boost" \in f.opts THEN y.comfort ELSE f.comfort
      /\ d.reduced = f.reduced /\ d.frost = f.frost
  BY DecodeZoneParts
<1>2. Encoded(f.comfort) = f.comfort /\ Encoded(f.reduced) = f.reduced /\ Encoded(f.frost) = f.frost
  BY EncodedWithin DEF FrameType
<1> HIDE DEF d
<1>3. /\ x.mode = d.mode <=> x.mode = f.mode
      /\ (x.override <=> d.override) <=> (x.override <=> f.mode = "Auto" /\ "program" \notin f.opts)
      /\ (x.boost <=> d.boost) <=> (x.boost <=> "boost" \in f.opts)
  BY <1>1
<1>4. (x.override <=> d.override)
        => ((x.override => x.level = d.level)
              <=> (x.override => x.level = IF "comfort" \in f.opts THEN "comfort" ELSE "eco"))
  BY <1>1
<1>5. /\ Encoded(x.reduced) = Encoded(d.reduced) <=> Encoded(x.reduced) = f.reduced
      /\ Encoded(x.frost) = Encoded(d.frost) <=> Encoded(x.frost) = f.frost
  BY <1>1, <1>2
<1>6. (x.boost <=> d.boost)
        => (x.boost \/ Encoded(x.comfort) = Encoded(d.comfort) <=> x.boost \/ Encoded(x.comfort) = f.comfort)
  BY <1>1, <1>2
<1> QED
  BY <1>3, <1>4, <1>5, <1>6 DEF Agree, SameMode, SameSettings, AtMode, AtTemperatures, d

\* What a frame says is what the zone that decoded it is at.
LEMMA DecodedAgrees ==
  ASSUME NEW x \in ZoneType, NEW f \in FrameType
  PROVE  AtMode(DecodeZone(x, f), f) /\ AtTemperatures(DecodeZone(x, f), f)
<1> DEFINE d == DecodeZone(x, f)
<1>1. d \in ZoneType
  BY DecodeZoneType
<1>3. /\ d.mode = f.mode /\ (d.boost <=> "boost" \in f.opts)
      /\ d.override <=> f.mode = "Auto" /\ "program" \notin f.opts
      /\ f.mode = "Auto" => d.level = IF "comfort" \in f.opts THEN "comfort" ELSE "eco"
      /\ d.comfort = IF "boost" \in f.opts THEN x.comfort ELSE f.comfort
      /\ d.reduced = f.reduced /\ d.frost = f.frost
  BY DecodeZoneParts
<1>4. Encoded(f.comfort) = f.comfort /\ Encoded(f.reduced) = f.reduced /\ Encoded(f.frost) = f.frost
  BY EncodedWithin DEF FrameType
<1> HIDE DEF d
<1> QED
  BY <1>3, <1>4 DEF AtMode, AtTemperatures, d

\* Mode byte "byte" puts every zone at the mode of settings f.
Tells(byte, f) == \A y \in ZoneType : AtMode(DecodeMode(y, byte), f)

\* A satellite's consigne tells its settings, whatever level its program is at.
LEMMA SatelliteTells ==
  ASSUME TypeOK, NEW slot \in Slots, NEW heard \in BOOLEAN, SatelliteConsigne(slot, heard)
  PROVE  block'.of = satellite /\ Tells(block'.byte, satellite) /\ block'.ambient # Unknown
<1> DEFINE at == DecodeZone(NewZone, satellite)
           now == IF at.mode = "Auto" /\ ~at.override THEN [at EXCEPT !.level = slot] ELSE at
<1>1. satellite \in FrameType
  BY DEF TypeOK
<1>2. /\ at \in ZoneType /\ at.mode # "unknown" /\ at.mode = satellite.mode
      /\ [at EXCEPT !.level = slot] \in ZoneType
  BY <1>1, SatelliteZone DEF Slots
<1>3. AtMode(at, satellite)
  BY <1>1, NewZoneType, DecodedAgrees
<1>4. block'.of = satellite /\ block'.byte = EncodeMode(now, TRUE) /\ block'.ambient # Unknown
  BY DEF SatelliteConsigne, Unknown
<1> HIDE DEF at
<1>5. /\ now \in ZoneType /\ now.mode = at.mode /\ (now.override <=> at.override)
      /\ at.override => now.level = at.level
  BY <1>2 DEF ZoneType
<1> HIDE DEF now
<1>6. ASSUME NEW y \in ZoneType PROVE AtMode(DecodeMode(y, EncodeMode(now, TRUE)), satellite)
  <2> DEFINE d == DecodeMode(y, EncodeMode(now, TRUE))
  <2>1. /\ d.mode = now.mode
        /\ d.override <=> now.mode = "Auto" /\ now.override
        /\ now.mode = "Auto" => d.level = IF now.level = "comfort" THEN "comfort" ELSE "eco"
    BY <1>2, <1>5, ByteParts
  <2> HIDE DEF d
  <2>2. AtMode(d, satellite)
    BY <1>3, <1>5, <2>1 DEF AtMode
  <2> QED BY <2>2 DEF d
<1> QED
  BY <1>4, <1>6 DEF Tells

\* So such a consigne that is heard, or read from the boiler's block, puts the zone at that mode.
LEMMA TellsMode ==
  ASSUME NEW x \in ZoneType, NEW c \in ConsigneType, NEW f \in FrameType, Tells(c.byte, f),
         NEW y, y = DecodeConsigne(x, c) \/ (y = DecodeInfo(x, c) /\ c.ambient # Unknown)
  PROVE  y \in ZoneType /\ AtMode(y, f)
<1> DEFINE v == [x EXCEPT !.setpoint = Either(c.setpoint, @), !.ambient = Either(c.ambient, @)]
           u == [x EXCEPT !.setpoint = c.setpoint, !.ambient = c.ambient]
<1>1. v \in ZoneType /\ u \in ZoneType
  BY EitherType DEF ConsigneType, ZoneType
<1>2. y \in {DecodeMode(v, c.byte), DecodeMode(u, c.byte)}
  BY DEF DecodeConsigne, DecodeInfo
<1> HIDE DEF u, v
<1>3. AtMode(DecodeMode(v, c.byte), f) /\ AtMode(DecodeMode(u, c.byte), f)
  BY <1>1 DEF Tells
<1>4. DecodeMode(v, c.byte) \in ZoneType /\ DecodeMode(u, c.byte) \in ZoneType
  BY <1>1, DecodeModeType DEF ConsigneType
<1> QED
  BY <1>2, <1>3, <1>4

\* It leaves the temperatures alone, whatever mode it has.
LEMMA TemperaturesStay ==
  ASSUME NEW x \in ZoneType, NEW c \in ConsigneType, NEW f \in FrameType, AtTemperatures(x, f),
         NEW y \in {x, DecodeConsigne(x, c), DecodeInfo(x, c)}
  PROVE  AtTemperatures(y, f)
<1>1. y.boost = x.boost /\ y.comfort = x.comfort /\ y.reduced = x.reduced /\ y.frost = x.frost
  BY ConsigneParts
<1> QED
  BY <1>1 DEF AtTemperatures

\* What a report that rests on nothing later says: the temperatures and boost of the satellite.
Rests ==
  up /\ kind \in Satellite /\ report = None /\ basis = "report" => AtTemperatures(z, satellite)

AgreeInv ==
  /\ report # None => report = satellite
  /\ write # None /\ report = None /\ write.heard # None => satellite = write.heard
  /\ block.of # None => Tells(block.byte, block.of) /\ block.ambient # Unknown
  /\ Rests

LEMMA AgreeInit == Init => AgreeInv
  BY DEF Init, AgreeInv, Rests, NoConsigne

LEMMA AgreeStep == TypeOK /\ WriterInv /\ ComfortInv /\ AgreeInv /\ [Next]_vars => AgreeInv'
<1> SUFFICES ASSUME TypeOK, WriterInv, ComfortInv, AgreeInv, [Next]_vars PROVE AgreeInv'
  OBVIOUS
<1>a. /\ z \in ZoneType /\ satellite \in FrameType /\ block \in ConsigneType
      /\ write # None => write \in WriteType
      /\ report # None => report \in FrameType
  BY DEF TypeOK
<1>b. None \notin FrameType /\ None \notin Settings
  BY SettingsType
<1>1. CASE DrawId
  BY <1>1 DEF DrawId, air, AgreeInv, Rests
<1>2. CASE Stop
  BY <1>2 DEF Stop, air, AgreeInv, Rests
<1>3. CASE Restart
  BY <1>3 DEF Restart, air, AgreeInv, Rests, Bases
<1>4. ASSUME NEW c \in Commands, WriteCommand(c) PROVE AgreeInv'
  <2>1. write'.heard = None /\ UNCHANGED <<up, kind, z, air, basis>>
    BY <1>4 DEF WriteCommand
  <2> QED BY <2>1 DEF air, AgreeInv, Rests
<1>5. ASSUME NEW c \in Commands, OwnCommand(c) PROVE AgreeInv'
  BY <1>5 DEF OwnCommand, Satellite, air, AgreeInv, Rests
<1>6. ASSUME NEW t \in Targets, ReportedAmbient(t) PROVE AgreeInv'
  BY <1>6 DEF ReportedAmbient, Satellite, air, AgreeInv, Rests
<1>7. CASE SendSimple
  BY <1>7 DEF SendSimple, Satellite, air, AgreeInv, Rests
<1>8. CASE Send
  <2>1. write # None /\ write'.heard = write.heard
    BY <1>8, <1>a DEF Send, WriteType
  <2> QED BY <1>8, <2>1 DEF Send, AgreeInv, Rests
<1>9. CASE SendFails
  BY <1>9 DEF SendFails, air, AgreeInv, Rests
<1>10. CASE WriteDone
  <2>1. /\ write \in WriteType /\ write # None /\ write' = None
        /\ z' = Written(z, write.old, write.intent)
        /\ UNCHANGED <<up, kind, air>>
    BY <1>10, <1>a DEF WriteDone
  <2>2. /\ write.old \in ZoneType /\ write.intent \in IntentType /\ Sound(write.intent)
        /\ Frame \in FrameType
    BY <2>1, ZoneFrameType DEF ComfortInv, WriteType, Frame
  <2>3. z' \in ZoneType
    BY <1>a, <2>1, <2>2, WrittenType
  <2>4. Agree(z', DecodeZone(z, Frame))
    BY <1>a, <2>1, <2>2, WriteAgrees DEF Frame
  <2>5. AtMode(z', Frame) /\ AtTemperatures(z', Frame)
    BY <1>a, <2>2, <2>3, <2>4, AgreeParts
  <2>6. ASSUME report = None, basis' = "report" PROVE satellite = Frame
    <3>1. write.heard = Frame
      BY <1>10, <2>6 DEF WriteDone
    <3> QED BY <1>b, <2>1, <2>2, <2>6, <3>1 DEF AgreeInv
  <2>7. Rests'
    BY <2>1, <2>5, <2>6 DEF Rests, air
  <2> QED BY <2>1, <2>7 DEF AgreeInv, air
<1>11. CASE Catch
  BY <1>11 DEF Catch, bridge, AgreeInv, Rests
<1>12. CASE Fade
  BY <1>12 DEF Fade, bridge, AgreeInv, Rests
<1>13. ASSUME NEW s \in Settings, UserSets(s) PROVE AgreeInv'
  BY <1>13, <1>b DEF UserSets, bridge, AgreeInv, Rests
<1>14. ASSUME NEW s \in Settings, ConnectWrites(s) PROVE AgreeInv'
  BY <1>14, <1>b DEF ConnectWrites, AgreeInv, Rests
<1>15. ASSUME NEW f, Hearing(f) PROVE write' # None => write # None /\ write'.heard = f
  BY <1>15, <1>a DEF Hearing, WriteType
<1>16. CASE Overhear
  <2>1. report = satellite /\ report' = None /\ UNCHANGED <<up, kind, relay, satellite, block>>
    BY <1>16 DEF Overhear, AgreeInv
  <2>2. kind \in Satellite => z' = DecodeZone(z, satellite)
    BY <1>16, <2>1 DEF Overhear, Take
  <2>3. Rests'
    BY <1>a, <2>1, <2>2, DecodedAgrees DEF Rests
  <2>4. write' # None => write'.heard = satellite
    BY <1>15, <1>16, <2>1 DEF Overhear
  <2> QED BY <2>1, <2>3, <2>4 DEF AgreeInv
<1>17. CASE ReportLost
  <2>1. report' = None /\ basis' = "unknown" /\ UNCHANGED <<satellite, block>>
    BY <1>17 DEF ReportLost
  <2>2. write' # None => write'.heard = None
    BY <1>15, <1>17 DEF ReportLost
  <2> QED BY <2>1, <2>2 DEF AgreeInv, Rests
<1>18. ASSUME NEW slot \in Slots, NEW heard \in BOOLEAN, SatelliteConsigne(slot, heard) PROVE AgreeInv'
  <2>1. block' \in ConsigneType /\ z' \in {z, DecodeConsigne(z, block')}
    BY <1>18, SatelliteSends
  <2>2. block'.of = satellite /\ Tells(block'.byte, satellite) /\ block'.ambient # Unknown
    BY <1>18, SatelliteTells
  <2>3. UNCHANGED <<up, kind, write, relay, satellite, report, basis>>
    BY <1>18 DEF SatelliteConsigne
  <2>4. AtTemperatures(z, satellite) => AtTemperatures(z', satellite)
    BY <1>a, <2>1, TemperaturesStay
  <2>5. Rests'
    BY <2>3, <2>4 DEF AgreeInv, Rests
  <2> QED BY <2>2, <2>3, <2>5 DEF AgreeInv
<1>19. CASE ReadInfo
  <2>1. z' = DecodeInfo(z, block) /\ UNCHANGED <<up, kind, write, air, basis>>
    BY <1>19 DEF ReadInfo
  <2>2. AtTemperatures(z, satellite) => AtTemperatures(z', satellite)
    BY <1>a, <2>1, TemperaturesStay
  <2>3. Rests'
    BY <2>1, <2>2 DEF AgreeInv, Rests, air
  <2> QED BY <2>1, <2>3 DEF AgreeInv, air
<1>20. CASE UNCHANGED vars
  BY <1>20 DEF vars, bridge, air, AgreeInv, Rests
<1> QED
  BY <1>1, <1>2, <1>3, <1>4, <1>5, <1>6, <1>7, <1>8, <1>9, <1>10, <1>11, <1>12, <1>13, <1>14, <1>16, <1>17,
     <1>18, <1>19, <1>20 DEF Next

LEMMA AgreeAlways == Spec => []AgreeInv
<1>1. Init => WriterInv
  BY DEF Init, WriterInv
<1>2. Spec => []WriterInv
  BY <1>1, WriterStep, PTL DEF Spec
<1>3. Spec => []ComfortInv
  BY ComfortInit, ComfortStep, Typing, PTL DEF Spec
<1> QED
  BY <1>2, <1>3, AgreeInit, AgreeStep, Typing, PTL DEF Spec

\* The temperatures and boost of a report that was heard last are the zone's: over a burst, over one
\* that fails, over consignes and reads of the boiler with whatever mode.
THEOREM Reported == Spec => []ReportKept
<1>1. TypeOK /\ AgreeInv => ReportKept
  <2> SUFFICES ASSUME TypeOK, AgreeInv, up, kind \in Satellite, report = None, basis = "report"
               PROVE  SameSettings(z, DecodeZone(z, satellite))
    BY DEF ReportKept, AtSatellite
  <2>1. z \in ZoneType /\ satellite \in FrameType /\ AtTemperatures(z, satellite)
    BY DEF TypeOK, AgreeInv, Rests
  <2> QED BY <2>1, AgreeParts
<1> QED
  BY <1>1, AgreeAlways, Typing, PTL

\* The safety part of ModeSettles: a check-in of the satellite's that is heard, and a read of the boiler's
\* block once the satellite has checked in with its present settings, put the zone at the satellite's
\* mode and derogation, whatever it was at before: a missed or overwritten report, or a stale block.
ModeTold ==
  [][(\E slot \in Slots : SatelliteConsigne(slot, TRUE)) \/ (ReadInfo /\ block.of = satellite)
       => SameMode(z, AtSatellite)']_vars

THEOREM Told == Spec => ModeTold
<1> DEFINE Telling == (\E slot \in Slots : SatelliteConsigne(slot, TRUE)) \/ (ReadInfo /\ block.of = satellite)
<1>1. TypeOK /\ AgreeInv /\ Telling => SameMode(z, AtSatellite)'
  <2> SUFFICES ASSUME TypeOK, AgreeInv, Telling PROVE SameMode(z, AtSatellite)'
    OBVIOUS
  <2>1. z \in ZoneType /\ satellite \in FrameType /\ block \in ConsigneType /\ None \notin FrameType
    BY SettingsType DEF TypeOK
  <2>2. z' \in ZoneType /\ AtMode(z', satellite) /\ satellite' = satellite
    <3>1. ASSUME NEW slot \in Slots, SatelliteConsigne(slot, TRUE)
          PROVE  z' \in ZoneType /\ AtMode(z', satellite) /\ satellite' = satellite
      <4>1. block' \in ConsigneType /\ Tells(block'.byte, satellite)
        BY <3>1, SatelliteSends, SatelliteTells
      <4>2. z' = DecodeConsigne(z, block') /\ satellite' = satellite
        BY <3>1 DEF SatelliteConsigne
      <4> QED BY <2>1, <4>1, <4>2, TellsMode
    <3>2. ASSUME ReadInfo, block.of = satellite
          PROVE  z' \in ZoneType /\ AtMode(z', satellite) /\ satellite' = satellite
      <4>1. Tells(block.byte, satellite) /\ block.ambient # Unknown
        BY <2>1, <3>2 DEF AgreeInv
      <4>2. z' = DecodeInfo(z, block) /\ satellite' = satellite
        BY <3>2 DEF ReadInfo, air
      <4> QED BY <2>1, <4>1, <4>2, TellsMode
    <3> QED BY <3>1, <3>2
  <2>3. SameMode(z', DecodeZone(z', satellite))
    BY <2>1, <2>2, AgreeParts
  <2> QED BY <2>2, <2>3 DEF AtSatellite
<1>2. TypeOK /\ AgreeInv /\ [Next]_vars => [Telling => SameMode(z, AtSatellite)']_vars
  BY <1>1
<1> QED
  BY <1>2, AgreeAlways, Typing, PTL DEF Spec, ModeTold
=============================================================================

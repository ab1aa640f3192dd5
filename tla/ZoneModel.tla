------------------------------ MODULE ZoneModel ------------------------------
(***************************************************************************)
(* A heating zone as the bridge keeps it (model.py), and the pure rules    *)
(* over it: what Home Assistant is shown and what its commands mean        *)
(* (climate.py), the simple profile (boiler_profile.py), what a zone write *)
(* puts in its frame (ops.py) and what overheard frames do to the zone     *)
(* (connect/decode.py).  A temperature is a number of two-degree steps;    *)
(* the schedule is left out, as nothing depends on it.                     *)
(***************************************************************************)
EXTENDS Integers

CONSTANTS
  MaxCode,   \* the highest temperature a frame carries (30.5 degrees)
  Refused    \* the outcome of a command that raises an error

ASSUME MaxCodeAssumption == MaxCode \in Nat \ {0}

Unknown == 0       \* a temperature not known
Boost == 1         \* what boost adds to the comfort temperature

Modes == {"Auto", "Comfort", "Reduced", "Frost"}
Levels == {"none", "comfort", "eco"}   \* auto_comfort: None, True, False

ZoneType ==
  [mode : Modes \cup {"unknown"}, options : BOOLEAN, level : Levels, override : BOOLEAN, boost : BOOLEAN,
   comfort : Nat, reduced : Nat, frost : Nat, setpoint : Nat, ambient : Nat, reported : Nat]

\* A zone nothing is known of.
NewZone ==
  [mode |-> "unknown", options |-> FALSE, level |-> "none", override |-> FALSE, boost |-> FALSE,
   comfort |-> Unknown, reduced |-> Unknown, frost |-> Unknown,
   setpoint |-> Unknown, ambient |-> Unknown, reported |-> Unknown]

-----------------------------------------------------------------------------
(* What Home Assistant is shown.                                           *)

HvacMode(z) ==
  [unknown |-> "unknown", Frost |-> "off", Auto |-> "auto",
   Comfort |-> "heat", Reduced |-> "heat"][z.mode]

Distance(a, b) == IF a < b THEN b - a ELSE a - b

\* The level the program or a derogation applies: from the setpoint in force if that tells.
ActivePreset(z) ==
  IF Unknown \notin {z.setpoint, z.comfort, z.reduced} /\ z.comfort # z.reduced
  THEN IF Distance(z.setpoint, z.comfort) <= Distance(z.setpoint, z.reduced)
       THEN "comfort" ELSE "eco"
  ELSE IF z.override /\ z.level = "none" THEN "eco" ELSE z.level

Preset(z) ==
  [unknown |-> "none", Frost |-> "none", Auto |-> ActivePreset(z),
   Comfort |-> IF z.boost THEN "boost" ELSE "comfort", Reduced |-> "eco"][z.mode]

Boosted(t, boost) == IF boost /\ t # Unknown THEN t + Boost ELSE t

Target(z) ==
  [unknown |-> Unknown, Frost |-> z.frost, Reduced |-> z.reduced,
   Comfort |-> Boosted(z.comfort, z.boost),
   Auto |-> IF z.setpoint # Unknown THEN z.setpoint
            ELSE IF z.level = "eco" THEN z.reduced ELSE z.comfort][z.mode]

-----------------------------------------------------------------------------
(* What Home Assistant's commands mean: an hvac mode, a preset or a target *)
(* temperature; the parts a command lacks are "kept" and Unknown.          *)

Intent(mode, boost, override, level) ==
  [mode |-> mode, boost |-> boost, override |-> override, level |-> level]

\* "none" follows the program; "comfort" and "eco" derogate from it; boost is for comfort alone.
Resolved(hvac, preset, z) ==
  CASE hvac = "off" -> Intent("Frost", FALSE, FALSE, "none")
    [] hvac # "off" /\ preset = "none" -> Intent("Auto", FALSE, FALSE, z.level)
    [] hvac = "auto" /\ preset \in {"comfort", "eco"} -> Intent("Auto", FALSE, TRUE, preset)
    [] hvac = "auto" /\ preset = "boost" -> Refused
    [] hvac = "heat" /\ preset = "eco" -> Intent("Reduced", FALSE, FALSE, "none")
    [] OTHER -> Intent("Comfort", preset = "boost", FALSE, "none")

\* Mutant of Retargeted: the two degrees of a boost are left in the comfort temperature.
BoostedRetargeted(i, t) ==
  IF t = Unknown THEN [comfort |-> Unknown, reduced |-> Unknown, frost |-> Unknown]
  ELSE [comfort |-> IF i.mode = "Comfort" \/ (i.mode = "Auto" /\ i.level # "eco") THEN t ELSE Unknown,
        reduced |-> IF i.mode = "Reduced" \/ (i.mode = "Auto" /\ i.level = "eco") THEN t ELSE Unknown,
        frost |-> IF i.mode = "Frost" THEN t ELSE Unknown]

\* The setpoint a target temperature changes: that of the mode and level it comes to.
Retargeted(i, t) ==
  IF t = Unknown THEN [comfort |-> Unknown, reduced |-> Unknown, frost |-> Unknown]
  ELSE [comfort |-> IF i.mode = "Comfort" THEN t - (IF i.boost THEN Boost ELSE 0)
                    ELSE IF i.mode = "Auto" /\ i.level # "eco" THEN t ELSE Unknown,
        reduced |-> IF i.mode = "Reduced" \/ (i.mode = "Auto" /\ i.level = "eco") THEN t ELSE Unknown,
        frost |-> IF i.mode = "Frost" THEN t ELSE Unknown]

\* What a command comes to.
IntentType ==
  [mode : Modes, boost : BOOLEAN, override : BOOLEAN, level : Levels,
   comfort : Nat, reduced : Nat, frost : Nat]

Either(new, old) == IF new = Unknown THEN old ELSE new

\* The zone an intent asks for, or Refused.
ResolveIntent(z, c) ==
  LET hvac == IF c.hvac # "kept" THEN c.hvac ELSE IF z.mode = "unknown" THEN "auto" ELSE HvacMode(z)
      i == Resolved(hvac, IF c.preset # "kept" THEN c.preset ELSE Preset(z), z)
      t == Retargeted(i, c.target)
  IN  IF i = Refused THEN Refused
      ELSE [mode |-> i.mode, boost |-> i.boost, override |-> i.override, level |-> i.level,
            comfort |-> Either(t.comfort, z.comfort), reduced |-> Either(t.reduced, z.reduced),
            frost |-> Either(t.frost, z.frost)]

\* A virtual satellite's zone takes it at once.
ApplyIntent(z, i) ==
  [z EXCEPT !.mode = i.mode, !.boost = i.boost,
            !.override = i.mode = "Auto" /\ i.override,
            !.level = IF i.mode = "Auto" THEN i.level ELSE "none",
            !.comfort = i.comfort, !.reduced = i.reduced, !.frost = i.frost]

-----------------------------------------------------------------------------
(* The simple profile: off or heat, comfort or eco, no program.            *)

SimpleMode(z) == IF z.mode \in {"Frost", "Reduced"} THEN z.mode ELSE "Comfort"
SimpleHvacMode(z) == IF z.mode = "unknown" THEN "unknown"
                     ELSE IF z.mode = "Frost" THEN "off" ELSE "heat"
SimplePreset(z) == IF z.mode = "unknown" THEN "none"
                   ELSE IF z.mode = "Reduced" THEN "eco" ELSE "comfort"

SimpleDefault == [Frost |-> 1, Reduced |-> 2, Comfort |-> 4]

SimpleTarget(z) ==
  LET own == [Frost |-> z.frost, Reduced |-> z.reduced, Comfort |-> z.comfort]
  IN  Either(own[SimpleMode(z)], SimpleDefault[SimpleMode(z)])

Own(z, mode) ==
  [z EXCEPT !.mode = mode, !.boost = FALSE, !.override = FALSE, !.level = "none"]

WithDefaults(z) ==
  [z EXCEPT !.frost = Either(@, SimpleDefault.Frost), !.reduced = Either(@, SimpleDefault.Reduced),
            !.comfort = Either(@, SimpleDefault.Comfort)]

\* A preset given while the zone is off is dropped; a target alone leaves the other setpoints.
ApplySimple(z, c) ==
  LET was == SimpleMode(z)
      now == CASE c.hvac = "off" -> "Frost"
               [] c.hvac = "heat" /\ was = "Frost" -> "Comfort"
               [] c.hvac # "off" /\ c.preset = "comfort" /\ was # "Frost" -> "Comfort"
               [] c.hvac # "off" /\ c.preset = "eco" /\ was # "Frost" -> "Reduced"
               [] OTHER -> was
      own == Own(z, now)
  IN  IF c.hvac = "auto" \/ c.preset \in {"none", "boost"} THEN Refused
      ELSE IF c.target = Unknown THEN WithDefaults(own)
      ELSE [own EXCEPT !.frost = IF now = "Frost" THEN c.target ELSE @,
                       !.reduced = IF now = "Reduced" THEN c.target ELSE @,
                       !.comfort = IF now = "Comfort" THEN c.target ELSE @]

\* What the simple profile makes of the zone when it sends a consigne.
SimpleConsigne(z) ==
  IF Either(z.reported, z.ambient) = Unknown THEN z ELSE WithDefaults(Own(z, SimpleMode(z)))

-----------------------------------------------------------------------------
(* Zone configuration frames (0xa154): written by Connect, reported by the *)
(* satellite, acknowledged through the boiler.                             *)

\* What a frame carries: temperatures within what a byte can hold.
FrameType ==
  [mode : Modes, opts : SUBSET {"program", "comfort", "boost"},
   comfort : 0 .. MaxCode, reduced : 0 .. MaxCode, frost : 0 .. MaxCode]

\* Mutant of Encoded: a temperature out of range is not cut.
UncutEncoded(t) == t

Encoded(t) == IF t > MaxCode THEN MaxCode ELSE t

\* The options byte: "program" is its 0x10 bit, the others its 0x01 and 0x40 bits.
ModeOptions(mode, level, override, boost) ==
  CASE mode = "Frost" -> {}
    [] mode = "Auto" /\ ~override -> {"program"}
    [] OTHER -> (IF level = "comfort" THEN {"comfort"} ELSE {}) \cup (IF boost THEN {"boost"} ELSE {})

MetadataComplete(z) == z.options /\ Unknown \notin {z.comfort, z.reduced, z.frost}

\* The level a write sends: fixed outside automatic mode, else the intent's or the zone's.
WrittenLevel(z, i) ==
  CASE i.mode = "Auto" -> IF i.level = "none" THEN z.level ELSE i.level
    [] i.mode = "Comfort" -> "comfort"
    [] OTHER -> "eco"

ZoneFrame(z, i) ==
  [mode |-> i.mode, opts |-> ModeOptions(i.mode, WrittenLevel(z, i), i.override, i.boost),
   comfort |-> Encoded(Boosted(i.comfort, i.boost)),
   reduced |-> Encoded(i.reduced), frost |-> Encoded(i.frost)]

\* What a write sets in the zone once its frames are sent: it was resolved before them, in zone old.
Written(z, old, i) ==
  [z EXCEPT !.mode = i.mode, !.options = TRUE, !.boost = i.boost,
            !.level = IF i.mode = "Auto" THEN WrittenLevel(old, i) ELSE "none",
            !.override = i.mode = "Auto" /\ i.override,
            !.comfort = i.comfort, !.reduced = i.reduced, !.frost = i.frost]

\* Mutant of DecodeZone: the comfort temperature of a boosting satellite is taken as it is.
CreepingDecodeZone(z, f) ==
  [z EXCEPT !.mode = f.mode, !.options = TRUE, !.boost = "boost" \in f.opts,
            !.comfort = f.comfort, !.reduced = f.reduced, !.frost = f.frost,
            !.override = f.mode = "Auto" /\ "program" \notin f.opts,
            !.level = IF f.mode # "Auto" THEN "none"
                      ELSE IF "comfort" \in f.opts THEN "comfort" ELSE "eco"]

\* A configuration frame overheard.  While boosting, its comfort temperature is two degrees up.
DecodeZone(z, f) ==
  [z EXCEPT !.mode = f.mode, !.options = TRUE, !.boost = "boost" \in f.opts,
            !.comfort = IF "boost" \in f.opts THEN @ ELSE f.comfort,
            !.reduced = f.reduced, !.frost = f.frost,
            !.override = f.mode = "Auto" /\ "program" \notin f.opts,
            !.level = IF f.mode # "Auto" THEN "none"
                      ELSE IF "comfort" \in f.opts THEN "comfort" ELSE "eco"]

-----------------------------------------------------------------------------
(* Consignes (0xa02f): ambient, setpoint and a mode byte, sent by a        *)
(* satellite, real or virtual, and kept by the boiler in its 0xa029 block. *)

CompatBit == 32    \* 0x20: the encoding used beside a Connect

\* Mutant of EncodeMode: derogation and level change places in the table.
SwappedEncodeMode(z, compat) ==
  (IF compat THEN CompatBit ELSE 0)
  + CASE z.mode = "Frost" -> 16
      [] z.mode = "Comfort" -> 1
      [] z.mode = "Reduced" -> 0
      [] z.mode = "Auto" ->
           (IF z.override THEN IF z.level = "comfort" THEN 3 ELSE 4
            ELSE IF z.level = "comfort" THEN 5 ELSE 2)

EncodeMode(z, compat) ==
  (IF compat THEN CompatBit ELSE 0)
  + CASE z.mode = "Frost" -> 16
      [] z.mode = "Comfort" -> 1
      [] z.mode = "Reduced" -> 0
      [] z.mode = "Auto" ->
           (IF z.level = "comfort" THEN 3 ELSE 2) + (IF z.override THEN 0 ELSE 2)

Meaning ==
  [b \in {0, 1, 2, 3, 4, 5, 16} |->
     CASE b = 0 -> Intent("Reduced", FALSE, FALSE, "none")
       [] b = 1 -> Intent("Comfort", FALSE, FALSE, "none")
       [] b = 16 -> Intent("Frost", FALSE, FALSE, "none")
       [] OTHER -> Intent("Auto", FALSE, b \in {2, 3}, IF b \in {3, 5} THEN "comfort" ELSE "eco")]

\* Mutant of DecodeMode: the derogation of before is left as it is.
StickyDecodeMode(z, byte) ==
  LET b == IF byte >= CompatBit THEN byte - CompatBit ELSE byte
  IN  IF b \notin DOMAIN Meaning THEN z
      ELSE [z EXCEPT !.mode = Meaning[b].mode, !.level = Meaning[b].level]

DecodeMode(z, byte) ==
  LET b == IF byte >= CompatBit THEN byte - CompatBit ELSE byte
  IN  IF b \notin DOMAIN Meaning THEN z
      ELSE [z EXCEPT !.mode = Meaning[b].mode, !.level = Meaning[b].level,
                     !.override = Meaning[b].override]

\* A satellite's consigne overheard: what it leaves out stays.
DecodeConsigne(z, c) ==
  DecodeMode([z EXCEPT !.setpoint = Either(c.setpoint, @), !.ambient = Either(c.ambient, @)], c.byte)

\* The same zone in the boiler's block: what is absent there becomes unknown.
DecodeInfo(z, c) ==
  IF c.ambient = Unknown /\ c.setpoint = Unknown THEN z
  ELSE DecodeMode([z EXCEPT !.setpoint = c.setpoint, !.ambient = c.ambient], c.byte)
=============================================================================

--------------------------- MODULE MCZoneControl ---------------------------
(***************************************************************************)
(* A small instance of ZoneControl: the satellite follows its program, or  *)
(* is boosted, or derogates to eco with other temperatures.                *)
(***************************************************************************)
EXTENDS ZoneControl

Setting(mode, opts, comfort, reduced) ==
  [mode |-> mode, opts |-> opts, comfort |-> comfort, reduced |-> reduced, frost |-> 1]

MCSettings ==
  {Setting("Auto", {"program"}, 4, 2), Setting("Comfort", {"comfort", "boost"}, 5, 2),
   Setting("Auto", {}, 7, 3)}

MCTargets == {7}
=============================================================================

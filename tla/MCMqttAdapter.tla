--------------------------- MODULE MCMqttAdapter ---------------------------
(***************************************************************************)
(* A small instance of MqttAdapter: two zones, and a file that describes a *)
(* Connect beside a satellite, a flow_temp profile, or a zone of the       *)
(* bridge's own whose association id is missing.                           *)
(***************************************************************************)
EXTENDS MqttAdapter

Flow(fallback) == [mode |-> "flow_temp", id |-> TRUE, curve |-> "usable", fallback |-> fallback]

MCDocuments ==
  {Document("full", TRUE, "absent", <<Zone("satellite", FALSE), NoZone>>),
   Document("absent", FALSE, "on", <<Flow("reachable"), NoZone>>),
   Document("absent", FALSE, "absent", <<Zone("simple_satellite", FALSE), NoZone>>)}

MCLegacy == {<<"climate", 1>>}
MCZoneNumbers == {1, 2}
=============================================================================

---------------------------- MODULE MCPassiveMirror ----------------------------
(***************************************************************************)
(* PassiveMirror with two blocks, the longer one decodable as the shorter. *)
(***************************************************************************)
EXTENDS PassiveMirror

MCSize == [b \in {"sensors", "clock"} |-> IF b = "sensors" THEN 57 ELSE 9]
=============================================================================

----------------------------- MODULE MCPlatform -----------------------------
(***************************************************************************)
(* The platform commands, on the mock and on a board: two clocks, one more *)
(* that does not exist, one number that wraps to a clock, a rate that wraps *)
(* and one that does not, one generated clock.                              *)
(***************************************************************************)
EXTENDS Platform
MCIds    == {0, 4, 259}
MCValues == {60, 105}
MCLevels == {"minimal", "debug"}
=============================================================================

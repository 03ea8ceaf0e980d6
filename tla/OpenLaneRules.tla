--------------------------- MODULE OpenLaneRules ---------------------------
(***************************************************************************)
(* The rules of the resolver that decide an open lane, and the client's    *)
(* copy of them, for the replay of LaneReplay.                             *)
(***************************************************************************)
EXTENDS MarketRecords, Preflight
=============================================================================

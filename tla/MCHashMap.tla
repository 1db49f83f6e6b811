----------------------------- MODULE MCHashMap -----------------------------
(***************************************************************************)
(* Instances of HashMap for TLC: chains of two slots, a first table of     *)
(* four, and keys chosen so that a chain wraps around the end of a table   *)
(* (a, b and c in four and eight slots) and the elements of eight slots,   *)
(* moved in table order, do not fit into sixteen, which makes a rehash     *)
(* start another one.                                                      *)
(***************************************************************************)
EXTENDS HashMap

MCHash == [k \in Keys |-> CASE k = "a" -> 7
                            [] k = "b" -> 39
                            [] k = "c" -> 8
                            [] OTHER   -> 3]
=============================================================================

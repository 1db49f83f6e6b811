-------------------------- MODULE MCReferenceTable --------------------------
(***************************************************************************)
(* Instances of ReferenceTable for TLC: names whose chains overlap, wrap   *)
(* around and make a rehash start another one (see MCHashMap), of which    *)
(* the callback knows one.                                                 *)
(***************************************************************************)
EXTENDS ReferenceTable

MCHash == [k \in Keys |-> CASE k = "a" -> 7
                            [] k = "b" -> 39
                            [] k = "c" -> 8
                            [] OTHER   -> 3]
MCCreated == [k \in Keys |-> IF k = "b" THEN "made" ELSE Absent]
=============================================================================

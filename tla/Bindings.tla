------------------------------ MODULE Bindings ------------------------------
(***************************************************************************)
(* What a reference table promises its users: the newest expression set    *)
(* for each key, and an expression of the callback's for a key that has    *)
(* none, which is kept so that the callback is asked once.  When there is  *)
(* no memory bindings may be forgotten; users see no status, but without   *)
(* that one nothing is.                                                    *)
(***************************************************************************)
CONSTANTS
  Keys,
  Expressions,
  Absent,       (* NULL, no expression itself                              *)
  Created       (* what the callback creates for each key, Absent if none  *)

VARIABLES
  bindings,     (* the expression of each key                              *)
  m_callback,   (* whether the table has a callback                        *)
  result,       (* the answer of the last call                             *)
  status        (* how the map of the table answered it                    *)

Result(op, key, expression) == [op |-> op, key |-> key, expression |-> expression]

Init ==
  /\ bindings = [key \in Keys |-> Absent]
  /\ m_callback = FALSE
  /\ result = Result("create", Absent, Absent)
  /\ status = "MAP_OK"

Bind(key, expression) ==
  \/ /\ status' = "MAP_OK"
     /\ bindings' = [bindings EXCEPT ![key] = expression]
  \/ /\ status' = "MAP_OMEM"
     /\ bindings' \in {b \in [Keys -> Expressions \cup {Absent}] :
                         \A k \in Keys : b[k] \in {bindings[k], Absent}}

Set(key, expression) ==
  /\ Bind(key, expression)
  /\ result' = Result("set", key, expression)
  /\ UNCHANGED m_callback

Creates(key) == m_callback /\ Created[key] # Absent

Lookup(key) ==
  /\ IF bindings[key] = Absent /\ Creates(key)
     THEN Bind(key, Created[key]) /\ result' = Result("lookup", key, Created[key])
     ELSE /\ UNCHANGED bindings
          /\ result' = Result("lookup", key, bindings[key])
          /\ status' = IF bindings[key] = Absent THEN "MAP_MISSING" ELSE "MAP_OK"
  /\ UNCHANGED m_callback

SetCallback(on) ==
  /\ m_callback' = on
  /\ UNCHANGED <<bindings, result, status>>

Next ==
  \/ \E key \in Keys : Lookup(key) \/ \E expression \in Expressions : Set(key, expression)
  \/ \E on \in BOOLEAN : SetCallback(on)

Spec == Init /\ [][Next]_<<bindings, m_callback, result, status>>
=============================================================================

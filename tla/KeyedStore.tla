----------------------------- MODULE KeyedStore -----------------------------
(***************************************************************************)
(* What a map promises its users: it holds one datum for each key, a put   *)
(* replaces it, a get returns it.  A put for which there is no memory says *)
(* so; which of the keys survive it is left open.                          *)
(***************************************************************************)
CONSTANTS
  Keys,     (* the strings used as keys                    *)
  Data,     (* what a key may be mapped to                 *)
  Absent    (* what is held for a key that was never put,  *)
            (* no datum itself                              *)

VARIABLES
  store,    (* what is held for each key                   *)
  returned  (* the answer of the last call                 *)

Answer(op, key, status, datum) ==
  [op |-> op, key |-> key, status |-> status, datum |-> datum]

Init ==
  /\ store = [key \in Keys |-> Absent]
  /\ returned = Answer("new", Absent, "MAP_OK", Absent)

Put(key, datum) ==
  /\ returned' = Answer("put", key, "MAP_OK", datum)
  /\ store' = [store EXCEPT ![key] = datum]

PutWithoutMemory(key, datum) ==
  /\ returned' = Answer("put", key, "MAP_OMEM", datum)
  /\ store' \in {s \in [Keys -> Data \cup {Absent}] : \A k \in Keys : s[k] \in {store[k], Absent}}

Get(key) ==
  /\ UNCHANGED store
  /\ returned' = Answer("get", key,
                        IF store[key] = Absent THEN "MAP_MISSING" ELSE "MAP_OK", store[key])

Next ==
  \E key \in Keys :
    \/ Get(key)
    \/ \E datum \in Data : Put(key, datum) \/ PutWithoutMemory(key, datum)

Spec == Init /\ [][Next]_<<store, returned>>
=============================================================================

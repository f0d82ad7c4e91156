---------------------------- MODULE AbstractMap ----------------------------
(***************************************************************************)
(* What a symbol table of the compiler needs of cabor_hash_map: a partial  *)
(* function from names to values in which a later insertion shadows an     *)
(* earlier one, and a lookup that says what the last insertion said.       *)
(***************************************************************************)
CONSTANTS Key, Value, Absent

VARIABLES
    store,  \* the value of each name, or Absent
    name,   \* the name the last operation was about, or Absent
    answer  \* what it returned

Init ==
    /\ store = [k \in Key |-> Absent]
    /\ name = Absent
    /\ answer = Absent

Put(k, v) ==
    /\ store' = [store EXCEPT ![k] = v]
    /\ name' = k
    /\ answer' = v

Look(k) ==
    /\ name' = k
    /\ answer' = store[k]
    /\ UNCHANGED store

Clear ==
    /\ store' = [k \in Key |-> Absent]
    /\ UNCHANGED <<name, answer>>

Next ==
    \/ \E k \in Key, v \in Value : Put(k, v)
    \/ \E k \in Key : Look(k)
    \/ Clear

Spec == Init /\ [][Next]_<<store, name, answer>>
=============================================================================

---------------------------- MODULE CaborHashMap ----------------------------
(***************************************************************************)
(* cabor_hash_map of src/src/core/hashmap.c: a table of fixed size whose   *)
(* slots head chains of entries.  It holds the symbol tables of the type   *)
(* checker and of the IR.                                                  *)
(*                                                                         *)
(* A chain is the sequence of its entries; an empty chain is a slot whose  *)
(* key is NULL.  Abstracted: the FNV-1a hash (Slot) and the strings.       *)
(***************************************************************************)
EXTENDS Naturals, Sequences

CONSTANTS
    Key,        \* the strings
    Value,      \* the values
    Absent,     \* "not found"
    Size,       \* map->table->size
    Slot        \* cabor_hash_string(key) % table_size

ASSUME AbsentAssumption == Absent \notin Value
ASSUME SlotAssumption == Size \in Nat \ {0} /\ Slot \in [Key -> 0 .. Size - 1]

VARIABLES
    chain,      \* the entries of each slot
    held,       \* the entry a caller has a pointer to: its slot and place
    name,       \* the name the last operation was about, or Absent
    answer,     \* what it returned
    phase       \* "live", "destroyed" or "crashed"

vars == <<chain, held, name, answer, phase>>

Slots == 0 .. Size - 1
Entry == [key : Key, value : Value]
NoEntry == [slot |-> 0, at |-> 0]

TypeOK ==
    /\ chain \in [Slots -> Seq(Entry)]
    /\ held \in [slot : Slots, at : Nat]
    /\ name \in Key \union {Absent}
    /\ answer \in Value \union {Absent}
    /\ phase \in {"live", "destroyed", "crashed"}

\* Mutant: the table is made one slot short.
InitOneShort ==
    /\ chain = [s \in 0 .. Size - 2 |-> <<>>]
    /\ held = NoEntry
    /\ name = Absent
    /\ answer = Absent
    /\ phase = "live"

\* cabor_create_hash_map
Init ==
    /\ chain = [s \in Slots |-> <<>>]
    /\ held = NoEntry
    /\ name = Absent
    /\ answer = Absent
    /\ phase = "live"

\* strcmp along a chain: the places where the key is.
Places(c, k) == {i \in DOMAIN c : c[i].key = k}
Has(k) == Places(chain[Slot[k]], k) # {}
Place(c, k) == CHOOSE i \in Places(c, k) : \A j \in Places(c, k) : i <= j

-----------------------------------------------------------------------------
(* cabor_map_insert *)

\* Mutant: the value is stored in the head, not in the entry that matched.
ShadowInHead(k, v) ==
    LET s == Slot[k]
    IN  /\ Has(k)
        /\ chain' = [chain EXCEPT ![s][1].value = v]
        /\ held' = [slot |-> s, at |-> 1]

Shadow(k, v) ==
    LET s == Slot[k]
        i == Place(chain[s], k)
    IN  /\ Has(k)
        /\ chain' = [chain EXCEPT ![s][i].value = v]
        /\ held' = [slot |-> s, at |-> i]

\* Mutant: the new entry is linked behind the head, the rest is lost.
AddBehindHead(k, v) ==
    LET s == Slot[k]
        c == IF chain[s] = <<>> THEN <<>> ELSE <<chain[s][1]>>
    IN  /\ ~Has(k)
        /\ chain' = [chain EXCEPT ![s] = Append(c, [key |-> k, value |-> v])]
        /\ held' = [slot |-> s, at |-> Len(c) + 1]

\* Mutant: the chain is not searched for the key.
AddAlways(k, v) ==
    LET s == Slot[k]
    IN  /\ chain' = [chain EXCEPT ![s] = Append(@, [key |-> k, value |-> v])]
        /\ held' = [slot |-> s, at |-> Len(chain[s]) + 1]

\* The head of an empty slot, or a new entry behind the last one.
Add(k, v) ==
    LET s == Slot[k]
    IN  /\ ~Has(k)
        /\ chain' = [chain EXCEPT ![s] = Append(@, [key |-> k, value |-> v])]
        /\ held' = [slot |-> s, at |-> Len(chain[s]) + 1]

Insert(k, v) ==
    /\ phase = "live"
    /\ Shadow(k, v) \/ Add(k, v)
    /\ name' = k
    /\ answer' = v
    /\ UNCHANGED phase

(* cabor_map_get returns the value, cabor_map_get_entry the entry. *)

Found(k) ==
    LET s == Slot[k]
        i == Place(chain[s], k)
    IN  /\ phase = "live"
        /\ Has(k)
        /\ name' = k
        /\ answer' = chain[s][i].value
        /\ held' \in {held, [slot |-> s, at |-> i]}
        /\ UNCHANGED <<chain, phase>>

\* The key of the slot is NULL.
NotFound(k) ==
    /\ phase = "live"
    /\ chain[Slot[k]] = <<>>
    /\ name' = k
    /\ answer' = Absent
    /\ UNCHANGED <<chain, held, phase>>

\* Behind the last entry there is no entry to read a key of.
PastTheEnd(k) ==
    /\ phase = "live"
    /\ chain[Slot[k]] # <<>> /\ ~Has(k)
    /\ phase' = "crashed"
    /\ UNCHANGED <<chain, held, name, answer>>

\* The caller writes through the entry it was given.
WriteThrough(v) ==
    /\ phase = "live"
    /\ held.at # 0
    /\ chain' = [chain EXCEPT ![held.slot][held.at].value = v]
    /\ name' = chain[held.slot][held.at].key
    /\ answer' = v
    /\ UNCHANGED <<held, phase>>

Destroy ==
    /\ phase = "live"
    /\ chain' = [s \in Slots |-> <<>>]
    /\ held' = NoEntry
    /\ phase' = "destroyed"
    /\ UNCHANGED <<name, answer>>

Next ==
    \/ \E k \in Key, v \in Value : Insert(k, v)
    \/ \E k \in Key : Found(k)
    \/ \E k \in Key : NotFound(k)
    \/ \E k \in Key : PastTheEnd(k)
    \/ \E v \in Value : WriteThrough(v)
    \/ Destroy

Spec == Init /\ [][Next]_vars

-----------------------------------------------------------------------------
(* Properties. *)

(***************************************************************************)
(* A name is at most once in the table, in the slot of its hash: insertion *)
(* (hashmap.c:103-115) finds the entry it shadows anywhere in the chain.   *)
(***************************************************************************)
UniqueKeys ==
    \A s \in Slots : \A i, j \in DOMAIN chain[s] :
        /\ Slot[chain[s][i].key] = s
        /\ chain[s][i].key = chain[s][j].key => i = j

(***************************************************************************)
(* A pointer that cabor_map_insert or cabor_map_get_entry handed out stays *)
(* an entry of the same name while the map lives: no insertion moves,      *)
(* unlinks or renames an entry (cabor_generate_ir writes through two).     *)
(***************************************************************************)
EntriesStay ==
    [][phase' = "live" =>
        \A s \in Slots : \A i \in DOMAIN chain[s] :
            i \in DOMAIN chain'[s] /\ chain'[s][i].key = chain[s][i].key]_vars

(***************************************************************************)
(* Looking up a name that was never inserted is answered, not fatal: the   *)
(* type checker reports an undeclared identifier (type_checker.c:273-277). *)
(***************************************************************************)
LookupAnswers == phase # "crashed"

\* The partial function the chains stand for.
StoreOf ==
    [k \in Key |-> LET c == chain[Slot[k]]
                   IN  IF Has(k) THEN c[Place(c, k)].value ELSE Absent]

Map == INSTANCE AbstractMap WITH store <- StoreOf

(***************************************************************************)
(* The chained table is a map: through collisions, shadowing and writes    *)
(* through entries, a lookup returns what was stored last under that name. *)
(***************************************************************************)
IsMap == Map!Spec
=============================================================================

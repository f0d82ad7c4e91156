--------------------------- MODULE HashMapProofs ---------------------------
(***************************************************************************)
(* Proofs about CaborHashMap, for every set of names, every table size and *)
(* every hash: a name is stored once, and the table implements a map.      *)
(***************************************************************************)
EXTENDS CaborHashMap, TLAPS

\* An entry a caller holds is an entry of the table.
HeldInv == held.at # 0 => held.at \in DOMAIN chain[held.slot]

IInv == TypeOK /\ UniqueKeys /\ HeldInv

-----------------------------------------------------------------------------

\* A name that is in its slot is there at one place, which a walk finds.
LEMMA PlaceFound ==
    ASSUME IInv, NEW k \in Key, NEW i \in DOMAIN chain[Slot[k]],
           chain[Slot[k]][i].key = k
    PROVE  Has(k) /\ Place(chain[Slot[k]], k) = i
  <1>1. Slot[k] \in Slots
    BY SlotAssumption DEF Slots
  <1>2. chain[Slot[k]] \in Seq(Entry)
    BY <1>1 DEF IInv, TypeOK
  <1>3. Places(chain[Slot[k]], k) = {i}
    BY <1>1 DEF Places, IInv, UniqueKeys
  <1>4. i \in Nat
    BY <1>2
  <1> QED
    BY <1>3, <1>4 DEF Has, Place

\* The place of a name that is present.
LEMMA PlaceOfPresent ==
    ASSUME IInv, NEW k \in Key, Has(k)
    PROVE  /\ Place(chain[Slot[k]], k) \in DOMAIN chain[Slot[k]]
           /\ chain[Slot[k]][Place(chain[Slot[k]], k)].key = k
  <1>1. PICK i \in DOMAIN chain[Slot[k]] : chain[Slot[k]][i].key = k
    BY DEF Has, Places
  <1> QED
    BY <1>1, PlaceFound

\* The entries by name: what the abstract map holds under a name.
StoreFact ==
    \A k \in Key :
        /\ \A i \in DOMAIN chain[Slot[k]] :
              chain[Slot[k]][i].key = k => StoreOf[k] = chain[Slot[k]][i].value
        /\ (\A i \in DOMAIN chain[Slot[k]] : chain[Slot[k]][i].key # k)
              => StoreOf[k] = Absent

\* The abstract store at a name is the value of its only entry.
LEMMA StoreAt == IInv => StoreFact
  <1> SUFFICES ASSUME IInv, NEW k \in Key
               PROVE  /\ \A i \in DOMAIN chain[Slot[k]] :
                            chain[Slot[k]][i].key = k =>
                                StoreOf[k] = chain[Slot[k]][i].value
                      /\ (\A i \in DOMAIN chain[Slot[k]] : chain[Slot[k]][i].key # k)
                            => StoreOf[k] = Absent
    BY DEF StoreFact
  <1>1. ASSUME NEW i \in DOMAIN chain[Slot[k]], chain[Slot[k]][i].key = k
        PROVE  StoreOf[k] = chain[Slot[k]][i].value
    BY <1>1, PlaceFound DEF StoreOf
  <1>2. ASSUME \A i \in DOMAIN chain[Slot[k]] : chain[Slot[k]][i].key # k
        PROVE  StoreOf[k] = Absent
    BY <1>2 DEF StoreOf, Has, Places
  <1> QED
    BY <1>1, <1>2

-----------------------------------------------------------------------------

\* Writing the value of an entry: Shadow and WriteThrough.
Overwrites(s, i, v) == chain' = [chain EXCEPT ![s][i].value = v]

\* Writing a value into a chain leaves the keys and the lengths.
LEMMA OverwriteShape ==
    ASSUME TypeOK, NEW s \in Slots, NEW i \in DOMAIN chain[s], NEW v \in Value,
           Overwrites(s, i, v)
    PROVE  /\ chain' \in [Slots -> Seq(Entry)]
           /\ \A r \in Slots : /\ DOMAIN chain'[r] = DOMAIN chain[r]
                               /\ \A j \in DOMAIN chain[r] :
                                     /\ chain'[r][j].key = chain[r][j].key
                                     /\ (r # s \/ j # i) => chain'[r][j] = chain[r][j]
           /\ chain'[s][i].value = v
  <1> DEFINE c == chain[s]
             e == [c[i] EXCEPT !.value = v]
             d == [c EXCEPT ![i] = e]
  <1>1. c \in Seq(Entry) /\ c[i] \in Entry /\ i \in 1 .. Len(c)
    BY DEF TypeOK
  <1>2. e \in Entry /\ e.key = c[i].key /\ e.value = v
    BY <1>1 DEF Entry
  <1>3. /\ d \in Seq(Entry)
        /\ DOMAIN d = DOMAIN c
        /\ d[i] = e
        /\ \A j \in DOMAIN c : j # i => d[j] = c[j]
    BY <1>1, <1>2
  <1>4. chain' = [chain EXCEPT ![s] = d]
    BY DEF Overwrites
  <1>5. /\ chain'[s] = d
        /\ \A r \in Slots : r # s => chain'[r] = chain[r]
        /\ chain' \in [Slots -> Seq(Entry)]
    BY <1>3, <1>4 DEF TypeOK
  <1> HIDE DEF d, e
  <1> QED
    BY <1>2, <1>3, <1>5

\* Appending an entry of a name that is not there: Add.
End(k) == Len(chain[Slot[k]]) + 1

Added(k, v) ==
    /\ Slot[k] \in Slots /\ End(k) \in Nat
    /\ chain' \in [Slots -> Seq(Entry)]
    /\ \A r \in Slots : \A j \in DOMAIN chain[r] :
          j \in DOMAIN chain'[r] /\ chain'[r][j] = chain[r][j]
    /\ \A r \in Slots : \A j \in DOMAIN chain'[r] :
          j \in DOMAIN chain[r] \/ (r = Slot[k] /\ j = End(k))
    /\ End(k) \in DOMAIN chain'[Slot[k]]
    /\ chain'[Slot[k]][End(k)] = [key |-> k, value |-> v]
    /\ \A j \in DOMAIN chain[Slot[k]] : chain[Slot[k]][j].key # k

\* Adding an entry leaves all those before it.
LEMMA AddShape ==
    ASSUME TypeOK, NEW k \in Key, NEW v \in Value, Add(k, v)
    PROVE  Added(k, v)
  <1> DEFINE s == Slot[k]
             c == chain[s]
             e == [key |-> k, value |-> v]
             d == Append(c, e)
  <1>1. s \in Slots
    BY SlotAssumption DEF Slots
  <1>2. c \in Seq(Entry) /\ e \in Entry
    BY <1>1 DEF TypeOK, Entry
  <1>3. /\ d \in Seq(Entry)
        /\ End(k) \in Nat
        /\ \A j \in DOMAIN c : j \in DOMAIN d /\ d[j] = c[j]
        /\ \A j \in DOMAIN d : j \in DOMAIN c \/ j = End(k)
        /\ End(k) \in DOMAIN d /\ d[End(k)] = e
    BY <1>2 DEF End
  <1>4. \A j \in DOMAIN c : c[j].key # k
    BY DEF Add, Has, Places
  <1>5. chain' = [chain EXCEPT ![s] = d]
    BY DEF Add
  <1>6. /\ chain'[s] = d
        /\ \A r \in Slots : r # s => chain'[r] = chain[r]
        /\ chain' \in [Slots -> Seq(Entry)]
    BY <1>1, <1>3, <1>5 DEF TypeOK
  <1> HIDE DEF d
  <1> QED
    BY <1>1, <1>3, <1>4, <1>6 DEF Added

\* Shadowing and writing through an entry keep the invariant.
LEMMA OverwriteKeeps ==
    ASSUME IInv, NEW s \in Slots, NEW i \in DOMAIN chain[s], NEW v \in Value,
           Overwrites(s, i, v)
    PROVE  UniqueKeys' /\ (HeldInv' \/ held' # held)
  <1>1. TypeOK
    BY DEF IInv
  <1> QED
    BY <1>1, OverwriteShape DEF IInv, UniqueKeys, HeldInv, TypeOK

\* An insertion keeps the invariant, whichever of its two ways it goes.
LEMMA InsertKeeps ==
    ASSUME IInv, NEW k \in Key, NEW v \in Value, Insert(k, v)
    PROVE  IInv'
  <1>1. TypeOK /\ Slot[k] \in Slots
    BY SlotAssumption DEF IInv, Slots
  <1>2. CASE Shadow(k, v)
    <2> DEFINE s == Slot[k]
               i == Place(chain[s], k)
    <2>1. i \in DOMAIN chain[s] /\ Overwrites(s, i, v) /\ held' = [slot |-> s, at |-> i]
      BY <1>2, PlaceOfPresent DEF Shadow, Overwrites
    <2> HIDE DEF i
    <2>2. /\ chain' \in [Slots -> Seq(Entry)]
          /\ DOMAIN chain'[s] = DOMAIN chain[s]
          /\ UniqueKeys'
      BY <1>1, <2>1, OverwriteShape, OverwriteKeeps
    <2>3. i \in Nat
      BY <1>1, <2>1 DEF TypeOK
    <2> QED
      BY <1>1, <2>1, <2>2, <2>3 DEF IInv, TypeOK, HeldInv, Insert
  <1>3. CASE Add(k, v)
    <2>a. Added(k, v)
      BY <1>1, <1>3, AddShape
    <2>1. held' = [slot |-> Slot[k], at |-> End(k)]
      BY <1>3 DEF Add, End
    <2>2. UniqueKeys'
      <3> SUFFICES ASSUME NEW s \in Slots, NEW i \in DOMAIN chain'[s],
                          NEW j \in DOMAIN chain'[s]
                   PROVE  /\ Slot[chain'[s][i].key] = s
                          /\ chain'[s][i].key = chain'[s][j].key => i = j
        BY DEF UniqueKeys
      <3>1. /\ i \in DOMAIN chain[s] \/ (s = Slot[k] /\ i = End(k))
            /\ j \in DOMAIN chain[s] \/ (s = Slot[k] /\ j = End(k))
        BY <2>a DEF Added
      <3>2. /\ chain'[Slot[k]][End(k)].key = k
            /\ \A l \in DOMAIN chain[s] : chain'[s][l] = chain[s][l]
            /\ \A l \in DOMAIN chain[Slot[k]] : chain[Slot[k]][l].key # k
        BY <2>a DEF Added
      <3> QED
        BY <3>1, <3>2 DEF IInv, UniqueKeys
    <2>3. HeldInv' /\ held' \in [slot : Slots, at : Nat]
      BY <2>a, <2>1 DEF HeldInv, Added
    <2>4. chain' \in [Slots -> Seq(Entry)]
      BY <2>a DEF Added
    <2> QED
      BY <1>1, <2>2, <2>3, <2>4 DEF IInv, TypeOK, Insert
  <1> QED
    BY <1>2, <1>3 DEF Insert

\* The invariant is inductive.
LEMMA StepKeeps == IInv /\ [Next]_vars => IInv'
  <1> SUFFICES ASSUME IInv, [Next]_vars PROVE IInv'
    OBVIOUS
  <1>0. TypeOK
    BY DEF IInv
  <1>1. ASSUME NEW k \in Key, NEW v \in Value, Insert(k, v)
        PROVE  IInv'
    BY <1>1, InsertKeeps
  <1>2. ASSUME NEW k \in Key, Found(k)
        PROVE  IInv'
    <2> DEFINE s == Slot[k]
               i == Place(chain[s], k)
    <2>1. /\ s \in Slots /\ i \in DOMAIN chain[s]
          /\ answer' = chain[s][i].value /\ name' = k
          /\ held' \in {held, [slot |-> s, at |-> i]}
          /\ UNCHANGED <<chain, phase>>
      BY <1>2, PlaceOfPresent, SlotAssumption DEF Found, Slots
    <2> HIDE DEF i
    <2>2. chain[s][i] \in Entry /\ i \in Nat
      BY <1>0, <2>1 DEF TypeOK
    <2>3. UniqueKeys'
      BY <2>1 DEF IInv, UniqueKeys
    <2>5. answer' \in Value /\ held' \in [slot : Slots, at : Nat]
      BY <1>0, <2>1, <2>2 DEF TypeOK, Entry
    <2>6. TypeOK'
      BY <1>0, <2>1, <2>5 DEF TypeOK
    <2>4. HeldInv'
      BY <2>1 DEF IInv, HeldInv
    <2> QED
      BY <2>3, <2>4, <2>6 DEF IInv
  <1>3. ASSUME NEW k \in Key, NotFound(k) \/ PastTheEnd(k)
        PROVE  IInv'
    BY <1>3 DEF NotFound, PastTheEnd, IInv, TypeOK, UniqueKeys, HeldInv
  <1>4. ASSUME NEW v \in Value, WriteThrough(v)
        PROVE  IInv'
    <2>1. /\ held.slot \in Slots /\ held.at \in DOMAIN chain[held.slot]
          /\ Overwrites(held.slot, held.at, v)
          /\ name' = chain[held.slot][held.at].key /\ answer' = v
          /\ UNCHANGED <<held, phase>>
      BY <1>4 DEF WriteThrough, Overwrites, IInv, TypeOK, HeldInv
    <2>2. UniqueKeys' /\ HeldInv' /\ chain' \in [Slots -> Seq(Entry)]
      BY <1>0, <2>1, OverwriteShape, OverwriteKeeps
    <2>3. name' \in Key
      <3>1. chain[held.slot] \in Seq(Entry)
        BY <1>0, <2>1 DEF TypeOK
      <3>2. chain[held.slot][held.at] \in Entry
        BY <2>1, <3>1
      <3> QED
        BY <2>1, <3>2 DEF Entry
    <2> QED
      BY <2>1, <2>2, <2>3 DEF IInv, TypeOK
  <1>5. CASE Destroy
    <2>1. 0 \in Slots
      BY SlotAssumption DEF Slots
    <2> QED
      BY <1>5, <2>1 DEF Destroy, NoEntry, IInv, TypeOK, UniqueKeys, HeldInv
  <1>6. CASE UNCHANGED vars
    BY <1>6 DEF vars, IInv, TypeOK, UniqueKeys, HeldInv
  <1> QED
    BY <1>1, <1>2, <1>3, <1>4, <1>5, <1>6 DEF Next

\* An empty table satisfies the invariant.
LEMMA InitKeeps == Init => IInv
  <1>1. 0 \in Slots
    BY SlotAssumption DEF Slots
  <1> QED
    BY <1>1 DEF Init, NoEntry, IInv, TypeOK, UniqueKeys, HeldInv

(***************************************************************************)
(* A name is stored once (cabor_map_insert), for every hash and table.     *)
(***************************************************************************)
THEOREM Unique == Spec => []UniqueKeys
  <1>1. IInv => UniqueKeys
    BY DEF IInv
  <1> QED
    BY <1>1, InitKeeps, StepKeeps, PTL DEF Spec

(***************************************************************************)
(* Type correctness of the map; answer is a value or "not found".          *)
(***************************************************************************)
THEOREM Typing == Spec => []TypeOK
  <1>1. IInv => TypeOK
    BY DEF IInv
  <1> QED
    BY <1>1, InitKeeps, StepKeeps, PTL DEF Spec

(***************************************************************************)
(* Entries that were handed out stay where they are, under their name.     *)
(***************************************************************************)
THEOREM Stay == Spec => EntriesStay
  <1> DEFINE Stays == phase' = "live" =>
                 \A s \in Slots : \A i \in DOMAIN chain[s] :
                     i \in DOMAIN chain'[s] /\ chain'[s][i].key = chain[s][i].key
  <1>1. IInv /\ [Next]_vars => [Stays]_vars
    <2> SUFFICES ASSUME IInv, Next, phase' = "live",
                        NEW s \in Slots, NEW i \in DOMAIN chain[s]
                 PROVE  i \in DOMAIN chain'[s] /\ chain'[s][i].key = chain[s][i].key
      OBVIOUS
    <2>0. TypeOK
      BY DEF IInv
    <2>1. ASSUME NEW k \in Key, NEW v \in Value, Shadow(k, v)
          PROVE  i \in DOMAIN chain'[s] /\ chain'[s][i].key = chain[s][i].key
      <3> DEFINE p == Place(chain[Slot[k]], k)
      <3>1. Slot[k] \in Slots /\ p \in DOMAIN chain[Slot[k]] /\ Overwrites(Slot[k], p, v)
        BY <2>1, PlaceOfPresent, SlotAssumption DEF Shadow, Overwrites, Slots
      <3> HIDE DEF p
      <3> QED
        BY <2>0, <3>1, OverwriteShape
    <2>2. ASSUME NEW k \in Key, NEW v \in Value, Add(k, v)
          PROVE  i \in DOMAIN chain'[s] /\ chain'[s][i].key = chain[s][i].key
      BY <2>0, <2>2, AddShape DEF Added
    <2>3. ASSUME NEW k \in Key, Found(k) \/ NotFound(k) \/ PastTheEnd(k)
          PROVE  i \in DOMAIN chain'[s] /\ chain'[s][i].key = chain[s][i].key
      BY <2>3 DEF Found, NotFound, PastTheEnd
    <2>4. ASSUME NEW v \in Value, WriteThrough(v)
          PROVE  i \in DOMAIN chain'[s] /\ chain'[s][i].key = chain[s][i].key
      <3>1. /\ held.slot \in Slots /\ held.at \in DOMAIN chain[held.slot]
            /\ Overwrites(held.slot, held.at, v)
        BY <2>4 DEF WriteThrough, Overwrites, IInv, TypeOK, HeldInv
      <3> QED
        BY <2>0, <3>1, OverwriteShape
    <2> QED
      BY <2>1, <2>2, <2>3, <2>4 DEF Next, Insert, Destroy
  <1> QED
    BY <1>1, InitKeeps, StepKeeps, PTL DEF Spec, EntriesStay

-----------------------------------------------------------------------------

\* Overwriting an entry is a Put of its name.
LEMMA OverwriteIsPut ==
    ASSUME IInv, IInv', NEW s \in Slots, NEW i \in DOMAIN chain[s], NEW v \in Value,
           Overwrites(s, i, v)
    PROVE  /\ chain[s][i].key \in Key
           /\ StoreOf' = [StoreOf EXCEPT ![chain[s][i].key] = v]
  <1> DEFINE k == chain[s][i].key
  <1>s. StoreFact /\ StoreFact'
    BY StoreAt, PTL
  <1>0. TypeOK
    BY DEF IInv
  <1>1. k \in Key /\ Slot[k] = s
    <2>1. chain[s] \in Seq(Entry)
      BY <1>0 DEF TypeOK
    <2>2. chain[s][i] \in Entry
      BY <2>1
    <2> QED
      BY <2>2 DEF Entry, IInv, UniqueKeys
  <1>2. ASSUME NEW n \in Key
        PROVE  StoreOf'[n] = IF n = k THEN v ELSE StoreOf[n]
    <2>1. Slot[n] \in Slots
      BY SlotAssumption DEF Slots
    <2>2. CASE n = k
      <3>1. i \in DOMAIN chain'[Slot[n]] /\ chain'[Slot[n]][i].key = n
            /\ chain'[Slot[n]][i].value = v
        BY <1>0, <1>1, <2>2, OverwriteShape
      <3>2. StoreOf'[n] = v
        BY <3>1, <1>s DEF StoreFact
      <3> QED
        BY <2>2, <3>2
    <2>3. CASE n # k /\ Has(n)
      <3>1. PICK j \in DOMAIN chain[Slot[n]] : chain[Slot[n]][j].key = n
        BY <2>3 DEF Has, Places
      <3>2. j \in DOMAIN chain'[Slot[n]] /\ chain'[Slot[n]][j] = chain[Slot[n]][j]
        BY <1>0, <1>1, <2>1, <2>3, <3>1, OverwriteShape
      <3>3. StoreOf[n] = chain[Slot[n]][j].value
        BY <3>1, <1>s DEF StoreFact
      <3>4. StoreOf'[n] = chain'[Slot[n]][j].value
        BY <3>1, <3>2, <1>s DEF StoreFact
      <3> QED
        BY <2>3, <3>2, <3>3, <3>4
    <2>4. CASE n # k /\ ~Has(n)
      <3>1. \A j \in DOMAIN chain[Slot[n]] : chain[Slot[n]][j].key # n
        BY <2>4 DEF Has, Places
      <3>2. \A j \in DOMAIN chain'[Slot[n]] : chain'[Slot[n]][j].key # n
        BY <1>0, <2>1, <3>1, OverwriteShape
      <3>3. StoreOf[n] = Absent
        BY <3>1, <1>s DEF StoreFact
      <3>4. StoreOf'[n] = Absent
        BY <3>2, <1>s DEF StoreFact
      <3> QED
        BY <2>4, <3>3, <3>4
    <2> QED
      BY <2>2, <2>3, <2>4
  <1>3. /\ StoreOf' = [n \in Key |-> StoreOf'[n]]
        /\ StoreOf = [n \in Key |-> StoreOf[n]]
    BY DEF StoreOf
  <1> QED
    BY <1>1, <1>2, <1>3

\* Adding an entry is a Put of its name.
LEMMA AddIsPut ==
    ASSUME IInv, IInv', NEW k \in Key, NEW v \in Value, Add(k, v)
    PROVE  StoreOf' = [StoreOf EXCEPT ![k] = v]
  <1>s. StoreFact /\ StoreFact'
    BY StoreAt, PTL
  <1>0. TypeOK
    BY DEF IInv
  <1>a. Added(k, v)
    BY <1>0, AddShape
  <1>1. ASSUME NEW n \in Key
        PROVE  StoreOf'[n] = IF n = k THEN v ELSE StoreOf[n]
    <2>1. Slot[n] \in Slots
      BY SlotAssumption DEF Slots
    <2>2. CASE n = k
      <3>1. /\ End(k) \in DOMAIN chain'[Slot[k]]
            /\ chain'[Slot[k]][End(k)] = [key |-> k, value |-> v]
        BY <1>a DEF Added
      <3>2. StoreOf'[k] = chain'[Slot[k]][End(k)].value
        BY <3>1, <1>s DEF StoreFact
      <3> QED
        BY <2>2, <3>1, <3>2
    <2>3. CASE n # k /\ Has(n)
      <3>1. PICK j \in DOMAIN chain[Slot[n]] : chain[Slot[n]][j].key = n
        BY <2>3 DEF Has, Places
      <3>2. j \in DOMAIN chain'[Slot[n]] /\ chain'[Slot[n]][j] = chain[Slot[n]][j]
        BY <1>a, <2>1, <3>1 DEF Added
      <3>3. StoreOf[n] = chain[Slot[n]][j].value
        BY <3>1, <1>s DEF StoreFact
      <3>4. StoreOf'[n] = chain'[Slot[n]][j].value
        BY <3>1, <3>2, <1>s DEF StoreFact
      <3> QED
        BY <2>3, <3>2, <3>3, <3>4
    <2>4. CASE n # k /\ ~Has(n)
      <3>1. \A j \in DOMAIN chain[Slot[n]] : chain[Slot[n]][j].key # n
        BY <2>4 DEF Has, Places
      <3>2. \A j \in DOMAIN chain'[Slot[n]] : chain'[Slot[n]][j].key # n
        <4> SUFFICES ASSUME NEW j \in DOMAIN chain'[Slot[n]]
                     PROVE  chain'[Slot[n]][j].key # n
          OBVIOUS
        <4>1. CASE j \in DOMAIN chain[Slot[n]]
          BY <1>a, <2>1, <3>1, <4>1 DEF Added
        <4>2. CASE Slot[n] = Slot[k] /\ j = End(k)
          BY <1>a, <2>4, <4>2 DEF Added
        <4> QED
          BY <1>a, <2>1, <4>1, <4>2 DEF Added
      <3>3. StoreOf[n] = Absent
        BY <3>1, <1>s DEF StoreFact
      <3>4. StoreOf'[n] = Absent
        BY <3>2, <1>s DEF StoreFact
      <3> QED
        BY <2>4, <3>3, <3>4
    <2> QED
      BY <2>2, <2>3, <2>4
  <1>2. /\ StoreOf' = [n \in Key |-> StoreOf'[n]]
        /\ StoreOf = [n \in Key |-> StoreOf[n]]
    BY DEF StoreOf
  <1> QED
    BY <1>1, <1>2

\* Every step of the table is a step of the map or a stutter.
LEMMA StepIsMapStep ==
    ASSUME IInv, IInv', [Next]_vars
    PROVE  [Map!Next]_<<StoreOf, name, answer>>
  <1>0. TypeOK
    BY DEF IInv
  <1>1. ASSUME NEW k \in Key, NEW v \in Value, Insert(k, v)
        PROVE  Map!Put(k, v)
    <2>1. CASE Shadow(k, v)
      <3> DEFINE i == Place(chain[Slot[k]], k)
      <3>1. /\ Slot[k] \in Slots /\ i \in DOMAIN chain[Slot[k]]
            /\ chain[Slot[k]][i].key = k
            /\ Overwrites(Slot[k], i, v)
        BY <2>1, PlaceOfPresent, SlotAssumption DEF Shadow, Overwrites, Slots
      <3> HIDE DEF i
      <3> QED
        BY <1>1, <3>1, OverwriteIsPut DEF Insert, Map!Put
    <2>2. CASE Add(k, v)
      BY <1>1, <2>2, AddIsPut DEF Insert, Map!Put
    <2> QED
      BY <1>1, <2>1, <2>2 DEF Insert
  <1>2. ASSUME NEW k \in Key, Found(k) \/ NotFound(k)
        PROVE  Map!Look(k)
    <2>1. UNCHANGED StoreOf
      BY <1>2 DEF Found, NotFound, StoreOf, Has
    <2>2. CASE Found(k)
      <3>1. answer' = StoreOf[k]
        BY <2>2 DEF Found, StoreOf
      <3> QED
        BY <2>1, <2>2, <3>1 DEF Found, Map!Look
    <2>3. CASE NotFound(k)
      <3>1. answer' = StoreOf[k]
        BY <2>3 DEF NotFound, StoreOf, Has, Places
      <3> QED
        BY <2>1, <2>3, <3>1 DEF NotFound, Map!Look
    <2> QED
      BY <1>2, <2>2, <2>3
  <1>3. ASSUME NEW k \in Key, PastTheEnd(k)
        PROVE  UNCHANGED <<StoreOf, name, answer>>
    BY <1>3 DEF PastTheEnd, StoreOf, Has
  <1>4. ASSUME NEW v \in Value, WriteThrough(v)
        PROVE  \E k \in Key : Map!Put(k, v)
    <2>1. /\ held.slot \in Slots /\ held.at \in DOMAIN chain[held.slot]
          /\ Overwrites(held.slot, held.at, v)
      BY <1>4 DEF WriteThrough, Overwrites, IInv, TypeOK, HeldInv
    <2>2. /\ chain[held.slot][held.at].key \in Key
          /\ StoreOf' = [StoreOf EXCEPT ![chain[held.slot][held.at].key] = v]
      BY <2>1, OverwriteIsPut
    <2>3. Map!Put(chain[held.slot][held.at].key, v)
      BY <1>4, <2>2 DEF WriteThrough, Map!Put
    <2> QED
      BY <2>2, <2>3
  <1>5. CASE Destroy
    <2>1. chain' = [s \in Slots |-> <<>>]
      BY <1>5 DEF Destroy
    <2>2. \A k \in Key : Slot[k] \in Slots
      BY SlotAssumption DEF Slots
    <2>3. StoreOf' = [k \in Key |-> Absent]
      BY <2>1, <2>2 DEF StoreOf, Has, Places
    <2> QED
      BY <1>5, <2>3 DEF Destroy, Map!Clear, Map!Next
  <1>6. CASE UNCHANGED vars
    BY <1>6 DEF vars, StoreOf, Has
  <1> QED
    BY <1>1, <1>2, <1>3, <1>4, <1>5, <1>6 DEF Next, Map!Next

(***************************************************************************)
(* The chained hash table implements a map: a lookup returns the value     *)
(* stored last under its name, whatever collides.                          *)
(***************************************************************************)
THEOREM Refinement == Spec => IsMap
  <1>1. Init => Map!Init
    <2> SUFFICES ASSUME Init PROVE Map!Init
      OBVIOUS
    <2>1. \A k \in Key : Slot[k] \in Slots
      BY SlotAssumption DEF Slots
    <2>2. StoreOf = [k \in Key |-> Absent]
      BY <2>1 DEF Init, StoreOf, Has, Places
    <2> QED
      BY <2>2 DEF Init, Map!Init
  <1>2. IInv /\ IInv' /\ [Next]_vars => [Map!Next]_<<StoreOf, name, answer>>
    BY StepIsMapStep
  <1> QED
    BY <1>1, <1>2, InitKeeps, StepKeeps, PTL DEF Spec, IsMap, Map!Spec
=============================================================================

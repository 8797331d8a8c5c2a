--------------------------- MODULE KVStoreProofs ---------------------------
(***************************************************************************)
(* What is proved about KVStore for every set of keys and values, every    *)
(* hash, all lengths and every size of block, buffer, table and device.    *)
(* The first part is about the table alone, for every size of it, every    *)
(* key and every amount by which it grows: a probe finds every entry, a    *)
(* new entry and a larger table change no other answer, and there is       *)
(* always a free slot for the next key.                                    *)
(***************************************************************************)
EXTENDS KVStore, WriteBufferProofs, FiniteSetTheorems

(* The table *)

(* The keys that the store uses: 0 marks a free slot. *)
HashKey == Nat \ {0}

Used(table) == {j \in Slots(table) : table.maps[j].key # 0}

Table(table) ==
  /\ table = [capacity |-> table.capacity, size |-> table.size,
              maps |-> table.maps]
  /\ table.capacity \in Nat
  /\ table.maps \in [Slots(table) -> [key : Nat, off : Nat]]
  /\ \A j \in Slots(table) : table.maps[j].key = 0 => table.maps[j].off = 0

(* A probe for the key of an entry ends at the entry, and the size is the  *)
(* number of entries.                                                      *)
Sound(table) ==
  /\ Table(table)
  /\ \A j \in Used(table) : Probe(table, table.maps[j].key) = j
  /\ table.size = Cardinality(Used(table))

-----------------------------------------------------------------------------
(* Numbers. *)

LEMMA Smallest ==
  ASSUME NEW S, S \subseteq Nat, S # {}
  PROVE  \E x \in S : \A y \in S : x <= y
<1>. DEFINE R == {ss \in Nat \X Nat : ss[1] < ss[2]}
<1>1. IsWellFoundedOn(R, Nat) BY NatLessThanWellFounded DEF OpToRel
<1>. HIDE DEF R
<1>2. \E x \in S : \A y \in S : <<y, x>> \notin R BY <1>1, WFMin
<1>3. \A x, y \in Nat : <<y, x>> \notin R => x <= y BY SMT DEF R
<1>. QED BY <1>2, <1>3

(* The slots that a probe looks at are all the slots. *)
LEMMA EverySlot ==
  ASSUME NEW c \in Nat, NEW key \in Nat, NEW j \in 0 .. c - 1
  PROVE  \E i \in 0 .. c - 1 : (key + i) % c = j
<1>. DEFINE r == key % c
            q == key \div c
            i == IF j >= r THEN j - r ELSE j - r + c
<1>1. c > 0 /\ c \in Int BY SMT
<1>2. r \in 0 .. c - 1 /\ q \in Int /\ key = c * q + r BY <1>1, SMT
<1>3. i \in 0 .. c - 1 BY <1>1, <1>2, SMT
<1>. DEFINE p == IF j >= r THEN q ELSE q + 1
<1>4. key + i = c * p + j
  <2>1. CASE j >= r BY <1>1, <1>2, <2>1, SMT
  <2>2. CASE ~(j >= r)
    <3>1. c * (q + 1) = c * q + c BY <1>1, <1>2, SMT
    <3>2. key + i = c * q + r + (j - r + c) BY <1>2, <2>2
    <3>. QED BY <1>1, <1>2, <2>2, <3>1, <3>2, SMT
  <2>. QED BY <2>1, <2>2
<1>5. p \in Int BY <1>2, SMT
<1>. HIDE DEF p
<1>6. (c * p + j) % c = j BY <1>1, <1>5, SMT
<1>. QED BY <1>3, <1>4, <1>6

LEMMA SlotOfStep ==
  ASSUME NEW c \in Nat, NEW key \in Nat, NEW i \in 0 .. c - 1
  PROVE  (key + i) % c \in 0 .. c - 1
<1>1. c > 0 /\ key + i \in Nat BY SMT
<1>. QED BY <1>1, SMT

-----------------------------------------------------------------------------
(* Probing. *)

LEMMA StopsAre ==
  ASSUME NEW table, table.capacity \in Nat, NEW key \in Nat
  PROVE  /\ Stops(table, key) \subseteq Nat
         /\ \A i \in Stops(table, key) :
              /\ (key + i) % table.capacity \in Slots(table)
              /\ table.maps[(key + i) % table.capacity].key \in {0, key}
<1>1. Stops(table, key) \subseteq 0 .. table.capacity - 1 BY DEF Stops, Slots
<1>2. \A i \in 0 .. table.capacity - 1 :
        (key + i) % table.capacity \in 0 .. table.capacity - 1
  BY SlotOfStep
<1>. QED BY <1>1, <1>2 DEF Stops, Slots

LEMMA ProbeStops ==
  ASSUME NEW table, table.capacity \in Nat, NEW key \in Nat,
         Stops(table, key) # {}
  PROVE  /\ Probe(table, key) \in Slots(table)
         /\ table.maps[Probe(table, key)].key \in {0, key}
         /\ \E i \in Stops(table, key) :
              /\ \A k \in Stops(table, key) : i <= k
              /\ Probe(table, key) = (key + i) % table.capacity
<1>. DEFINE S == Stops(table, key)
            least == CHOOSE i \in S : \A k \in S : i <= k
<1>1. S \subseteq Nat BY StopsAre
<1>2. \E i \in S : \A k \in S : i <= k BY <1>1, Smallest
<1>3. least \in S /\ \A k \in S : least <= k BY <1>2
<1>4. Probe(table, key) = (key + least) % table.capacity BY DEF Probe
<1>. QED BY <1>3, <1>4, StopsAre

LEMMA ProbeIs ==
  ASSUME NEW table, table.capacity \in Nat, NEW key \in Nat,
         NEW i \in Stops(table, key), \A k \in Stops(table, key) : i <= k
  PROVE  Probe(table, key) = (key + i) % table.capacity
<1>. DEFINE S == Stops(table, key)
<1>1. S \subseteq Nat BY StopsAre
<1>2. \A m \in S : (\A k \in S : m <= k) => m = i BY <1>1, SMT
<1>3. (CHOOSE m \in S : \A k \in S : m <= k) = i BY <1>2
<1>. QED BY <1>3 DEF Probe

(* A slot of the key, or a free one, stops a probe somewhere. *)
LEMMA SlotStops ==
  ASSUME NEW table, table.capacity \in Nat, NEW key \in Nat,
         NEW j \in Slots(table), table.maps[j].key \in {0, key}
  PROVE  Stops(table, key) # {}
<1>1. PICK i \in 0 .. table.capacity - 1 : (key + i) % table.capacity = j
  BY EverySlot DEF Slots
<1>. QED BY <1>1 DEF Stops, Slots

LEMMA UsedFinite ==
  ASSUME NEW table, table.capacity \in Nat
  PROVE  /\ IsFiniteSet(Used(table)) /\ Cardinality(Used(table)) \in Nat
         /\ IsFiniteSet(Slots(table))
         /\ Cardinality(Slots(table)) = table.capacity
<1>1. IsFiniteSet(Slots(table)) /\ Cardinality(Slots(table)) = table.capacity
  <2>. DEFINE n == table.capacity - 1
  <2>1. n \in Int /\ 0 \in Int OBVIOUS
  <2>2. (IF 0 > n THEN 0 ELSE n - 0 + 1) = table.capacity OBVIOUS
  <2>3. Slots(table) = 0 .. n BY DEF Slots
  <2>. HIDE DEF n
  <2>4. /\ IsFiniteSet(0 .. n)
        /\ Cardinality(0 .. n) = IF 0 > n THEN 0 ELSE n - 0 + 1
    BY <2>1, FS_Interval, Zenon
  <2>. QED BY <2>2, <2>3, <2>4, Zenon
<1>2. Used(table) \subseteq Slots(table) BY DEF Used
<1>. QED BY <1>1, <1>2, FS_Subset, FS_CardinalityType

(* A table that is not full has a slot for every key. *)
LEMMA RoomToStop ==
  ASSUME NEW table, Sound(table), table.size < table.capacity, NEW key \in Nat
  PROVE  Stops(table, key) # {}
<1>1. table.capacity \in Nat BY DEF Sound, Table
<1>2. Used(table) # Slots(table)
  BY <1>1, UsedFinite DEF Sound
<1>3. PICK j \in Slots(table) : table.maps[j].key = 0 BY <1>2 DEF Used
<1>. QED BY <1>1, <1>3, SlotStops

(* The answer to a lookup: the offset of the entry, or 0 without one. *)
LEMMA LookupIs ==
  ASSUME NEW table, Sound(table), NEW key \in HashKey
  PROVE  /\ \A j \in Slots(table) :
              table.maps[j].key = key =>
                index_lookup(table, key) = table.maps[j].off
         /\ (\A j \in Slots(table) : table.maps[j].key # key) =>
              index_lookup(table, key) = 0
         /\ index_lookup(table, key) \in Nat
<1>1. table.capacity \in Nat /\ key \in Nat /\ key # 0
  BY DEF Sound, Table, HashKey
<1>2. ASSUME NEW j \in Slots(table), table.maps[j].key = key
      PROVE  index_lookup(table, key) = table.maps[j].off
  <2>1. Stops(table, key) # {} BY <1>1, <1>2, SlotStops
  <2>2. Probe(table, key) = j BY <1>1, <1>2 DEF Sound, Used
  <2>. QED BY <2>1, <2>2 DEF index_lookup
<1>3. ASSUME \A j \in Slots(table) : table.maps[j].key # key
      PROVE  index_lookup(table, key) = 0
  <2>1. CASE Stops(table, key) = {} BY <2>1 DEF index_lookup
  <2>2. CASE Stops(table, key) # {}
    <3>1. /\ Probe(table, key) \in Slots(table)
          /\ table.maps[Probe(table, key)].key = 0
      BY <1>1, <1>3, <2>2, ProbeStops
    <3>. QED BY <2>2, <3>1 DEF index_lookup, Sound, Table
  <2>. QED BY <2>1, <2>2
<1>4. index_lookup(table, key) \in Nat
  BY <1>2, <1>3 DEF Sound, Table
<1>. QED BY <1>2, <1>3, <1>4

-----------------------------------------------------------------------------
(* Changing the table. *)

LEMMA CreateIsSound ==
  ASSUME NEW c \in Nat
  PROVE  /\ Sound(create(c)) /\ create(c).capacity = c /\ create(c).size = 0
         /\ \A j \in 0 .. c - 1 : create(c).maps[j] = [key |-> 0, off |-> 0]
<1>. DEFINE new == create(c)
<1>1. /\ new = [capacity |-> new.capacity, size |-> new.size,
                maps |-> new.maps]
      /\ new.capacity = c /\ new.size = 0
      /\ new.maps = [j \in 0 .. c - 1 |-> [key |-> 0, off |-> 0]]
  BY DEF create
<1>. HIDE DEF new
<1>2. Table(new) BY <1>1 DEF Table, Slots
<1>3. Used(new) = {} BY <1>1 DEF Used, Slots
<1>. QED BY <1>1, <1>2, <1>3, FS_EmptySet DEF Sound, new

(* update(): the entry it finds or makes, and nothing else changes. *)
LEMMA UpdateIs ==
  ASSUME NEW table, Sound(table), NEW key \in HashKey,
         Stops(table, key) # {}
  PROVE  LET j == Probe(table, key)
             new == update(table, key)
         IN  /\ Table(new) /\ new.capacity = table.capacity
             /\ j \in Slots(table)
             /\ new.maps[j].key = key
             /\ new.maps[j].off = index_lookup(table, key)
             /\ \A k \in Slots(table) \ {j} : new.maps[k] = table.maps[k]
             /\ \/ new = table /\ table.maps[j].key = key
                \/ new.size = table.size + 1 /\ table.maps[j].key = 0
<1>. DEFINE j == Probe(table, key)
            new == update(table, key)
            e == [key |-> key, off |-> 0]
<1>1. table.capacity \in Nat /\ key \in Nat /\ key # 0
  BY DEF Sound, Table, HashKey
<1>2. j \in Slots(table) /\ table.maps[j].key \in {0, key}
  BY <1>1, ProbeStops
<1>3. CASE table.maps[j].key = key
  <2>1. new = table BY <1>3 DEF update
  <2>2. index_lookup(table, key) = table.maps[j].off
    BY <1>2, <1>3, LookupIs
  <2>. QED BY <1>2, <1>3, <2>1, <2>2 DEF Sound
<1>4. CASE table.maps[j].key = 0
  <2>1. new = [table EXCEPT !.maps[j] = e, !.size = @ + 1]
    BY <1>1, <1>4 DEF update
  <2>2. /\ new = [capacity |-> new.capacity, size |-> new.size,
                  maps |-> new.maps]
        /\ new.capacity = table.capacity /\ new.size = table.size + 1
        /\ new.maps = [table.maps EXCEPT ![j] = e]
    BY <2>1 DEF Sound, Table
  <2>3. index_lookup(table, key) = 0
    BY <1>2, <1>4 DEF index_lookup, Sound, Table
  <2>. HIDE DEF new, j
  <2>4. /\ new.maps[j] = e
        /\ \A k \in Slots(table) \ {j} : new.maps[k] = table.maps[k]
        /\ new.maps \in [Slots(table) -> [key : Nat, off : Nat]]
    BY <1>1, <1>2, <2>2 DEF Sound, Table
  <2>5. Table(new)
    BY <1>1, <1>2, <2>2, <2>4 DEF Sound, Table, Slots
  <2>. QED BY <1>2, <1>4, <2>2, <2>3, <2>4, <2>5 DEF new, j
<1>. QED BY <1>2, <1>3, <1>4

LEMMA UpdateIsSound ==
  ASSUME NEW table, Sound(table), NEW key \in HashKey,
         Stops(table, key) # {}
  PROVE  LET new == update(table, key)
         IN  /\ Sound(new) /\ new.capacity = table.capacity
             /\ new.size \in {table.size, table.size + 1}
             /\ \A k \in HashKey :
                  index_lookup(new, k) = index_lookup(table, k)
<1>. DEFINE j == Probe(table, key)
            new == update(table, key)
            c == table.capacity
<1>1. c \in Nat /\ key \in Nat /\ key # 0
  BY DEF Sound, Table, HashKey
<1>2. /\ Table(new) /\ new.capacity = c
      /\ j \in Slots(table) /\ j \in Slots(new) /\ Slots(new) = Slots(table)
      /\ new.maps[j].key = key
      /\ new.maps[j].off = index_lookup(table, key)
      /\ \A k \in Slots(table) \ {j} : new.maps[k] = table.maps[k]
      /\ \/ new = table /\ table.maps[j].key = key
         \/ new.size = table.size + 1 /\ table.maps[j].key = 0
  BY UpdateIs DEF Slots
<1>3. CASE new = table
  BY <1>3
<1>4. CASE new.size = table.size + 1 /\ table.maps[j].key = 0
  <2>. HIDE DEF new
  <2>1. PICK i \in Stops(table, key) :
          (\A k \in Stops(table, key) : i <= k) /\ j = (key + i) % c
    BY <1>1, ProbeStops
  <2>. HIDE DEF j
  <2>2. Used(new) = Used(table) \cup {j} /\ j \notin Used(table)
    BY <1>1, <1>2, <1>4 DEF Used
  <2>3. new.size = Cardinality(Used(new))
    <3>1. IsFiniteSet(Used(table)) BY <1>1, UsedFinite
    <3>2. Cardinality(Used(table) \cup {j}) = Cardinality(Used(table)) + 1
      BY <2>2, <3>1, FS_AddElement
    <3>3. table.size = Cardinality(Used(table)) BY DEF Sound
    <3>. QED BY <1>4, <2>2, <3>2, <3>3
  <2>4. Probe(new, key) = j
    <3>1. Stops(new, key) = Stops(table, key)
      <4>1. \A k \in Slots(table) :
              new.maps[k].key \in {0, key} <=> table.maps[k].key \in {0, key}
        BY <1>2, <1>4
      <4>2. \A k \in Slots(table) : (key + k) % c \in Slots(table)
        BY <1>1, SlotOfStep DEF Slots
      <4>. QED BY <1>2, <4>1, <4>2 DEF Stops
    <3>. QED BY <1>1, <1>2, <2>1, <3>1, ProbeIs
  <2>5. ASSUME NEW k \in Used(table)
        PROVE  Probe(new, new.maps[k].key) = k
    <3>. DEFINE key2 == table.maps[k].key
    <3>1. /\ k \in Slots(table) /\ key2 \in Nat /\ key2 # 0 /\ k # j
          /\ new.maps[k] = table.maps[k] /\ Probe(table, key2) = k
      BY <1>2, <1>4 DEF Used, Sound, Table
    <3>2. Stops(table, key2) # {} BY <1>1, <3>1, SlotStops
    <3>3. PICK m \in Stops(table, key2) :
            (\A n \in Stops(table, key2) : m <= n) /\ k = (key2 + m) % c
      BY <1>1, <3>1, <3>2, ProbeStops
    <3>. HIDE DEF key2
    <3>4. Stops(new, key2) \subseteq Stops(table, key2)
      <4>1. ASSUME NEW n \in Slots(table), new.maps[n].key \in {0, key2}
            PROVE  table.maps[n].key \in {0, key2}
        BY <1>2, <1>4, <4>1
      <4>2. \A n \in Slots(table) : (key2 + n) % c \in Slots(table)
        BY <1>1, <3>1, SlotOfStep DEF Slots
      <4>. QED BY <1>2, <4>1, <4>2 DEF Stops
    <3>5. m \in Stops(new, key2)
      <4>1. new.maps[k].key = key2 BY <3>1 DEF key2
      <4>2. m \in Slots(table) BY DEF Stops
      <4>. QED BY <1>2, <3>3, <4>1, <4>2 DEF Stops
    <3>6. Probe(new, key2) = k BY <1>1, <1>2, <3>1, <3>3, <3>4, <3>5, ProbeIs
    <3>. QED BY <3>1, <3>6 DEF key2
  <2>6. Sound(new)
    BY <1>2, <2>2, <2>3, <2>4, <2>5 DEF Sound
  <2>7. table.size \in Nat BY <1>1, UsedFinite DEF Sound
  <2>8. ASSUME NEW k \in HashKey
        PROVE  index_lookup(new, k) = index_lookup(table, k)
    <3>1. CASE k = key BY <1>2, <2>6, <3>1, LookupIs
    <3>2. CASE k # key
      <4>1. \A n \in Slots(table) :
              table.maps[n].key = k <=> new.maps[n].key = k
        BY <1>2, <1>4, <3>2 DEF HashKey
      <4>2. CASE \E n \in Slots(table) : table.maps[n].key = k
        <5>1. PICK n \in Slots(table) : table.maps[n].key = k BY <4>2
        <5>2. n # j /\ new.maps[n] = table.maps[n]
          BY <1>2, <1>4, <5>1 DEF HashKey
        <5>. QED BY <1>2, <2>6, <5>1, <5>2, LookupIs
      <4>3. CASE \A n \in Slots(table) : table.maps[n].key # k
        BY <1>2, <2>6, <4>1, <4>3, LookupIs
      <4>. QED BY <4>2, <4>3
    <3>. QED BY <3>1, <3>2
  <2>. QED BY <1>2, <1>4, <2>6, <2>8 DEF new
<1>. QED BY <1>2, <1>3, <1>4

(* The offset is written into the entry of its key. *)
LEMMA SetOffIs ==
  ASSUME NEW table, Sound(table), NEW key \in HashKey, NEW off \in Nat,
         NEW j \in Slots(table), table.maps[j].key = key
  PROVE  LET new == SetOff(table, key, off)
         IN  /\ Sound(new) /\ new.capacity = table.capacity
             /\ new.size = table.size
             /\ \A k \in HashKey :
                  index_lookup(new, k) =
                    IF k = key THEN off ELSE index_lookup(table, k)
             /\ \A n \in Slots(table) : new.maps[n].key = table.maps[n].key
<1>. DEFINE new == SetOff(table, key, off)
            c == table.capacity
<1>1. /\ c \in Nat /\ key \in Nat /\ key # 0 /\ Probe(table, key) = j
      /\ table.maps[j] \in [key : Nat, off : Nat]
  BY DEF Sound, Table, HashKey, Used
<1>2. new = [table EXCEPT !.maps[j].off = off] BY <1>1 DEF SetOff
<1>3. /\ new = [capacity |-> new.capacity, size |-> new.size,
                maps |-> new.maps]
      /\ new.capacity = c /\ new.size = table.size
      /\ new.maps = [table.maps EXCEPT ![j].off = off]
  BY <1>2 DEF Sound, Table
<1>. HIDE DEF new
<1>4. /\ new.maps[j] = [key |-> key, off |-> off]
      /\ \A k \in Slots(table) \ {j} : new.maps[k] = table.maps[k]
      /\ new.maps \in [Slots(table) -> [key : Nat, off : Nat]]
      /\ Slots(new) = Slots(table)
  BY <1>1, <1>3 DEF Sound, Table, Slots
<1>5. \A k \in Slots(table) : new.maps[k].key = table.maps[k].key
  BY <1>4
<1>6. Table(new) BY <1>1, <1>3, <1>4 DEF Sound, Table
<1>7. Used(new) = Used(table) BY <1>4, <1>5 DEF Used
<1>8. \A k \in Nat : Stops(new, k) = Stops(table, k)
  <2>1. \A k \in Nat : \A i \in Slots(table) : (k + i) % c \in Slots(table)
    BY <1>1, SlotOfStep DEF Slots
  <2>. QED BY <1>3, <1>4, <1>5, <2>1 DEF Stops
<1>9. \A k \in Nat : Probe(new, k) = Probe(table, k)
  BY <1>3, <1>8 DEF Probe
<1>10. Sound(new)
  <2>1. \A k \in Used(table) : Probe(new, new.maps[k].key) = k
    BY <1>5, <1>9 DEF Used, Sound, Table
  <2>. QED BY <1>3, <1>6, <1>7, <2>1 DEF Sound
<1>11. ASSUME NEW k \in HashKey
       PROVE  index_lookup(new, k) =
                IF k = key THEN off ELSE index_lookup(table, k)
  <2>1. CASE k = key BY <1>4, <1>10, <2>1, LookupIs
  <2>2. CASE k # key
    <3>1. CASE \E n \in Slots(table) : table.maps[n].key = k
      <4>1. PICK n \in Slots(table) : table.maps[n].key = k BY <3>1
      <4>2. n # j BY <2>2, <4>1
      <4>. QED BY <1>4, <1>10, <2>2, <4>1, <4>2, LookupIs
    <3>2. CASE \A n \in Slots(table) : table.maps[n].key # k
      BY <1>4, <1>5, <1>10, <2>2, <3>2, LookupIs
    <3>. QED BY <3>1, <3>2
  <2>. QED BY <2>1, <2>2
<1>. QED BY <1>3, <1>5, <1>10, <1>11 DEF new

(* An entry is made where there was none, and its offset written. *)
LEMMA UpdateThenSet ==
  ASSUME NEW table, Sound(table), NEW key \in HashKey, NEW off \in Nat,
         Stops(table, key) # {}
  PROVE  LET new == SetOff(update(table, key), key, off)
         IN  /\ Sound(new) /\ new.capacity = table.capacity
             /\ new.size \in {table.size, table.size + 1}
             /\ \A k \in HashKey :
                  index_lookup(new, k) =
                    IF k = key THEN off ELSE index_lookup(table, k)
<1>. DEFINE mid == update(table, key)
            j == Probe(table, key)
            new == SetOff(mid, key, off)
<1>1. /\ Sound(mid) /\ mid.capacity = table.capacity
      /\ mid.size \in {table.size, table.size + 1}
      /\ \A k \in HashKey : index_lookup(mid, k) = index_lookup(table, k)
  BY UpdateIsSound
<1>2. j \in Slots(table) /\ mid.maps[j].key = key BY UpdateIs
<1>3. j \in Slots(mid) BY <1>1, <1>2 DEF Slots
<1>. HIDE DEF mid, j
<1>4. /\ Sound(new) /\ new.capacity = mid.capacity /\ new.size = mid.size
      /\ \A k \in HashKey :
           index_lookup(new, k) = IF k = key THEN off ELSE index_lookup(mid, k)
  BY <1>1, <1>2, <1>3, SetOffIs
<1>. HIDE DEF new
<1>5. /\ Sound(new) /\ new.capacity = table.capacity
      /\ new.size \in {table.size, table.size + 1}
      /\ \A k \in HashKey :
           index_lookup(new, k) = IF k = key THEN off ELSE index_lookup(table, k)
  BY <1>1, <1>4
<1>. QED BY <1>5 DEF new, mid

-----------------------------------------------------------------------------
(* Growing. *)

(* One entry moves into the larger table. *)
Move(table, larger, n) ==
  LET entry == table.maps[n - 1]
  IN  IF entry.key = 0 THEN larger
      ELSE SetOff(update(larger, entry.key), entry.key, entry.off)

(* f holds the larger table after each of the first m moves. *)
Moved(table, f, m) ==
  f = [n \in 0 .. m |-> IF n = 0 THEN create(Larger(table))
                                 ELSE Move(table, f[n - 1], n)]

LEMMA MovedExists ==
  ASSUME NEW table, NEW m \in Nat
  PROVE  \E f : Moved(table, f, m)
<1>. DEFINE Bad == {k \in Nat : ~ \E f : Moved(table, f, k)}
<1>1. SUFFICES ASSUME Bad # {} PROVE FALSE OBVIOUS
<1>2. PICK k \in Bad : \A l \in Bad : k <= l BY <1>1, Smallest
<1>3. k # 0
  <2>. DEFINE f == [n \in 0 .. 0 |-> create(Larger(table))]
  <2>1. f = [n \in 0 .. 0 |-> IF n = 0 THEN create(Larger(table))
                                       ELSE Move(table, f[n - 1], n)]
    OBVIOUS
  <2>2. Moved(table, f, 0) BY <2>1 DEF Moved
  <2>. QED BY <1>2, <2>2
<1>4. k \in Nat /\ k - 1 \in Nat /\ k - 1 \notin Bad BY <1>2, <1>3
<1>5. PICK f : Moved(table, f, k - 1) BY <1>4
<1>. DEFINE g == [n \in 0 .. k |-> IF n = k THEN Move(table, f[k - 1], k)
                                            ELSE f[n]]
<1>6. ASSUME NEW n \in 0 .. k
      PROVE  g[n] = IF n = 0 THEN create(Larger(table))
                             ELSE Move(table, g[n - 1], n)
  <2>1. CASE n = k
    <3>1. k - 1 \in 0 .. k /\ k - 1 # k BY <1>4
    <3>2. g[k - 1] = f[k - 1] BY <3>1
    <3>. QED BY <1>3, <2>1, <3>2
  <2>2. CASE n # k /\ n # 0
    <3>1. n \in 0 .. k - 1 /\ n - 1 \in 0 .. k /\ n - 1 # k BY <1>4, <2>2
    <3>2. f[n] = Move(table, f[n - 1], n) BY <1>5, <2>2, <3>1 DEF Moved
    <3>3. g[n] = f[n] /\ g[n - 1] = f[n - 1] BY <2>2, <3>1
    <3>. QED BY <2>2, <3>2, <3>3
  <2>3. CASE n # k /\ n = 0
    <3>1. 0 \in 0 .. k - 1 BY <1>4
    <3>2. f[0] = create(Larger(table)) BY <1>5, <3>1 DEF Moved
    <3>. QED BY <2>3, <3>2
  <2>. QED BY <2>1, <2>2, <2>3
<1>7. Moved(table, g, k)
  <2>. DEFINE h == [n \in 0 .. k |-> IF n = 0 THEN create(Larger(table))
                                              ELSE Move(table, g[n - 1], n)]
  <2>1. \A n \in 0 .. k : g[n] = h[n] BY <1>6
  <2>2. g = h BY <2>1
  <2>. QED BY <2>2 DEF Moved
<1>. QED BY <1>2, <1>7

LEMMA GrowIsMoved ==
  ASSUME NEW table, table.capacity \in Nat, IsLoaded(table)
  PROVE  \E f : Moved(table, f, table.capacity)
                /\ grow(table) = f[table.capacity]
<1>. DEFINE moved[n \in 0 .. table.capacity] ==
       IF n = 0 THEN create(Larger(table)) ELSE Move(table, moved[n - 1], n)
<1>1. \E f : Moved(table, f, table.capacity) BY MovedExists
<1>2. \E f : f = [n \in 0 .. table.capacity |->
                    IF n = 0 THEN create(Larger(table))
                             ELSE Move(table, f[n - 1], n)]
  BY <1>1 DEF Moved
<1>3. moved = [n \in 0 .. table.capacity |->
                 IF n = 0 THEN create(Larger(table))
                          ELSE Move(table, moved[n - 1], n)]
  BY <1>2
<1>4. grow(table) = moved[table.capacity] BY DEF grow, Move
<1>. QED BY <1>3, <1>4 DEF Moved

LEMMA LargerIsLarger ==
  ASSUME NEW table, table.capacity \in Nat
  PROVE  Larger(table) \in Nat /\ table.capacity < Larger(table)
BY KVIndexAssumption, SMT DEF Larger

(* What the larger table holds after n moves: the entries of the first n   *)
(* slots, at most n.                                                       *)
MovedSoFar(table, new, n) ==
  /\ Sound(new) /\ new.capacity = Larger(table) /\ new.size <= n
  /\ \A key \in HashKey :
       index_lookup(new, key) =
         IF \E j \in Slots(table) : j < n /\ table.maps[j].key = key
         THEN index_lookup(table, key) ELSE 0

LEMMA NothingMoved ==
  ASSUME NEW table, Sound(table)
  PROVE  MovedSoFar(table, create(Larger(table)), 0)
<1>. DEFINE new == create(Larger(table))
<1>1. Larger(table) \in Nat BY LargerIsLarger DEF Sound, Table
<1>2. /\ Sound(new) /\ new.capacity = Larger(table) /\ new.size = 0
      /\ \A j \in Slots(new) : new.maps[j].key = 0
  BY <1>1, CreateIsSound DEF Slots
<1>. HIDE DEF new
<1>3. ASSUME NEW key \in HashKey PROVE index_lookup(new, key) = 0
  <2>1. \A j \in Slots(new) : new.maps[j].key # key BY <1>2 DEF HashKey
  <2>. QED BY <1>2, <2>1, LookupIs
<1>4. \A j \in Slots(table) : ~(j < 0) BY DEF Slots, Sound, Table
<1>. QED BY <1>2, <1>3, <1>4 DEF MovedSoFar, new

LEMMA OneMoved ==
  ASSUME NEW table, Sound(table), NEW n \in Nat \ {0}, n <= table.capacity,
         NEW old, MovedSoFar(table, old, n - 1)
  PROVE  MovedSoFar(table, Move(table, old, n), n)
<1>. DEFINE entry == table.maps[n - 1]
            new == Move(table, old, n)
<1>1. /\ n - 1 \in Slots(table) /\ table.capacity \in Nat
      /\ entry.key \in Nat /\ entry.off \in Nat
  BY DEF Slots, Sound, Table
<1>2. /\ Sound(old) /\ old.capacity = Larger(table) /\ old.size <= n - 1
      /\ old.size \in Nat
      /\ \A key \in HashKey :
           index_lookup(old, key) =
             IF \E j \in Slots(table) : j < n - 1 /\ table.maps[j].key = key
             THEN index_lookup(table, key) ELSE 0
  BY UsedFinite DEF MovedSoFar, Sound, Table
<1>3. \A j \in Slots(table) : j < n <=> j < n - 1 \/ j = n - 1
  BY <1>1 DEF Slots
<1>4. CASE entry.key = 0
  <2>1. new = old BY <1>4 DEF Move
  <2>2. \A key \in HashKey :
          (\E j \in Slots(table) : j < n /\ table.maps[j].key = key)
            <=> \E j \in Slots(table) : j < n - 1 /\ table.maps[j].key = key
    BY <1>1, <1>3, <1>4 DEF HashKey
  <2>3. old.size <= n BY <1>2
  <2>. QED BY <1>2, <2>1, <2>2, <2>3 DEF MovedSoFar
<1>5. CASE entry.key # 0
  <2>1. entry.key \in HashKey BY <1>1, <1>5 DEF HashKey
  <2>2. old.size < old.capacity BY <1>1, <1>2, LargerIsLarger
  <2>3. Stops(old, entry.key) # {} BY <1>1, <1>2, <2>2, RoomToStop
  <2>4. new = SetOff(update(old, entry.key), entry.key, entry.off)
    BY <1>5 DEF Move
  <2>5. index_lookup(table, entry.key) = entry.off
    BY <1>1, <2>1, LookupIs
  <2>. HIDE DEF entry, new
  <2>6. /\ Sound(new) /\ new.capacity = old.capacity
        /\ new.size \in {old.size, old.size + 1}
        /\ \A k \in HashKey :
             index_lookup(new, k) =
               IF k = entry.key THEN entry.off ELSE index_lookup(old, k)
    BY <1>1, <1>2, <2>1, <2>3, <2>4, UpdateThenSet
  <2>7. ASSUME NEW key \in HashKey
        PROVE  index_lookup(new, key) =
                 IF \E j \in Slots(table) : j < n /\ table.maps[j].key = key
                 THEN index_lookup(table, key) ELSE 0
    <3>1. CASE key = entry.key
      <4>1. \E j \in Slots(table) : j < n /\ table.maps[j].key = key
        BY <1>1, <1>3, <3>1 DEF entry
      <4>. QED BY <2>5, <2>6, <3>1, <4>1
    <3>2. CASE key # entry.key
      <4>1. (\E j \in Slots(table) : j < n /\ table.maps[j].key = key)
              <=> \E j \in Slots(table) : j < n - 1 /\ table.maps[j].key = key
        BY <1>3, <3>2 DEF entry
      <4>2. index_lookup(new, key) = index_lookup(old, key) BY <2>6, <3>2
      <4>. QED BY <1>2, <4>1, <4>2
    <3>. QED BY <3>1, <3>2
  <2>8. new.size <= n BY <1>2, <2>6
  <2>. QED BY <1>2, <2>6, <2>7, <2>8 DEF MovedSoFar, new
<1>. QED BY <1>4, <1>5

(* A table grows before it is full, and answers as before: "IsLoaded" and  *)
(* the size of the larger table leave a free slot for the next key.        *)
THEOREM GrowthKeepsEntries ==
  ASSUME NEW table, Sound(table)
  PROVE  /\ Sound(grow(table))
         /\ grow(table).size < grow(table).capacity
         /\ \A key \in HashKey :
              index_lookup(grow(table), key) = index_lookup(table, key)
<1>. DEFINE c == table.capacity
<1>1. c \in Nat /\ table.size \in Nat BY UsedFinite DEF Sound, Table
<1>2. CASE ~IsLoaded(table)
  <2>1. grow(table) = table BY <1>2 DEF grow
  <2>2. table.size < c BY <1>1, <1>2 DEF IsLoaded
  <2>. QED BY <2>1, <2>2
<1>3. CASE IsLoaded(table)
  <2>1. PICK f : Moved(table, f, c) /\ grow(table) = f[c]
    BY <1>1, <1>3, GrowIsMoved
  <2>. DEFINE Bad == {n \in 0 .. c : ~MovedSoFar(table, f[n], n)}
  <2>2. ASSUME Bad # {} PROVE FALSE
    <3>1. Bad \subseteq Nat BY <1>1
    <3>2. PICK n \in Bad : \A m \in Bad : n <= m BY <2>2, <3>1, Smallest
    <3>3. CASE n = 0
      <4>1. f[0] = create(Larger(table)) BY <1>1, <2>1 DEF Moved
      <4>. QED BY <3>2, <3>3, <4>1, NothingMoved
    <3>4. CASE n # 0
      <4>1. n \in Nat \ {0} /\ n <= c /\ n - 1 \in 0 .. c /\ ~(n <= n - 1)
        BY <1>1, <3>1, <3>4
      <4>2. MovedSoFar(table, f[n - 1], n - 1) BY <3>2, <4>1
      <4>3. f[n] = Move(table, f[n - 1], n) BY <2>1, <3>4 DEF Moved
      <4>4. MovedSoFar(table, f[n], n) BY <4>1, <4>2, <4>3, OneMoved
      <4>. QED BY <4>4
    <3>. QED BY <3>3, <3>4
  <2>3. MovedSoFar(table, grow(table), c) BY <1>1, <2>1, <2>2
  <2>. HIDE DEF Bad
  <2>4. /\ Sound(grow(table)) /\ grow(table).capacity = Larger(table)
        /\ grow(table).size <= c
    BY <2>3 DEF MovedSoFar
  <2>5. grow(table).size < grow(table).capacity
    <3>1. grow(table).size \in Nat
      BY <2>4, UsedFinite DEF Sound, Table
    <3>. QED BY <1>1, <2>4, <3>1, LargerIsLarger
  <2>6. ASSUME NEW key \in HashKey
        PROVE  index_lookup(grow(table), key) = index_lookup(table, key)
    <3>1. CASE \E j \in Slots(table) : table.maps[j].key = key
      <4>1. \E j \in Slots(table) : j < c /\ table.maps[j].key = key
        BY <1>1, <3>1 DEF Slots
      <4>. QED BY <2>3, <4>1 DEF MovedSoFar
    <3>2. CASE \A j \in Slots(table) : table.maps[j].key # key
      <4>1. index_lookup(table, key) = 0 BY <3>2, LookupIs
      <4>. QED BY <2>3, <3>2, <4>1 DEF MovedSoFar
    <3>. QED BY <3>1, <3>2
  <2>. QED BY <2>4, <2>5, <2>6
<1>. QED BY <1>2, <1>3

(* index_update() finds a slot for every key, and adding one changes the   *)
(* answer for no key.                                                      *)
THEOREM UpdatesKeepEntries ==
  ASSUME NEW table, Sound(table), NEW key \in HashKey
  PROVE  /\ Stops(grow(table), key) # {}
         /\ Sound(index_update(table, key))
         /\ \A k \in HashKey :
              index_lookup(index_update(table, key), k) = index_lookup(table, k)
         /\ \E j \in Slots(index_update(table, key)) :
              index_update(table, key).maps[j].key = key
<1>. DEFINE g == grow(table)
            new == index_update(table, key)
<1>1. /\ Sound(g) /\ g.size < g.capacity
      /\ \A k \in HashKey : index_lookup(g, k) = index_lookup(table, k)
  BY GrowthKeepsEntries
<1>2. Stops(g, key) # {} BY <1>1, RoomToStop DEF HashKey
<1>3. new = update(g, key) BY DEF index_update
<1>. HIDE DEF g
<1>4. /\ Sound(new) /\ new.capacity = g.capacity
      /\ \A k \in HashKey : index_lookup(new, k) = index_lookup(g, k)
  BY <1>1, <1>2, <1>3, UpdateIsSound
<1>5. Probe(g, key) \in Slots(g) /\ new.maps[Probe(g, key)].key = key
  BY <1>1, <1>2, <1>3, UpdateIs
<1>6. Slots(new) = Slots(g) BY <1>4 DEF Slots
<1>. QED BY <1>1, <1>2, <1>4, <1>5, <1>6 DEF g

LEMMA PutIs ==
  ASSUME NEW table, Sound(table), NEW key \in HashKey, NEW off \in Nat
  PROVE  LET new == SetOff(index_update(table, key), key, off)
         IN  /\ Sound(new)
             /\ \A k \in HashKey :
                  index_lookup(new, k) =
                    IF k = key THEN off ELSE index_lookup(table, k)
<1>. DEFINE mid == index_update(table, key)
<1>1. /\ Sound(mid)
      /\ \A k \in HashKey : index_lookup(mid, k) = index_lookup(table, k)
      /\ \E j \in Slots(mid) : mid.maps[j].key = key
  BY UpdatesKeepEntries
<1>. HIDE DEF mid
<1>2. PICK j \in Slots(mid) : mid.maps[j].key = key BY <1>1
<1>. DEFINE new == SetOff(mid, key, off)
<1>3. /\ Sound(new)
      /\ \A k \in HashKey :
           index_lookup(new, k) = IF k = key THEN off ELSE index_lookup(mid, k)
  BY <1>1, <1>2, SetOffIs
<1>. HIDE DEF new
<1>4. /\ Sound(new)
      /\ \A k \in HashKey :
           index_lookup(new, k) =
             IF k = key THEN off ELSE index_lookup(table, k)
  BY <1>1, <1>3
<1>. QED BY <1>4 DEF new, mid

(* The table of a new store is empty. *)
LEMMA NewIndex ==
  Sound(index_open) /\ \A k \in HashKey : index_lookup(index_open, k) = 0
<1>1. Sound(index_open) /\ index_open.capacity = 0
  BY CreateIsSound DEF index_open
<1>2. Slots(index_open) = {} BY <1>1 DEF Slots
<1>. QED BY <1>1, <1>2, LookupIs

-----------------------------------------------------------------------------
(* The store *)

(* The dummy record that kvdb_open() writes fits on the device. *)
DummyFits == RecordLen(Record(0, 0, Zero, Zero)) <= MaxLog

(* A set of records, one at an offset at most, that point backwards.       *)
RecordSet(S) ==
  /\ S \subseteq Record_
  /\ \A r \in S : End(r) <= MaxLog
  /\ \A r \in S : r.at > 0 => r.off < r.at
  /\ \A r, s \in S : r.at = s.at => r = s

Records ==
  /\ RecordSet(log) /\ RecordSet(disk) /\ left \subseteq Record_
  /\ \A r \in log : End(r) <= raw

Scalars ==
  /\ st \in {"closed", "open", "restoring", "astray", "exited", "aborted"}
  /\ synced \in 0 .. MaxLog /\ raw \in 0 .. MaxLog /\ next \in 0 .. MaxLog
  /\ size \in 0 .. Word - 1 /\ waste \in Nat
  /\ st = "closed" => raw = 0 /\ next = 0 /\ log = {}
  /\ st = "restoring" => raw = next
  /\ st = "open" => raw > 0

(* The index is sound and leads only to where records are. *)
IndexInv ==
  /\ Sound(index)
  /\ \A k \in HashKey :
       index_lookup(index, k) = 0 \/ index_lookup(index, k) < raw

Buffering == wb \in WriteBufferType /\ tail_offset \in Nat

(* The 4096 of the restore never changes. *)
Geometry == restore_blk \in RestoreBlks

-----------------------------------------------------------------------------
(* Keys and records. *)

LEMMA HashIsKey == \A k \in AllKeys : hash(k) \in HashKey
BY KVStoreAssumption DEF hash, HashKey

LEMMA LimitsAre ==
  /\ MaxLog \in Nat /\ Word \in Nat /\ Word > 0 /\ MaxOver \in 0 .. MaxLog
BY BytesAssumption, WriteBufferAssumption, SizePositive, KVStoreAssumption

LEMMA GeometryIs ==
  /\ Geometry => restore_blk \in Nat /\ 0 < restore_blk /\ restore_blk <= Size
  /\ 2 * Blk <= Size /\ Size > 2
<1>1. 2 * Blk <= Size /\ Size > 2 BY RestoreAssumption
<1>2. ASSUME Geometry
      PROVE  restore_blk \in Nat /\ 0 < restore_blk /\ restore_blk <= Size
  <2>1. Size \in Nat BY SizePositive
  <2>2. restore_blk \in 1 .. Size BY <1>2, RestoreAssumption DEF Geometry
  <2>. HIDE DEF Size
  <2>. QED BY <2>1, <2>2
<1>. QED BY <1>1, <1>2

LEMMA GeometryHolds == Spec => []Geometry
<1>1. Init => Geometry BY DEF Init, Geometry
<1>2. Geometry /\ [Next]_vars => Geometry' BY DEF Geometry, Next, vars
<1>. QED BY <1>1, <1>2, PTL DEF Spec

LEMMA EndIs ==
  ASSUME NEW r \in Record_
  PROVE  /\ End(r) \in Nat /\ r.at \in Nat /\ r.off \in Nat /\ r.at < End(r)
         /\ RecordLen(r) \in Nat /\ End(r) = r.at + RecordLen(r)
         /\ RecordLen(r) > 0
BY LimitsAre DEF Record_, End, RecordLen, MetaLen

LEMMA RecordIs ==
  ASSUME NEW at \in Nat, NEW off \in Nat, off <= at, NEW k \in AllKeys,
         NEW v \in Vals \cup {None, Zero},
         End(Record(at, off, k, v)) <= MaxLog
  PROVE  LET r == Record(at, off, k, v)
         IN  /\ r \in Record_ /\ r.at = at /\ r.off = off
             /\ r.key = k /\ r.val = v
             /\ r.key_len = KeyLen[k] /\ r.val_len = ValLenOf(v)
             /\ r.key_len > 0
<1>. DEFINE r == Record(at, off, k, v)
<1>1. KeyLen[k] \in Nat \ {0} BY KVStoreAssumption
<1>2. ValLenOf(v) \in Nat BY KVStoreAssumption DEF ValLenOf
<1>3. /\ r.at = at /\ r.off = off /\ r.key = k /\ r.val = v
      /\ r.key_len = KeyLen[k] /\ r.val_len = ValLenOf(v)
  BY DEF Record
<1>4. at + (MetaLen + KeyLen[k] + ValLenOf(v)) <= MaxLog
  BY <1>3 DEF End, RecordLen
<1>5. at \in 0 .. MaxLog /\ off \in 0 .. MaxLog
  BY <1>1, <1>2, <1>4, LimitsAre DEF MetaLen
<1>6. r \in Record_
  BY <1>1, <1>2, <1>5 DEF Record, Record_, AllVals
<1>. QED BY <1>1, <1>3, <1>6

LEMMA TornIs ==
  ASSUME NEW r \in Record_, NEW n \in Nat, NEW t \in TornRecord(r, n)
  PROVE  /\ t \in Record_ /\ t.at = r.at /\ t.off \in {0, r.off}
         /\ t.key_len \in {0, r.key_len} /\ t.val_len \in {0, r.val_len}
         /\ End(t) <= End(r)
         /\ n # 0
<1>1. n # 0 BY DEF TornRecord
<1>. DEFINE off     == IF n >= 2 THEN r.off ELSE 0
            key_len == IF n >= 3 THEN r.key_len ELSE 0
            val_len == IF n >= 4 THEN r.val_len ELSE 0
            key     == IF n >= MetaLen + r.key_len THEN r.key ELSE Zero
            val     == IF n >= 4 /\ r.val_len > 0 THEN Torn ELSE None
<1>2. t = [r EXCEPT !.off = off, !.key_len = key_len, !.val_len = val_len,
                    !.key = key, !.val = val]
  BY <1>1 DEF TornRecord
<1>3. /\ off \in 0 .. MaxLog /\ key_len \in Nat /\ val_len \in Nat
      /\ key \in AllKeys /\ val \in AllVals
      /\ off \in {0, r.off} /\ key_len \in {0, r.key_len}
      /\ val_len \in {0, r.val_len}
  BY LimitsAre DEF Record_, AllKeys, AllVals
<1>. HIDE DEF off, key_len, val_len, key, val
<1>4. /\ t \in Record_ /\ t.at = r.at /\ t.off = off /\ t.key_len = key_len
      /\ t.val_len = val_len
  BY <1>2, <1>3 DEF Record_
<1>5. End(t) <= End(r)
  BY <1>3, <1>4, LimitsAre DEF End, RecordLen, MetaLen, Record_
<1>. QED BY <1>1, <1>3, <1>4, <1>5

(* What a flush leaves of a record set is one, and lies before the end of  *)
(* what was flushed.                                                       *)
LEMMA KeptAre ==
  ASSUME RecordSet(log), NEW n \in Nat
  PROVE  /\ RecordSet(Kept(n))
         /\ \A r \in Kept(n) : r.at < n
<1>. DEFINE cut == {s \in log : s.at < n /\ n < End(s)}
<1>1. Kept(n) = {r \in log : End(r) <= n}
                \cup UNION {TornRecord(r, n - r.at) : r \in cut}
  BY DEF Kept
<1>2. ASSUME NEW t \in Kept(n)
      PROVE  \E r \in log :
               /\ t \in Record_ /\ t.at = r.at /\ t.off \in {0, r.off}
               /\ End(t) <= End(r) /\ r.at < n
               /\ \/ t = r /\ End(r) <= n
                  \/ r \in cut /\ t \in TornRecord(r, n - r.at)
  <2>1. CASE t \in log /\ End(t) <= n
    <3>1. t \in Record_ BY <2>1 DEF RecordSet
    <3>2. t.at < n /\ End(t) <= End(t) BY <2>1, <3>1, EndIs
    <3>. QED BY <2>1, <3>1, <3>2
  <2>2. CASE \E r \in cut : t \in TornRecord(r, n - r.at)
    <3>1. PICK r \in cut : t \in TornRecord(r, n - r.at) BY <2>2
    <3>2. r \in Record_ /\ r \in log /\ r.at < n BY DEF RecordSet
    <3>3. n - r.at \in Nat BY <3>2, EndIs
    <3>. QED BY <3>1, <3>2, <3>3, TornIs
  <2>. QED BY <1>1, <2>1, <2>2
<1>. HIDE DEF cut
<1>3. ASSUME NEW t \in Kept(n)
      PROVE  /\ t \in Record_ /\ t.at < n /\ End(t) <= MaxLog
             /\ t.at > 0 => t.off < t.at
  <2>1. PICK r \in log : t \in Record_ /\ t.at = r.at /\ t.off \in {0, r.off}
                         /\ End(t) <= End(r) /\ r.at < n
    BY <1>2
  <2>2. r \in Record_ /\ End(r) <= MaxLog /\ (r.at > 0 => r.off < r.at)
    BY DEF RecordSet
  <2>3. End(r) \in Nat /\ End(t) \in Nat /\ r.at \in Nat /\ t.at \in Nat
    BY <2>1, <2>2, EndIs
  <2>. QED BY <2>1, <2>2, <2>3, LimitsAre
<1>4. ASSUME NEW t \in Kept(n), NEW u \in Kept(n), t.at = u.at PROVE t = u
  <2>1. PICK r \in log : /\ t.at = r.at
                         /\ \/ t = r /\ End(r) <= n
                            \/ r \in cut /\ t \in TornRecord(r, n - r.at)
    BY <1>2
  <2>2. PICK s \in log : /\ u.at = s.at
                         /\ \/ u = s /\ End(s) <= n
                            \/ s \in cut /\ u \in TornRecord(s, n - s.at)
    BY <1>2
  <2>3. r = s BY <1>4, <2>1, <2>2 DEF RecordSet
  <2>4. ~(End(r) <= n /\ r \in cut)
    <3>1. End(r) \in Nat BY EndIs DEF RecordSet
    <3>. QED BY <3>1 DEF cut
  <2>5. CASE t = r /\ u = s BY <2>3, <2>5
  <2>6. CASE t \in TornRecord(r, n - r.at) /\ u \in TornRecord(s, n - s.at)
    BY <2>3, <2>6 DEF TornRecord
  <2>. QED BY <2>1, <2>2, <2>3, <2>4, <2>5, <2>6
<1>. QED BY <1>3, <1>4 DEF RecordSet

(* What is left of the log and, behind it, of an older one. *)
LEMMA LeftOnDevice ==
  ASSUME RecordSet(log), RecordSet(disk), NEW n \in Nat
  PROVE  RecordSet(Kept(n) \cup Older(n))
<1>1. RecordSet(Kept(n)) /\ \A r \in Kept(n) : r.at < n BY KeptAre
<1>2. Older(n) \subseteq disk /\ \A r \in Older(n) : roundUp(n) <= r.at
  <2>1. \A r \in disk : r.at \in Nat BY EndIs DEF RecordSet
  <2>. QED BY <2>1, RoundUpBounds DEF Older
<1>3. n <= roundUp(n) /\ roundUp(n) \in Nat BY RoundUpBounds
<1>4. ASSUME NEW r \in Kept(n), NEW s \in Older(n) PROVE r.at # s.at
  <2>1. r.at \in Nat /\ s.at \in Nat
    BY <1>1, <1>2, EndIs DEF RecordSet
  <2>. QED BY <1>1, <1>2, <1>3, <2>1
<1>. QED BY <1>1, <1>2, <1>4 DEF RecordSet

(* One more record at the end. *)
LEMMA AddRecord ==
  ASSUME RecordSet(log), \A r \in log : End(r) <= raw, raw \in Nat,
         NEW t \in Record_, raw <= t.at, t.at > 0 => t.off < t.at,
         End(t) <= MaxLog
  PROVE  RecordSet(log \cup {t}) /\ \A r \in log \cup {t} : End(r) <= End(t)
<1>1. \A r \in log : /\ r \in Record_ /\ r.at \in Nat /\ End(r) \in Nat
                     /\ r.at < End(r)
  BY EndIs DEF RecordSet
<1>2. t.at \in Nat /\ End(t) \in Nat /\ t.at < End(t) BY EndIs
<1>3. \A r \in log : r.at < t.at /\ End(r) <= End(t) BY <1>1, <1>2
<1>. QED BY <1>1, <1>2, <1>3 DEF RecordSet

Base == Records /\ Scalars /\ IndexInv /\ Buffering

LEMMA BaseInit == Init => Base
<1>. SUFFICES ASSUME Init PROVE Base OBVIOUS
<1>1. Records BY DEF Init, Records, RecordSet
<1>2. Scalars BY LimitsAre DEF Init, Scalars
<1>3. IndexInv BY NewIndex DEF Init, IndexInv
<1>4. Buffering BY OpenType DEF Init, Buffering
<1>. QED BY <1>1, <1>2, <1>3, <1>4 DEF Base

(* A call adds one record at most, which points to the one that the index  *)
(* led to.                                                                 *)
LEMMA MutateBase ==
  ASSUME Base, NEW k \in Keys, NEW v \in Vals \cup {None}, NEW refused,
         NEW grows \in {0, 1}, NEW shrinks \in {0, 1}, NEW wastes \in {0, 1},
         mutate(k, v, refused, grows, shrinks, wastes)
  PROVE  Base'
<1>. DEFINE updated == index_update(index, hash(k))
            ref     == index_lookup(updated, hash(k))
            r       == Record(raw, ref, k, v)
<1>1. hash(k) \in HashKey /\ k \in AllKeys BY HashIsKey DEF AllKeys
<1>2. /\ Sound(updated)
      /\ \A j \in HashKey : index_lookup(updated, j) = index_lookup(index, j)
  BY <1>1, UpdatesKeepEntries DEF Base, IndexInv
<1>3. /\ raw \in Nat /\ raw > 0 /\ ref \in Nat /\ ref < raw /\ synced \in Nat
      /\ raw <= MaxLog
  BY <1>1, <1>2, LookupIs, LimitsAre
  DEF mutate, Base, Scalars, IndexInv
<1>4. synced' \in 0 .. MaxLog
  BY <1>3, LimitsAre DEF mutate, Synced, Base, Scalars
<1>5. CASE Result(k, refused) # 0
  <2>1. index' = updated /\ UNCHANGED <<log, raw, size, waste>>
    BY <1>5 DEF mutate
  <2>. HIDE DEF updated
  <2>2. UNCHANGED <<st, disk, next, lfs, left>> BY DEF mutate
  <2>3. Records' BY <2>1, <2>2 DEF Base, Records, RecordSet
  <2>4. Scalars' BY <1>4, <2>1, <2>2 DEF Base, Scalars
  <2>5. IndexInv' BY <1>2, <2>1 DEF Base, IndexInv
  <2>6. Buffering' BY <2>2 DEF Base, Buffering, lfs
  <2>. QED BY <2>3, <2>4, <2>5, <2>6 DEF Base
<1>6. CASE Result(k, refused) = 0
  <2>1. /\ log' = log \cup {r} /\ raw' = End(r)
        /\ index' = SetOff(updated, hash(k), raw)
        /\ size' = (size + grows - shrinks) % Word
        /\ waste' = waste + wastes
        /\ End(r) <= IF zeroed THEN MaxLog ELSE MaxOver
    BY <1>6 DEF mutate
  <2>2. UNCHANGED <<st, disk, next, lfs, left>> /\ st = "open"
    BY DEF mutate
  <2>3. End(r) <= MaxLog
    <3>1. KeyLen[k] \in Nat /\ ValLenOf(v) \in Nat
      BY <1>1, KVStoreAssumption DEF ValLenOf
    <3>2. End(r) = raw + (MetaLen + KeyLen[k] + ValLenOf(v))
      BY DEF End, RecordLen, Record
    <3>3. End(r) \in Nat BY <1>3, <3>1, <3>2 DEF MetaLen
    <3>. QED BY <2>1, <3>3, LimitsAre
  <2>4. /\ r \in Record_ /\ r.at = raw /\ r.off = ref
    BY <1>1, <1>3, <2>3, RecordIs
  <2>. HIDE DEF r
  <2>5. End(r) \in Nat /\ raw < End(r) BY <2>4, EndIs
  <2>6. Records'
    <3>1. RecordSet(log') /\ \A s \in log' : End(s) <= raw'
      BY <1>3, <2>1, <2>3, <2>4, AddRecord DEF Base, Records
    <3>. QED BY <2>2, <3>1 DEF Base, Records, RecordSet, End, RecordLen
  <2>7. Scalars'
    <3>1. size' \in 0 .. Word - 1 /\ waste' \in Nat
      <4>1. size + grows - shrinks \in Int BY DEF Base, Scalars
      <4>. QED BY <2>1, <4>1, LimitsAre DEF Base, Scalars
    <3>. QED BY <1>3, <1>4, <2>1, <2>2, <2>3, <2>5, <3>1 DEF Base, Scalars
  <2>8. IndexInv'
    <3>1. Sound(index')
          /\ \A j \in HashKey :
               index_lookup(index', j) =
                 IF j = hash(k) THEN raw ELSE index_lookup(index, j)
      BY <1>1, <1>3, <2>1, PutIs DEF Base, IndexInv
    <3>2. \A j \in HashKey : index_lookup(index, j) \in Nat
      BY LookupIs DEF Base, IndexInv
    <3>. QED BY <1>3, <2>1, <2>5, <3>1, <3>2 DEF Base, IndexInv
  <2>9. Buffering' BY <2>2 DEF Base, Buffering, lfs
  <2>. QED BY <2>6, <2>7, <2>8, <2>9 DEF Base
<1>. QED BY <1>5, <1>6

LEMMA OpenBase ==
  ASSUME DummyFits, Base, Open
  PROVE  Base'
<1>. DEFINE dummy == Record(0, 0, Zero, Zero)
<1>1. dummy \in Record_ /\ dummy.at = 0 /\ End(dummy) <= MaxLog
  <2>1. KeyLen[Zero] \in Nat /\ ValLenOf(Zero) \in Nat
    BY KVStoreAssumption DEF ValLenOf, AllKeys
  <2>2. End(dummy) = RecordLen(dummy) BY <2>1 DEF End, RecordLen, Record, MetaLen
  <2>. QED BY <2>2, RecordIs DEF DummyFits, AllKeys
<1>2. End(dummy) \in Nat /\ 0 < End(dummy) BY <1>1, EndIs
<1>. HIDE DEF dummy
<1>3. /\ st' = "open" /\ log' = {dummy} /\ raw' = End(dummy)
      /\ index' = index_open /\ size' = 0 /\ waste' = 0 /\ synced' = 0
      /\ left' = {} /\ UNCHANGED <<disk, next, lfs>>
  BY DEF Open, dummy
<1>4. Records'
  <2>1. RecordSet({dummy}) /\ \A r \in {dummy} : End(r) <= End(dummy)
    BY <1>1, <1>2 DEF RecordSet
  <2>. QED BY <1>3, <2>1 DEF Base, Records, RecordSet, End, RecordLen
<1>5. Scalars' BY <1>1, <1>2, <1>3, LimitsAre DEF Base, Scalars
<1>6. IndexInv' BY <1>3, NewIndex DEF IndexInv
<1>7. Buffering' BY <1>3 DEF Base, Buffering, lfs
<1>. QED BY <1>4, <1>5, <1>6, <1>7 DEF Base

LEMMA StopBase ==
  ASSUME Base, NEW n \in Nat, Stop(n)
  PROVE  Base'
<1>1. /\ st' = "closed" /\ disk' = Kept(n) \cup Older(n) /\ left' = Kept(n)
      /\ synced' = 0 /\ log' = {} /\ raw' = 0 /\ next' = 0
      /\ index' = index_open /\ size' = 0 /\ waste' = 0
      /\ wb' = write_buffer_open /\ tail_offset' = 0
  BY DEF Stop, Freed
<1>2. Records'
  <2>1. RecordSet(Kept(n)) /\ RecordSet(Kept(n) \cup Older(n))
    BY KeptAre, LeftOnDevice DEF Base, Records
  <2>. HIDE DEF Kept, Older
  <2>. QED BY <1>1, <2>1 DEF Records, RecordSet, End, RecordLen
<1>3. Scalars' BY <1>1, LimitsAre DEF Scalars
<1>4. IndexInv' BY <1>1, NewIndex DEF IndexInv
<1>5. Buffering' BY <1>1, OpenType DEF Buffering
<1>. QED BY <1>2, <1>3, <1>4, <1>5 DEF Base

(* What the restore puts back into the buffer is bytes of the log. *)
LEMMA RebuiltType ==
  ASSUME Geometry, Buffering, NEW r \in Record_, End(r) <= MaxLog, Rebuilt(r)
  PROVE  Buffering'
<1>. DEFINE added == IF Fits(wb, RecordLen(r))
                     THEN write_buffer_add(wb, r.at + 1, RecordLen(r)) ELSE wb
<1>1. /\ r.at \in Nat /\ RecordLen(r) \in Nat /\ End(r) = r.at + RecordLen(r)
      /\ r.at + 1 + RecordLen(r) <= MaxLog + 1
  BY EndIs, LimitsAre
<1>2. added \in WriteBufferType BY <1>1, AddType DEF Buffering
<1>3. Readded(r) = [added EXCEPT !.last_avail = @ + RecordLen(r)]
  BY DEF Readded
<1>. HIDE DEF added
<1>4. Readded(r) \in WriteBufferType BY <1>1, <1>2, <1>3 DEF WriteBufferType
<1>5. AfterFlush(Readded(r), FALSE) \in WriteBufferType
  <2>. DEFINE dont == FALSE
  <2>1. dont \in BOOLEAN OBVIOUS
  <2>. HIDE DEF dont
  <2>2. AfterFlush(Readded(r), dont) \in WriteBufferType
    BY <1>4, <2>1, AfterFlushType
  <2>. QED BY <2>2 DEF dont
<1>6. wb' \in WriteBufferType BY <1>4, <1>5 DEF Rebuilt, Dequeued
<1>7. tail_offset' \in Nat BY GeometryIs DEF Rebuilt, Buffering
<1>. QED BY <1>6, <1>7 DEF Buffering

(* The loop of kvdb_open_internal() on one record. *)
LEMMA IndexedBase ==
  ASSUME Base, NEW r \in Record_, Indexed(r), raw <= r.at, raw' = End(r)
  PROVE  IndexInv' /\ size' \in 0 .. Word - 1 /\ waste' \in Nat
<1>. DEFINE h == hash(r.key)
            updated == index_update(index, h)
<1>1. h \in HashKey BY HashIsKey DEF Record_
<1>2. r.at \in Nat /\ End(r) \in Nat /\ r.at < End(r) BY EndIs
<1>3. PICK off \in {0, r.at} : index' = SetOff(updated, h, off)
  BY DEF Indexed
<1>4. /\ Sound(index')
      /\ \A k \in HashKey :
           index_lookup(index', k) = IF k = h THEN off ELSE index_lookup(index, k)
  BY <1>1, <1>2, <1>3, PutIs DEF Base, IndexInv
<1>5. \A k \in HashKey : index_lookup(index, k) \in Nat
  BY LookupIs DEF Base, IndexInv
<1>6. raw \in Nat BY LimitsAre DEF Base, Scalars
<1>7. IndexInv' BY <1>2, <1>4, <1>5, <1>6 DEF Base, IndexInv
<1>8. size' \in {size, (size - 1) % Word, (size + 1) % Word}
      /\ waste' \in {waste, waste + 1}
  BY DEF Indexed
<1>9. size' \in 0 .. Word - 1 /\ waste' \in Nat
  BY <1>8, LimitsAre DEF Base, Scalars
<1>. QED BY <1>7, <1>9

LEMMA VisitorInitBase ==
  ASSUME Geometry, Base, VisitorInit
  PROVE  Base'
<1>1. UNCHANGED <<disk, synced, index, size, waste, left>>
      /\ st = "restoring" /\ next = 0 /\ raw = 0
  BY DEF VisitorInit, history, Base, Scalars
<1>2. CASE At0 = {}
  <2>1. st' = "exited" /\ UNCHANGED <<log, raw, next, wb, tail_offset>>
    BY <1>2 DEF VisitorInit, lfs
  <2>. QED
    BY <1>1, <2>1
    DEF Base, Records, Scalars, IndexInv, Buffering, RecordSet, End, RecordLen
<1>3. CASE At0 # {}
  <2>1. PICK r \in At0 : /\ log' = {r} /\ raw' = End(r) /\ next' = End(r)
                         /\ Rebuilt(r) /\ UNCHANGED st
    BY <1>3 DEF VisitorInit
  <2>2. r \in disk /\ r \in Record_ /\ End(r) <= MaxLog /\ r.at = 0
    BY DEF At0, Base, Records, RecordSet
  <2>3. End(r) \in Nat /\ 0 < End(r) BY <2>2, EndIs
  <2>4. Records'
    BY <1>1, <2>1, <2>2, <2>3 DEF Base, Records, RecordSet, End, RecordLen
  <2>5. Scalars' BY <1>1, <2>1, <2>2, <2>3, LimitsAre DEF Base, Scalars
  <2>6. IndexInv'
    <3>1. \A k \in HashKey : index_lookup(index, k) = 0
      BY <1>1, LookupIs DEF Base, IndexInv
    <3>. QED BY <1>1, <3>1 DEF Base, IndexInv
  <2>7. Buffering' BY <2>1, <2>2, RebuiltType DEF Base
  <2>. QED BY <2>4, <2>5, <2>6, <2>7 DEF Base
<1>. QED BY <1>2, <1>3

LEMMA VisitorNextBase ==
  ASSUME Geometry, Base, VisitorNext
  PROVE  Base'
<1>1. UNCHANGED <<disk, synced, left>> /\ st = "restoring" /\ next = raw
  BY DEF VisitorNext, history, Base, Scalars
<1>2. PICK r \in ToRead :
        /\ log' = log \cup {r} /\ raw' = End(r) /\ next' = End(r)
        /\ Rebuilt(r)
        /\ IF r.key_len = 0
           THEN st' = "aborted" /\ UNCHANGED <<index, size, waste>>
           ELSE Indexed(r) /\ UNCHANGED st
  BY DEF VisitorNext
<1>3. /\ r \in disk /\ r \in Record_ /\ End(r) <= MaxLog /\ r.at = raw
      /\ r.at > 0 => r.off < r.at
  BY <1>1 DEF ToRead, Base, Records, RecordSet
<1>4. End(r) \in Nat /\ raw \in Nat /\ raw < End(r) BY <1>3, EndIs
<1>5. Records'
  <2>1. RecordSet(log') /\ \A s \in log' : End(s) <= raw'
    BY <1>2, <1>3, <1>4, AddRecord DEF Base, Records
  <2>. QED BY <1>1, <2>1 DEF Base, Records, RecordSet, End, RecordLen
<1>6. Buffering' BY <1>2, <1>3, RebuiltType DEF Base
<1>7. IndexInv' /\ size' \in 0 .. Word - 1 /\ waste' \in Nat
  <2>1. CASE r.key_len = 0
    <3>1. UNCHANGED <<index, size, waste>> BY <1>2, <2>1
    <3>2. \A k \in HashKey : index_lookup(index, k) \in Nat
      BY LookupIs DEF Base, IndexInv
    <3>. QED BY <1>2, <1>4, <3>1, <3>2 DEF Base, IndexInv, Scalars
  <2>2. CASE r.key_len # 0 BY <1>2, <1>3, <1>4, <2>2, IndexedBase
  <2>. QED BY <2>1, <2>2
<1>8. Scalars'
  <2>1. st' \in {"aborted", "restoring"} BY <1>1, <1>2
  <2>. QED BY <1>1, <1>2, <1>3, <1>4, <1>7, <2>1, LimitsAre DEF Base, Scalars
<1>. QED BY <1>5, <1>6, <1>7, <1>8 DEF Base

LEMMA BaseStep ==
  ASSUME DummyFits, Geometry, Base, [Next]_vars
  PROVE  Base'
<1>1. CASE Open BY <1>1, OpenBase
<1>2. CASE Close
  <2>1. raw \in Nat BY LimitsAre DEF Base, Scalars
  <2>. QED BY <1>2, <2>1, StopBase DEF Close
<1>3. CASE Crash
  <2>1. PICK n \in synced .. raw : Stop(n) BY <1>3 DEF Crash
  <2>2. n \in Nat BY LimitsAre DEF Base, Scalars
  <2>. QED BY <2>1, <2>2, StopBase
<1>4. CASE VisitorInit BY <1>4, VisitorInitBase
<1>5. CASE VisitorNext BY <1>5, VisitorNextBase
<1>6. ASSUME UNCHANGED <<log, disk, left, raw, index, size, waste, next, wb,
                         tail_offset>>,
             st' = st \/ (st = "closed" /\ st' = "restoring")
                      \/ (st = "restoring" /\ next > 0 /\ st' = "open")
                      \/ st' = "astray",
             synced' \in {synced, raw}
      PROVE  Base'
  BY <1>6
  DEF Base, Records, Scalars, IndexInv, Buffering, RecordSet, End, RecordLen
<1>7. CASE RestoreOpen
  BY <1>6, <1>7 DEF RestoreOpen, kvdb, lfs, history
<1>8. CASE RestoreDone
  <2>1. next > 0 BY <1>8, LimitsAre DEF RestoreDone, Base, Scalars
  <2>. QED BY <1>6, <1>8, <2>1 DEF RestoreDone, kvdb, lfs
<1>13. CASE RestoreAstray
  BY <1>6, <1>13 DEF RestoreAstray, kvdb, lfs, history
<1>9. ASSUME NEW k \in Keys, Lookup(k) PROVE Base'
  BY <1>6, <1>9 DEF Lookup, kvdb, lfs, Synced
<1>10. ASSUME NEW k \in Keys, Remove(k) PROVE Base'
  BY <1>10, MutateBase DEF Remove
<1>11. ASSUME NEW k \in Keys, NEW v \in Vals,
              Insert(k, v) \/ Update(k, v) \/ Replace(k, v)
       PROVE  Base'
  BY <1>11, MutateBase DEF Insert, Update, Replace
<1>12. CASE UNCHANGED vars
  BY <1>6, <1>12 DEF vars, kvdb, lfs, history
<1>. QED
  BY <1>1, <1>2, <1>3, <1>4, <1>5, <1>7, <1>8, <1>9, <1>10, <1>11, <1>12,
     <1>13
  DEF Next, Ended

LEMMA BaseHolds == ASSUME DummyFits PROVE Spec => []Base
BY BaseInit, BaseStep, GeometryHolds, PTL DEF Spec

(* The index finds every entry and has a slot for the next key, in every   *)
(* store and at every point of a restore.                                  *)
THEOREM IndexAlwaysFinds ==
  ASSUME DummyFits PROVE Spec => []IndexFindsEntries
<1>1. Base => IndexFindsEntries
  <2>. SUFFICES ASSUME Base PROVE IndexFindsEntries OBVIOUS
  <2>1. Sound(index) BY DEF Base, IndexInv
  <2>2. \A k \in AllKeys : Stops(grow(index), hash(k)) # {}
    BY <2>1, HashIsKey, UpdatesKeepEntries
  <2>. QED BY <2>1, <2>2 DEF IndexFindsEntries, Sound, Used
<1>. QED BY <1>1, BaseHolds, PTL

-----------------------------------------------------------------------------
(* Following the offsets from record to record. *)

(* A function that is given at the places E, and elsewhere by a smaller    *)
(* place, exists.                                                          *)
Descends(M, E, p) == \A o \in (0 .. M) \ E : p[o] \in 0 .. o - 1

Descent(f, M, E, v, p) ==
  /\ f = [o \in 0 .. M |-> f[o]]
  /\ \A o \in 0 .. M : f[o] = IF o \in E THEN v[o] ELSE f[p[o]]

LEMMA DescentExists ==
  ASSUME NEW M \in Nat, NEW E, NEW v, NEW p, Descends(M, E, p)
  PROVE  \E f : Descent(f, M, E, v, p)
<1>. DEFINE Ok(f, m) ==
              f = [o \in 0 .. m - 1 |-> IF o \in E THEN v[o] ELSE f[p[o]]]
            Bad == {m \in 0 .. M + 1 : ~ \E f : Ok(f, m)}
<1>1. ASSUME Bad # {} PROVE FALSE
  <2>0. Bad \subseteq Nat OBVIOUS
  <2>1. PICK m \in Bad : \A l \in Bad : m <= l BY <1>1, <2>0, Smallest
  <2>2. m # 0
    <3>1. Ok([o \in 0 .. 0 - 1 |-> 0], 0)
      <4>1. 0 .. 0 - 1 = {} OBVIOUS
      <4>. QED BY <4>1
    <3>. QED BY <2>1, <3>1
  <2>3. m - 1 \in 0 .. M + 1 /\ m - 1 \notin Bad /\ m \in Nat
    BY <2>1, <2>2
  <2>4. PICK f : Ok(f, m - 1) BY <2>3
  <2>. DEFINE n == m - 1
              g == [o \in 0 .. n |-> IF o = n THEN IF n \in E THEN v[n]
                                                   ELSE f[p[n]]
                                     ELSE f[o]]
  <2>5. n \in 0 .. M /\ n - 1 = (m - 1) - 1 BY <2>2, <2>3
  <2>6. ASSUME NEW o \in 0 .. n
        PROVE  g[o] = IF o \in E THEN v[o] ELSE g[p[o]]
    <3>1. CASE o \in E
      <4>1. o # n => f[o] = v[o]
        BY <2>4, <2>5, <3>1
      <4>. QED BY <3>1, <4>1
    <3>2. CASE o \notin E
      <4>1. p[o] \in 0 .. o - 1 BY <2>5, <3>2 DEF Descends
      <4>2. p[o] \in 0 .. n /\ p[o] # n BY <2>5, <4>1
      <4>3. g[p[o]] = f[p[o]] BY <4>2
      <4>4. o # n => f[o] = f[p[o]]
        BY <2>4, <2>5, <3>2
      <4>. QED BY <3>2, <4>3, <4>4
    <3>. QED BY <3>1, <3>2
  <2>7. Ok(g, m)
    <3>. DEFINE h == [o \in 0 .. n |-> IF o \in E THEN v[o] ELSE g[p[o]]]
    <3>1. \A o \in 0 .. n : g[o] = h[o] BY <2>6
    <3>2. g = h BY <3>1
    <3>. QED BY <3>2
  <2>. QED BY <2>1, <2>7
<1>2. M + 1 \in 0 .. M + 1 /\ (M + 1) - 1 = M OBVIOUS
<1>3. PICK f : Ok(f, M + 1) BY <1>1, <1>2
<1>. QED BY <1>2, <1>3 DEF Descent

(* At most one record is at an offset. *)
LEMMA AtIs ==
  ASSUME RecordSet(log), NEW r \in log
  PROVE  At(r.at) = r
BY DEF RecordSet, At

(* The steps of kvraw_lookup() along a chain. *)
LEMMA ChainSteps ==
  ASSUME RecordSet(log), NEW k, NEW off \in 0 .. MaxLog
  PROVE  chain_lookup(k, off) =
           IF off = 0 THEN 0
           ELSE IF \A r \in log : r.at # off THEN -1
           ELSE IF Matches(At(off), k) THEN off
           ELSE chain_lookup(k, At(off).off)
<1>. DEFINE from[o \in 0 .. MaxLog] ==
              IF o = 0 THEN 0
              ELSE IF \A r \in log : r.at # o THEN -1
              ELSE IF Matches(At(o), k) THEN o ELSE from[At(o).off]
            E == {o \in 0 .. MaxLog : \/ o = 0 \/ \A r \in log : r.at # o
                                      \/ Matches(At(o), k)}
            v == [o \in 0 .. MaxLog |->
                    IF o = 0 THEN 0
                    ELSE IF \A r \in log : r.at # o THEN -1 ELSE o]
            p == [o \in 0 .. MaxLog |-> At(o).off]
<1>1. ASSUME NEW o \in (0 .. MaxLog) \ E
      PROVE  p[o] \in 0 .. o - 1
  <2>1. PICK r \in log : r.at = o OBVIOUS
  <2>2. o # 0 OBVIOUS
  <2>3. At(o) = r BY <2>1, AtIs
  <2>4. r.off < o /\ r.off \in Nat BY <2>1, <2>2, EndIs DEF RecordSet
  <2>. QED BY <2>3, <2>4
<1>2. MaxLog \in Nat BY LimitsAre
<1>3. PICK f : Descent(f, MaxLog, E, v, p)
  <2>1. Descends(MaxLog, E, p) BY <1>1 DEF Descends
  <2>. HIDE DEF E, v, p
  <2>. QED BY <1>2, <2>1, DescentExists
<1>4. ASSUME NEW o \in 0 .. MaxLog
      PROVE  f[o] = IF o = 0 THEN 0
                    ELSE IF \A r \in log : r.at # o THEN -1
                    ELSE IF Matches(At(o), k) THEN o ELSE f[At(o).off]
  BY <1>3 DEF Descent
<1>5. f = [o \in 0 .. MaxLog |->
             IF o = 0 THEN 0
             ELSE IF \A r \in log : r.at # o THEN -1
             ELSE IF Matches(At(o), k) THEN o ELSE f[At(o).off]]
  <2>. DEFINE g == [o \in 0 .. MaxLog |->
             IF o = 0 THEN 0
             ELSE IF \A r \in log : r.at # o THEN -1
             ELSE IF Matches(At(o), k) THEN o ELSE f[At(o).off]]
  <2>1. \A o \in 0 .. MaxLog : f[o] = g[o] BY <1>4
  <2>2. f = [o \in 0 .. MaxLog |-> f[o]] BY <1>3 DEF Descent
  <2>. QED BY <2>1, <2>2
<1>6. from = [o \in 0 .. MaxLog |->
                IF o = 0 THEN 0
                ELSE IF \A r \in log : r.at # o THEN -1
                ELSE IF Matches(At(o), k) THEN o ELSE from[At(o).off]]
  BY <1>5
<1>7. \A o : chain_lookup(k, o) = from[o] BY DEF chain_lookup
<1>. HIDE DEF from
<1>. QED BY <1>6, <1>7

(* A lookup ends at a record of its key, at no record, or at a hole.       *)
LEMMA ChainEnds ==
  ASSUME RecordSet(log), NEW k, NEW off \in 0 .. MaxLog
  PROVE  \/ chain_lookup(k, off) \in {-1, 0}
         \/ \E r \in log : /\ r.at = chain_lookup(k, off)
                           /\ 0 < r.at /\ r.at <= off /\ Matches(r, k)
<1>. DEFINE Ends(o) ==
              \/ chain_lookup(k, o) \in {-1, 0}
              \/ \E r \in log : /\ r.at = chain_lookup(k, o)
                                /\ 0 < r.at /\ r.at <= o /\ Matches(r, k)
            Bad == {o \in 0 .. MaxLog : ~Ends(o)}
<1>1. ASSUME Bad # {} PROVE FALSE
  <2>1. Bad \subseteq Nat OBVIOUS
  <2>2. PICK o \in Bad : \A l \in Bad : o <= l BY <1>1, <2>1, Smallest
  <2>3. o \in 0 .. MaxLog /\ ~Ends(o) BY <2>2
  <2>4. chain_lookup(k, o) =
           IF o = 0 THEN 0
           ELSE IF \A r \in log : r.at # o THEN -1
           ELSE IF Matches(At(o), k) THEN o
           ELSE chain_lookup(k, At(o).off)
    BY <2>3, ChainSteps
  <2>5. o # 0 /\ ~(\A r \in log : r.at # o) BY <2>3, <2>4
  <2>6. PICK r \in log : r.at = o BY <2>5
  <2>7. At(o) = r /\ r.off \in Nat /\ r.off < o /\ o > 0 /\ r.off \in 0 .. MaxLog
    <3>1. At(r.at) = r BY AtIs
    <3>2. r \in Record_ /\ (r.at > 0 => r.off < r.at) BY DEF RecordSet
    <3>3. r.off \in Nat /\ r.off \in 0 .. MaxLog
      BY <3>2, EndIs DEF Record_
    <3>4. o > 0 BY <2>3, <2>5
    <3>. HIDE DEF At
    <3>. QED BY <2>6, <3>1, <3>2, <3>3, <3>4
  <2>8. CASE Matches(r, k) BY <2>3, <2>4, <2>5, <2>6, <2>7, <2>8
  <2>9. CASE ~Matches(r, k)
    <3>1. chain_lookup(k, o) = chain_lookup(k, r.off)
      BY <2>4, <2>5, <2>7, <2>9
    <3>2. r.off \notin Bad BY <2>2, <2>7
    <3>3. Ends(r.off) BY <2>7, <3>2
    <3>4. Ends(o)
      <4>1. \A s \in log : s.at \in Nat BY EndIs DEF RecordSet
      <4>2. \A s \in log : s.at <= r.off => s.at <= o BY <2>7, <4>1
      <4>. QED BY <3>1, <3>3, <4>2
    <3>. QED BY <2>3, <3>4
  <2>. QED BY <2>8, <2>9
<1>. QED BY <1>1

(* The value that a chain of records of S gives k. *)
ValueFrom(S, k, off) ==
  LET from[o \in 0 .. MaxLog] ==
        IF \A r \in S : r.at # o \/ o = 0 THEN None
        ELSE LET r == CHOOSE s \in S : s.at = o
             IN  IF Matches(r, k) THEN r.val ELSE from[r.off]
  IN  from[off]

LEMMA ValueSteps ==
  ASSUME NEW S, RecordSet(S), NEW k, NEW off \in 0 .. MaxLog
  PROVE  /\ (off = 0 \/ \A r \in S : r.at # off) => ValueFrom(S, k, off) = None
         /\ \A r \in S : off > 0 /\ r.at = off =>
              ValueFrom(S, k, off) =
                IF Matches(r, k) THEN r.val ELSE ValueFrom(S, k, r.off)
<1>. DEFINE the(o) == CHOOSE s \in S : s.at = o
            from[o \in 0 .. MaxLog] ==
              IF \A r \in S : r.at # o \/ o = 0 THEN None
              ELSE IF Matches(the(o), k) THEN the(o).val ELSE from[the(o).off]
            none(o) == \A r \in S : r.at # o \/ o = 0
            E == {o \in 0 .. MaxLog : none(o) \/ Matches(the(o), k)}
            v == [o \in 0 .. MaxLog |-> IF none(o) THEN None ELSE the(o).val]
            p == [o \in 0 .. MaxLog |-> the(o).off]
<1>0. ASSUME NEW r \in S PROVE the(r.at) = r BY DEF RecordSet
<1>1. ASSUME NEW o \in (0 .. MaxLog) \ E
      PROVE  p[o] \in 0 .. o - 1
  <2>1. PICK r \in S : r.at = o /\ o # 0 OBVIOUS
  <2>2. the(o) = r BY <1>0, <2>1
  <2>3. r \in Record_ /\ (r.at > 0 => r.off < r.at) BY DEF RecordSet
  <2>4. r.off < o /\ r.off \in Nat BY <2>1, <2>3, EndIs
  <2>5. p[o] = r.off BY <2>2
  <2>. HIDE DEF p
  <2>. QED BY <2>4, <2>5
<1>2. MaxLog \in Nat BY LimitsAre
<1>3. PICK f : Descent(f, MaxLog, E, v, p)
  <2>1. Descends(MaxLog, E, p) BY <1>1 DEF Descends
  <2>. HIDE DEF E, v, p
  <2>. QED BY <1>2, <2>1, DescentExists
<1>4. ASSUME NEW o \in 0 .. MaxLog
      PROVE  f[o] = IF \A r \in S : r.at # o \/ o = 0 THEN None
                    ELSE IF Matches(the(o), k) THEN the(o).val
                    ELSE f[the(o).off]
  BY <1>3 DEF Descent
<1>5. f = [o \in 0 .. MaxLog |->
             IF \A r \in S : r.at # o \/ o = 0 THEN None
             ELSE IF Matches(the(o), k) THEN the(o).val ELSE f[the(o).off]]
  <2>. DEFINE g == [o \in 0 .. MaxLog |->
             IF \A r \in S : r.at # o \/ o = 0 THEN None
             ELSE IF Matches(the(o), k) THEN the(o).val ELSE f[the(o).off]]
  <2>1. \A o \in 0 .. MaxLog : f[o] = g[o] BY <1>4
  <2>2. f = [o \in 0 .. MaxLog |-> f[o]] BY <1>3 DEF Descent
  <2>. QED BY <2>1, <2>2
<1>6. from = [o \in 0 .. MaxLog |->
                IF \A r \in S : r.at # o \/ o = 0 THEN None
                ELSE IF Matches(the(o), k) THEN the(o).val
                ELSE from[the(o).off]]
  <2>. DEFINE Equation(g) == g = [o \in 0 .. MaxLog |->
                IF \A r \in S : r.at # o \/ o = 0 THEN None
                ELSE IF Matches(the(o), k) THEN the(o).val ELSE g[the(o).off]]
  <2>1. from = CHOOSE g : Equation(g) BY Zenon
  <2>2. Equation(f) BY <1>5, Zenon
  <2>3. Equation(from)
    <3>. HIDE DEF Equation, from
    <3>. QED BY <2>1, <2>2, Zenon
  <2>. QED BY <2>3, Zenon
<1>7. \A o : ValueFrom(S, k, o) = from[o] BY DEF ValueFrom
<1>. HIDE DEF from
<1>8. from[off] = IF \A r \in S : r.at # off \/ off = 0 THEN None
                  ELSE IF Matches(the(off), k) THEN the(off).val
                  ELSE from[the(off).off]
  BY <1>6
<1>9. ASSUME NEW r \in S, off > 0, r.at = off
      PROVE  from[off] = IF Matches(r, k) THEN r.val ELSE from[r.off]
  <2>1. the(off) = r BY <1>0, <1>9
  <2>. HIDE DEF the
  <2>. QED BY <1>8, <1>9, <2>1
<1>. QED BY <1>7, <1>8, <1>9

(* There is a newest among records. *)
LEMMA NewestExists ==
  ASSUME NEW S, RecordSet(S), NEW T, T \subseteq S, T # {}
  PROVE  \E l \in T : \A r \in T : r.at <= l.at
<1>. DEFINE D == {MaxLog - r.at : r \in T}
<1>1. \A r \in T : r.at \in Nat /\ MaxLog - r.at \in Nat
  BY LimitsAre DEF RecordSet, Record_
<1>2. D \subseteq Nat /\ D # {} BY <1>1
<1>3. PICK d \in D : \A e \in D : d <= e BY <1>2, Smallest
<1>4. PICK l \in T : d = MaxLog - l.at BY <1>3
<1>5. ASSUME NEW r \in T PROVE r.at <= l.at
  <2>1. d <= MaxLog - r.at BY <1>3
  <2>. QED BY <1>1, <1>4, <2>1, LimitsAre
<1>. QED BY <1>5

LEMMA ScanAre == Scan \subseteq disk
BY DEF Scan

(* What a restore will find for a key: the index has the newest record     *)
(* with its hash, or nothing after a removal.                              *)
LEMMA RestorableIs ==
  ASSUME RecordSet(disk), NEW k \in Keys
  PROVE  LET on == {r \in Scan : r.at > 0 /\ hash(r.key) = hash(k)}
         IN  /\ on = {} => Restorable[k] = None
             /\ \A l \in on : (\A r \in on : r.at <= l.at) =>
                  Restorable[k] = IF l.val_len = 0 THEN None
                                  ELSE ValueFrom(Scan, k, l.at)
             /\ on # {} => \E l \in on : \A r \in on : r.at <= l.at
<1>. DEFINE S == Scan
            on(j) == {r \in S : r.at > 0 /\ hash(r.key) = hash(j)}
            last(T) == CHOOSE r \in T : \A s \in T : s.at <= r.at
<1>1. S \subseteq disk /\ RecordSet(S) BY ScanAre DEF RecordSet
<1>2. Restorable =
        [j \in Keys |-> IF on(j) = {} \/ last(on(j)).val_len = 0 THEN None
                        ELSE ValueFrom(S, j, last(on(j)).at)]
  BY DEF Restorable, ValueFrom
<1>. HIDE DEF S
<1>3. Restorable[k] = IF on(k) = {} \/ last(on(k)).val_len = 0 THEN None
                      ELSE ValueFrom(S, k, last(on(k)).at)
  BY <1>2
<1>4. on(k) # {} => \E l \in on(k) : \A r \in on(k) : r.at <= l.at
  BY <1>1, NewestExists
<1>5. ASSUME NEW l \in on(k), \A r \in on(k) : r.at <= l.at
      PROVE  last(on(k)) = l
  <2>1. \A r \in on(k) : r \in S /\ r.at \in Nat
    BY <1>1 DEF RecordSet, Record_
  <2>2. \A r \in on(k) : (\A s \in on(k) : s.at <= r.at) => r = l
    BY <1>1, <1>5, <2>1 DEF RecordSet
  <2>. HIDE DEF on
  <2>. QED BY <1>5, <2>2
<1>. QED BY <1>3, <1>4, <1>5 DEF S

LEMMA ValueType ==
  ASSUME NEW S, RecordSet(S), NEW k, NEW off \in 0 .. MaxLog
  PROVE  ValueFrom(S, k, off) \in AllVals
<1>. DEFINE Bad == {o \in 0 .. MaxLog : ValueFrom(S, k, o) \notin AllVals}
<1>1. ASSUME Bad # {} PROVE FALSE
  <2>1. Bad \subseteq Nat OBVIOUS
  <2>2. PICK o \in Bad : \A l \in Bad : o <= l BY <1>1, <2>1, Smallest
  <2>3. None \in AllVals BY DEF AllVals
  <2>4. o \in 0 .. MaxLog /\ o > 0 /\ ~ \A r \in S : r.at # o
    BY <2>2, <2>3, ValueSteps
  <2>5. PICK r \in S : r.at = o BY <2>4
  <2>6. ValueFrom(S, k, o) = IF Matches(r, k) THEN r.val
                             ELSE ValueFrom(S, k, r.off)
    BY <2>4, <2>5, ValueSteps
  <2>7. /\ r.val \in AllVals /\ r.off < o /\ r.off \in Nat
        /\ r.off \in 0 .. MaxLog
    BY <2>4, <2>5, LimitsAre DEF RecordSet, Record_
  <2>8. ~(o <= r.off) BY <2>4, <2>7
  <2>9. r.off \notin Bad BY <2>2, <2>8
  <2>. QED BY <2>2, <2>6, <2>7, <2>9
<1>. QED BY <1>1

LEMMA RestorableType ==
  ASSUME RecordSet(disk)
  PROVE  Restorable \in Maps
<1>1. Restorable = [k \in Keys |-> Restorable[k]] BY DEF Restorable
<1>2. ASSUME NEW k \in Keys PROVE Restorable[k] \in AllVals
  <2>. DEFINE on == {r \in Scan : r.at > 0 /\ hash(r.key) = hash(k)}
  <2>1. None \in AllVals BY DEF AllVals
  <2>2. CASE on = {} BY <2>1, <2>2, RestorableIs
  <2>3. CASE on # {}
    <3>1. PICK l \in on : \A r \in on : r.at <= l.at BY <2>3, RestorableIs
    <3>2. Restorable[k] = IF l.val_len = 0 THEN None
                          ELSE ValueFrom(Scan, k, l.at)
      BY <3>1, RestorableIs
    <3>3. RecordSet(Scan) /\ l.at \in 0 .. MaxLog
      BY <3>1, ScanAre DEF RecordSet, Record_
    <3>. QED BY <2>1, <3>2, <3>3, ValueType
  <2>. QED BY <2>2, <2>3
<1>. QED BY <1>1, <1>2 DEF Maps

(* Every chain from the index is one of ChainEnds, and a found value is of *)
(* a record.                                                               *)
LEMMA ChainedIs ==
  ASSUME Base, NEW k \in AllKeys
  PROVE  /\ index_lookup(index, hash(k)) \in 0 .. MaxLog
         /\ \/ Chained(k) \in {-1, 0}
            \/ \E r \in log : /\ r.at = Chained(k) /\ Matches(r, k)
                              /\ 0 < r.at /\ Found(k) = r.val
         /\ Chained(k) \in {-1} \cup Nat
<1>1. hash(k) \in HashKey BY HashIsKey
<1>2. index_lookup(index, hash(k)) \in 0 .. MaxLog
  BY <1>1, LookupIs, LimitsAre DEF Base, IndexInv, Scalars
<1>3. \/ Chained(k) \in {-1, 0}
      \/ \E r \in log : /\ r.at = Chained(k) /\ Matches(r, k) /\ 0 < r.at
  BY <1>2, ChainEnds DEF Chained, Base, Records
<1>4. ASSUME NEW r \in log, r.at = Chained(k), 0 < r.at
      PROVE  Found(k) = r.val
  BY <1>4, AtIs DEF Found, Base, Records
<1>5. \A r \in log : r.at \in Nat BY DEF Base, Records, RecordSet, Record_
<1>. QED BY <1>2, <1>3, <1>4, <1>5

LEMMA FoundType ==
  ASSUME Base, NEW k \in AllKeys
  PROVE  Found(k) \in AllVals
<1>1. None \in AllVals BY DEF AllVals
<1>2. CASE Chained(k) \in {-1, 0}
  BY <1>1, <1>2 DEF Found
<1>3. ASSUME NEW r \in log, Found(k) = r.val PROVE Found(k) \in AllVals
  BY <1>3 DEF Base, Records, RecordSet, Record_
<1>. QED BY <1>2, <1>3, ChainedIs

LEMMA ViewType == ASSUME Base PROVE View \in Maps
BY FoundType DEF View, Maps, AllKeys

-----------------------------------------------------------------------------
(* Types. *)

Histories ==
  /\ kv \in Maps /\ past \subseteq Maps
  /\ out \in [rv : {-1, 0, 1}, val : AllVals]

LEMMA NoCallType == NoCall \in [rv : {-1, 0, 1}, val : AllVals]
BY DEF NoCall, AllVals

LEMMA ResultType ==
  ASSUME NEW k, NEW refused PROVE Result(k, refused) \in {-1, 0, 1}
BY DEF Result

LEMMA MapsAre == Base => View \in Maps /\ Restorable \in Maps
BY ViewType, RestorableType DEF Base, Records

LEMMA MapsAfter == (Base => View \in Maps /\ Restorable \in Maps)'
BY MapsAre, PTL

LEMMA HistoriesStep ==
  ASSUME Base, Base', Histories, [Next]_vars
  PROVE  Histories'
<1>1. View' \in Maps /\ Restorable' \in Maps BY MapsAfter
<1>2. None \in AllVals BY DEF AllVals
<1>. HIDE DEF View, Restorable
<1>3. CASE Open
  BY <1>1, <1>3, NoCallType DEF Open, Histories
<1>4. ASSUME NEW n, Stop(n) PROVE Histories'
  BY <1>1, <1>4, NoCallType DEF Stop, Histories
<1>5. CASE Close BY <1>4, <1>5 DEF Close
<1>6. CASE Crash BY <1>4, <1>6 DEF Crash
<1>7. CASE RestoreOpen BY <1>7 DEF RestoreOpen, history, Histories
<1>8. CASE VisitorInit BY <1>8 DEF VisitorInit, history, Histories
<1>9. CASE VisitorNext BY <1>9 DEF VisitorNext, history, Histories
<1>10. CASE RestoreDone
  <2>1. View \in Maps BY ViewType
  <2>. QED BY <1>10, <2>1 DEF RestoreDone, Histories
<1>16. CASE RestoreAstray BY <1>16 DEF RestoreAstray, history, Histories
<1>11. ASSUME NEW k \in Keys, Lookup(k) PROVE Histories'
  <2>1. /\ out' = [rv |-> Result(k, Found(k) = None), val |-> Found(k)]
        /\ past' \in {past, {kv}} /\ kv' = kv
    BY <1>11 DEF Lookup
  <2>2. Result(k, Found(k) = None) \in {-1, 0, 1} BY ResultType, Zenon
  <2>3. Found(k) \in AllVals BY FoundType DEF AllKeys
  <2>. HIDE DEF Found
  <2>4. out' \in [rv : {-1, 0, 1}, val : AllVals]
    <3>. DEFINE rv == Result(k, Found(k) = None)
    <3>1. out' = [rv |-> rv, val |-> Found(k)] BY <2>1
    <3>2. rv \in {-1, 0, 1} BY <2>2
    <3>. HIDE DEF rv
    <3>. QED BY <2>3, <3>1, <3>2
  <2>. QED BY <2>1, <2>4 DEF Histories
<1>12. ASSUME NEW k \in Keys, NEW v, NEW refused, NEW grows, NEW shrinks, NEW wastes,
              mutate(k, v, refused, grows, shrinks, wastes)
       PROVE  Histories'
  <2>. DEFINE rv  == Result(k, refused)
              val == IF v = None /\ rv = 0 THEN Found(k) ELSE None
  <2>1. out' = [rv |-> rv, val |-> val] /\ kv' = View'
    BY <1>12 DEF mutate
  <2>2. past' \subseteq past \cup {kv, View'}
    BY <1>12 DEF mutate
  <2>3. rv \in {-1, 0, 1} BY ResultType
  <2>5. Found(k) \in AllVals BY <1>12, FoundType DEF AllKeys
  <2>6. val \in AllVals BY <1>2, <2>5, Zenon
  <2>. HIDE DEF rv, val
  <2>4. out' \in [rv : {-1, 0, 1}, val : AllVals] BY <2>1, <2>3, <2>6
  <2>. QED BY <1>1, <2>1, <2>2, <2>4 DEF Histories
<1>13. ASSUME NEW k \in Keys, Remove(k) PROVE Histories'
  BY <1>12, <1>13 DEF Remove
<1>14. ASSUME NEW k \in Keys, NEW v \in Vals,
              Insert(k, v) \/ Update(k, v) \/ Replace(k, v)
       PROVE  Histories'
  BY <1>12, <1>14 DEF Insert, Update, Replace
<1>15. CASE UNCHANGED vars BY <1>15 DEF vars, history, Histories
<1>. QED
  BY <1>3, <1>5, <1>6, <1>7, <1>8, <1>9, <1>10, <1>11, <1>13, <1>14, <1>15,
     <1>16
  DEF Next, Ended

LEMMA ZeroedStep ==
  ASSUME zeroed \in BOOLEAN, [Next]_vars PROVE zeroed' \in BOOLEAN
<1>1. CASE Open BY <1>1, Zenon DEF Open
<1>2. ASSUME UNCHANGED zeroed PROVE zeroed' \in BOOLEAN BY <1>2, Zenon
<1>3. CASE \/ Close \/ Crash \/ RestoreOpen \/ VisitorInit \/ VisitorNext
           \/ RestoreDone \/ RestoreAstray \/ UNCHANGED vars
  <2>1. UNCHANGED zeroed
    BY <1>3
    DEF Close, Crash, Stop, RestoreOpen, VisitorInit, VisitorNext,
        RestoreDone, RestoreAstray, vars
  <2>. QED BY <1>2, <2>1
<1>4. ASSUME NEW k \in Keys,
             \/ Lookup(k) \/ Remove(k)
             \/ \E v \in Vals : Insert(k, v) \/ Update(k, v) \/ Replace(k, v)
      PROVE  zeroed' \in BOOLEAN
  <2>1. UNCHANGED zeroed
    BY <1>4 DEF Lookup, Remove, Insert, Update, Replace, mutate
  <2>. QED BY <1>2, <2>1
<1>. QED BY <1>1, <1>3, <1>4 DEF Next, Ended

(* The offsets in the index are of the log. *)
LEMMA OffsetsType ==
  ASSUME Base PROVE index.maps \in [Slots(index) -> [key : Nat, off : 0 .. MaxLog]]
<1>1. index.maps \in [Slots(index) -> [key : Nat, off : Nat]]
  BY DEF Base, IndexInv, Sound, Table
<1>2. ASSUME NEW j \in Slots(index)
      PROVE  index.maps[j] \in [key : Nat, off : 0 .. MaxLog]
  <2>1. CASE index.maps[j].key = 0
    <3>1. index.maps[j].off = 0 BY <2>1 DEF Base, IndexInv, Sound, Table
    <3>. QED BY <1>1, <3>1, LimitsAre
  <2>2. CASE index.maps[j].key # 0
    <3>1. index.maps[j].key \in HashKey BY <1>1, <2>2 DEF HashKey
    <3>2. index.maps[j].off = index_lookup(index, index.maps[j].key)
      BY <3>1, LookupIs DEF Base, IndexInv
    <3>3. index.maps[j].off <= MaxLog
      BY <1>1, <3>1, <3>2, LimitsAre DEF Base, IndexInv, Scalars
    <3>. QED BY <1>1, <3>3, LimitsAre
  <2>. QED BY <2>1, <2>2
<1>. QED BY <1>1, <1>2

(* Every variable of the store keeps its type: in particular no offset or  *)
(* length leaves the device, and no value is returned that is none.        *)
THEOREM TypeCorrect ==
  ASSUME DummyFits PROVE Spec => []TypeOK
<1>1. Init => Base /\ Histories /\ zeroed \in BOOLEAN
  <2>. SUFFICES ASSUME Init PROVE Base /\ Histories /\ zeroed \in BOOLEAN
    OBVIOUS
  <2>1. None \in AllVals BY DEF AllVals
  <2>2. Histories BY <2>1, NoCallType DEF Init, Histories, Maps
  <2>3. zeroed \in BOOLEAN BY Zenon DEF Init
  <2>. QED BY <2>2, <2>3, BaseInit
<1>2. Geometry /\ Base /\ Histories /\ zeroed \in BOOLEAN /\ [Next]_vars
        => (Base /\ Histories /\ zeroed \in BOOLEAN)'
  BY BaseStep, HistoriesStep, ZeroedStep
<1>3. Geometry /\ Base /\ Histories /\ zeroed \in BOOLEAN => TypeOK
  <2>. SUFFICES ASSUME Geometry, Base, Histories, zeroed \in BOOLEAN PROVE TypeOK
    OBVIOUS
  <2>1. /\ st \in {"closed", "open", "restoring", "astray", "exited", "aborted"}
        /\ restore_blk \in RestoreBlks
        /\ log \subseteq Record_ /\ disk \subseteq Record_
        /\ left \subseteq Record_
        /\ synced \in 0 .. MaxLog /\ raw \in 0 .. MaxLog /\ next \in 0 .. MaxLog
        /\ size \in 0 .. Word - 1 /\ waste \in Nat
        /\ wb \in WriteBufferType /\ tail_offset \in Nat
        /\ kv \in Maps /\ past \subseteq Maps
        /\ out \in [rv : {-1, 0, 1}, val : AllVals]
    BY DEF Geometry, Base, Records, RecordSet, Scalars, Buffering, Histories
  <2>. QED BY <2>1, OffsetsType, Zenon DEF TypeOK
<1>. QED BY <1>1, <1>2, <1>3, GeometryHolds, PTL DEF Spec

-----------------------------------------------------------------------------
(* Rebuilding the write buffer. *)

(* The buffer w holds the bytes of the log from t up to n, less than m.    *)
Holds(w, t, n, m) ==
  /\ w \in WriteBufferType /\ t \in Nat /\ t % Blk = 0
  /\ t + Buffered(w) = n /\ Buffered(w) < m
  /\ \A i \in 1 .. Buffered(w) : w.buffer[(w.tail + i) % Size] = t + i
  /\ w.last_avail <= Buffered(w)

LEMMA HoldsNothing ==
  ASSUME NEW m \in Nat \ {0} PROVE Holds(write_buffer_open, 0, 0, m)
<1>1. Buffered(write_buffer_open) = 0
  BY SizePositive DEF Buffered, write_buffer_open
<1>2. write_buffer_open.last_avail = 0 BY DEF write_buffer_open
<1>3. 0 % Blk = 0 /\ Blk > 0 BY SizePositive, BytesAssumption
<1>. QED BY <1>1, <1>2, <1>3, OpenType DEF Holds

(* A record that a restore with m for its 4096 puts back.                  *)
Short(r, m) == IF m = Blk THEN RecordLen(r) <= Blk ELSE End(r) < m

LEMMA RebuildableIs ==
  ASSUME NEW S PROVE Rebuildable(S) <=> \A r \in S : Short(r, restore_blk)
BY DEF Rebuildable, Short

(* A record goes in behind the bytes that are there. *)
LEMMA ReaddedIs ==
  ASSUME Geometry, NEW n \in Nat, Holds(wb, tail_offset, n, restore_blk),
         NEW r \in Record_, r.at = n, Short(r, restore_blk), End(r) <= MaxLog
  PROVE  LET new == Readded(r)
         IN  /\ new \in WriteBufferType
             /\ tail_offset + Buffered(new) = End(r)
             /\ restore_blk = Blk => Buffered(new) < 2 * Blk
             /\ \A i \in 1 .. Buffered(new) :
                  new.buffer[(new.tail + i) % Size] = tail_offset + i
             /\ new.last_avail <= Buffered(new)
<1>. DEFINE len == RecordLen(r)
            b == Buffered(wb)
            mid == write_buffer_add(wb, n + 1, len)
            new == Readded(r)
<1>1. /\ len \in Nat /\ End(r) = n + len /\ n + 1 + len <= MaxLog + 1
      /\ wb \in WriteBufferType /\ tail_offset \in Nat /\ b \in Nat
      /\ tail_offset + b = n /\ b < restore_blk
      /\ Blk \in Nat /\ Size \in Nat /\ restore_blk \in Nat
      /\ 2 * Blk <= Size /\ restore_blk <= Size
  BY EndIs, LimitsAre, SizePositive, BytesAssumption, BufferedIs, GeometryIs
  DEF Holds
<1>2. b + len < Size BY <1>1 DEF Short
<1>3. /\ Fits(wb, len) /\ Buffered(mid) = b + len
      /\ mid.tail = wb.tail /\ mid.last_avail = wb.last_avail
      /\ \A i \in Nat :
           /\ i < b => mid.buffer[(wb.tail + 1 + i) % Size]
                         = wb.buffer[(wb.tail + 1 + i) % Size]
           /\ b <= i /\ i < b + len =>
                mid.buffer[(wb.tail + 1 + i) % Size] = n + 1 + i - b
  BY <1>1, <1>2, AddIs
<1>4. mid \in WriteBufferType BY <1>1, AddType
<1>5. new = [mid EXCEPT !.last_avail = @ + len]
  BY <1>3 DEF Readded
<1>. HIDE DEF mid, new
<1>6. /\ new \in WriteBufferType /\ new.buffer = mid.buffer
      /\ new.tail = mid.tail /\ new.head = mid.head
      /\ new.last_avail = mid.last_avail + len
  BY <1>1, <1>4, <1>5 DEF WriteBufferType
<1>7. Buffered(new) = b + len BY <1>3, <1>6 DEF Buffered
<1>8. ASSUME NEW i \in 1 .. b + len
      PROVE  new.buffer[(new.tail + i) % Size] = tail_offset + i
  <2>1. i - 1 \in Nat /\ wb.tail + 1 + (i - 1) = wb.tail + i
    BY <1>1, IndexInt
  <2>2. CASE i - 1 < b
    <3>1. mid.buffer[(wb.tail + i) % Size] = wb.buffer[(wb.tail + i) % Size]
      BY <1>3, <2>1, <2>2
    <3>2. i \in 1 .. b BY <1>1, <2>2
    <3>3. wb.buffer[(wb.tail + i) % Size] = tail_offset + i
      BY <3>2 DEF Holds
    <3>. QED BY <1>3, <1>6, <3>1, <3>3
  <2>3. CASE ~(i - 1 < b)
    <3>1. b <= i - 1 /\ i - 1 < b + len BY <1>1, <2>3
    <3>2. mid.buffer[(wb.tail + i) % Size] = n + 1 + (i - 1) - b
      BY <1>3, <2>1, <3>1
    <3>3. n + 1 + (i - 1) - b = tail_offset + i BY <1>1
    <3>. QED BY <1>3, <1>6, <3>2, <3>3
  <2>. QED BY <2>2, <2>3
<1>9. new.last_avail <= b + len
  <2>1. wb.last_avail \in Nat /\ wb.last_avail <= b
    BY DEF Holds, WriteBufferType
  <2>. QED BY <1>1, <1>3, <1>6, <2>1
<1>10. restore_blk = Blk => b + len < 2 * Blk BY <1>1 DEF Short
<1>. QED BY <1>1, <1>6, <1>7, <1>8, <1>9, <1>10 DEF new

(* When a block is full it is dequeued, as flushed. *)
LEMMA RebuiltIs ==
  ASSUME Geometry, NEW n \in Nat, Holds(wb, tail_offset, n, restore_blk),
         NEW r \in Record_, r.at = n, Short(r, restore_blk), End(r) <= MaxLog, Rebuilt(r)
  PROVE  Holds(wb', tail_offset', End(r), restore_blk)
<1>. DEFINE mid == Readded(r)
            b == Buffered(mid)
            dont == FALSE
            new == AfterFlush(mid, dont)
<1>1. /\ mid \in WriteBufferType /\ b \in Nat
      /\ tail_offset + b = End(r) /\ (restore_blk = Blk => b < 2 * Blk)
      /\ \A i \in 1 .. b : mid.buffer[(mid.tail + i) % Size] = tail_offset + i
      /\ mid.last_avail <= b
  BY ReaddedIs, BufferedIs
<1>2. /\ tail_offset \in Nat /\ tail_offset % Blk = 0 /\ Blk \in Nat /\ Blk > 0
      /\ restore_blk \in Nat
  BY SizePositive, BytesAssumption, GeometryIs DEF Holds
<1>3. dont \in BOOLEAN /\ ~dont OBVIOUS
<1>4. wb' = IF b >= restore_blk /\ ~NothingToFlush(mid, dont)
            THEN new ELSE mid
  BY DEF Rebuilt, Dequeued, IsFull
<1>5. tail_offset' = tail_offset + (IF b >= restore_blk THEN restore_blk ELSE 0)
  BY DEF Rebuilt, IsFull
<1>. HIDE DEF dont, mid
<1>6. CASE ~(b >= restore_blk)
  <2>1. wb' = mid /\ tail_offset' = tail_offset BY <1>2, <1>4, <1>5, <1>6
  <2>2. b < restore_blk BY <1>1, <1>2, <1>6
  <2>. QED BY <1>1, <1>2, <2>1, <2>2 DEF Holds
<1>9. ASSUME b >= restore_blk PROVE restore_blk = Blk
  <2>1. End(r) \in Nat BY EndIs
  <2>. QED BY <1>1, <1>2, <1>9, <2>1 DEF Short
<1>7. CASE b >= restore_blk /\ restore_blk = Blk
  <2>1. FlushLen(mid, dont) = Blk
    <3>1. FlushLen(mid, dont) = IF b <= Blk THEN b ELSE Blk
      BY <1>1, <1>3, <1>7, FlushLenIs, GeometryIs
    <3>. QED BY <1>1, <1>2, <1>7, <3>1
  <2>2. ~NothingToFlush(mid, dont)
    BY <1>2, <1>3, <2>1 DEF NothingToFlush
  <2>3. wb' = new /\ tail_offset' = tail_offset + Blk
    BY <1>4, <1>5, <1>7, <2>2
  <2>4. /\ Buffered(new) = b - Blk /\ new.buffer = mid.buffer
        /\ new.last_avail = 0
        /\ \A i \in Nat : i < b - Blk =>
             (new.tail + 1 + i) % Size = (mid.tail + 1 + (Blk + i)) % Size
    BY <1>1, <1>2, <1>3, <1>7, <2>1, DequeueIs
  <2>5. new \in WriteBufferType BY <1>1, <1>3, AfterFlushType
  <2>6. (tail_offset + Blk) % Blk = 0
    <3>1. Blk \in Nat \ {0} /\ tail_offset \in Int BY <1>2
    <3>. QED BY <1>2, <3>1, MultiplePlus, Zenon
  <2>. HIDE DEF new
  <2>7. ASSUME NEW i \in 1 .. b - Blk
        PROVE  new.buffer[(new.tail + i) % Size] = tail_offset + Blk + i
    <3>1. /\ i - 1 \in Nat /\ i - 1 < b - Blk
          /\ new.tail + 1 + (i - 1) = new.tail + i
          /\ mid.tail + 1 + (Blk + (i - 1)) = mid.tail + (Blk + i)
          /\ Blk + i \in 1 .. b
      BY <1>1, <1>2, <1>7, <2>5, IndexInt
    <3>2. (new.tail + i) % Size = (mid.tail + (Blk + i)) % Size
      BY <2>4, <3>1
    <3>3. mid.buffer[(mid.tail + (Blk + i)) % Size] = tail_offset + (Blk + i)
      BY <1>1, <3>1
    <3>4. tail_offset + (Blk + i) = tail_offset + Blk + i BY <1>2
    <3>. QED BY <2>4, <3>2, <3>3, <3>4
  <2>8. /\ (tail_offset + Blk) + (b - Blk) = End(r) /\ b - Blk < Blk
        /\ 0 <= b - Blk /\ tail_offset + Blk \in Nat
    BY <1>1, <1>2, <1>7
  <2>. QED BY <1>7, <2>3, <2>4, <2>5, <2>6, <2>7, <2>8 DEF Holds
<1>. QED BY <1>6, <1>7, <1>9

Rebuilding ==
  st \in {"closed", "restoring"} /\ Rebuildable(log)
    => Holds(wb, tail_offset, raw, restore_blk)

LEMMA RebuildingStep ==
  ASSUME Geometry, Base, Rebuilding, [Next]_vars
  PROVE  Rebuilding'
<1>13. restore_blk' = restore_blk BY DEF Next, vars
<1>14. restore_blk \in Nat \ {0} BY GeometryIs
<1>1. ASSUME NEW n, Stop(n) PROVE Rebuilding'
  <2>1. wb' = write_buffer_open /\ tail_offset' = 0 /\ raw' = 0
    BY <1>1 DEF Stop, Freed
  <2>. QED BY <1>13, <1>14, <2>1, HoldsNothing DEF Rebuilding
<1>2. CASE Close BY <1>1, <1>2 DEF Close
<1>3. CASE Crash BY <1>1, <1>3 DEF Crash
<1>4. CASE VisitorInit
  <2>1. /\ st = "restoring" /\ raw = 0 /\ Records
    BY <1>4 DEF VisitorInit, Base, Scalars
  <2>2. log = {}
    <3>1. \A r \in log : End(r) \in Nat /\ 0 < End(r) /\ End(r) <= 0
      BY <2>1, EndIs DEF Records, RecordSet
    <3>. QED BY <3>1
  <2>3. Holds(wb, tail_offset, 0, restore_blk)
    BY <2>1, <2>2 DEF Rebuilding, Rebuildable
  <2>4. CASE At0 = {}
    <3>1. st' = "exited" BY <1>4, <2>4 DEF VisitorInit
    <3>. QED BY <3>1 DEF Rebuilding
  <2>5. CASE At0 # {}
    <3>1. PICK r \in At0 : log' = {r} /\ raw' = End(r) /\ Rebuilt(r)
      BY <1>4, <2>5 DEF VisitorInit
    <3>2. r \in Record_ /\ End(r) <= MaxLog /\ r.at = 0
      BY <2>1 DEF At0, Records, RecordSet
    <3>3. Short(r, restore_blk) => Holds(wb', tail_offset', End(r), restore_blk)
      BY <2>3, <3>1, <3>2, RebuiltIs
    <3>. QED
      BY <1>13, <3>1, <3>3
      DEF Rebuilding, Rebuildable, Short, RecordLen, End
  <2>. QED BY <2>4, <2>5
<1>5. CASE VisitorNext
  <2>1. /\ st = "restoring" /\ raw = next /\ raw \in Nat /\ Records
    BY <1>5, LimitsAre DEF VisitorNext, Base, Scalars
  <2>2. PICK r \in ToRead : log' = log \cup {r} /\ raw' = End(r) /\ Rebuilt(r)
    BY <1>5 DEF VisitorNext
  <2>3. r \in Record_ /\ End(r) <= MaxLog /\ r.at = raw
    BY <2>1 DEF ToRead, Records, RecordSet
  <2>4. (\A s \in log \cup {r} : Short(s, restore_blk))
          => Holds(wb', tail_offset', End(r), restore_blk)
    BY <2>1, <2>2, <2>3, RebuiltIs, RebuildableIs DEF Rebuilding
  <2>. QED
    BY <1>13, <2>2, <2>4 DEF Rebuilding, Rebuildable, Short, RecordLen, End
<1>6. ASSUME UNCHANGED <<log, raw, wb, tail_offset>>,
             st' = st \/ st = "closed" \/ st' = "open"
      PROVE  Rebuilding'
  BY <1>6, <1>13 DEF Rebuilding, Rebuildable, RecordLen, End
<1>7. CASE RestoreOpen BY <1>6, <1>7 DEF RestoreOpen, kvdb, lfs
<1>8. ASSUME st' = "open" PROVE Rebuilding' BY <1>8 DEF Rebuilding
<1>9. CASE Open BY <1>8, <1>9 DEF Open
<1>10. CASE RestoreDone BY <1>8, <1>10 DEF RestoreDone
<1>15. CASE RestoreAstray BY <1>15 DEF RestoreAstray, Rebuilding
<1>11. ASSUME NEW k \in Keys,
              \/ Lookup(k) \/ Remove(k)
              \/ \E v \in Vals : Insert(k, v) \/ Update(k, v) \/ Replace(k, v)
       PROVE  Rebuilding'
  BY <1>8, <1>11 DEF Lookup, Remove, Insert, Update, Replace, mutate
<1>12. CASE UNCHANGED vars BY <1>6, <1>12 DEF vars, kvdb, lfs
<1>. QED
  BY <1>2, <1>3, <1>4, <1>5, <1>7, <1>9, <1>10, <1>11, <1>12, <1>15
  DEF Next, Ended

LEMMA RebuildingHolds == ASSUME DummyFits PROVE Spec => []Rebuilding
<1>1. Init => Rebuilding
  <2>. SUFFICES ASSUME Init PROVE Rebuilding OBVIOUS
  <2>1. restore_blk \in Nat \ {0}
    BY GeometryIs DEF Init, Geometry
  <2>. QED BY <2>1, HoldsNothing DEF Init, Rebuilding
<1>2. Geometry /\ Base /\ Rebuilding /\ [Next]_vars => Rebuilding'
  BY RebuildingStep
<1>. QED BY <1>1, <1>2, BaseHolds, GeometryHolds, PTL DEF Spec

(* After every record of a restore the write buffer holds the bytes of the *)
(* log from tail_offset on, at a block of the device, and hides none from  *)
(* the next flush.  If the device has blocks of 4096 bytes: as long as no  *)
(* record is longer than one; if it has others: as long as the log is      *)
(* shorter than 4096 bytes.                                                *)
THEOREM BufferIsRebuilt ==
  ASSUME DummyFits PROVE Spec => []BufferRebuilt
<1>1. Rebuilding => BufferRebuilt
  BY DEF Rebuilding, BufferRebuilt, InPlace, Holds
<1>. QED BY <1>1, RebuildingHolds, PTL

-----------------------------------------------------------------------------
(* Reading back the log. *)

(* The records of S lie end to end, from 0 to n. *)
Laid(S, n) ==
  /\ \A r \in S : r.at = 0 \/ \E s \in S : End(s) = r.at
  /\ \A r \in S : End(r) = n \/ \E s \in S : s.at = End(r)
  /\ S # {} => \E r \in S : r.at = 0
  /\ n > 0 => \E r \in S : End(r) = n

(* What was left ends at n, and an older log begins behind the block. *)
OlderBehind(n) ==
  /\ \A r \in left : End(r) <= n
  /\ \E r \in left : End(r) = n
  /\ \A r \in disk \ left : roundUp(n) <= r.at

(* The log that was left ends with a block. *)
EndsAtBlock ==
  \E l \in left : End(l) % Blk = 0 /\ \A r \in left : End(r) <= End(l)

Layout ==
  /\ Laid(log, raw)
  /\ st = "open" => synced <= raw
                    /\ (zeroed => \A r \in disk : r.at < synced)
  /\ st \in {"closed", "restoring"} =>
       /\ \A r \in left : r.at = 0 \/ \E s \in left : End(s) = r.at
       /\ left \subseteq disk
       /\ zeroed => disk = left
       /\ ~zeroed => \E n \in Nat : OlderBehind(n)
  /\ st = "restoring" => log \subseteq disk
  /\ zeroed \/ ~EndsAtBlock =>
       /\ st = "restoring" => log \subseteq left
       /\ st \in {"open", "astray"} => left \subseteq log

LEMMA LaidAdd ==
  ASSUME NEW S, NEW n \in Nat, Laid(S, n), NEW t, t.at = n,
         n = 0 => S = {}
  PROVE  Laid(S \cup {t}, End(t))
<1>1. \A r \in S : r.at = 0 \/ \E s \in S : End(s) = r.at BY DEF Laid
<1>2. \A r \in S : End(r) = n \/ \E s \in S : s.at = End(r) BY DEF Laid
<1>3. n = 0 \/ \E s \in S : End(s) = n BY DEF Laid
<1>4. \E r \in S \cup {t} : r.at = 0 BY <1>3 DEF Laid
<1>5. \A r \in S \cup {t} : r.at = 0 \/ \E s \in S \cup {t} : End(s) = r.at
  BY <1>1, <1>3
<1>6. \A r \in S \cup {t} :
        End(r) = End(t) \/ \E s \in S \cup {t} : s.at = End(r)
  BY <1>2
<1>. QED BY <1>4, <1>5, <1>6 DEF Laid

LEMMA LaidNothing == ASSUME NEW n, n = 0 PROVE Laid({}, n)
BY DEF Laid

(* roundUp() leaves only the end of a block where it is. *)
LEMMA AtBlock ==
  ASSUME NEW n \in Nat, roundUp(n) <= n
  PROVE  n % Blk = 0 /\ roundUp(n) = n
<1>1. Blk \in Nat \ {0} BY BytesAssumption
<1>2. roundUp(n) = n BY RoundUpBounds
<1>3. (-n) % Blk \in Nat /\ n + ((-n) % Blk) = n
  BY <1>1, <1>2 DEF roundUp
<1>4. (-n) % Blk = 0 BY <1>3
<1>5. PICK q \in Int : -n = Blk * q
  <2>. DEFINE a == -n
  <2>1. a \in Int OBVIOUS
  <2>2. a % Blk = 0 BY <1>4
  <2>. HIDE DEF a
  <2>3. \E q \in Int : a = Blk * q BY <1>1, <2>1, <2>2, Multiple, Zenon
  <2>. QED BY <2>3 DEF a
<1>6. n = Blk * (-q)
  <2>1. \A x, y \in Int : x * (-y) = -(x * y) OBVIOUS
  <2>2. Blk * (-q) = -(Blk * q) BY <1>1, <2>1
  <2>3. Blk * q \in Int BY <1>1
  <2>. QED BY <1>5, <2>2, <2>3
<1>7. n \in Int /\ -q \in Int OBVIOUS
<1>8. n % Blk = 0 BY <1>1, <1>6, <1>7, Multiple
<1>. QED BY <1>2, <1>8

(* Records at the front of a log that is laid end to end. *)
LEMMA KeptLaid ==
  ASSUME RecordSet(log), NEW m, Laid(log, m), NEW n \in Nat
  PROVE  \A r \in Kept(n) : r.at = 0 \/ \E s \in Kept(n) : End(s) = r.at
<1>. SUFFICES ASSUME NEW t \in Kept(n)
              PROVE  t.at = 0 \/ \E s \in Kept(n) : End(s) = t.at
  OBVIOUS
<1>1. PICK r \in log : t.at = r.at /\ r.at < n
  <2>1. CASE t \in log
    <3>1. t.at < n BY KeptAre
    <3>. QED BY <2>1, <3>1
  <2>2. CASE t \notin log
    <3>1. PICK r \in log : r.at < n /\ t \in TornRecord(r, n - r.at)
      BY <2>2 DEF Kept
    <3>2. r \in Record_ /\ r.at \in Nat BY DEF RecordSet, Record_
    <3>3. n - r.at \in Nat BY <3>1, <3>2
    <3>4. t.at = r.at BY <3>1, <3>2, <3>3, TornIs
    <3>. QED BY <3>1, <3>4
  <2>. QED BY <2>1, <2>2
<1>2. CASE r.at = 0 BY <1>1, <1>2
<1>3. CASE r.at # 0
  <2>1. PICK s \in log : End(s) = r.at BY <1>3 DEF Laid
  <2>2. End(s) <= n BY <1>1, <2>1, EndIs DEF RecordSet
  <2>3. s \in Kept(n) BY <2>2 DEF Kept
  <2>. QED BY <1>1, <2>1, <2>3
<1>. QED BY <1>2, <1>3

(* All of the log is kept when all of it was flushed. *)
LEMMA KeptAll ==
  ASSUME RecordSet(log), NEW n \in Nat, \A r \in log : End(r) <= n
  PROVE  Kept(n) = log
<1>1. \A r \in log : End(r) \in Nat BY EndIs DEF RecordSet
<1>2. {s \in log : s.at < n /\ n < End(s)} = {} BY <1>1
<1>3. {r \in log : End(r) <= n} = log OBVIOUS
<1>. QED BY <1>2, <1>3 DEF Kept

LEMMA StopLayout ==
  ASSUME Base, Layout, NEW n \in Nat, Stop(n), st = "open",
         synced <= n, zeroed \/ n = raw
  PROVE  Layout'
<1>1. /\ RecordSet(log) /\ RecordSet(disk) /\ raw \in Nat /\ raw > 0
      /\ synced \in Nat /\ \A r \in log : End(r) <= raw
  BY LimitsAre DEF Base, Records, Scalars
<1>2. /\ disk' = Kept(n) \cup Older(n) /\ left' = Kept(n) /\ log' = {}
      /\ raw' = 0 /\ st' = "closed" /\ UNCHANGED zeroed
  BY DEF Stop, Freed
<1>3. \A r \in Kept(n) : r.at = 0 \/ \E s \in Kept(n) : End(s) = r.at
  BY <1>1, KeptLaid DEF Layout
<1>4. ASSUME zeroed PROVE Older(n) = {}
  <2>1. \A r \in disk : r.at < synced /\ r.at \in Nat
    BY <1>4 DEF Layout, Base, Records, RecordSet, Record_
  <2>2. n <= roundUp(n) /\ roundUp(n) \in Nat BY RoundUpBounds
  <2>3. \A r \in disk : ~(r.at >= roundUp(n)) BY <1>1, <2>1, <2>2
  <2>. QED BY <2>3 DEF Older
<1>5. ASSUME ~zeroed
      PROVE  /\ \A r \in Kept(n) : End(r) <= n
             /\ \E r \in Kept(n) : End(r) = n
             /\ \A r \in Older(n) : roundUp(n) <= r.at
  <2>1. n = raw /\ Kept(n) = log BY <1>1, <1>5, KeptAll
  <2>2. \E r \in log : End(r) = raw BY <1>1 DEF Layout, Laid
  <2>3. \A r \in disk : r.at \in Nat BY <1>1 DEF RecordSet, Record_
  <2>4. roundUp(n) \in Nat BY RoundUpBounds
  <2>5. \A r \in Older(n) : roundUp(n) <= r.at BY <2>3, <2>4 DEF Older
  <2>. QED BY <1>1, <2>1, <2>2, <2>5
<1>. HIDE DEF Kept, Older
<1>6. Laid(log', raw') BY <1>2, LaidNothing DEF Laid, End, RecordLen
<1>7. ~zeroed => \E m \in Nat : OlderBehind(m)'
  <2>1. ASSUME ~zeroed PROVE OlderBehind(n)'
    BY <1>2, <1>5, <2>1 DEF OlderBehind, roundUp, End, RecordLen
  <2>. QED BY <2>1
<1>8. \A r \in left' : r.at = 0 \/ \E s \in left' : End(s)' = r.at
  BY <1>2, <1>3 DEF End, RecordLen
<1>9. zeroed => disk' = left' BY <1>2, <1>4
<1>. QED BY <1>2, <1>6, <1>7, <1>8, <1>9 DEF Layout, End, RecordLen

LEMMA LayoutInit == Init => Layout
<1>. SUFFICES ASSUME Init PROVE Layout OBVIOUS
<1>1. /\ st = "closed" /\ log = {} /\ disk = {} /\ left = {} /\ raw = 0
      /\ zeroed = TRUE
  BY DEF Init
<1>2. Laid(log, raw) BY <1>1, LaidNothing
<1>. QED BY <1>1, <1>2 DEF Layout

(* What the end of the log that was left is, for a record that is not left. *)
LEMMA OnlyBehindABlock ==
  ASSUME RecordSet(disk), left \subseteq disk,
         NEW n \in Nat, OlderBehind(n), NEW r \in disk, r \notin left,
         r.at = 0 \/ \E s \in left : End(s) = r.at
  PROVE  EndsAtBlock
<1>1. r.at \in Nat /\ roundUp(n) <= r.at
  BY EndIs DEF OlderBehind, RecordSet
<1>2. PICK l \in left : End(l) = n BY DEF OlderBehind
<1>3. n > 0 BY <1>2, EndIs DEF RecordSet
<1>4. n <= roundUp(n) /\ roundUp(n) \in Nat BY RoundUpBounds
<1>5. r.at # 0 BY <1>1, <1>3, <1>4
<1>6. r.at <= n BY <1>5 DEF OlderBehind
<1>7. n % Blk = 0 BY <1>1, <1>4, <1>6, AtBlock
<1>. QED BY <1>2, <1>7 DEF EndsAtBlock, OlderBehind

(* A step of the restore that reads r. *)
LEMMA ReadLayout ==
  ASSUME Base, Layout, st = "restoring", st' \in {"restoring", "aborted"},
         NEW r \in disk, r.at = raw,
         log' = log \cup {r}, raw' = End(r), raw = 0 => log = {},
         UNCHANGED <<disk, left, zeroed>>
  PROVE  Layout'
<1>1. /\ RecordSet(disk) /\ raw \in Nat
      /\ \A s \in left : s.at = 0 \/ \E t \in left : End(t) = s.at
      /\ left \subseteq disk /\ (zeroed => disk = left)
      /\ (~zeroed => \E n \in Nat : OlderBehind(n))
      /\ log \subseteq disk /\ Laid(log, raw)
  BY LimitsAre DEF Base, Records, Scalars, Layout
<1>2. Laid(log \cup {r}, End(r)) BY <1>1, LaidAdd
<1>3. Laid(log', raw') BY <1>2 DEF Laid, End, RecordLen
<1>4. ASSUME zeroed \/ ~EndsAtBlock PROVE r \in left
  <2>1. log \subseteq left BY <1>4 DEF Layout
  <2>2. CASE zeroed BY <1>1, <2>2
  <2>3. CASE ~zeroed
    <3>1. PICK n \in Nat : OlderBehind(n) BY <1>1, <2>3
    <3>2. r.at = 0 \/ \E s \in left : End(s) = r.at
      BY <1>1, <2>1 DEF Laid
    <3>. QED BY <1>1, <1>4, <2>3, <3>1, <3>2, OnlyBehindABlock
  <2>. QED BY <2>2, <2>3
<1>5. zeroed' \/ ~EndsAtBlock' => zeroed \/ ~EndsAtBlock
  BY DEF EndsAtBlock, End, RecordLen
<1>6. zeroed' \/ ~EndsAtBlock' => log' \subseteq left'
  BY <1>4, <1>5 DEF Layout
<1>7. (~zeroed => \E n \in Nat : OlderBehind(n)')
  BY <1>1 DEF OlderBehind, roundUp, End, RecordLen
<1>8. \A s \in left' : s.at = 0 \/ \E t \in left' : End(t)' = s.at
  BY <1>1 DEF End, RecordLen
<1>9. log' \subseteq disk' BY <1>1
<1>. QED BY <1>1, <1>3, <1>6, <1>7, <1>8, <1>9 DEF Layout, End, RecordLen

(* At the end of a restore, nothing that was left is unread. *)
LEMMA AllRead ==
  ASSUME Base, Layout, st = "restoring", next # 0, ToRead = {}
  PROVE  left \subseteq log
<1>1. /\ RecordSet(disk) /\ raw = next /\ raw \in Nat
      /\ \A s \in left : s.at = 0 \/ \E t \in left : End(t) = s.at
      /\ left \subseteq disk /\ log \subseteq disk /\ Laid(log, raw)
  BY LimitsAre DEF Base, Records, Scalars, Layout
<1>. DEFINE Bad == {r.at : r \in left \ log}
<1>2. SUFFICES ASSUME Bad # {} PROVE FALSE
  OBVIOUS
<1>3. \A r \in disk : r.at \in Nat /\ End(r) \in Nat /\ r.at < End(r)
  BY <1>1, EndIs DEF RecordSet
<1>4. Bad \subseteq Nat BY <1>1, <1>3
<1>5. PICK m \in Bad : \A j \in Bad : m <= j
  <2>. HIDE DEF Bad
  <2>. QED BY <1>2, <1>4, Smallest
<1>6. PICK r \in left \ log : r.at = m BY <1>5
<1>7. PICK t \in log : t.at = r.at
  <2>1. CASE r.at = 0
    <3>1. log # {} BY <1>1 DEF Laid
    <3>. QED BY <1>1, <2>1, <3>1 DEF Laid
  <2>2. CASE r.at # 0
    <3>1. PICK s \in left : End(s) = r.at BY <1>1, <2>2
    <3>2. s.at < r.at /\ s.at \in Nat BY <1>1, <1>3, <3>1
    <3>3. s \in log
      <4>1. s.at < m /\ s.at \in Nat BY <1>6, <3>2
      <4>2. s.at \notin Bad
        <5>. HIDE DEF Bad
        <5>. QED BY <1>4, <1>5, <4>1
      <4>. QED BY <3>1, <4>2
    <3>4. r.at # raw BY <1>1, <1>6 DEF ToRead
    <3>. QED BY <1>1, <3>1, <3>3, <3>4 DEF Laid
  <2>. QED BY <2>1, <2>2
<1>8. t = r BY <1>1, <1>6, <1>7 DEF RecordSet
<1>. QED BY <1>6, <1>8

LEMMA LayoutStep ==
  ASSUME DummyFits, Base, Layout, [Next]_vars
  PROVE  Layout'
<1>1. /\ RecordSet(log) /\ RecordSet(disk) /\ raw \in Nat /\ synced \in Nat
      /\ \A r \in log : End(r) <= raw
  BY LimitsAre DEF Base, Records, Scalars
<1>2. CASE Open
  <2>. DEFINE dummy == Record(0, 0, Zero, Zero)
  <2>1. /\ st' = "open" /\ log' = {dummy} /\ raw' = End(dummy)
        /\ synced' = 0 /\ left' = {} /\ disk' = disk
    BY <1>2 DEF Open
  <2>2. zeroed' = (disk = {}) BY <1>2 DEF Open
  <2>3. zeroed' => disk = {} BY <2>2, Zenon
  <2>4. dummy.at = 0 /\ End(dummy) \in Nat
    <3>1. KeyLen[Zero] \in Nat /\ ValLenOf(Zero) \in Nat
      BY KVStoreAssumption DEF ValLenOf, AllKeys
    <3>. QED BY <3>1 DEF End, RecordLen, Record, MetaLen
  <2>. HIDE DEF dummy
  <2>5. Laid({} \cup {dummy}, End(dummy))
    BY <2>4, LaidAdd, LaidNothing
  <2>6. Laid(log', raw') BY <2>1, <2>5 DEF Laid, End, RecordLen
  <2>. QED BY <2>1, <2>3, <2>4, <2>6 DEF Layout
<1>3. CASE Close
  <2>1. st = "open" /\ Stop(raw) BY <1>3 DEF Close
  <2>. QED BY <1>1, <2>1, StopLayout DEF Layout
<1>4. CASE Crash
  <2>1. PICK n \in synced .. raw : Stop(n) BY <1>4 DEF Crash
  <2>2. n \in Nat /\ synced <= n BY <1>1, <2>1
  <2>. QED BY <1>4, <2>1, <2>2, StopLayout DEF Crash
<1>5. ASSUME UNCHANGED <<log, disk, raw, zeroed, left>>
      PROVE  /\ Laid(log', raw') /\ EndsAtBlock' = EndsAtBlock
             /\ \A n : OlderBehind(n)' = OlderBehind(n)
             /\ \A s : End(s)' = End(s)
  BY <1>5 DEF Layout, Laid, EndsAtBlock, OlderBehind, roundUp, End, RecordLen
<1>6. CASE RestoreOpen
  <2>1. /\ st = "closed" /\ st' = "restoring"
        /\ UNCHANGED <<log, raw, disk, zeroed, left>>
    BY <1>6 DEF RestoreOpen, kvdb, history
  <2>2. log = {} BY <2>1 DEF Base, Scalars
  <2>. QED BY <1>5, <2>1, <2>2 DEF Layout
<1>7. CASE VisitorInit
  <2>1. st = "restoring" /\ raw = 0 /\ UNCHANGED <<disk, zeroed, left>>
    BY <1>7 DEF VisitorInit, history, Base, Scalars
  <2>2. log = {}
    <3>1. \A r \in log : End(r) \in Nat /\ 0 < End(r) /\ End(r) <= 0
      BY <1>1, <2>1, EndIs DEF RecordSet
    <3>. QED BY <3>1
  <2>3. CASE At0 = {}
    <3>1. st' = "exited" /\ UNCHANGED <<log, raw>>
      BY <1>7, <2>3 DEF VisitorInit
    <3>. QED BY <1>5, <2>1, <3>1 DEF Layout
  <2>4. CASE At0 # {}
    <3>1. PICK r \in At0 : log' = {r} /\ raw' = End(r) /\ st' = st
      BY <1>7, <2>4 DEF VisitorInit
    <3>2. r \in disk /\ r.at = raw /\ log' = log \cup {r}
      BY <2>1, <2>2, <3>1 DEF At0
    <3>. QED BY <2>1, <2>2, <3>1, <3>2, ReadLayout
  <2>. QED BY <2>3, <2>4
<1>8. CASE VisitorNext
  <2>1. /\ st = "restoring" /\ raw = next /\ next # 0
        /\ UNCHANGED <<disk, zeroed, left>>
    BY <1>8 DEF VisitorNext, history, Base, Scalars
  <2>2. PICK r \in ToRead : /\ log' = log \cup {r} /\ raw' = End(r)
                            /\ st' \in {"aborted", st}
    BY <1>8 DEF VisitorNext
  <2>3. r \in disk /\ r.at = raw BY <2>1 DEF ToRead
  <2>. QED BY <2>1, <2>2, <2>3, ReadLayout
<1>9. CASE RestoreDone
  <2>1. /\ st = "restoring" /\ next # 0 /\ ToRead = {} /\ st' = "open"
        /\ synced' = raw /\ UNCHANGED <<log, raw, disk, zeroed, left>>
    BY <1>9 DEF RestoreDone, kvdb
  <2>2. left \subseteq log BY <2>1, AllRead
  <2>3. zeroed => \A r \in disk : r.at < raw
    <3>1. \A r \in log : r.at < End(r) /\ End(r) <= raw /\ r.at \in Nat
                         /\ End(r) \in Nat
      BY <1>1, EndIs DEF RecordSet
    <3>. QED BY <1>1, <2>1, <2>2, <3>1 DEF Layout
  <2>. QED BY <1>1, <1>5, <2>1, <2>2, <2>3 DEF Layout
<1>15. CASE RestoreAstray
  <2>1. /\ st = "restoring" /\ next # 0 /\ ToRead = {} /\ st' = "astray"
        /\ UNCHANGED <<log, raw, disk, zeroed, left>>
    BY <1>15 DEF RestoreAstray, kvdb, history
  <2>2. left \subseteq log BY <2>1, AllRead
  <2>. QED BY <1>5, <2>1, <2>2 DEF Layout
<1>10. ASSUME st = "open", st' = "open", UNCHANGED <<disk, zeroed, left>>,
              Laid(log', raw'), log \subseteq log', raw <= raw',
              raw' \in Nat, synced' \in {synced, raw}
       PROVE  Layout'
  <2>1. synced <= raw /\ synced' <= raw' /\ synced <= synced'
    BY <1>1, <1>10 DEF Layout
  <2>2. \A r \in disk : r.at \in Nat BY <1>1 DEF RecordSet, Record_
  <2>3. zeroed => \A r \in disk : r.at < synced'
    BY <1>1, <1>10, <2>1, <2>2 DEF Layout
  <2>4. EndsAtBlock' = EndsAtBlock BY <1>10 DEF EndsAtBlock, End, RecordLen
  <2>. QED BY <1>10, <2>1, <2>3, <2>4 DEF Layout
<1>11. ASSUME NEW k \in Keys, Lookup(k) PROVE Layout'
  <2>1. /\ st = "open" /\ UNCHANGED <<st, disk, zeroed, left, log, raw>>
        /\ synced' \in {synced, raw}
    BY <1>11 DEF Lookup, Synced, kvdb
  <2>. QED BY <1>1, <1>5, <1>10, <2>1
<1>12. ASSUME NEW k \in Keys, NEW v \in Vals \cup {None}, NEW refused,
              NEW grows \in {0, 1}, NEW shrinks \in {0, 1},
              NEW wastes \in {0, 1},
              mutate(k, v, refused, grows, shrinks, wastes)
       PROVE  Layout'
  <2>. DEFINE updated == index_update(index, hash(k))
              ref     == index_lookup(updated, hash(k))
              r       == Record(raw, ref, k, v)
  <2>1. /\ st = "open" /\ UNCHANGED <<st, disk, zeroed, left>>
        /\ synced' = Synced(ref)
    BY <1>12 DEF mutate
  <2>2. CASE Result(k, refused) # 0
    <3>1. UNCHANGED <<log, raw>> BY <1>12, <2>2 DEF mutate
    <3>. HIDE DEF ref
    <3>2. synced' \in {synced, raw} BY <2>1 DEF Synced
    <3>. QED BY <1>1, <1>5, <1>10, <2>1, <3>1, <3>2
  <2>3. CASE Result(k, refused) = 0
    <3>1. log' = log \cup {r} /\ raw' = End(r) BY <1>12, <2>3 DEF mutate
    <3>2. r.at = raw /\ End(r) \in Nat /\ raw <= End(r)
      <4>1. KeyLen[k] \in Nat /\ ValLenOf(v) \in Nat
        BY KVStoreAssumption DEF ValLenOf, AllKeys
      <4>2. End(r) = raw + (MetaLen + KeyLen[k] + ValLenOf(v)) /\ r.at = raw
        BY DEF End, RecordLen, Record
      <4>. QED BY <1>1, <4>1, <4>2 DEF MetaLen
    <3>. HIDE DEF r
    <3>3. raw # 0 BY <2>1 DEF Base, Scalars
    <3>4. Laid(log \cup {r}, End(r))
      BY <1>1, <3>2, <3>3, LaidAdd DEF Layout
    <3>5. Laid(log', raw') BY <3>1, <3>4 DEF Laid, End, RecordLen
    <3>. HIDE DEF ref
    <3>6. synced' \in {synced, raw} BY <2>1 DEF Synced
    <3>. QED BY <1>1, <1>10, <2>1, <3>1, <3>2, <3>5, <3>6
  <2>. QED BY <2>2, <2>3
<1>13. ASSUME NEW k \in Keys,
              \/ Remove(k)
              \/ \E v \in Vals : Insert(k, v) \/ Update(k, v) \/ Replace(k, v)
       PROVE  Layout'
  BY <1>12, <1>13 DEF Remove, Insert, Update, Replace
<1>14. CASE UNCHANGED vars
  <2>1. UNCHANGED <<st, synced, log, raw, disk, zeroed, left>>
    BY <1>14 DEF vars, kvdb, history
  <2>. QED BY <1>5, <2>1 DEF Layout
<1>. QED
  BY <1>2, <1>3, <1>4, <1>6, <1>7, <1>8, <1>9, <1>11, <1>13, <1>14, <1>15
  DEF Next, Ended

LEMMA LayoutHolds == ASSUME DummyFits PROVE Spec => [](Base /\ Layout)
<1>1. Base /\ Layout /\ [Next]_vars => Layout' BY LayoutStep
<1>. QED BY <1>1, LayoutInit, BaseHolds, PTL DEF Spec

(* A restore reads back what the last close or crash left, no more and no  *)
(* less, unless the log that was left ends with a block of a device that   *)
(* still holds an older log.                                               *)
THEOREM ReadsBack == ASSUME DummyFits PROVE Spec => []ReadsBackTheLog
<1>1. ASSUME Base, Layout PROVE ReadsBackTheLog
  <2>. DEFINE ends == {End(r) : r \in left}
              atBlock == \E n \in ends : n % Blk = 0 /\ \A m \in ends : m <= n
  <2>1. EndsAtBlock => atBlock BY DEF EndsAtBlock
  <2>2. ~(~zeroed /\ atBlock) => zeroed \/ ~EndsAtBlock BY <2>1
  <2>. HIDE DEF atBlock
  <2>3. ~(~zeroed /\ atBlock) =>
          /\ st = "restoring" => log \subseteq left
          /\ st \in {"open", "astray"} => left \subseteq log
    BY <1>1, <2>2 DEF Layout
  <2>. USE DEF atBlock
  <2>. QED BY <2>3 DEF ReadsBackTheLog
<1>. QED BY <1>1, LayoutHolds, PTL

-----------------------------------------------------------------------------
(* The chains. *)

(* The records of S before n on the chain of k. *)
Behind(S, k, n) ==
  {r \in S : 0 < r.at /\ r.at < n /\ hash(r.key) = hash(k)}

Removed(L, k) == \E r \in L : r.val_len = 0 /\ hash(r.key) = hash(k)

(* NewestBefore, for any log S and any records L left. *)
LeadsBack(S, L, k, n, off) ==
  IF off # 0 THEN \E r \in Behind(S, k, n) :
                    r.at = off /\ \A s \in Behind(S, k, n) : s.at <= off
             ELSE Behind(S, k, n) = {} \/ Removed(L, k)

AllLeadBack(S, L) ==
  \A r \in S : r.at > 0 /\ r.key # Zero => LeadsBack(S, L, r.key, r.at, r.off)

(* No record of S begins within another. *)
Apart(S) == \A r, s \in S : r.at < s.at => End(r) <= s.at

EntriesLeadBack ==
  \A k \in AllKeys :
    LeadsBack(log, left, k, raw, index_lookup(index, hash(k)))

(* The entries lead to the newest records and so do the records: those     *)
(* that were left, until all are read, and then those of the log.  What    *)
(* was left is flushed, so no crash takes a removal away.                  *)
Chaining ==
  /\ Apart(log)
  /\ st \in {"open", "closed", "restoring"} /\ (zeroed \/ left = {}) =>
       /\ EntriesLeadBack
       /\ st # "open" => AllLeadBack(left, left)
       /\ st = "open" => /\ AllLeadBack(log, left)
                         /\ \A r \in left : r \in log /\ End(r) <= synced

(* A record at the end is behind none, is on no chain but its own, and is  *)
(* the last on that.                                                       *)
LEMMA BehindSame ==
  ASSUME NEW S, NEW r, NEW k, NEW m \in Nat, r.at \in Nat, m <= r.at
  PROVE  Behind(S \cup {r}, k, m) = Behind(S, k, m)
BY DEF Behind

LEMMA BehindOther ==
  ASSUME NEW S, NEW r, NEW k, NEW m \in Nat, r.at \in Nat, r.at < m,
         \A s \in S : s.at \in Nat /\ s.at < r.at,
         hash(r.key) # hash(k)
  PROVE  Behind(S \cup {r}, k, m) = Behind(S, k, r.at)
BY DEF Behind

LEMMA BehindLast ==
  ASSUME NEW S, NEW r, NEW k, NEW m \in Nat, r.at \in Nat \ {0}, r.at < m,
         \A s \in S : s.at \in Nat /\ s.at < r.at,
         hash(r.key) = hash(k)
  PROVE  /\ r \in Behind(S \cup {r}, k, m)
         /\ \A s \in Behind(S \cup {r}, k, m) : s.at <= r.at
BY DEF Behind

LEMMA LeadsBackTo ==
  ASSUME NEW S, NEW T, NEW L, NEW k, NEW m, NEW n, NEW off,
         Behind(T, k, n) = Behind(S, k, m), LeadsBack(S, L, k, m, off)
  PROVE  LeadsBack(T, L, k, n, off)
BY DEF LeadsBack

LEMMA LeadsBackToLast ==
  ASSUME NEW T, NEW L, NEW k, NEW n, NEW r, r.at # 0,
         r \in Behind(T, k, n), \A s \in Behind(T, k, n) : s.at <= r.at
  PROVE  LeadsBack(T, L, k, n, r.at)
BY DEF LeadsBack

(* What a flush leaves of a record with its key whole is the key and the   *)
(* offset of the record before.                                            *)
LEMMA TornKeeps ==
  ASSUME NEW r \in Record_, NEW n \in Nat, NEW t \in TornRecord(r, n),
         t.key # Zero
  PROVE  t.key = r.key /\ t.off = r.off
<1>1. n # 0 BY DEF TornRecord
<1>. DEFINE off     == IF n >= 2 THEN r.off ELSE 0
            key_len == IF n >= 3 THEN r.key_len ELSE 0
            val_len == IF n >= 4 THEN r.val_len ELSE 0
            key     == IF n >= MetaLen + r.key_len THEN r.key ELSE Zero
            val     == IF n >= 4 /\ r.val_len > 0 THEN Torn ELSE None
<1>2. t = [r EXCEPT !.off = off, !.key_len = key_len, !.val_len = val_len,
                    !.key = key, !.val = val]
  BY <1>1 DEF TornRecord
<1>. HIDE DEF off, key_len, val_len, key, val
<1>3. t.key = key /\ t.off = off BY <1>2 DEF Record_
<1>4. n >= MetaLen + r.key_len BY <1>3 DEF key
<1>5. n >= 2 BY <1>4 DEF MetaLen, Record_
<1>. QED BY <1>3, <1>4, <1>5 DEF key, off

LEMMA KeptBehind ==
  ASSUME RecordSet(log), Apart(log), NEW n \in Nat, NEW r \in log, r.at < n,
         NEW k
  PROVE  Behind(Kept(n), k, r.at) = Behind(log, k, r.at)
<1>1. r.at \in Nat BY DEF RecordSet, Record_
<1>2. ASSUME NEW s \in log, s.at < r.at
      PROVE  End(s) <= n /\ ~(n < End(s))
  <2>1. End(s) <= r.at BY <1>2 DEF Apart
  <2>2. End(s) \in Nat BY EndIs DEF RecordSet
  <2>. QED BY <1>1, <2>1, <2>2
<1>3. ASSUME NEW u \in Kept(n), u.at < r.at PROVE u \in log
  <2>1. CASE u \in log BY <2>1
  <2>2. CASE u \notin log
    <3>1. PICK s \in log : /\ s.at < n /\ n < End(s)
                           /\ u \in TornRecord(s, n - s.at)
      BY <2>2 DEF Kept
    <3>2. s \in Record_ /\ s.at \in Nat BY DEF RecordSet, Record_
    <3>3. n - s.at \in Nat BY <3>1, <3>2
    <3>4. u.at = s.at BY <3>1, <3>2, <3>3, TornIs
    <3>. QED BY <1>2, <1>3, <3>1, <3>4
  <2>. QED BY <2>1, <2>2
<1>4. ASSUME NEW s \in log, s.at < r.at PROVE s \in Kept(n)
  BY <1>2, <1>4 DEF Kept
<1>. HIDE DEF Kept
<1>. QED BY <1>3, <1>4 DEF Behind

(* The chains of what a close or a crash leaves. *)
LEMMA KeptLeadsBack ==
  ASSUME RecordSet(log), Apart(log), AllLeadBack(log, left),
         synced \in Nat, NEW n \in Nat, synced <= n,
         \A r \in left : r \in log /\ End(r) <= synced
  PROVE  AllLeadBack(Kept(n), Kept(n))
<1>1. left \subseteq Kept(n)
  <2>1. ASSUME NEW r \in left PROVE r \in log /\ End(r) <= n
    <3>1. End(r) \in Nat BY EndIs DEF RecordSet
    <3>. QED BY <3>1
  <2>. QED BY <2>1 DEF Kept
<1>2. SUFFICES ASSUME NEW t \in Kept(n), t.at > 0, t.key # Zero
               PROVE  LeadsBack(Kept(n), Kept(n), t.key, t.at, t.off)
  BY DEF AllLeadBack
<1>3. PICK r \in log : t.at = r.at /\ t.key = r.key /\ t.off = r.off /\ r.at < n
  <2>1. CASE t \in log BY <2>1, KeptAre
  <2>2. CASE t \notin log
    <3>1. PICK s \in log : s.at < n /\ t \in TornRecord(s, n - s.at)
      BY <2>2 DEF Kept
    <3>2. s \in Record_ /\ s.at \in Nat BY DEF RecordSet, Record_
    <3>3. n - s.at \in Nat BY <3>1, <3>2
    <3>. QED BY <1>2, <3>1, <3>2, <3>3, TornIs, TornKeeps
  <2>. QED BY <2>1, <2>2
<1>4. LeadsBack(log, left, t.key, t.at, t.off)
  BY <1>2, <1>3 DEF AllLeadBack
<1>5. Behind(Kept(n), t.key, t.at) = Behind(log, t.key, t.at)
  BY <1>3, KeptBehind
<1>6. Removed(left, t.key) => Removed(Kept(n), t.key)
  BY <1>1 DEF Removed
<1>. QED BY <1>4, <1>5, <1>6 DEF LeadsBack

LEMMA ChainingInit == Init => Chaining
<1>. SUFFICES ASSUME Init PROVE Chaining OBVIOUS
<1>1. st = "closed" /\ log = {} /\ left = {} /\ index = index_open
  BY DEF Init
<1>2. EntriesLeadBack
  <2>1. \A k \in AllKeys : index_lookup(index, hash(k)) = 0
    BY <1>1, NewIndex, HashIsKey
  <2>. QED BY <1>1, <2>1 DEF EntriesLeadBack, LeadsBack, Behind
<1>. QED BY <1>1, <1>2 DEF Chaining, Apart, AllLeadBack

(* The new record begins where the log ended. *)
LEMMA ApartAdd ==
  ASSUME RecordSet(log), Apart(log), \A r \in log : End(r) <= raw,
         raw \in Nat, NEW t \in Record_, t.at = raw
  PROVE  Apart(log \cup {t}) /\ \A r \in log : r.at \in Nat /\ r.at < raw
<1>1. \A r \in log : r.at \in Nat /\ End(r) \in Nat /\ r.at < End(r)
  BY EndIs DEF RecordSet
<1>. QED BY <1>1 DEF Apart

(* One entry now leads to the new record; the others lead where they did.  *)
LEMMA EntriesAfter ==
  ASSUME Base, EntriesLeadBack, raw > 0, NEW r \in Record_, r.at = raw,
         log' = log \cup {r}, raw' = End(r), left' = left,
         NEW off \in {0, r.at}, off = 0 => Removed(left, r.key),
         index' = SetOff(index_update(index, hash(r.key)), hash(r.key), off)
  PROVE  EntriesLeadBack'
<1>1. /\ raw \in Nat /\ RecordSet(log) /\ Sound(index)
      /\ \A s \in log : End(s) <= raw
  BY LimitsAre DEF Base, Scalars, Records, IndexInv
<1>2. raw' \in Nat /\ raw < raw' BY EndIs
<1>3. hash(r.key) \in HashKey /\ \A k \in AllKeys : hash(k) \in HashKey
  BY HashIsKey DEF Record_
<1>4. \A k \in HashKey :
        index_lookup(index', k) =
          IF k = hash(r.key) THEN off ELSE index_lookup(index, k)
  BY <1>1, <1>3, PutIs
<1>5. \A s \in log : s.at \in Nat /\ s.at < raw
  <2>1. \A s \in log : s.at \in Nat /\ End(s) \in Nat /\ s.at < End(s)
    BY <1>1, EndIs DEF RecordSet
  <2>. QED BY <1>1, <2>1
<1>6. ASSUME NEW k \in AllKeys
      PROVE  LeadsBack(log', left, k, raw', index_lookup(index', hash(k)))
  <2>1. CASE hash(k) = hash(r.key)
    <3>1. index_lookup(index', hash(k)) = off BY <1>3, <1>4, <2>1
    <3>2. CASE off = 0
      <4>1. Removed(left, k) BY <2>1, <3>2 DEF Removed
      <4>. QED BY <3>1, <3>2, <4>1 DEF LeadsBack
    <3>3. CASE off = r.at
      <4>1. /\ r \in Behind(log', k, raw')
            /\ \A s \in Behind(log', k, raw') : s.at <= r.at
        <5>. DEFINE m == raw'
        <5>1. m \in Nat /\ r.at < m /\ r.at \in Nat \ {0}
          BY <1>1, <1>2
        <5>2. \A s \in log : s.at \in Nat /\ s.at < r.at BY <1>5
        <5>. HIDE DEF m
        <5>3. /\ r \in Behind(log \cup {r}, k, m)
              /\ \A s \in Behind(log \cup {r}, k, m) : s.at <= r.at
          BY <2>1, <5>1, <5>2, BehindLast
        <5>. QED BY <5>3 DEF m
      <4>2. r.at # 0 BY <1>1
      <4>. QED BY <3>1, <3>3, <4>1, <4>2, LeadsBackToLast
    <3>. QED BY <3>2, <3>3
  <2>2. CASE hash(k) # hash(r.key)
    <3>1. index_lookup(index', hash(k)) = index_lookup(index, hash(k))
      BY <1>3, <1>4, <2>2
    <3>2. Behind(log', k, raw') = Behind(log, k, raw)
      <4>1. hash(r.key) # hash(k) BY <2>2
      <4>. DEFINE m == raw'
      <4>2. m \in Nat /\ raw < m BY <1>2
      <4>. HIDE DEF m
      <4>3. Behind(log \cup {r}, k, m) = Behind(log, k, raw)
        BY <1>1, <1>5, <4>1, <4>2, BehindOther
      <4>. QED BY <4>3 DEF m
    <3>3. LeadsBack(log, left, k, raw, index_lookup(index, hash(k)))
      BY DEF EntriesLeadBack
    <3>. QED BY <3>1, <3>2, <3>3, LeadsBackTo
  <2>. QED BY <2>1, <2>2
<1>. QED BY <1>6 DEF EntriesLeadBack

LEMMA ChainingMutate ==
  ASSUME Base, Chaining, NEW k \in Keys, NEW v \in Vals \cup {None},
         NEW refused, NEW grows, NEW shrinks, NEW wastes,
         mutate(k, v, refused, grows, shrinks, wastes)
  PROVE  Chaining'
<1>. DEFINE updated == index_update(index, hash(k))
            ref     == index_lookup(updated, hash(k))
            r       == Record(raw, ref, k, v)
<1>1. /\ st = "open" /\ raw \in Nat /\ raw > 0 /\ RecordSet(log)
      /\ Sound(index) /\ \A s \in log : End(s) <= raw
      /\ raw <= MaxLog /\ synced \in Nat
  BY LimitsAre DEF mutate, Base, Scalars, Records, IndexInv
<1>2. hash(k) \in HashKey /\ k \in AllKeys BY HashIsKey DEF AllKeys
<1>3. \A j \in HashKey : index_lookup(updated, j) = index_lookup(index, j)
  BY <1>1, <1>2, UpdatesKeepEntries
<1>4. ref = index_lookup(index, hash(k)) BY <1>2, <1>3
<1>5. ref \in Nat /\ ref < raw
  BY <1>1, <1>2, <1>4, LookupIs DEF Base, IndexInv
<1>6. st' = "open" /\ UNCHANGED <<left, zeroed>> /\ synced' = Synced(ref)
  BY DEF mutate
<1>7. CASE Result(k, refused) # 0
  <2>1. index' = updated /\ UNCHANGED <<log, raw>> BY <1>7 DEF mutate
  <2>. HIDE DEF updated, ref
  <2>2. EntriesLeadBack => EntriesLeadBack'
    <3>1. \A j \in AllKeys : hash(j) \in HashKey BY HashIsKey
    <3>. QED BY <1>3, <1>6, <2>1, <3>1 DEF EntriesLeadBack
  <2>3. synced' \in {synced, raw} BY <1>6 DEF Synced
  <2>4. \A s \in log : End(s)' = End(s) /\ End(s) \in Nat
    BY <1>1, EndIs DEF End, RecordLen, RecordSet
  <2>. QED BY <1>1, <1>6, <2>1, <2>2, <2>3, <2>4 DEF Chaining, Apart
<1>8. CASE Result(k, refused) = 0
  <2>1. /\ log' = log \cup {r} /\ raw' = End(r)
        /\ index' = SetOff(updated, hash(k), raw)
        /\ End(r) <= IF zeroed THEN MaxLog ELSE MaxOver
    BY <1>8 DEF mutate
  <2>2. End(r) <= MaxLog
    <3>1. KeyLen[k] \in Nat /\ ValLenOf(v) \in Nat
      BY <1>2, KVStoreAssumption DEF ValLenOf
    <3>2. End(r) = raw + (MetaLen + KeyLen[k] + ValLenOf(v))
      BY DEF End, RecordLen, Record
    <3>3. End(r) \in Nat BY <1>1, <3>1, <3>2 DEF MetaLen
    <3>. QED BY <2>1, <3>3, LimitsAre
  <2>3. r \in Record_ /\ r.at = raw /\ r.off = ref /\ r.key = k
    BY <1>1, <1>2, <1>5, <2>2, RecordIs
  <2>4. index' = SetOff(index_update(index, hash(r.key)), hash(r.key), r.at)
    BY <2>1, <2>3
  <2>. HIDE DEF updated, ref, r
  <2>5. Apart(log \cup {r}) /\ \A s \in log : s.at \in Nat /\ s.at < raw
    BY <1>1, <2>3, ApartAdd DEF Chaining
  <2>6. Apart(log') BY <2>1, <2>5
  <2>7. SUFFICES ASSUME zeroed \/ left = {}
                 PROVE  /\ EntriesLeadBack'
                        /\ AllLeadBack(log', left)
                        /\ \A s \in left : s \in log' /\ End(s) <= synced'
    BY <1>6, <2>6 DEF Chaining, Apart, End, RecordLen
  <2>8. /\ EntriesLeadBack /\ AllLeadBack(log, left)
        /\ \A s \in left : s \in log /\ End(s) <= synced
    BY <1>1, <2>7 DEF Chaining
  <2>9. EntriesLeadBack'
    BY <1>1, <1>6, <2>1, <2>3, <2>4, <2>8, EntriesAfter
  <2>10. ASSUME NEW t \in log', t.at > 0, t.key # Zero
         PROVE  LeadsBack(log', left, t.key, t.at, t.off)
    <3>1. CASE t \in log
      <4>1. t.at \in Nat /\ t.at <= r.at /\ r.at \in Nat
        BY <1>1, <2>3, <2>5, <3>1
      <4>2. Behind(log \cup {r}, t.key, t.at) = Behind(log, t.key, t.at)
        BY <4>1, BehindSame
      <4>3. LeadsBack(log, left, t.key, t.at, t.off)
        BY <2>8, <2>10, <3>1 DEF AllLeadBack
      <4>. QED BY <2>1, <4>2, <4>3, LeadsBackTo
    <3>2. CASE t = r
      <4>1. Behind(log \cup {r}, k, raw) = Behind(log, k, raw)
        BY <1>1, <2>3, BehindSame
      <4>2. LeadsBack(log, left, k, raw, ref)
        BY <1>2, <1>4, <2>8 DEF EntriesLeadBack
      <4>. QED BY <2>1, <2>3, <3>2, <4>1, <4>2, LeadsBackTo
    <3>. QED BY <2>1, <3>1, <3>2
  <2>11. synced' \in {synced, raw} BY <1>6 DEF Synced
  <2>12. \A s \in left : s \in log' /\ End(s) <= synced'
    <3>1. \A s \in log : End(s) \in Nat BY <1>1, EndIs DEF RecordSet
    <3>. QED BY <1>1, <2>1, <2>8, <2>11, <3>1
  <2>. QED BY <2>9, <2>10, <2>12 DEF AllLeadBack
<1>. QED BY <1>7, <1>8

LEMMA ChainingStop ==
  ASSUME Base, Layout, Chaining, NEW n \in Nat, Stop(n), st = "open",
         synced <= n, zeroed \/ n = raw
  PROVE  Chaining'
<1>1. /\ RecordSet(log) /\ raw \in Nat /\ raw > 0 /\ synced \in Nat
      /\ \A r \in log : End(r) <= raw
  BY LimitsAre DEF Base, Records, Scalars
<1>2. /\ left' = Kept(n) /\ log' = {} /\ raw' = 0 /\ st' = "closed"
      /\ index' = index_open /\ UNCHANGED zeroed
  BY DEF Stop, Freed
<1>3. EntriesLeadBack'
  <2>1. \A k \in AllKeys : index_lookup(index', hash(k)) = 0
    BY <1>2, NewIndex, HashIsKey
  <2>. QED BY <1>2, <2>1 DEF EntriesLeadBack, LeadsBack, Behind
<1>4. ASSUME zeroed \/ Kept(n) = {} PROVE AllLeadBack(Kept(n), Kept(n))
  <2>1. CASE zeroed
    <3>1. /\ Apart(log) /\ AllLeadBack(log, left)
          /\ \A r \in left : r \in log /\ End(r) <= synced
      BY <2>1 DEF Chaining
    <3>. QED BY <1>1, <3>1, KeptLeadsBack
  <2>2. CASE Kept(n) = {} BY <2>2 DEF AllLeadBack
  <2>. QED BY <1>4, <2>1, <2>2
<1>. HIDE DEF Kept
<1>. QED BY <1>2, <1>3, <1>4 DEF Chaining, Apart

LEMMA ChainingNext ==
  ASSUME Base, Layout, Layout', Chaining, VisitorNext
  PROVE  Chaining'
<1>1. /\ st = "restoring" /\ raw = next /\ next # 0 /\ raw \in Nat
      /\ UNCHANGED <<disk, zeroed, left>>
      /\ RecordSet(log) /\ RecordSet(disk) /\ \A s \in log : End(s) <= raw
  BY LimitsAre DEF VisitorNext, history, Base, Scalars, Records
<1>2. PICK r \in ToRead :
        /\ log' = log \cup {r} /\ raw' = End(r)
        /\ IF r.key_len = 0
           THEN st' = "aborted" /\ UNCHANGED <<index, size, waste>>
           ELSE Indexed(r) /\ UNCHANGED st
  BY DEF VisitorNext
<1>3. r \in disk /\ r.at = raw /\ r \in Record_
  BY <1>1 DEF ToRead, RecordSet
<1>4. Apart(log')
  BY <1>1, <1>2, <1>3, ApartAdd DEF Chaining
<1>5. CASE r.key_len = 0
  <2>1. st' = "aborted" BY <1>2, <1>5
  <2>. QED BY <1>4, <2>1 DEF Chaining, Apart, End, RecordLen
<1>6. CASE r.key_len # 0
  <2>1. st' = "restoring" /\ Indexed(r) BY <1>1, <1>2, <1>6
  <2>2. SUFFICES ASSUME zeroed \/ left = {}
                 PROVE  EntriesLeadBack' /\ AllLeadBack(left, left)
    BY <1>1, <1>4, <2>1 DEF Chaining, Apart, End, RecordLen
  <2>3. EntriesLeadBack /\ AllLeadBack(left, left)
    BY <1>1, <2>2 DEF Chaining
  <2>4. zeroed
    <3>1. ASSUME ~zeroed PROVE left # {}
      BY <1>1, <3>1 DEF Layout, OlderBehind
    <3>. QED BY <2>2, <3>1
  <2>5. r \in left BY <1>1, <1>3, <2>4 DEF Layout
  <2>6. PICK off \in {0, r.at} :
          /\ index' = SetOff(index_update(index, hash(r.key)), hash(r.key), off)
          /\ off = 0 => r.val_len = 0
    <3>1. CASE r.val_len = 0
      <4>1. index' = SetOff(index_update(index, hash(r.key)), hash(r.key), 0)
        BY <2>1, <3>1 DEF Indexed
      <4>. QED BY <3>1, <4>1
    <3>2. CASE r.val_len # 0
      <4>1. index' = SetOff(index_update(index, hash(r.key)), hash(r.key), r.at)
        BY <2>1, <3>2 DEF Indexed
      <4>2. r.at # 0 BY <1>1, <1>3
      <4>. QED BY <4>1, <4>2
    <3>. QED BY <3>1, <3>2
  <2>7. off = 0 => Removed(left, r.key) BY <2>5, <2>6 DEF Removed
  <2>8. raw > 0 /\ left' = left BY <1>1
  <2>9. EntriesLeadBack'
    BY <1>2, <1>3, <2>3, <2>6, <2>7, <2>8, EntriesAfter
  <2>. QED BY <2>3, <2>9
<1>. QED BY <1>5, <1>6

LEMMA ChainingStep ==
  ASSUME DummyFits, Base, Layout, Layout', Chaining, [Next]_vars
  PROVE  Chaining'
<1>1. /\ RecordSet(log) /\ RecordSet(disk) /\ raw \in Nat /\ synced \in Nat
      /\ \A r \in log : End(r) <= raw
  BY LimitsAre DEF Base, Records, Scalars
<1>2. CASE Open
  <2>. DEFINE dummy == Record(0, 0, Zero, Zero)
  <2>1. /\ st' = "open" /\ log' = {dummy} /\ left' = {}
        /\ index' = index_open
    BY <1>2 DEF Open
  <2>2. dummy.at = 0 BY DEF Record
  <2>. HIDE DEF dummy
  <2>3. \A k \in AllKeys : index_lookup(index', hash(k)) = 0
    BY <2>1, NewIndex, HashIsKey
  <2>4. EntriesLeadBack'
    BY <2>1, <2>2, <2>3 DEF EntriesLeadBack, LeadsBack, Behind
  <2>5. AllLeadBack(log', left') BY <2>1, <2>2 DEF AllLeadBack
  <2>6. Apart(log') BY <2>1, <2>2 DEF Apart
  <2>. QED BY <2>1, <2>4, <2>5, <2>6 DEF Chaining, Apart, End, RecordLen
<1>3. CASE Close
  <2>1. st = "open" /\ Stop(raw) BY <1>3 DEF Close
  <2>. QED BY <1>1, <2>1, ChainingStop DEF Layout
<1>4. CASE Crash
  <2>1. PICK n \in synced .. raw : Stop(n) BY <1>4 DEF Crash
  <2>2. n \in Nat /\ synced <= n BY <1>1, <2>1
  <2>. QED BY <1>4, <2>1, <2>2, ChainingStop DEF Crash
<1>5. ASSUME UNCHANGED <<log, raw, index, zeroed, left>>
      PROVE  /\ Apart(log') /\ (EntriesLeadBack => EntriesLeadBack')
             /\ \A s : End(s)' = End(s)
  BY <1>5 DEF Chaining, Apart, EntriesLeadBack, End, RecordLen
<1>6. CASE RestoreOpen
  <2>1. /\ st = "closed" /\ st' = "restoring"
        /\ UNCHANGED <<log, raw, index, zeroed, left>>
    BY <1>6 DEF RestoreOpen, kvdb, history
  <2>. QED BY <1>5, <2>1 DEF Chaining, Apart, End, RecordLen
<1>7. CASE VisitorInit
  <2>1. /\ st = "restoring" /\ raw = 0 /\ log = {}
        /\ UNCHANGED <<index, zeroed, left>>
    <3>1. /\ st = "restoring" /\ raw = 0 /\ UNCHANGED <<index, zeroed, left>>
      BY <1>7 DEF VisitorInit, history, Base, Scalars
    <3>2. \A r \in log : End(r) \in Nat /\ 0 < End(r) /\ End(r) <= 0
      BY <1>1, <3>1, EndIs DEF RecordSet
    <3>. QED BY <3>1, <3>2
  <2>2. CASE At0 = {}
    <3>1. st' = "exited" /\ UNCHANGED <<log, raw>>
      BY <1>7, <2>2 DEF VisitorInit
    <3>. QED BY <1>5, <2>1, <3>1 DEF Chaining, Apart, End, RecordLen
  <2>3. CASE At0 # {}
    <3>1. PICK r \in At0 : log' = {r} /\ raw' = End(r) /\ st' = st
      BY <1>7, <2>3 DEF VisitorInit
    <3>2. r.at = 0 BY DEF At0
    <3>3. ASSUME NEW k \in AllKeys
          PROVE  index_lookup(index, hash(k)) = 0
      <4>1. /\ index_lookup(index, hash(k)) \in Nat
            /\ index_lookup(index, hash(k)) = 0
               \/ index_lookup(index, hash(k)) < raw
        BY HashIsKey, LookupIs DEF Base, IndexInv
      <4>. QED BY <2>1, <4>1
    <3>4. EntriesLeadBack'
      BY <2>1, <3>1, <3>2, <3>3 DEF EntriesLeadBack, LeadsBack, Behind
    <3>5. Apart(log') BY <3>1, <3>2 DEF Apart
    <3>. QED
      BY <2>1, <3>1, <3>4, <3>5 DEF Chaining, Apart, End, RecordLen
  <2>. QED BY <2>2, <2>3
<1>8. CASE VisitorNext BY <1>8, ChainingNext
<1>9. CASE RestoreDone
  <2>1. /\ st = "restoring" /\ next # 0 /\ ToRead = {} /\ st' = "open"
        /\ synced' = raw /\ UNCHANGED <<log, raw, index, zeroed, left>>
    BY <1>9 DEF RestoreDone, kvdb
  <2>2. left \subseteq log BY <2>1, AllRead
  <2>3. ASSUME zeroed \/ left = {}
        PROVE  /\ EntriesLeadBack /\ AllLeadBack(log, left)
               /\ \A s \in left : s \in log /\ End(s) <= raw
    <3>1. zeroed
      <4>1. ASSUME ~zeroed PROVE left # {}
        BY <2>1, <4>1 DEF Layout, OlderBehind
      <4>. QED BY <2>3, <4>1
    <3>2. log = left BY <2>1, <2>2, <3>1 DEF Layout
    <3>. QED BY <1>1, <2>1, <2>3, <3>2 DEF Chaining
  <2>. QED BY <1>5, <2>1, <2>3 DEF Chaining, Apart, End, RecordLen
<1>14. CASE RestoreAstray
  <2>1. st' = "astray" /\ UNCHANGED <<log, raw, index, zeroed, left>>
    BY <1>14 DEF RestoreAstray, kvdb, history
  <2>. QED BY <1>5, <2>1 DEF Chaining, Apart, End, RecordLen
<1>10. ASSUME NEW k \in Keys, Lookup(k) PROVE Chaining'
  <2>1. /\ st = "open" /\ UNCHANGED <<st, index, zeroed, left, log, raw>>
        /\ synced' \in {synced, raw}
    BY <1>10 DEF Lookup, Synced, kvdb
  <2>2. \A s \in log : End(s) \in Nat BY <1>1, EndIs DEF RecordSet
  <2>. QED BY <1>1, <1>5, <2>1, <2>2 DEF Chaining, Apart, End, RecordLen
<1>11. ASSUME NEW k \in Keys, Remove(k) PROVE Chaining'
  BY <1>11, ChainingMutate DEF Remove
<1>12. ASSUME NEW k \in Keys, NEW v \in Vals,
              Insert(k, v) \/ Update(k, v) \/ Replace(k, v)
       PROVE  Chaining'
  BY <1>12, ChainingMutate DEF Insert, Update, Replace
<1>13. CASE UNCHANGED vars
  <2>1. UNCHANGED <<st, synced, log, raw, index, zeroed, left>>
    BY <1>13 DEF vars, kvdb, history
  <2>. QED BY <1>5, <2>1 DEF Chaining, Apart, End, RecordLen
<1>. QED
  BY <1>2, <1>3, <1>4, <1>6, <1>7, <1>8, <1>9, <1>10, <1>11, <1>12, <1>13,
     <1>14
  DEF Next, Ended

LEMMA ChainingHolds ==
  ASSUME DummyFits PROVE Spec => [](Base /\ Layout /\ Chaining)
<1>1. Base /\ Layout /\ Layout' /\ Chaining /\ [Next]_vars => Chaining'
  BY ChainingStep
<1>. QED BY <1>1, ChainingInit, LayoutHolds, PTL DEF Spec

(* The entry of every hash holds the offset of the newest record with that *)
(* hash and every record that of the newest before it, across closes,      *)
(* crashes and restores; where an offset is 0 there is none, or a removal  *)
(* has been restored.                                                      *)
THEOREM ChainsAlwaysLeadBack ==
  ASSUME DummyFits PROVE Spec => []ChainsLeadBack
<1>1. \A k, n, off :
        LeadsBack(log, left, k, n, off) => NewestBefore(k, n, off)
  BY DEF LeadsBack, NewestBefore, Behind, Removed
<1>2. ASSUME Base, Chaining PROVE ChainsLeadBack
  BY <1>1, <1>2 DEF Chaining, ChainsLeadBack, EntriesLeadBack, AllLeadBack
<1>3. Base /\ Chaining => ChainsLeadBack BY <1>2
<1>. QED BY <1>3, ChainingHolds, PTL
=============================================================================

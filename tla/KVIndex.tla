------------------------------ MODULE KVIndex ------------------------------
(***************************************************************************)
(* The hash index of src/p4/index.c: open addressing with linear probing   *)
(* in a table that grows.  It maps the hash of a key to the offset of a    *)
(* record of the log; a slot whose key is 0 is free.                       *)
(***************************************************************************)
EXTENDS Integers

CONSTANT Growth   \* slots added before the table grows by half (97)

ASSUME KVIndexAssumption == Growth \in Nat \ {0}

Slots(index) == 0 .. index.capacity - 1

(* Mutant of create: one slot too many. *)
CreateOneMore(capacity) ==
  [capacity |-> capacity, size |-> 0,
   maps |-> [j \in 0 .. capacity |-> [key |-> 0, off |-> 0]]]

create(capacity) ==
  [capacity |-> capacity, size |-> 0,
   maps |-> [j \in 0 .. capacity - 1 |-> [key |-> 0, off |-> 0]]]

index_open == create(0)

(* The steps of a probe at which it would stop, and the slot of the first. *)
Stops(index, key) ==
  {i \in Slots(index) :
     index.maps[(key + i) % index.capacity].key \in {0, key}}

Probe(index, key) ==
  (key + (CHOOSE i \in Stops(index, key) :
            \A k \in Stops(index, key) : i <= k)) % index.capacity

update(index, key) ==
  LET j == Probe(index, key)
  IN  IF index.maps[j].key = key THEN index
      ELSE [index EXCEPT !.maps[j] = [key |-> key, off |-> 0], !.size = @ + 1]

(* What the caller does through the reference that update() returns.       *)
SetOff(index, key, off) ==
  [index EXCEPT !.maps[Probe(index, key)].off = off]

IsLoaded(index) == index.capacity = 0 \/ 10 * index.size > 7 * index.capacity

Larger(index) == ((index.capacity + Growth) * 3) \div 2

(* Mutant of grow: the slots are copied to where they were. *)
GrowInPlace(index) ==
  IF ~IsLoaded(index) THEN index
  ELSE [create(Larger(index)) EXCEPT
          !.size = index.size,
          !.maps = [j \in 0 .. Larger(index) - 1 |->
                      IF j \in Slots(index) THEN index.maps[j]
                                            ELSE [key |-> 0, off |-> 0]]]

(* The entries go into the larger table in the order of their slots.       *)
grow(index) ==
  LET moved[n \in 0 .. index.capacity] ==
        IF n = 0 THEN create(Larger(index))
        ELSE LET entry == index.maps[n - 1]
             IN  IF entry.key = 0 THEN moved[n - 1]
                 ELSE SetOff(update(moved[n - 1], entry.key),
                             entry.key, entry.off)
  IN  IF IsLoaded(index) THEN moved[index.capacity] ELSE index

index_update(index, key) == update(grow(index), key)

(* The offset that the returned reference holds; 0 also where the code     *)
(* returns NULL, which its caller treats alike.                            *)
index_lookup(index, key) ==
  IF Stops(index, key) = {} THEN 0 ELSE index.maps[Probe(index, key)].off
=============================================================================

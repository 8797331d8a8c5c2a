------------------------- MODULE KVRefinementProofs -------------------------
(***************************************************************************)
(* The key/value store implements the map of AbstractKV and its counters   *)
(* agree with what it finds, for every set of keys and values, every hash, *)
(* all lengths and every size of block, buffer, table and device.          *)
(***************************************************************************)
EXTENDS KVStoreProofs

(* What a restore reads of the records S for k: the value of the newest    *)
(* record that its chain has, unless a removal cleared the entry.          *)
On(S, k) == {r \in S : r.at > 0 /\ hash(r.key) = hash(k)}

IsLast(S, k, l) == l \in On(S, k) /\ \A s \in On(S, k) : s.at <= l.at

IsRead(S, k, x) ==
  /\ On(S, k) = {} => x = None
  /\ \A l \in On(S, k) :
       IsLast(S, k, l) =>
         x = IF l.val_len = 0 THEN None ELSE ValueFrom(S, k, l.at)

(* A record that is not torn has the length of its key, a removal no       *)
(* value, and an offset leads to a record.                                 *)
Whole(S) ==
  \A r \in S : /\ r.val_len = 0 => r.val = None
               /\ r.key # Zero => r.key_len = KeyLen[r.key]
               /\ r.off # 0 => r.at > 0 /\ \E s \in S : s.at = r.off

(* A restore goes on behind a record with a key, and behind the first.     *)
GoesOn(r) == r.at = 0 \/ r.key_len > 0

(* The entries lead to the newest records, except where a restore found    *)
(* that to be a removal.                                                   *)
EntryIs(k, e) ==
  /\ On(log, k) = {} => e = 0
  /\ \A l \in On(log, k) :
       IsLast(log, k, l) => e = l.at \/ (e = 0 /\ l.val_len = 0)

EntriesAre == \A k \in AllKeys : EntryIs(k, index_lookup(index, hash(k)))

EntriesRestored ==
  \A k \in AllKeys : \A l \in On(log, k) :
    IsLast(log, k, l) /\ l.val_len = 0 => index_lookup(index, hash(k)) = 0

(* The log up to e, when e is where a record ends, is read back as the map *)
(* m; and m is what the record that begins at e was written to.            *)
Prefix(e) == {r \in log : End(r) <= e}

Boundary(e) == e = 0 \/ \E r \in log : End(r) = e

Agrees(m, S, k) ==
  IsRead(S, k, m[k]) \/ (k \in SharedHash /\ IsRead(S, k, None))

Remembers(m, e) ==
  \A k \in Keys :
    /\ Agrees(m, Prefix(e), k)
    /\ \A r \in log :
         r.at = e /\ e > 0 /\ hash(r.key) = hash(k)
           => m[k] = ValueFrom(log, k, r.off)

OpenMap ==
  /\ kv = View /\ kv \in past
  /\ Whole(log) /\ \A r \in log : GoesOn(r)
  /\ EntriesAre
  /\ Boundary(synced)
  /\ \A e \in synced .. raw :
       Boundary(e) => \E m \in past : Remembers(m, e)

ClosedMap ==
  /\ past = {kv} /\ kv \in Maps
  /\ \A k \in Keys : IsRead(left, k, kv[k])
  /\ Whole(left)
  /\ \A r \in left : r.at = 0 \/ \E s \in left : End(s) = r.at /\ GoesOn(s)
  /\ \A r \in log : GoesOn(r)
  /\ EntriesAre /\ EntriesRestored

Mapping ==
  zeroed \/ left = {} =>
    /\ st = "open" => OpenMap
    /\ st \in {"closed", "restoring"} => ClosedMap

-----------------------------------------------------------------------------
(* What chains hold. *)

LEMMA SubsetIs ==
  ASSUME NEW S, RecordSet(S), NEW T, T \subseteq S PROVE RecordSet(T)
BY DEF RecordSet

(* A whole record is of no key but its own. *)
LEMMA MatchesIs ==
  ASSUME NEW r, r.key \in AllKeys, r.key_len = KeyLen[r.key], NEW k \in AllKeys
  PROVE  Matches(r, k) <=> r.key = k
<1>1. KeyLen[r.key] \in Nat /\ Pointer \in Nat BY KVStoreAssumption
<1>2. ASSUME Matches(r, k) PROVE r.key = k
  <2>1. /\ KeyLen[r.key] = KeyLen[k] /\ Start[r.key] = Start[k]
        /\ KeyLen[r.key] > Pointer => r.key = k
    BY <1>2 DEF Matches
  <2>2. KeyLen[r.key] <= Pointer => r.key = k
    BY <2>1, KVStoreAssumption
  <2>. QED BY <1>1, <2>1, <2>2
<1>3. ASSUME r.key = k PROVE Matches(r, k) BY <1>3 DEF Matches
<1>. QED BY <1>2, <1>3

(* The records up to b are the same. *)
SameUpTo(S, T, b) ==
  /\ \A r \in S : r.at <= b => r \in T
  /\ \A r \in T : r.at <= b => r \in S

LEMMA ValueSame ==
  ASSUME NEW S, RecordSet(S), NEW T, RecordSet(T), NEW b \in 0 .. MaxLog,
         SameUpTo(S, T, b), NEW k, NEW off \in 0 .. b
  PROVE  ValueFrom(S, k, off) = ValueFrom(T, k, off)
<1>0. MaxLog \in Nat BY LimitsAre
<1>. DEFINE Bad == {o \in 0 .. b : ValueFrom(S, k, o) # ValueFrom(T, k, o)}
<1>1. ASSUME Bad # {} PROVE FALSE
  <2>1. Bad \subseteq Nat OBVIOUS
  <2>2. PICK o \in Bad : \A l \in Bad : o <= l BY <1>1, <2>1, Smallest
  <2>3. /\ o \in 0 .. MaxLog /\ o <= b /\ o \in Nat /\ o \in 0 .. b
        /\ ValueFrom(S, k, o) # ValueFrom(T, k, o)
    BY <1>0, <2>2
  <2>4. CASE o = 0 \/ \A r \in S : r.at # o
    <3>1. o = 0 \/ \A r \in T : r.at # o BY <2>3, <2>4 DEF SameUpTo
    <3>. QED BY <2>3, <2>4, <3>1, ValueSteps
  <2>5. CASE o # 0 /\ \E r \in S : r.at = o
    <3>1. PICK r \in S : r.at = o BY <2>5
    <3>2. r \in T BY <2>3, <3>1 DEF SameUpTo
    <3>3. o > 0 BY <2>3, <2>5
    <3>4. /\ ValueFrom(S, k, o) = IF Matches(r, k) THEN r.val
                                  ELSE ValueFrom(S, k, r.off)
          /\ ValueFrom(T, k, o) = IF Matches(r, k) THEN r.val
                                  ELSE ValueFrom(T, k, r.off)
      BY <2>3, <3>1, <3>2, <3>3, ValueSteps
    <3>5. r.off \in Nat /\ r.off < o
      BY <3>1, <3>3 DEF RecordSet, Record_
    <3>6. r.off \in 0 .. b /\ ~(o <= r.off) BY <2>3, <3>5
    <3>7. r.off \notin Bad BY <2>2, <3>6
    <3>8. ValueFrom(S, k, r.off) = ValueFrom(T, k, r.off) BY <3>6, <3>7
    <3>. QED BY <2>3, <3>4, <3>8
  <2>. QED BY <2>4, <2>5
<1>. QED BY <1>1

(* A lookup returns what the chain holds. *)
LEMMA ChainValue ==
  ASSUME RecordSet(log), NEW k, NEW off \in 0 .. MaxLog
  PROVE  ValueFrom(log, k, off) =
           IF chain_lookup(k, off) > 0 THEN At(chain_lookup(k, off)).val
                                       ELSE None
<1>. DEFINE Is(o) == ValueFrom(log, k, o) =
                       IF chain_lookup(k, o) > 0
                       THEN At(chain_lookup(k, o)).val ELSE None
            Bad == {o \in 0 .. MaxLog : ~Is(o)}
<1>1. ASSUME Bad # {} PROVE FALSE
  <2>1. Bad \subseteq Nat OBVIOUS
  <2>2. PICK o \in Bad : \A l \in Bad : o <= l BY <1>1, <2>1, Smallest
  <2>3. o \in 0 .. MaxLog /\ o \in Nat /\ ~Is(o) BY <2>2
  <2>4. chain_lookup(k, o) =
           IF o = 0 THEN 0
           ELSE IF \A r \in log : r.at # o THEN -1
           ELSE IF Matches(At(o), k) THEN o
           ELSE chain_lookup(k, At(o).off)
    BY <2>3, ChainSteps
  <2>5. CASE o = 0 \/ \A r \in log : r.at # o
    <3>1. chain_lookup(k, o) \in {-1, 0} BY <2>4, <2>5
    <3>2. ValueFrom(log, k, o) = None BY <2>3, <2>5, ValueSteps
    <3>3. Is(o) BY <3>1, <3>2
    <3>. QED BY <2>3, <3>3
  <2>6. CASE o # 0 /\ \E r \in log : r.at = o
    <3>1. PICK r \in log : r.at = o BY <2>6
    <3>2. At(o) = r BY <3>1, AtIs
    <3>3. o > 0 BY <2>3, <2>6
    <3>4. ValueFrom(log, k, o) = IF Matches(r, k) THEN r.val
                                 ELSE ValueFrom(log, k, r.off)
      BY <2>3, <3>1, <3>3, ValueSteps
    <3>5. r.off \in Nat /\ r.off < o /\ r.off \in 0 .. MaxLog
      BY <3>1, <3>3 DEF RecordSet, Record_
    <3>6. CASE Matches(r, k)
      <4>1. chain_lookup(k, o) = o BY <2>4, <2>6, <3>2, <3>6
      <4>2. Is(o) BY <3>2, <3>3, <3>4, <3>6, <4>1
      <4>. QED BY <2>3, <4>2
    <3>7. CASE ~Matches(r, k)
      <4>1. chain_lookup(k, o) = chain_lookup(k, r.off)
        BY <2>4, <2>6, <3>2, <3>7
      <4>2. ~(o <= r.off) BY <2>3, <3>5
      <4>3. r.off \notin Bad BY <2>2, <4>2
      <4>4. Is(r.off) BY <3>5, <4>3
      <4>5. Is(o) BY <3>4, <3>7, <4>1, <4>4
      <4>. QED BY <2>3, <4>5
    <3>. QED BY <3>6, <3>7
  <2>. QED BY <2>5, <2>6
<1>. QED BY <1>1

LEMMA FoundIs ==
  ASSUME Base, NEW k \in AllKeys
  PROVE  Found(k) = ValueFrom(log, k, index_lookup(index, hash(k)))
<1>1. index_lookup(index, hash(k)) \in 0 .. MaxLog BY ChainedIs
<1>2. RecordSet(log) BY DEF Base, Records
<1>. QED BY <1>1, <1>2, ChainValue DEF Found, Chained

(* No lookup falls into a hole. *)
LEMMA NoHole ==
  ASSUME RecordSet(log), Whole(log), NEW k, NEW off \in 0 .. MaxLog,
         off = 0 \/ \E r \in log : r.at = off
  PROVE  chain_lookup(k, off) # -1
<1>. DEFINE Leads(o) == o = 0 \/ \E r \in log : r.at = o
            Bad == {o \in 0 .. MaxLog : Leads(o) /\ chain_lookup(k, o) = -1}
<1>1. ASSUME Bad # {} PROVE FALSE
  <2>1. Bad \subseteq Nat OBVIOUS
  <2>2. PICK o \in Bad : \A l \in Bad : o <= l BY <1>1, <2>1, Smallest
  <2>3. /\ o \in 0 .. MaxLog /\ o \in Nat /\ Leads(o)
        /\ chain_lookup(k, o) = -1
    BY <2>2
  <2>4. chain_lookup(k, o) =
           IF o = 0 THEN 0
           ELSE IF \A r \in log : r.at # o THEN -1
           ELSE IF Matches(At(o), k) THEN o
           ELSE chain_lookup(k, At(o).off)
    BY <2>3, ChainSteps
  <2>5. o # 0 /\ o > 0 BY <2>3, <2>4
  <2>6. PICK r \in log : r.at = o BY <2>3, <2>5
  <2>7. At(o) = r BY <2>6, AtIs
  <2>8. chain_lookup(k, r.off) = -1
    BY <2>3, <2>4, <2>5, <2>6, <2>7
  <2>9. r.off \in Nat /\ r.off < o /\ r.off \in 0 .. MaxLog
    BY <2>5, <2>6 DEF RecordSet, Record_
  <2>10. Leads(r.off) BY DEF Whole
  <2>11. r.off \in Bad BY <2>8, <2>9, <2>10
  <2>. QED BY <2>2, <2>3, <2>9, <2>11
<1>. QED BY <1>1

(* The chain of one hash holds nothing for a key of another, unless a torn *)
(* record is on it.                                                        *)
LEMMA ForeignChain ==
  ASSUME RecordSet(log), AllLeadBack(log, left), Whole(log),
         NEW k \in Keys, hash(k) = hash(Zero), NEW off \in 0 .. MaxLog,
         off = 0 \/ \E r \in log : r.at = off /\ hash(r.key) # hash(k)
  PROVE  ValueFrom(log, k, off) = None
<1>. DEFINE Foreign(o) ==
              o = 0 \/ \E r \in log : r.at = o /\ hash(r.key) # hash(k)
            Bad == {o \in 0 .. MaxLog :
                      Foreign(o) /\ ValueFrom(log, k, o) # None}
<1>1. ASSUME Bad # {} PROVE FALSE
  <2>1. Bad \subseteq Nat OBVIOUS
  <2>2. PICK o \in Bad : \A l \in Bad : o <= l BY <1>1, <2>1, Smallest
  <2>3. /\ o \in 0 .. MaxLog /\ o \in Nat /\ Foreign(o)
        /\ ValueFrom(log, k, o) # None
    BY <2>2
  <2>4. o # 0 /\ o > 0 BY <2>3, ValueSteps
  <2>5. PICK r \in log : r.at = o /\ hash(r.key) # hash(k) BY <2>3, <2>4
  <2>6. /\ r.key # Zero /\ r.key \in AllKeys /\ k \in AllKeys
        /\ r.key_len = KeyLen[r.key]
    BY <2>5 DEF RecordSet, Record_, Whole, AllKeys
  <2>7. ~Matches(r, k) BY <2>5, <2>6, MatchesIs
  <2>8. ValueFrom(log, k, r.off) # None
    BY <2>3, <2>4, <2>5, <2>7, ValueSteps
  <2>9. r.off \in Nat /\ r.off < o /\ r.off \in 0 .. MaxLog
    BY <2>4, <2>5 DEF RecordSet, Record_
  <2>10. LeadsBack(log, left, r.key, r.at, r.off)
    BY <2>4, <2>5, <2>6 DEF AllLeadBack
  <2>11. Foreign(r.off) BY <2>5, <2>10 DEF LeadsBack, Behind
  <2>12. r.off \in Bad BY <2>8, <2>9, <2>11
  <2>. QED BY <2>2, <2>3, <2>9, <2>12
<1>. QED BY <1>1

-----------------------------------------------------------------------------
(* What a restore reads. *)

LEMMA LastExists ==
  ASSUME NEW S, RecordSet(S), NEW k, On(S, k) # {}
  PROVE  \E l \in On(S, k) : IsLast(S, k, l)
BY NewestExists DEF On, IsLast

LEMMA LastIsOne ==
  ASSUME NEW S, RecordSet(S), NEW k, NEW l, NEW m,
         IsLast(S, k, l), IsLast(S, k, m)
  PROVE  l = m
<1>1. l \in S /\ m \in S /\ l.at <= m.at /\ m.at <= l.at
  BY DEF IsLast, On
<1>2. l.at \in Nat /\ m.at \in Nat BY <1>1 DEF RecordSet, Record_
<1>. QED BY <1>1, <1>2 DEF RecordSet

LEMMA ReadIsOne ==
  ASSUME NEW S, RecordSet(S), NEW k, NEW x, NEW y,
         IsRead(S, k, x), IsRead(S, k, y)
  PROVE  x = y
<1>1. CASE On(S, k) = {} BY <1>1 DEF IsRead
<1>2. CASE On(S, k) # {}
  <2>1. PICK l \in On(S, k) : IsLast(S, k, l) BY <1>2, LastExists
  <2>. QED BY <2>1 DEF IsRead
<1>. QED BY <1>1, <1>2

LEMMA ReadNothing ==
  ASSUME NEW S, NEW k, On(S, k) = {} PROVE IsRead(S, k, None)
BY DEF IsRead

LEMMA ReadLast ==
  ASSUME NEW S, RecordSet(S), NEW k, NEW l, IsLast(S, k, l), NEW x,
         x = IF l.val_len = 0 THEN None ELSE ValueFrom(S, k, l.at)
  PROVE  IsRead(S, k, x)
<1>1. \A m : IsLast(S, k, m) => m = l BY LastIsOne
<1>2. On(S, k) # {} BY DEF IsLast
<1>. QED BY <1>1, <1>2 DEF IsRead

(* What lookups find is what a restore would read, but for keys that share *)
(* the hash of a removed one; after a restore there is no exception.       *)
LEMMA ViewIsRead ==
  ASSUME Base, Whole(log), EntriesAre, NEW k \in Keys
  PROVE  /\ Agrees(View, log, k)
         /\ EntriesRestored => IsRead(log, k, View[k])
<1>. DEFINE e == index_lookup(index, hash(k))
<1>1. k \in AllKeys /\ k # Zero /\ RecordSet(log)
  BY KVStoreAssumption DEF AllKeys, Base, Records
<1>2. View[k] = ValueFrom(log, k, e) BY <1>1, FoundIs DEF View
<1>3. EntryIs(k, e) BY <1>1 DEF EntriesAre
<1>4. CASE On(log, k) = {}
  <2>1. View[k] = None
    <3>1. e = 0 BY <1>3, <1>4 DEF EntryIs
    <3>2. 0 \in 0 .. MaxLog BY LimitsAre
    <3>. QED BY <1>1, <1>2, <3>1, <3>2, ValueSteps
  <2>. QED BY <1>4, <2>1, ReadNothing DEF Agrees
<1>5. CASE On(log, k) # {}
  <2>1. PICK l \in On(log, k) : IsLast(log, k, l) BY <1>1, <1>5, LastExists
  <2>2. /\ l \in log /\ l.at > 0 /\ hash(l.key) = hash(k)
        /\ l \in Record_ /\ l.at \in 0 .. MaxLog /\ l.key \in AllKeys
    BY <1>1, <2>1 DEF On, RecordSet, Record_
  <2>3. e = l.at \/ (e = 0 /\ l.val_len = 0) BY <1>3, <2>1 DEF EntryIs
  <2>4. ASSUME e = 0 PROVE View[k] = None
    <3>1. 0 \in 0 .. MaxLog BY LimitsAre
    <3>. QED BY <1>1, <1>2, <2>4, <3>1, ValueSteps
  <2>. HIDE DEF e
  <2>5. CASE l.val_len # 0
    <3>1. View[k] = ValueFrom(log, k, l.at) BY <1>2, <2>3, <2>5
    <3>. QED BY <1>1, <2>1, <2>5, <3>1, ReadLast DEF Agrees
  <2>6. CASE l.val_len = 0
    <3>1. IsRead(log, k, None) BY <1>1, <2>1, <2>6, ReadLast
    <3>2. EntriesRestored => e = 0
      BY <1>1, <2>1, <2>6 DEF EntriesRestored, e
    <3>3. CASE e = 0 BY <2>4, <3>1, <3>3 DEF Agrees
    <3>4. CASE e # 0 /\ l.key = k
      <4>1. l.key_len = KeyLen[l.key] /\ l.val = None
        BY <1>1, <2>2, <2>6, <3>4 DEF Whole
      <4>2. Matches(l, k) BY <1>1, <2>2, <3>4, <4>1, MatchesIs
      <4>3. ValueFrom(log, k, l.at) = l.val
        BY <1>1, <2>2, <4>2, ValueSteps
      <4>. QED BY <1>2, <2>3, <3>1, <3>2, <3>4, <4>1, <4>3 DEF Agrees
    <3>5. CASE e # 0 /\ l.key # k
      <4>1. k \in SharedHash BY <2>2, <3>5 DEF SharedHash
      <4>. QED BY <3>1, <3>2, <3>5, <4>1 DEF Agrees
    <3>. QED BY <3>3, <3>4, <3>5
  <2>. QED BY <2>5, <2>6
<1>. QED BY <1>4, <1>5

(* A restore gets to every record of a log without holes. *)
LEMMA ScanIsAll ==
  ASSUME RecordSet(disk),
         \A r \in disk : r.at = 0 \/ \E s \in disk : End(s) = r.at /\ GoesOn(s)
  PROVE  Scan = disk
<1>. DEFINE ends(s) == s.at > 0 /\ s.key_len = 0
            step(f, r) ==
              r.at = 0 \/ \E s \in disk : End(s) = r.at /\ ~ends(s) /\ f[s]
            upto[r \in disk] ==
              r.at = 0 \/ \E s \in disk : End(s) = r.at /\ ~ends(s) /\ upto[s]
            all == [r \in disk |-> TRUE]
<1>1. \A s \in disk : GoesOn(s) => ~ends(s)
  BY DEF GoesOn, RecordSet, Record_
<1>2. \A r \in disk : step(all, r) BY <1>1
<1>3. all = [r \in disk |-> step(all, r)]
  <2>1. \A r \in disk : TRUE = step(all, r) BY <1>2, Zenon
  <2>. HIDE DEF step
  <2>. QED BY <2>1, Zenon
<1>4. \E f : f = [r \in disk |-> step(f, r)] BY <1>3, Zenon
<1>5. upto = [r \in disk |-> step(upto, r)]
  <2>. DEFINE Good(f) == f = [r \in disk |-> step(f, r)]
  <2>1. upto = CHOOSE f : Good(f) BY Zenon
  <2>. HIDE DEF upto
  <2>2. \E f : Good(f) BY <1>4
  <2>. HIDE DEF Good
  <2>3. Good(CHOOSE f : Good(f)) BY <2>2, Zenon
  <2>4. Good(upto) BY <2>1, <2>3, Zenon
  <2>. QED BY <2>4, Zenon DEF Good
<1>6. Scan = {r \in disk : upto[r]} BY Zenon DEF Scan
<1>. HIDE DEF upto, all
<1>7. \A r \in disk : upto[r] <=> step(upto, r)
  <2>. DEFINE g == [r \in disk |-> step(upto, r)]
  <2>1. upto = g BY <1>5
  <2>. HIDE DEF step
  <2>2. \A r \in disk : g[r] <=> step(upto, r) BY Zenon
  <2>. HIDE DEF g
  <2>. QED BY <2>1, <2>2, Zenon
<1>. DEFINE Bad == {r.at : r \in {s \in disk : ~upto[s]}}
<1>8. ASSUME Bad # {} PROVE FALSE
  <2>1. \A r \in disk : r.at \in Nat /\ End(r) \in Nat /\ r.at < End(r)
    BY EndIs DEF RecordSet
  <2>2. Bad \subseteq Nat BY <2>1
  <2>3. PICK m \in Bad : \A j \in Bad : m <= j
    <3>. HIDE DEF Bad
    <3>. QED BY <1>8, <2>2, Smallest
  <2>4. PICK r \in disk : r.at = m /\ ~upto[r] OBVIOUS
  <2>5. r.at # 0 BY <1>7, <2>4
  <2>6. PICK s \in disk : End(s) = r.at /\ GoesOn(s) BY <2>5
  <2>7. ~upto[s] BY <1>1, <1>7, <2>4, <2>6
  <2>8. s.at \in Bad BY <2>7
  <2>9. s.at < m /\ s.at \in Nat /\ m \in Nat BY <2>1, <2>4, <2>6
  <2>. HIDE DEF Bad
  <2>10. m <= s.at BY <2>3, <2>8
  <2>. QED BY <2>9, <2>10
<1>9. \A r \in disk : upto[r] BY <1>8
<1>. QED BY <1>6, <1>9

LEMMA RestorableIsRead ==
  ASSUME RecordSet(disk), NEW k \in Keys,
         \A r \in disk : r.at = 0 \/ \E s \in disk : End(s) = r.at /\ GoesOn(s)
  PROVE  IsRead(disk, k, Restorable[k])
<1>1. Scan = disk BY ScanIsAll
<1>2. On(disk, k) = {r \in Scan : r.at > 0 /\ hash(r.key) = hash(k)}
  BY <1>1 DEF On
<1>. QED BY <1>1, <1>2, RestorableIs DEF IsRead, IsLast

-----------------------------------------------------------------------------
(* What a close or a crash leaves. *)

LEMMA TornFields ==
  ASSUME NEW r \in Record_, NEW n \in Nat, NEW t \in TornRecord(r, n)
  PROVE  /\ t.val_len = 0 => t.val = None
         /\ t.val_len # 0 => t.off = r.off /\ t.val # None
         /\ t.key \in {Zero, r.key}
         /\ t.key # Zero => t.key = r.key /\ t.key_len = r.key_len
                            /\ t.off = r.off
         /\ t.val_len = 0 /\ n < RecordLen(r) => t.key = Zero
<1>1. n # 0 BY DEF TornRecord
<1>. DEFINE off     == IF n >= 2 THEN r.off ELSE 0
            key_len == IF n >= 3 THEN r.key_len ELSE 0
            val_len == IF n >= 4 THEN r.val_len ELSE 0
            key     == IF n >= MetaLen + r.key_len THEN r.key ELSE Zero
            val     == IF n >= 4 /\ r.val_len > 0 THEN Torn ELSE None
<1>2. t = [r EXCEPT !.off = off, !.key_len = key_len, !.val_len = val_len,
                    !.key = key, !.val = val]
  BY <1>1 DEF TornRecord
<1>. HIDE DEF off, key_len, val_len, key, val
<1>3. /\ t.off = off /\ t.key_len = key_len /\ t.val_len = val_len
      /\ t.key = key /\ t.val = val
  BY <1>2 DEF Record_
<1>. USE DEF off, key_len, val_len, key, val
<1>4. r.key_len \in Nat /\ r.val_len \in Nat BY DEF Record_
<1>. QED BY <1>3, <1>4, KVStoreAssumption DEF MetaLen, RecordLen

(* Every record that is left is one of the log, or what is left of it. *)
LEMMA KeptFrom ==
  ASSUME RecordSet(log), NEW n \in Nat, NEW t \in Kept(n)
  PROVE  \/ t \in log /\ End(t) <= n
         \/ \E r \in log : /\ r.at < n /\ n < End(r) /\ n - r.at \in Nat
                           /\ t \in TornRecord(r, n - r.at) /\ t.at = r.at
<1>1. CASE t \in log /\ End(t) <= n BY <1>1
<1>2. CASE \E r \in log : /\ r.at < n /\ n < End(r)
                          /\ t \in TornRecord(r, n - r.at)
  <2>1. PICK r \in log : /\ r.at < n /\ n < End(r)
                         /\ t \in TornRecord(r, n - r.at)
    BY <1>2
  <2>2. r \in Record_ /\ r.at \in Nat BY DEF RecordSet, Record_
  <2>3. n - r.at \in Nat BY <2>1, <2>2
  <2>4. t.at = r.at BY <2>1, <2>2, <2>3, TornIs
  <2>. QED BY <2>1, <2>3, <2>4
<1>. QED BY <1>1, <1>2 DEF Kept

LEMMA KeptBefore ==
  ASSUME RecordSet(log), Apart(log), NEW n \in Nat, NEW r \in log, r.at < n,
         NEW s \in log, s.at < r.at
  PROVE  s \in Kept(n) /\ End(s) <= r.at
<1>1. End(s) <= r.at BY DEF Apart
<1>2. End(s) \in Nat /\ r.at \in Nat BY EndIs DEF RecordSet
<1>3. End(s) <= n BY <1>1, <1>2
<1>. QED BY <1>1, <1>3 DEF Kept

LEMMA KeptWhole ==
  ASSUME RecordSet(log), Apart(log), Whole(log), NEW n \in Nat
  PROVE  Whole(Kept(n))
<1>. DEFINE Ok(t) == /\ t.val_len = 0 => t.val = None
                     /\ t.key # Zero => t.key_len = KeyLen[t.key]
                     /\ t.off # 0 => t.at > 0 /\ \E s \in Kept(n) : s.at = t.off
<1>1. ASSUME NEW r \in log, r.at < n, r.off # 0
      PROVE  r.at > 0 /\ \E s \in Kept(n) : s.at = r.off
  <2>1. PICK s \in log : s.at = r.off BY <1>1 DEF Whole
  <2>2. r.at > 0 /\ s.at < r.at BY <1>1, <2>1 DEF Whole, RecordSet
  <2>. QED BY <1>1, <2>1, <2>2, KeptBefore
<1>2. ASSUME NEW t \in Kept(n), t \in log PROVE Ok(t)
  <2>1. t.at < n BY KeptAre
  <2>2. t.off # 0 => t.at > 0 /\ \E s \in Kept(n) : s.at = t.off
    BY <1>1, <1>2, <2>1
  <2>. QED BY <1>2, <2>2 DEF Whole
<1>3. ASSUME NEW t \in Kept(n), NEW r \in log, r.at < n, n - r.at \in Nat,
             t \in TornRecord(r, n - r.at), t.at = r.at
      PROVE  Ok(t)
  <2>1. r \in Record_ BY DEF RecordSet
  <2>2. t.off \in {0, r.off} BY <1>3, <2>1, TornIs
  <2>3. t.off # 0 => t.at > 0 /\ \E s \in Kept(n) : s.at = t.off
    BY <1>1, <1>3, <2>2
  <2>4. t.val_len = 0 => t.val = None BY <1>3, <2>1, TornFields
  <2>5. t.key # Zero => t.key_len = KeyLen[t.key]
    <3>1. t.key # Zero => t.key = r.key /\ t.key_len = r.key_len
      BY <1>3, <2>1, TornFields
    <3>. QED BY <3>1 DEF Whole
  <2>. QED BY <2>3, <2>4, <2>5
<1>4. ASSUME NEW t \in Kept(n) PROVE Ok(t)
  <2>1. CASE t \in log BY <1>2, <2>1
  <2>2. CASE t \notin log BY <1>3, <2>2, KeptFrom
  <2>. QED BY <2>1, <2>2
<1>. QED BY <1>4 DEF Whole

LEMMA KeptGoesOn ==
  ASSUME RecordSet(log), Laid(log, raw), NEW n \in Nat,
         \A r \in log : GoesOn(r)
  PROVE  \A t \in Kept(n) :
           t.at = 0 \/ \E s \in Kept(n) : End(s) = t.at /\ GoesOn(s)
<1>. SUFFICES ASSUME NEW t \in Kept(n), t.at # 0
              PROVE  \E s \in Kept(n) : End(s) = t.at /\ GoesOn(s)
  OBVIOUS
<1>1. PICK r \in log : t.at = r.at
  <2>1. CASE t \in log BY <2>1
  <2>2. CASE t \notin log BY <2>2, KeptFrom
  <2>. QED BY <2>1, <2>2
<1>2. PICK s \in log : End(s) = r.at BY <1>1 DEF Laid
<1>3. t.at < n BY KeptAre
<1>4. End(s) <= n
  <2>1. End(s) \in Nat BY EndIs DEF RecordSet
  <2>. QED BY <1>1, <1>2, <1>3, <2>1
<1>5. s \in Kept(n) BY <1>4 DEF Kept
<1>. QED BY <1>1, <1>2, <1>5

(* Reading a part of the log, to which a record of another hash was added. *)
LEMMA ReadSame ==
  ASSUME NEW S, RecordSet(S), NEW T, RecordSet(T), NEW k,
         NEW b \in 0 .. MaxLog, SameUpTo(S, T, b),
         On(S, k) = On(T, k), \A r \in On(S, k) : r.at <= b,
         NEW x, IsRead(S, k, x)
  PROVE  IsRead(T, k, x)
<1>1. ASSUME NEW l \in On(S, k)
      PROVE  ValueFrom(S, k, l.at) = ValueFrom(T, k, l.at)
  <2>1. l.at \in 0 .. b
    <3>1. l.at \in Nat /\ l.at <= b BY DEF On, RecordSet, Record_
    <3>. QED BY <3>1
  <2>. QED BY <2>1, ValueSame
<1>. QED BY <1>1 DEF IsRead, IsLast

(* A crash that cuts no record leaves the log up to where a record ends.   *)
LEMMA NothingCut ==
  ASSUME RecordSet(log), Apart(log), NEW n \in Nat, n <= raw, raw \in Nat,
         synced \in Nat, synced <= n, Boundary(synced),
         \A s \in log : ~(s.at < n /\ n < End(s))
  PROVE  \E e \in synced .. raw : Boundary(e) /\ Kept(n) = Prefix(e)
<1>1. \A r \in log : r.at \in Nat /\ End(r) \in Nat /\ r.at < End(r)
  BY EndIs DEF RecordSet
<1>2. Kept(n) = Prefix(n) BY DEF Kept, Prefix
<1>3. CASE Prefix(n) = {}
  <2>1. synced = 0
    <3>1. \A r \in log : End(r) # synced BY <1>1, <1>3 DEF Prefix
    <3>. QED BY <3>1 DEF Boundary
  <2>2. Prefix(0) = {} BY <1>1 DEF Prefix
  <2>3. 0 \in synced .. raw BY <2>1
  <2>. QED BY <1>2, <1>3, <2>2, <2>3 DEF Boundary
<1>4. CASE Prefix(n) # {}
  <2>1. PICK l \in Prefix(n) : \A r \in Prefix(n) : r.at <= l.at
    <3>1. Prefix(n) \subseteq log BY DEF Prefix
    <3>. HIDE DEF Prefix
    <3>. QED BY <1>4, <3>1, NewestExists
  <2>2. l \in log /\ End(l) <= n BY DEF Prefix
  <2>3. \A r \in Prefix(n) : r \in log /\ End(r) <= End(l)
    <3>. SUFFICES ASSUME NEW r \in Prefix(n) PROVE r \in log /\ End(r) <= End(l)
      OBVIOUS
    <3>1. r \in log /\ r.at <= l.at BY <2>1 DEF Prefix
    <3>2. CASE r.at = l.at
      <4>1. r = l BY <2>2, <3>1, <3>2 DEF RecordSet
      <4>. QED BY <1>1, <3>1, <4>1
    <3>3. CASE r.at # l.at
      <4>1. r.at < l.at BY <1>1, <2>2, <3>1, <3>3
      <4>2. End(r) <= l.at BY <2>2, <3>1, <4>1 DEF Apart
      <4>. QED BY <1>1, <2>2, <3>1, <4>2
    <3>. QED BY <3>2, <3>3
  <2>4. Prefix(n) = Prefix(End(l))
    <3>1. \A r \in log : End(r) <= End(l) => End(r) <= n BY <1>1, <2>2
    <3>. QED BY <2>3, <3>1 DEF Prefix
  <2>5. synced <= End(l)
    <3>1. CASE synced = 0 BY <1>1, <2>2, <3>1
    <3>2. CASE synced # 0
      <4>1. PICK r \in log : End(r) = synced BY <3>2 DEF Boundary
      <4>2. r \in Prefix(n) BY <4>1 DEF Prefix
      <4>. QED BY <2>3, <4>1, <4>2
    <3>. QED BY <3>1, <3>2
  <2>6. End(l) \in synced .. raw BY <1>1, <2>2, <2>5
  <2>. QED BY <1>2, <2>2, <2>4, <2>6 DEF Boundary
<1>. QED BY <1>3, <1>4

(* A crash that cuts a record leaves the log before it and a part of it.   *)
LEMMA OneCut ==
  ASSUME RecordSet(log), Apart(log), Laid(log, raw), NEW n \in Nat,
         n <= raw, raw \in Nat,
         synced \in Nat, synced <= n, Boundary(synced),
         NEW r \in log, r.at < n, n < End(r)
  PROVE  /\ r.at \in synced .. raw /\ Boundary(r.at) /\ n - r.at \in Nat
         /\ \E t \in TornRecord(r, n - r.at) :
              Kept(n) = Prefix(r.at) \cup {t}
<1>1. \A s \in log : s.at \in Nat /\ End(s) \in Nat /\ s.at < End(s)
  BY EndIs DEF RecordSet
<1>2. n - r.at \in Nat /\ n - r.at # 0 BY <1>1
<1>3. PICK t : TornRecord(r, n - r.at) = {t} BY <1>2 DEF TornRecord
<1>4. \A s \in log : s.at < r.at => End(s) <= r.at BY DEF Apart
<1>5. \A s \in log : r.at < s.at => End(r) <= s.at BY DEF Apart
<1>6. \A s \in log : s.at = r.at => s = r BY DEF RecordSet
<1>7. \A s \in log : s.at < n /\ n < End(s) <=> s = r
  <2>. SUFFICES ASSUME NEW s \in log, s.at < n, n < End(s) PROVE s = r
    OBVIOUS
  <2>1. ~(s.at < r.at) BY <1>1, <1>4
  <2>2. ~(r.at < s.at) BY <1>1, <1>5
  <2>. QED BY <1>1, <1>6, <2>1, <2>2
<1>8. \A s \in log : End(s) <= n <=> End(s) <= r.at
  <2>. SUFFICES ASSUME NEW s \in log, End(s) <= n PROVE End(s) <= r.at
    BY <1>1
  <2>1. s # r BY <1>1
  <2>2. ~(r.at < s.at) BY <1>1, <1>5
  <2>. QED BY <1>1, <1>4, <1>6, <2>1, <2>2
<1>9. Kept(n) = Prefix(r.at) \cup {t}
  <2>1. {s \in log : s.at < n /\ n < End(s)} = {r} BY <1>7
  <2>2. UNION {TornRecord(s, n - s.at) :
                 s \in {u \in log : u.at < n /\ n < End(u)}} = {t}
    BY <1>3, <2>1
  <2>3. {s \in log : End(s) <= n} = Prefix(r.at) BY <1>8 DEF Prefix
  <2>. QED BY <2>2, <2>3 DEF Kept
<1>10. synced <= r.at
  <2>1. CASE synced = 0 BY <1>1, <2>1
  <2>2. CASE synced # 0
    <3>1. PICK s \in log : End(s) = synced BY <2>2 DEF Boundary
    <3>. QED BY <1>8, <3>1
  <2>. QED BY <2>1, <2>2
<1>11. Boundary(r.at) BY DEF Laid, Boundary
<1>12. r.at \in synced .. raw BY <1>1, <1>10
<1>. QED BY <1>2, <1>3, <1>9, <1>11, <1>12

LEMMA MatchOne ==
  ASSUME NEW t, NEW j \in AllKeys, NEW k \in AllKeys, Matches(t, j), Matches(t, k)
  PROVE  j = k
<1>1. KeyLen[j] \in Nat /\ Pointer \in Nat BY KVStoreAssumption
<1>2. /\ KeyLen[j] = KeyLen[k] /\ Start[j] = Start[k] /\ t.key_len = KeyLen[j]
      /\ t.key_len > Pointer => t.key = j /\ t.key = k
  BY DEF Matches
<1>3. CASE KeyLen[j] <= Pointer BY <1>2, <1>3, KVStoreAssumption
<1>4. CASE ~(KeyLen[j] <= Pointer) BY <1>1, <1>2, <1>4
<1>. QED BY <1>3, <1>4

(* What is left of a record, t, and the log before that record are read as *)
(* a map that the store held, or for a key that shares its hash as         *)
(* nothing, unless t is taken for a record of the key.                     *)
LEMMA CutRead ==
  ASSUME RecordSet(log), Apart(log), AllLeadBack(log, left), Whole(log),
         NEW n \in Nat, NEW r \in log, r.at < n, n < End(r),
         NEW t \in TornRecord(r, n - r.at), Kept(n) = Prefix(r.at) \cup {t},
         NEW m, Remembers(m, r.at), NEW k \in Keys,
         ~(t.val_len # 0 /\ Matches(t, k))
  PROVE  Agrees(m, Kept(n), k)
<1>1. /\ r \in Record_ /\ r.at \in Nat /\ End(r) = r.at + RecordLen(r)
      /\ RecordLen(r) \in Nat /\ r.at \in 0 .. MaxLog /\ r.off \in Nat
      /\ r.at > 0 => r.off < r.at
  BY EndIs DEF RecordSet, Record_
<1>2. n - r.at \in Nat /\ n - r.at < RecordLen(r) BY <1>1
<1>3. t.at = r.at BY <1>1, <1>2, TornIs
<1>4. /\ RecordSet(Kept(n)) /\ RecordSet(Prefix(r.at))
      /\ Prefix(r.at) \subseteq log
  BY KeptAre, SubsetIs DEF Prefix
<1>5. \A s \in Prefix(r.at) : s.at \in Nat /\ s.at < r.at
  <2>1. \A s \in log : s.at \in Nat /\ End(s) \in Nat /\ s.at < End(s)
    BY EndIs DEF RecordSet
  <2>. QED BY <1>1, <2>1 DEF Prefix
<1>6. Agrees(m, Prefix(r.at), k) BY DEF Remembers
<1>7. t \in Kept(n) /\ t \in Record_ BY <1>4 DEF RecordSet
<1>8. CASE t \notin On(Kept(n), k)
  <2>1. On(Kept(n), k) = On(Prefix(r.at), k) BY <1>8 DEF On
  <2>2. ASSUME NEW x, IsRead(Prefix(r.at), k, x) PROVE IsRead(Kept(n), k, x)
    <3>1. CASE r.at = 0
      <4>1. On(Prefix(r.at), k) = {} BY <1>5, <3>1 DEF On
      <4>. QED BY <2>1, <2>2, <4>1 DEF IsRead
    <3>2. CASE r.at # 0
      <4>. DEFINE b == r.at - 1
      <4>1. b \in 0 .. MaxLog BY <1>1, <3>2, LimitsAre
      <4>2. \A s \in Prefix(r.at) : s.at <= b BY <1>1, <1>5
      <4>3. ~(t.at <= b) BY <1>1, <1>3
      <4>. HIDE DEF b
      <4>4. SameUpTo(Prefix(r.at), Kept(n), b) BY <4>3 DEF SameUpTo
      <4>5. \A s \in On(Prefix(r.at), k) : s.at <= b BY <4>2 DEF On
      <4>. HIDE DEF Prefix, Kept
      <4>. QED BY <1>4, <2>1, <2>2, <4>1, <4>4, <4>5, ReadSame
    <3>. QED BY <3>1, <3>2
  <2>. HIDE DEF Prefix, Kept
  <2>. QED BY <1>6, <2>2 DEF Agrees
<1>9. CASE t \in On(Kept(n), k)
  <2>1. t.at > 0 /\ hash(t.key) = hash(k) BY <1>9 DEF On
  <2>2. IsLast(Kept(n), k, t)
    BY <1>1, <1>3, <1>5, <1>9 DEF On, IsLast
  <2>3. t.key = Zero => k \in SharedHash
    BY <2>1, KVStoreAssumption DEF SharedHash, AllKeys
  <2>4. CASE t.val_len = 0
    <3>1. t.key = Zero BY <1>1, <1>2, <2>4, TornFields
    <3>2. IsRead(Kept(n), k, None) BY <1>4, <2>2, <2>4, ReadLast
    <3>. QED BY <2>3, <3>1, <3>2 DEF Agrees
  <2>5. CASE t.val_len # 0
    <3>1. t.off = r.off /\ t.key \in {Zero, r.key}
      BY <1>1, <1>2, <2>5, TornFields
    <3>2. ValueFrom(Kept(n), k, t.at) = ValueFrom(Kept(n), k, r.off)
      BY <1>1, <1>3, <1>4, <1>7, <2>1, <2>5, <3>1, ValueSteps
    <3>3. ValueFrom(Kept(n), k, r.off) = ValueFrom(log, k, r.off)
      <4>. DEFINE b == r.at - 1
      <4>1. b \in 0 .. MaxLog /\ r.off \in 0 .. b BY <1>1, <1>3, <2>1, LimitsAre
      <4>2. \A s \in log : s.at <= b => s.at < r.at
        BY <1>1 DEF RecordSet, Record_
      <4>3. ~(t.at <= b) BY <1>1, <1>3
      <4>. HIDE DEF b
      <4>4. \A s \in log : s.at <= b => s \in Kept(n)
        BY <4>2, KeptBefore
      <4>5. SameUpTo(Kept(n), log, b) BY <1>4, <4>3, <4>4 DEF SameUpTo
      <4>. HIDE DEF Kept
      <4>. QED BY <1>4, <4>1, <4>5, ValueSame
    <3>4. ASSUME NEW x, x = ValueFrom(log, k, r.off)
          PROVE  IsRead(Kept(n), k, x)
      <4>1. x = ValueFrom(Kept(n), k, t.at) BY <3>2, <3>3, <3>4
      <4>. QED BY <1>4, <2>2, <2>5, <4>1, ReadLast
    <3>5. CASE hash(r.key) = hash(k)
      <4>1. m[k] = ValueFrom(log, k, r.off)
        BY <1>1, <1>3, <2>1, <3>5 DEF Remembers
      <4>. QED BY <3>4, <4>1 DEF Agrees
    <3>6. CASE hash(r.key) # hash(k)
      <4>1. t.key = Zero /\ hash(k) = hash(Zero) /\ r.key # Zero
        BY <2>1, <3>1, <3>6
      <4>2. LeadsBack(log, left, r.key, r.at, r.off)
        BY <1>3, <2>1, <4>1 DEF AllLeadBack
      <4>3. r.off = 0 \/ \E s \in log : s.at = r.off /\ hash(s.key) # hash(k)
        BY <3>6, <4>2 DEF LeadsBack, Behind
      <4>4. r.off \in 0 .. MaxLog BY <1>1 DEF Record_
      <4>5. ValueFrom(log, k, r.off) = None BY <4>1, <4>3, <4>4, ForeignChain
      <4>. QED BY <2>3, <3>4, <4>1, <4>5 DEF Agrees
    <3>. QED BY <3>5, <3>6
  <2>. QED BY <2>4, <2>5
<1>. QED BY <1>8, <1>9

(* A crash leaves a map that the store held, but for one key at most and   *)
(* what a restore forgets.                                                 *)
LEMMA CrashRead ==
  ASSUME RecordSet(log), Apart(log), Laid(log, raw), AllLeadBack(log, left),
         raw \in Nat, synced \in Nat, Whole(log), Boundary(synced),
         \A e \in synced .. raw :
           Boundary(e) => \E m \in past : Remembers(m, e),
         NEW n \in Nat, synced <= n, n <= raw
  PROVE  \E m \in past, g \in {{}} \cup {{k} : k \in Keys} :
           \A k \in Keys \ g : Agrees(m, Kept(n), k)
<1>1. CASE \A s \in log : ~(s.at < n /\ n < End(s))
  <2>1. PICK e \in synced .. raw : Boundary(e) /\ Kept(n) = Prefix(e)
    BY <1>1, NothingCut
  <2>2. PICK m \in past : Remembers(m, e) BY <2>1
  <2>3. \A k \in Keys \ {} : Agrees(m, Kept(n), k)
    BY <2>1, <2>2 DEF Remembers
  <2>. QED BY <2>3
<1>2. CASE \E s \in log : s.at < n /\ n < End(s)
  <2>1. PICK r \in log : r.at < n /\ n < End(r) BY <1>2
  <2>2. /\ r.at \in synced .. raw /\ Boundary(r.at) /\ n - r.at \in Nat
        /\ \E t \in TornRecord(r, n - r.at) : Kept(n) = Prefix(r.at) \cup {t}
    BY <2>1, OneCut
  <2>3. PICK t \in TornRecord(r, n - r.at) : Kept(n) = Prefix(r.at) \cup {t}
    BY <2>2
  <2>4. PICK m \in past : Remembers(m, r.at) BY <2>2
  <2>5. \A k \in Keys : ~Matches(t, k) => Agrees(m, Kept(n), k)
    BY <2>1, <2>3, <2>4, CutRead
  <2>6. CASE \A k \in Keys : ~Matches(t, k)
    <3>1. \A k \in Keys \ {} : Agrees(m, Kept(n), k) BY <2>5, <2>6
    <3>. QED BY <3>1
  <2>7. CASE \E j \in Keys : Matches(t, j)
    <3>1. PICK j \in Keys : Matches(t, j) BY <2>7
    <3>2. \A k \in Keys : Matches(t, k) => k = j
      BY <3>1, MatchOne DEF AllKeys
    <3>3. \A k \in Keys \ {j} : Agrees(m, Kept(n), k) BY <2>5, <3>2
    <3>4. {j} \in {{}} \cup {{k} : k \in Keys} OBVIOUS
    <3>. QED BY <3>3, <3>4
  <2>. QED BY <2>6, <2>7
<1>. QED BY <1>1, <1>2

-----------------------------------------------------------------------------
(* The steps. *)

LEMMA RestorableReads ==
  RecordSet(disk)
  /\ (\A r \in disk : r.at = 0 \/ \E s \in disk : End(s) = r.at /\ GoesOn(s))
  => \A k \in Keys : IsRead(disk, k, Restorable[k])
BY RestorableIsRead

LEMMA RestorableReadsAfter ==
  (RecordSet(disk)
   /\ (\A r \in disk : r.at = 0 \/ \E s \in disk : End(s) = r.at /\ GoesOn(s))
   => \A k \in Keys : IsRead(disk, k, Restorable[k]))'
BY RestorableReads, PTL

(* Without a log there is nothing that entries could lead to. *)
LEMMA ClosedEntries ==
  ASSUME index' = index_open, log' = {}
  PROVE  EntriesAre' /\ EntriesRestored'
<1>1. \A k \in AllKeys : index_lookup(index', hash(k)) = 0
  BY NewIndex, HashIsKey
<1>. QED BY <1>1 DEF EntriesAre, EntryIs, EntriesRestored, On

(* Closing or crashing leaves a log that restores as the map says. *)
LEMMA StopMap ==
  ASSUME Base, Base', Layout, Layout', Chaining, Mapping, st = "open",
         NEW n \in Nat, synced <= n, n <= raw, Stop(n), zeroed \/ n = raw
  PROVE  Mapping'
<1>1. /\ RecordSet(log) /\ raw \in Nat /\ raw > 0 /\ synced \in Nat
      /\ \A r \in log : End(r) <= raw
  BY LimitsAre DEF Base, Records, Scalars
<1>2. /\ left' = Kept(n) /\ log' = {} /\ st' = "closed" /\ index' = index_open
      /\ kv' = Restorable' /\ past' = {kv'} /\ UNCHANGED zeroed
  BY DEF Stop, Freed
<1>3. CASE ~zeroed
  <2>1. Kept(n) = log BY <1>1, <1>3, KeptAll
  <2>2. log # {} BY <1>1 DEF Layout, Laid
  <2>3. ~(zeroed' \/ left' = {}) BY <1>2, <1>3, <2>1, <2>2
  <2>. QED BY <2>3 DEF Mapping
<1>4. CASE zeroed
  <2>1. Whole(log) /\ \A r \in log : GoesOn(r) BY <1>4 DEF Mapping, OpenMap
  <2>2. Whole(Kept(n)) BY <1>1, <2>1, KeptWhole DEF Chaining
  <2>3. \A t \in Kept(n) :
          t.at = 0 \/ \E s \in Kept(n) : End(s) = t.at /\ GoesOn(s)
    BY <1>1, <2>1, KeptGoesOn DEF Layout
  <2>. HIDE DEF Kept
  <2>4. disk' = left' BY <1>2, <1>4 DEF Layout
  <2>5. RecordSet(disk)' BY DEF Base, Records
  <2>6. \A k \in Keys : IsRead(left', k, kv'[k])
    <3>1. (\A r \in disk : r.at = 0
             \/ \E s \in disk : End(s) = r.at /\ GoesOn(s))'
      BY <1>2, <2>3, <2>4 DEF GoesOn, End, RecordLen
    <3>2. (\A k \in Keys : IsRead(disk, k, Restorable[k]))'
      BY <2>5, <3>1, RestorableReadsAfter
    <3>. QED BY <1>2, <2>4, <3>2
  <2>7. kv' \in Maps BY <1>2, MapsAfter
  <2>8. EntriesAre' /\ EntriesRestored' BY <1>2, ClosedEntries
  <2>9. ClosedMap'
    BY <1>2, <2>2, <2>3, <2>6, <2>7, <2>8
    DEF ClosedMap, Whole, GoesOn, End, RecordLen
  <2>. QED BY <1>2, <2>9 DEF Mapping
<1>. QED BY <1>3, <1>4

LEMMA FoundAre ==
  Base => \A k \in AllKeys :
            Found(k) = ValueFrom(log, k, index_lookup(index, hash(k)))
BY FoundIs

LEMMA FoundAfter ==
  (Base => \A k \in AllKeys :
             Found(k) = ValueFrom(log, k, index_lookup(index, hash(k))))'
BY FoundAre, PTL

LEMMA ViewSame ==
  ASSUME Base, Base', log' = log,
         \A k \in AllKeys :
           index_lookup(index', hash(k)) = index_lookup(index, hash(k))
  PROVE  View' = View
<1>1. \A k \in AllKeys : Found(k)' = Found(k)
  BY FoundAre, FoundAfter
<1>2. View' = [k \in Keys |-> Found(k)'] BY DEF View
<1>3. \A k \in Keys : k \in AllKeys BY DEF AllKeys
<1>. QED BY <1>1, <1>2, <1>3 DEF View

(* One entry is put; the others lead where they did. *)
LEMMA EntriesPut ==
  ASSUME Base, EntriesAre, raw > 0, NEW r \in Record_, r.at = raw,
         log' = log \cup {r},
         NEW off \in {0, r.at}, off = 0 => r.val_len = 0,
         index' = SetOff(index_update(index, hash(r.key)), hash(r.key), off)
  PROVE  /\ EntriesAre'
         /\ EntriesRestored /\ (r.val_len = 0 => off = 0) => EntriesRestored'
<1>1. /\ raw \in Nat /\ RecordSet(log) /\ Sound(index)
      /\ \A s \in log : End(s) <= raw
  BY LimitsAre DEF Base, Scalars, Records, IndexInv
<1>2. hash(r.key) \in HashKey /\ \A k \in AllKeys : hash(k) \in HashKey
  BY HashIsKey DEF Record_
<1>3. \A k \in HashKey :
        index_lookup(index', k) =
          IF k = hash(r.key) THEN off ELSE index_lookup(index, k)
  <2>1. off \in Nat BY <1>1
  <2>. QED BY <1>1, <1>2, <2>1, PutIs
<1>4. \A s \in log : s.at \in Nat /\ s.at < raw
  <2>1. \A s \in log : s.at \in Nat /\ End(s) \in Nat /\ s.at < End(s)
    BY <1>1, EndIs DEF RecordSet
  <2>. QED BY <1>1, <2>1
<1>5. ASSUME NEW k \in AllKeys
      PROVE  /\ EntryIs(k, index_lookup(index, hash(k)))'
             /\ EntriesRestored /\ (r.val_len = 0 => off = 0) => \A l \in On(log', k) :
                  IsLast(log', k, l) /\ l.val_len = 0
                    => index_lookup(index', hash(k)) = 0
  <2>1. CASE hash(k) = hash(r.key)
    <3>1. index_lookup(index', hash(k)) = off BY <1>2, <1>3, <2>1
    <3>2. r \in On(log', k) BY <1>1, <2>1 DEF On
    <3>3. \A l : IsLast(log', k, l) => l = r
      <4>. SUFFICES ASSUME NEW l, IsLast(log', k, l) PROVE l = r OBVIOUS
      <4>1. l \in log \cup {r} /\ r.at <= l.at BY <3>2 DEF IsLast, On
      <4>. QED BY <1>1, <1>4, <4>1
    <3>4. EntryIs(k, index_lookup(index, hash(k)))'
      BY <3>1, <3>2, <3>3 DEF EntryIs
    <3>. QED BY <3>1, <3>3, <3>4
  <2>2. CASE hash(k) # hash(r.key)
    <3>1. index_lookup(index', hash(k)) = index_lookup(index, hash(k))
      BY <1>2, <1>3, <2>2
    <3>2. On(log', k) = On(log, k) BY <2>2 DEF On
    <3>3. \A l : IsLast(log', k, l) <=> IsLast(log, k, l)
      BY <3>2 DEF IsLast
    <3>4. EntryIs(k, index_lookup(index, hash(k)))'
      BY <3>1, <3>2, <3>3 DEF EntryIs, EntriesAre
    <3>. QED BY <3>1, <3>2, <3>3, <3>4 DEF EntriesRestored
  <2>. QED BY <2>1, <2>2
<1>. QED BY <1>5 DEF EntriesAre, EntriesRestored

(* The whole log is remembered as what lookups find. *)
LEMMA RemembersAll ==
  ASSUME Base, Whole(log), EntriesAre PROVE Remembers(View, raw)
<1>1. /\ RecordSet(log) /\ raw \in Nat /\ \A r \in log : End(r) <= raw
  BY LimitsAre DEF Base, Records, Scalars
<1>2. \A r \in log : r.at \in Nat /\ End(r) \in Nat /\ r.at < End(r)
  BY <1>1, EndIs DEF RecordSet
<1>3. Prefix(raw) = log BY <1>1 DEF Prefix
<1>4. \A r \in log : r.at # raw BY <1>1, <1>2
<1>5. \A k \in Keys : Agrees(View, Prefix(raw), k) BY <1>3, ViewIsRead
<1>. QED BY <1>4, <1>5 DEF Remembers

LEMMA RemembersRaw == Base /\ Whole(log) /\ EntriesAre => Remembers(View, raw)
BY RemembersAll

LEMMA RemembersAfter ==
  (Base /\ Whole(log) /\ EntriesAre => Remembers(View, raw))'
BY RemembersRaw, PTL

LEMMA LaidBoundary ==
  ASSUME NEW n \in Nat, Laid(log, n) PROVE Boundary(n)
BY DEF Laid, Boundary

LEMMA OpenMapStep ==
  ASSUME DummyFits, Base, Base', Open
  PROVE  Mapping' /\ kv' = [k \in Keys |-> None]
<1>. DEFINE dummy == Record(0, 0, Zero, Zero)
<1>1. /\ st' = "open" /\ log' = {dummy} /\ raw' = End(dummy)
      /\ index' = index_open /\ synced' = 0 /\ kv' = View' /\ past' = {kv'}
  BY DEF Open
<1>2. KeyLen[Zero] \in Nat \ {0} /\ ValLen[Zero] \in Nat \ {0}
  BY KVStoreAssumption DEF AllKeys
<1>3. /\ dummy.at = 0 /\ dummy.off = 0 /\ dummy.key = Zero
      /\ dummy.key_len = KeyLen[Zero]
      /\ dummy.val_len = 0 => dummy.val = None
  BY <1>2 DEF Record, ValLenOf
<1>4. End(dummy) \in Nat
  BY <1>2 DEF End, RecordLen, Record, MetaLen, ValLenOf
<1>. HIDE DEF dummy
<1>5. Whole(log') /\ (\A r \in log' : GoesOn(r))
  BY <1>1, <1>3 DEF Whole, GoesOn
<1>6. \A S, k : S \subseteq log' => On(S, k) = {} BY <1>1, <1>3 DEF On
<1>7. \A k \in AllKeys : index_lookup(index', hash(k)) = 0
  BY <1>1, NewIndex, HashIsKey
<1>8. EntriesAre' BY <1>6, <1>7 DEF EntriesAre, EntryIs
<1>9. \A k \in Keys : k \in AllKeys BY DEF AllKeys
<1>10. \A k \in AllKeys : Found(k)' = None
  <2>1. RecordSet(log') /\ 0 \in 0 .. MaxLog
    BY LimitsAre DEF Base, Records, RecordSet, End, RecordLen
  <2>2. \A k : ValueFrom(log', k, 0) = None BY <2>1, ValueSteps
  <2>. QED BY <1>7, <2>2, FoundAfter
<1>11. View' = [k \in Keys |-> None]
  <2>1. View' = [k \in Keys |-> Found(k)'] BY DEF View
  <2>. QED BY <1>9, <1>10, <2>1
<1>12. Boundary(synced)' BY <1>1 DEF Boundary
<1>13. ASSUME NEW e, NEW m, m = kv' PROVE Remembers(m, e)'
  <2>1. Prefix(e)' \subseteq log' BY DEF Prefix
  <2>2. \A k \in Keys : Agrees(m, Prefix(e)', k)
    BY <1>1, <1>6, <1>11, <1>13, <2>1, ReadNothing DEF Agrees
  <2>3. \A r \in log' : ~(r.at = e /\ e > 0) BY <1>1, <1>3
  <2>. QED BY <2>2, <2>3 DEF Remembers
<1>14. OpenMap'
  <2>1. \A e : \E m \in past' : Remembers(m, e)' BY <1>1, <1>13
  <2>. QED BY <1>1, <1>5, <1>8, <1>12, <2>1 DEF OpenMap, Whole, GoesOn
<1>. QED BY <1>1, <1>11, <1>14 DEF Mapping

LEMMA VisitorInitMap ==
  ASSUME Base, Mapping, VisitorInit
  PROVE  Mapping'
<1>1. /\ st = "restoring" /\ raw = 0 /\ RecordSet(log)
      /\ UNCHANGED <<index, zeroed, left, kv, past>>
      /\ \A r \in log : End(r) <= raw
  BY DEF VisitorInit, history, Base, Scalars, Records
<1>2. log = {}
  <2>1. \A r \in log : End(r) \in Nat /\ 0 < End(r) /\ End(r) <= 0
    BY <1>1, EndIs DEF RecordSet
  <2>. QED BY <2>1
<1>3. CASE At0 = {}
  <2>1. st' = "exited" BY <1>3 DEF VisitorInit
  <2>. QED BY <2>1 DEF Mapping
<1>4. CASE At0 # {}
  <2>1. PICK r \in At0 : log' = {r} /\ st' = st BY <1>4 DEF VisitorInit
  <2>2. r.at = 0 BY DEF At0
  <2>3. \A k : On(log', k) = {} /\ On(log, k) = {}
    BY <1>2, <2>1, <2>2 DEF On
  <2>4. SUFFICES ASSUME zeroed \/ left = {} PROVE ClosedMap'
    BY <1>1, <2>1 DEF Mapping
  <2>5. ClosedMap BY <1>1, <2>4 DEF Mapping
  <2>6. EntriesAre'
    BY <1>1, <2>3, <2>5 DEF ClosedMap, EntriesAre, EntryIs
  <2>7. EntriesRestored' BY <2>3 DEF EntriesRestored
  <2>8. \A s \in log' : GoesOn(s) BY <2>1, <2>2 DEF GoesOn
  <2>9. (\A s \in left : s.at = 0 \/ \E t \in left : End(t) = s.at /\ GoesOn(t))'
    BY <1>1, <2>5 DEF ClosedMap, GoesOn, End, RecordLen
  <2>. QED BY <1>1, <2>5, <2>6, <2>7, <2>8, <2>9 DEF ClosedMap
<1>. QED BY <1>3, <1>4

LEMMA VisitorNextMap ==
  ASSUME Base, Mapping, VisitorNext
  PROVE  Mapping'
<1>1. /\ st = "restoring" /\ raw = next /\ next # 0 /\ raw \in Nat
      /\ UNCHANGED <<disk, zeroed, left, kv, past>>
      /\ RecordSet(disk)
  BY LimitsAre DEF VisitorNext, history, Base, Scalars, Records
<1>2. PICK r \in ToRead :
        /\ log' = log \cup {r}
        /\ IF r.key_len = 0
           THEN st' = "aborted" /\ UNCHANGED <<index, size, waste>>
           ELSE Indexed(r) /\ UNCHANGED st
  BY DEF VisitorNext
<1>3. r.at = raw /\ r \in Record_ /\ raw > 0
  BY <1>1 DEF ToRead, RecordSet
<1>4. CASE r.key_len = 0
  <2>1. st' = "aborted" BY <1>2, <1>4
  <2>. QED BY <2>1 DEF Mapping
<1>5. CASE r.key_len # 0
  <2>1. st' = "restoring" /\ Indexed(r) BY <1>1, <1>2, <1>5
  <2>2. SUFFICES ASSUME zeroed \/ left = {} PROVE ClosedMap'
    BY <1>1, <2>1 DEF Mapping
  <2>3. ClosedMap BY <1>1, <2>2 DEF Mapping
  <2>4. PICK off \in {0, r.at} :
          /\ index' = SetOff(index_update(index, hash(r.key)), hash(r.key), off)
          /\ off = 0 <=> r.val_len = 0
    <3>1. CASE r.val_len = 0
      <4>1. index' = SetOff(index_update(index, hash(r.key)), hash(r.key), 0)
        BY <2>1, <3>1 DEF Indexed
      <4>. QED BY <3>1, <4>1
    <3>2. CASE r.val_len # 0
      <4>1. index' = SetOff(index_update(index, hash(r.key)), hash(r.key), r.at)
        BY <2>1, <3>2 DEF Indexed
      <4>2. r.at # 0 BY <1>1, <1>3
      <4>. QED BY <3>2, <4>1, <4>2
    <3>. QED BY <3>1, <3>2
  <2>5. EntriesAre /\ EntriesRestored BY <2>3 DEF ClosedMap
  <2>6. EntriesAre' /\ EntriesRestored'
    BY <1>2, <1>3, <2>4, <2>5, EntriesPut
  <2>7. \A s \in log' : GoesOn(s)
    BY <1>2, <1>3, <1>5, <2>3 DEF ClosedMap, GoesOn, Record_
  <2>8. (\A s \in left : s.at = 0 \/ \E t \in left : End(t) = s.at /\ GoesOn(t))'
    BY <1>1, <2>3 DEF ClosedMap, GoesOn, End, RecordLen
  <2>. QED BY <1>1, <2>3, <2>6, <2>7, <2>8 DEF ClosedMap
<1>. QED BY <1>4, <1>5

LEMMA RestoreDoneMap ==
  ASSUME Base, Base', Layout, Mapping, RestoreDone
  PROVE  Mapping' /\ (zeroed \/ left = {} => kv' = kv /\ past' = past)
<1>1. /\ st = "restoring" /\ next # 0 /\ ToRead = {} /\ raw = next
      /\ st' = "open" /\ synced' = raw /\ kv' = View /\ past' = {kv'}
      /\ UNCHANGED <<log, raw, index, disk, zeroed, left>>
      /\ raw \in Nat /\ RecordSet(log)
  BY LimitsAre DEF RestoreDone, kvdb, Base, Scalars, Records
<1>2. SUFFICES ASSUME zeroed \/ left = {}
               PROVE  OpenMap' /\ kv' = kv /\ past' = past
  BY <1>1 DEF Mapping
<1>3. ClosedMap BY <1>1, <1>2 DEF Mapping
<1>4. zeroed
  <2>1. ASSUME ~zeroed PROVE left # {}
    BY <1>1, <2>1 DEF Layout, OlderBehind
  <2>. QED BY <1>2, <2>1
<1>5. log = left
  <2>1. left \subseteq log BY <1>1, AllRead
  <2>. QED BY <1>1, <1>4, <2>1 DEF Layout
<1>6. \A k \in Keys : View[k] = kv[k]
  <2>1. Whole(log) /\ EntriesAre /\ EntriesRestored
        /\ \A k \in Keys : IsRead(log, k, kv[k])
    BY <1>3, <1>5 DEF ClosedMap
  <2>2. \A k \in Keys : IsRead(log, k, View[k]) BY <2>1, ViewIsRead
  <2>. QED BY <1>1, <2>1, <2>2, ReadIsOne
<1>7. View = kv BY <1>3, <1>6 DEF ClosedMap, Maps, View
<1>8. View' = View BY <1>1, ViewSame
<1>9. /\ Whole(log) /\ \A r \in log : GoesOn(r)
      /\ EntriesAre
  BY <1>3, <1>5 DEF ClosedMap
<1>10. /\ Whole(log') /\ \A r \in log' : GoesOn(r)
       /\ EntriesAre'
  BY <1>1, <1>9 DEF EntriesAre, EntryIs
<1>11. Boundary(synced)'
  <2>1. Boundary(raw) BY <1>1, LaidBoundary DEF Layout
  <2>. QED BY <1>1, <2>1 DEF Boundary, End, RecordLen
<1>12. \A e \in (synced .. raw)' : \E m \in past' : Remembers(m, e)'
  <2>1. Remembers(View, raw)' BY <1>10, RemembersAfter DEF Whole
  <2>2. ASSUME NEW m, m = View' PROVE Remembers(m, raw)'
    BY <2>1, <2>2 DEF Remembers
  <2>3. (synced .. raw)' = {raw'} BY <1>1
  <2>4. ASSUME NEW e, e = raw', NEW m, m = View' PROVE Remembers(m, e)'
    BY <2>2, <2>4 DEF Remembers, Prefix
  <2>. QED BY <1>1, <1>8, <2>3, <2>4
<1>13. OpenMap' BY <1>1, <1>8, <1>10, <1>11, <1>12 DEF OpenMap, Whole, GoesOn
<1>. QED BY <1>1, <1>3, <1>7, <1>13 DEF ClosedMap

(* A call that changes no record. *)
LEMMA ReadMap ==
  ASSUME Base, Base', Layout, Mapping, st = "open",
         UNCHANGED <<st, log, raw, zeroed, left>>,
         \A k \in AllKeys :
           index_lookup(index', hash(k)) = index_lookup(index, hash(k)),
         NEW ref, synced' = Synced(ref),
         ref = 0 => past \subseteq past',
         kv' = View' \/ kv' = kv, kv' \in past', ref # 0 => kv \in past'
  PROVE  Mapping' /\ View' = View
<1>1. /\ RecordSet(log) /\ raw \in Nat /\ synced \in Nat /\ synced <= raw
  BY LimitsAre DEF Base, Scalars, Records, Layout
<1>2. View' = View BY ViewSame
<1>3. SUFFICES ASSUME zeroed \/ left = {} PROVE OpenMap'
  BY <1>2 DEF Mapping
<1>4. OpenMap BY <1>3 DEF Mapping
<1>5. kv' = View' BY <1>2, <1>4 DEF OpenMap
<1>6. /\ Whole(log') /\ \A r \in log' : GoesOn(r)
      /\ EntriesAre'
  BY <1>4 DEF OpenMap, EntriesAre, EntryIs
<1>7. \A e : Boundary(e)' <=> Boundary(e) BY DEF Boundary, End, RecordLen
<1>8. Boundary(synced)'
  <2>1. Boundary(raw) BY <1>1, LaidBoundary DEF Layout
  <2>2. Boundary(synced) BY <1>4 DEF OpenMap
  <2>3. Boundary(IF ref = 0 THEN synced ELSE raw) BY <2>1, <2>2
  <2>. QED BY <2>3 DEF Synced, Boundary, End, RecordLen
<1>9. \A m, e : Remembers(m, e)' <=> Remembers(m, e)
  <2>1. \A e : Prefix(e)' = Prefix(e) BY DEF Prefix, End, RecordLen
  <2>. QED BY <2>1 DEF Remembers
<1>10. ASSUME NEW e \in (synced .. raw)', Boundary(e)
       PROVE  \E m \in past' : Remembers(m, e)
  <2>1. CASE ref = 0
    <3>1. e \in synced .. raw BY <2>1 DEF Synced
    <3>. QED BY <1>4, <1>10, <2>1, <3>1 DEF OpenMap
  <2>2. CASE ref # 0
    <3>1. e = raw BY <1>1, <2>2 DEF Synced
    <3>2. Remembers(kv, raw) BY <1>4, RemembersAll DEF OpenMap
    <3>. QED BY <2>2, <3>1, <3>2
  <2>. QED BY <2>1, <2>2
<1>. QED
  BY <1>5, <1>6, <1>7, <1>8, <1>9, <1>10 DEF OpenMap, Whole, GoesOn

(* The record that a call appends. *)
LEMMA WrittenIs ==
  ASSUME Base, NEW k \in Keys, NEW v \in Vals \cup {None}, NEW refused,
         NEW grows, NEW shrinks, NEW wastes,
         mutate(k, v, refused, grows, shrinks, wastes), Result(k, refused) = 0
  PROVE  \E r \in Record_ :
           /\ log' = log \cup {r} /\ raw' = End(r)
           /\ r.at = raw /\ r.key = k /\ r.val = v /\ r.key_len = KeyLen[k]
           /\ r.val_len = 0 <=> v = None
           /\ r.off = index_lookup(index, hash(k)) /\ r.off < raw
           /\ index' = SetOff(index_update(index, hash(r.key)), hash(r.key), r.at)
           /\ synced' = Synced(r.off) /\ kv' = View'
           /\ past' = (IF r.off = 0 THEN past ELSE {kv}) \cup {kv'}
<1>. DEFINE updated == index_update(index, hash(k))
            ref     == index_lookup(updated, hash(k))
            r       == Record(raw, ref, k, v)
<1>1. raw \in Nat /\ Sound(index) /\ raw > 0
  BY LimitsAre DEF mutate, Base, Scalars, IndexInv
<1>2. hash(k) \in HashKey /\ k \in AllKeys BY HashIsKey DEF AllKeys
<1>3. ref = index_lookup(index, hash(k)) BY <1>1, <1>2, UpdatesKeepEntries
<1>4. ref \in Nat /\ ref < raw
  BY <1>1, <1>2, <1>3, LookupIs DEF Base, IndexInv
<1>5. /\ log' = log \cup {r} /\ raw' = End(r)
      /\ index' = SetOff(updated, hash(k), raw)
      /\ End(r) <= IF zeroed THEN MaxLog ELSE MaxOver
      /\ synced' = Synced(ref) /\ kv' = View'
      /\ past' = (IF ref = 0 THEN past ELSE {kv}) \cup {kv'}
  BY DEF mutate
<1>6. End(r) <= MaxLog
  <2>1. KeyLen[k] \in Nat /\ ValLenOf(v) \in Nat
    BY <1>2, KVStoreAssumption DEF ValLenOf
  <2>2. End(r) = raw + (MetaLen + KeyLen[k] + ValLenOf(v))
    BY DEF End, RecordLen, Record
  <2>3. End(r) \in Nat BY <1>1, <2>1, <2>2 DEF MetaLen
  <2>. QED BY <1>5, <2>3, LimitsAre
<1>7. /\ r \in Record_ /\ r.at = raw /\ r.off = ref /\ r.key = k /\ r.val = v
  BY <1>1, <1>2, <1>4, <1>6, RecordIs
<1>8. r.key_len = KeyLen[k] /\ (r.val_len = 0 <=> v = None)
  BY KVStoreAssumption DEF Record, ValLenOf
<1>9. index' = SetOff(index_update(index, hash(r.key)), hash(r.key), r.at)
  BY <1>5, <1>7
<1>. HIDE DEF updated, ref, r
<1>. QED BY <1>3, <1>4, <1>5, <1>7, <1>8, <1>9

LEMMA WrittenView ==
  ASSUME Base, Base', NEW k \in Keys, NEW v,
         NEW r \in Record_, log' = log \cup {r},
         r.at = raw, r.key = k, r.val = v, r.key_len = KeyLen[k],
         r.off = index_lookup(index, hash(k)), r.off < raw, raw > 0,
         index' = SetOff(index_update(index, hash(r.key)), hash(r.key), r.at)
  PROVE  /\ \A j, off : off \in 0 .. MaxLog /\ off < raw =>
              ValueFrom(log', j, off) = ValueFrom(log, j, off)
         /\ View' = [View EXCEPT ![k] = v]
<1>1. /\ raw \in Nat /\ raw <= MaxLog /\ Sound(index) /\ RecordSet(log)
      /\ RecordSet(log')
  BY LimitsAre DEF Base, Scalars, Records, IndexInv, RecordSet, End, RecordLen
<1>2. hash(k) \in HashKey /\ k \in AllKeys /\ \A j \in AllKeys : hash(j) \in HashKey
  BY HashIsKey DEF AllKeys
<1>3. ASSUME NEW j, NEW off \in 0 .. MaxLog, off < raw
      PROVE  ValueFrom(log', j, off) = ValueFrom(log, j, off)
  <2>. DEFINE b == raw - 1
  <2>1. b \in 0 .. MaxLog /\ off \in 0 .. b BY <1>1, <1>3, LimitsAre
  <2>2. ~(r.at <= b) BY <1>1
  <2>. HIDE DEF b
  <2>3. SameUpTo(log', log, b) BY <2>2 DEF SameUpTo
  <2>. QED BY <1>1, <2>1, <2>3, ValueSame
<1>4. ASSUME NEW j \in AllKeys
      PROVE  Found(j)' = IF j = k THEN v ELSE Found(j)
  <2>. DEFINE e == index_lookup(index, hash(j))
  <2>1. Found(j) = ValueFrom(log, j, e) BY FoundAre
  <2>2. Found(j)' = ValueFrom(log', j, index_lookup(index', hash(j)))
    BY FoundAfter
  <2>3. index_lookup(index', hash(j)) = IF hash(j) = hash(k) THEN raw ELSE e
    BY <1>1, <1>2, PutIs
  <2>4. e \in 0 .. MaxLog /\ e < raw
    BY <1>1, <1>2, LookupIs, LimitsAre DEF Base, IndexInv
  <2>. HIDE DEF e
  <2>5. ValueFrom(log', j, e) = ValueFrom(log, j, e) BY <1>3, <2>4
  <2>6. CASE hash(j) # hash(k) BY <2>1, <2>2, <2>3, <2>5, <2>6
  <2>7. CASE hash(j) = hash(k)
    <3>1. e = r.off BY <2>7 DEF e
    <3>2. raw \in 0 .. MaxLog /\ r \in log' BY <1>1, LimitsAre
    <3>3. Matches(r, j) <=> j = k BY <1>2, MatchesIs
    <3>4. ValueFrom(log', j, raw) =
            IF Matches(r, j) THEN r.val ELSE ValueFrom(log', j, r.off)
      BY <1>1, <3>2, ValueSteps
    <3>. QED BY <2>1, <2>2, <2>3, <2>5, <2>7, <3>1, <3>3, <3>4
  <2>. QED BY <2>6, <2>7
<1>5. View' = [View EXCEPT ![k] = v]
  <2>1. View' = [j \in Keys |-> Found(j)'] BY DEF View
  <2>2. \A j \in Keys : j \in AllKeys BY DEF AllKeys
  <2>. QED BY <1>4, <2>1, <2>2 DEF View
<1>. QED BY <1>3, <1>5

(* A call that appends a record. *)
LEMMA WrittenMap ==
  ASSUME Base, Base', Layout, Layout', Chaining, Mapping, zeroed \/ left = {},
         NEW k \in Keys, NEW v \in Vals \cup {None}, NEW refused,
         NEW grows, NEW shrinks, NEW wastes,
         mutate(k, v, refused, grows, shrinks, wastes), Result(k, refused) = 0
  PROVE  OpenMap' /\ View' = [View EXCEPT ![k] = v]
<1>1. /\ st = "open" /\ raw \in Nat /\ raw > 0 /\ RecordSet(log)
      /\ \A s \in log : End(s) <= raw
      /\ raw <= MaxLog /\ synced \in Nat /\ synced <= raw
      /\ RecordSet(log') /\ raw' \in Nat
  BY LimitsAre
  DEF mutate, Base, Scalars, Records, Layout, RecordSet, End, RecordLen
<1>2. k \in AllKeys BY DEF AllKeys
<1>3. PICK r \in Record_ :
        /\ log' = log \cup {r} /\ raw' = End(r)
        /\ r.at = raw /\ r.key = k /\ r.val = v /\ r.key_len = KeyLen[k]
        /\ r.val_len = 0 <=> v = None
        /\ r.off = index_lookup(index, hash(k)) /\ r.off < raw
        /\ index' = SetOff(index_update(index, hash(r.key)), hash(r.key), r.at)
        /\ synced' = Synced(r.off) /\ kv' = View'
        /\ past' = (IF r.off = 0 THEN past ELSE {kv}) \cup {kv'}
  BY WrittenIs
<1>4. /\ \A j, off : off \in 0 .. MaxLog /\ off < raw =>
           ValueFrom(log', j, off) = ValueFrom(log, j, off)
      /\ View' = [View EXCEPT ![k] = v]
  BY <1>1, <1>3, WrittenView
<1>5. /\ OpenMap /\ EntriesLeadBack
  BY <1>1 DEF Mapping, Chaining
<1>6. \A s \in log : s.at \in Nat /\ End(s) \in Nat /\ s.at < End(s) /\ s.at < raw
  <2>1. \A s \in log : s.at \in Nat /\ End(s) \in Nat /\ s.at < End(s)
    BY <1>1, EndIs DEF RecordSet
  <2>. QED BY <1>1, <2>1
<1>7. End(r) \in Nat /\ raw < End(r) BY <1>3, EndIs
<1>8. Whole(log')
  <2>1. r.off # 0 => r.at > 0 /\ \E s \in log : s.at = r.off
    <3>1. LeadsBack(log, left, k, raw, r.off)
      BY <1>2, <1>3, <1>5 DEF EntriesLeadBack
    <3>. QED BY <1>1, <1>3, <3>1 DEF LeadsBack, Behind
  <2>. QED BY <1>3, <1>5, <2>1 DEF OpenMap, Whole
<1>9. \A s \in log' : GoesOn(s)
  <2>1. r.key_len > 0 BY <1>2, <1>3, KVStoreAssumption
  <2>. QED BY <1>3, <1>5, <2>1 DEF OpenMap, GoesOn
<1>10. EntriesAre'
  <2>1. r.at \in {0, r.at} /\ r.at # 0 BY <1>1, <1>3
  <2>. QED BY <1>1, <1>3, <1>5, <2>1, EntriesPut DEF OpenMap
<1>11. Boundary(synced)'
  <2>1. Boundary(raw) BY <1>1, LaidBoundary DEF Layout
  <2>2. Boundary(synced) BY <1>5 DEF OpenMap
  <2>3. Boundary(IF r.off = 0 THEN synced ELSE raw) BY <2>1, <2>2
  <2>. QED BY <1>3, <2>3 DEF Synced, Boundary, End, RecordLen
<1>12. ASSUME NEW e \in (synced .. raw)', Boundary(e)'
       PROVE  \E m \in past' : Remembers(m, e)'
  <2>1. e \in Nat /\ e <= raw' /\ synced' <= e
    <3>1. synced' \in Nat BY <1>1, <1>3 DEF Synced
    <3>. QED BY <1>1, <1>12, <3>1
  <2>2. CASE e = raw'
    <3>1. Remembers(View, raw)'
      BY <1>8, <1>10, RemembersAfter DEF Whole
    <3>2. ASSUME NEW m, m = View' PROVE Remembers(m, e)'
      BY <2>2, <3>1, <3>2 DEF Remembers, Prefix
    <3>. QED BY <1>3, <3>2
  <2>3. CASE e # raw'
    <3>1. e = 0 \/ \E s \in log : End(s) = e
      BY <1>3, <1>12, <2>3 DEF Boundary, End, RecordLen
    <3>2. Boundary(e) /\ e <= raw BY <1>1, <3>1 DEF Boundary
    <3>3. Prefix(e)' = Prefix(e)
      <4>1. ~(End(r) <= e) BY <1>1, <1>7, <2>1, <3>2
      <4>2. Prefix(e)' = {s \in log' : End(s) <= e}
        BY DEF Prefix, End, RecordLen
      <4>. QED BY <1>3, <4>1, <4>2 DEF Prefix
    <3>4. CASE e < raw
      <4>1. r.off = 0 /\ synced' = synced
        BY <1>1, <1>3, <2>1, <3>4 DEF Synced
      <4>2. e \in synced .. raw BY <1>1, <2>1, <3>4, <4>1
      <4>3. PICK m \in past : Remembers(m, e)
        BY <1>5, <3>2, <4>2 DEF OpenMap
      <4>4. m \in past' BY <1>3, <4>1
      <4>5. ASSUME NEW j \in Keys, NEW s \in log', s.at = e, e > 0,
                   hash(s.key) = hash(j)
            PROVE  m[j] = ValueFrom(log', j, s.off)
        <5>1. s \in log BY <1>1, <1>3, <2>1, <3>4, <4>5
        <5>2. m[j] = ValueFrom(log, j, s.off)
          BY <4>3, <4>5, <5>1 DEF Remembers
        <5>3. s.off \in 0 .. MaxLog /\ s.off < raw
          BY <1>1, <2>1, <3>4, <4>5, <5>1 DEF RecordSet, Record_
        <5>. QED BY <1>4, <5>2, <5>3
      <4>6. \A j \in Keys : Agrees(m, Prefix(e)', j)
        BY <3>3, <4>3 DEF Remembers
      <4>7. Remembers(m, e)' BY <4>5, <4>6 DEF Remembers
      <4>. QED BY <4>4, <4>7
    <3>5. CASE e = raw
      <4>1. kv \in past' BY <1>3, <1>5 DEF OpenMap
      <4>2. kv = View BY <1>5 DEF OpenMap
      <4>3. Remembers(View, raw) BY <1>5, RemembersAll DEF OpenMap
      <4>4. ASSUME NEW m, m = View PROVE Remembers(m, e)'
        <5>1. \A j \in Keys : Agrees(m, Prefix(e)', j)
          BY <3>3, <3>5, <4>3, <4>4 DEF Remembers
        <5>2. ASSUME NEW j \in Keys, NEW s \in log', s.at = e, e > 0,
                     hash(s.key) = hash(j)
              PROVE  m[j] = ValueFrom(log', j, s.off)
          <6>1. s = r BY <1>3, <1>6, <3>5, <5>2
          <6>2. hash(j) = hash(k) /\ s.off = r.off BY <1>3, <5>2, <6>1
          <6>3. j \in AllKeys BY DEF AllKeys
          <6>4. View[j] = ValueFrom(log, j, r.off)
            BY <1>3, <6>2, <6>3, FoundAre DEF View
          <6>5. r.off \in 0 .. MaxLog BY DEF Record_
          <6>. QED BY <1>3, <1>4, <4>4, <6>2, <6>4, <6>5
        <5>. QED BY <5>1, <5>2 DEF Remembers
      <4>. QED BY <4>1, <4>2, <4>4
    <3>. QED BY <1>1, <2>1, <3>2, <3>4, <3>5
  <2>. QED BY <2>2, <2>3
<1>. QED
  BY <1>3, <1>8, <1>9, <1>10, <1>11, <1>4, <1>12
  DEF OpenMap, Whole, GoesOn

LEMMA FoundIsKV ==
  ASSUME Base, OpenMap, NEW k \in Keys
  PROVE  /\ kv[k] = Found(k) /\ Chained(k) # -1
         /\ index_lookup(index, hash(k)) = 0 => kv[k] = None
<1>. DEFINE e == index_lookup(index, hash(k))
<1>1. k \in AllKeys /\ RecordSet(log) BY DEF AllKeys, Base, Records
<1>2. kv[k] = Found(k) BY DEF OpenMap, View
<1>3. e \in 0 .. MaxLog BY <1>1, ChainedIs
<1>4. e = 0 \/ \E r \in log : r.at = e
  <2>1. EntryIs(k, e) BY <1>1 DEF OpenMap, EntriesAre
  <2>. HIDE DEF e
  <2>2. CASE On(log, k) = {} BY <2>1, <2>2 DEF EntryIs
  <2>3. CASE On(log, k) # {}
    <3>1. PICK l \in On(log, k) : IsLast(log, k, l)
      BY <1>1, <2>3, LastExists
    <3>2. l \in log BY DEF On
    <3>. QED BY <2>1, <3>1, <3>2 DEF EntryIs
  <2>. QED BY <2>2, <2>3
<1>5. Chained(k) # -1
  <2>. HIDE DEF e
  <2>1. chain_lookup(k, e) # -1 BY <1>1, <1>3, <1>4, NoHole DEF OpenMap
  <2>. QED BY <2>1 DEF Chained, e
<1>6. ASSUME e = 0 PROVE kv[k] = None
  <2>1. Found(k) = ValueFrom(log, k, 0) BY <1>1, <1>6, FoundAre
  <2>. QED BY <1>1, <1>2, <1>3, <1>6, <2>1, ValueSteps
<1>. QED BY <1>2, <1>5, <1>6

(* Whether what was left can be restored changes only with what was left. *)
LEMMA RegularSame ==
  ASSUME left' = left, restore_blk' = restore_blk PROVE Regular' = Regular
<1>1. Regular' <=> Regular
  BY DEF Regular, Rebuildable, RecordLen, End
<1>. QED BY <1>1, Zenon DEF Regular

LEMMA RegularAfter == Regular' \in BOOLEAN
BY Zenon DEF Regular

(* A mutation is the call that AbstractKV promises, which returns what a   *)
(* removal removes.                                                        *)
Returned(k, v, refused) == IF v = None /\ ~refused THEN kv[k] ELSE None

LEMMA MutateMap ==
  ASSUME Base, Base', Layout, Layout', Chaining, Mapping,
         NEW k \in Keys, NEW v \in Vals \cup {None}, NEW refused,
         NEW grows, NEW shrinks, NEW wastes,
         mutate(k, v, refused, grows, shrinks, wastes),
         restore_blk' = restore_blk
  PROVE  /\ Mapping'
         /\ zeroed \/ left = {} =>
              \A ok : (ok <=> ~refused)
                => Promised!Call(ok, k, v, Returned(k, v, refused))
<1>. DEFINE updated == index_update(index, hash(k))
            ref     == index_lookup(updated, hash(k))
<1>1. /\ st = "open" /\ UNCHANGED <<st, zeroed, left>>
      /\ out' = [rv  |-> Result(k, refused),
                 val |-> IF v = None /\ Result(k, refused) = 0
                         THEN Found(k) ELSE None]
      /\ past' = (IF ref = 0 THEN past ELSE {kv}) \cup {kv'}
      /\ kv' = View' /\ synced' = Synced(ref)
  BY DEF mutate, history
<1>2. /\ Sound(index) /\ hash(k) \in HashKey
      /\ \A j \in AllKeys : hash(j) \in HashKey
  BY HashIsKey DEF Base, IndexInv, AllKeys
<1>3. \A j \in HashKey : index_lookup(updated, j) = index_lookup(index, j)
  BY <1>2, UpdatesKeepEntries
<1>4. CASE ~(zeroed \/ left = {}) BY <1>1, <1>4 DEF Mapping
<1>5. CASE zeroed \/ left = {}
  <2>1. OpenMap BY <1>1, <1>5 DEF Mapping
  <2>2. kv = View /\ kv \in past BY <2>1 DEF OpenMap
  <2>3. Chained(k) # -1 /\ (ref = 0 => kv[k] = None) /\ kv[k] = Found(k)
    BY <1>2, <1>3, <2>1, FoundIsKV
  <2>7. Regular' = Regular BY <1>1, RegularSame
  <2>4. (ref = 0 => past \subseteq past') /\ kv' \in past'
        /\ (ref # 0 => kv \in past')
    BY <1>1
  <2>5. CASE Result(k, refused) # 0
    <3>1. refused /\ Result(k, refused) = 1 BY <2>3, <2>5 DEF Result
    <3>2. index' = updated /\ UNCHANGED <<log, raw>> BY <2>5 DEF mutate
    <3>3. \A j \in AllKeys :
            index_lookup(index', hash(j)) = index_lookup(index, hash(j))
      BY <1>2, <1>3, <3>2
    <3>. HIDE DEF ref, updated
    <3>4. Mapping' /\ View' = View
      BY <1>1, <2>4, <3>2, <3>3, ReadMap
    <3>5. past' = {kv} \/ (kv[k] = None /\ past' = past)
      BY <1>1, <2>2, <2>3, <3>4
    <3>6. \A ok : (ok <=> ~refused)
            => Promised!Call(ok, k, v, Returned(k, v, refused))
      <4>. SUFFICES ASSUME NEW ok, ok <=> ~refused
                    PROVE  Promised!Call(ok, k, v, Returned(k, v, refused))
        OBVIOUS
      <4>1. Promised!Refused(k) BY <1>1, <2>2, <3>4, <3>5 DEF Promised!Refused
      <4>2. out' = [rv  |-> IF ok THEN 0 ELSE 1,
                    val |-> Returned(k, v, refused)]
        <5>1. Returned(k, v, refused) = None
          <6>1. ~(v = None /\ ~refused) BY <3>1
          <6>. QED BY <6>1 DEF Returned
        <5>2. out' = [rv |-> 1, val |-> None]
          <6>. DEFINE res == Result(k, refused)
                      val == IF v = None /\ res = 0 THEN Found(k) ELSE None
          <6>1. out' = [rv |-> res, val |-> val] BY <1>1
          <6>2. res = 1 BY <3>1
          <6>. HIDE DEF res
          <6>3. val = None BY <6>2
          <6>. HIDE DEF val
          <6>. QED BY <6>1, <6>2, <6>3
        <5>3. (IF ok THEN 0 ELSE 1) = 1 BY <3>1, Zenon
        <5>. QED BY <5>1, <5>2, <5>3
      <4>. QED BY <1>1, <1>5, <2>7, <3>1, <4>1, <4>2 DEF Promised!Call
    <3>. QED BY <3>4, <3>6
  <2>6. CASE Result(k, refused) = 0
    <3>1. ~refused BY <2>3, <2>6 DEF Result
    <3>. HIDE DEF ref, updated
    <3>2. OpenMap' /\ View' = [View EXCEPT ![k] = v]
      BY <1>5, <2>6, WrittenMap
    <3>3. Mapping' BY <1>1, <3>2 DEF Mapping
    <3>4. kv' = [kv EXCEPT ![k] = v] BY <1>1, <2>2, <3>2
    <3>5. past' = {kv, kv'} \/ (kv[k] = None /\ past' = past \cup {kv'})
      BY <1>1, <2>3
    <3>6. \A ok : (ok <=> ~refused)
            => Promised!Call(ok, k, v, Returned(k, v, refused))
      <4>. SUFFICES ASSUME NEW ok, ok <=> ~refused
                    PROVE  Promised!Call(ok, k, v, Returned(k, v, refused))
        OBVIOUS
      <4>1. Promised!Written(k, v) BY <3>4, <3>5 DEF Promised!Written
      <4>2. out' = [rv  |-> IF ok THEN 0 ELSE 1,
                    val |-> Returned(k, v, refused)]
        BY <1>1, <2>3, <2>6, <3>1 DEF Returned
      <4>. QED BY <1>1, <1>5, <2>7, <3>1, <4>1, <4>2 DEF Promised!Call
    <3>. QED BY <3>3, <3>6
  <2>. QED BY <2>5, <2>6
<1>. QED BY <1>4, <1>5

LEMMA LookupMap ==
  ASSUME Base, Base', Layout, Mapping, NEW k \in Keys, Lookup(k),
         restore_blk' = restore_blk
  PROVE  /\ Mapping'
         /\ zeroed \/ left = {} => Promised!Lookup(k)
<1>. DEFINE ref == index_lookup(index, hash(k))
<1>1. /\ st = "open" /\ UNCHANGED <<st, log, raw, index, zeroed, left, kv>>
      /\ out' = [rv |-> Result(k, Found(k) = None), val |-> Found(k)]
      /\ past' = (IF ref = 0 THEN past ELSE {kv}) /\ synced' = Synced(ref)
  BY DEF Lookup, kvdb
<1>2. CASE ~(zeroed \/ left = {}) BY <1>1, <1>2 DEF Mapping
<1>3. CASE zeroed \/ left = {}
  <2>1. OpenMap BY <1>1, <1>3 DEF Mapping
  <2>2. kv \in past BY <2>1 DEF OpenMap
  <2>3. kv[k] = Found(k) /\ Chained(k) # -1 /\ (ref = 0 => kv[k] = None)
    BY <2>1, FoundIsKV
  <2>4. (ref = 0 => past \subseteq past') /\ kv' \in past'
        /\ (ref # 0 => kv \in past')
    BY <1>1, <2>2
  <2>5. \A j \in AllKeys :
          index_lookup(index', hash(j)) = index_lookup(index, hash(j))
    BY <1>1
  <2>. HIDE DEF ref
  <2>6. Mapping' BY <1>1, <2>4, <2>5, ReadMap
  <2>7. Promised!Refused(k) BY <1>1, <2>3 DEF Promised!Refused
  <2>8. out' = [rv |-> IF kv[k] = None THEN 1 ELSE 0, val |-> kv[k]]
    BY <1>1, <2>3 DEF Result
  <2>10. Regular' = Regular BY <1>1, RegularSame
  <2>9. Promised!Lookup(k)
    BY <1>1, <1>3, <2>7, <2>8, <2>10 DEF Promised!Lookup
  <2>. QED BY <2>6, <2>9
<1>. QED BY <1>2, <1>3

(* What a log that was left is read as is what the map then is. *)
LEMMA StopReads ==
  ASSUME Base', Layout', Mapping', st' = "closed", zeroed', NEW m, NEW g,
         \A k \in Keys \ g : Agrees(m, left', k)
  PROVE  Promised!Garbled(m, g)
<1>1. \A k \in Keys : IsRead(left', k, kv'[k]) BY DEF Mapping, ClosedMap
<1>2. RecordSet(left') BY DEF Layout, Base, Records, RecordSet, End, RecordLen
<1>3. ASSUME NEW k \in Keys \ g
      PROVE  kv'[k] = m[k] \/ (k \in SharedHash /\ kv'[k] = None)
  <2>1. Agrees(m, left', k) /\ IsRead(left', k, kv'[k]) BY <1>1
  <2>. QED BY <1>2, <2>1, ReadIsOne DEF Agrees
<1>. QED BY <1>3 DEF Promised!Garbled

LEMMA CloseMaps ==
  ASSUME Base, Base', Layout, Layout', Chaining, Mapping, Mapping', Close
  PROVE  [Promised!Next]_(Promised!vars)
<1>1. /\ st = "open" /\ st' = "closed" /\ left' = Kept(raw)
      /\ past' = {kv'} /\ out' = NoCall /\ zeroed' = zeroed
      /\ RecordSet(log) /\ \A r \in log : End(r) <= raw
      /\ raw \in Nat /\ raw > 0
  BY LimitsAre DEF Close, Stop, Base, Records, Scalars
<1>2. Kept(raw) = log BY <1>1, KeptAll
<1>3. log # {} BY <1>1 DEF Layout, Laid
<1>4. CASE zeroed
  <2>1. OpenMap BY <1>1, <1>4 DEF Mapping
  <2>2. \A k \in Keys \ {} : Agrees(kv, left', k)
    BY <1>1, <1>2, <2>1, ViewIsRead DEF OpenMap
  <2>3. Promised!Garbled(kv, {}) BY <1>1, <1>4, <2>2, StopReads
  <2>. HIDE DEF Kept
  <2>4. Promised!Close
    BY <1>1, <1>4, <2>3, RegularAfter DEF Promised!Close, Promised!NoCall, NoCall
  <2>. QED BY <2>4 DEF Promised!Next
<1>5. CASE ~zeroed
  <2>1. ~zeroed' /\ left' # {} BY <1>1, <1>2, <1>3, <1>5
  <2>2. CASE left = {}
    <3>1. Promised!CloseOverOlder
      BY <1>1, <1>5, <2>1, <2>2 DEF Promised!CloseOverOlder
    <3>. QED BY <3>1 DEF Promised!Next
  <2>3. CASE left # {}
    <3>1. Promised!Unknown BY <1>1, <1>5, <2>1, <2>3 DEF Promised!Unknown
    <3>. QED BY <3>1 DEF Promised!Next
  <2>. QED BY <2>2, <2>3
<1>. QED BY <1>4, <1>5

LEMMA CrashMaps ==
  ASSUME Base, Base', Layout, Layout', Chaining, Mapping, Mapping', Crash
  PROVE  [Promised!Next]_(Promised!vars)
<1>1. /\ st = "open" /\ zeroed /\ RecordSet(log) /\ raw \in Nat /\ synced \in Nat
  BY LimitsAre DEF Crash, Base, Records, Scalars
<1>2. PICK n \in synced .. raw : Stop(n) BY DEF Crash
<1>3. /\ st' = "closed" /\ left' = Kept(n) /\ past' = {kv'} /\ out' = NoCall
      /\ zeroed' = zeroed
  BY <1>2 DEF Stop
<1>4. n \in Nat /\ synced <= n /\ n <= raw BY <1>1
<1>5. OpenMap BY <1>1 DEF Mapping
<1>6. /\ Apart(log) /\ AllLeadBack(log, left) /\ Laid(log, raw)
  BY <1>1 DEF Chaining, Layout
<1>. HIDE DEF Kept
<1>7. PICK m \in past, g \in {{}} \cup {{k} : k \in Keys} :
        \A k \in Keys \ g : Agrees(m, Kept(n), k)
  BY <1>1, <1>4, <1>5, <1>6, CrashRead DEF OpenMap
<1>8. Promised!Garbled(m, g) BY <1>1, <1>3, <1>7, StopReads
<1>9. Promised!Crash
  BY <1>1, <1>3, <1>7, <1>8, RegularAfter DEF Promised!Crash, Promised!NoCall, NoCall
<1>. QED BY <1>9 DEF Promised!Next

LEMMA OpenMaps ==
  ASSUME Open, kv' = [k \in Keys |-> None], zeroed' \in BOOLEAN
  PROVE  Promised!Next
<1>1. /\ st = "closed" /\ st' = "open" /\ left' = {} /\ past' = {kv'}
      /\ out' = NoCall
  BY DEF Open
<1>2. Promised!Open
  BY <1>1, RegularAfter
  DEF Promised!Open, Promised!Empty, Promised!NoCall, NoCall
<1>. QED BY <1>2 DEF Promised!Next

(* A restore goes astray only on what is not regular: its buffer holds the *)
(* end of the log (Rebuilding), which is less than a block of it.          *)
LEMMA AstrayMaps ==
  ASSUME Geometry, Base, Layout, Rebuilding, RestoreAstray
  PROVE  Mapping' /\ [Promised!Next]_(Promised!vars)
<1>1. /\ st = "restoring" /\ next # 0 /\ ToRead = {} /\ raw = next
      /\ ~Restored /\ st' = "astray" /\ UNCHANGED <<zeroed, left>>
      /\ raw \in Nat /\ RecordSet(log)
  BY LimitsAre DEF RestoreAstray, history, Base, Scalars, Records
<1>2. Mapping' BY <1>1 DEF Mapping
<1>3. CASE ~(zeroed \/ left = {})
  <2>1. Promised!Unknown BY <1>1, <1>3 DEF Promised!Unknown
  <2>. QED BY <1>2, <2>1 DEF Promised!Next
<1>4. CASE zeroed \/ left = {}
  <2>1. zeroed
    <3>1. ASSUME ~zeroed PROVE left # {}
      BY <1>1, <3>1 DEF Layout, OlderBehind
    <3>. QED BY <1>4, <3>1
  <2>2. log = left
    <3>1. left \subseteq log BY <1>1, AllRead
    <3>. QED BY <1>1, <2>1, <3>1 DEF Layout
  <2>3. ASSUME Regular PROVE FALSE
    <3>1. Holds(wb, tail_offset, raw, restore_blk)
      BY <1>1, <2>2, <2>3 DEF Regular, Rebuilding
    <3>2. InPlace BY <3>1 DEF Holds, InPlace
    <3>3. Buffered(wb) \in Nat /\ tail_offset \in Nat /\ Blk \in Nat
      BY <3>1, BufferedIs, SizePositive DEF Holds
    <3>4. CASE restore_blk = Blk
      <4>1. Buffered(wb) < Blk BY <3>1, <3>4 DEF Holds
      <4>. QED BY <1>1, <3>2, <4>1 DEF Restored
    <3>5. CASE restore_blk # Blk
      <4>1. PICK r \in log : End(r) = raw
        BY <1>1 DEF Layout, Laid
      <4>2. raw < Blk BY <2>2, <2>3, <3>5, <4>1 DEF Regular
      <4>3. tail_offset + Buffered(wb) = raw BY <3>1 DEF Holds
      <4>4. Buffered(wb) < Blk BY <1>1, <3>3, <4>2, <4>3
      <4>. QED BY <1>1, <3>2, <4>4 DEF Restored
    <3>. QED BY <3>4, <3>5
  <2>4. Promised!Astray BY <1>1, <1>4, <2>3 DEF Promised!Astray
  <2>. QED BY <1>2, <2>4 DEF Promised!Next
<1>. QED BY <1>3, <1>4

LEMMA StepMaps ==
  ASSUME DummyFits, Geometry, Base, Base', Layout, Layout', Chaining, Mapping,
         Rebuilding, zeroed \in BOOLEAN, zeroed' \in BOOLEAN, [Next]_vars
  PROVE  Mapping' /\ [Promised!Next]_(Promised!vars)
<1>17. restore_blk' = restore_blk BY DEF Next, vars
<1>1. CASE Open
  <2>1. Mapping' /\ kv' = [k \in Keys |-> None] BY <1>1, OpenMapStep
  <2>. QED BY <1>1, <2>1, OpenMaps
<1>2. CASE Close
  <2>1. st = "open" /\ Stop(raw) /\ raw \in Nat /\ synced <= raw
    BY <1>2, LimitsAre DEF Close, Base, Scalars, Layout
  <2>2. Mapping' BY <2>1, StopMap DEF Base, Scalars
  <2>. QED BY <1>2, <2>2, CloseMaps
<1>3. CASE Crash
  <2>1. raw \in Nat /\ synced \in Nat BY LimitsAre DEF Base, Scalars
  <2>2. PICK n \in synced .. raw : Stop(n) BY <1>3 DEF Crash
  <2>3. n \in Nat /\ synced <= n /\ n <= raw BY <2>1
  <2>4. Mapping' BY <1>3, <2>2, <2>3, StopMap DEF Crash
  <2>. QED BY <1>3, <2>4, CrashMaps
<1>4. ASSUME UNCHANGED <<kv, past, zeroed, left, out>>,
             st \in {"closed", "restoring", "exited"},
             st' \in {"restoring", "exited", "aborted"}
      PROVE  UNCHANGED Promised!vars
  <2>1. Regular' = Regular BY <1>4, <1>17, RegularSame
  <2>. QED BY <1>4, <2>1 DEF Promised!vars
<1>5. CASE RestoreOpen
  <2>1. /\ st = "closed" /\ st' = "restoring"
        /\ UNCHANGED <<log, index, zeroed, left, kv, past, out>>
    BY <1>5 DEF RestoreOpen, kvdb, history
  <2>2. Mapping'
    <3>1. SUFFICES ASSUME zeroed \/ left = {} PROVE ClosedMap'
      BY <2>1 DEF Mapping
    <3>2. ClosedMap BY <2>1, <3>1 DEF Mapping
    <3>. QED
      BY <2>1, <3>2
      DEF ClosedMap, EntriesAre, EntryIs, EntriesRestored, GoesOn, End,
          RecordLen
  <2>. QED BY <1>4, <2>1, <2>2
<1>6. CASE VisitorInit
  <2>1. /\ st = "restoring" /\ st' \in {"restoring", "exited"}
        /\ UNCHANGED <<kv, past, zeroed, left, out>>
    BY <1>6 DEF VisitorInit, history
  <2>2. Mapping' BY <1>6, VisitorInitMap
  <2>. QED BY <1>4, <2>1, <2>2
<1>7. CASE VisitorNext
  <2>1. /\ st = "restoring" /\ st' \in {"restoring", "aborted"}
        /\ UNCHANGED <<kv, past, zeroed, left, out>>
    BY <1>7 DEF VisitorNext, history
  <2>2. Mapping' BY <1>7, VisitorNextMap
  <2>. QED BY <1>4, <2>1, <2>2
<1>8. CASE RestoreDone
  <2>1. /\ st = "restoring" /\ st' = "open" /\ UNCHANGED <<zeroed, left, out>>
    BY <1>8 DEF RestoreDone
  <2>2. Mapping' /\ (zeroed \/ left = {} => kv' = kv /\ past' = past)
    BY <1>8, RestoreDoneMap
  <2>3. CASE zeroed \/ left = {}
    <3>2. Regular' = Regular BY <1>17, <2>1, RegularSame
    <3>1. Promised!Restore BY <2>1, <2>2, <2>3, <3>2 DEF Promised!Restore
    <3>. QED BY <2>2, <3>1 DEF Promised!Next
  <2>4. CASE ~(zeroed \/ left = {})
    <3>1. Promised!Unknown BY <2>1, <2>4 DEF Promised!Unknown
    <3>. QED BY <2>2, <3>1 DEF Promised!Next
  <2>. QED BY <2>3, <2>4
<1>18. CASE RestoreAstray BY <1>18, AstrayMaps
<1>9. ASSUME NEW k \in Keys, Lookup(k)
      PROVE  Mapping' /\ [Promised!Next]_(Promised!vars)
  <2>1. Mapping' /\ (zeroed \/ left = {} => Promised!Lookup(k))
    BY <1>9, <1>17, LookupMap
  <2>2. UNCHANGED <<st, zeroed, left>> BY <1>9 DEF Lookup
  <2>3. CASE zeroed \/ left = {} BY <2>1, <2>3 DEF Promised!Next
  <2>4. CASE ~(zeroed \/ left = {})
    <3>1. Promised!Unknown BY <2>2, <2>4 DEF Promised!Unknown
    <3>. QED BY <2>1, <3>1 DEF Promised!Next
  <2>. QED BY <2>3, <2>4
<1>10. ASSUME NEW k \in Keys, NEW v \in Vals \cup {None}, NEW refused,
              NEW grows, NEW shrinks, NEW wastes,
              mutate(k, v, refused, grows, shrinks, wastes),
              NEW ok, NEW val,
              zeroed \/ left = {} =>
                (ok <=> ~refused) /\ val = Returned(k, v, refused),
              Promised!Call(ok, k, v, val) => Promised!Next
       PROVE  Mapping' /\ [Promised!Next]_(Promised!vars)
  <2>1. /\ Mapping'
        /\ zeroed \/ left = {} =>
             \A is : (is <=> ~refused)
               => Promised!Call(is, k, v, Returned(k, v, refused))
    BY <1>10, <1>17, MutateMap
  <2>2. UNCHANGED <<st, zeroed, left>> BY <1>10 DEF mutate
  <2>3. CASE zeroed \/ left = {}
    <3>1. Promised!Call(ok, k, v, val) BY <1>10, <2>1, <2>3
    <3>. QED BY <1>10, <2>1, <3>1
  <2>4. CASE ~(zeroed \/ left = {})
    <3>1. Promised!Unknown
      <4>1. st = "open" BY <1>10 DEF mutate
      <4>. QED BY <2>2, <2>4, <4>1 DEF Promised!Unknown
    <3>. QED BY <2>1, <3>1 DEF Promised!Next
  <2>. QED BY <2>3, <2>4
<1>11. ASSUME NEW k \in Keys, st = "open", zeroed \/ left = {}
       PROVE  Exists(k) <=> kv[k] # None
  <2>1. OpenMap BY <1>11 DEF Mapping
  <2>. QED BY <2>1, FoundIsKV DEF Exists
<1>19. \A k \in Keys, v \in Vals : \A refused : Returned(k, v, refused) = None
  BY KVStoreAssumption DEF Returned
<1>12. ASSUME NEW k \in Keys, Remove(k)
       PROVE  Mapping' /\ [Promised!Next]_(Promised!vars)
  <2>. DEFINE ok == kv[k] # None
              no == ~Exists(k)
  <2>1. mutate(k, None, no, 0, 1, 1) BY <1>12 DEF Remove
  <2>2. zeroed \/ left = {} =>
          (ok <=> ~no) /\ kv[k] = Returned(k, None, no)
    BY <1>11, <2>1 DEF mutate, Returned
  <2>3. Promised!Call(ok, k, None, kv[k]) => Promised!Next
    BY DEF Promised!Remove, Promised!Next
  <2>4. None \in Vals \cup {None} OBVIOUS
  <2>. HIDE DEF ok, no
  <2>. QED BY <1>10, <2>4, <2>1, <2>2, <2>3
<1>13. ASSUME NEW k \in Keys, NEW v \in Vals, Insert(k, v)
       PROVE  Mapping' /\ [Promised!Next]_(Promised!vars)
  <2>. DEFINE ok == kv[k] = None
  <2>1. mutate(k, v, Exists(k), 1, 0, 0) BY <1>13 DEF Insert
  <2>2. zeroed \/ left = {} =>
          (ok <=> ~Exists(k)) /\ None = Returned(k, v, Exists(k))
    BY <1>11, <1>19, <2>1 DEF mutate
  <2>3. Promised!Call(ok, k, v, None) => Promised!Next
    BY DEF Promised!Insert, Promised!Next
  <2>. HIDE DEF ok
  <2>. QED BY <1>10, <2>1, <2>2, <2>3
<1>14. ASSUME NEW k \in Keys, NEW v \in Vals, Update(k, v)
       PROVE  Mapping' /\ [Promised!Next]_(Promised!vars)
  <2>1. \E grows, wastes : mutate(k, v, FALSE, grows, 0, wastes)
    BY <1>14 DEF Update
  <2>2. Promised!Call(TRUE, k, v, None) => Promised!Next
    BY DEF Promised!Update, Promised!Next
  <2>. QED BY <1>10, <1>19, <2>1, <2>2
<1>15. ASSUME NEW k \in Keys, NEW v \in Vals, Replace(k, v)
       PROVE  Mapping' /\ [Promised!Next]_(Promised!vars)
  <2>. DEFINE ok == kv[k] # None
              no == ~Exists(k)
  <2>1. mutate(k, v, no, 0, 0, 1) BY <1>15 DEF Replace
  <2>2. zeroed \/ left = {} =>
          (ok <=> ~no) /\ None = Returned(k, v, no)
    BY <1>11, <1>19, <2>1 DEF mutate
  <2>3. Promised!Call(ok, k, v, None) => Promised!Next
    BY DEF Promised!Replace, Promised!Next
  <2>. HIDE DEF ok, no
  <2>. QED BY <1>10, <2>1, <2>2, <2>3
<1>16. CASE UNCHANGED vars
  <2>1. UNCHANGED <<st, log, synced, raw, index, zeroed, left, kv, past, out>>
    BY <1>16 DEF vars, kvdb, history
  <2>8. Regular' = Regular BY <1>17, <2>1, RegularSame
  <2>2. UNCHANGED Promised!vars BY <2>1, <2>8 DEF Promised!vars
  <2>3. View' = View BY <2>1, ViewSame
  <2>4. (\A e : Boundary(e)' <=> Boundary(e))
        /\ \A m, e : Remembers(m, e)' <=> Remembers(m, e)
    <3>1. \A e : Prefix(e)' = Prefix(e) BY <2>1 DEF Prefix, End, RecordLen
    <3>2. \A m, e : Remembers(m, e)' <=> Remembers(m, e)
      BY <2>1, <3>1 DEF Remembers
    <3>3. \A e : Boundary(e)' <=> Boundary(e)
      BY <2>1 DEF Boundary, End, RecordLen
    <3>. QED BY <3>2, <3>3
  <2>5. Boundary(synced)' <=> Boundary(synced)
    BY <2>1 DEF Boundary, End, RecordLen
  <2>6. OpenMap => OpenMap'
    BY <2>1, <2>3, <2>4, <2>5
    DEF OpenMap, EntriesAre, EntryIs, Whole, GoesOn
  <2>7. ClosedMap => ClosedMap'
    BY <2>1
    DEF ClosedMap, EntriesAre, EntryIs, EntriesRestored, GoesOn, End, RecordLen
  <2>. QED BY <2>1, <2>2, <2>6, <2>7 DEF Mapping
<1>. QED
  BY <1>1, <1>2, <1>3, <1>5, <1>6, <1>7, <1>8, <1>9, <1>12, <1>13, <1>14,
     <1>15, <1>16, <1>18
  DEF Next, Ended

LEMMA InitMaps ==
  ASSUME Init PROVE Mapping /\ Promised!Init
<1>1. /\ st = "closed" /\ log = {} /\ index = index_open /\ zeroed = TRUE
      /\ out = NoCall /\ kv = [k \in Keys |-> None] /\ past = {kv} /\ left = {}
  BY DEF Init
<1>2. \A k \in AllKeys : index_lookup(index, hash(k)) = 0
  BY <1>1, NewIndex, HashIsKey
<1>3. EntriesAre /\ EntriesRestored
  BY <1>1, <1>2 DEF EntriesAre, EntryIs, EntriesRestored, On
<1>4. kv \in Maps BY <1>1 DEF Maps, AllVals
<1>5. \A k \in Keys : IsRead(left, k, kv[k]) BY <1>1 DEF IsRead, On
<1>6. ClosedMap BY <1>1, <1>3, <1>4, <1>5 DEF ClosedMap, Whole
<1>8. Regular = TRUE
  <2>1. Regular BY <1>1 DEF Regular, Rebuildable
  <2>. QED BY <2>1, Zenon DEF Regular
<1>7. Promised!Init
  BY <1>1, <1>8 DEF Promised!Init, Promised!Empty, Promised!NoCall, NoCall
<1>. QED BY <1>1, <1>6, <1>7 DEF Mapping

LEMMA MappingHolds ==
  ASSUME DummyFits
  PROVE  Spec => [](/\ Geometry /\ Base /\ Layout /\ Chaining /\ Rebuilding
                    /\ Mapping /\ zeroed \in BOOLEAN)
<1>1. TypeOK => zeroed \in BOOLEAN BY DEF TypeOK
<1>2. Spec => [](zeroed \in BOOLEAN) BY <1>1, TypeCorrect, PTL
<1>. DEFINE Inv == /\ Geometry /\ Base /\ Layout /\ Chaining /\ Rebuilding
                   /\ zeroed \in BOOLEAN
<1>3. Spec => []Inv
  BY <1>2, GeometryHolds, ChainingHolds, RebuildingHolds, PTL
<1>4. Inv /\ Inv' /\ Mapping /\ [Next]_vars => Mapping' BY StepMaps
<1>5. Init => Mapping BY InitMaps
<1>. HIDE DEF Inv
<1>6. Spec => [](Inv /\ Mapping) BY <1>3, <1>4, <1>5, PTL DEF Spec
<1>. QED BY <1>6, PTL DEF Inv

(* The key/value store implements the map that AbstractKV promises: every  *)
(* call returns and does what the map does, a close and a restore keep it  *)
(* but for the keys that share the hash of a removed one, and a crash      *)
(* takes it back to a map it has been since the last flush, except for the *)
(* one key whose record was cut.  A restore keeps it, on a log file system *)
(* that is intact, unless what was left is not Regular: it has a record    *)
(* that is longer than a block, or is a block or longer on a device whose  *)
(* blocks are not of 4096 bytes.                                           *)
THEOREM StoreRefines ==
  ASSUME DummyFits PROVE Spec => ImplementsMap
<1>. DEFINE Inv == /\ Geometry /\ Base /\ Layout /\ Chaining /\ Rebuilding
                   /\ Mapping /\ zeroed \in BOOLEAN
<1>1. Spec => []Inv BY MappingHolds
<1>2. Inv /\ Inv' /\ [Next]_vars => [Promised!Next]_(Promised!vars)
  BY StepMaps
<1>3. Init => Promised!Init BY InitMaps
<1>. HIDE DEF Inv
<1>. QED BY <1>1, <1>2, <1>3, PTL DEF Spec, ImplementsMap, Promised!Spec

-----------------------------------------------------------------------------
(* The counters. *)

(* No counter wraps: the log is shorter than a size_t can count. *)
CountsFit == MaxLog < Word

(* The records that hold a value, those before n, and whether each record  *)
(* with a key has its own hash.                                            *)
Values(S) == {r \in S : r.at > 0 /\ r.val_len > 0}

Before(S, n) == {r \in S : r.at < n}

Plain(S) ==
  /\ \A r, s \in S :
       r.at > 0 /\ s.at > 0 /\ hash(r.key) = hash(s.key) => r.key = s.key
  /\ \A r \in S : r.at > 0 => r.key # Zero

(* The keys whose newest record is not a removal. *)
Live(S) ==
  {k \in Keys : \E l \in S : IsLast(S, k, l) /\ l.key = k /\ l.val_len > 0}

(* A removal is of a key that was there. *)
Removals(S) ==
  \A r \in S :
    r.at > 0 /\ r.val_len = 0 /\ Plain(Before(S, r.at) \cup {r})
      => r.key \in Live(Before(S, r.at))

HaveValues(S) == \A r \in S : r.val_len # 0 => r.val # None

FoundKeys == {k \in Keys : View[k] # None}

Counted(K) ==
  /\ IsFiniteSet(K) /\ size = Cardinality(K)
  /\ waste = Cardinality(Values(log)) - size

(* Each record takes a byte at least, and each counter is right when it is *)
(* read from what the restore has read and, from then on, from the index.  *)
Counting ==
  /\ IsFiniteSet(log) /\ Cardinality(log) <= raw
  /\ HaveValues(log) /\ HaveValues(disk)
  /\ st \in {"closed", "restoring"} /\ raw = 0 => size = 0 /\ waste = 0
  /\ zeroed =>
       /\ st \in {"closed", "restoring"} => Removals(left)
       /\ st = "restoring" /\ raw > 0 /\ Plain(log) => Counted(Live(log))
  /\ st = "open" =>
       /\ zeroed \/ left = {} => Removals(log)
       /\ left = {} \/ (zeroed /\ Plain(log)) => Counted(FoundKeys)

LEMMA PlainLess ==
  ASSUME NEW S, Plain(S), NEW T, T \subseteq S PROVE Plain(T)
BY DEF Plain

(* A chain without a record of k holds nothing for k. *)
LEMMA NothingMatches ==
  ASSUME NEW S, RecordSet(S), NEW k, \A r \in S : r.at > 0 => ~Matches(r, k),
         NEW off \in 0 .. MaxLog
  PROVE  ValueFrom(S, k, off) = None
<1>. DEFINE Bad == {o \in 0 .. MaxLog : ValueFrom(S, k, o) # None}
<1>1. ASSUME Bad # {} PROVE FALSE
  <2>1. Bad \subseteq Nat OBVIOUS
  <2>2. PICK o \in Bad : \A l \in Bad : o <= l BY <1>1, <2>1, Smallest
  <2>3. o \in 0 .. MaxLog /\ o \in Nat /\ ValueFrom(S, k, o) # None BY <2>2
  <2>4. o # 0 /\ o > 0 /\ \E r \in S : r.at = o BY <2>3, ValueSteps
  <2>5. PICK r \in S : r.at = o BY <2>4
  <2>6. ValueFrom(S, k, r.off) # None BY <2>3, <2>4, <2>5, ValueSteps
  <2>7. r.off \in Nat /\ r.off < o /\ r.off \in 0 .. MaxLog
    BY <2>4, <2>5 DEF RecordSet, Record_
  <2>8. r.off \in Bad BY <2>6, <2>7
  <2>. QED BY <2>2, <2>3, <2>7, <2>8
<1>. QED BY <1>1

(* Where each hash is of one key, lookups find the keys whose newest       *)
(* record is not a removal.                                                *)
LEMMA FoundIsLive ==
  ASSUME Base, Whole(log), HaveValues(log), EntriesAre, Plain(log)
  PROVE  FoundKeys = Live(log)
<1>1. RecordSet(log) BY DEF Base, Records
<1>2. ASSUME NEW k \in Keys PROVE View[k] # None <=> k \in Live(log)
  <2>. DEFINE e == index_lookup(index, hash(k))
  <2>1. k \in AllKeys /\ k # Zero BY KVStoreAssumption DEF AllKeys
  <2>2. View[k] = ValueFrom(log, k, e) BY <2>1, FoundIs DEF View
  <2>3. EntryIs(k, e) BY <2>1 DEF EntriesAre
  <2>4. e \in 0 .. MaxLog BY <2>1, ChainedIs
  <2>. HIDE DEF e
  <2>5. CASE \E l : IsLast(log, k, l) /\ l.key = k
    <3>1. PICK l : IsLast(log, k, l) /\ l.key = k BY <2>5
    <3>2. /\ l \in log /\ l.at > 0 /\ l \in On(log, k) /\ l \in Record_
          /\ l.at \in 0 .. MaxLog /\ l.val_len \in Nat
      BY <1>1, <3>1 DEF IsLast, On, RecordSet, Record_
    <3>3. l.key_len = KeyLen[l.key] BY <2>1, <3>1, <3>2 DEF Whole
    <3>4. Matches(l, k) BY <2>1, <3>1, <3>3, MatchesIs
    <3>5. ValueFrom(log, k, l.at) = l.val BY <1>1, <3>2, <3>4, ValueSteps
    <3>6. e = l.at \/ (e = 0 /\ l.val_len = 0)
      BY <2>3, <3>1, <3>2 DEF EntryIs
    <3>7. CASE l.val_len = 0
      <4>1. l.val = None BY <3>2, <3>7 DEF Whole
      <4>2. 0 \in 0 .. MaxLog BY LimitsAre
      <4>3. ValueFrom(log, k, 0) = None BY <1>1, <4>2, ValueSteps
      <4>4. View[k] = None BY <2>2, <3>5, <3>6, <4>1, <4>3
      <4>5. \A m : IsLast(log, k, m) => m = l BY <1>1, <3>1, LastIsOne
      <4>6. k \notin Live(log) BY <3>7, <4>5 DEF Live
      <4>. QED BY <4>4, <4>6
    <3>8. CASE l.val_len # 0
      <4>1. l.val # None BY <3>2, <3>8 DEF HaveValues
      <4>2. View[k] = l.val BY <2>2, <3>5, <3>6, <3>8
      <4>3. k \in Live(log) BY <3>1, <3>2, <3>8 DEF Live
      <4>. QED BY <4>1, <4>2, <4>3
    <3>. QED BY <3>7, <3>8
  <2>6. CASE ~\E l : IsLast(log, k, l) /\ l.key = k
    <3>1. k \notin Live(log) BY <2>6 DEF Live
    <3>2. ASSUME NEW r \in log, r.at > 0, Matches(r, k) PROVE FALSE
      <4>1. r.key # Zero /\ r.key \in AllKeys
        BY <1>1, <3>2 DEF Plain, RecordSet, Record_
      <4>2. r.key_len = KeyLen[r.key] BY <4>1 DEF Whole
      <4>3. r.key = k BY <2>1, <3>2, <4>1, <4>2, MatchesIs
      <4>4. r \in On(log, k) BY <3>2, <4>3 DEF On
      <4>5. PICK l \in On(log, k) : IsLast(log, k, l)
        BY <1>1, <4>4, LastExists
      <4>6. l \in log /\ l.at > 0 /\ hash(l.key) = hash(r.key)
        BY <4>3 DEF On
      <4>7. l.key = k BY <3>2, <4>3, <4>6 DEF Plain
      <4>. QED BY <2>6, <4>5, <4>7
    <3>3. ValueFrom(log, k, e) = None BY <1>1, <2>4, <3>2, NothingMatches
    <3>. QED BY <2>2, <3>1, <3>3
  <2>. QED BY <2>5, <2>6
<1>. QED BY <1>2 DEF FoundKeys, Live

LEMMA LiveAdd ==
  ASSUME NEW S, NEW r, r.at \in Nat, r.at > 0, r.val_len \in Nat,
         \A s \in S : s.at \in Nat /\ s.at < r.at, Plain(S \cup {r})
  PROVE  IF r.val_len = 0 THEN Live(S \cup {r}) = Live(S) \ {r.key}
         ELSE r.key \in Keys => Live(S \cup {r}) = Live(S) \cup {r.key}
<1>. DEFINE T == S \cup {r}
<1>1. ASSUME NEW k \in Keys
      PROVE  /\ k = r.key => (k \in Live(T) <=> r.val_len > 0)
             /\ k # r.key => (k \in Live(T) <=> k \in Live(S))
  <2>1. CASE hash(k) = hash(r.key)
    <3>1. r \in On(T, k) BY <2>1 DEF On
    <3>2. \A l : IsLast(T, k, l) => l = r
      <4>. SUFFICES ASSUME NEW l, IsLast(T, k, l) PROVE l = r OBVIOUS
      <4>1. l \in T /\ r.at <= l.at BY <3>1 DEF IsLast, On
      <4>. QED BY <4>1
    <3>3. IsLast(T, k, r)
      <4>1. \A s \in On(T, k) : s.at <= r.at BY DEF On
      <4>. QED BY <3>1, <4>1 DEF IsLast
    <3>4. k \in Live(T) <=> r.key = k /\ r.val_len > 0
      BY <3>2, <3>3 DEF Live
    <3>5. k # r.key => k \notin Live(S)
      <4>. SUFFICES ASSUME k \in Live(S) PROVE k = r.key OBVIOUS
      <4>1. PICK l \in S : IsLast(S, k, l) /\ l.key = k BY DEF Live
      <4>2. l.at > 0 BY <4>1 DEF IsLast, On
      <4>. QED BY <2>1, <4>1, <4>2 DEF Plain
    <3>. QED BY <3>4, <3>5
  <2>2. CASE hash(k) # hash(r.key)
    <3>1. On(T, k) = On(S, k) BY <2>2 DEF On
    <3>2. \A l : IsLast(T, k, l) <=> IsLast(S, k, l) BY <3>1 DEF IsLast
    <3>3. \A l : IsLast(T, k, l) => l \in S BY <3>1 DEF IsLast, On
    <3>. QED BY <2>2, <3>2, <3>3 DEF Live
  <2>. QED BY <2>1, <2>2
<1>2. \A U : Live(U) \subseteq Keys BY DEF Live
<1>. HIDE DEF T
<1>3. IF r.val_len = 0 THEN Live(T) = Live(S) \ {r.key}
      ELSE r.key \in Keys => Live(T) = Live(S) \cup {r.key}
  BY <1>1, <1>2
<1>. QED BY <1>3 DEF T

LEMMA ValuesAdd ==
  ASSUME NEW S, NEW r
  PROVE  Values(S \cup {r}) =
           IF r.at > 0 /\ r.val_len > 0 THEN Values(S) \cup {r} ELSE Values(S)
BY DEF Values

LEMMA KeptPrefix ==
  ASSUME RecordSet(log), Apart(log), NEW n \in Nat, NEW r \in log, r.at < n
  PROVE  Before(Kept(n), r.at) = Before(log, r.at)
<1>1. ASSUME NEW u \in Kept(n), u.at < r.at PROVE u \in log
  <2>1. CASE u \in log BY <2>1
  <2>2. CASE u \notin log
    <3>1. PICK s \in log : s.at < n /\ n < End(s) /\ u.at = s.at
      BY <2>2, KeptFrom
    <3>2. End(s) <= r.at BY <1>1, <3>1 DEF Apart
    <3>3. End(s) \in Nat /\ r.at \in Nat BY EndIs DEF RecordSet, Record_
    <3>. QED BY <3>1, <3>2, <3>3
  <2>. QED BY <2>1, <2>2
<1>2. ASSUME NEW s \in log, s.at < r.at PROVE s \in Kept(n)
  BY <1>2, KeptBefore
<1>. QED BY <1>1, <1>2 DEF Before

(* A removal that is cut is one of no key. *)
LEMMA KeptRemovals ==
  ASSUME RecordSet(log), Apart(log), Removals(log), NEW n \in Nat
  PROVE  Removals(Kept(n))
<1>. SUFFICES ASSUME NEW t \in Kept(n), t.at > 0, t.val_len = 0,
                     Plain(Before(Kept(n), t.at) \cup {t})
              PROVE  t.key \in Live(Before(Kept(n), t.at))
  BY DEF Removals
<1>1. t.key # Zero BY DEF Plain
<1>2. t \in log
  <2>. SUFFICES ASSUME t \notin log PROVE FALSE OBVIOUS
  <2>1. PICK r \in log : /\ r.at < n /\ n < End(r) /\ n - r.at \in Nat
                         /\ t \in TornRecord(r, n - r.at)
    BY KeptFrom
  <2>2. r \in Record_ BY DEF RecordSet
  <2>3. n - r.at < RecordLen(r) BY <2>1, <2>2, EndIs
  <2>. QED BY <1>1, <2>1, <2>2, <2>3, TornFields
<1>3. t.at < n BY KeptAre
<1>. QED BY <1>2, <1>3, KeptPrefix DEF Removals

LEMMA KeptValues ==
  ASSUME RecordSet(log), HaveValues(log), NEW n \in Nat
  PROVE  HaveValues(Kept(n))
<1>1. ASSUME NEW t \in Kept(n), t.val_len # 0 PROVE t.val # None
  <2>1. CASE t \in log BY <1>1, <2>1 DEF HaveValues
  <2>2. CASE t \notin log
    <3>1. PICK r \in log : n - r.at \in Nat /\ t \in TornRecord(r, n - r.at)
      BY <2>2, KeptFrom
    <3>2. r \in Record_ BY DEF RecordSet
    <3>. QED BY <1>1, <3>1, <3>2, TornFields
  <2>. QED BY <2>1, <2>2
<1>. QED BY <1>1 DEF HaveValues

(* What is left before raw has been read. *)
LEMMA ReadSoFar ==
  ASSUME Base, Layout, st = "restoring", raw > 0
  PROVE  \A r \in left : r.at < raw => r \in log
<1>1. /\ RecordSet(disk) /\ raw \in Nat
      /\ \A s \in left : s.at = 0 \/ \E t \in left : End(t) = s.at
      /\ left \subseteq disk /\ log \subseteq disk /\ Laid(log, raw)
  BY LimitsAre DEF Base, Records, Scalars, Layout
<1>. DEFINE Bad == {r.at : r \in {s \in left : s.at < raw /\ s \notin log}}
<1>2. SUFFICES ASSUME Bad # {} PROVE FALSE
  OBVIOUS
<1>3. \A r \in disk : r.at \in Nat /\ End(r) \in Nat /\ r.at < End(r)
  BY <1>1, EndIs DEF RecordSet
<1>4. Bad \subseteq Nat BY <1>1, <1>3
<1>5. PICK m \in Bad : \A j \in Bad : m <= j
  <2>. HIDE DEF Bad
  <2>. QED BY <1>2, <1>4, Smallest
<1>6. PICK r \in left : r.at < raw /\ r \notin log /\ r.at = m BY <1>5
<1>7. PICK t \in log : t.at = r.at
  <2>1. CASE r.at = 0
    <3>1. log # {} BY <1>1 DEF Laid
    <3>. QED BY <1>1, <2>1, <3>1 DEF Laid
  <2>2. CASE r.at # 0
    <3>1. PICK s \in left : End(s) = r.at BY <1>1, <2>2
    <3>2. s.at < r.at /\ s.at \in Nat /\ r.at \in Nat BY <1>1, <1>3, <3>1
    <3>3. s.at < raw BY <1>1, <1>6, <3>2
    <3>4. s \in log
      <4>1. s.at < m /\ s.at \in Nat BY <1>6, <3>2
      <4>2. s.at \notin Bad
        <5>. HIDE DEF Bad
        <5>. QED BY <1>4, <1>5, <4>1
      <4>. QED BY <3>1, <3>3, <4>2
    <3>5. r.at # raw BY <1>1, <1>6, <3>2
    <3>. QED BY <1>1, <3>1, <3>4, <3>5 DEF Laid
  <2>. QED BY <2>1, <2>2
<1>8. t = r BY <1>1, <1>6, <1>7 DEF RecordSet
<1>. QED BY <1>6, <1>8

(* One more record. *)
LEMMA LogGrows ==
  ASSUME IsFiniteSet(log), Cardinality(log) <= raw, raw \in Nat,
         NEW r \in Record_, r.at = raw, log' = log \cup {r}, raw' = End(r)
  PROVE  IsFiniteSet(log') /\ Cardinality(log') <= raw'
<1>1. /\ IsFiniteSet(log')
      /\ Cardinality(log') \in {Cardinality(log), Cardinality(log) + 1}
  BY FS_AddElement, Zenon
<1>2. Cardinality(log) \in Nat /\ Cardinality(log') \in Nat
  BY <1>1, FS_CardinalityType
<1>3. raw < End(r) /\ End(r) \in Nat BY EndIs
<1>. QED BY <1>1, <1>2, <1>3

(* The values of a log are not more than its bytes. *)
LEMMA ValuesFit ==
  ASSUME IsFiniteSet(log), Cardinality(log) <= raw, raw \in Nat
  PROVE  /\ IsFiniteSet(Values(log)) /\ Cardinality(Values(log)) \in Nat
         /\ Cardinality(Values(log)) <= raw
<1>1. Values(log) \in SUBSET log BY DEF Values
<1>2. /\ IsFiniteSet(Values(log))
      /\ Cardinality(Values(log)) <= Cardinality(log)
  BY <1>1, FS_Subset
<1>3. Cardinality(Values(log)) \in Nat /\ Cardinality(log) \in Nat
  BY <1>2, FS_CardinalityType
<1>. QED BY <1>2, <1>3

(* How a call, or a record that is read, changes the keys K that are there *)
(* and the counters: a removal, a new value of a key, a new key.           *)
Removes(K, L, k, r, s, w) ==
  r.val_len = 0 /\ k \in K /\ L = K \ {k}
    /\ s = (size - 1) % Word /\ w = waste + 1

Renews(K, L, k, r, s, w) ==
  r.val_len # 0 /\ k \in K /\ L = K /\ s = size /\ w = waste + 1

Adds(K, L, k, r, s, w) ==
  r.val_len # 0 /\ k \notin K /\ L = K \cup {k}
    /\ s = (size + 1) % Word /\ w = waste

LEMMA CountStep ==
  ASSUME CountsFit, Base, Base', IsFiniteSet(log), Cardinality(log) <= raw,
         raw > 0, NEW r \in Record_, r.at = raw, log' = log \cup {r},
         NEW K, Counted(K), NEW L, NEW k, NEW s, s = size', NEW w, w = waste',
         \/ Removes(K, L, k, r, s, w)
         \/ Renews(K, L, k, r, s, w)
         \/ Adds(K, L, k, r, s, w)
  PROVE  /\ IsFiniteSet(L) /\ size' = Cardinality(L)
         /\ waste' = Cardinality(Values(log')) - size'
<1>. DEFINE v == Cardinality(Values(log))
            c == Cardinality(K)
<1>1. /\ raw \in Nat /\ raw <= MaxLog /\ size \in Nat /\ waste \in Nat
      /\ Word \in Nat \ {0} /\ MaxLog \in Nat /\ RecordSet(log)
      /\ size < Word /\ r.val_len \in Nat
  BY LimitsAre DEF Base, Scalars, Records, Record_
<1>2. IsFiniteSet(Values(log)) /\ v \in Nat /\ v <= raw
  BY <1>1, ValuesFit
<1>3. /\ IsFiniteSet(K) /\ size = c /\ c \in Nat /\ waste = v - size
      /\ size <= v
  <2>1. IsFiniteSet(K) /\ size = c /\ c \in Nat /\ waste = v - size
    BY FS_CardinalityType DEF Counted
  <2>. HIDE DEF v, c
  <2>. QED BY <1>1, <1>2, <2>1
<1>4. r \notin log
  <2>1. \A q \in log : q.at < End(q) /\ q.at \in Nat /\ End(q) \in Nat
    BY <1>1, EndIs DEF RecordSet
  <2>2. \A q \in log : End(q) <= raw BY DEF Base, Records
  <2>. QED BY <1>1, <2>1, <2>2
<1>5. Cardinality(Values(log')) = IF r.val_len # 0 THEN v + 1 ELSE v
  <2>1. r \notin Values(log) BY <1>4 DEF Values
  <2>2. r.at > 0 /\ (r.val_len > 0 <=> r.val_len # 0) BY <1>1
  <2>. QED BY <1>2, <2>1, <2>2, ValuesAdd, FS_AddElement
<1>6. CASE Removes(K, L, k, r, s, w)
  <2>1. IsFiniteSet(L) /\ Cardinality(L) = c - 1
    BY <1>3, <1>6, FS_RemoveElement DEF Removes
  <2>2. c # 0 BY <1>3, <1>6, FS_EmptySet DEF Removes
  <2>. HIDE DEF c, v
  <2>3. size - 1 \in Nat /\ size - 1 < Word BY <1>1, <1>3, <2>2
  <2>4. (size - 1) % Word = size - 1 BY <1>1, <2>3, ModLess
  <2>. QED BY <1>1, <1>2, <1>3, <1>5, <1>6, <2>1, <2>4 DEF Removes
<1>7. CASE Renews(K, L, k, r, s, w)
  <2>. HIDE DEF v
  <2>. QED BY <1>1, <1>2, <1>3, <1>5, <1>7 DEF Renews
<1>8. CASE Adds(K, L, k, r, s, w)
  <2>1. IsFiniteSet(L) /\ Cardinality(L) = c + 1
    BY <1>3, <1>8, FS_AddElement DEF Adds
  <2>. HIDE DEF c, v
  <2>2. size + 1 \in Nat /\ size + 1 < Word
    <3>1. size <= raw BY <1>1, <1>2, <1>3
    <3>2. raw < MaxLog
      <4>1. \A q \in log' : End(q) <= raw' BY DEF Base, Records, End, RecordLen
      <4>2. raw' <= MaxLog /\ raw' \in Nat BY <1>1 DEF Base, Scalars
      <4>3. raw < End(r) /\ End(r) \in Nat BY EndIs
      <4>. QED BY <1>1, <4>1, <4>2, <4>3
    <3>. QED BY <1>1, <3>1, <3>2 DEF CountsFit
  <2>3. (size + 1) % Word = size + 1 BY <1>1, <2>2, ModLess
  <2>. QED BY <1>1, <1>2, <1>3, <1>5, <1>8, <2>1, <2>3 DEF Adds
<1>. QED BY <1>6, <1>7, <1>8

LEMMA CountingLookup ==
  ASSUME Base, Base', Counting,
         UNCHANGED <<st, log, disk, raw, size, waste, zeroed, left>>,
         \A k \in AllKeys :
           index_lookup(index', hash(k)) = index_lookup(index, hash(k))
  PROVE  Counting'
<1>1. FoundKeys' = FoundKeys
  <2>1. View' = View BY ViewSame
  <2>. QED BY <2>1 DEF FoundKeys
<1>. QED BY <1>1 DEF Counting, Counted

LEMMA CountingOpen ==
  ASSUME DummyFits, Base, Base', Counting, Open
  PROVE  Counting'
<1>. DEFINE dummy == Record(0, 0, Zero, Zero)
<1>1. /\ st' = "open" /\ log' = {dummy} /\ raw' = End(dummy)
      /\ size' = 0 /\ waste' = 0 /\ disk' = disk /\ kv' = View'
  BY DEF Open
<1>2. dummy \in log' /\ dummy.at = 0 BY <1>1 DEF Record
<1>3. IsFiniteSet(log') /\ Cardinality(log') <= raw'
  <2>1. IsFiniteSet(log') /\ Cardinality(log') = 1 BY <1>1, FS_Singleton
  <2>2. dummy \in Record_ BY <1>2 DEF Base, Records, RecordSet
  <2>. HIDE DEF dummy
  <2>3. 0 < End(dummy) /\ End(dummy) \in Nat BY <1>2, <2>2, EndIs
  <2>. QED BY <1>1, <2>1, <2>3
<1>4. HaveValues(log')
  BY <1>1, KVStoreAssumption DEF HaveValues, Record, ValLenOf
<1>5. Removals(log') BY <1>1, <1>2 DEF Removals
<1>6. Values(log') = {} BY <1>1, <1>2 DEF Values
<1>7. FoundKeys' = {}
  <2>1. View' = [k \in Keys |-> None] BY <1>1, OpenMapStep
  <2>. QED BY <2>1 DEF FoundKeys
<1>8. Counted(FoundKeys)'
  <2>1. IsFiniteSet(FoundKeys') /\ Cardinality(FoundKeys') = 0
        /\ Cardinality(Values(log')) = 0
    BY <1>6, <1>7, FS_EmptySet
  <2>. QED BY <1>1, <2>1 DEF Counted, Values
<1>9. HaveValues(disk') BY <1>1 DEF Counting
<1>. QED BY <1>1, <1>3, <1>4, <1>5, <1>8, <1>9
         DEF Counting, HaveValues, Removals

LEMMA CountingStop ==
  ASSUME Base, Base', Chaining, Counting, st = "open",
         NEW n \in Nat, Stop(n)
  PROVE  Counting'
<1>1. /\ st' = "closed" /\ disk' = Kept(n) \cup Older(n) /\ left' = Kept(n)
      /\ log' = {} /\ raw' = 0 /\ size' = 0 /\ waste' = 0 /\ zeroed' = zeroed
      /\ RecordSet(log) /\ Apart(log)
  BY DEF Stop, Freed, Base, Records, Chaining
<1>2. IsFiniteSet(log') /\ Cardinality(log') <= raw' BY <1>1, FS_EmptySet
<1>3. HaveValues(log') /\ HaveValues(disk')
  <2>1. HaveValues(Kept(n)) BY <1>1, KeptValues DEF Counting
  <2>2. Older(n) \subseteq disk BY DEF Older
  <2>3. HaveValues(disk) BY DEF Counting
  <2>. QED BY <1>1, <2>1, <2>2, <2>3 DEF HaveValues
<1>4. zeroed => Removals(left')
  <2>. SUFFICES ASSUME zeroed PROVE Removals(Kept(n)) BY <1>1
  <2>1. Removals(log) BY DEF Counting
  <2>. QED BY <1>1, <2>1, KeptRemovals
<1>. HIDE DEF Kept
<1>. QED BY <1>1, <1>2, <1>3, <1>4 DEF Counting, HaveValues, Removals

(* What a call counts, if it is not refused. *)
Tally(k, v, grows, shrinks, wastes) ==
  \/ v = None /\ Exists(k) /\ grows = 0 /\ shrinks = 1 /\ wastes = 1
  \/ v # None /\ Exists(k) /\ grows = 0 /\ shrinks = 0 /\ wastes = 1
  \/ v # None /\ ~Exists(k) /\ grows = 1 /\ shrinks = 0 /\ wastes = 0

LEMMA CountingMutate ==
  ASSUME CountsFit, Base, Base', Layout, Mapping, Counting,
         NEW k \in Keys, NEW v \in Vals \cup {None}, NEW refused,
         NEW grows, NEW shrinks, NEW wastes,
         mutate(k, v, refused, grows, shrinks, wastes),
         ~refused => Tally(k, v, grows, shrinks, wastes)
  PROVE  Counting'
<1>. DEFINE updated == index_update(index, hash(k))
<1>1. /\ st = "open" /\ UNCHANGED <<st, zeroed, left, disk>>
      /\ IF Result(k, refused) # 0
         THEN index' = updated /\ UNCHANGED <<log, raw, size, waste>>
         ELSE /\ size' = (size + grows - shrinks) % Word
              /\ waste' = waste + wastes
  BY DEF mutate
<1>2. /\ raw \in Nat /\ raw > 0 /\ RecordSet(log) /\ Sound(index)
      /\ \A s \in log : End(s) <= raw
  BY <1>1, LimitsAre DEF Base, Scalars, Records, IndexInv
<1>3. CASE Result(k, refused) # 0
  <2>1. \A j \in AllKeys :
          index_lookup(index', hash(j)) = index_lookup(index, hash(j))
    BY <1>1, <1>2, <1>3, HashIsKey, UpdatesKeepEntries DEF AllKeys
  <2>. QED BY <1>1, <1>3, <2>1, CountingLookup
<1>4. CASE Result(k, refused) = 0
  <2>. HIDE DEF updated
  <2>1. Tally(k, v, grows, shrinks, wastes) BY <1>4 DEF Result
  <2>2. PICK r \in Record_ :
          /\ log' = log \cup {r} /\ raw' = End(r)
          /\ r.at = raw /\ r.key = k /\ r.val = v /\ r.key_len = KeyLen[k]
          /\ r.val_len = 0 <=> v = None
          /\ r.off = index_lookup(index, hash(k)) /\ r.off < raw
          /\ index' = SetOff(index_update(index, hash(r.key)), hash(r.key), r.at)
    BY <1>4, WrittenIs
  <2>3. View' = [View EXCEPT ![k] = v] BY <1>2, <2>2, WrittenView
  <2>4. /\ FoundKeys' = IF v = None THEN FoundKeys \ {k}
                                    ELSE FoundKeys \cup {k}
        /\ k \in FoundKeys <=> Exists(k)
    <3>1. \A j \in Keys : View'[j] = IF j = k THEN v ELSE View[j]
      BY <2>3 DEF View
    <3>2. FoundKeys' = {j \in Keys : View'[j] # None} BY DEF FoundKeys
    <3>3. View[k] = Found(k) BY DEF View
    <3>. QED BY <3>1, <3>2, <3>3 DEF FoundKeys, Exists
  <2>5. IsFiniteSet(log) /\ Cardinality(log) <= raw BY DEF Counting
  <2>6. IsFiniteSet(log') /\ Cardinality(log') <= raw'
    BY <1>2, <2>2, <2>5, LogGrows
  <2>7. HaveValues(log') /\ HaveValues(disk')
    BY <1>1, <2>2 DEF Counting, HaveValues
  <2>8. \A s \in log : s.at \in Nat /\ s.at < raw
    <3>1. \A s \in log : s.at \in Nat /\ End(s) \in Nat /\ s.at < End(s)
      BY <1>2, EndIs DEF RecordSet
    <3>. QED BY <1>2, <3>1
  <2>9. ASSUME zeroed \/ left = {} PROVE Removals(log')
    <3>1. OpenMap /\ Removals(log)
      BY <1>1, <2>9 DEF Mapping, Counting
    <3>2. ASSUME NEW s \in log', s.at > 0, s.val_len = 0,
                 Plain(Before(log', s.at) \cup {s})
          PROVE  s.key \in Live(Before(log', s.at))
      <4>1. CASE s \in log
        <5>1. Before(log', s.at) = Before(log, s.at)
          BY <1>2, <2>2, <2>8, <4>1 DEF Before
        <5>. QED BY <3>1, <3>2, <4>1, <5>1 DEF Removals
      <4>2. CASE s = r
        <5>1. Before(log', raw) = log
          BY <1>2, <2>2, <2>8 DEF Before
        <5>2. Plain(log) BY <2>2, <3>2, <4>2, <5>1, PlainLess
        <5>3. FoundKeys = Live(log)
          BY <3>1, <5>2, FoundIsLive DEF OpenMap, Counting
        <5>4. k \in FoundKeys BY <2>1, <2>2, <2>4, <3>2, <4>2 DEF Tally
        <5>. QED BY <2>2, <4>2, <5>1, <5>3, <5>4
      <4>. QED BY <2>2, <4>1, <4>2
    <3>. QED BY <3>2 DEF Removals
  <2>10. ASSUME left' = {} \/ (zeroed' /\ Plain(log'))
         PROVE  Counted(FoundKeys)'
    <3>1. Plain(log') => Plain(log) BY <2>2, PlainLess
    <3>2. Counted(FoundKeys) BY <1>1, <2>10, <3>1 DEF Counting
    <3>3. size \in Nat /\ size < Word /\ waste \in Nat /\ Word \in Nat \ {0}
      BY LimitsAre DEF Base, Scalars
    <3>4. /\ size' = (size + grows - shrinks) % Word
          /\ waste' = waste + wastes
      BY <1>1, <1>4
    <3>5. \/ Removes(FoundKeys, FoundKeys', k, r, size', waste')
          \/ Renews(FoundKeys, FoundKeys', k, r, size', waste')
          \/ Adds(FoundKeys, FoundKeys', k, r, size', waste')
      <4>1. CASE v = None
        <5>1. size' = (size - 1) % Word /\ waste' = waste + 1
          BY <2>1, <3>3, <3>4, <4>1 DEF Tally
        <5>. QED BY <2>1, <2>2, <2>4, <4>1, <5>1 DEF Tally, Removes
      <4>2. CASE v # None /\ Exists(k)
        <5>1. size' = size % Word /\ waste' = waste + 1
          BY <2>1, <3>3, <3>4, <4>2 DEF Tally
        <5>2. size' = size BY <3>3, <5>1, ModLess
        <5>3. FoundKeys' = FoundKeys BY <2>4, <4>2
        <5>. QED BY <2>2, <2>4, <4>2, <5>1, <5>2, <5>3 DEF Renews
      <4>3. CASE v # None /\ ~Exists(k)
        <5>1. size' = (size + 1) % Word /\ waste' = waste
          BY <2>1, <3>3, <3>4, <4>3 DEF Tally
        <5>. QED BY <2>2, <2>4, <4>3, <5>1 DEF Adds
      <4>. QED BY <4>1, <4>2, <4>3
    <3>6. /\ IsFiniteSet(FoundKeys') /\ size' = Cardinality(FoundKeys')
          /\ waste' = Cardinality(Values(log')) - size'
      BY <1>2, <2>2, <2>5, <3>2, <3>5, CountStep
    <3>. QED BY <3>6 DEF Counted, Values
  <2>. QED
    BY <1>1, <2>6, <2>7, <2>9, <2>10 DEF Counting, HaveValues, Removals
<1>. QED BY <1>3, <1>4

LEMMA CountingVisitorInit ==
  ASSUME Base, Base', Counting, VisitorInit
  PROVE  Counting'
<1>1. /\ st = "restoring" /\ next = 0 /\ raw = 0
      /\ UNCHANGED <<disk, size, waste, zeroed, left>>
      /\ size = 0 /\ waste = 0 /\ RecordSet(disk)
  BY DEF VisitorInit, history, Base, Scalars, Records, Counting
<1>2. CASE At0 = {}
  <2>1. st' = "exited" /\ UNCHANGED <<log, raw>> BY <1>2 DEF VisitorInit
  <2>. QED BY <1>1, <2>1 DEF Counting, HaveValues
<1>3. CASE At0 # {}
  <2>1. PICK r \in At0 : log' = {r} /\ raw' = End(r) /\ st' = st
    BY <1>3 DEF VisitorInit
  <2>2. r \in disk /\ r.at = 0 /\ r \in Record_
    BY <1>1 DEF At0, RecordSet
  <2>3. IsFiniteSet(log') /\ Cardinality(log') <= raw'
    <3>1. IsFiniteSet(log') /\ Cardinality(log') = 1 BY <2>1, FS_Singleton
    <3>2. 0 < End(r) /\ End(r) \in Nat BY <2>2, EndIs
    <3>. QED BY <2>1, <3>1, <3>2
  <2>4. HaveValues(log') /\ HaveValues(disk')
    BY <1>1, <2>1, <2>2 DEF Counting, HaveValues
  <2>5. Values(log') = {} /\ Live(log') = {}
    BY <2>1, <2>2 DEF Values, Live, IsLast, On
  <2>6. Counted(Live(log))'
    <3>1. /\ IsFiniteSet(Live(log')) /\ Cardinality(Live(log')) = 0
          /\ Cardinality(Values(log')) = 0
      BY <2>5, FS_EmptySet
    <3>. QED BY <1>1, <3>1 DEF Counted, Values, Live, IsLast, On
  <2>7. zeroed' => Removals(left') BY <1>1 DEF Counting
  <2>8. raw' # 0
    <3>1. 0 < End(r) /\ End(r) \in Nat BY <2>2, EndIs
    <3>. QED BY <2>1, <3>1
  <2>. QED
    BY <1>1, <2>1, <2>3, <2>4, <2>6, <2>7, <2>8
    DEF Counting, HaveValues, Removals
<1>. QED BY <1>2, <1>3

(* What the loop of kvdb_open_internal() counts for a record.              *)
LEMMA IndexedCounts ==
  ASSUME Base, Layout, Counting, ClosedMap, st = "restoring", raw > 0, zeroed,
         NEW r \in disk, r.at = raw, log' = log \cup {r}, Indexed(r),
         Plain(log')
  PROVE  \/ Removes(Live(log), Live(log'), r.key, r, size', waste')
         \/ Renews(Live(log), Live(log'), r.key, r, size', waste')
         \/ Adds(Live(log), Live(log'), r.key, r, size', waste')
<1>1. /\ RecordSet(log) /\ RecordSet(disk) /\ raw \in Nat /\ Sound(index)
      /\ \A s \in log : End(s) <= raw
  BY LimitsAre DEF Base, Records, Scalars, IndexInv
<1>2. r \in Record_ /\ r.key \in AllKeys /\ r.val_len \in Nat /\ r \in log'
  BY <1>1 DEF RecordSet, Record_
<1>3. r.key # Zero /\ r.key \in Keys BY <1>2 DEF Plain, AllKeys
<1>4. \A s \in log : s.at \in Nat /\ s.at < raw
  <2>1. \A s \in log : s.at \in Nat /\ End(s) \in Nat /\ s.at < End(s)
    BY <1>1, EndIs DEF RecordSet
  <2>. QED BY <1>1, <2>1
<1>5. IF r.val_len = 0 THEN Live(log') = Live(log) \ {r.key}
      ELSE Live(log') = Live(log) \cup {r.key}
  BY <1>1, <1>2, <1>3, <1>4, LiveAdd
<1>. DEFINE e == index_lookup(index, hash(r.key))
<1>6. EntryIs(r.key, e)
  BY <1>2 DEF ClosedMap, EntriesAre
<1>7. \A l \in On(log, r.key) :
        IsLast(log, r.key, l) /\ l.val_len = 0 => e = 0
  BY <1>2 DEF ClosedMap, EntriesRestored
<1>8. e = index_lookup(index_update(index, hash(r.key)), hash(r.key))
  BY <1>1, <1>2, HashIsKey, UpdatesKeepEntries
<1>9. IF r.val_len = 0 THEN size' = (size - 1) % Word /\ waste' = waste + 1
      ELSE IF e # 0 THEN size' = size /\ waste' = waste + 1
      ELSE size' = (size + 1) % Word /\ waste' = waste
  BY <1>8 DEF Indexed
<1>. HIDE DEF e
<1>10. r.key \in Live(log) <=> r.val_len = 0 \/ e # 0
  <2>1. CASE r.val_len = 0
    <3>1. r \in left /\ log \subseteq left BY DEF Layout
    <3>2. \A s \in left : s.at < raw => s \in log BY ReadSoFar
    <3>3. Before(left, r.at) = log BY <1>4, <3>1, <3>2 DEF Before
    <3>4. Removals(left) BY DEF Counting
    <3>5. r.key \in Live(Before(left, r.at))
      BY <2>1, <3>1, <3>3, <3>4 DEF Removals
    <3>. QED BY <2>1, <3>3, <3>5
  <2>2. CASE r.val_len # 0 /\ e # 0
    <3>1. On(log, r.key) # {} BY <1>6, <2>2 DEF EntryIs
    <3>2. PICK l \in On(log, r.key) : IsLast(log, r.key, l)
      BY <1>1, <3>1, LastExists
    <3>3. /\ l \in log /\ l.at > 0 /\ hash(l.key) = hash(r.key)
          /\ l.val_len \in Nat
      BY <1>1 DEF On, RecordSet, Record_
    <3>4. l.key = r.key BY <1>2, <3>3 DEF Plain
    <3>5. l.val_len # 0 BY <1>7, <2>2, <3>2
    <3>6. r.key \in Live(log) BY <1>3, <3>2, <3>3, <3>4, <3>5 DEF Live
    <3>. QED BY <2>2, <3>6
  <2>3. CASE r.val_len # 0 /\ e = 0
    <3>1. ASSUME r.key \in Live(log) PROVE FALSE
      <4>1. PICK l \in log : IsLast(log, r.key, l) /\ l.val_len > 0
        BY <3>1 DEF Live
      <4>2. l \in On(log, r.key) /\ l.at > 0 BY <4>1 DEF IsLast, On
      <4>3. e = l.at \/ l.val_len = 0 BY <1>6, <4>1, <4>2 DEF EntryIs
      <4>. QED BY <2>3, <4>1, <4>2, <4>3
    <3>. QED BY <2>3, <3>1
  <2>. QED BY <2>1, <2>2, <2>3
<1>11. CASE r.val_len = 0 BY <1>5, <1>9, <1>10, <1>11 DEF Removes
<1>12. CASE r.val_len # 0 /\ e # 0
  <2>1. Live(log') = Live(log) BY <1>5, <1>10, <1>12
  <2>. QED BY <1>9, <1>10, <1>12, <2>1 DEF Renews
<1>13. CASE r.val_len # 0 /\ e = 0
  BY <1>5, <1>9, <1>10, <1>13 DEF Adds
<1>. QED BY <1>11, <1>12, <1>13

LEMMA CountingVisitorNext ==
  ASSUME CountsFit, Base, Base', Layout, Mapping, Counting, VisitorNext
  PROVE  Counting'
<1>1. /\ st = "restoring" /\ raw = next /\ next # 0 /\ raw \in Nat /\ raw > 0
      /\ UNCHANGED <<disk, zeroed, left>>
      /\ RecordSet(disk)
      /\ IsFiniteSet(log) /\ Cardinality(log) <= raw
  BY LimitsAre DEF VisitorNext, history, Base, Scalars, Records, Counting
<1>2. PICK r \in ToRead :
        /\ log' = log \cup {r} /\ raw' = End(r)
        /\ IF r.key_len = 0 THEN st' = "aborted"
                            ELSE Indexed(r) /\ st' = st
  BY DEF VisitorNext
<1>3. r.at = raw /\ r \in Record_ /\ r \in disk
  BY <1>1 DEF ToRead, RecordSet
<1>4. IsFiniteSet(log') /\ Cardinality(log') <= raw'
  BY <1>1, <1>2, <1>3, LogGrows
<1>5. HaveValues(log') /\ HaveValues(disk')
  BY <1>1, <1>2, <1>3 DEF Counting, HaveValues
<1>6. zeroed' => Removals(left') BY <1>1 DEF Counting
<1>7. raw' # 0
  <2>1. raw < End(r) /\ End(r) \in Nat BY <1>3, EndIs
  <2>. QED BY <1>1, <1>2, <2>1
<1>8. CASE r.key_len = 0
  <2>1. st' = "aborted" BY <1>2, <1>8
  <2>. QED BY <1>4, <1>5, <2>1 DEF Counting, HaveValues
<1>9. CASE r.key_len # 0
  <2>1. st' = "restoring" /\ Indexed(r) BY <1>1, <1>2, <1>9
  <2>2. ASSUME zeroed', Plain(log') PROVE Counted(Live(log))'
    <3>1. zeroed /\ ClosedMap BY <1>1, <2>2 DEF Mapping
    <3>2. Plain(log) BY <1>2, <2>2, PlainLess
    <3>3. Counted(Live(log)) BY <1>1, <3>1, <3>2 DEF Counting
    <3>4. \/ Removes(Live(log), Live(log'), r.key, r, size', waste')
          \/ Renews(Live(log), Live(log'), r.key, r, size', waste')
          \/ Adds(Live(log), Live(log'), r.key, r, size', waste')
      BY <1>1, <1>2, <1>3, <2>1, <2>2, <3>1, IndexedCounts
    <3>5. /\ IsFiniteSet(Live(log')) /\ size' = Cardinality(Live(log'))
          /\ waste' = Cardinality(Values(log')) - size'
      BY <1>1, <1>2, <1>3, <3>3, <3>4, CountStep
    <3>. QED BY <3>5 DEF Counted, Values, Live, IsLast, On
  <2>. QED
    BY <1>4, <1>5, <1>6, <1>7, <2>1, <2>2
    DEF Counting, HaveValues, Removals, Plain
<1>. QED BY <1>8, <1>9

LEMMA CountingRestoreDone ==
  ASSUME Base, Base', Layout, Mapping, Counting, RestoreDone
  PROVE  Counting'
<1>1. /\ st = "restoring" /\ next # 0 /\ ToRead = {} /\ raw = next
      /\ raw \in Nat /\ raw > 0 /\ st' = "open"
      /\ UNCHANGED <<log, raw, index, size, waste, disk, zeroed, left>>
  BY LimitsAre DEF RestoreDone, kvdb, Base, Scalars
<1>2. ASSUME zeroed \/ left = {}
      PROVE  Removals(log) /\ (Plain(log) => Counted(FoundKeys)) /\ log = left
  <2>1. zeroed
    <3>1. ~zeroed => left # {} BY <1>1 DEF Layout, OlderBehind
    <3>. QED BY <1>2, <3>1
  <2>2. log = left
    <3>1. left \subseteq log BY <1>1, AllRead
    <3>. QED BY <1>1, <2>1, <3>1 DEF Layout
  <2>3. ClosedMap BY <1>1, <1>2 DEF Mapping
  <2>4. Whole(log) /\ EntriesAre /\ HaveValues(log) /\ Removals(log)
    BY <1>1, <2>1, <2>2, <2>3 DEF ClosedMap, Counting
  <2>5. ASSUME Plain(log) PROVE Counted(FoundKeys)
    <3>1. FoundKeys = Live(log) BY <2>4, <2>5, FoundIsLive
    <3>2. Counted(Live(log)) BY <1>1, <2>1, <2>5 DEF Counting
    <3>. QED BY <3>1, <3>2
  <2>. QED BY <2>2, <2>4, <2>5
<1>3. FoundKeys' = FoundKeys
  <2>1. View' = View BY <1>1, ViewSame
  <2>. QED BY <2>1 DEF FoundKeys
<1>4. Removals(log)' <=> Removals(log)
  BY <1>1 DEF Removals, Live, Before, IsLast, On, Plain
<1>5. Counted(FoundKeys)' <=> Counted(FoundKeys)
  BY <1>1, <1>3 DEF Counted, Values
<1>6. left = {} /\ log = left => Plain(log) BY DEF Plain
<1>. QED
  BY <1>1, <1>2, <1>4, <1>5, <1>6 DEF Counting, HaveValues, Plain

LEMMA CountingStep ==
  ASSUME DummyFits, CountsFit, Base, Base', Layout, Chaining, Mapping, Counting,
         [Next]_vars
  PROVE  Counting'
<1>1. CASE Open BY <1>1, CountingOpen
<1>2. CASE Close
  <2>1. st = "open" /\ Stop(raw) /\ raw \in Nat
    BY <1>2, LimitsAre DEF Close, Base, Scalars
  <2>. QED BY <2>1, CountingStop
<1>3. CASE Crash
  <2>1. raw \in Nat /\ synced \in Nat /\ st = "open"
    BY <1>3, LimitsAre DEF Crash, Base, Scalars
  <2>2. PICK n \in synced .. raw : Stop(n) BY <1>3 DEF Crash
  <2>3. n \in Nat BY <2>1
  <2>. QED BY <2>1, <2>2, <2>3, CountingStop
<1>4. CASE RestoreOpen
  <2>1. /\ st = "closed" /\ st' = "restoring" /\ raw = 0
        /\ UNCHANGED <<log, raw, size, waste, disk, zeroed, left>>
    BY <1>4 DEF RestoreOpen, kvdb, history, Base, Scalars
  <2>2. zeroed => Removals(left) BY <2>1 DEF Counting
  <2>3. Removals(left)' <=> Removals(left)
    BY <2>1 DEF Removals, Live, Before, IsLast, On, Plain
  <2>. QED BY <2>1, <2>2, <2>3 DEF Counting, HaveValues
<1>5. CASE VisitorInit BY <1>5, CountingVisitorInit
<1>6. CASE VisitorNext BY <1>6, CountingVisitorNext
<1>7. CASE RestoreDone BY <1>7, CountingRestoreDone
<1>14. CASE RestoreAstray
  <2>1. /\ st' = "astray" /\ UNCHANGED <<log, raw, disk>>
    BY <1>14 DEF RestoreAstray, kvdb
  <2>. QED BY <2>1 DEF Counting, HaveValues
<1>8. ASSUME NEW k \in Keys, Lookup(k) PROVE Counting'
  <2>1. UNCHANGED <<st, log, disk, raw, index, size, waste, zeroed, left>>
    BY <1>8 DEF Lookup, kvdb
  <2>2. \A j \in AllKeys :
          index_lookup(index', hash(j)) = index_lookup(index, hash(j))
    BY <2>1
  <2>. QED BY <2>1, <2>2, CountingLookup
<1>9. ASSUME NEW k \in Keys, Remove(k) PROVE Counting'
  <2>. DEFINE no == ~Exists(k)
  <2>1. mutate(k, None, no, 0, 1, 1) BY <1>9 DEF Remove
  <2>2. ~no => Tally(k, None, 0, 1, 1) BY DEF Tally
  <2>. HIDE DEF no
  <2>. QED BY <2>1, <2>2, CountingMutate
<1>10. ASSUME NEW k \in Keys, NEW v \in Vals, Insert(k, v) PROVE Counting'
  <2>. DEFINE yes == Exists(k)
  <2>1. mutate(k, v, yes, 1, 0, 0) BY <1>10 DEF Insert
  <2>2. v # None BY KVStoreAssumption
  <2>3. ~yes => Tally(k, v, 1, 0, 0) BY <2>2 DEF Tally
  <2>. HIDE DEF yes
  <2>. QED BY <2>1, <2>3, CountingMutate
<1>11. ASSUME NEW k \in Keys, NEW v \in Vals, Update(k, v) PROVE Counting'
  <2>1. v # None BY KVStoreAssumption
  <2>2. CASE Exists(k)
    <3>1. mutate(k, v, FALSE, 0, 0, 1) BY <1>11, <2>2 DEF Update
    <3>2. Tally(k, v, 0, 0, 1) BY <2>1, <2>2 DEF Tally
    <3>. QED BY <3>1, <3>2, CountingMutate
  <2>3. CASE ~Exists(k)
    <3>1. mutate(k, v, FALSE, 1, 0, 0) BY <1>11, <2>3 DEF Update
    <3>2. Tally(k, v, 1, 0, 0) BY <2>1, <2>3 DEF Tally
    <3>. QED BY <3>1, <3>2, CountingMutate
  <2>. QED BY <2>2, <2>3
<1>12. ASSUME NEW k \in Keys, NEW v \in Vals, Replace(k, v) PROVE Counting'
  <2>. DEFINE no == ~Exists(k)
  <2>1. mutate(k, v, no, 0, 0, 1) BY <1>12 DEF Replace
  <2>2. v # None BY KVStoreAssumption
  <2>3. ~no => Tally(k, v, 0, 0, 1) BY <2>2 DEF Tally
  <2>. HIDE DEF no
  <2>. QED BY <2>1, <2>3, CountingMutate
<1>13. CASE UNCHANGED vars
  <2>1. UNCHANGED <<st, log, disk, raw, index, size, waste, zeroed, left>>
    BY <1>13 DEF vars, kvdb, history
  <2>2. \A j \in AllKeys :
          index_lookup(index', hash(j)) = index_lookup(index, hash(j))
    BY <2>1
  <2>. QED BY <2>1, <2>2, CountingLookup
<1>. QED
  BY <1>1, <1>2, <1>3, <1>4, <1>5, <1>6, <1>7, <1>8, <1>9, <1>10, <1>11,
     <1>12, <1>13, <1>14
  DEF Next, Ended

LEMMA CountingInit == Init => Counting
<1>. SUFFICES ASSUME Init PROVE Counting OBVIOUS
<1>1. /\ st = "closed" /\ log = {} /\ disk = {} /\ raw = 0 /\ size = 0
      /\ waste = 0 /\ left = {}
  BY DEF Init
<1>2. IsFiniteSet(log) /\ Cardinality(log) <= raw BY <1>1, FS_EmptySet
<1>3. HaveValues(log) /\ HaveValues(disk) /\ Removals(left)
  BY <1>1 DEF HaveValues, Removals
<1>. QED BY <1>1, <1>2, <1>3 DEF Counting

(* kvdb_size() is the number of keys that a lookup finds and kvdb_waste()  *)
(* that of the values in the log that are no longer current, whatever was  *)
(* called; and after a restore, where no two keys share a hash, no crash   *)
(* has cut a key and the device held no older log.                         *)
THEOREM CountersAreRight ==
  ASSUME DummyFits, CountsFit PROVE Spec => []CountersRight
<1>1. Counting => CountersRight
  <2>. SUFFICES ASSUME Counting, st = "open",
                       left = {} \/ (zeroed /\ Plain(log))
                PROVE  CountersRight
    BY DEF CountersRight, Plain
  <2>1. Counted(FoundKeys) BY DEF Counting
  <2>2. FoundKeys = {k \in Keys : Found(k) # None} BY DEF FoundKeys, View
  <2>. QED BY <2>1, <2>2 DEF CountersRight, Counted, Values
<1>. DEFINE Inv == /\ Geometry /\ Base /\ Layout /\ Chaining /\ Rebuilding
                   /\ Mapping /\ zeroed \in BOOLEAN
<1>2. Spec => []Inv BY MappingHolds
<1>3. Inv /\ Inv' /\ Counting /\ [Next]_vars => Counting' BY CountingStep
<1>. HIDE DEF Inv
<1>. QED BY <1>1, <1>2, <1>3, CountingInit, PTL DEF Spec

=============================================================================

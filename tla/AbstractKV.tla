---------------------------- MODULE AbstractKV -----------------------------
(***************************************************************************)
(* What a client may rely on from src/p4/kvdb.h: a map from keys to values *)
(* that survives closing and restoring, and of which a crash keeps what    *)
(* was read and, of the rest, what was written first.  Three exceptions,   *)
(* as the code has them: restoring may forget a key whose hash another key *)
(* shares, a crash may garble the one key that was being written, and of a *)
(* log that is not regular a restore may make a store that nothing holds   *)
(* of any more.                                                            *)
(***************************************************************************)
EXTENDS Integers, FiniteSets

CONSTANTS Keys, Vals, None,
          Shared    \* the keys whose hash is not theirs alone

VARIABLES
  kv,      \* the map
  past,    \* the maps that a crash may fall back to
  st,      \* "closed", "open", "unknown": beyond the promise
  zeroed,  \* the device held nothing when the store was created
  regular, \* the store that is closed can be restored
  out      \* what the last call returned

vars == <<kv, past, st, zeroed, regular, out>>

Empty == [k \in Keys |-> None]

NoCall == [rv |-> 0, val |-> None]

Init ==
  /\ kv = Empty /\ past = {Empty} /\ st = "closed" /\ zeroed = TRUE
  /\ regular = TRUE
  /\ out = NoCall

Open ==
  /\ st \in {"closed", "unknown"} /\ st' = "open"
  /\ kv' = Empty /\ past' = {Empty} /\ out' = NoCall
  /\ zeroed' \in BOOLEAN /\ regular' \in BOOLEAN

(* A call that finds a record has had the log flushed first.               *)
Written(k, v) ==
  /\ kv' = [kv EXCEPT ![k] = v]
  /\ past' = {kv, kv'} \/ (kv[k] = None /\ past' = past \cup {kv'})

Refused(k) ==
  /\ UNCHANGED kv
  /\ past' = {kv} \/ (kv[k] = None /\ past' = past)

Call(ok, k, v, val) ==
  /\ st = "open"
  /\ IF ok THEN Written(k, v) ELSE Refused(k)
  /\ out' = [rv |-> IF ok THEN 0 ELSE 1, val |-> val]
  /\ UNCHANGED <<st, zeroed, regular>>

Insert(k, v)  == Call(kv[k] = None, k, v, None)
Replace(k, v) == Call(kv[k] # None, k, v, None)
Update(k, v)  == Call(TRUE, k, v, None)
Remove(k)     == Call(kv[k] # None, k, None, kv[k])

Lookup(k) ==
  /\ st = "open"
  /\ Refused(k)
  /\ out' = [rv |-> IF kv[k] = None THEN 1 ELSE 0, val |-> kv[k]]
  /\ UNCHANGED <<st, zeroed, regular>>

(* The map m, except for one key at most and what restoring may forget.    *)
Garbled(m, garbled) ==
  \A k \in Keys \ garbled : kv'[k] = m[k] \/ (k \in Shared /\ kv'[k] = None)

Close ==
  /\ st = "open" /\ zeroed /\ st' = "closed"
  /\ Garbled(kv, {})
  /\ past' = {kv'} /\ out' = NoCall /\ UNCHANGED zeroed /\ regular' \in BOOLEAN

(* A device that held an older log: nothing is said until the next Open.   *)
CloseOverOlder == st = "open" /\ ~zeroed /\ st' = "unknown"
Unknown == st = "unknown" /\ st' = "unknown"

Crash ==
  /\ st = "open" /\ st' = "closed" /\ zeroed
  /\ \E m \in past, garbled \in {{}} \cup {{k} : k \in Keys} :
       Garbled(m, garbled)
  /\ past' = {kv'} /\ out' = NoCall /\ UNCHANGED zeroed /\ regular' \in BOOLEAN

Restore ==
  /\ st = "closed" /\ st' = "open"
  /\ UNCHANGED <<kv, past, zeroed, regular, out>>

Astray == st = "closed" /\ ~regular /\ st' = "unknown"

Next ==
  \/ Open \/ Close \/ Crash \/ Restore \/ Astray \/ CloseOverOlder \/ Unknown
  \/ \E k \in Keys :
       \/ Remove(k) \/ Lookup(k)
       \/ \E v \in Vals : Insert(k, v) \/ Update(k, v) \/ Replace(k, v)

Spec == Init /\ [][Next]_vars
=============================================================================

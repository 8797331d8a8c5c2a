---------------------------- MODULE AbstractLog ----------------------------
(***************************************************************************)
(* What src/p4/logfs.h promises of a log: a sequence of bytes that only    *)
(* ever grows at its end, by whole appends, and of which a read returns    *)
(* the bytes it asks for.  No device, buffer, cache or thread.             *)
(***************************************************************************)
EXTENDS Integers, Sequences

CONSTANTS
  AppendLens,   \* lengths of the appends
  MaxLog        \* bound: bytes ever appended

VARIABLES
  log,      \* the bytes appended so far
  st,       \* where the client is: "new", "idle", "busy", "added", "closed"
  req,      \* its call
  result    \* the bytes that the last read returned

vars == <<log, st, req, result>>

Init ==
  /\ log = <<>> /\ st = "new" /\ result = <<>>
  /\ req = [op |-> "none", off |-> 0, len |-> 0]

Open == st = "new" /\ st' = "idle" /\ UNCHANGED <<log, req, result>>

AppendCall(len) ==
  /\ st = "idle" /\ st' = "busy"
  /\ Len(log) + len <= MaxLog
  /\ req' = [op |-> "append", off |-> Len(log), len |-> len]
  /\ result' = <<>> /\ UNCHANGED log

Append1 ==
  /\ st = "busy" /\ st' = "added" /\ req.op = "append"
  /\ log' = log \o [k \in 1 .. req.len |-> Len(log) + k]
  /\ UNCHANGED <<req, result>>

AppendReturn == st = "added" /\ st' = "idle" /\ UNCHANGED <<log, req, result>>

ReadCall(off, len) ==
  /\ st = "idle" /\ st' = "busy"
  /\ off + len <= Len(log)
  /\ req' = [op |-> "read", off |-> off, len |-> len]
  /\ result' = <<>> /\ UNCHANGED log

ReadReturn ==
  /\ st = "busy" /\ st' = "idle" /\ req.op = "read"
  /\ result' = SubSeq(log, req.off + 1, req.off + req.len)
  /\ UNCHANGED <<log, req>>

Close == st = "idle" /\ st' = "closed" /\ UNCHANGED <<log, req, result>>

Next ==
  \/ Open \/ Append1 \/ AppendReturn \/ ReadReturn \/ Close
  \/ \E len \in AppendLens : AppendCall(len)
  \/ \E off, len \in 0 .. MaxLog : ReadCall(off, len)

Spec == Init /\ [][Next]_vars
=============================================================================

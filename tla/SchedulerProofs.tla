-------------------------- MODULE SchedulerProofs --------------------------
(***************************************************************************)
(* What is proved about Scheduler for every set of threads and every       *)
(* amount of work: first wherever alarms are delivered, then what needs    *)
(* them to be delivered only while a thread's function runs.               *)
(***************************************************************************)
EXTENDS Scheduler, FiniteSetTheorems, FunctionTheorems, TLAPS

(* The types of what the invariants below are about.                       *)
Types ==
  /\ list \in Seq(Threads) /\ curr \in Threads \cup {None} /\ pc \in PC
  /\ status \in [Threads -> {"none", "new", "RUNNING", "SLEEPING", "TERMINATED"}]
  /\ ctx \in [Threads -> Ctx]
  /\ left \in [Threads -> 0 .. Work]

(* scheduler_create() adds one thread to those in the list.                *)
LEMMA CreateAdds ==
  ASSUME list \in Seq(Threads), NEW t \in Threads, Create(t)
  PROVE  Created' = Created \cup {t} /\ list' \in Seq(Threads)
<1>1. list' = <<t>> \o list BY DEF Create
<1>2. /\ Len(list) \in Nat /\ Len(<<t>>) = 1
      /\ list' \in Seq(Threads) /\ Len(list') = Len(list) + 1
      /\ list'[1] = t
      /\ \A i \in 1 .. Len(list) : list'[i + 1] = list[i]
  BY <1>1
<1>3. Created' \subseteq Created \cup {t}
  <2>1. ASSUME NEW i \in 1 .. Len(list') PROVE list'[i] \in Created \cup {t}
    <3>1. CASE i = 1 BY <1>2, <3>1
    <3>2. CASE i # 1
      <4>1. i - 1 \in 1 .. Len(list) /\ i = (i - 1) + 1 BY <1>2, <3>2
      <4>2. list'[i] = list[i - 1] BY <1>2, <4>1
      <4>. QED BY <4>1, <4>2 DEF Created
    <3>. QED BY <3>1, <3>2
  <2>. QED BY <2>1 DEF Created
<1>4. t \in Created' BY <1>2 DEF Created
<1>5. Created \subseteq Created'
  <2>1. ASSUME NEW i \in 1 .. Len(list) PROVE list[i] \in Created'
    <3>1. i + 1 \in 1 .. Len(list') /\ list'[i + 1] = list[i] BY <1>2
    <3>. QED BY <3>1 DEF Created
  <2>. QED BY <2>1 DEF Created
<1>. QED BY <1>2, <1>3, <1>4, <1>5

LEMMA CandidateRunnable ==
  ASSUME Types, NEW t \in thread_candidate
  PROVE  t \in Threads /\ t \in Created /\ status[t] \in {"new", "SLEEPING"}
BY DEF thread_candidate, Runnable, Created, Types

(* Code that runs on a thread's stack has a current thread, and the rest of *)
(* the handler returns to thread code, which was not a handler's.          *)
OnAStack ==
  /\ pc \in ThreadPC => curr \in Threads
  /\ pc = "resumed" => ctx[curr] \in ThreadPC
  /\ \A t \in Threads : ctx[t] # "resumed"

(* Apart, because only Zenon takes Boolean-valued variables.               *)
Flags == armed \in BOOLEAN /\ handler \in BOOLEAN

Passes == passed \in [Threads -> [Threads -> Nat]]

Listed == curr \in Created \cup {None}

LEMMA TypeIs == TypeOK <=> Types /\ Flags /\ Passes /\ Listed
<1>1. list \in Seq(Threads) => Created \subseteq Threads BY DEF Created
<1>. HIDE DEF Created
<1>2. TypeOK => Types BY <1>1, Zenon DEF TypeOK, Types
<1>3. TypeOK => Flags /\ Passes /\ Listed
  BY Zenon DEF TypeOK, Flags, Passes, Listed
<1>4. Types /\ Flags /\ Passes /\ Listed => TypeOK
  BY Zenon DEF TypeOK, Types, Flags, Passes, Listed
<1>. QED BY <1>2, <1>3, <1>4

(* The pointer to the current thread moves to a candidate, and leaves the  *)
(* list with destroy().                                                    *)
LEMMA ListedStep ==
  ASSUME Types, Listed, [Next]_vars
  PROVE  Listed'
<1>1. ASSUME UNCHANGED <<list, curr>> PROVE Listed'
  BY <1>1 DEF Listed, Created
<1>2. ASSUME NEW t \in thread_candidate, curr' = t, list' = list PROVE Listed'
  BY <1>2, CandidateRunnable DEF Listed, Created
<1>3. CASE Start BY <1>2, <1>3 DEF Start
<1>4. CASE Resume BY <1>2, <1>4 DEF Resume
<1>5. CASE Return BY <1>5 DEF Return, Listed
<1>6. ASSUME NEW t \in Threads, Create(t) PROVE Listed'
  <2>1. Created' = Created \cup {t} BY <1>6, CreateAdds DEF Types
  <2>. QED BY <1>6, <2>1 DEF Create, Listed
<1>7. CASE \/ Execute \/ Signal \/ Arm \/ ScheduleNothing \/ Compute
           \/ YieldSave \/ YieldJump \/ Finish \/ FinishJump \/ Alarm
           \/ HandlerReturn
  BY <1>1, <1>7
  DEF Execute, Signal, Arm, ScheduleNothing, Compute, YieldSave, YieldJump,
      Finish, FinishJump, Alarm, HandlerReturn
<1>8. CASE UNCHANGED vars BY <1>1, <1>8 DEF vars
<1>. QED
  BY <1>3, <1>4, <1>5, <1>6, <1>7, <1>8 DEF Next, Step, Ended

LEMMA TypesInit == Init => TypeOK /\ OnAStack
<1>. SUFFICES ASSUME Init PROVE TypeOK /\ OnAStack OBVIOUS
<1>1. Types BY SchedulerAssumption DEF Init, Types, PC, Ctx
<1>2. Flags BY Zenon DEF Init, Flags
<1>3. Passes BY DEF Init, Passes
<1>4. OnAStack BY DEF Init, OnAStack, ThreadPC
<1>5. Listed BY DEF Init, Listed
<1>. QED BY <1>1, <1>2, <1>3, <1>4, <1>5, TypeIs

LEMMA TypesStep ==
  ASSUME TypeOK, OnAStack, [Next]_vars
  PROVE  TypeOK' /\ OnAStack'
<1>1. Types /\ Flags /\ Passes /\ Listed BY TypeIs
<1>2. Flags'
  BY <1>1, Zenon
  DEF Flags, Next, Step, Ended, vars, Execute, Signal, Arm, Start, Resume,
      Return, ScheduleNothing, Compute, YieldSave, YieldJump, Finish,
      FinishJump, Alarm, HandlerReturn, Create
<1>3. ASSUME NEW t \in thread_candidate, Pass(t) PROVE Passes'
  <2>. t \in Threads BY <1>1, CandidateRunnable
  <2>. DEFINE row(u) == IF u = t \/ u \notin Runnable
                        THEN [w \in Threads |-> 0]
                        ELSE [passed[u] EXCEPT ![t] = @ + 1]
  <2>1. ASSUME NEW u \in Threads PROVE row(u) \in [Threads -> Nat]
    <3>1. passed[u] \in [Threads -> Nat] /\ passed[u][t] \in Nat
      BY <1>1 DEF Passes
    <3>2. [passed[u] EXCEPT ![t] = @ + 1] \in [Threads -> Nat] BY <3>1
    <3>. QED BY <3>2
  <2>2. passed' = [u \in Threads |-> row(u)] BY <1>3 DEF Pass
  <2>. HIDE DEF row
  <2>. QED BY <2>1, <2>2 DEF Passes
<1>4. Passes'
  BY <1>1, <1>3
  DEF Passes, Next, Step, Ended, vars, Execute, Signal, Arm, Start, Resume,
      Return, ScheduleNothing, Compute, YieldSave, YieldJump, Finish,
      FinishJump, Alarm, HandlerReturn, Create
<1>5. Types' /\ OnAStack'
  <2>. USE <1>1, SchedulerAssumption DEF PC, SchedulerPC, ThreadPC, Ctx
  <2>1. CASE Execute BY <2>1 DEF Execute, Types, OnAStack
  <2>2. CASE Signal BY <2>2 DEF Signal, Types, OnAStack
  <2>3. CASE Arm BY <2>3 DEF Arm, Types, OnAStack
  <2>4. CASE Start
    <3>. PICK t \in thread_candidate :
           curr' = t /\ status' = [status EXCEPT ![t] = "RUNNING"]
      BY <2>4 DEF Start
    <3>. t \in Threads BY CandidateRunnable
    <3>. QED BY <2>4 DEF Start, Types, OnAStack
  <2>5. CASE Resume
    <3>. PICK t \in thread_candidate :
           /\ curr' = t /\ status' = [status EXCEPT ![t] = "RUNNING"]
           /\ pc' = CASE ctx[t] = "yield" -> "user"
                      [] ctx[t] \in ThreadPC -> "resumed"
                      [] OTHER -> "crashed"
           /\ ctx' = IF ctx[t] = "yield" THEN [ctx EXCEPT ![t] = "dead"] ELSE ctx
      BY <2>5 DEF Resume
    <3>. t \in Threads BY CandidateRunnable
    <3>. UNCHANGED <<list, left>> BY <2>5 DEF Resume
    <3>1. CASE ctx[t] = "yield"
      <4>. pc' = "user" BY <3>1
      <4>. QED BY <3>1 DEF Types, OnAStack
    <3>2. CASE ctx[t] \in ThreadPC
      <4>. pc' = "resumed" /\ ctx' = ctx BY <3>2
      <4>. QED BY <3>2 DEF Types, OnAStack
    <3>3. CASE ctx[t] # "yield" /\ ctx[t] \notin ThreadPC
      <4>. pc' = "crashed" /\ ctx' = ctx BY <3>3
      <4>. QED BY <3>3 DEF Types, OnAStack
    <3>. QED BY <3>1, <3>2, <3>3
  <2>6. CASE Return BY <2>6 DEF Return, Types, OnAStack
  <2>7. CASE ScheduleNothing BY <2>7 DEF ScheduleNothing, Types, OnAStack
  <2>8. CASE Compute BY <2>8 DEF Compute, Types, OnAStack
  <2>9. CASE YieldSave BY <2>9 DEF YieldSave, Types, OnAStack
  <2>10. CASE YieldJump BY <2>10 DEF YieldJump, Types, OnAStack
  <2>11. CASE Finish BY <2>11 DEF Finish, Types, OnAStack
  <2>12. CASE FinishJump BY <2>12 DEF FinishJump, Types, OnAStack
  <2>13. CASE HandlerReturn
    <3>. DEFINE back == ctx[curr]
    <3>1. curr \in Threads /\ back \in ThreadPC /\ back # "resumed"
      BY <2>13 DEF HandlerReturn, OnAStack
    <3>2. pc' = back /\ ctx' = [ctx EXCEPT ![curr] = "dead"]
          /\ UNCHANGED <<list, status, curr, left>>
      BY <2>13 DEF HandlerReturn
    <3>. QED BY <3>1, <3>2 DEF Types, OnAStack
  <2>14. CASE Alarm
    <3>1. pc # "resumed" BY <2>14 DEF Alarm
    <3>. QED BY <2>14, <3>1 DEF Alarm, Types, OnAStack
  <2>15. ASSUME NEW t \in Threads, Create(t) PROVE Types' /\ OnAStack'
    <3>. list' \in Seq(Threads) BY <2>15, CreateAdds DEF Types
    <3>. QED BY <2>15 DEF Create, Types, OnAStack
  <2>16. CASE UNCHANGED vars BY <2>16 DEF vars, Types, OnAStack
  <2>. QED
    BY <2>1, <2>2, <2>3, <2>4, <2>5, <2>6, <2>7, <2>8, <2>9, <2>10, <2>11,
       <2>12, <2>13, <2>14, <2>15, <2>16
    DEF Next, Step, Ended
<1>6. Listed' BY <1>1, ListedStep
<1>7. TypeOK' <=> Types' /\ Flags' /\ Passes' /\ Listed' BY TypeIs, PTL
<1>. QED BY <1>2, <1>4, <1>5, <1>6, <1>7

LEMMA TypesHold == Spec => [](TypeOK /\ OnAStack)
BY TypesInit, TypesStep, PTL DEF Spec

(* Every variable keeps its type, wherever alarms are delivered, and       *)
(* curr_thread is never a thread that is not, or no longer, in the list.   *)
THEOREM TypeCorrect == Spec => []TypeOK
BY TypesHold, PTL
-----------------------------------------------------------------------------
(* The alarm and its handler. *)

HandlerFirst == /\ armed => handler
                /\ pc = "arm" => handler

(* No armed alarm without its handler, whatever the scheduler does next.   *)
LEMMA HandlerStep ==
  ASSUME OnAStack, HandlerFirst, [Next]_vars
  PROVE  HandlerFirst'
<1>1. CASE Signal BY <1>1, Zenon DEF Signal, HandlerFirst
<1>2. CASE Arm
  <2>1. pc' # "arm" BY <1>2 DEF Arm
  <2>2. handler' BY <1>2 DEF Arm, HandlerFirst
  <2>. QED BY <2>1, <2>2 DEF HandlerFirst
<1>3. CASE Alarm
  <2>1. pc' # "arm" BY <1>3 DEF Alarm
  <2>2. ~armed' BY <1>3, Zenon DEF Alarm
  <2>. QED BY <2>1, <2>2 DEF HandlerFirst
<1>4. CASE HandlerReturn
  <2>1. ~armed' BY <1>4, Zenon DEF HandlerReturn
  <2>2. pc' # "arm" BY <1>4 DEF HandlerReturn, OnAStack, ThreadPC
  <2>. QED BY <2>1, <2>2 DEF HandlerFirst
<1>5. ASSUME UNCHANGED <<armed, handler>>, pc' # "arm" \/ pc' = pc
      PROVE  HandlerFirst'
  BY <1>5, Zenon DEF HandlerFirst
<1>6. CASE Execute BY <1>5, <1>6 DEF Execute
<1>7. CASE Start BY <1>5, <1>7 DEF Start
<1>8. CASE Resume BY <1>5, <1>8 DEF Resume
<1>9. CASE Return BY <1>5, <1>9 DEF Return
<1>10. CASE ScheduleNothing BY <1>5, <1>10 DEF ScheduleNothing
<1>11. CASE Compute BY <1>5, <1>11 DEF Compute
<1>12. CASE YieldSave BY <1>5, <1>12 DEF YieldSave
<1>13. CASE YieldJump BY <1>5, <1>13 DEF YieldJump
<1>14. CASE Finish BY <1>5, <1>14 DEF Finish
<1>15. CASE FinishJump BY <1>5, <1>15 DEF FinishJump
<1>16. CASE UNCHANGED vars BY <1>5, <1>16 DEF vars
<1>17. ASSUME NEW t \in Threads, Create(t) PROVE HandlerFirst'
  BY <1>5, <1>17 DEF Create
<1>. QED
  BY <1>1, <1>2, <1>3, <1>4, <1>6, <1>7, <1>8, <1>9, <1>10, <1>11, <1>12,
     <1>13, <1>14, <1>15, <1>16, <1>17
  DEF Next, Step, Ended

(* No SIGALRM arrives while its action is the default, wherever it is      *)
(* delivered: delivery resets the handler, but the alarm is a single one.  *)
THEOREM AlarmsAreHandled == Spec => []AlarmIsHandled
<1>1. Init => HandlerFirst BY Zenon DEF Init, HandlerFirst
<1>2. HandlerFirst => AlarmIsHandled BY Zenon DEF HandlerFirst, AlarmIsHandled
<1>. QED BY <1>1, <1>2, HandlerStep, TypesHold, PTL DEF Spec

-----------------------------------------------------------------------------
(* The round robin. *)

(* The place of curr_thread in the list, and how many threads              *)
(* thread_candidate() looks at before the one at place i.                  *)
Here == IF curr = None THEN 0 ELSE Position(curr)

Distance(i) ==
  IF i > Here THEN i - Here - 1 ELSE Len(list) - Here + i - 1

(* A thread that has had its turn since that of another is further from    *)
(* the next one than the other.                                            *)
Turns ==
  /\ \A i, j \in 1 .. Len(list) : list[i] = list[j] => i = j
  /\ pc = "create" => curr = None /\ \A t, u \in Threads : passed[t][u] = 0
  /\ \A i, j \in 1 .. Len(list) :
       \/ passed[list[i]][list[j]] = 0
       \/ passed[list[i]][list[j]] = 1 /\ Distance(i) < Distance(j)

LEMMA PositionIs ==
  ASSUME NEW i \in 1 .. Len(list),
         \A j, k \in 1 .. Len(list) : list[j] = list[k] => j = k
  PROVE  Position(list[i]) = i
BY DEF Position

LEMMA HereIs ==
  ASSUME TypeOK
  PROVE  Here \in 0 .. Len(list)
<1>1. Len(list) \in Nat BY DEF TypeOK
<1>2. CASE curr = None BY <1>1, <1>2 DEF Here
<1>3. CASE curr # None
  <2>1. PICK i \in 1 .. Len(list) : list[i] = curr
    BY <1>3 DEF TypeOK, Created
  <2>2. Position(curr) \in 1 .. Len(list) BY <2>1 DEF Position
  <2>. QED BY <1>1, <1>3, <2>2 DEF Here
<1>. QED BY <1>2, <1>3

(* The k-th thread that is looked at is k places behind the current one,   *)
(* or as many less the length of the list.                                 *)
LEMMA NthIs ==
  ASSUME TypeOK, Here \in 0 .. Len(list), NEW k \in 1 .. Len(list)
  PROVE  Nth(k) = list[IF Here + k <= Len(list) THEN Here + k
                                                ELSE Here + k - Len(list)]
<1>. DEFINE n == Len(list)
            h == Here
<1>1. n \in Nat /\ n > 0 /\ h \in 0 .. n /\ k \in 1 .. n BY DEF TypeOK
<1>2. Nth(k) = list[((h + k - 1) % n) + 1] BY DEF Nth, Here
<1>. HIDE DEF n, h
<1>3. CASE h + k <= n
  <2>1. (h + k - 1) % n = h + k - 1 BY <1>1, <1>3
  <2>. QED BY <1>1, <1>2, <1>3, <2>1 DEF h, n
<1>4. CASE h + k > n
  <2>. DEFINE m == h + k - 1 - n
  <2>1. m \in 0 .. n - 1 /\ h + k - 1 = m + n BY <1>1, <1>4
  <2>2. (m + n) % n = m BY <1>1, <2>1
  <2>3. ((h + k - 1) % n) + 1 = h + k - n BY <1>1, <2>1, <2>2
  <2>. QED BY <1>1, <1>2, <1>4, <2>3 DEF h, n
<1>. QED BY <1>1, <1>3, <1>4

(* Going round a list of n places: from place h, k further is q; the place *)
(* i is d places behind the one after h, and e behind the one after q.     *)
LEMMA GoingRound ==
  ASSUME NEW n \in Nat, NEW h \in 0 .. n, NEW k \in 1 .. n, NEW i \in 1 .. n,
         NEW q, q = IF h + k <= n THEN h + k ELSE h + k - n,
         NEW d, d = IF i > h THEN i - h - 1 ELSE n - h + i - 1,
         NEW e, e = IF i > q THEN i - q - 1 ELSE n - q + i - 1
  PROVE  /\ q \in 1 .. n /\ d \in 0 .. n - 1 /\ e \in 0 .. n - 1
         /\ i = IF h + (d + 1) <= n THEN h + (d + 1) ELSE h + (d + 1) - n
         /\ d + 1 > k => e = d - k
OBVIOUS

LEMMA RoundInit == Init => Turns
<1>. SUFFICES ASSUME Init PROVE Turns OBVIOUS
<1>1. Len(list) = 0 BY DEF Init
<1>2. curr = None /\ \A t, u \in Threads : passed[t][u] = 0 BY DEF Init
<1>. QED BY <1>1, <1>2 DEF Turns

LEMMA Undisturbed ==
  ASSUME Turns, UNCHANGED <<list, curr, passed>>, pc' # "create" \/ pc' = pc
  PROVE  Turns'
<1>1. \A i : Distance(i)' = Distance(i) BY DEF Distance, Here, Position
<1>. QED BY <1>1 DEF Turns

LEMMA DispatchTurns ==
  ASSUME TypeOK, Turns, NEW t \in thread_candidate, curr' = t, Pass(t),
         list' = list, pc' # "create"
  PROVE  Turns'
<1>. DEFINE n == Len(list)
            h == Here
<1>0. Types BY TypeIs
<1>1. t \in Threads /\ t \in Created BY <1>0, CandidateRunnable
<1>2. t # None BY <1>1, SchedulerAssumption
<1>3. h \in 0 .. n /\ n \in Nat BY HereIs DEF TypeOK
<1>4. PICK k \in 1 .. n :
        t = Nth(k) /\ \A j \in 1 .. k - 1 : Nth(j) \notin Runnable
  BY DEF thread_candidate
<1>. DEFINE q == IF h + k <= n THEN h + k ELSE h + k - n
<1>5. q \in 1 .. n /\ t = list[q]
  <2>1. q \in 1 .. n BY <1>3
  <2>. QED BY <1>3, <1>4, <2>1, NthIs
<1>6. Here' = q
  <2>1. Position(t) = q BY <1>5, PositionIs DEF Turns
  <2>2. Position(t)' = Position(t) BY DEF Position
  <2>. QED BY <1>2, <2>1, <2>2 DEF Here, Position
<1>7. ASSUME NEW i \in 1 .. n
      PROVE  /\ Distance(i) \in 0 .. n - 1 /\ Distance(i)' \in 0 .. n - 1
             /\ list[i] # t /\ list[i] \in Runnable =>
                  Distance(i) >= k /\ Distance(i)' = Distance(i) - k
             /\ Distance(i) >= k => Distance(i)' = Distance(i) - k
             /\ list[i] = t => Distance(i)' = n - 1
  <2>. DEFINE d == Distance(i)
              e == Distance(i)'
  <2>1. d = IF i > h THEN i - h - 1 ELSE n - h + i - 1 BY DEF Distance
  <2>2. e = IF i > q THEN i - q - 1 ELSE n - q + i - 1 BY <1>6 DEF Distance
  <2>3. list[i] = t => i = q BY <1>5 DEF Turns
  <2>. HIDE DEF n, h, q, d, e
  <2>4. /\ d \in 0 .. n - 1 /\ e \in 0 .. n - 1
        /\ i = IF h + (d + 1) <= n THEN h + (d + 1) ELSE h + (d + 1) - n
        /\ d + 1 > k => e = d - k
    BY <1>3, <2>1, <2>2, GoingRound DEF q
  <2>5. Nth(d + 1) = list[i]
    <3>1. d + 1 \in 1 .. n BY <1>3, <2>4
    <3>2. Nth(d + 1) = list[IF h + (d + 1) <= n THEN h + (d + 1)
                                                ELSE h + (d + 1) - n]
      BY <1>3, <3>1, NthIs DEF n, h
    <3>. QED BY <2>4, <3>2
  <2>6. list[i] # t /\ list[i] \in Runnable => d >= k
    <3>. SUFFICES ASSUME list[i] # t, list[i] \in Runnable PROVE d >= k
      OBVIOUS
    <3>1. d + 1 # k /\ d + 1 \notin 1 .. k - 1 BY <1>4, <2>5
    <3>. QED BY <1>3, <2>4, <3>1
  <2>7. list[i] = t => e = n - 1 BY <1>3, <1>5, <2>2, <2>3
  <2>8. d >= k => e = d - k BY <1>3, <2>4
  <2>. QED BY <2>4, <2>6, <2>7, <2>8 DEF n, d, e
<1>8. ASSUME NEW i \in 1 .. n, NEW j \in 1 .. n
      PROVE  \/ passed'[list[i]][list[j]] = 0
             \/ passed'[list[i]][list[j]] = 1 /\ Distance(i)' < Distance(j)'
  <2>. DEFINE u == list[i]
              w == list[j]
              di == Distance(i)
              dj == Distance(j)
              ei == Distance(i)'
              ej == Distance(j)'
  <2>1. u \in Threads /\ w \in Threads BY <1>3 DEF TypeOK
  <2>2. passed[u] \in [Threads -> Nat] BY <2>1 DEF TypeOK
  <2>3. passed'[u] = IF u = t \/ u \notin Runnable THEN [x \in Threads |-> 0]
                     ELSE [passed[u] EXCEPT ![t] = @ + 1]
    BY <2>1 DEF Pass
  <2>4. CASE u = t \/ u \notin Runnable
    BY <2>1, <2>3, <2>4
  <2>5. CASE u # t /\ u \in Runnable
    <3>1. passed'[u] = [passed[u] EXCEPT ![t] = @ + 1] BY <2>3, <2>5
    <3>2. di \in 0 .. n - 1 /\ ei \in 0 .. n - 1 /\ di >= k /\ ei = di - k
      BY <1>7, <2>5
    <3>3. /\ dj \in 0 .. n - 1 /\ (dj >= k => ej = dj - k)
          /\ (w = t => ej = n - 1)
      BY <1>7
    <3>4. passed[u][w] = 0 \/ (passed[u][w] = 1 /\ di < dj) BY DEF Turns
    <3>. HIDE DEF u, w, di, dj, ei, ej
    <3>5. CASE w = t
      <4>1. dj <= k - 1
        <5>1. Nth(k) = list[q] BY <1>4, <1>5
        <5>2. j = q BY <1>5, <3>5 DEF Turns, w
        <5>3. dj = IF q > h THEN q - h - 1 ELSE n - h + q - 1
          BY <5>2 DEF Distance, dj
        <5>. QED BY <1>3, <1>4, <5>3
      <4>2. passed[u][t] = 0 BY <1>3, <3>2, <3>3, <3>4, <3>5, <4>1
      <4>3. passed'[u][w] = 1 BY <1>1, <2>2, <3>1, <3>5, <4>2
      <4>4. ei < ej BY <1>3, <3>2, <3>3, <3>5
      <4>. QED BY <4>3, <4>4 DEF u, w, ei, ej
    <3>6. CASE w # t
      <4>1. passed'[u][w] = passed[u][w] BY <2>1, <2>2, <3>1, <3>6
      <4>2. di < dj => ei < ej BY <1>3, <3>2, <3>3
      <4>. QED BY <3>4, <4>1, <4>2 DEF u, w, ei, ej
    <3>. QED BY <3>5, <3>6
  <2>. QED BY <2>4, <2>5
<1>. QED BY <1>8 DEF Turns

LEMMA CreateTurns ==
  ASSUME TypeOK, Turns, NEW t \in Threads, Create(t)
  PROVE  Turns'
<1>. DEFINE n == Len(list)
<1>1. n \in Nat /\ list \in Seq(Threads) BY DEF TypeOK
<1>2. list' = <<t>> \o list BY DEF Create
<1>3. /\ Len(list') = n + 1 /\ list'[1] = t
      /\ \A i \in 2 .. n + 1 : list'[i] = list[i - 1]
  BY <1>1, <1>2
<1>4. curr' = None /\ pc' = pc /\ passed' = passed
      /\ \A u, w \in Threads : passed[u][w] = 0
  BY DEF Create, Turns
<1>5. t \notin Created BY DEF Create
<1>6. ASSUME NEW i \in 1 .. n + 1, NEW j \in 1 .. n + 1, list'[i] = list'[j]
      PROVE  i = j
  <2>1. \A m \in 2 .. n + 1 : list'[m] # t
    BY <1>1, <1>3, <1>5 DEF Created
  <2>2. CASE i = 1 \/ j = 1 BY <1>1, <1>3, <1>6, <2>1, <2>2
  <2>3. CASE i # 1 /\ j # 1
    <3>1. i - 1 \in 1 .. n /\ j - 1 \in 1 .. n BY <1>1, <2>3
    <3>2. list[i - 1] = list[j - 1] BY <1>1, <1>3, <1>6, <2>3
    <3>3. i - 1 = j - 1 BY <3>1, <3>2 DEF Turns
    <3>. QED BY <1>1, <3>3
  <2>. QED BY <2>2, <2>3
<1>7. ASSUME NEW i \in 1 .. n + 1 PROVE list'[i] \in Threads
  <2>1. CASE i = 1 BY <1>3, <2>1
  <2>2. CASE i # 1 BY <1>1, <1>3, <2>2
  <2>. QED BY <2>1, <2>2
<1>. QED BY <1>3, <1>4, <1>6, <1>7 DEF Turns

LEMMA TurnsStep ==
  ASSUME TypeOK, OnAStack, Turns, [Next]_vars
  PROVE  Turns'
<1>1. CASE Start BY <1>1, DispatchTurns DEF Start
<1>2. CASE Resume
  <2>. PICK t \in thread_candidate :
         /\ curr' = t /\ Pass(t)
         /\ pc' = CASE ctx[t] = "yield" -> "user"
                    [] ctx[t] \in ThreadPC -> "resumed"
                    [] OTHER -> "crashed"
    BY <1>2 DEF Resume
  <2>1. pc' \in {"user", "resumed", "crashed"} BY Zenon
  <2>2. pc' # "create" BY <2>1
  <2>3. list' = list BY <1>2 DEF Resume
  <2>. QED BY <2>2, <2>3, DispatchTurns
<1>3. CASE Return
  <2>1. list' = <<>> /\ Len(list') = 0 /\ curr' = None /\ pc' = "returned"
    BY <1>3 DEF Return
  <2>. QED BY <2>1 DEF Turns
<1>4. ASSUME NEW t \in Threads, Create(t) PROVE Turns' BY <1>4, CreateTurns
<1>5. CASE HandlerReturn
  <2>1. pc' \in ThreadPC BY <1>5 DEF HandlerReturn, OnAStack
  <2>2. pc' # "create" BY <2>1 DEF ThreadPC
  <2>. QED BY <1>5, <2>2, Undisturbed DEF HandlerReturn
<1>6. CASE \/ Execute \/ Signal \/ Arm \/ ScheduleNothing \/ Compute
           \/ YieldSave \/ YieldJump \/ Finish \/ FinishJump \/ Alarm
  <2>1. UNCHANGED <<list, curr, passed>> /\ (pc' # "create" \/ pc' = pc)
    BY <1>6
    DEF Execute, Signal, Arm, ScheduleNothing, Compute, YieldSave, YieldJump,
        Finish, FinishJump, Alarm
  <2>. QED BY <2>1, Undisturbed
<1>7. CASE UNCHANGED vars BY <1>7, Undisturbed DEF vars
<1>. QED
  BY <1>1, <1>2, <1>3, <1>4, <1>5, <1>6, <1>7 DEF Next, Step, Ended

(* thread_candidate() is a round robin, for every number of threads and    *)
(* wherever they are preempted: between two turns of a thread that can run *)
(* every other thread gets at most one.                                    *)
THEOREM TurnsAreFair == Spec => []RoundRobin
<1>1. Spec => []Turns
  BY RoundInit, TurnsStep, TypesHold, PTL DEF Spec
<1>2. Turns => RoundRobin
  <2>. SUFFICES ASSUME Turns, NEW t \in Runnable, NEW u \in Created
                PROVE  passed[t][u] <= 1
    BY DEF RoundRobin
  <2>1. PICK i \in 1 .. Len(list) : t = list[i] BY DEF Runnable, Created
  <2>2. PICK j \in 1 .. Len(list) : u = list[j] BY DEF Created
  <2>3. passed[t][u] \in {0, 1} BY <2>1, <2>2 DEF Turns
  <2>. QED BY <2>3
<1>. QED BY <1>1, <1>2, PTL
-----------------------------------------------------------------------------
(* Resuming. *)

(* Where an alarm spoils what is saved of a thread: between its setjmp()   *)
(* and longjmp(), and from there to the next alarm(1).                     *)
Windows == {"landed", "arm", "yield_saved"}

(* A sleeping thread's ctx, and what the code on the CPU has saved or is   *)
(* about to return to, is of a frame on the thread's stack that is alive.  *)
Resumable ==
  /\ \A t \in Threads :
       status[t] = "SLEEPING" => ctx[t] \in {"yield", "user", "term_set"}
  /\ pc \in ThreadPC => curr \in Threads /\ status[curr] # "SLEEPING"
  /\ pc = "yield_saved" => ctx[curr] = "yield"
  /\ pc = "resumed" => ctx[curr] \in {"user", "term_set"}

SpoilingAlarm == Alarm /\ pc \in Windows

LEMMA ResumableStep ==
  ASSUME Types, Resumable, [Next]_vars, ~SpoilingAlarm
  PROVE  Resumable'
<1>. USE SchedulerAssumption DEF ThreadPC
<1>1. ASSUME UNCHANGED <<status, ctx, curr>>, pc' = pc \/ pc' \notin ThreadPC
      PROVE  Resumable'
  BY <1>1 DEF Resumable
<1>2. CASE \/ Execute \/ Signal \/ Arm \/ ScheduleNothing \/ Compute
           \/ FinishJump
  BY <1>1, <1>2 DEF Execute, Signal, Arm, ScheduleNothing, Compute, FinishJump
<1>3. CASE Start
  <2>. PICK t \in thread_candidate :
         curr' = t /\ status' = [status EXCEPT ![t] = "RUNNING"]
    BY <1>3 DEF Start
  <2>. t \in Threads BY CandidateRunnable
  <2>. QED BY <1>3 DEF Start, Types, Resumable
<1>4. CASE Resume
  <2>. PICK t \in thread_candidate :
         /\ curr' = t /\ status' = [status EXCEPT ![t] = "RUNNING"]
         /\ status[t] = "SLEEPING"
         /\ pc' = CASE ctx[t] = "yield" -> "user"
                    [] ctx[t] \in ThreadPC -> "resumed"
                    [] OTHER -> "crashed"
         /\ ctx' = IF ctx[t] = "yield" THEN [ctx EXCEPT ![t] = "dead"] ELSE ctx
    BY <1>4 DEF Resume
  <2>. t \in Threads BY CandidateRunnable
  <2>. ctx[t] \in {"yield", "user", "term_set"} BY DEF Resumable
  <2>. pc' = IF ctx[t] = "yield" THEN "user" ELSE "resumed" OBVIOUS
  <2>. QED BY DEF Types, Resumable
<1>5. CASE Return BY <1>5 DEF Return, Types, Resumable
<1>6. CASE YieldSave BY <1>6 DEF YieldSave, Types, Resumable
<1>7. CASE YieldJump BY <1>7 DEF YieldJump, Types, Resumable
<1>8. CASE Finish BY <1>8 DEF Finish, Types, Resumable
<1>9. CASE HandlerReturn BY <1>9 DEF HandlerReturn, Types, Resumable
<1>10. CASE Alarm
  <2>1. pc \in {"user", "term_set"}
    BY <1>10 DEF Alarm, SpoilingAlarm, Windows
  <2>2. curr \in Threads BY <2>1 DEF Resumable
  <2>3. /\ pc' = "landed" /\ curr' = curr
        /\ ctx' = [ctx EXCEPT ![curr] = pc]
        /\ status' = [status EXCEPT ![curr] = "SLEEPING"]
    BY <1>10, <2>1, <2>2 DEF Alarm
  <2>. QED BY <2>1, <2>2, <2>3 DEF Types, Resumable
<1>11. ASSUME NEW t \in Threads, Create(t) PROVE Resumable'
  BY <1>11 DEF Create, Types, Resumable
<1>12. CASE UNCHANGED vars BY <1>1, <1>12 DEF vars
<1>. QED
  BY <1>2, <1>3, <1>4, <1>5, <1>6, <1>7, <1>8, <1>9, <1>10, <1>11, <1>12
  DEF Next, Step, Ended

(* Wherever alarms are delivered, only one thing spoils what is saved of a *)
(* thread: an alarm between its setjmp() and longjmp(), or between that    *)
(* and the next alarm(1).                                                  *)
THEOREM OnlyWindowsSpoil ==
  Spec => [][Resumable => Resumable' \/ SpoilingAlarm]_vars
<1>1. TypeOK /\ [Next]_vars => [Resumable => Resumable' \/ SpoilingAlarm]_vars
  BY ResumableStep, TypeIs
<1>. QED BY <1>1, TypesHold, PTL DEF Spec

(* As long as no alarm is delivered there, schedule() never longjmp()s     *)
(* into a frame that is gone: the ctx of a sleeping thread is of a         *)
(* scheduler_yield() that has not returned, on the thread's own stack.     *)
(* The code does not see to that; it is a matter of timing.                *)
THEOREM ResumesAreSound ==
  ASSUME AlarmAt \cap Windows = {} PROVE Spec => []SleepersCanResume
<1>1. Init => Resumable BY DEF Init, Resumable, ThreadPC
<1>2. TypeOK /\ Resumable /\ [Next]_vars => Resumable'
  <2>1. ~SpoilingAlarm BY DEF SpoilingAlarm, Alarm
  <2>. QED BY <2>1, ResumableStep, TypeIs
<1>3. Resumable => SleepersCanResume
  BY DEF Resumable, SleepersCanResume, ThreadPC
<1>. QED BY <1>1, <1>2, <1>3, TypesHold, PTL DEF Spec
-----------------------------------------------------------------------------
(* Alarms in the threads' functions only. *)

AlarmInUserCode == AlarmAt \subseteq {"user"}

(* A thread has a status from its creation until destroy().                *)
StatusOfCreated ==
  pc # "returned" => \A t \in Threads : status[t] # "none" <=> t \in Created

(* What the code on the CPU has already saved, or is about to return to.   *)
SavedCtx ==
  /\ pc \in ThreadPC => curr \in Threads
  /\ pc = "yield_saved" => ctx[curr] = "yield"
  /\ pc = "resumed" => ctx[curr] = "user"
  /\ \A t \in Threads : status[t] = "SLEEPING" => ctx[t] \in {"yield", "user"}

DoneIsDone == \A t \in Threads : status[t] = "TERMINATED" => left[t] = 0

Threading ==
  /\ Types /\ RunningIsCurrent /\ StatusOfCreated /\ SavedCtx /\ DoneIsDone
  /\ ReturnsWhenAllDone

LEMMA ThreadingInit == Init => Threading
<1>. SUFFICES ASSUME Init PROVE Threading OBVIOUS
<1>1. Types
  BY SchedulerAssumption DEF Init, Types, PC, Ctx
<1>2. Created = {} BY DEF Init, Created
<1>. QED
  BY <1>1, <1>2
  DEF Init, Threading, RunningIsCurrent, StatusOfCreated, SavedCtx,
      DoneIsDone, ReturnsWhenAllDone, ThreadPC

(* A dispatched thread is on the CPU, and the others are as before.        *)
LEMMA Dispatched ==
  ASSUME Types, RunningIsCurrent, pc = "schedule", NEW t \in Threads,
         status' = [status EXCEPT ![t] = "RUNNING"], curr' = t,
         pc' \in {"user", "resumed"}
  PROVE  RunningIsCurrent'
<1>1. \A u \in Threads : status[u] # "RUNNING" BY DEF RunningIsCurrent
<1>2. \A u \in Threads : status'[u] = IF u = t THEN "RUNNING" ELSE status[u]
  BY DEF Types
<1>. QED BY <1>1, <1>2 DEF RunningIsCurrent

(* The statuses, the saved contexts and the current thread agree after     *)
(* every step of a thread, of the scheduler and of the handler.            *)
LEMMA ThreadingStep ==
  ASSUME AlarmInUserCode, Threading, [Next]_vars
  PROVE  Threading'
<1>. USE SchedulerAssumption DEF PC, SchedulerPC, ThreadPC, Ctx
<1>1. CASE Execute
  BY <1>1
  DEF Execute, Threading, Types, RunningIsCurrent, StatusOfCreated, Created,
      SavedCtx, DoneIsDone, ReturnsWhenAllDone
<1>2. CASE Signal
  BY <1>2
  DEF Signal, Threading, Types, RunningIsCurrent, StatusOfCreated, Created,
      SavedCtx, DoneIsDone, ReturnsWhenAllDone
<1>3. CASE Arm
  BY <1>3
  DEF Arm, Threading, Types, RunningIsCurrent, StatusOfCreated, Created,
      SavedCtx, DoneIsDone, ReturnsWhenAllDone
<1>4. CASE Start
  <2>. PICK t \in thread_candidate :
         /\ curr' = t /\ status' = [status EXCEPT ![t] = "RUNNING"]
         /\ status[t] = "new"
    BY <1>4 DEF Start
  <2>. t \in Threads BY CandidateRunnable DEF Threading
  <2>. pc = "schedule" /\ pc' = "user" /\ UNCHANGED <<list, ctx, left>>
    BY <1>4 DEF Start
  <2>1. Types' BY DEF Threading, Types
  <2>2. RunningIsCurrent' BY Dispatched DEF Threading
  <2>3. StatusOfCreated' BY DEF Threading, Types, StatusOfCreated, Created
  <2>4. SavedCtx' BY DEF Threading, Types, SavedCtx
  <2>5. DoneIsDone' /\ ReturnsWhenAllDone'
    BY DEF Threading, Types, DoneIsDone, ReturnsWhenAllDone
  <2>. QED BY <2>1, <2>2, <2>3, <2>4, <2>5 DEF Threading
<1>5. CASE Resume
  <2>. PICK t \in thread_candidate :
         /\ curr' = t /\ status' = [status EXCEPT ![t] = "RUNNING"]
         /\ status[t] = "SLEEPING"
         /\ pc' = CASE ctx[t] = "yield" -> "user"
                    [] ctx[t] \in ThreadPC -> "resumed"
                    [] OTHER -> "crashed"
         /\ ctx' = IF ctx[t] = "yield" THEN [ctx EXCEPT ![t] = "dead"] ELSE ctx
    BY <1>5 DEF Resume
  <2>. t \in Threads BY CandidateRunnable DEF Threading
  <2>. pc = "schedule" /\ UNCHANGED <<list, left>> BY <1>5 DEF Resume
  <2>. ctx[t] \in {"yield", "user"} BY DEF Threading, SavedCtx
  <2>. pc' = IF ctx[t] = "yield" THEN "user" ELSE "resumed" OBVIOUS
  <2>1. Types' BY DEF Threading, Types
  <2>2. RunningIsCurrent' BY Dispatched DEF Threading
  <2>3. StatusOfCreated' BY DEF Threading, Types, StatusOfCreated, Created
  <2>4. SavedCtx' BY DEF Threading, Types, SavedCtx
  <2>5. DoneIsDone' /\ ReturnsWhenAllDone'
    BY DEF Threading, Types, DoneIsDone, ReturnsWhenAllDone
  <2>. QED BY <2>1, <2>2, <2>3, <2>4, <2>5 DEF Threading
<1>6. CASE Return
  <2>1. Types' BY <1>6 DEF Threading, Types, Return, RunningIsCurrent, SavedCtx
  <2>2. RunningIsCurrent'
    BY <1>6 DEF Threading, Types, Return, RunningIsCurrent, SavedCtx
  <2>3. StatusOfCreated'
    BY <1>6
    DEF Threading, Types, Return, RunningIsCurrent, StatusOfCreated, Created
  <2>4. SavedCtx'
    BY <1>6 DEF Threading, Types, Return, RunningIsCurrent, SavedCtx
  <2>5. DoneIsDone' BY <1>6 DEF Threading, Return, DoneIsDone
  <2>6. ReturnsWhenAllDone'
    <3>. SUFFICES ASSUME NEW t \in Threads, status[t] # "none"
                  PROVE  status[t] = "TERMINATED" /\ left[t] = 0
      BY <1>6 DEF Return, ReturnsWhenAllDone
    <3>1. t \in Created BY <1>6 DEF Return, Threading, StatusOfCreated
    <3>2. status[t] \notin {"new", "SLEEPING"}
      BY <1>6, <3>1 DEF Return, Runnable
    <3>3. status[t] # "RUNNING"
      BY <1>6 DEF Return, Threading, RunningIsCurrent
    <3>4. status[t] = "TERMINATED"
      BY <3>2, <3>3 DEF Threading, Types
    <3>. QED BY <3>4 DEF Threading, DoneIsDone
  <2>. QED BY <2>1, <2>2, <2>3, <2>4, <2>5, <2>6 DEF Threading
<1>7. CASE ScheduleNothing
  BY <1>7
  DEF ScheduleNothing, Threading, Types, RunningIsCurrent, StatusOfCreated,
        Created,
      SavedCtx, DoneIsDone, ReturnsWhenAllDone
<1>8. CASE Compute
  <2>1. Types'
    BY <1>8 DEF Threading, Types, Compute, RunningIsCurrent, SavedCtx
  <2>2. RunningIsCurrent'
    BY <1>8 DEF Threading, Types, Compute, RunningIsCurrent, SavedCtx
  <2>3. StatusOfCreated'
    BY <1>8
    DEF Threading, Types, Compute, RunningIsCurrent, StatusOfCreated, Created
  <2>4. SavedCtx'
    BY <1>8 DEF Threading, Types, Compute, RunningIsCurrent, SavedCtx
  <2>5. DoneIsDone' /\ ReturnsWhenAllDone'
    BY <1>8
    DEF Threading, Types, Compute, RunningIsCurrent, DoneIsDone,
        ReturnsWhenAllDone
  <2>. QED BY <2>1, <2>2, <2>3, <2>4, <2>5 DEF Threading
<1>9. CASE YieldSave
  <2>1. Types'
    BY <1>9 DEF Threading, Types, YieldSave, RunningIsCurrent, SavedCtx
  <2>2. RunningIsCurrent'
    BY <1>9 DEF Threading, Types, YieldSave, RunningIsCurrent, SavedCtx
  <2>3. StatusOfCreated'
    BY <1>9
    DEF Threading, Types, YieldSave, RunningIsCurrent, StatusOfCreated, Created
  <2>4. SavedCtx'
    BY <1>9 DEF Threading, Types, YieldSave, RunningIsCurrent, SavedCtx
  <2>5. DoneIsDone' /\ ReturnsWhenAllDone'
    BY <1>9
    DEF Threading, Types, YieldSave, RunningIsCurrent, DoneIsDone,
        ReturnsWhenAllDone
  <2>. QED BY <2>1, <2>2, <2>3, <2>4, <2>5 DEF Threading
<1>10. CASE YieldJump
  <2>1. Types'
    BY <1>10 DEF Threading, Types, YieldJump, RunningIsCurrent, SavedCtx
  <2>2. RunningIsCurrent'
    BY <1>10 DEF Threading, Types, YieldJump, RunningIsCurrent, SavedCtx
  <2>3. StatusOfCreated'
    BY <1>10
    DEF Threading, Types, YieldJump, RunningIsCurrent, StatusOfCreated, Created
  <2>4. SavedCtx'
    BY <1>10 DEF Threading, Types, YieldJump, RunningIsCurrent, SavedCtx
  <2>5. DoneIsDone' /\ ReturnsWhenAllDone'
    BY <1>10
    DEF Threading, Types, YieldJump, RunningIsCurrent, DoneIsDone,
        ReturnsWhenAllDone
  <2>. QED BY <2>1, <2>2, <2>3, <2>4, <2>5 DEF Threading
<1>11. CASE Finish
  <2>1. Types'
    BY <1>11 DEF Threading, Types, Finish, RunningIsCurrent, SavedCtx
  <2>2. RunningIsCurrent'
    BY <1>11 DEF Threading, Types, Finish, RunningIsCurrent, SavedCtx
  <2>3. StatusOfCreated'
    BY <1>11
    DEF Threading, Types, Finish, RunningIsCurrent, StatusOfCreated, Created
  <2>4. SavedCtx'
    BY <1>11 DEF Threading, Types, Finish, RunningIsCurrent, SavedCtx
  <2>5. DoneIsDone' /\ ReturnsWhenAllDone'
    BY <1>11
    DEF Threading, Types, Finish, RunningIsCurrent, DoneIsDone,
        ReturnsWhenAllDone
  <2>. QED BY <2>1, <2>2, <2>3, <2>4, <2>5 DEF Threading
<1>12. CASE FinishJump
  <2>1. Types'
    BY <1>12 DEF Threading, Types, FinishJump, RunningIsCurrent, SavedCtx
  <2>2. RunningIsCurrent'
    BY <1>12 DEF Threading, Types, FinishJump, RunningIsCurrent, SavedCtx
  <2>3. StatusOfCreated'
    BY <1>12
    DEF Threading, Types, FinishJump, RunningIsCurrent, StatusOfCreated, Created
  <2>4. SavedCtx'
    BY <1>12 DEF Threading, Types, FinishJump, RunningIsCurrent, SavedCtx
  <2>5. DoneIsDone' /\ ReturnsWhenAllDone'
    BY <1>12
    DEF Threading, Types, FinishJump, RunningIsCurrent, DoneIsDone,
        ReturnsWhenAllDone
  <2>. QED BY <2>1, <2>2, <2>3, <2>4, <2>5 DEF Threading
<1>13. CASE HandlerReturn
  <2>1. Types'
    BY <1>13 DEF Threading, Types, HandlerReturn, RunningIsCurrent, SavedCtx
  <2>2. RunningIsCurrent'
    BY <1>13 DEF Threading, Types, HandlerReturn, RunningIsCurrent, SavedCtx
  <2>3. StatusOfCreated'
    BY <1>13
    DEF Threading, Types, HandlerReturn, RunningIsCurrent, StatusOfCreated,
        Created
  <2>4. SavedCtx'
    BY <1>13 DEF Threading, Types, HandlerReturn, RunningIsCurrent, SavedCtx
  <2>5. DoneIsDone' /\ ReturnsWhenAllDone'
    BY <1>13
    DEF Threading, Types, HandlerReturn, RunningIsCurrent, DoneIsDone,
        ReturnsWhenAllDone
  <2>. QED BY <2>1, <2>2, <2>3, <2>4, <2>5 DEF Threading
<1>14. CASE Alarm
  <2>. pc = "user" BY <1>14 DEF Alarm, AlarmInUserCode
  <2>. curr \in Threads BY DEF Threading, RunningIsCurrent
  <2>. /\ pc' = "landed" /\ UNCHANGED <<list, curr, left>>
       /\ ctx' = [ctx EXCEPT ![curr] = "user"]
       /\ status' = [status EXCEPT ![curr] = "SLEEPING"]
    BY <1>14 DEF Alarm
  <2>1. Types' BY DEF Threading, Types
  <2>2. RunningIsCurrent' BY DEF Threading, Types, RunningIsCurrent
  <2>3. StatusOfCreated'
    BY DEF Threading, Types, RunningIsCurrent, StatusOfCreated, Created
  <2>4. SavedCtx' BY DEF Threading, Types, RunningIsCurrent, SavedCtx
  <2>5. DoneIsDone' /\ ReturnsWhenAllDone'
    BY DEF Threading, Types, DoneIsDone, ReturnsWhenAllDone
  <2>. QED BY <2>1, <2>2, <2>3, <2>4, <2>5 DEF Threading
<1>15. ASSUME NEW t \in Threads, Create(t) PROVE Threading'
  <2>. list \in Seq(Threads) BY DEF Threading, Types
  <2>. Created' = Created \cup {t} /\ list' \in Seq(Threads)
    BY <1>15, CreateAdds
  <2>. QED
    BY <1>15
    DEF Threading, Types, Create, RunningIsCurrent, StatusOfCreated, SavedCtx,
        DoneIsDone, ReturnsWhenAllDone
<1>16. CASE UNCHANGED vars
  BY <1>16 DEF vars, Threading, Types, RunningIsCurrent, StatusOfCreated,
     Created, SavedCtx, DoneIsDone, ReturnsWhenAllDone
<1>. QED
  BY <1>1, <1>2, <1>3, <1>4, <1>5, <1>6, <1>7, <1>8, <1>9, <1>10, <1>11,
     <1>12, <1>13, <1>14, <1>15, <1>16
  DEF Next, Step, Ended

LEMMA ThreadingAlways == AlarmInUserCode => (Spec => []Threading)
<1>. SUFFICES ASSUME AlarmInUserCode PROVE Spec => []Threading OBVIOUS
<1>. QED BY ThreadingInit, ThreadingStep, PTL DEF Spec

(* However threads yield, finish and are preempted in their functions, at  *)
(* most one thread is RUNNING, it is the one on the CPU, and none is left  *)
(* RUNNING for schedule() to overlook.                                     *)
THEOREM OneRunning == AlarmInUserCode => (Spec => []RunningIsCurrent)
<1>. SUFFICES ASSUME AlarmInUserCode PROVE Spec => []RunningIsCurrent OBVIOUS
<1>1. Threading => RunningIsCurrent BY DEF Threading
<1>. QED BY <1>1, ThreadingAlways, PTL

(* scheduler_execute() does not return before every thread that was        *)
(* created has done all its work.                                          *)
THEOREM ReturnsAtTheEnd == AlarmInUserCode => (Spec => []ReturnsWhenAllDone)
<1>. SUFFICES ASSUME AlarmInUserCode PROVE Spec => []ReturnsWhenAllDone OBVIOUS
<1>1. Threading => ReturnsWhenAllDone BY DEF Threading
<1>. QED BY <1>1, ThreadingAlways, PTL
=============================================================================

----------------------------- MODULE CronProofs ------------------------------
(* Proofs about Cron for every number of callers, tasks, jobs and minutes,  *)
(* and about CronSchedule for every line and time.                          *)
EXTENDS Cron, FiniteSetTheorems, TLAPS

-----------------------------------------------------------------------------
(* Types.                                                                  *)

LEMMA DeadTyped == Dead \in LoopState /\ \A out \in BOOLEAN : Fresh(out) \in LoopState
<1> DEFINE none == <<>>  runs == Seq(Nat)  minutes == 0..MaxMinute
<1>1. none \in runs /\ 0 \in minutes
  BY CronAssumption DEF CronAssumption
<1>2. ASSUME NEW at \in Places, NEW out \in BOOLEAN
      PROVE  [at |-> at, out |-> out, last |-> 0, due |-> {}, i |-> 0, ran |-> none]
               \in [at : Places, out : BOOLEAN, last : minutes,
                    due : SUBSET Jobs, i : Nat, ran : runs]
  <2> HIDE DEF none, runs, minutes
  <2> QED BY <1>1
<1>3. ASSUME NEW at \in Places, NEW out \in BOOLEAN
      PROVE  NewTask(at, out) \in LoopState
  BY <1>2 DEF LoopState, NewTask
<1>4. "dead" \in Places /\ "head" \in Places
  BY DEF Places
<1> QED BY <1>3, <1>4 DEF Dead, Fresh

\* The updates of a task's record keep its type.
LEMMA Moved ==
  ASSUME NEW r \in LoopState, NEW p \in Places, NEW n \in Nat
  PROVE  /\ [r EXCEPT !.at = p] \in LoopState
         /\ [r EXCEPT !.i = n] \in LoopState
         /\ [r EXCEPT !.at = p, !.i = n] \in LoopState
  BY DEF LoopState

LEMMA Ran ==
  ASSUME NEW r \in LoopState, NEW p \in Places, NEW s \in Seq(Nat)
  PROVE  [r EXCEPT !.at = p, !.ran = s] \in LoopState
  BY DEF LoopState

LEMMA Began ==
  ASSUME NEW r \in LoopState, NEW p \in Places, NEW m \in 0..MaxMinute,
         NEW d \in SUBSET Jobs, NEW n \in Nat, NEW s \in Seq(Nat)
  PROVE  [r EXCEPT !.at = p, !.last = m, !.due = d, !.i = n, !.ran = s] \in LoopState
  BY DEF LoopState

LEMMA TypeInit == Init => TypeOK
<1> USE CronAssumption DEF CronAssumption
<1> SUFFICES ASSUME Init PROVE TypeOK
  OBVIOUS
<1>1. loop \in [Loops -> LoopState]
  BY DeadTyped DEF Init
<1>2. table \in Crontabs /\ file \in Crontabs
  BY DEF Init
<1>3. buffer \in [Users -> Crontabs]
  BY DEF Init
<1>4. upc \in [Users -> UserPlaces]
  BY DEF Init, UserPlaces
<1>5. minute \in 0..MaxMinute /\ due \in SUBSET Jobs /\ served \subseteq 1..MaxMinute
  BY DEF Init
<1>6. run \in BOOLEAN /\ task \in Loops \cup {Nobody} /\ reloaded \in BOOLEAN
  BY DEF Init
<1> QED BY <1>1, <1>2, <1>3, <1>4, <1>5, <1>6 DEF TypeOK

LEMMA TypeOfUser ==
  ASSUME TypeOK, NEW u \in Users, User(u)
  PROVE  TypeOK'
<1> USE CronAssumption DEF CronAssumption
<1> USE DEF TypeOK, UserPlaces, file_vars, clock, history
<1>1. ASSUME NEW contents \in Crontabs, ChangeFile(u, contents)
      PROVE  TypeOK'
  BY <1>1 DEF ChangeFile
<1>2. ASSUME NEW next \in {"reload", "start"}, Call(u, next)
      PROVE  TypeOK'
  BY <1>2 DEF Call
<1>3. CASE ReadFile(u)
  BY <1>3 DEF ReadFile, From
<1>4. CASE NoMemory(u)
  BY <1>4 DEF NoMemory, From
<1>5. CASE Install(u)
  BY <1>5 DEF Install, From
<1>6. CASE StartTask(u)
  <2>1. loop' \in [Loops -> LoopState]
    <3>1. CASE UNCHANGED loop
      BY <3>1
    <3>2. ASSUME NEW l \in Loops, NEW out \in BOOLEAN, loop' = [loop EXCEPT ![l] = Fresh(out)]
          PROVE  loop' \in [Loops -> LoopState]
      BY <3>2, DeadTyped
    <3> QED BY <1>6, <3>1, <3>2 DEF StartTask
  <2>2. served' \subseteq 1..MaxMinute /\ task' \in Loops \cup {Nobody} /\ run' \in BOOLEAN
    BY <1>6 DEF StartTask
  <2>3. upc' \in [Users -> UserPlaces]
    BY <1>6 DEF StartTask
  <2>4. UNCHANGED <<file, table, buffer, minute, due, reloaded>>
    BY <1>6 DEF StartTask
  <2> QED BY <2>1, <2>2, <2>3, <2>4
<1>7. CASE Stop(u)
  BY <1>7 DEF Stop
<1> QED BY <1>1, <1>2, <1>3, <1>4, <1>5, <1>6, <1>7 DEF User

\* What a scheduler task becomes is well-typed.
LEMMA TypeOfTask ==
  ASSUME TypeOK, NEW l \in Loops, Scheduler(l)
  PROVE  /\ \E record \in LoopState : Goto(l, record)
         /\ task' \in {task, Nobody}
         /\ reloaded' \in BOOLEAN /\ served' \subseteq 1..MaxMinute
         /\ UNCHANGED <<file_vars, run, clock>>
<1> USE CronAssumption DEF CronAssumption
<1> DEFINE Result(record) == record \in LoopState /\ Goto(l, record)
<1>0. loop[l] \in LoopState /\ table \in Seq(Jobs)
  BY DEF TypeOK
<1>1. CASE Turn(l)
  <2>1. CASE BeginPass(l) /\ UNCHANGED <<file_vars, run, task, clock>> /\ minute # 0
    <3>1. <<>> \in Seq(Nat)
      OBVIOUS
    <3>2. minute \in 0..MaxMinute /\ due \in SUBSET Jobs /\ "pass" \in Places
      BY DEF TypeOK, Places
    <3>3. [loop[l] EXCEPT !.at = "pass", !.last = minute, !.due = due,
                          !.i = 1, !.ran = <<>>] \in LoopState
      BY <1>0, <3>1, <3>2, Began
    <3>4. minute \in 1..MaxMinute
      BY <2>1, <3>2
    <3> QED BY <2>1, <3>3, <3>4 DEF BeginPass, TypeOK
  <2>2. CASE Goto(l, [loop[l] EXCEPT !.at = "sleep"]) /\ UNCHANGED <<file_vars, run, task, clock, history>>
    <3>1. Result([loop[l] EXCEPT !.at = "sleep"])
      BY <1>0, <2>2, Moved DEF Places
    <3> QED BY <2>2, <3>1 DEF TypeOK, history
  <2> QED BY <1>1, <2>1, <2>2 DEF Turn
<1>2. CASE Look(l)
  <2> USE DEF TypeOK, history
  <2>1. UNCHANGED <<file_vars, run, task, clock, history>>
    BY <1>2 DEF Look
  <2>2. CASE Goto(l, [loop[l] EXCEPT !.at = "sleep"])
    BY <1>0, <2>1, <2>2, Moved DEF Places
  <2>3. CASE Goto(l, [loop[l] EXCEPT !.i = @ + 1])
    <3>1. [loop[l] EXCEPT !.i = @ + 1] \in LoopState
      <4>1. loop[l].i + 1 \in Nat
        BY <1>0 DEF LoopState
      <4> QED BY <1>0, <4>1, Moved DEF Places
    <3> QED BY <2>1, <2>3, <3>1
  <2>4. CASE /\ table[loop[l].i] \in loop[l].due
             /\ Goto(l, [loop[l] EXCEPT !.at = "exec", !.ran = Append(@, loop[l].i)])
    <3>1. Append(loop[l].ran, loop[l].i) \in Seq(Nat)
      <4>1. loop[l].ran \in Seq(Nat) /\ loop[l].i \in Nat
        BY <1>0 DEF LoopState
      <4> QED BY <4>1
    <3>2. Result([loop[l] EXCEPT !.at = "exec", !.ran = Append(@, loop[l].i)])
      BY <1>0, <2>4, <3>1, Ran DEF Places
    <3> QED BY <2>1, <3>2
  <2> QED BY <1>2, <2>2, <2>3, <2>4 DEF Look
<1>3. CASE Executed(l)
  <2>1. [loop[l] EXCEPT !.at = "pass", !.i = @ + 1] \in LoopState
    <3>1. loop[l].i + 1 \in Nat
      BY <1>0 DEF LoopState
    <3> QED BY <1>0, <3>1, Moved DEF Places
  <2> QED BY <1>3, <2>1 DEF Executed, TypeOK, history
<1>4. CASE Leave(l)
  <2>1. Result([loop[l] EXCEPT !.at = "head"]) \/ Result(Dead)
    BY <1>0, <1>4, DeadTyped, Moved DEF Leave, Places
  <2> QED BY <1>4, <2>1 DEF Leave, TypeOK, history
<1> QED BY <1>1, <1>2, <1>3, <1>4 DEF Scheduler

LEMMA TypeStep == TypeOK /\ [Next]_vars => TypeOK'
<1> USE CronAssumption DEF CronAssumption
<1> SUFFICES ASSUME TypeOK, [Next]_vars PROVE TypeOK'
  OBVIOUS
<1>1. ASSUME NEW l \in Loops, Scheduler(l)
      PROVE  TypeOK'
  BY <1>1, TypeOfTask DEF TypeOK, Goto, file_vars, clock
<1>2. ASSUME NEW m \in 1..MaxMinute, NEW d \in DueSets, ClockMoves(m, d)
      PROVE  TypeOK'
  <2>1. minute' \in 0..MaxMinute /\ due' \in SUBSET Jobs /\ served' \subseteq 1..MaxMinute
    <3>1. d \in SUBSET Jobs
      OBVIOUS
    <3>2. m \in 0..MaxMinute
      OBVIOUS
    <3>3. served' \subseteq 1..MaxMinute
      <4>1. served' = {} \/ served' = served
        BY <1>2 DEF ClockMoves
      <4> QED BY <4>1 DEF TypeOK
    <3> QED BY <1>2, <3>1, <3>2, <3>3 DEF ClockMoves
  <2>2. UNCHANGED <<file, table, upc, buffer, run, task, loop, reloaded>>
    BY <1>2 DEF ClockMoves, file_vars
  <2> QED BY <2>1, <2>2 DEF TypeOK
<1>3. CASE UNCHANGED vars
  BY <1>3 DEF TypeOK, vars, file_vars, clock, history
<1> QED BY <1>1, <1>2, <1>3, TypeOfUser DEF Next

\* Every variable of the cron service keeps its type.
THEOREM TypeCorrect == Spec => []TypeOK
<1> QED BY TypeInit, TypeStep, PTL DEF Spec

-----------------------------------------------------------------------------
(* One scheduler task.  The two properties are inductive together: what a  *)
(* start relies on is that s_task names the living task even while s_run   *)
(* says that it has to leave.                                              *)

LoopInv == OneLoop /\ RunHasLoop

LEMMA LoopStep == TypeOK /\ LoopInv /\ [Next]_vars => LoopInv'
<1> USE CronAssumption DEF CronAssumption
<1> SUFFICES ASSUME TypeOK, LoopInv, [Next]_vars PROVE LoopInv'
  OBVIOUS
<1> USE DEF LoopInv, OneLoop, RunHasLoop
<1>0. loop \in [Loops -> LoopState]
  BY DEF TypeOK
<1>1. ASSUME NEW u \in Users, StartTask(u)
      PROVE  LoopInv'
  BY <1>0, <1>1 DEF StartTask, Fresh, Dead, NewTask
<1>2. ASSUME NEW u \in Users, User(u), ~StartTask(u)
      PROVE  LoopInv'
  <2>1. UNCHANGED <<task, loop>> /\ (run' => run)
    BY <1>2 DEF User, ChangeFile, Call, ReadFile, NoMemory, Install, Stop, file_vars
  <2> QED BY <2>1
<1>3. ASSUME NEW l \in Loops, Leave(l)
      PROVE  LoopInv'
  <2>1. CASE run /\ Goto(l, [loop[l] EXCEPT !.at = "head"]) /\ UNCHANGED <<run, task>>
    BY <1>0, <1>3, <2>1 DEF Leave, Goto, LoopState
  <2>2. CASE ~run /\ Goto(l, Dead) /\ task' = Nobody /\ UNCHANGED run
    BY <1>0, <1>3, <2>2 DEF Leave, Goto, Dead, NewTask
  <2> QED BY <1>3, <2>1, <2>2 DEF Leave
<1>4. ASSUME NEW l \in Loops, Turn(l) \/ Look(l) \/ Executed(l)
      PROVE  LoopInv'
  <2>1. UNCHANGED <<run, task>>
    BY <1>4 DEF Turn, Look, Executed
  <2>2. loop[l].at # "dead"
    BY <1>4 DEF Turn, Look, Executed
  <2>3. \A k \in Loops : k # l => loop'[k] = loop[k]
    BY <1>0, <1>4 DEF Turn, BeginPass, Look, Executed, Goto
  <2>4. loop'[l].at # "dead"
    <3>1. loop[l] \in LoopState
      BY <1>0
    <3>2. CASE Turn(l)
      <4> DEFINE Begun(s) == [loop[l] EXCEPT !.at = "pass", !.last = minute, !.due = due,
                                             !.i = 1, !.ran = s]
      <4>1. \A s : Begun(s).at = "pass"
        BY <3>1 DEF LoopState
      <4>2. [loop[l] EXCEPT !.at = "sleep"].at = "sleep"
        BY <3>1 DEF LoopState
      <4>3. loop'[l] = Begun(<<>>) \/ loop'[l] = [loop[l] EXCEPT !.at = "sleep"]
        BY <1>0, <3>2 DEF Turn, BeginPass, Goto
      <4> QED
        <5> HIDE DEF Begun
        <5> QED BY <4>1, <4>2, <4>3
    <3>3. CASE Look(l)
      <4>1. [loop[l] EXCEPT !.at = "sleep"].at = "sleep"
        BY <3>1 DEF LoopState
      <4>2. \A n : [loop[l] EXCEPT !.i = n].at = "pass"
        BY <3>1, <3>3 DEF Look, LoopState
      <4>3. \A s : [loop[l] EXCEPT !.at = "exec", !.ran = s].at = "exec"
        BY <3>1 DEF LoopState
      <4>4. \/ loop'[l] = [loop[l] EXCEPT !.at = "sleep"]
            \/ \E n : loop'[l] = [loop[l] EXCEPT !.i = n]
            \/ \E s : loop'[l] = [loop[l] EXCEPT !.at = "exec", !.ran = s]
        BY <1>0, <3>3 DEF Look, Goto
      <4> QED BY <4>1, <4>2, <4>3, <4>4
    <3>4. CASE Executed(l)
      BY <1>0, <3>1, <3>4 DEF Executed, Goto, LoopState
    <3> QED BY <1>4, <3>2, <3>3, <3>4
  <2> QED BY <2>1, <2>2, <2>3, <2>4
<1>5. ASSUME NEW m \in 1..MaxMinute, NEW d \in DueSets, ClockMoves(m, d)
      PROVE  LoopInv'
  BY <1>5 DEF ClockMoves
<1>6. CASE UNCHANGED vars
  BY <1>6 DEF vars
<1> QED BY <1>1, <1>2, <1>3, <1>4, <1>5, <1>6 DEF Next, Scheduler

LEMMA LoopCorrect == Spec => []LoopInv
<1>1. Init => LoopInv
  BY CronAssumption DEF CronAssumption, Init, LoopInv, OneLoop, RunHasLoop, Dead, NewTask
<1> QED BY <1>1, TypeInit, TypeStep, LoopStep, PTL DEF Spec

\* However starts, stops and the end of the task fall together, there is at
\* most one scheduler and s_task is its handle.
THEOREM NeverTwoSchedulers == Spec => []OneLoop
<1> QED BY LoopCorrect, PTL DEF LoopInv

\* A start is never lost to a task that is about to leave.
THEOREM StartIsKept == Spec => []RunHasLoop
<1> QED BY LoopCorrect, PTL DEF LoopInv

-----------------------------------------------------------------------------
(* One pass per minute.  The clock is not behind any minute that was       *)
(* served, and if the present one was, the task remembers it.              *)

ServedInv ==
    /\ \A m \in served : m <= minute
    /\ minute \in served => \A l \in Loops : loop[l].at # "dead" => loop[l].last = minute

\* What a task remembers changes only when a pass begins.
LEMMA Remembers ==
  ASSUME TypeOK, NEW l \in Loops, Scheduler(l)
  PROVE  /\ \A k \in Loops : k # l => loop'[k] = loop[k]
         /\ loop[l].at # "dead"
         /\ \/ Turn(l) /\ BeginPass(l) /\ loop'[l].last = minute /\ minute # loop[l].last
            \/ UNCHANGED history /\ loop'[l].last = loop[l].last /\ (loop'[l].at = "pass" => loop[l].at # "head")
            \/ UNCHANGED history /\ loop'[l].at = "dead"
<1>0. loop \in [Loops -> LoopState] /\ loop[l] \in LoopState
  BY DEF TypeOK
<1>1. \A k \in Loops : k # l => loop'[k] = loop[k]
  BY <1>0 DEF Scheduler, Turn, BeginPass, Look, Executed, Leave, Goto
<1>2. loop[l].at # "dead"
  BY DEF Scheduler, Turn, Look, Executed, Leave
<1>3. CASE Turn(l)
  <2>1. CASE BeginPass(l) /\ minute # loop[l].last
    <3> DEFINE Begun(s) == [loop[l] EXCEPT !.at = "pass", !.last = minute, !.due = due,
                                           !.i = 1, !.ran = s]
    <3>1. \A s : Begun(s).last = minute
      BY <1>0 DEF LoopState
    <3>2. loop'[l] = Begun(<<>>)
      BY <1>0, <2>1 DEF BeginPass, Goto
    <3>3. loop'[l].last = minute
      <4> HIDE DEF Begun
      <4> QED BY <3>1, <3>2
    <3> QED BY <1>1, <1>2, <1>3, <2>1, <3>3
  <2>2. CASE loop'[l] = [loop[l] EXCEPT !.at = "sleep"] /\ UNCHANGED history
    <3>1. loop'[l].last = loop[l].last /\ loop'[l].at = "sleep"
      BY <1>0, <2>2 DEF LoopState
    <3> QED BY <1>1, <1>2, <2>2, <3>1
  <2> QED BY <1>0, <1>3, <2>1, <2>2 DEF Turn, Goto
<1>4. CASE Look(l)
  <2>1. \/ loop'[l] = [loop[l] EXCEPT !.at = "sleep"]
        \/ \E n : loop'[l] = [loop[l] EXCEPT !.i = n]
        \/ \E s : loop'[l] = [loop[l] EXCEPT !.at = "exec", !.ran = s]
    BY <1>0, <1>4 DEF Look, Goto
  <2>2. loop[l].at = "pass" /\ UNCHANGED history
    BY <1>4 DEF Look
  <2>3. [loop[l] EXCEPT !.at = "sleep"].last = loop[l].last
    BY <1>0 DEF LoopState
  <2>4. \A n : [loop[l] EXCEPT !.i = n].last = loop[l].last
    BY <1>0 DEF LoopState
  <2>5. \A s : [loop[l] EXCEPT !.at = "exec", !.ran = s].last = loop[l].last
    BY <1>0 DEF LoopState
  <2> QED BY <1>1, <1>2, <2>1, <2>2, <2>3, <2>4, <2>5
<1>5. CASE Executed(l)
  <2>1. loop[l].at = "exec" /\ UNCHANGED history /\ loop'[l].last = loop[l].last
    BY <1>0, <1>5 DEF Executed, Goto, LoopState
  <2> QED BY <1>1, <1>2, <2>1
<1>6. CASE Leave(l)
  <2>1. CASE loop'[l] = [loop[l] EXCEPT !.at = "head"] /\ UNCHANGED history
    <3>1. loop'[l].last = loop[l].last /\ loop'[l].at = "head"
      BY <1>0, <2>1 DEF LoopState
    <3> QED BY <1>1, <1>2, <2>1, <3>1
  <2>2. CASE loop'[l] = Dead /\ UNCHANGED history
    BY <1>1, <1>2, <2>2 DEF Dead, NewTask
  <2> QED BY <1>0, <1>6, <2>1, <2>2 DEF Leave, Goto
<1> QED BY <1>3, <1>4, <1>5, <1>6 DEF Scheduler

LEMMA ServedStep == TypeOK /\ LoopInv /\ ServedInv /\ [Next]_vars => ServedInv'
<1> USE CronAssumption DEF CronAssumption
<1> SUFFICES ASSUME TypeOK, LoopInv, ServedInv, [Next]_vars PROVE ServedInv'
  OBVIOUS
<1> USE DEF ServedInv
<1>0. minute \in Nat /\ served \subseteq Nat /\ loop \in [Loops -> LoopState]
  BY DEF TypeOK
<1>1. ASSUME NEW u \in Users, User(u) PROVE ServedInv'
  <2>1. CASE UNCHANGED <<served, minute, loop>>
    BY <2>1
  <2>2. CASE served' = {}
    BY <2>2
  <2> QED
    BY <1>1, <2>1, <2>2
    DEF User, ChangeFile, Call, ReadFile, NoMemory, Install, StartTask, Stop, history, clock
<1>2. ASSUME NEW l \in Loops, Scheduler(l) PROVE ServedInv'
  <2>1. UNCHANGED minute
    BY <1>2, TypeOfTask DEF clock
  <2>2. CASE BeginPass(l) /\ loop'[l].last = minute
    <3>1. served' = served \cup {minute}
      BY <2>2 DEF BeginPass
    <3>2. \A k \in Loops : k # l => loop'[k] = loop[k] /\ loop[k].at = "dead"
      BY <1>2, Remembers DEF LoopInv, OneLoop
    <3>3. \A m \in served' : m <= minute'
      BY <1>0, <2>1, <3>1
    <3>4. \A k \in Loops : loop'[k].at # "dead" => loop'[k].last = minute'
      BY <2>1, <2>2, <3>2
    <3> QED BY <3>3, <3>4
  <2>3. CASE UNCHANGED history /\ (loop'[l].last = loop[l].last \/ loop'[l].at = "dead")
    BY <1>2, <2>1, <2>3, Remembers DEF history
  <2> QED BY <1>2, <2>2, <2>3, Remembers
<1>3. ASSUME NEW m \in 1..MaxMinute, NEW d \in DueSets, ClockMoves(m, d) PROVE ServedInv'
  <2>1. minute' = m /\ m # minute /\ m \in Nat
    BY <1>3 DEF ClockMoves
  <2>2. CASE m < minute
    BY <1>3, <2>1, <2>2 DEF ClockMoves
  <2>3. CASE m > minute
    <3>1. served' = served
      BY <1>0, <1>3, <2>1, <2>3 DEF ClockMoves
    <3>2. \A v \in served : v <= m /\ v # m
      BY <1>0, <2>1, <2>3
    <3> QED BY <2>1, <3>1, <3>2
  <2> QED BY <1>0, <2>1, <2>2, <2>3
<1>4. CASE UNCHANGED vars
  BY <1>4 DEF vars, clock, history
<1> QED BY <1>1, <1>2, <1>3, <1>4 DEF Next

\* A task serves no minute twice, through stops, restarts of the service and
\* however often its loop wakes up, unless the clock is set back.
THEOREM MinutesServedOnce == Spec => OnePassPerMinute
<1> DEFINE Once == \A l \in Loops :
             loop[l].at = "head" /\ loop'[l].at = "pass" => minute \notin served
<1>1. Init => ServedInv
  BY DEF Init, ServedInv
<1>2. TypeOK /\ LoopInv /\ ServedInv /\ [Next]_vars => [Once]_vars
  <2> SUFFICES ASSUME TypeOK, LoopInv, ServedInv, Next,
                      NEW l \in Loops, loop[l].at = "head", loop'[l].at = "pass"
               PROVE  minute \notin served
    BY DEF vars
  <2>0. loop \in [Loops -> LoopState]
    BY DEF TypeOK
  <2>1. PICK k \in Loops : Scheduler(k)
    <3>1. ASSUME NEW u \in Users, User(u) PROVE FALSE
      <4>1. loop'[l] = loop[l] \/ StartTask(u)
        BY <3>1 DEF User, ChangeFile, Call, ReadFile, NoMemory, Install, Stop
      <4>2. CASE StartTask(u)
        <5>1. loop' = loop \/ \E n \in Loops, out \in BOOLEAN : loop' = [loop EXCEPT ![n] = Fresh(out)]
          BY <4>2 DEF StartTask
        <5>2. \A out \in BOOLEAN : Fresh(out).at = "head"
          BY DEF Fresh, NewTask
        <5> QED BY <2>0, <5>1, <5>2
      <4> QED BY <4>1, <4>2
    <3>2. ASSUME NEW m \in 1..MaxMinute, NEW d \in DueSets, ClockMoves(m, d) PROVE FALSE
      BY <3>2 DEF ClockMoves
    <3> QED BY <3>1, <3>2 DEF Next
  <2>2. k = l
    BY <2>1, Remembers
  <2>3. minute # loop[l].last
    BY <2>1, <2>2, Remembers
  <2> QED BY <2>3 DEF ServedInv
<1> QED BY <1>1, <1>2, TypeInit, TypeStep, LoopCorrect, ServedStep, PTL DEF Spec, OnePassPerMinute

-----------------------------------------------------------------------------
(* What a pass runs.                                                       *)

\* Of the first n entries of the table those that are due in d have run.
RanUpTo(ran, d, n) ==
    /\ \A a \in 1 .. Len(ran) :
           ran[a] \in 1 .. Len(table) /\ ran[a] <= n /\ table[ran[a]] \in d
    /\ \A k \in 1 .. Len(table) :
           k <= n /\ table[k] \in d => \E a \in 1 .. Len(ran) : ran[a] = k
    /\ \A a, b \in 1 .. Len(ran) : a < b => ran[a] < ran[b]

\* How far the pass has come that r is in, or was in last.
PassSoFar(r) ==
    /\ r.at = "exec" => r.i <= Len(table) /\ RanUpTo(r.ran, r.due, r.i)
    /\ r.at # "exec" => RanUpTo(r.ran, r.due, r.i - 1)
    /\ r.at \in {"head", "sleep"} => r.i > Len(table)

PassKnown(l) ==
    /\ loop[l].at # "dead" /\ loop[l].i > 0 /\ ~reloaded => PassSoFar(loop[l])
    /\ loop[l].at \in {"pass", "exec"} => loop[l].i > 0

PassInv == \A l \in Loops : PassKnown(l)

\* Nothing has run before the first entry.
LEMMA RanNothing == ASSUME NEW d PROVE RanUpTo(<<>>, d, 0)
<1>1. Len(<<>>) = 0
  OBVIOUS
<1> QED BY <1>1 DEF RanUpTo

\* An entry that is not due does not run.
LEMMA RanNoFurther ==
  ASSUME NEW s \in Seq(Nat), NEW d, NEW n \in Nat,
         n \notin 1 .. Len(table) \/ table[n] \notin d, RanUpTo(s, d, n - 1)
  PROVE  RanUpTo(s, d, n)
  BY DEF RanUpTo

\* One that is due runs after those before it.
LEMMA RanNext ==
  ASSUME NEW s \in Seq(Nat), NEW d, NEW n \in 1 .. Len(table), table[n] \in d,
         RanUpTo(s, d, n - 1)
  PROVE  RanUpTo(Append(s, n), d, n)
<1> DEFINE t == Append(s, n)
<1>1. /\ Len(t) = Len(s) + 1 /\ t[Len(s) + 1] = n /\ Len(s) \in Nat
      /\ \A a \in 1 .. Len(s) : t[a] = s[a]
  OBVIOUS
<1> HIDE DEF t
<1>2. \A a \in 1 .. Len(t) : a \in 1 .. Len(s) \/ a = Len(s) + 1
  BY <1>1
<1>3. ASSUME NEW a \in 1 .. Len(t)
      PROVE  t[a] \in 1 .. Len(table) /\ t[a] <= n /\ table[t[a]] \in d
  <2>1. CASE a \in 1 .. Len(s)
    BY <1>1, <2>1 DEF RanUpTo
  <2>2. CASE a = Len(s) + 1
    BY <1>1, <2>2
  <2> QED BY <1>2, <2>1, <2>2
<1>4. ASSUME NEW k \in 1 .. Len(table), k <= n, table[k] \in d
      PROVE  \E a \in 1 .. Len(t) : t[a] = k
  <2>1. CASE k = n
    BY <1>1, <2>1
  <2>2. CASE k <= n - 1
    <3>1. PICK a \in 1 .. Len(s) : s[a] = k
      BY <1>4, <2>2 DEF RanUpTo
    <3> QED BY <1>1, <3>1
  <2> QED BY <1>4, <2>1, <2>2
<1>5. ASSUME NEW a \in 1 .. Len(t), NEW b \in 1 .. Len(t), a < b PROVE t[a] < t[b]
  <2>1. a \in 1 .. Len(s)
    BY <1>1, <1>5
  <2>2. CASE b \in 1 .. Len(s)
    BY <1>1, <1>5, <2>1, <2>2 DEF RanUpTo
  <2>3. CASE b = Len(s) + 1
    <3>1. t[a] <= n - 1 /\ t[a] \in Nat
      BY <1>1, <2>1 DEF RanUpTo
    <3> QED BY <1>1, <2>3, <3>1
  <2> QED BY <1>2, <2>2, <2>3
<1>6. RanUpTo(t, d, n)
  BY <1>3, <1>4, <1>5 DEF RanUpTo
<1> QED BY <1>6 DEF t

\* The pass of a task goes on by one entry at a time.
LEMMA PassGoesOn ==
  ASSUME TypeOK, NEW l \in Loops, Scheduler(l), PassKnown(l)
  PROVE  PassKnown(l)'
<1> DEFINE r == loop[l]
<1>0. /\ r \in LoopState /\ loop \in [Loops -> LoopState] /\ table \in Seq(Jobs)
      /\ minute \in 0 .. MaxMinute /\ due \in SUBSET Jobs
  BY CronAssumption DEF TypeOK, CronAssumption
<1>1. r.i \in Nat /\ r.ran \in Seq(Nat) /\ Len(table) \in Nat
  BY <1>0 DEF LoopState
<1>2. UNCHANGED table
  BY TypeOfTask DEF file_vars
<1>3. SUFFICES /\ loop'[l].at # "dead" /\ loop'[l].i > 0 /\ ~reloaded' => PassSoFar(loop'[l])
               /\ loop'[l].at \in {"pass", "exec"} => loop'[l].i > 0
  BY <1>2 DEF PassKnown, PassSoFar, RanUpTo
<1>4. CASE Turn(l)
  <2>1. CASE BeginPass(l)
    <3>1. loop'[l] = [r EXCEPT !.at = "pass", !.last = minute, !.due = due, !.i = 1, !.ran = <<>>]
      BY <1>0, <2>1 DEF BeginPass, Goto
    <3>2. loop'[l].at = "pass" /\ loop'[l].due = due /\ loop'[l].i = 1 /\ loop'[l].ran = <<>>
      BY <1>0, <3>1 DEF LoopState
    <3> QED BY <3>2, RanNothing DEF PassSoFar
  <2>2. CASE Goto(l, [r EXCEPT !.at = "sleep"]) /\ UNCHANGED history
    <3>1. /\ loop'[l].at = "sleep" /\ loop'[l].due = r.due /\ loop'[l].i = r.i
          /\ loop'[l].ran = r.ran /\ r.at = "head"
      BY <1>0, <1>4, <2>2 DEF Goto, LoopState, Turn
    <3> QED BY <2>2, <3>1 DEF PassKnown, PassSoFar, history
  <2> QED BY <1>4, <2>1, <2>2 DEF Turn
<1>5. CASE Look(l)
  <2>1. r.at = "pass" /\ UNCHANGED history
    BY <1>5 DEF Look
  <2>2. CASE r.i > Len(table) /\ Goto(l, [r EXCEPT !.at = "sleep"])
    <3>1. /\ loop'[l].at = "sleep" /\ loop'[l].due = r.due /\ loop'[l].i = r.i
          /\ loop'[l].ran = r.ran
      BY <1>0, <2>2 DEF Goto, LoopState
    <3> QED BY <2>1, <2>2, <3>1 DEF PassKnown, PassSoFar, history
  <2>3. CASE /\ ~(r.i > Len(table)) /\ table[r.i] \in r.due
             /\ Goto(l, [r EXCEPT !.at = "exec", !.ran = Append(@, r.i)])
    <3>1. /\ loop'[l].at = "exec" /\ loop'[l].due = r.due /\ loop'[l].i = r.i
          /\ loop'[l].ran = Append(r.ran, r.i)
      BY <1>0, <2>3 DEF Goto, LoopState
    <3>2. r.i \in 1 .. Len(table)
      BY <1>1, <2>1, <2>3 DEF PassKnown
    <3>3. CASE ~reloaded
      <4>1. RanUpTo(r.ran, r.due, r.i - 1)
        BY <2>1, <3>2, <3>3 DEF PassKnown, PassSoFar
      <4>2. RanUpTo(loop'[l].ran, loop'[l].due, loop'[l].i)
        BY <1>1, <2>3, <3>1, <3>2, <4>1, RanNext
      <4> QED BY <3>1, <3>2, <4>2 DEF PassSoFar
    <3>4. CASE reloaded
      BY <2>1, <3>1, <3>2, <3>4 DEF history
    <3> QED BY <3>3, <3>4
  <2>4. CASE /\ ~(r.i > Len(table)) /\ table[r.i] \notin r.due
             /\ Goto(l, [r EXCEPT !.i = @ + 1])
    <3>1. /\ loop'[l].at = "pass" /\ loop'[l].due = r.due /\ loop'[l].i = r.i + 1
          /\ loop'[l].ran = r.ran
      BY <1>0, <2>1, <2>4 DEF Goto, LoopState
    <3>2. r.i > 0 /\ (r.i + 1) - 1 = r.i
      BY <1>1, <2>1 DEF PassKnown
    <3>3. CASE ~reloaded
      <4>1. RanUpTo(r.ran, r.due, r.i - 1)
        BY <2>1, <3>2, <3>3 DEF PassKnown, PassSoFar
      <4>2. RanUpTo(r.ran, r.due, r.i)
        BY <1>1, <2>4, <4>1, RanNoFurther
      <4> QED BY <1>1, <3>1, <3>2, <4>2 DEF PassSoFar
    <3>4. CASE reloaded
      BY <1>1, <2>1, <3>1, <3>4 DEF history
    <3> QED BY <3>3, <3>4
  <2> QED BY <1>5, <2>2, <2>3, <2>4 DEF Look
<1>6. CASE Executed(l)
  <2>1. /\ loop'[l].at = "pass" /\ loop'[l].due = r.due /\ loop'[l].i = r.i + 1
        /\ loop'[l].ran = r.ran /\ r.at = "exec" /\ UNCHANGED history
    BY <1>0, <1>6 DEF Executed, Goto, LoopState
  <2>2. (r.i + 1) - 1 = r.i /\ r.i > 0
    BY <1>1, <2>1 DEF PassKnown
  <2>3. reloaded' = reloaded /\ r.at # "dead"
    BY <2>1 DEF history
  <2> QED BY <1>1, <2>1, <2>2, <2>3 DEF PassKnown, PassSoFar
<1>7. CASE Leave(l)
  <2>1. CASE loop'[l] = [r EXCEPT !.at = "head"] /\ UNCHANGED history
    <3>1. /\ loop'[l].at = "head" /\ loop'[l].due = r.due /\ loop'[l].i = r.i
          /\ loop'[l].ran = r.ran /\ r.at = "sleep"
      BY <1>0, <1>7, <2>1 DEF LoopState, Leave
    <3> QED BY <2>1, <3>1 DEF PassKnown, PassSoFar, history
  <2>2. CASE loop'[l] = Dead
    BY <2>2 DEF Dead, NewTask
  <2> QED BY <1>0, <1>7, <2>1, <2>2 DEF Leave, Goto
<1> QED BY <1>4, <1>5, <1>6, <1>7 DEF Scheduler

LEMMA PassStep == TypeOK /\ LoopInv /\ PassInv /\ [Next]_vars => PassInv'
<1> SUFFICES ASSUME TypeOK, LoopInv, PassInv, [Next]_vars, NEW l \in Loops PROVE PassKnown(l)'
  BY DEF PassInv
<1>0. loop \in [Loops -> LoopState] /\ PassKnown(l)
  BY DEF TypeOK, PassInv
<1>1. ASSUME UNCHANGED <<table, loop, reloaded>> PROVE PassKnown(l)'
  BY <1>0, <1>1 DEF PassKnown, PassSoFar, RanUpTo
<1>2. ASSUME NEW u \in Users, User(u) PROVE PassKnown(l)'
  <2>1. CASE Install(u)
    BY <1>0, <2>1 DEF Install, PassKnown
  <2>2. CASE StartTask(u)
    <3>1. UNCHANGED <<table, reloaded>>
      BY <2>2 DEF StartTask
    <3>2. CASE loop' = loop
      BY <1>1, <3>1, <3>2
    <3>3. ASSUME NEW n \in Loops, NEW out \in BOOLEAN, loop' = [loop EXCEPT ![n] = Fresh(out)]
          PROVE  PassKnown(l)'
      <4>1. CASE n = l
        BY <1>0, <3>3, <4>1 DEF Fresh, NewTask, PassKnown
      <4>2. CASE n # l
        <5>1. loop'[l] = loop[l]
          BY <1>0, <3>3, <4>2
        <5> QED BY <1>0, <3>1, <5>1 DEF PassKnown, PassSoFar, RanUpTo
      <4> QED BY <4>1, <4>2
    <3> QED BY <2>2, <3>2, <3>3 DEF StartTask
  <2>3. CASE UNCHANGED <<table, loop, reloaded>>
    BY <1>1, <2>3
  <2> QED
    BY <1>2, <2>1, <2>2, <2>3
    DEF User, ChangeFile, Call, ReadFile, NoMemory, Stop, file_vars, history
<1>3. ASSUME NEW k \in Loops, Scheduler(k) PROVE PassKnown(l)'
  <2>1. CASE k = l
    BY <1>0, <1>3, <2>1, PassGoesOn
  <2>2. CASE k # l
    <3>1. loop[l].at = "dead"
      BY <1>3, <2>2, Remembers DEF LoopInv, OneLoop
    <3>2. loop'[l] = loop[l]
      BY <1>3, <2>2, Remembers
    <3> QED BY <3>1, <3>2 DEF PassKnown
  <2> QED BY <2>1, <2>2
<1>4. ASSUME NEW m \in 1..MaxMinute, NEW d \in DueSets, ClockMoves(m, d) PROVE PassKnown(l)'
  BY <1>1, <1>4 DEF ClockMoves, file_vars
<1>5. CASE UNCHANGED vars
  BY <1>1, <1>5 DEF vars, file_vars, history
<1> QED BY <1>2, <1>3, <1>4, <1>5 DEF Next

\* A pass runs the jobs that are due, each once and in the order of the table,
\* unless the table is reloaded under it, for any crontab and however long the
\* scripts take.
THEOREM PassRunsAllDue == Spec => []PassRunsDueJobs
<1>1. Init => PassInv
  BY DEF Init, PassInv, PassKnown, Dead, NewTask
<1>2. TypeOK /\ PassInv => PassRunsDueJobs
  <2> SUFFICES ASSUME TypeOK, PassInv, NEW l \in Loops,
                      loop[l].at = "sleep", loop[l].i > 0, ~reloaded
               PROVE  /\ Range(loop[l].ran) = {k \in 1 .. Len(table) : table[k] \in loop[l].due}
                      /\ \A a, b \in DOMAIN loop[l].ran : a < b => loop[l].ran[a] < loop[l].ran[b]
    BY DEF PassRunsDueJobs
  <2>1. /\ loop[l].ran \in Seq(Nat) /\ loop[l].i \in Nat
    BY DEF TypeOK, LoopState
  <2>2. DOMAIN loop[l].ran = 1 .. Len(loop[l].ran)
    BY <2>1
  <2>3. table \in Seq(Jobs)
    BY CronAssumption DEF TypeOK, CronAssumption
  <2>4. RanUpTo(loop[l].ran, loop[l].due, loop[l].i - 1) /\ loop[l].i > Len(table)
    BY DEF PassInv, PassKnown, PassSoFar
  <2>5. \A k \in 1 .. Len(table) : k <= loop[l].i - 1
    BY <2>1, <2>3, <2>4
  <2> QED BY <2>2, <2>4, <2>5 DEF RanUpTo, Range
<1> QED BY <1>1, <1>2, TypeInit, TypeStep, LoopCorrect, PassStep, PTL DEF Spec

-----------------------------------------------------------------------------
(* What a line makes due.                                                  *)

\* A set of naturals has a least one: the intervals that end in them are
\* ordered by inclusion.
LEMMA LeastOne ==
  ASSUME NEW D \in SUBSET Nat, D # {}
  PROVE  \E m \in D : \A d \in D : m <= d
<1> DEFINE I == {0 .. d : d \in D}
<1>1. I \subseteq FiniteSubsetsOf(Nat) /\ I # {}
  <2>1. ASSUME NEW d \in D PROVE 0 .. d \in FiniteSubsetsOf(Nat)
    <3>1. IsFiniteSet(0 .. d)
      BY FS_Interval
    <3> QED BY <3>1 DEF FiniteSubsetsOf
  <2> QED BY <2>1
<1>2. PICK J \in I : \A K \in I : ~(<<K, J>> \in StrictSubsetOrdering(Nat))
  BY <1>1, FS_StrictSubsetOrderingWellFounded, WFMin
<1>3. PICK m \in D : J = 0 .. m
  BY <1>2
<1>4. ASSUME NEW d \in D, d < m PROVE FALSE
  <2>1. 0 .. d \subseteq 0 .. m /\ 0 .. d # 0 .. m
    BY <1>4
  <2>2. <<0 .. d, J>> \in StrictSubsetOrdering(Nat)
    BY <2>1, <1>1, <1>3 DEF StrictSubsetOrdering, FiniteSubsetsOf
  <2> QED BY <1>2, <2>2
<1> QED BY <1>4

\* Division with a remainder, and what a step does to the remainder.
LEMMA DivMod ==
  ASSUME NEW n \in Int, NEW s \in Nat \ {0}
  PROVE  /\ n % s \in 0 .. s - 1 /\ n \div s \in Int /\ n = s * (n \div s) + (n % s)
OBVIOUS

LEMMA ModUnique ==
  ASSUME NEW n \in Int, NEW s \in Nat \ {0}, NEW q \in Int, NEW r \in 0 .. s - 1, n = s * q + r
  PROVE  n % s = r
<1>1. /\ n % s \in 0 .. s - 1 /\ n \div s \in Int /\ n = s * (n \div s) + (n % s)
  BY DivMod
<1> DEFINE k == (n \div s) - q  d == r - (n % s)
<1>2. k \in Int /\ d \in Int /\ s * k = d
  BY <1>1
<1>3. d < s /\ d > 0 - s
  BY <1>1
<1> HIDE DEF k, d
<1>4. k = 0
  BY <1>2, <1>3
<1>5. d = 0
  BY <1>2, <1>4
<1> QED BY <1>1, <1>5 DEF d

LEMMA ModStep ==
  ASSUME NEW n \in Int, NEW s \in Nat \ {0}
  PROVE  (n + s) % s = n % s
<1>1. /\ n % s \in 0 .. s - 1 /\ n \div s \in Int /\ n = s * (n \div s) + (n % s)
  BY DivMod
<1>2. n + s = s * ((n \div s) + 1) + (n % s)
  BY <1>1
<1>3. n + s \in Int /\ (n \div s) + 1 \in Int
  BY <1>1
<1> QED BY <1>1, <1>2, <1>3, ModUnique

LEMMA ModSmall ==
  ASSUME NEW s \in Nat \ {0}, NEW n \in 0 .. s - 1
  PROVE  n % s = n
OBVIOUS

\* The numbers from v to b that are whole steps away from v are what the loop of
\* parse_field sets from v on: this function solves the equation of Steps.
LEMMA Closed ==
  ASSUME NEW b \in Int, NEW s \in Nat \ {0}
  PROVE  LET F == [v \in Int |-> {u \in v .. b : (u - v) % s = 0}]
         IN  \A v \in Int : F[v] = IF v > b THEN {} ELSE {v} \cup F[v + s]
<1> DEFINE F == [v \in Int |-> {u \in v .. b : (u - v) % s = 0}]
<1>1. ASSUME NEW v \in Int
      PROVE  F[v] = IF v > b THEN {} ELSE {v} \cup F[v + s]
  <2>1. CASE v > b
    BY <2>1
  <2>2. CASE v <= b
    <3>1. ASSUME NEW u \in Int
          PROVE  u \in v .. b /\ (u - v) % s = 0 <=> u = v \/ (u \in v + s .. b /\ (u - (v + s)) % s = 0)
      <4>1. CASE u = v
        BY <4>1, <2>2, ModSmall
      <4>2. CASE u < v
        BY <4>2
      <4>3. CASE u > v
        <5> DEFINE m == u - (v + s)
        <5>1. (u - v) % s = m % s
          <6>1. m \in Int /\ u - v = m + s
            OBVIOUS
          <6> QED BY <6>1, ModStep
        <5>2. ASSUME (u - v) % s = 0 PROVE u >= v + s
          <6>1. u - v < s => (u - v) % s = u - v
            BY <4>3, ModSmall
          <6> QED BY <5>2, <6>1, <4>3
        <5> QED BY <4>3, <5>1, <5>2
      <4> QED BY <4>1, <4>2, <4>3
    <3>2. F[v] = {u \in v .. b : (u - v) % s = 0}
      OBVIOUS
    <3>3. v + s \in Int /\ F[v + s] = {u \in v + s .. b : (u - (v + s)) % s = 0}
      OBVIOUS
    <3>4. v .. b \subseteq Int /\ v + s .. b \subseteq Int
      OBVIOUS
    <3> HIDE DEF F
    <3>5. F[v] = {v} \cup F[v + s]
      BY <3>1, <3>2, <3>3, <3>4
    <3> QED BY <3>5, <2>2
  <2> QED BY <2>1, <2>2
<1> QED BY <1>1

\* So there is a solution, and the one that Steps chooses is one.
LEMMA Chosen ==
  ASSUME NEW b \in Int, NEW s \in Nat \ {0}
  PROVE  LET f == CHOOSE g : g = [v \in Int |-> IF v > b THEN {} ELSE {v} \cup g[v + s]]
         IN  f = [v \in Int |-> IF v > b THEN {} ELSE {v} \cup f[v + s]]
<1> DEFINE F == [v \in Int |-> {u \in v .. b : (u - v) % s = 0}]
<1>1. \A v \in Int : F[v] = IF v > b THEN {} ELSE {v} \cup F[v + s]
  BY Closed
<1>2. F = [v \in Int |-> IF v > b THEN {} ELSE {v} \cup F[v + s]]
  BY <1>1
<1> HIDE DEF F
<1> QED BY <1>2, Zenon

\* Both agree past b, and one step before a number at which they agree; a least
\* distance from b at which they differ would be one.
LEMMA StepsAre ==
  ASSUME NEW a \in Int, NEW b \in Int, NEW s \in Nat \ {0}
  PROVE  Steps(a, b, s) = {u \in a .. b : (u - a) % s = 0}
<1> DEFINE f == CHOOSE g : g = [v \in Int |-> IF v > b THEN {} ELSE {v} \cup g[v + s]]
           F == [v \in Int |-> {u \in v .. b : (u - v) % s = 0}]
<1>1. Steps(a, b, s) = f[a]
  BY DEF Steps
<1>2. f = [v \in Int |-> IF v > b THEN {} ELSE {v} \cup f[v + s]]
  BY Chosen
<1>3. \A v \in Int : F[v] = IF v > b THEN {} ELSE {v} \cup F[v + s]
  BY Closed
<1> HIDE DEF f, F
<1>4. \A v \in Int : v > b => f[v] = F[v]
  BY <1>2, <1>3
<1>5. ASSUME NEW v \in Int, v <= b, f[v + s] = F[v + s]
      PROVE  f[v] = F[v]
  BY <1>2, <1>3, <1>5
<1> DEFINE D == {n \in Nat : f[b - n] # F[b - n]}
<1>6. D = {}
  <2> SUFFICES ASSUME D # {} PROVE FALSE
    OBVIOUS
  <2>1. PICK m \in D : \A d \in D : m <= d
    BY LeastOne
  <2>2. CASE m >= s
    <3>1. m - s \in Nat /\ m - s < m /\ b - (m - s) = (b - m) + s
      BY <2>2
    <3>2. f[(b - m) + s] = F[(b - m) + s]
      BY <2>1, <3>1
    <3> QED BY <1>5, <3>2
  <2>3. CASE m < s
    BY <1>4, <1>5, <2>3
  <2> QED BY <2>2, <2>3
<1>7. f[a] = F[a]
  <2>1. CASE a > b
    BY <1>4, <2>1
  <2>2. CASE a <= b
    <3>1. b - a \in Nat /\ b - (b - a) = a
      BY <2>2
    <3> QED BY <1>6, <3>1
  <2> QED BY <2>1, <2>2
<1> QED BY <1>1, <1>7 DEF F


LEMMA EndsAre ==
  ASSUME NEW lo \in Int, NEW hi \in Int, lo <= hi
  PROVE  Lowest(lo .. hi) = lo /\ Highest(lo .. hi) = hi
<1>1. ASSUME NEW v \in lo .. hi, \A u \in lo .. hi : v <= u PROVE v = lo
  BY <1>1
<1>2. ASSUME NEW v \in lo .. hi, \A u \in lo .. hi : v >= u PROVE v = hi
  BY <1>2
<1>3. /\ lo \in lo .. hi /\ \A u \in lo .. hi : lo <= u
      /\ hi \in lo .. hi /\ \A u \in lo .. hi : hi >= u
  OBVIOUS
<1>4. Lowest(lo .. hi) = lo
  BY <1>1, <1>3 DEF Lowest
<1>5. Highest(lo .. hi) = hi
  BY <1>2, <1>3 DEF Highest
<1> QED BY <1>4, <1>5

\* What the parts of an item are.
ItemParts(item) ==
    /\ item.first \in Nat \cup {None} /\ item.last \in Nat \cup {None}
    /\ item.step \in Nat \cup {None} /\ None \notin Int
    /\ item.first = None => item.last = None

LEMMA ItemsHave == ASSUME NEW item \in Items PROVE ItemParts(item)
<1>1. Numbers \subseteq Nat /\ None \notin Int
  BY ScheduleAssumption DEF Numbers
<1>2. /\ item.first \in Numbers \cup {None} /\ item.last \in Numbers \cup {None}
      /\ item.step \in Numbers \cup {None}
      /\ item.first = None => item.last = None
  BY DEF Items
<1> QED BY <1>1, <1>2 DEF ItemParts

\* An item is taken when it makes sense ...
LEMMA ItemTaken ==
  ASSUME NEW lo \in Nat, NEW hi \in Nat, lo <= hi, NEW item \in Items
  PROVE  Taken(item, lo, hi) <=> Sensible(item, lo .. hi)
<1>1. ItemParts(item)
  BY ItemsHave
<1> QED BY <1>1 DEF ItemParts, Taken, Sensible, FirstOf, LastOf

\* ... and sets the bits of the numbers that it names.
LEMMA ItemBits ==
  ASSUME NEW lo \in Nat, NEW hi \in Nat, lo <= hi, NEW item \in Items,
         Sensible(item, lo .. hi), NEW v \in lo .. hi
  PROVE  v \in Bits(item, lo, hi) <=> Names(item, v, lo .. hi)
<1> DEFINE first == FirstOf(item, lo)
           last == LastOf(item, hi)
           every == IF item.step = None THEN 1 ELSE item.step
<1>1. ItemParts(item)
  BY ItemsHave
<1>2. first \in Int /\ last \in Int /\ every \in Nat \ {0}
  BY <1>1 DEF ItemParts, FirstOf, LastOf, Sensible
<1>3. v \in Bits(item, lo, hi) <=> first <= v /\ v <= last /\ (v - first) % every = 0
  <2>1. Bits(item, lo, hi) = {u \in first .. last : (u - first) % every = 0}
    BY <1>2, StepsAre DEF Bits
  <2> QED BY <1>2, <2>1
<1>4. Lowest(lo .. hi) = lo
  BY EndsAre
<1>5. v = first => (v - first) % every = 0
  BY <1>2, ModSmall
<1>6. CASE item.first = None
  <2>1. first = lo /\ last = hi
    BY <1>1, <1>6 DEF ItemParts, FirstOf, LastOf
  <2> QED BY <1>3, <1>4, <1>6, <2>1 DEF ItemParts, Names
<1>7. CASE item.first # None /\ item.last # None
  <2>1. first = item.first /\ last = item.last
    BY <1>7 DEF FirstOf, LastOf
  <2> QED BY <1>1, <1>3, <1>7, <2>1 DEF ItemParts, Names
<1>8. CASE item.first # None /\ item.last = None /\ item.step # None
  <2>1. first = item.first /\ last = hi
    BY <1>8 DEF FirstOf, LastOf
  <2> QED BY <1>1, <1>3, <1>8, <2>1 DEF ItemParts, Names
<1>9. CASE item.first # None /\ item.last = None /\ item.step = None
  <2>1. first = item.first /\ last = item.first
    BY <1>9 DEF FirstOf, LastOf
  <2> QED BY <1>1, <1>3, <1>5, <1>9, <2>1 DEF ItemParts, Names
<1> QED BY <1>6, <1>7, <1>8, <1>9

SensibleField(field, range) ==
    field # <<>> /\ \A i \in DOMAIN field : Sensible(field[i], range)

\* A field is taken when it makes sense, and its mask is what it means.
FieldRight(field, range) ==
    /\ ParsesField(field, range) <=> SensibleField(field, range)
    /\ SensibleField(field, range) =>
         \A v \in range : v \in Mask(field, range) <=> Meant(field, v, range)

\* The ranges of the fields.
IsInterval(range) == \E lo, hi \in Nat : lo <= hi /\ range = lo .. hi

LEMMA Intervals ==
  \A range \in {Minutes, Hours, Doms, Mons, Dows} : IsInterval(range)
<1>1. IsInterval(Minutes)
  <2> SUFFICES \E lo, hi \in Nat : lo <= hi /\ Minutes = lo .. hi
    BY DEF IsInterval
  <2> WITNESS 0 \in Nat, 59 \in Nat
  <2> QED BY DEF Minutes
<1>2. IsInterval(Hours)
  <2> SUFFICES \E lo, hi \in Nat : lo <= hi /\ Hours = lo .. hi
    BY DEF IsInterval
  <2> WITNESS 0 \in Nat, 23 \in Nat
  <2> QED BY DEF Hours
<1>3. IsInterval(Doms)
  <2> SUFFICES \E lo, hi \in Nat : lo <= hi /\ Doms = lo .. hi
    BY DEF IsInterval
  <2> WITNESS 1 \in Nat, 31 \in Nat
  <2> QED BY DEF Doms
<1>4. IsInterval(Mons)
  <2> SUFFICES \E lo, hi \in Nat : lo <= hi /\ Mons = lo .. hi
    BY DEF IsInterval
  <2> WITNESS 1 \in Nat, 12 \in Nat
  <2> QED BY DEF Mons
<1>5. IsInterval(Dows)
  <2> SUFFICES \E lo, hi \in Nat : lo <= hi /\ Dows = lo .. hi
    BY DEF IsInterval
  <2> WITNESS 0 \in Nat, 7 \in Nat
  <2> QED BY DEF Dows
<1> QED BY <1>1, <1>2, <1>3, <1>4, <1>5

LEMMA FieldIs ==
  ASSUME NEW range, IsInterval(range), NEW field \in Seq(Items)
  PROVE  FieldRight(field, range)
<1>0. PICK lo \in Nat, hi \in Nat : lo <= hi /\ range = lo .. hi
  BY DEF IsInterval
<1>1. \A i \in DOMAIN field : field[i] \in Items
  OBVIOUS
<1>2. Lowest(lo .. hi) = lo /\ Highest(lo .. hi) = hi
  BY <1>0, EndsAre
<1>3. ParsesField(field, lo .. hi) <=> SensibleField(field, lo .. hi)
  BY <1>0, <1>1, <1>2, ItemTaken DEF ParsesField, SensibleField
<1>4. ASSUME SensibleField(field, lo .. hi), NEW v \in lo .. hi
      PROVE  v \in Mask(field, lo .. hi) <=> Meant(field, v, lo .. hi)
  <2>1. v \in Mask(field, lo .. hi) <=> \E i \in DOMAIN field : v \in Bits(field[i], lo, hi)
    BY <1>2 DEF Mask
  <2>2. \A i \in DOMAIN field : v \in Bits(field[i], lo, hi) <=> Names(field[i], v, lo .. hi)
    BY <1>0, <1>1, <1>4, ItemBits DEF SensibleField
  <2> QED BY <2>1, <2>2 DEF Meant
<1> QED BY <1>0, <1>3, <1>4 DEF FieldRight

\* A line is taken when it makes sense, and its job matches when it is due.
LEMMA LineIs ==
  ASSUME NEW line \in AnyLine
  PROVE  /\ ParsesLine(line) <=> SensibleLine(line)
         /\ SensibleLine(line) =>
              \A tm \in AnyTime : JobMatches(Job(line), tm) <=> IsDue(line, tm)
<1>1. /\ line.min \in Seq(Items) /\ line.hour \in Seq(Items) /\ line.dom \in Seq(Items)
      /\ line.mon \in Seq(Items) /\ line.dow \in Seq(Items)
  BY DEF AnyLine
<1>2. \A field \in Seq(Items) :
        FieldRight(field, Minutes) /\ FieldRight(field, Hours) /\ FieldRight(field, Doms)
        /\ FieldRight(field, Mons) /\ FieldRight(field, Dows)
  BY Intervals, FieldIs
<1>3. SensibleLine(line) <=>
        /\ SensibleField(line.min, Minutes) /\ SensibleField(line.hour, Hours)
        /\ SensibleField(line.dom, Doms) /\ SensibleField(line.mon, Mons)
        /\ SensibleField(line.dow, Dows)
  <2>1. SensibleLine(line) <=> \A f \in Fields(line) : SensibleField(f[1], f[2])
    BY DEF SensibleLine, SensibleField
  <2> QED BY <2>1 DEF Fields
<1>4. ParsesLine(line) <=> SensibleLine(line)
  BY <1>1, <1>2, <1>3 DEF ParsesLine, FieldRight
<1>5. ASSUME SensibleLine(line), NEW tm \in AnyTime
      PROVE  JobMatches(Job(line), tm) <=> IsDue(line, tm)
  <2> DEFINE job == Job(line)
  <2>1. /\ tm.min \in 0 .. 59 /\ tm.hour \in 0 .. 23 /\ tm.mday \in 1 .. 31
        /\ tm.mon \in 0 .. 11 /\ tm.wday \in 0 .. 6 /\ tm.mon + 1 \in 1 .. 12
    BY DEF AnyTime
  <2>2. /\ tm.min \in job.mins <=> Meant(line.min, tm.min, Minutes)
        /\ tm.hour \in job.hours <=> Meant(line.hour, tm.hour, Hours)
        /\ tm.mon + 1 \in job.mons <=> Meant(line.mon, tm.mon + 1, Mons)
        /\ tm.mday \in job.doms <=> Meant(line.dom, tm.mday, Doms)
    <3>1. /\ tm.min \in Minutes /\ tm.hour \in Hours /\ tm.mday \in Doms /\ tm.mon + 1 \in Mons
      BY <2>1 DEF Minutes, Hours, Doms, Mons
    <3>2. /\ job.mins = Mask(line.min, Minutes) /\ job.hours = Mask(line.hour, Hours)
          /\ job.doms = Mask(line.dom, Doms) /\ job.mons = Mask(line.mon, Mons)
      BY DEF Job
    <3>3. /\ \A v \in Minutes : v \in Mask(line.min, Minutes) <=> Meant(line.min, v, Minutes)
          /\ \A v \in Hours : v \in Mask(line.hour, Hours) <=> Meant(line.hour, v, Hours)
          /\ \A v \in Doms : v \in Mask(line.dom, Doms) <=> Meant(line.dom, v, Doms)
          /\ \A v \in Mons : v \in Mask(line.mon, Mons) <=> Meant(line.mon, v, Mons)
      BY <1>1, <1>2, <1>5, <1>3, Zenon DEF FieldRight
    <3> HIDE DEF job
    <3> QED BY <3>1, <3>2, <3>3
  <2>3. tm.wday \in job.dows <=> \E d \in Dows : d % 7 = tm.wday /\ Meant(line.dow, d, Dows)
    <3> DEFINE mask == Mask(line.dow, Dows)
    <3>1. \A d \in Dows : d \in mask <=> Meant(line.dow, d, Dows)
      BY <1>1, <1>2, <1>5, <1>3, Zenon DEF FieldRight
    <3>2. job.dows = IF 7 \in mask THEN mask \cup {0} ELSE mask
      BY DEF Job, WithSunday
    <3>3. \A d \in Dows : d % 7 = tm.wday <=> d = tm.wday \/ (d = 7 /\ tm.wday = 0)
      BY <2>1 DEF Dows
    <3>4. tm.wday \in Dows /\ 7 \in Dows
      BY <2>1 DEF Dows
    <3> HIDE DEF mask
    <3> QED BY <3>1, <3>2, <3>3, <3>4
  <2>4. job.domAny = StarFirst(line.dom) /\ job.dowAny = StarFirst(line.dow)
    BY DEF Job
  <2> HIDE DEF job
  <2>5. JobMatches(job, tm) <=> IsDue(line, tm)
    <3> DEFINE month == Meant(line.dom, tm.mday, Doms)
               week == \E d \in Dows : d % 7 = tm.wday /\ Meant(line.dow, d, Dows)
    <3>1. DayMatches(job, tm) <=>
            IF StarFirst(line.dom) \/ StarFirst(line.dow) THEN month /\ week ELSE month \/ week
      BY <2>2, <2>3, <2>4, Zenon DEF DayMatches
    <3> QED BY <2>2, <3>1, Zenon DEF JobMatches, IsDue
  <2> QED BY <2>5 DEF job
<1> QED BY <1>4, <1>5

\* Every line of a crontab is taken exactly when it makes sense, and runs
\* exactly when its syntax says so, for any items, numbers and times.
THEOREM LinesAlwaysRunAsWritten == Spec => []LinesRunAsWritten
<1>1. RunsAsWritten(Lines, Times)
  BY LineIs, ScheduleAssumption DEF RunsAsWritten
<1>2. LinesRunAsWritten
  BY <1>1 DEF LinesRunAsWritten
<1> QED BY <1>2, PTL
=============================================================================

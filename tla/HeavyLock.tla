------------------------------ MODULE HeavyLock ------------------------------
(***************************************************************************)
(* The "heavy lock" of k85OS: one FreeRTOS mutex, taken with a timeout,    *)
(* that serialises the operations which need most of the internal RAM      *)
(* (HTTPS requests, firmware flashing).  main/core/heavy_lock.{h,cpp}      *)
(*                                                                         *)
(* Two kinds of task use it.  A client (the UI task, the hotspot's web     *)
(* server task) runs one guarded operation at a time, the guard living as  *)
(* long as the C++ function; it can also run an HTTPS operation that takes *)
(* no guard at all.  The background update checker is a loop whose guard   *)
(* lives until the end of the loop body, the long sleep included.          *)
(*                                                                         *)
(* Time is a countdown per task, in ticks; a tick happens only when no     *)
(* task is due to run, as the scheduler of an idle FreeRTOS system does.   *)
(***************************************************************************)
EXTENDS Naturals

CONSTANTS Clients,     \* tasks that call guarded operations
          Checker,     \* the ota_check task
          NoTask,      \* "nobody holds the mutex"
          Wait,        \* Wait[t]: ticks t is ready to wait for the mutex
          BootDelay,   \* ticks before the checker's first poll
          Interval     \* ticks between two polls of the checker

Tasks == Clients \cup {Checker}

ASSUME HeavyLockAssumption ==
    /\ Checker \notin Clients
    /\ NoTask \notin Tasks
    /\ Wait \in [Tasks -> Nat]
    /\ BootDelay \in Nat
    /\ Interval \in Nat \ {0}

VARIABLES holder,      \* the task that holds s_heavy_mutex, or NoTask
          pc,          \* where each task is
          timer        \* ticks left of the wait or sleep a task is in

vars == <<holder, pc, timer>>

\* "waiting": blocked in xSemaphoreTake.  "running": in a guarded operation.
\* "bare": in an HTTPS operation without the guard.  "delay", "poll",
\* "sleep" and "sleepHeld" are places of the checker's loop; in the last one
\* the iteration's guard is still alive.
ClientPlaces  == {"idle", "waiting", "running", "bare"}
CheckerPlaces == {"delay", "poll", "waiting", "running", "sleep", "sleepHeld"}

\* The places at which a task owns a K85HeavyLockGuard with held == true.
GuardLive == {"running", "sleepHeld"}

\* The places a task leaves because its time is up: xSemaphoreTake has a
\* timeout, and the others are vTaskDelay.
Timed == {"delay", "waiting", "sleep", "sleepHeld"}

Init ==
    /\ holder = NoTask
    /\ pc = [t \in Tasks |-> IF t = Checker THEN "delay" ELSE "idle"]
    /\ timer = [t \in Tasks |-> IF t = Checker THEN BootDelay ELSE 0]

Goto(t, place, ticks) ==
    /\ pc' = [pc EXCEPT ![t] = place]
    /\ timer' = [timer EXCEPT ![t] = ticks]

-----------------------------------------------------------------------------
(* The mutex: xSemaphoreTake and xSemaphoreGive behind K85HeavyLockGuard.  *)

\* xSemaphoreTake returns pdTRUE: the guard's constructor sets held.
Acquire(t) ==
    /\ pc[t] = "waiting"
    /\ holder = NoTask
    /\ holder' = t
    /\ Goto(t, "running", 0)

\* Where a task goes when the guard was not obtained: a client returns
\* false, the checker sleeps and polls again.
AfterTimeout(t) ==
    IF t = Checker THEN Goto(t, "sleep", Interval) ELSE Goto(t, "idle", 0)

\* xSemaphoreTake returns pdFALSE: the wait is over and someone still holds it.
GiveUp(t) ==
    /\ pc[t] = "waiting"
    /\ timer[t] = 0
    /\ holder # NoTask
    /\ AfterTimeout(t)
    /\ UNCHANGED holder

\* ~K85HeavyLockGuard
Release == holder' = NoTask

-----------------------------------------------------------------------------
(* Clients.                                                                *)

BeginGuarded(t) ==
    /\ pc[t] = "idle"
    /\ Goto(t, "waiting", Wait[t])
    /\ UNCHANGED holder

\* Bug to catch: an early return of the function skips the give.
EndGuardedLeaks(t) ==
    /\ pc[t] = "running"
    /\ holder' \in {holder, NoTask}
    /\ Goto(t, "idle", 0)

\* The guarded function returns, on whatever path: the guard goes with it.
EndGuarded(t) ==
    /\ pc[t] = "running"
    /\ Release
    /\ Goto(t, "idle", 0)

\* Settings > Check update, the firmware list and downloads talk HTTPS
\* without a guard.
BeginBare(t) ==
    /\ pc[t] = "idle"
    /\ Goto(t, "bare", 0)
    /\ UNCHANGED holder

EndBare(t) ==
    /\ pc[t] = "bare"
    /\ Goto(t, "idle", 0)
    /\ UNCHANGED holder

-----------------------------------------------------------------------------
(* The update checker, ota_check_task.                                     *)

\* A vTaskDelay without the guard is over: back to the head of the loop.
CheckerWakes ==
    /\ pc[Checker] \in {"delay", "sleep"}
    /\ timer[Checker] = 0
    /\ Goto(Checker, "poll", 0)
    /\ UNCHANGED holder

\* Head of the loop: without WiFi sleep again, else ask for the guard.
CheckerPolls(connected) ==
    /\ pc[Checker] = "poll"
    /\ IF connected THEN Goto(Checker, "waiting", Wait[Checker])
                    ELSE Goto(Checker, "sleep", Interval)
    /\ UNCHANGED holder

\* The GitHub request has been answered (or failed); the guard of this
\* iteration is still in scope during the vTaskDelay that follows.
CheckerFinishes ==
    /\ pc[Checker] = "running"
    /\ Goto(Checker, "sleepHeld", Interval)
    /\ UNCHANGED holder

\* The end of the loop body: the guard is destroyed.
CheckerLoops ==
    /\ pc[Checker] = "sleepHeld"
    /\ timer[Checker] = 0
    /\ Release
    /\ Goto(Checker, "poll", 0)

-----------------------------------------------------------------------------
\* One tick.  Nobody may be due: a waiter takes a free mutex, and a wait or
\* sleep that is over ends, before time goes on.
Tick ==
    /\ \E t \in Tasks : pc[t] \in Timed
    /\ \A t \in Tasks : pc[t] \in Timed => timer[t] > 0
    /\ holder = NoTask => \A t \in Tasks : pc[t] # "waiting"
    /\ pc[Checker] # "poll"
    /\ timer' = [t \in Tasks |-> IF pc[t] \in Timed THEN timer[t] - 1 ELSE timer[t]]
    /\ UNCHANGED <<holder, pc>>

Client(t) == BeginGuarded(t) \/ EndGuarded(t) \/ BeginBare(t) \/ EndBare(t)

CheckerStep ==
    \/ CheckerWakes
    \/ \E connected \in BOOLEAN : CheckerPolls(connected)
    \/ CheckerFinishes
    \/ CheckerLoops

Next ==
    \/ \E t \in Tasks : Acquire(t) \/ GiveUp(t)
    \/ \E t \in Clients : Client(t)
    \/ CheckerStep
    \/ Tick

Spec == Init /\ [][Next]_vars

\* The scheduler runs every ready task, every HTTP request ends (each
\* esp_http_client has a timeout), and time goes on however busy the tasks
\* are, hence the strong fairness of Tick.  A waiter is only promised one of
\* its two answers.  Nobody is obliged to begin an operation.
Fairness ==
    /\ \A t \in Tasks : WF_vars(Acquire(t) \/ GiveUp(t))
    /\ \A t \in Clients : WF_vars(EndGuarded(t)) /\ WF_vars(EndBare(t))
    /\ WF_vars(CheckerStep)
    /\ SF_vars(Tick)

FairSpec == Spec /\ Fairness

-----------------------------------------------------------------------------
(* Properties.                                                             *)

TypeOK ==
    /\ holder \in Tasks \cup {NoTask}
    /\ pc \in [Tasks -> ClientPlaces \cup CheckerPlaces]
    /\ timer \in [Tasks -> Nat]
    /\ \A t \in Clients : pc[t] \in ClientPlaces
    /\ pc[Checker] \in CheckerPlaces

\* The mutex is held by exactly the task whose guard is alive: no path out of
\* a guarded operation leaves it locked, and no task runs guarded without it.
GuardMatchesHolder == \A t \in Tasks : pc[t] \in GuardLive <=> holder = t

\* Two guarded operations never run at the same time (heavy_lock.h).
GuardedExclusive ==
    \A t, u \in Tasks : pc[t] \in GuardLive /\ pc[u] \in GuardLive => t = u

\* Whoever holds the mutex lets it go again, the sleeping checker included.
MutexComesFree == holder # NoTask ~> holder = NoTask

\* heavy_lock.h:17-19 promises that a task gives up only because somebody was
\* busy for longer than its timeout: a guarded operation is running.
GiveUpOnlyWhenBusy ==
    [][\A t \in Tasks : GiveUp(t) => \E u \in Tasks \ {t} : pc[u] = "running"]_vars
=============================================================================

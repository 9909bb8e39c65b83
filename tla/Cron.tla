-------------------------------- MODULE Cron ---------------------------------
(***************************************************************************)
(* The cron service, main/core/cron.cpp: the scheduler task, started and   *)
(* stopped by the UI, by scripts (one run by the scheduler included) and   *)
(* at boot, and the job table, reloaded from /littlefs/crontab by whoever  *)
(* changes that file.                                                      *)
(*                                                                         *)
(* A crontab is the sequence of its jobs; which of them are due in a       *)
(* minute is chosen when the minute begins (CronSchedule has the matching).*)
(* Every stretch of code under CronLock is one step.                       *)
(***************************************************************************)
EXTENDS Naturals, Sequences, SequencesExt, CronSchedule

CONSTANTS Jobs,        \* the jobs a crontab may hold
          Crontabs,    \* the contents the file may have
          DueSets,     \* the sets of jobs that a minute may make due
          Users,       \* tasks that call the cron functions
          Loops,       \* identities of scheduler tasks
          Nobody,      \* a null task handle
          MaxMinute    \* bound of the clock

ASSUME CronAssumption ==
    /\ Crontabs \subseteq Seq(Jobs) /\ <<>> \in Crontabs
    /\ DueSets \subseteq SUBSET Jobs
    /\ Nobody \notin Loops
    /\ MaxMinute \in Nat

VARIABLES file,        \* /littlefs/crontab
          table,       \* s_jobs
          run,         \* s_run
          task,        \* s_task
          upc,         \* where each user is
          buffer,      \* what a reloading user has read of the file
          minute,      \* minutes of the clock; 0 until NTP has set it
          due,         \* the jobs due in this minute
          loop,        \* the scheduler tasks

          reloaded,    \* history: the table changed since the last pass began
          served       \* history: minutes served since the task began or the
                       \* clock was last set back

file_vars == <<file, table, upc, buffer>>
clock     == <<minute, due>>
history   == <<reloaded, served>>
vars      == <<file_vars, run, task, clock, loop, history>>

\* A scheduler task: its place, whether it got its output buffer, last_minute,
\* the jobs due at the time its pass began, the index i of run_due, and the
\* indices of the jobs the pass has run.
NewTask(at, out) == [at |-> at, out |-> out, last |-> 0, due |-> {}, i |-> 0, ran |-> <<>>]
Dead == NewTask("dead", FALSE)
Fresh(out) == NewTask("head", out)

Init ==
    /\ file \in Crontabs
    /\ table = <<>>
    /\ run = FALSE /\ task = Nobody
    /\ upc = [u \in Users |-> "idle"]
    /\ buffer = [u \in Users |-> <<>>]
    /\ minute = 0 /\ due = {}
    /\ loop = [l \in Loops |-> Dead]
    /\ reloaded = FALSE /\ served = {}

-----------------------------------------------------------------------------
(* The callers.                                                            *)

\* An upload, a removal or a renaming changes the crontab and reloads it.
ChangeFile(u, contents) ==
    /\ upc[u] = "idle"
    /\ file' = contents
    /\ upc' = [upc EXCEPT ![u] = "reload"]
    /\ UNCHANGED <<table, buffer, run, task, clock, loop, history>>

\* k85_cron_reload, and the call of it in k85_cron_start.
Call(u, next) ==
    /\ upc[u] = "idle"
    /\ upc' = [upc EXCEPT ![u] = next]
    /\ UNCHANGED <<file, table, buffer, run, task, clock, loop, history>>

\* Where a user goes from its place.
From(u, next) == upc[u] \in DOMAIN next /\ upc' = [upc EXCEPT ![u] = next[upc[u]]]

\* The file is read and parsed without the lock.
ReadFile(u) ==
    /\ From(u, [reload |-> "install", start |-> "startInstall"])
    /\ buffer' = [buffer EXCEPT ![u] = file]
    /\ UNCHANGED <<file, table, run, task, clock, loop, history>>

\* There is no memory for the new table: the old one stays.
NoMemory(u) ==
    /\ From(u, [reload |-> "idle", start |-> "startTask"])
    /\ UNCHANGED <<file, table, buffer, run, task, clock, loop, history>>

\* The parsed table replaces s_jobs, under the lock.
Install(u) ==
    /\ From(u, [install |-> "idle", startInstall |-> "startTask"])
    /\ table' = buffer[u]
    /\ reloaded' = TRUE
    /\ buffer' = [buffer EXCEPT ![u] = <<>>]
    /\ UNCHANGED <<file, run, task, clock, loop, served>>

\* The rest of k85_cron_start, under the lock: a task that is about to stop
\* is kept.  The creation of a task may fail.
StartTask(u) ==
    /\ upc[u] = "startTask"
    /\ upc' = [upc EXCEPT ![u] = "idle"]
    /\ IF task # Nobody
       THEN run' = TRUE /\ UNCHANGED <<task, loop, served>>
       ELSE \/ \E l \in Loops, out \in BOOLEAN :
                  /\ loop[l] = Dead
                  /\ run' = TRUE /\ task' = l
                  /\ loop' = [loop EXCEPT ![l] = Fresh(out)]
                  /\ served' = {}
            \/ run' = FALSE /\ UNCHANGED <<task, loop, served>>
    /\ UNCHANGED <<file, table, buffer, clock, reloaded>>

\* Bug to catch: stop forgets the task, which is still in its loop.
StopForgetsTask(u) ==
    /\ upc[u] = "idle"
    /\ run' = FALSE /\ task' = Nobody
    /\ UNCHANGED <<file_vars, clock, loop, history>>

\* k85_cron_stop
Stop(u) ==
    /\ upc[u] = "idle"
    /\ run' = FALSE
    /\ UNCHANGED <<file_vars, task, clock, loop, history>>

-----------------------------------------------------------------------------
(* The scheduler task.                                                     *)

Goto(l, record) == loop' = [loop EXCEPT ![l] = record]

BeginPass(l) ==
    /\ Goto(l, [loop[l] EXCEPT !.at = "pass", !.last = minute, !.due = due,
                               !.i = 1, !.ran = <<>>])
    /\ reloaded' = FALSE
    /\ served' = served \cup {minute}

\* Bug to catch: a pass in every turn of the loop.
TurnForgetsMinute(l) ==
    /\ loop[l].at = "head"
    /\ IF loop[l].out /\ minute # 0
       THEN BeginPass(l)
       ELSE Goto(l, [loop[l] EXCEPT !.at = "sleep"]) /\ UNCHANGED history
    /\ UNCHANGED <<file_vars, run, task, clock>>

\* Head of the loop: a pass begins if the clock is set and shows a new minute.
Turn(l) ==
    /\ loop[l].at = "head"
    /\ IF loop[l].out /\ minute # 0 /\ minute # loop[l].last
       THEN BeginPass(l)
       ELSE Goto(l, [loop[l] EXCEPT !.at = "sleep"]) /\ UNCHANGED history
    /\ UNCHANGED <<file_vars, run, task, clock>>

\* Bug to catch: the pass ends at the first job that is not due.
LookBreaks(l) ==
    /\ loop[l].at = "pass"
    /\ IF loop[l].i <= Len(table) /\ table[loop[l].i] \in loop[l].due
       THEN Goto(l, [loop[l] EXCEPT !.at = "exec", !.ran = Append(@, loop[l].i)])
       ELSE Goto(l, [loop[l] EXCEPT !.at = "sleep"])
    /\ UNCHANGED <<file_vars, run, task, clock, history>>

\* run_due looks at one entry under the lock and copies its command.
Look(l) ==
    /\ loop[l].at = "pass"
    /\ IF loop[l].i > Len(table)
       THEN Goto(l, [loop[l] EXCEPT !.at = "sleep"])
       ELSE IF table[loop[l].i] \in loop[l].due
            THEN Goto(l, [loop[l] EXCEPT !.at = "exec", !.ran = Append(@, loop[l].i)])
            ELSE Goto(l, [loop[l] EXCEPT !.i = @ + 1])
    /\ UNCHANGED <<file_vars, run, task, clock, history>>

\* The script has run, without the lock, for as long as it takes.
Executed(l) ==
    /\ loop[l].at = "exec"
    /\ Goto(l, [loop[l] EXCEPT !.at = "pass", !.i = @ + 1])
    /\ UNCHANGED <<file_vars, run, task, clock, history>>

\* Bug to catch: s_run is tested before the lock is taken.
LeaveUnlocked(l) ==
    /\ \/ /\ loop[l].at = "sleep"
          /\ Goto(l, [loop[l] EXCEPT !.at = IF run THEN "head" ELSE "leave"])
          /\ UNCHANGED task
       \/ loop[l].at = "leave" /\ task' = Nobody /\ Goto(l, Dead)
    /\ UNCHANGED <<file_vars, run, clock, history>>

\* Bug to catch: the flag is looked at only once the clock is set.
LeaveAtWork(l) ==
    /\ loop[l].at = "sleep"
    /\ IF run \/ minute = 0
       THEN Goto(l, [loop[l] EXCEPT !.at = "head"]) /\ UNCHANGED task
       ELSE task' = Nobody /\ Goto(l, Dead)
    /\ UNCHANGED <<file_vars, run, clock, history>>

\* The five seconds are over: go on, or leave under the lock.
Leave(l) ==
    /\ loop[l].at = "sleep"
    /\ IF run THEN Goto(l, [loop[l] EXCEPT !.at = "head"]) /\ UNCHANGED task
              ELSE task' = Nobody /\ Goto(l, Dead)
    /\ UNCHANGED <<file_vars, run, clock, history>>

-----------------------------------------------------------------------------
\* The clock shows the next minute, or is set by NTP, possibly backwards.
ClockMoves(m, d) ==
    /\ m # minute
    /\ minute' = m /\ due' = d
    /\ served' = IF m < minute THEN {} ELSE served
    /\ UNCHANGED <<file_vars, run, task, loop, reloaded>>

User(u) ==
    \/ \E contents \in Crontabs : ChangeFile(u, contents)
    \/ \E next \in {"reload", "start"} : Call(u, next)
    \/ ReadFile(u) \/ NoMemory(u) \/ Install(u) \/ StartTask(u) \/ Stop(u)

Scheduler(l) == Turn(l) \/ Look(l) \/ Executed(l) \/ Leave(l)

Next ==
    \/ \E u \in Users : User(u)
    \/ \E l \in Loops : Scheduler(l)
    \/ \E m \in 1..MaxMinute, d \in DueSets : ClockMoves(m, d)

Spec == Init /\ [][Next]_vars

\* Every task is scheduled, and every script ends.
FairSpec == Spec /\ \A l \in Loops : WF_vars(Scheduler(l))

-----------------------------------------------------------------------------
(* Properties.                                                             *)

Places == {"dead", "head", "pass", "exec", "sleep"}
UserPlaces == {"idle", "reload", "install", "start", "startInstall", "startTask"}

LoopState == [at : Places, out : BOOLEAN, last : 0..MaxMinute, due : SUBSET Jobs,
              i : Nat, ran : Seq(Nat)]

TypeOK ==
    /\ file \in Crontabs
    /\ table \in Crontabs
    /\ run \in BOOLEAN
    /\ task \in Loops \cup {Nobody}
    /\ upc \in [Users -> UserPlaces]
    /\ buffer \in [Users -> Crontabs]
    /\ minute \in 0..MaxMinute
    /\ due \in SUBSET Jobs
    /\ reloaded \in BOOLEAN /\ served \subseteq 1..MaxMinute
    /\ loop \in [Loops -> LoopState]

\* There is never a second scheduler, however starts and stops from several
\* tasks fall together, and s_task names the one there is.
OneLoop == \A l \in Loops : loop[l].at # "dead" <=> task = l

\* A service that counts as started has a task in its loop: a start that
\* meets a task about to stop is not lost.
RunHasLoop == run => task # Nobody

\* A pass whose table was not reloaded meanwhile runs every due job, once and
\* in the order of the crontab.
PassRunsDueJobs ==
    \A l \in Loops :
        LET r == loop[l] IN
        r.at = "sleep" /\ r.i > 0 /\ ~reloaded =>
            /\ Range(r.ran) = {k \in 1 .. Len(table) : table[k] \in r.due}
            /\ \A a, b \in DOMAIN r.ran : a < b => r.ran[a] < r.ran[b]

\* A line of the crontab is taken exactly when it makes sense by the syntax in
\* cron.h, and runs exactly at the times that it names.  No state has a part in
\* this: it is looked at in the first ones.
LinesRunAsWritten == Init => RunsAsWritten(Lines, Times)

\* No minute is served twice by a task, unless the clock was set back: the one
\* minute it remembers is enough, through stops that a start overtakes too.
OnePassPerMinute ==
    [][\A l \in Loops :
          loop[l].at = "head" /\ loop'[l].at = "pass" => minute \notin served]_vars

\* A stopped service ends its task, unless it is started again (cron.h:14).
StopEnds == ~run ~> (task = Nobody \/ run)

\* cron.h:16 says that k85_cron_reload re-reads the crontab: when the last of
\* the reloads that follow every change has returned, the table is the file's.
TableFresh ==
    [][\A u \in Users :
          /\ upc[u] = "install" /\ upc'[u] = "idle"
          /\ \A v \in Users \ {u} : upc[v] = "idle"
          => table' = file']_vars
=============================================================================

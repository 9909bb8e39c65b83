------------------------------- MODULE MCCron --------------------------------
(* Two callers, room for two scheduler tasks, the crontab there or not.      *)
(* Which jobs a minute makes due is what their lines say: the first job runs *)
(* at the full and the half hour, the second one in every minute.            *)
(* The lines and times at the end are those for which the schedule is        *)
(* compared with its meaning: every form of item, at and past the ends of a  *)
(* field, alone, in pairs, and the two fields for days together.             *)
EXTENDS Cron

CONSTANTS j1, j2, u1, u2, c1, c2

Every == <<Item(None, None, None)>>
Always == [min |-> Every, hour |-> Every, dom |-> Every, mon |-> Every, dow |-> Every]
Time(min, mday, mon, wday) == [min |-> min, hour |-> 12, mday |-> mday, mon |-> mon, wday |-> wday]

MCJobs == {j1, j2}
MCCrontabs == {<<>>, <<j1, j2>>}
MCUsers == {u1, u2}
MCLoops == {c1, c2}

LineOf(j) == IF j = j1 THEN [Always EXCEPT !.min = <<Item(0, None, None), Item(30, None, None)>>]
                       ELSE Always
MCDueSets ==
    {{j \in MCJobs : JobMatches(Job(LineOf(j)), Time(m, 1, 0, 1))} : m \in 29 .. 30}

MCSymmetry == Permutations(MCUsers) \cup Permutations(MCLoops)

-----------------------------------------------------------------------------
MCSteps == {None, 0, 1, 2, 7}
ItemsAt(numbers) ==
    {Item(None, None, s) : s \in MCSteps}
    \cup {Item(a, b, s) : a \in numbers, b \in numbers \cup {None}, s \in MCSteps}

DayItems == {Item(None, None, None), Item(None, None, 2), Item(1, None, None),
             Item(2, 6, 2), Item(7, None, None), Item(5, 7, None)}
Days == {<<i>> : i \in DayItems} \cup {<<i, k>> : i \in DayItems, k \in DayItems}

MCLines ==
    {[Always EXCEPT !.min = <<i>>] : i \in ItemsAt({0, 1, 30, 59, 60})}
    \cup {[Always EXCEPT !.dom = <<i>>] : i \in ItemsAt({0, 1, 2, 31, 32})}
    \cup {[Always EXCEPT !.mon = <<i>>] : i \in ItemsAt({0, 1, 12, 13})}
    \cup {[Always EXCEPT !.dow = <<i>>] : i \in ItemsAt({0, 1, 6, 7, 8})}
    \cup {[Always EXCEPT !.dom = d, !.dow = w] : d \in Days, w \in Days}

MCTimes ==
    {Time(m, 1, 0, 1) : m \in {0, 1, 2, 7, 30, 59}}
    \cup {Time(0, 1, m, 1) : m \in {0, 1, 7, 11}}
    \cup {Time(0, d, 0, w) : d \in {1, 2, 4, 31}, w \in 0 .. 6}
=============================================================================

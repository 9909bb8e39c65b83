---------------------------- MODULE CronSchedule ----------------------------
(***************************************************************************)
(* When a line of the crontab is due: the parsing of its five fields and   *)
(* the matching of a job against the time, parse_field, parse_line and     *)
(* job_matches of main/core/cron.cpp, beside the meaning that the syntax   *)
(* in main/core/cron.h gives to the same line.                             *)
(*                                                                         *)
(* An item of a field is split already: what stands before the dash and    *)
(* after it, and the step after the slash, None where there is none.  A    *)
(* number of three digits at most is its value.  A mask is the set of its  *)
(* bits, which go to 59 of 64.                                             *)
(***************************************************************************)
EXTENDS Integers, Sequences

CONSTANTS None,   \* a part of an item that is not there
          Lines,  \* the lines that are looked at
          Times   \* the local times they are compared at

\* "*" is an item without a first number.
Item(first, last, step) == [first |-> first, last |-> last, step |-> step]

\* The five fields with the values they may have.
Minutes == 0 .. 59
Hours   == 0 .. 23
Doms    == 1 .. 31
Mons    == 1 .. 12
Dows    == 0 .. 7

\* all_digits lets three digits through at most; a star has no last number.
Numbers == 0 .. 999
Items ==
    LET Part == Numbers \cup {None}
    IN  {item \in [first : Part, last : Part, step : Part] : item.first = None => item.last = None}

\* Fields of any length: what parse_line refuses at 40 characters is left out.
AnyLine ==
    [min : Seq(Items), hour : Seq(Items), dom : Seq(Items), mon : Seq(Items), dow : Seq(Items)]

\* The fields of a struct tm.
AnyTime == [min : 0 .. 59, hour : 0 .. 23, mday : 1 .. 31, mon : 0 .. 11, wday : 0 .. 6]

ASSUME ScheduleAssumption ==
    /\ None \notin Int
    /\ Lines \subseteq AnyLine /\ Times \subseteq AnyTime

Lowest(range) == CHOOSE v \in range : \A u \in range : v <= u
Highest(range) == CHOOSE v \in range : \A u \in range : v >= u

-----------------------------------------------------------------------------
(* What the code does.                                                     *)

\* The bits that the loop from a to b sets.
Steps(a, b, step) ==
    LET from[v \in Int] == IF v > b THEN {} ELSE {v} \cup from[v + step]
    IN  from[a]

\* The last number of an item; one number with a step runs to the end.
LastOf(item, hi) ==
    IF item.last # None THEN item.last
    ELSE IF item.first = None \/ item.step # None THEN hi ELSE item.first

FirstOf(item, lo) == IF item.first = None THEN lo ELSE item.first

\* One turn of parse_field: whether the item is taken, and the bits it sets.
Taken(item, lo, hi) ==
    /\ item.step # None => item.step > 0
    /\ FirstOf(item, lo) >= lo
    /\ LastOf(item, hi) <= hi
    /\ FirstOf(item, lo) <= LastOf(item, hi)

Bits(item, lo, hi) ==
    Steps(FirstOf(item, lo), LastOf(item, hi), IF item.step = None THEN 1 ELSE item.step)

\* parse_field: one bad item spoils the field, and so does an empty mask.
ParsesField(field, range) ==
    /\ field # <<>>
    /\ \A i \in DOMAIN field : Taken(field[i], Lowest(range), Highest(range))

Mask(field, range) ==
    UNION {Bits(field[i], Lowest(range), Highest(range)) : i \in DOMAIN field}

WithSunday(mask) == IF 7 \in mask THEN mask \cup {0} ELSE mask

\* A field counts as unrestricted by its first character.
StarFirst(field) == field[1].first = None

\* parse_line, for fields that are all taken.
Job(line) ==
    [mins |-> Mask(line.min, Minutes), hours |-> Mask(line.hour, Hours),
     doms |-> Mask(line.dom, Doms), mons |-> Mask(line.mon, Mons),
     dows |-> WithSunday(Mask(line.dow, Dows)),
     domAny |-> StarFirst(line.dom), dowAny |-> StarFirst(line.dow)]

ParsesLine(line) ==
    /\ ParsesField(line.min, Minutes) /\ ParsesField(line.hour, Hours)
    /\ ParsesField(line.dom, Doms) /\ ParsesField(line.mon, Mons)
    /\ ParsesField(line.dow, Dows)

\* Bug to catch: both days have to match, whether or not both are restricted.
DayMatchesBoth(job, tm) == tm.mday \in job.doms /\ tm.wday \in job.dows

DayMatches(job, tm) ==
    LET dom == tm.mday \in job.doms
        dow == tm.wday \in job.dows
    IN  IF ~job.domAny /\ ~job.dowAny THEN dom \/ dow ELSE dom /\ dow

\* job_matches; the month of the time counts from 0.
JobMatches(job, tm) ==
    /\ tm.min \in job.mins /\ tm.hour \in job.hours /\ (tm.mon + 1) \in job.mons
    /\ DayMatches(job, tm)

-----------------------------------------------------------------------------
(* What a line means: *  */N  a  a-b  a-b/N  a,b,c, and day 7 is day 0.      *)

\* Whether value v is one of those the item names.
Names(item, v, range) ==
    LET every == IF item.step = None THEN 1 ELSE item.step
        after(first) == v >= first /\ (v - first) % every = 0
    IN  IF item.first = None THEN after(Lowest(range))
        ELSE /\ after(item.first)
             /\ IF item.last # None THEN v <= item.last
                                    ELSE item.step # None \/ v = item.first

\* Whether an item can be meant: a range that begins and ends within bounds.
Sensible(item, range) ==
    /\ item.step # 0
    /\ item.first # None => item.first \in range
    /\ item.last # None => item.last \in range /\ item.first <= item.last

Fields(line) ==
    {<<line.min, Minutes>>, <<line.hour, Hours>>, <<line.dom, Doms>>,
     <<line.mon, Mons>>, <<line.dow, Dows>>}

SensibleLine(line) ==
    \A f \in Fields(line) : f[1] # <<>> /\ \A i \in DOMAIN f[1] : Sensible(f[1][i], f[2])

Meant(field, v, range) == \E i \in DOMAIN field : Names(field[i], v, range)

\* The line is due: a day counts if it is one of the month or of the week where
\* both are restricted, and if it is both where one begins with a star.
IsDue(line, tm) ==
    LET month == Meant(line.dom, tm.mday, Doms)
        week  == \E d \in Dows : d % 7 = tm.wday /\ Meant(line.dow, d, Dows)
    IN  /\ Meant(line.min, tm.min, Minutes) /\ Meant(line.hour, tm.hour, Hours)
        /\ Meant(line.mon, tm.mon + 1, Mons)
        /\ IF StarFirst(line.dom) \/ StarFirst(line.dow) THEN month /\ week ELSE month \/ week

-----------------------------------------------------------------------------
\* A line is taken exactly when it makes sense, and a job that was made of it is
\* run exactly when the line says so.
RunsAsWritten(lines, times) ==
    \A line \in lines :
        /\ ParsesLine(line) <=> SensibleLine(line)
        /\ SensibleLine(line) =>
             LET job == Job(line) IN \A tm \in times : JobMatches(job, tm) <=> IsDue(line, tm)
=============================================================================

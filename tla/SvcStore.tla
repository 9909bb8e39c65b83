------------------------------ MODULE SvcStore ------------------------------
(***************************************************************************)
(* The services store, main/core/svc_cfg.cpp: key=value lines in the file  *)
(* k85_svc.cfg, rewritten as a whole through k85_svc.tmp under one mutex   *)
(* by whichever task sets a key.                                           *)
(*                                                                         *)
(* A file's content is the value of every key (its lines are rewritten     *)
(* without blank lines and without a second line of a key).  Within the    *)
(* mutex only a power cut can come between the steps.  LittleFS makes a    *)
(* file that is written appear when it is closed, and renames atomically.  *)
(***************************************************************************)
EXTENDS Naturals

CONSTANTS Callers,    \* tasks
          Keys,
          Values,
          None,       \* no value
          Fitting,    \* the contents that fit into SVC_MAX bytes
          MaxFaults,  \* bound of the faults
          Nobody,     \* the mutex is free
          Missing     \* the file does not exist

Contents == [Keys -> Values \cup {None}]
Requests == [key : Keys, val : Values \cup {None}]
NoRequest == [key |-> None, val |-> None]
Empty == [k \in Keys |-> None]

\* What fits still fits with a line less.
ASSUME SvcStoreAssumption ==
    /\ None \notin Values
    /\ Fitting \subseteq Contents /\ Empty \in Fitting
    /\ \A content \in Fitting, k \in Keys : [content EXCEPT ![k] = None] \in Fitting
    /\ MaxFaults \in Nat
    /\ Nobody \notin Callers
    /\ Missing \notin Contents

VARIABLES file,     \* /littlefs/k85_svc.cfg
          tmp,      \* /littlefs/k85_svc.tmp
          lock,     \* svc_mtx
          pc,       \* where each caller is
          arg,      \* the arguments of its k85_svc_set_str
          buf,      \* the lines it has read, then the lines it writes
          blind,    \* the holder of the mutex could not read the file
          got,      \* the result of its last k85_svc_get_str
          faults    \* number of faults so far

files == <<file, tmp>>
calls == <<lock, pc, arg, buf, blind, got>>
vars  == <<files, calls, faults>>

\* svc_read_all: no file reads as an empty one.
Lines(f) == IF f = Missing THEN Empty ELSE f

Init ==
    /\ file = Missing /\ tmp = Missing
    /\ lock = Nobody
    /\ pc = [c \in Callers |-> "idle"]
    /\ arg = [c \in Callers |-> NoRequest]
    /\ buf = [c \in Callers |-> Empty]
    /\ blind = FALSE
    /\ got = [c \in Callers |-> None]
    /\ faults = 0

-----------------------------------------------------------------------------
Goto(c, place) == pc' = [pc EXCEPT ![c] = place]

\* The call returns and its buffers are freed.
End(c) ==
    /\ Goto(c, "idle")
    /\ arg' = [arg EXCEPT ![c] = NoRequest]
    /\ buf' = [buf EXCEPT ![c] = Empty]

\* ~SvcLock, and the return.
Leave(c) == End(c) /\ lock' = Nobody /\ blind' = FALSE

\* Something fails.
Failure == faults < MaxFaults /\ faults' = faults + 1

\* Bug to catch: the file is read without the mutex.
GetUnlocked(c, k) ==
    /\ pc[c] = "idle"
    /\ got' = [got EXCEPT ![c] = Lines(file)[k]]
    /\ UNCHANGED <<files, lock, pc, arg, buf, blind, faults>>

\* k85_svc_get_str: the file is read under the mutex.  Without memory, or if
\* the file cannot be opened, the key has no value.
Get(c, k) ==
    /\ pc[c] = "idle"
    /\ \/ /\ lock = Nobody
          /\ got' = [got EXCEPT ![c] = Lines(file)[k]]
          /\ UNCHANGED faults
       \/ /\ Failure
          /\ got' = [got EXCEPT ![c] = None]
    /\ UNCHANGED <<files, lock, pc, arg, buf, blind>>

\* k85_svc_set_str is called; without memory it returns at once.
Set(c, k, v) ==
    /\ pc[c] = "idle"
    /\ Goto(c, "take")
    /\ arg' = [arg EXCEPT ![c] = [key |-> k, val |-> v]]
    /\ UNCHANGED <<files, lock, buf, blind, got, faults>>

NoMemory(c) ==
    /\ pc[c] = "take"
    /\ Failure
    /\ End(c)
    /\ UNCHANGED <<files, lock, blind, got>>

\* The mutex is taken and the file read; a file that cannot be opened reads
\* as an empty one, and its lines will be lost.
Take(c) ==
    /\ pc[c] = "take" /\ lock = Nobody
    /\ lock' = c
    /\ Goto(c, "build")
    /\ \/ buf' = [buf EXCEPT ![c] = Lines(file)] /\ UNCHANGED <<blind, faults>>
       \/ buf' = [buf EXCEPT ![c] = Empty] /\ blind' = TRUE /\ Failure
    /\ UNCHANGED <<files, arg, got>>

\* The lines of the other keys are kept; the key's own line follows if there
\* is room for it.
Build(c) ==
    /\ pc[c] = "build"
    /\ LET k   == arg[c].key
           v   == arg[c].val
           new == [buf[c] EXCEPT ![k] = v]
       IN buf' = [buf EXCEPT ![c] = IF v = None \/ new \in Fitting
                                    THEN new
                                    ELSE [buf[c] EXCEPT ![k] = None]]
    /\ Goto(c, "write")
    /\ UNCHANGED <<files, lock, arg, blind, got, faults>>

\* Bug to catch: a failure returns without giving the mutex.
WriteKeepsLock(c) ==
    /\ pc[c] = "write"
    /\ \/ /\ tmp' = buf[c] /\ Goto(c, "unlink")
          /\ UNCHANGED <<lock, arg, buf, blind, faults>>
       \/ tmp' \in {tmp, Missing} /\ End(c) /\ Failure /\ UNCHANGED <<lock, blind>>
    /\ UNCHANGED <<file, got>>

\* The temporary file is written and closed; a file that
\* cannot be written is removed, one that cannot be opened stays as it was.
Write(c) ==
    /\ pc[c] = "write"
    /\ \/ /\ tmp' = buf[c] /\ Goto(c, "unlink")
          /\ UNCHANGED <<lock, arg, buf, blind, faults>>
       \/ tmp' \in {tmp, Missing} /\ Leave(c) /\ Failure
    /\ UNCHANGED <<file, got>>

Unlink(c) ==
    /\ pc[c] = "unlink"
    /\ file' = Missing
    /\ Goto(c, "rename")
    /\ UNCHANGED <<tmp, lock, arg, buf, blind, got, faults>>

\* The temporary file becomes the file; if that fails it is removed too.
Rename(c) ==
    /\ pc[c] = "rename"
    /\ \/ file' = tmp /\ UNCHANGED faults
       \/ UNCHANGED file /\ Failure
    /\ tmp' = Missing
    /\ Leave(c)
    /\ UNCHANGED got

\* The power is cut.  Nobody looks at the temporary file afterwards.
Crash ==
    /\ Failure
    /\ lock' = Nobody /\ blind' = FALSE
    /\ pc' = [c \in Callers |-> "idle"]
    /\ arg' = [c \in Callers |-> NoRequest]
    /\ buf' = [c \in Callers |-> Empty]
    /\ got' = [c \in Callers |-> None]
    /\ UNCHANGED files

SetStep(c) ==
    NoMemory(c) \/ Take(c) \/ Build(c) \/ Write(c) \/ Unlink(c) \/ Rename(c)

Next ==
    \/ \E c \in Callers, k \in Keys : Get(c, k)
    \/ \E c \in Callers, k \in Keys, v \in Values \cup {None} : Set(c, k, v)
    \/ \E c \in Callers : SetStep(c)
    \/ Crash

Spec == Init /\ [][Next]_vars

\* A task that holds the mutex goes on.
Fairness == \A c \in Callers : WF_vars(lock = c /\ SetStep(c))

FairSpec == Spec /\ Fairness

-----------------------------------------------------------------------------
(* Properties.                                                             *)

TypeOK ==
    /\ file \in Contents \cup {Missing}
    /\ tmp \in Contents \cup {Missing}
    /\ lock \in Callers \cup {Nobody}
    /\ pc \in [Callers -> {"idle", "take", "build", "write", "unlink", "rename"}]
    /\ arg \in [Callers -> Requests \cup {NoRequest}]
    /\ buf \in [Callers -> Contents]
    /\ blind \in BOOLEAN
    /\ got \in [Callers -> Values \cup {None}]
    /\ faults \in 0..MaxFaults

\* The file fits into the buffers of SVC_MAX bytes it is read with: a line
\* beyond them would be lost in the next rewriting.
FileFits == file # Missing => file \in Fitting

\* The mutex comes free again whatever fails.
LockComesFree == lock # Nobody ~> lock = Nobody

\* A call takes effect when the old file is unlinked: from then on the
\* temporary file is what a caller will read.
StoreSeen == IF \E c \in Callers : pc[c] = "rename" THEN tmp ELSE Lines(file)

OpSeen == [c \in Callers |-> IF pc[c] = "idle" THEN "idle"
                             ELSE IF pc[c] = "rename" THEN "applied"
                             ELSE IF lock = c /\ blind THEN "broken" ELSE "called"]

Abstract == INSTANCE KeyValueStore WITH store <- StoreSeen, op <- OpSeen

\* To its callers the store is the abstract one: every call takes effect at
\* one moment between its start and its return, and nothing stored is lost,
\* whatever calls overlap, but by a fault.
IsKeyValueStore == Abstract!Spec
=============================================================================

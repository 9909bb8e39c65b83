--------------------------- MODULE KeyValueStore ----------------------------
(***************************************************************************)
(* What the services store (main/core/svc_cfg.h) is to its callers: a map  *)
(* from keys to values on which every call takes effect at one moment      *)
(* between its start and its return.  Only a fault (no memory, a failing   *)
(* file operation, a power cut) may lose a call, or what is stored.        *)
(***************************************************************************)
EXTENDS Naturals

CONSTANTS Callers,    \* tasks
          Keys,
          Values,
          None,       \* no value
          Fitting,    \* the contents that fit into SVC_MAX bytes
          MaxFaults   \* bound of the faults

VARIABLES store,    \* the value of every key
          op,       \* how far the call of each caller has come
          arg,      \* its arguments
          got,      \* what the last k85_svc_get_str of each caller returned
          faults    \* number of faults so far

vars == <<store, op, arg, got, faults>>

Contents == [Keys -> Values \cup {None}]
Requests == [key : Keys, val : Values \cup {None}]
NoRequest == [key |-> None, val |-> None]
Empty == [k \in Keys |-> None]

\* The content after a call: a line that does not fit any more is dropped, and
\* the old line of its key is gone by then.
Assigned(content, k, v) ==
    LET new == [content EXCEPT ![k] = v]
    IN IF v = None \/ new \in Fitting THEN new ELSE [content EXCEPT ![k] = None]

Init ==
    /\ store = Empty
    /\ op = [c \in Callers |-> "idle"]
    /\ arg = [c \in Callers |-> NoRequest]
    /\ got = [c \in Callers |-> None]
    /\ faults = 0

Call(c, k, v) ==
    /\ op[c] = "idle"
    /\ op' = [op EXCEPT ![c] = "called"]
    /\ arg' = [arg EXCEPT ![c] = [key |-> k, val |-> v]]
    /\ UNCHANGED <<store, got, faults>>

Apply(c) ==
    /\ op[c] = "called"
    /\ op' = [op EXCEPT ![c] = "applied"]
    /\ store' = Assigned(store, arg[c].key, arg[c].val)
    /\ UNCHANGED <<arg, got, faults>>

\* A call that could not read what is stored replaces all of it.
ApplyBroken(c) ==
    /\ op[c] = "broken"
    /\ op' = [op EXCEPT ![c] = "applied"]
    /\ store' = Assigned(Empty, arg[c].key, arg[c].val)
    /\ UNCHANGED <<arg, got, faults>>

Return(c) ==
    /\ op[c] = "applied"
    /\ op' = [op EXCEPT ![c] = "idle"]
    /\ arg' = [arg EXCEPT ![c] = NoRequest]
    /\ UNCHANGED <<store, got, faults>>

Get(c, k) ==
    /\ op[c] = "idle"
    /\ got' = [got EXCEPT ![c] = store[k]]
    /\ UNCHANGED <<store, op, arg, faults>>

\* A fault may empty the store, and may end calls before they are applied or
\* break them.
Fault ==
    /\ faults < MaxFaults
    /\ faults' = faults + 1
    /\ store' \in {store, Empty}
    /\ op' \in [Callers -> {"idle", "called", "broken", "applied"}]
    /\ \A c \in Callers :
          \/ op'[c] \in {op[c], "idle"}
          \/ op[c] = "called" /\ op'[c] = "broken"
    /\ got' \in [Callers -> Values \cup {None}]
    /\ arg' = [c \in Callers |-> IF op'[c] = "idle" THEN NoRequest ELSE arg[c]]

Next ==
    \/ \E c \in Callers, k \in Keys, v \in Values \cup {None} : Call(c, k, v)
    \/ \E c \in Callers : Apply(c) \/ ApplyBroken(c) \/ Return(c)
    \/ \E c \in Callers, k \in Keys : Get(c, k)
    \/ Fault

Spec == Init /\ [][Next]_vars
=============================================================================

--------------------------- MODULE HeavyLockProofs ---------------------------
(***************************************************************************)
(* The safety of the heavy lock, for any number of client tasks and any    *)
(* timeouts.  The inductive invariant is TypeOK /\ GuardMatchesHolder: the *)
(* mutex remembers whose guard is alive, so two live guards would be two   *)
(* values of one variable.                                                 *)
(***************************************************************************)
EXTENDS HeavyLock, TLAPS

\* Every state has the variables in their types.
THEOREM TypeCorrect == Spec => []TypeOK
<1> USE HeavyLockAssumption DEF HeavyLockAssumption, Tasks, TypeOK, ClientPlaces, CheckerPlaces
<1>1. Init => TypeOK
  BY DEF Init
<1>2. TypeOK /\ [Next]_vars => TypeOK'
  <2> SUFFICES ASSUME TypeOK, [Next]_vars PROVE TypeOK'
    OBVIOUS
  <2>1. ASSUME NEW t \in Tasks, Acquire(t) PROVE TypeOK'
    BY <2>1 DEF Acquire, Goto
  <2>2. ASSUME NEW t \in Tasks, GiveUp(t) PROVE TypeOK'
    BY <2>2 DEF GiveUp, AfterTimeout, Goto
  <2>3. ASSUME NEW t \in Clients, Client(t) PROVE TypeOK'
    BY <2>3 DEF Client, BeginGuarded, EndGuarded, BeginBare, EndBare, Release, Goto
  <2>4. CASE CheckerStep
    <3>1. CASE CheckerWakes
      BY <3>1 DEF CheckerWakes, Goto
    <3>2. ASSUME NEW connected \in BOOLEAN, CheckerPolls(connected) PROVE TypeOK'
      BY <3>2 DEF CheckerPolls, Goto
    <3>3. CASE CheckerFinishes
      BY <3>3 DEF CheckerFinishes, Goto
    <3>4. CASE CheckerLoops
      BY <3>4 DEF CheckerLoops, Release, Goto
    <3> QED
      BY <2>4, <3>1, <3>2, <3>3, <3>4 DEF CheckerStep
  <2>5. CASE Tick
    BY <2>5 DEF Tick
  <2>6. CASE UNCHANGED vars
    BY <2>6 DEF vars
  <2> QED
    BY <2>1, <2>2, <2>3, <2>4, <2>5, <2>6 DEF Next
<1> QED
  BY <1>1, <1>2, PTL DEF Spec

\* The mutex is held exactly while its owner's guard is alive.
THEOREM GuardCorrect == Spec => []GuardMatchesHolder
<1> USE HeavyLockAssumption DEF HeavyLockAssumption, Tasks, GuardMatchesHolder, GuardLive
<1>1. Init => GuardMatchesHolder
  BY DEF Init
<1>2. TypeOK /\ GuardMatchesHolder /\ [Next]_vars => GuardMatchesHolder'
  <2> SUFFICES ASSUME TypeOK, GuardMatchesHolder, [Next]_vars
               PROVE  GuardMatchesHolder'
    OBVIOUS
  <2> USE DEF TypeOK
  <2>1. ASSUME NEW t \in Tasks, Acquire(t) PROVE GuardMatchesHolder'
    BY <2>1 DEF Acquire, Goto
  <2>2. ASSUME NEW t \in Tasks, GiveUp(t) PROVE GuardMatchesHolder'
    BY <2>2 DEF GiveUp, AfterTimeout, Goto
  <2>3. ASSUME NEW t \in Clients, Client(t) PROVE GuardMatchesHolder'
    <3>1. CASE BeginGuarded(t) \/ BeginBare(t) \/ EndBare(t)
      BY <3>1 DEF BeginGuarded, BeginBare, EndBare, Goto
    <3>2. CASE EndGuarded(t)
      BY <3>2 DEF EndGuarded, Release, Goto
    <3> QED
      BY <2>3, <3>1, <3>2 DEF Client
  <2>4. CASE CheckerStep
    <3>1. CASE CheckerWakes
      BY <3>1 DEF CheckerWakes, Goto
    <3>2. ASSUME NEW connected \in BOOLEAN, CheckerPolls(connected)
          PROVE GuardMatchesHolder'
      BY <3>2 DEF CheckerPolls, Goto
    <3>3. CASE CheckerFinishes
      BY <3>3 DEF CheckerFinishes, Goto
    <3>4. CASE CheckerLoops
      BY <3>4 DEF CheckerLoops, Release, Goto
    <3> QED
      BY <2>4, <3>1, <3>2, <3>3, <3>4 DEF CheckerStep
  <2>5. CASE Tick
    BY <2>5 DEF Tick
  <2>6. CASE UNCHANGED vars
    BY <2>6 DEF vars
  <2> QED
    BY <2>1, <2>2, <2>3, <2>4, <2>5, <2>6 DEF Next
<1> QED
  BY <1>1, <1>2, TypeCorrect, PTL DEF Spec

\* Two guarded operations never overlap, the sleeping checker's included.
THEOREM GuardsExclude == Spec => []GuardedExclusive
<1>1. GuardMatchesHolder => GuardedExclusive
  BY DEF GuardMatchesHolder, GuardedExclusive
<1> QED
  BY <1>1, GuardCorrect, PTL
=============================================================================

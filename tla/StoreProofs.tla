---------------------------- MODULE StoreProofs -----------------------------
(***************************************************************************)
(* Proofs about what is kept in files.                                     *)
(*                                                                         *)
(* Services (SvcStore): the types, and that it is a KeyValueStore, for any *)
(* tasks, keys and values and with any number of faults.                   *)
(*                                                                         *)
(* Files (FileReplace): for any targets and uploads, no part of an FTP     *)
(* upload gets under the name of a target, none vanishes unreported, and   *)
(* the job table follows the crontab.  What is moved into place was closed *)
(* by its writer, and lies beside the target until then.                   *)
(*                                                                         *)
(* Configuration (ConfigStore): for any tasks and settings, a start brings *)
(* back what was saved last.  A text that no task has overtaken is that of *)
(* the configuration.                                                      *)
(***************************************************************************)
EXTENDS SvcStore, ConfigStore, FileReplace, SequenceTheorems, TLAPS

-----------------------------------------------------------------------------
(* The services.                                                           *)

Held == {"build", "write", "unlink", "rename"}

\* What the holder of the mutex has read.
Base == IF blind THEN Empty ELSE Lines(file)

\* What the caller's request makes of it.
Result(c) == Abstract!Assigned(Base, arg[c].key, arg[c].val)

Requesting == \A c \in Callers : pc[c] # "idle" => arg[c] \in Requests
HolderKnown == \A c \in Callers : lock = c <=> pc[c] \in Held
BlindHeld == blind => lock # Nobody
BufferRight == \A c \in Callers :
    /\ pc[c] = "build" => buf[c] = Base
    /\ pc[c] = "write" => buf[c] = Result(c)
    /\ pc[c] = "unlink" => tmp = Result(c)
    /\ pc[c] = "rename" => file = Missing /\ tmp \in Fitting

IInv == Requesting /\ HolderKnown /\ BlindHeld /\ FileFits /\ BufferRight

-----------------------------------------------------------------------------
(* Types.                                                                  *)

LEMMA EmptyTyped == Empty \in Contents
  BY DEF Empty, Contents

LEMMA LinesTyped == ASSUME NEW f \in Contents \cup {Missing} PROVE Lines(f) \in Contents
  BY EmptyTyped DEF Lines

LEMMA FaultsTyped == ASSUME faults \in 0..MaxFaults, Failure PROVE faults' \in 0..MaxFaults
  BY SvcStoreAssumption DEF SvcStoreAssumption, Failure

LEMMA TypeInit == Init => TypeOK
<1> SUFFICES ASSUME Init PROVE TypeOK
  OBVIOUS
<1>1. faults \in 0..MaxFaults
  BY SvcStoreAssumption DEF SvcStoreAssumption, Init
<1>2. pc \in [Callers -> {"idle", "take", "build", "write", "unlink", "rename"}]
  BY DEF Init
<1>3. /\ arg \in [Callers -> Requests \cup {NoRequest}]
      /\ buf \in [Callers -> Contents]
      /\ got \in [Callers -> Values \cup {None}]
  BY EmptyTyped DEF Init
<1>4. /\ file \in Contents \cup {Missing} /\ tmp \in Contents \cup {Missing}
      /\ lock \in Callers \cup {Nobody} /\ blind \in BOOLEAN
  BY DEF Init
<1> QED BY <1>1, <1>2, <1>3, <1>4 DEF TypeOK

LEMMA TypeStep == TypeOK /\ [Next]_vars => TypeOK'
<1> USE SvcStoreAssumption DEF SvcStoreAssumption
<1> SUFFICES ASSUME TypeOK, [Next]_vars PROVE TypeOK'
  OBVIOUS
<1> USE FaultsTyped DEF TypeOK, files, Goto
<1>1. ASSUME NEW c \in Callers, NEW k \in Keys, Get(c, k)
      PROVE  TypeOK'
  <2>1. Lines(file)[k] \in Values \cup {None}
    BY LinesTyped DEF Contents
  <2> QED BY <1>1, <2>1 DEF Get
<1>2. ASSUME NEW c \in Callers, NEW k \in Keys, NEW v \in Values \cup {None}, Set(c, k, v)
      PROVE  TypeOK'
  BY <1>2 DEF Set, Requests
<1>3. ASSUME NEW c \in Callers, NoMemory(c)
      PROVE  TypeOK'
  BY <1>3, EmptyTyped DEF NoMemory, End
<1>4. ASSUME NEW c \in Callers, Take(c)
      PROVE  TypeOK'
  BY <1>4, EmptyTyped, LinesTyped DEF Take
<1>5. ASSUME NEW c \in Callers, Build(c)
      PROVE  TypeOK'
  BY <1>5 DEF Build, Contents
<1>6. ASSUME NEW c \in Callers, Write(c)
      PROVE  TypeOK'
  <2>1. CASE tmp' = buf[c] /\ Goto(c, "unlink") /\ UNCHANGED <<file, lock, arg, buf, blind, got, faults>>
    BY <2>1
  <2>2. CASE tmp' \in {tmp, Missing} /\ Leave(c) /\ Failure /\ UNCHANGED <<file, got>>
    BY <2>2, EmptyTyped DEF Leave, End
  <2> QED BY <1>6, <2>1, <2>2 DEF Write
<1>7. ASSUME NEW c \in Callers, Unlink(c)
      PROVE  TypeOK'
  BY <1>7 DEF Unlink
<1>8. ASSUME NEW c \in Callers, Rename(c)
      PROVE  TypeOK'
  BY <1>8, EmptyTyped DEF Rename, Leave, End
<1>9. CASE Crash
  BY <1>9, EmptyTyped DEF Crash
<1>10. CASE UNCHANGED vars
  BY <1>10 DEF vars, calls
<1> QED BY <1>1, <1>2, <1>3, <1>4, <1>5, <1>6, <1>7, <1>8, <1>9, <1>10 DEF Next, SetStep

\* Every variable of the services store keeps its type.
THEOREM TypeCorrect == Spec => []TypeOK
<1> QED BY TypeInit, TypeStep, PTL DEF Spec

-----------------------------------------------------------------------------
(* The rewriting of the file.  While the mutex is held its holder's buffer,  *)
(* and after the writing the temporary file, is the request applied to what  *)
(* the file held when the mutex was taken; nobody else touches either.       *)

LEMMA AssignedFits ==
  ASSUME NEW content \in Fitting, NEW r \in Requests
  PROVE  Abstract!Assigned(content, r.key, r.val) \in Fitting
<1> USE SvcStoreAssumption DEF SvcStoreAssumption
<1>1. r.key \in Keys /\ r.val \in Values \cup {None}
  BY DEF Requests
<1>2. [content EXCEPT ![r.key] = None] \in Fitting
  BY <1>1
<1> QED BY <1>2 DEF Abstract!Assigned

LEMMA BaseFits == ASSUME FileFits PROVE Base \in Fitting
  BY SvcStoreAssumption DEF SvcStoreAssumption, FileFits, Base, Lines

LEMMA IInit == Init => IInv
<1> SUFFICES ASSUME Init PROVE IInv
  OBVIOUS
<1>1. \A c \in Callers : pc[c] = "idle"
  BY DEF Init
<1>2. \A c \in Callers : lock # c
  BY SvcStoreAssumption DEF SvcStoreAssumption, Init
<1> QED BY <1>1, <1>2 DEF Init, IInv, Requesting, HolderKnown, BlindHeld, FileFits, BufferRight, Held

LEMMA IStep == TypeOK /\ IInv /\ [Next]_vars => IInv'
<1> SUFFICES ASSUME TypeOK, IInv, [Next]_vars PROVE IInv'
  OBVIOUS
<1> USE SvcStoreAssumption DEF SvcStoreAssumption, TypeOK
<1> USE DEF IInv, Requesting, HolderKnown, BlindHeld, FileFits, BufferRight, Held, files, Goto
<1>1. ASSUME NEW c \in Callers, NEW k \in Keys, Get(c, k)
      PROVE  IInv'
  BY <1>1 DEF Get, Result, Base
<1>2. ASSUME NEW c \in Callers, NEW k \in Keys, NEW v \in Values \cup {None}, Set(c, k, v)
      PROVE  IInv'
  <2>1. [key |-> k, val |-> v] \in Requests
    BY DEF Requests
  <2>2. Requesting' /\ HolderKnown' /\ BlindHeld' /\ FileFits'
    BY <1>2, <2>1 DEF Set
  <2>3. Base' = Base /\ \A d \in Callers : d # c => Result(d)' = Result(d)
    BY <1>2 DEF Set, Base, Result
  <2> QED BY <1>2, <2>2, <2>3 DEF Set
<1>3. ASSUME NEW c \in Callers, NoMemory(c)
      PROVE  IInv'
  <2>1. Requesting' /\ HolderKnown' /\ BlindHeld' /\ FileFits'
    BY <1>3 DEF NoMemory, End
  <2>2. Base' = Base /\ \A d \in Callers : d # c => Result(d)' = Result(d)
    BY <1>3 DEF NoMemory, End, Base, Result
  <2> QED BY <1>3, <2>1, <2>2 DEF NoMemory, End
<1>4. ASSUME NEW c \in Callers, Take(c)
      PROVE  IInv'
  <2>1. Requesting' /\ HolderKnown' /\ BlindHeld' /\ FileFits'
    BY <1>4 DEF Take
  <2>2. \A d \in Callers \ {c} : pc'[d] = pc[d] /\ pc[d] \notin Held
    BY <1>4 DEF Take
  <2>3. buf'[c] = Base' /\ pc'[c] = "build"
    BY <1>4 DEF Take, Base
  <2> QED BY <2>1, <2>2, <2>3
<1>5. ASSUME NEW c \in Callers, Build(c)
      PROVE  IInv'
  <2>1. Requesting' /\ HolderKnown' /\ BlindHeld' /\ FileFits'
    BY <1>5 DEF Build
  <2>2. \A d \in Callers \ {c} : pc'[d] = pc[d] /\ pc[d] \notin Held
    BY <1>5 DEF Build
  <2>3. buf'[c] = Result(c)' /\ pc'[c] = "write"
    BY <1>5 DEF Build, Result, Base, Abstract!Assigned
  <2> QED BY <2>1, <2>2, <2>3
<1>6. ASSUME NEW c \in Callers, Write(c)
      PROVE  IInv'
  <2>1. Requesting' /\ HolderKnown' /\ BlindHeld' /\ FileFits'
    BY <1>6 DEF Write, Leave, End
  <2>2. \A d \in Callers \ {c} : pc'[d] = pc[d] /\ pc[d] \notin Held
    BY <1>6 DEF Write, Leave, End
  <2>3. \/ pc'[c] = "idle"
        \/ pc'[c] = "unlink" /\ tmp' = Result(c)'
    BY <1>6 DEF Write, Leave, End, Result, Base
  <2> QED BY <2>1, <2>2, <2>3
<1>7. ASSUME NEW c \in Callers, Unlink(c)
      PROVE  IInv'
  <2>1. Requesting' /\ HolderKnown' /\ BlindHeld' /\ FileFits'
    BY <1>7 DEF Unlink
  <2>2. \A d \in Callers \ {c} : pc'[d] = pc[d] /\ pc[d] \notin Held
    BY <1>7 DEF Unlink
  <2>3. tmp \in Fitting
    BY <1>7, AssignedFits, BaseFits DEF Unlink, Result
  <2>4. pc'[c] = "rename" /\ file' = Missing /\ tmp' = tmp
    BY <1>7 DEF Unlink
  <2> QED BY <2>1, <2>2, <2>3, <2>4
<1>8. ASSUME NEW c \in Callers, Rename(c)
      PROVE  IInv'
  <2>1. Requesting' /\ HolderKnown' /\ BlindHeld' /\ FileFits'
    BY <1>8 DEF Rename, Leave, End
  <2>2. \A d \in Callers \ {c} : pc'[d] = pc[d] /\ pc[d] \notin Held
    BY <1>8 DEF Rename, Leave, End
  <2>3. pc'[c] = "idle"
    BY <1>8 DEF Rename, Leave, End
  <2> QED BY <2>1, <2>2, <2>3
<1>9. CASE Crash
  BY <1>9 DEF Crash
<1>10. CASE UNCHANGED vars
  BY <1>10 DEF vars, calls, Result, Base
<1> QED BY <1>1, <1>2, <1>3, <1>4, <1>5, <1>6, <1>7, <1>8, <1>9, <1>10 DEF Next, SetStep

LEMMA Inductive == Spec => [](TypeOK /\ IInv)
<1> QED BY TypeInit, TypeStep, IInit, IStep, PTL DEF Spec

\* The file always fits into the buffer it is read into, so that no line is
\* lost when it is rewritten.
THEOREM FileAlwaysFits == Spec => []FileFits
<1> QED BY Inductive, PTL DEF IInv

-----------------------------------------------------------------------------
(* The services store implements the key-value store.                       *)

LEMMA RefineInit == Init => Abstract!Init
<1> SUFFICES ASSUME Init PROVE Abstract!Init
  OBVIOUS
<1>1. StoreSeen = Empty
  BY DEF Init, StoreSeen, Lines
<1>2. OpSeen = [c \in Callers |-> "idle"]
  BY DEF Init, OpSeen
<1> QED BY <1>1, <1>2 DEF Init, Abstract!Init, Abstract!Empty, Abstract!NoRequest, Empty, NoRequest

\* At most one caller is past the unlinking.
LEMMA SeenByHolder ==
  ASSUME IInv, NEW c \in Callers, lock = c \/ lock = Nobody
  PROVE  StoreSeen = IF pc[c] = "rename" THEN tmp ELSE Lines(file)
<1> USE SvcStoreAssumption DEF SvcStoreAssumption
<1>1. \A d \in Callers : pc[d] = "rename" => d = c
  BY DEF IInv, HolderKnown, Held
<1> QED BY <1>1 DEF StoreSeen

\* What a failure does to the abstract store.
LEMMA RefineFault ==
  ASSUME TypeOK, TypeOK', Failure,
         StoreSeen' \in {StoreSeen, Empty},
         \A c \in Callers : \/ OpSeen'[c] \in {OpSeen[c], "idle"}
                            \/ OpSeen[c] = "called" /\ OpSeen'[c] = "broken",
         arg' = [c \in Callers |-> IF pc'[c] = "idle" THEN NoRequest ELSE arg[c]]
  PROVE  Abstract!Fault
<1>1. faults < MaxFaults /\ faults' = faults + 1
  BY DEF Failure
<1>2. OpSeen' \in [Callers -> {"idle", "called", "broken", "applied"}]
  BY DEF OpSeen
<1>3. \A c \in Callers : OpSeen'[c] = "idle" <=> pc'[c] = "idle"
  BY DEF OpSeen
<1>4. arg' = [c \in Callers |-> IF OpSeen'[c] = "idle" THEN Abstract!NoRequest ELSE arg[c]]
  BY <1>3 DEF Abstract!NoRequest, NoRequest
<1>5. got' \in [Callers -> Values \cup {None}]
  BY DEF TypeOK
<1> QED BY <1>1, <1>2, <1>4, <1>5 DEF Abstract!Fault, Abstract!Empty, Empty

\* The arguments of a caller that is not setting a key are blank.
IdleIsBlank == \A c \in Callers : pc[c] = "idle" => arg[c] = NoRequest

LEMMA BlankInit == Init => IdleIsBlank
  BY DEF Init, IdleIsBlank

LEMMA BlankStep == TypeOK /\ IdleIsBlank /\ [Next]_vars => IdleIsBlank'
<1> SUFFICES ASSUME TypeOK, IdleIsBlank, [Next]_vars PROVE IdleIsBlank'
  OBVIOUS
<1> USE DEF IdleIsBlank, TypeOK, Goto
<1>1. CASE \E c \in Callers : (\E k \in Keys : Get(c, k)) \/ SetStep(c)
  BY <1>1 DEF Get, SetStep, NoMemory, Take, Build, Write, Unlink, Rename, Leave, End
<1>2. CASE \E c \in Callers, k \in Keys, v \in Values \cup {None} : Set(c, k, v)
  BY <1>2 DEF Set
<1>3. CASE Crash \/ UNCHANGED vars
  BY <1>3 DEF Crash, vars, calls
<1> QED BY <1>1, <1>2, <1>3 DEF Next

LEMMA RefineStep ==
  TypeOK /\ TypeOK' /\ IInv /\ IInv' /\ IdleIsBlank /\ [Next]_vars => [Abstract!Next]_(Abstract!vars)
<1> SUFFICES ASSUME TypeOK, TypeOK', IInv, IInv', IdleIsBlank, [Next]_vars
             PROVE  Abstract!Next \/ UNCHANGED <<StoreSeen, OpSeen, arg, got, faults>>
  BY DEF Abstract!vars
<1> USE SvcStoreAssumption DEF SvcStoreAssumption, files, Goto
<1> DEFINE Stutter == UNCHANGED <<StoreSeen, OpSeen, arg, got, faults>>
<1>1. ASSUME NEW c \in Callers, NEW k \in Keys, Get(c, k)
      PROVE  Abstract!Next
  <2>1. StoreSeen' = StoreSeen /\ OpSeen' = OpSeen
    BY <1>1 DEF Get, StoreSeen, OpSeen
  <2>2. CASE lock = Nobody /\ got' = [got EXCEPT ![c] = Lines(file)[k]] /\ UNCHANGED faults
    <3>1. pc[c] = "idle" /\ OpSeen[c] = "idle" /\ arg' = arg
      BY <1>1 DEF Get, OpSeen
    <3>2. StoreSeen = Lines(file)
      BY <2>2, <3>1, SeenByHolder
    <3>3. Abstract!Get(c, k)
      BY <2>1, <2>2, <3>1, <3>2 DEF Abstract!Get
    <3> QED BY <3>3 DEF Abstract!Next
  <2>3. CASE Failure
    <3>1. arg' = arg /\ pc' = pc
      BY <1>1 DEF Get
    <3>2. arg' = [d \in Callers |-> IF pc'[d] = "idle" THEN NoRequest ELSE arg[d]]
      BY <3>1 DEF IdleIsBlank, TypeOK
    <3>3. Abstract!Fault
      BY <2>1, <2>3, <3>2, RefineFault
    <3> QED BY <3>3 DEF Abstract!Next
  <2> QED BY <1>1, <2>2, <2>3 DEF Get
<1>2. ASSUME NEW c \in Callers, NEW k \in Keys, NEW v \in Values \cup {None}, Set(c, k, v)
      PROVE  Abstract!Next
  <2>1. StoreSeen' = StoreSeen
    BY <1>2 DEF Set, StoreSeen, TypeOK
  <2>2. lock # c
    BY <1>2 DEF Set, IInv, HolderKnown, Held
  <2>3. OpSeen[c] = "idle" /\ OpSeen' = [OpSeen EXCEPT ![c] = "called"]
    <3>1. pc[c] = "idle" /\ pc' = [pc EXCEPT ![c] = "take"] /\ lock' = lock /\ blind' = blind
      BY <1>2 DEF Set
    <3>2. OpSeen[c] = "idle" /\ OpSeen'[c] = "called"
      BY <2>2, <3>1 DEF OpSeen, TypeOK
    <3>3. \A d \in Callers \ {c} : pc'[d] = pc[d]
      BY <3>1 DEF TypeOK
    <3>4. \A d \in Callers \ {c} : OpSeen'[d] = OpSeen[d]
      BY <3>1, <3>3 DEF OpSeen
    <3> HIDE DEF OpSeen
    <3>5. OpSeen = [d \in Callers |-> OpSeen[d]] /\ OpSeen' = [d \in Callers |-> OpSeen'[d]]
      BY DEF OpSeen
    <3> QED BY <3>2, <3>4, <3>5
  <2>4. Abstract!Call(c, k, v)
    BY <1>2, <2>1, <2>3 DEF Set, Abstract!Call
  <2> QED BY <2>4 DEF Abstract!Next
<1>3. ASSUME NEW c \in Callers, NoMemory(c)
      PROVE  Abstract!Next
  <2>1. StoreSeen' = StoreSeen
    BY <1>3 DEF NoMemory, End, StoreSeen, TypeOK
  <2>2. \A d \in Callers : OpSeen'[d] \in {OpSeen[d], "idle"}
    BY <1>3 DEF NoMemory, End, OpSeen, TypeOK
  <2>3. arg' = [d \in Callers |-> IF pc'[d] = "idle" THEN NoRequest ELSE arg[d]]
    BY <1>3 DEF NoMemory, End, IdleIsBlank, TypeOK
  <2>4. Abstract!Fault
    BY <1>3, <2>1, <2>2, <2>3, RefineFault DEF NoMemory
  <2> QED BY <2>4 DEF Abstract!Next
<1>4. ASSUME NEW c \in Callers, Take(c)
      PROVE  Abstract!Next \/ Stutter
  <2>1. StoreSeen' = StoreSeen /\ ~blind
    BY <1>4 DEF Take, StoreSeen, TypeOK, IInv, BlindHeld
  <2>2. CASE UNCHANGED <<blind, faults>>
    <3>1. OpSeen' = OpSeen
      BY <1>4, <2>1, <2>2 DEF Take, OpSeen, TypeOK
    <3> QED BY <1>4, <2>1, <2>2, <3>1 DEF Take
  <2>3. CASE Failure
    <3>1. \A d \in Callers : \/ OpSeen'[d] \in {OpSeen[d], "idle"}
                             \/ OpSeen[d] = "called" /\ OpSeen'[d] = "broken"
      BY <1>4, <2>1 DEF Take, OpSeen, TypeOK
    <3>2. arg' = [d \in Callers |-> IF pc'[d] = "idle" THEN NoRequest ELSE arg[d]]
      BY <1>4 DEF Take, IdleIsBlank, TypeOK
    <3>3. Abstract!Fault
      BY <2>1, <2>3, <3>1, <3>2, RefineFault
    <3> QED BY <3>3 DEF Abstract!Next
  <2> QED BY <1>4, <2>2, <2>3 DEF Take
<1>5. ASSUME NEW c \in Callers, Build(c)
      PROVE  Stutter
  BY <1>5 DEF Build, StoreSeen, OpSeen, TypeOK
<1>6. ASSUME NEW c \in Callers, Write(c)
      PROVE  Abstract!Next \/ Stutter
  <2>1. lock = c /\ pc[c] = "write" /\ pc'[c] # "rename" /\ file' = file
    BY <1>6 DEF Write, Leave, End, IInv, HolderKnown, Held, TypeOK
  <2>2. StoreSeen = Lines(file)
    BY <2>1, SeenByHolder
  <2>3. StoreSeen' = Lines(file)
    BY <1>6, <2>1 DEF Write, Leave, End, StoreSeen, IInv, HolderKnown, Held, TypeOK
  <2>4. CASE Goto(c, "unlink") /\ UNCHANGED <<lock, arg, buf, blind, got, faults>>
    BY <2>1, <2>2, <2>3, <2>4 DEF OpSeen, TypeOK
  <2>5. CASE Leave(c) /\ Failure
    <3>1. \A d \in Callers : OpSeen'[d] \in {OpSeen[d], "idle"}
      BY <2>1, <2>5 DEF Leave, End, OpSeen, TypeOK
    <3>2. arg' = [d \in Callers |-> IF pc'[d] = "idle" THEN NoRequest ELSE arg[d]]
      BY <2>5 DEF Leave, End, IdleIsBlank, TypeOK
    <3>3. Abstract!Fault
      BY <2>2, <2>3, <2>5, <3>1, <3>2, RefineFault
    <3> QED BY <3>3 DEF Abstract!Next
  <2> QED BY <1>6, <2>4, <2>5 DEF Write
<1>7. ASSUME NEW c \in Callers, Unlink(c)
      PROVE  Abstract!Next
  <2>1. lock = c /\ pc[c] = "unlink" /\ pc' = [pc EXCEPT ![c] = "rename"]
    BY <1>7 DEF Unlink, IInv, HolderKnown, Held
  <2>2. StoreSeen = Lines(file)
    BY <2>1, SeenByHolder
  <2>3. StoreSeen' = Result(c)
    BY <1>7, <2>1 DEF Unlink, StoreSeen, IInv, BufferRight, TypeOK
  <2>4. OpSeen' = [OpSeen EXCEPT ![c] = "applied"]
    BY <1>7, <2>1 DEF Unlink, OpSeen, TypeOK
  <2>5. CASE blind
    <3>1. OpSeen[c] = "broken"
      BY <2>1, <2>5 DEF OpSeen
    <3>2. Result(c) = Abstract!Assigned(Abstract!Empty, arg[c].key, arg[c].val)
      BY <2>5 DEF Result, Base, Empty, Abstract!Empty
    <3>3. Abstract!ApplyBroken(c)
      BY <1>7, <2>3, <2>4, <3>1, <3>2 DEF Unlink, Abstract!ApplyBroken
    <3> QED BY <3>3 DEF Abstract!Next
  <2>6. CASE ~blind
    <3>1. OpSeen[c] = "called"
      BY <2>1, <2>6 DEF OpSeen
    <3>2. Result(c) = Abstract!Assigned(StoreSeen, arg[c].key, arg[c].val)
      BY <2>2, <2>6 DEF Result, Base
    <3>3. Abstract!Apply(c)
      BY <1>7, <2>3, <2>4, <3>1, <3>2 DEF Unlink, Abstract!Apply
    <3> QED BY <3>3 DEF Abstract!Next
  <2> QED BY <2>5, <2>6
<1>8. ASSUME NEW c \in Callers, Rename(c)
      PROVE  Abstract!Next
  <2>1. lock = c /\ pc[c] = "rename" /\ pc' = [pc EXCEPT ![c] = "idle"] /\ file = Missing
    BY <1>8 DEF Rename, Leave, End, IInv, HolderKnown, BufferRight, Held
  <2>2. StoreSeen = tmp /\ tmp # Missing
    BY <2>1, SeenByHolder DEF IInv, BufferRight
  <2>3. StoreSeen' = Lines(file')
    BY <2>1 DEF StoreSeen, IInv, HolderKnown, Held, TypeOK
  <2>4. OpSeen[c] = "applied" /\ OpSeen' = [OpSeen EXCEPT ![c] = "idle"]
    BY <1>8, <2>1 DEF Rename, Leave, OpSeen, IInv, HolderKnown, Held, TypeOK
  <2>5. CASE file' = tmp /\ UNCHANGED faults
    <3>1. StoreSeen' = StoreSeen
      BY <2>2, <2>3, <2>5 DEF Lines
    <3>2. Abstract!Return(c)
      BY <1>8, <2>4, <2>5, <3>1 DEF Rename, Leave, End, Abstract!Return, Abstract!NoRequest, NoRequest
    <3> QED BY <3>2 DEF Abstract!Next
  <2>6. CASE UNCHANGED file /\ Failure
    <3>1. StoreSeen' = Empty
      BY <2>1, <2>3, <2>6 DEF Lines
    <3>2. \A d \in Callers : OpSeen'[d] \in {OpSeen[d], "idle"}
      BY <2>4 DEF OpSeen
    <3>3. arg' = [d \in Callers |-> IF pc'[d] = "idle" THEN NoRequest ELSE arg[d]]
      BY <1>8 DEF Rename, Leave, End, IdleIsBlank, TypeOK
    <3>4. Abstract!Fault
      BY <2>6, <3>1, <3>2, <3>3, RefineFault
    <3> QED BY <3>4 DEF Abstract!Next
  <2> QED BY <1>8, <2>5, <2>6 DEF Rename
<1>9. CASE Crash
  <2>1. StoreSeen' = Lines(file)
    BY <1>9 DEF Crash, StoreSeen
  <2>2. StoreSeen' \in {StoreSeen, Empty}
    <3>1. CASE \E c \in Callers : pc[c] = "rename"
      BY <2>1, <3>1 DEF IInv, BufferRight, Lines
    <3>2. CASE ~\E c \in Callers : pc[c] = "rename"
      BY <2>1, <3>2 DEF StoreSeen
    <3> QED BY <3>1, <3>2
  <2>3. \A d \in Callers : OpSeen'[d] = "idle"
    BY <1>9 DEF Crash, OpSeen
  <2>4. arg' = [d \in Callers |-> IF pc'[d] = "idle" THEN NoRequest ELSE arg[d]]
    BY <1>9 DEF Crash
  <2>5. Abstract!Fault
    BY <1>9, <2>2, <2>3, <2>4, RefineFault DEF Crash
  <2> QED BY <2>5 DEF Abstract!Next
<1>10. CASE UNCHANGED vars
  BY <1>10 DEF vars, calls, StoreSeen, OpSeen
<1> QED BY <1>1, <1>2, <1>3, <1>4, <1>5, <1>6, <1>7, <1>8, <1>9, <1>10 DEF Next, SetStep

\* Overlapping sets and gets from any number of tasks behave as if each took
\* effect at once, and only a fault can lose what is stored.
THEOREM Refinement == Spec => IsKeyValueStore
<1>1. Spec => []IdleIsBlank
  BY BlankInit, BlankStep, TypeCorrect, PTL DEF Spec
<1> QED BY <1>1, Inductive, RefineInit, RefineStep, PTL DEF Spec, IsKeyValueStore, Abstract!Spec

-----------------------------------------------------------------------------
(* Files.                                                                  *)

Moving(w) == job[w].pc \in {"remove", "rename"}

\* What a writer has begun is its own.
NewIsOwn ==
    \A w \in Writers : job[w].pc = "write" => job[w].new.by = w /\ job[w].new.whole

\* What it moves into place is its own and, as far as it can tell, whole.
TempIsClosed ==
    \A w \in Writers : Moving(w) =>
        /\ temps[job[w].path][w].by = w
        /\ temps[job[w].path][w].whole \/ AcceptsPart(w)

\* The whole of a file lies beside p, and w is not writing it anew.
Waits(p, w) ==
    /\ temps[p][w] # Absent /\ (temps[p][w].whole \/ AcceptsPart(w))
    /\ ~(job[w].pc = "write" /\ job[w].path = p)

MissingIsKnown ==
    \A p \in Paths : targets[p] = Absent => p \in told \/ \E w \in Writers : Waits(p, w)

\* An FTP command that has changed the crontab has still to reload it.
TableKnown ==
    ~stale => \/ table = targets[Crontab]
              \/ job["ftp"].pc = "reload"
              \/ /\ job["ftp"].pc = "rename" /\ job["ftp"].path = Crontab
                 /\ targets[Crontab] = Absent

FilesInv ==
    FilesTypeOK /\ NewIsOwn /\ TempIsClosed /\ NeverPartial /\ MissingIsKnown /\ TableKnown

JobType == [pc : {"idle", "write", "remove", "rename", "reload"}, path : Paths, new : Content]

\* The absent file has the form of a content.
LEMMA ContentForm ==
    Content = [n : 0 .. MaxUploads, by : Writers \cup {"nobody"}, whole : BOOLEAN]
<1> DEFINE Form == [n : 0 .. MaxUploads, by : Writers \cup {"nobody"}, whole : BOOLEAN]
<1>1. 0 \in 0 .. MaxUploads
  BY FilesAssumption DEF FilesAssumption
<1>2. Absent \in Form
  BY <1>1 DEF Absent
<1>3. Content = {Absent} \cup Form
  BY DEF Content
<1> HIDE DEF Form
<1>4. Content = Form
  BY <1>2, <1>3
<1> QED BY <1>4 DEF Form

LEMMA FilesTypeInit == FilesInit => FilesTypeOK
<1> SUFFICES ASSUME FilesInit PROVE FilesTypeOK
  OBVIOUS
<1>1. Absent \in Content /\ [Absent EXCEPT !.whole = TRUE] \in Content
  <2>1. 0 \in 0 .. MaxUploads
    BY FilesAssumption DEF FilesAssumption
  <2>2. Absent \in Content
    BY DEF Content
  <2>3. [Absent EXCEPT !.whole = TRUE] \in Content
    BY <2>2, ContentForm
  <2> QED BY <2>2, <2>3
<1>2. targets \in [Paths -> Content] /\ table \in Content
  BY <1>1, FilesAssumption DEF FilesInit, FilesAssumption
<1>3. temps \in [Paths -> [Writers -> Content]]
  BY <1>1 DEF FilesInit
<1>4. job \in [Writers -> JobType]
  <2>1. Idle \in JobType
    BY <1>1, FilesAssumption DEF Idle, JobType, FilesAssumption
  <2> QED BY <2>1 DEF FilesInit
<1>5. uploads \in 0 .. MaxUploads
  BY FilesAssumption DEF FilesInit, FilesAssumption
<1>6. told \in SUBSET Paths /\ stale \in BOOLEAN
  BY DEF FilesInit
<1> QED BY <1>2, <1>3, <1>4, <1>5, <1>6 DEF FilesTypeOK, JobType

LEMMA FilesInitHolds == FilesInit => FilesInv
<1> SUFFICES ASSUME FilesInit PROVE FilesInv
  OBVIOUS
<1>1. NewIsOwn /\ TempIsClosed
  BY DEF FilesInit, Idle, NewIsOwn, TempIsClosed, Moving
<1>2. NeverPartial
  BY DEF FilesInit, Absent, NeverPartial
<1>3. MissingIsKnown
  BY DEF FilesInit, Absent, MissingIsKnown
<1>4. TableKnown
  BY DEF FilesInit, TableKnown
<1> QED BY <1>1, <1>2, <1>3, <1>4, FilesTypeInit DEF FilesInv

LEMMA FilesTypeStep == FilesTypeOK /\ [FilesNext]_fileVars => FilesTypeOK'
<1> SUFFICES ASSUME FilesTypeOK, [FilesNext]_fileVars PROVE FilesTypeOK'
  OBVIOUS
<1> USE DEF FilesTypeOK, disk
<1>0. /\ Absent \in Content /\ Idle \in JobType /\ [Idle EXCEPT !.pc = "reload"] \in JobType
      /\ "ftp" \in Writers
  <2>1. Absent \in Content
    BY DEF Content
  <2>2. Idle \in JobType
    BY <2>1, FilesAssumption DEF Idle, JobType, FilesAssumption
  <2>3. [Idle EXCEPT !.pc = "reload"] \in JobType
    BY <2>2 DEF JobType
  <2> QED BY <2>1, <2>2, <2>3 DEF Writers
<1>1. ASSUME NEW d \in BOOLEAN, ThenReload(d) PROVE job' \in [Writers -> JobType]
  BY <1>0, <1>1 DEF ThenReload, JobType
<1>2. ASSUME NEW w \in Writers, NEW p \in Paths, Open(w, p) PROVE FilesTypeOK'
  <2>1. uploads' \in 0 .. MaxUploads
    BY <1>2, FilesAssumption DEF Open, FilesAssumption
  <2>2. \A b \in BOOLEAN : [n |-> uploads + 1, by |-> w, whole |-> b] \in Content
    BY <1>2, <2>1, ContentForm DEF Open
  <2>3. temps' \in [Paths -> [Writers -> Content]]
    BY <1>2, <2>2 DEF Open
  <2>4. job' \in [Writers -> JobType]
    BY <1>2, <2>2 DEF Open, JobType
  <2> QED BY <1>2, <2>1, <2>3, <2>4 DEF Open, OpenKeeps, JobType
<1>3. ASSUME NEW w \in Writers, Close(w) PROVE FilesTypeOK'
  <2>1. job[w] \in JobType
    BY DEF JobType
  <2>2. [job[w].new EXCEPT !.whole = FALSE] \in Content
    BY <2>1, ContentForm DEF JobType
  <2>3. PICK c \in Content : temps' = [temps EXCEPT ![job[w].path][w] = c]
    BY <1>3, <2>1, <2>2 DEF Close, JobType
  <2>4. temps' \in [Paths -> [Writers -> Content]]
    BY <2>1, <2>3 DEF JobType
  <2>5. job' \in [Writers -> JobType]
    BY <1>3 DEF Close, JobType
  <2> QED BY <1>3, <2>4, <2>5 DEF Close, JobType
<1>4. ASSUME NEW w \in Writers, Fail(w) PROVE FilesTypeOK'
  BY <1>0, <1>4 DEF Fail, JobType
<1>5. ASSUME NEW w \in Writers, Remove(w) PROVE FilesTypeOK'
  <2>1. targets' \in [Paths -> Content]
    BY <1>0, <1>5 DEF Remove
  <2>2. job' \in [Writers -> JobType]
    BY <1>5 DEF Remove, JobType
  <2>3. stale' \in BOOLEAN
    BY <1>5 DEF Remove
  <2> QED BY <1>5, <2>1, <2>2, <2>3 DEF Remove, JobType
<1>6. ASSUME NEW w \in Writers, RenameTemp(w) PROVE FilesTypeOK'
  <2>1. job[w].path \in Paths
    BY DEF JobType
  <2>2. targets' \in [Paths -> Content] /\ temps' \in [Paths -> [Writers -> Content]]
    BY <1>0, <1>6, <2>1 DEF RenameTemp
  <2>3. job' \in [Writers -> JobType]
    BY <1>0, <1>1, <1>6 DEF RenameTemp, JobType
  <2>4. stale' \in BOOLEAN /\ told' \in SUBSET Paths
    BY <1>6 DEF RenameTemp
  <2> QED BY <1>6, <2>2, <2>3, <2>4 DEF RenameTemp, JobType
<1>7. ASSUME NEW w \in Writers, RenameTempFails(w) PROVE FilesTypeOK'
  <2>1. job[w].path \in Paths
    BY DEF JobType
  <2>2. temps' \in [Paths -> [Writers -> Content]] /\ job' \in [Writers -> JobType]
    BY <1>0, <1>7, <2>1 DEF RenameTempFails, JobType
  <2>3. stale' \in BOOLEAN
    BY <1>7 DEF RenameTempFails
  <2>4. told' \in SUBSET Paths
    BY <1>7, <2>1 DEF RenameTempFails
  <2> QED BY <1>7, <2>2, <2>3, <2>4 DEF RenameTempFails, JobType
<1>8. ASSUME NEW p \in Paths, Dele(p) \/ Rnfr(p) PROVE FilesTypeOK'
  <2>1. CASE Dele(p)
    BY <1>0, <1>1, <2>1 DEF Dele, JobType
  <2>2. CASE Rnfr(p)
    BY <2>2 DEF Rnfr
  <2> QED BY <1>8, <2>1, <2>2
<1>9. ASSUME NEW p \in Paths, Rnto(p) PROVE FilesTypeOK'
  <2>1. job' \in [Writers -> JobType]
    BY <1>1, <1>9 DEF Rnto, RntoReloads, JobType
  <2>2. targets' \in [Paths -> Content]
    BY <1>0, <1>9 DEF Rnto
  <2>3. told' \in SUBSET Paths
    <3>1. told' \in {told, (told \cup {rnfr}) \ {p}} /\ rnfr \in Paths
      BY <1>9 DEF Rnto
    <3> QED BY <3>1
  <2> QED BY <1>9, <2>1, <2>2, <2>3 DEF Rnto, JobType
<1>10. CASE Reload
  <2>1. job' \in [Writers -> JobType]
    BY <1>0, <1>10 DEF Reload, JobType
  <2>2. table' \in Content
    BY <1>10, FilesAssumption DEF Reload, FilesAssumption
  <2>3. stale' \in BOOLEAN
    BY <1>10 DEF Reload
  <2> QED BY <1>10, <2>1, <2>2, <2>3 DEF Reload, JobType
<1>11. CASE PowerCut
  BY <1>0, <1>11, FilesAssumption DEF PowerCut, JobType, FilesAssumption
<1>12. CASE UNCHANGED fileVars
  BY <1>12 DEF fileVars
<1> QED
  BY <1>2, <1>3, <1>4, <1>5, <1>6, <1>7, <1>8, <1>9, <1>10, <1>11, <1>12 DEF FilesNext

LEMMA FilesStep == FilesInv /\ [FilesNext]_fileVars => FilesInv'
<1> SUFFICES ASSUME FilesInv, [FilesNext]_fileVars
             PROVE  NewIsOwn' /\ TempIsClosed' /\ NeverPartial' /\ MissingIsKnown' /\ TableKnown'
  BY FilesTypeStep DEF FilesInv
<1> USE DEF FilesInv, FilesTypeOK, disk
<1>0. \A p \in Paths : targets[p] \in Content /\ \A w \in Writers : temps[p][w] \in Content
  OBVIOUS
<1>1. ASSUME NEW w \in Writers, NEW p \in Paths, Open(w, p)
      PROVE  NewIsOwn' /\ TempIsClosed' /\ NeverPartial' /\ MissingIsKnown' /\ TableKnown'
  <2>1. NewIsOwn'
    BY <1>1 DEF Open, NewIsOwn
  <2>2. TempIsClosed'
    BY <1>1 DEF Open, TempIsClosed, Moving
  <2>3. NeverPartial'
    BY <1>1 DEF Open, OpenKeeps, NeverPartial
  <2>4. MissingIsKnown'
    BY <1>1 DEF Open, OpenKeeps, MissingIsKnown, Waits
  <2>5. TableKnown'
    BY <1>1 DEF Open, OpenKeeps, TableKnown
  <2> QED BY <2>1, <2>2, <2>3, <2>4, <2>5
<1>2. ASSUME NEW w \in Writers, Close(w)
      PROVE  NewIsOwn' /\ TempIsClosed' /\ NeverPartial' /\ MissingIsKnown' /\ TableKnown'
  <2> DEFINE p == job[w].path
  <2>0. PICK c : /\ temps' = [temps EXCEPT ![p][w] = c]
                 /\ c.by = w /\ (c.whole \/ AcceptsPart(w)) 
    <3>1. job[w].new \in Content /\ job[w].new.by = w /\ job[w].new.whole
      BY <1>2 DEF Close, NewIsOwn
    <3>2. [job[w].new EXCEPT !.whole = FALSE].by = w
      BY <3>1, ContentForm
    <3> QED BY <1>2, <3>1, <3>2 DEF Close
  <2>1. NewIsOwn'
    BY <1>2 DEF Close, NewIsOwn
  <2>2. TempIsClosed'
    BY <1>2, <2>0 DEF Close, TempIsClosed, Moving
  <2>3. NeverPartial' /\ TableKnown'
    BY <1>2 DEF Close, NeverPartial, TableKnown
  <2>4. MissingIsKnown'
    BY <1>2, <2>0 DEF Close, MissingIsKnown, Waits
  <2> QED BY <2>1, <2>2, <2>3, <2>4
<1>3. ASSUME NEW w \in Writers, Fail(w)
      PROVE  NewIsOwn' /\ TempIsClosed' /\ NeverPartial' /\ MissingIsKnown' /\ TableKnown'
  <2>1. NewIsOwn' /\ TempIsClosed'
    BY <1>3 DEF Fail, Idle, NewIsOwn, TempIsClosed, Moving
  <2>2. NeverPartial' /\ TableKnown'
    BY <1>3 DEF Fail, Idle, NeverPartial, TableKnown
  <2>3. MissingIsKnown'
    BY <1>3 DEF Fail, Idle, MissingIsKnown, Waits
  <2> QED BY <2>1, <2>2, <2>3
<1>4. ASSUME NEW w \in Writers, Remove(w)
      PROVE  NewIsOwn' /\ TempIsClosed' /\ NeverPartial' /\ MissingIsKnown' /\ TableKnown'
  <2> DEFINE p == job[w].path
  <2>1. NewIsOwn' /\ TempIsClosed'
    BY <1>4 DEF Remove, NewIsOwn, TempIsClosed, Moving
  <2>2. NeverPartial'
    <3>1. \A r \in Paths : targets'[r] = targets[r] \/ targets'[r] = Absent
      BY <1>4 DEF Remove
    <3> QED BY <3>1 DEF NeverPartial, Absent
  <2>3. MissingIsKnown'
    <3>1. Waits(p, w)'
      BY <1>4 DEF Remove, Waits, TempIsClosed, Moving, Absent, Writers
    <3>2. \A r \in Paths : r # p => targets'[r] = targets[r]
      BY <1>4 DEF Remove
    <3>3. \A r \in Paths, v \in Writers : Waits(r, v) => Waits(r, v)'
      BY <1>4 DEF Remove, Waits
    <3> QED BY <1>4, <3>1, <3>2, <3>3 DEF Remove, MissingIsKnown
  <2>4. TableKnown'
    <3>1. ~stale' => ~stale /\ (targets'[p] = targets[p] \/ p # Crontab \/ w = "ftp")
      BY <1>4 DEF Remove
    <3>2. /\ \A v \in Writers \ {w} : job'[v] = job[v]
          /\ job'[w].pc = "rename" /\ job'[w].path = p /\ job[w].pc = "remove"
      BY <1>4 DEF Remove
    <3>3. \/ targets'[Crontab] = targets[Crontab]
          \/ p = Crontab /\ targets'[Crontab] = Absent
      <4>1. p \in Paths /\ (targets' = targets \/ targets' = [targets EXCEPT ![p] = Absent])
        BY <1>4 DEF Remove
      <4> HIDE DEF p
      <4> QED BY <4>1, FilesAssumption DEF FilesAssumption
    <3>4. table' = table
      BY <1>4 DEF Remove
    <3> QED BY <3>1, <3>2, <3>3, <3>4 DEF TableKnown, Writers
  <2> QED BY <2>1, <2>2, <2>3, <2>4
<1>5. ASSUME NEW w \in Writers, RenameTemp(w)
      PROVE  NewIsOwn' /\ TempIsClosed' /\ NeverPartial' /\ MissingIsKnown' /\ TableKnown'
  <2> DEFINE p == job[w].path
  <2>0. /\ p \in Paths /\ temps[p][w].by = w /\ (temps[p][w].whole \/ AcceptsPart(w))
        /\ targets' = [targets EXCEPT ![p] = temps[p][w]]
    BY <1>5 DEF RenameTemp, TempIsClosed, Moving
  <2>1. /\ \A v \in Writers \ {w} : job'[v] = job[v]
        /\ job'[w].pc \in {"idle", "reload"}
    BY <1>5 DEF RenameTemp, ThenReload, Idle
  <2>2. NewIsOwn' /\ TempIsClosed'
    BY <1>5, <2>1 DEF RenameTemp, NewIsOwn, TempIsClosed, Moving
  <2>3. NeverPartial'
    BY <2>0 DEF NeverPartial, AcceptsPart
  <2>4. MissingIsKnown'
    <3>1. targets'[p] # Absent
      BY <2>0 DEF Absent, Writers
    <3>2. \A r \in Paths \ {p}, v \in Writers : Waits(r, v) => Waits(r, v)'
      BY <1>5, <2>1 DEF RenameTemp, Waits
    <3> QED BY <1>5, <2>0, <3>1, <3>2 DEF RenameTemp, MissingIsKnown
  <2>5. TableKnown'
    <3>1. CASE p = Crontab
      <4>1. stale' \/ w = "ftp"
        BY <1>5, <3>1 DEF RenameTemp
      <4>2. w = "ftp" => job'["ftp"].pc = "reload"
        BY <1>5, <3>1 DEF RenameTemp, ThenReload, Idle
      <4> QED BY <4>1, <4>2 DEF TableKnown
    <3>2. CASE p # Crontab
      BY <1>5, <2>0, <2>1, <3>2 DEF RenameTemp, TableKnown, Writers
    <3> QED BY <3>1, <3>2
  <2> QED BY <2>2, <2>3, <2>4, <2>5
<1>6. ASSUME NEW w \in Writers, RenameTempFails(w)
      PROVE  NewIsOwn' /\ TempIsClosed' /\ NeverPartial' /\ MissingIsKnown' /\ TableKnown'
  <2> DEFINE p == job[w].path
  <2>1. NewIsOwn' /\ TempIsClosed'
    BY <1>6 DEF RenameTempFails, Idle, NewIsOwn, TempIsClosed, Moving
  <2>2. NeverPartial'
    BY <1>6 DEF RenameTempFails, NeverPartial
  <2>3. MissingIsKnown'
    <3>1. \A r \in Paths \ {p}, v \in Writers : Waits(r, v) => Waits(r, v)'
      BY <1>6 DEF RenameTempFails, Idle, Waits
    <3> QED BY <1>6, <3>1 DEF RenameTempFails, MissingIsKnown
  <2>4. TableKnown'
    BY <1>6 DEF RenameTempFails, Idle, TableKnown, Writers
  <2> QED BY <2>1, <2>2, <2>3, <2>4
<1>7. ASSUME NEW d \in BOOLEAN, FtpIdle, ThenReload(d)
      PROVE  /\ \A v \in Writers \ {"ftp"} : job'[v] = job[v]
             /\ job'["ftp"].pc = IF d THEN "reload" ELSE "idle"
  BY <1>7 DEF FtpIdle, ThenReload, Idle, Writers
<1>8. ASSUME NEW p \in Paths, Dele(p)
      PROVE  NewIsOwn' /\ TempIsClosed' /\ NeverPartial' /\ MissingIsKnown' /\ TableKnown'
  <2>1. /\ \A v \in Writers \ {"ftp"} : job'[v] = job[v]
        /\ job'["ftp"].pc = IF p = Crontab THEN "reload" ELSE "idle"
    BY <1>7, <1>8 DEF Dele
  <2>2. NewIsOwn' /\ TempIsClosed'
    BY <1>8, <2>1 DEF Dele, NewIsOwn, TempIsClosed, Moving
  <2>3. NeverPartial'
    BY <1>8 DEF Dele, NeverPartial, Absent
  <2>4. MissingIsKnown'
    BY <1>8, <2>1 DEF Dele, MissingIsKnown, Waits
  <2>5. TableKnown'
    BY <1>8, <2>1 DEF Dele, FtpIdle, TableKnown
  <2> QED BY <2>2, <2>3, <2>4, <2>5
<1>9. ASSUME NEW p \in Paths, Rnfr(p)
      PROVE  NewIsOwn' /\ TempIsClosed' /\ NeverPartial' /\ MissingIsKnown' /\ TableKnown'
  BY <1>9 DEF Rnfr, NewIsOwn, TempIsClosed, Moving, NeverPartial, MissingIsKnown, Waits, TableKnown
<1>10. ASSUME NEW p \in Paths, Rnto(p)
      PROVE  NewIsOwn' /\ TempIsClosed' /\ NeverPartial' /\ MissingIsKnown' /\ TableKnown'
  <2>1. CASE UNCHANGED <<targets, told, job>>
    BY <1>10, <2>1 DEF Rnto, NewIsOwn, TempIsClosed, Moving, NeverPartial, MissingIsKnown, Waits,
                       TableKnown
  <2>2. CASE ~UNCHANGED <<targets, told, job>>
    <3>1. /\ targets[rnfr] # Absent /\ rnfr \in Paths
          /\ targets' = [targets EXCEPT ![rnfr] = Absent, ![p] = targets[rnfr]]
          /\ told' = (told \cup {rnfr}) \ {p}
          /\ FtpIdle /\ ThenReload(TRUE) /\ UNCHANGED temps
      BY <1>10, <2>2 DEF Rnto, RntoReloads
    <3>2. /\ \A v \in Writers \ {"ftp"} : job'[v] = job[v]
          /\ job'["ftp"].pc = "reload"
      BY <1>7, <3>1
    <3>3. NewIsOwn' /\ TempIsClosed'
      BY <3>1, <3>2 DEF NewIsOwn, TempIsClosed, Moving
    <3>4. NeverPartial'
      BY <3>1 DEF NeverPartial, Absent
    <3>5. MissingIsKnown'
      <4>1. \A r \in Paths, v \in Writers : Waits(r, v) => Waits(r, v)'
        BY <3>1, <3>2 DEF Waits
      <4> QED BY <3>1, <4>1 DEF MissingIsKnown
    <3>6. TableKnown'
      BY <3>2 DEF TableKnown
    <3> QED BY <3>3, <3>4, <3>5, <3>6
  <2> QED BY <2>1, <2>2
<1>11. CASE Reload
  <2>1. NewIsOwn' /\ TempIsClosed'
    BY <1>11 DEF Reload, Idle, NewIsOwn, TempIsClosed, Moving
  <2>2. NeverPartial' /\ TableKnown'
    BY <1>11 DEF Reload, NeverPartial, TableKnown
  <2>3. MissingIsKnown'
    BY <1>11 DEF Reload, Idle, MissingIsKnown, Waits
  <2> QED BY <2>1, <2>2, <2>3
<1>12. CASE PowerCut
  <2>1. NewIsOwn' /\ TempIsClosed'
    BY <1>12 DEF PowerCut, Idle, NewIsOwn, TempIsClosed, Moving
  <2>2. NeverPartial' /\ TableKnown'
    BY <1>12 DEF PowerCut, NeverPartial, TableKnown
  <2>3. MissingIsKnown'
    BY <1>12 DEF PowerCut, Idle, MissingIsKnown, Waits
  <2> QED BY <2>1, <2>2, <2>3
<1>13. CASE UNCHANGED fileVars
  BY <1>13 DEF fileVars, NewIsOwn, TempIsClosed, Moving, NeverPartial, MissingIsKnown, Waits,
               TableKnown
<1> QED
  BY <1>1, <1>2, <1>3, <1>4, <1>5, <1>6, <1>8, <1>9, <1>10, <1>11, <1>12, <1>13 DEF FilesNext

LEMMA AlwaysFilesInv == FilesSpec => []FilesInv
<1> QED BY FilesInitHolds, FilesStep, FilesTypeStep, PTL DEF FilesSpec

\* The files, the jobs and the job table keep their types.
THEOREM FilesTypeCorrect == FilesSpec => []FilesTypeOK
<1>1. FilesInv => FilesTypeOK
  BY DEF FilesInv
<1> QED BY <1>1, AlwaysFilesInv, PTL

\* No part of what FTP has received is ever under the name of a target.
THEOREM TargetsAreWhole == FilesSpec => []NeverPartial
<1>1. FilesInv => NeverPartial
  BY DEF FilesInv
<1> QED BY <1>1, AlwaysFilesInv, PTL

\* A target that is missing was reported, or waits in a temporary file.
THEOREM MissingIsReported == FilesSpec => []NothingVanishes
<1>1. FilesInv => NothingVanishes
  BY DEF FilesInv, MissingIsKnown, Waits, NothingVanishes
<1> QED BY <1>1, AlwaysFilesInv, PTL

\* Once an FTP command is done, the job table is that of the crontab.
THEOREM TableIsReloaded == FilesSpec => []TableFollows
<1>1. FilesInv => TableFollows
  BY DEF FilesInv, TableKnown, TableFollows, FtpIdle
<1> QED BY <1>1, AlwaysFilesInv, PTL

-----------------------------------------------------------------------------
(* The configuration.                                                      *)

\* What the next start has to bring back is what the file holds.
DueIsKept ==
    due # Unknown => /\ Read(cfgFile).setting = due.setting
                     /\ Read(cfgFile).password = Encrypted(due.password)

\* A text that nobody has overtaken is that of the configuration.
TextIsCurrent ==
    \A t \in Tasks : at[t] \in {"taken", "open"} /\ t \notin late => text[t] = Stored(config)

\* No task is in a save before there are tasks.
IdleBefore ==
    /\ phase = "off" => \A t \in Tasks : at[t] = "idle"
    /\ phase # "up" => \A t \in Tasks \ {ui} : at[t] = "idle"

\* A restore point has its place while it is made.
MakingHasRoom ==
    /\ making => /\ phase = "bios" /\ Len(points) < MaxPoints
                 /\ at[ui] \in {"save", "taken", "open", "copy"}
    /\ at[ui] = "copy" => making

ConfigSafe == DueIsKept /\ TextIsCurrent /\ IdleBefore /\ MakingHasRoom

ConfigInv == ConfigTypeOK /\ ConfigSafe

Places == {"idle", "save", "taken", "open", "copy", "unlink", "rename"}
Points == Texts \cup {Blank}

LEMMA DefaultsTyped == Defaults \in Configs
  BY ConfigAssumption DEF ConfigAssumption, Defaults, Configs

LEMMA StoredTyped == ASSUME NEW c \in Configs PROVE Stored(c) \in Texts
  BY DEF Stored, Configs, Texts, Encrypted

LEMMA ReadTyped == ASSUME NEW f PROVE Read(f) \in Configs
<1>1. CASE f \in Texts
  BY <1>1, DefaultsTyped DEF Read, Texts, Configs
<1>2. CASE f \notin Texts
  BY <1>2, DefaultsTyped DEF Read
<1> QED BY <1>1, <1>2

\* What is read of a text that was written: all but the clock frequency.
LEMMA ReadStored ==
  ASSUME NEW c \in Configs
  PROVE  /\ Read(Stored(c)).setting = c.setting
         /\ Read(Stored(c)).password = Encrypted(c.password)
<1>1. Read(Stored(c)) = [Defaults EXCEPT !.setting = Stored(c).setting, !.password = Stored(c).password]
  BY StoredTyped DEF Read
<1> QED BY <1>1 DEF Stored, Defaults

\* What is read would be written again as it was: no password of a file is
\* plain, but for the empty one.
LEMMA ReadAgain == ASSUME NEW f PROVE Encrypted(Read(f).password) = Read(f).password
<1>1. CASE f \in Texts
  BY <1>1 DEF Read, Defaults, Encrypted, Texts
<1>2. CASE f \notin Texts
  BY <1>2 DEF Read, Defaults, Encrypted
<1> QED BY <1>1, <1>2

LEMMA FailuresTyped == ASSUME failures \in 0 .. MaxFailures, SaveFailure
                       PROVE  failures' \in 0 .. MaxFailures /\ failures' # failures
  BY ConfigAssumption DEF ConfigAssumption, SaveFailure

\* How the restore points change.
LEMMA PointsTyped ==
  ASSUME points \in Seq(Points), Len(points) <= MaxPoints
  PROVE  /\ Len(points) >= MaxPoints =>
               Tail(points) \in Seq(Points) /\ Len(Tail(points)) < MaxPoints
         /\ \A p \in Points : /\ Append(points, p) \in Seq(Points)
                              /\ Len(Append(points, p)) = Len(points) + 1
         /\ \A i \in DOMAIN points :
               LET rest == SubSeq(points, 1, i - 1) \o SubSeq(points, i + 1, Len(points))
               IN  rest \in Seq(Points) /\ Len(rest) <= MaxPoints
         /\ \A i \in DOMAIN points : points[i] \in Points
<1> USE ConfigAssumption DEF ConfigAssumption
<1>1. Len(points) >= MaxPoints => Tail(points) \in Seq(Points) /\ Len(Tail(points)) < MaxPoints
  OBVIOUS
<1>2. \A p \in Points : Append(points, p) \in Seq(Points) /\ Len(Append(points, p)) = Len(points) + 1
  OBVIOUS
<1>3. ASSUME NEW i \in DOMAIN points
      PROVE  LET rest == SubSeq(points, 1, i - 1) \o SubSeq(points, i + 1, Len(points))
             IN  rest \in Seq(Points) /\ Len(rest) <= MaxPoints
  <2> DEFINE a == SubSeq(points, 1, i - 1)
             b == SubSeq(points, i + 1, Len(points))
  <2>1. i \in 1 .. Len(points) /\ Len(points) \in Nat
    OBVIOUS
  <2>2. a \in Seq(Points) /\ Len(a) = i - 1
    BY <2>1
  <2>3. b \in Seq(Points) /\ Len(b) = Len(points) - i
    BY <2>1
  <2> HIDE DEF a, b
  <2>4. a \o b \in Seq(Points) /\ Len(a \o b) = Len(a) + Len(b)
    BY <2>2, <2>3, ConcatProperties
  <2>5. Len(a \o b) <= MaxPoints
    BY <2>1, <2>2, <2>3, <2>4
  <2> QED BY <2>4, <2>5 DEF a, b
<1>4. \A i \in DOMAIN points : points[i] \in Points
  OBVIOUS
<1> QED BY <1>1, <1>2, <1>3, <1>4

LEMMA ConfigInitHolds == ConfigInit => ConfigInv
<1> SUFFICES ASSUME ConfigInit PROVE ConfigInv
  OBVIOUS
<1> USE ConfigAssumption DEF ConfigAssumption, ConfigInit
<1>1. points \in Seq(Points) /\ Len(points) = 0
  OBVIOUS
<1>2. ConfigTypeOK
  <2>1. points \in Seq(Points) /\ Len(points) <= MaxPoints
    BY <1>1
  <2>2. config \in Configs /\ due \in Configs \cup {Unknown}
    BY DefaultsTyped
  <2>3. /\ at \in [Tasks -> Places] /\ text \in [Tasks -> Points]
        /\ failures \in 0 .. MaxFailures
    BY DEF Places, Points
  <2>4. /\ phase \in {"off", "bios", "up"} /\ making \in BOOLEAN /\ late \in SUBSET Tasks
        /\ cfgFile \in Texts \cup {NoFile, Blank}
    OBVIOUS
  <2> QED BY <2>1, <2>2, <2>3, <2>4 DEF ConfigTypeOK, Places, Points
<1>3. DueIsKept
  BY DEF DueIsKept, Read, Defaults, Encrypted
<1>4. TextIsCurrent /\ IdleBefore /\ MakingHasRoom
  BY DEF TextIsCurrent, IdleBefore, MakingHasRoom
<1> QED BY <1>2, <1>3, <1>4 DEF ConfigInv, ConfigSafe

\* Where a task goes and what it takes along.
LEMMA MoveTyped ==
  ASSUME ConfigTypeOK, NEW t \in Tasks, NEW place \in Places, NEW content \in Points,
         MoveTo(t, place, content)
  PROVE  at' \in [Tasks -> Places] /\ text' \in [Tasks -> Points]
  BY DEF ConfigTypeOK, MoveTo, Places, Points

LEMMA StopsTyped ==
  ASSUME Stops
  PROVE  /\ at' \in [Tasks -> Places] /\ text' \in [Tasks -> Points]
         /\ phase' = "off" /\ config' \in Configs /\ making' = FALSE /\ late' = {}
         /\ \A t \in Tasks : at'[t] = "idle"
  BY DefaultsTyped DEF Stops, Places, Points

LEMMA ConfigTypeStep == ConfigTypeOK /\ IdleBefore /\ MakingHasRoom /\ [ConfigNext]_configVars
                          => ConfigTypeOK'
<1> SUFFICES ASSUME ConfigTypeOK, IdleBefore, MakingHasRoom, [ConfigNext]_configVars
             PROVE  ConfigTypeOK'
  OBVIOUS
<1> USE ConfigAssumption DEF ConfigAssumption
<1>0. /\ phase \in {"off", "bios", "up"} /\ making \in BOOLEAN
      /\ config \in Configs /\ due \in Configs \cup {Unknown} /\ late \in SUBSET Tasks
      /\ cfgFile \in Texts \cup {NoFile, Blank}
      /\ points \in Seq(Points) /\ Len(points) <= MaxPoints
      /\ at \in [Tasks -> Places] /\ text \in [Tasks -> Points]
      /\ failures \in 0 .. MaxFailures /\ Blank \in Points
  BY DEF ConfigTypeOK, Places, Points
<1>2. ASSUME NEW t \in Tasks, NEW c \in Configs, Change(t, c) PROVE ConfigTypeOK'
  <2>1. at' \in [Tasks -> Places] /\ text' \in [Tasks -> Points]
    BY <1>0, <1>2, MoveTyped DEF Change, Places
  <2>2. late' \in SUBSET Tasks
    BY <1>0, <1>2 DEF Change
  <2> QED BY <1>0, <1>2, <2>1, <2>2 DEF Change, ConfigTypeOK, Places, Points
<1>3. ASSUME NEW t \in Tasks, SetSetting(t) PROVE ConfigTypeOK'
  <2>1. PICK x \in Settings : Change(t, [config EXCEPT !.setting = x])
    BY <1>3 DEF SetSetting
  <2>2. [config EXCEPT !.setting = x] \in Configs
    BY <1>0 DEF Configs
  <2> QED BY <1>2, <2>1, <2>2
<1>4. CASE SetPassword
  <2>1. PICK x \in Passwords \cup {NoPassword} : Change(ui, [config EXCEPT !.password = x])
    BY <1>4 DEF SetPassword
  <2>2. [config EXCEPT !.password = x] \in Configs
    BY <1>0 DEF Configs
  <2> QED BY <1>2, <2>1, <2>2
<1>21. CASE SetClock
  <2>1. PICK x \in Clocks : Change(ui, [config EXCEPT !.clock = x])
    BY <1>21 DEF SetClock
  <2>2. [config EXCEPT !.clock = x] \in Configs
    BY <1>0 DEF Configs
  <2> QED BY <1>2, <2>1, <2>2
<1>5. CASE Reset
  BY <1>2, <1>5, DefaultsTyped DEF Reset
<1>6. ASSUME NEW t \in Tasks, Return(t)
      PROVE  at' \in [Tasks -> Places] /\ text' \in [Tasks -> Points]
  BY <1>0, <1>6, MoveTyped DEF Return, Places
<1>7. ASSUME NEW t \in Tasks, MakeText(t) PROVE ConfigTypeOK'
  <2>1. Stored(config) \in Points
    BY <1>0, StoredTyped DEF Points
  <2>2. at' \in [Tasks -> Places] /\ text' \in [Tasks -> Points]
    BY <1>6, <1>7, <2>1, MoveTyped DEF MakeText, Places
  <2>3. failures' \in 0 .. MaxFailures
    BY <1>0, <1>7, FailuresTyped DEF MakeText
  <2>4. late' \in SUBSET Tasks
    BY <1>0, <1>7 DEF MakeText
  <2> QED BY <1>0, <1>7, <2>2, <2>3, <2>4 DEF MakeText, ConfigTypeOK, Places, Points
<1>8. ASSUME NEW t \in Tasks, OpenFile(t) PROVE ConfigTypeOK'
  <2>1. at' \in [Tasks -> Places] /\ text' \in [Tasks -> Points]
    <3>1. text[t] \in Points
      BY <1>0
    <3> QED BY <1>6, <1>8, <3>1, MoveTyped DEF OpenFile, Places
  <2>2. failures' \in 0 .. MaxFailures
    BY <1>0, <1>8, FailuresTyped DEF OpenFile
  <2>3. /\ cfgFile' \in Texts \cup {NoFile, Blank} /\ due' \in Configs \cup {Unknown}
    BY <1>0, <1>8 DEF OpenFile
  <2> QED BY <1>0, <1>8, <2>1, <2>2, <2>3 DEF OpenFile, ConfigTypeOK, Places, Points
<1>9. ASSUME NEW t \in Tasks, WriteText(t) PROVE ConfigTypeOK'
  <2>1. at' \in [Tasks -> Places] /\ text' \in [Tasks -> Points]
    BY <1>6, <1>9 DEF WriteText
  <2>2. failures' \in 0 .. MaxFailures
    BY <1>0, <1>9, FailuresTyped DEF WriteText
  <2>3. /\ cfgFile' \in Texts \cup {NoFile, Blank} /\ due' \in Configs \cup {Unknown}
    BY <1>0, <1>9, StoredTyped DEF WriteText, Points
  <2> QED BY <1>0, <1>9, <2>1, <2>2, <2>3 DEF WriteText, ConfigTypeOK, Places, Points
<1>10. CASE NewPoint
  <2>1. at' \in [Tasks -> Places] /\ text' \in [Tasks -> Points]
    BY <1>0, <1>10, MoveTyped DEF NewPoint, Places
  <2>2. points' \in Seq(Points) /\ Len(points') <= MaxPoints
    BY <1>0, <1>10, PointsTyped DEF NewPoint
  <2> QED BY <1>0, <1>10, <2>1, <2>2 DEF NewPoint, ConfigTypeOK, Places, Points
<1>11. CASE Copy
  <2>1. at' \in [Tasks -> Places] /\ text' \in [Tasks -> Points]
    BY <1>0, <1>11, MoveTyped DEF Copy, Places
  <2>2. Len(points) < MaxPoints
    BY <1>11 DEF Copy, MakingHasRoom
  <2>3. points' \in Seq(Points) /\ Len(points') <= MaxPoints
    <3>1. CASE cfgFile # NoFile /\ points' = Append(points, cfgFile)
      <4>1. cfgFile \in Points
        BY <1>0, <3>1 DEF Points
      <4>2. points' \in Seq(Points) /\ Len(points') = Len(points) + 1 /\ Len(points) \in Nat
        BY <1>0, <3>1, <4>1, PointsTyped
      <4> QED BY <2>2, <4>2
    <3>2. CASE points' = points
      BY <1>0, <3>2
    <3> QED BY <1>11, <3>1, <3>2 DEF Copy
  <2>4. failures' \in 0 .. MaxFailures
    BY <1>0, <1>11, FailuresTyped DEF Copy
  <2> QED BY <1>0, <1>11, <2>1, <2>3, <2>4 DEF Copy, ConfigTypeOK, Places, Points
<1>12. ASSUME NEW i \in DOMAIN points, DeletePoint(i) PROVE ConfigTypeOK'
  <2>1. points' \in Seq(Points) /\ Len(points') <= MaxPoints
    BY <1>0, <1>12, PointsTyped DEF DeletePoint
  <2> QED BY <1>0, <1>12, <2>1 DEF DeletePoint, ConfigTypeOK, Places, Points
<1>13. ASSUME NEW i \in DOMAIN points, Restore(i) PROVE ConfigTypeOK'
  <2>1. points[i] \in Points
    BY <1>0, PointsTyped
  <2>2. at' \in [Tasks -> Places] /\ text' \in [Tasks -> Points]
    BY <1>13, <2>1, MoveTyped DEF Restore, Places
  <2> QED BY <1>0, <1>13, <2>2 DEF Restore, ConfigTypeOK, Places, Points
<1>14. CASE RemoveFile
  <2>1. at' \in [Tasks -> Places] /\ text' \in [Tasks -> Points]
    <3>1. text[ui] \in Points
      BY <1>0
    <3> QED BY <1>14, <3>1, MoveTyped DEF RemoveFile, Places
  <2> QED BY <1>0, <1>14, <2>1 DEF RemoveFile, ConfigTypeOK, Places, Points
<1>15. CASE RenameCopy
  <2>1. CASE cfgFile' = text[ui] /\ due' = Read(text[ui]) /\ Stops /\ UNCHANGED failures
    <3>1. cfgFile' \in Texts \cup {NoFile, Blank} /\ due' \in Configs \cup {Unknown}
      BY <1>0, <2>1, ReadTyped DEF Points
    <3> QED BY <1>0, <1>15, <2>1, <3>1, StopsTyped DEF RenameCopy, ConfigTypeOK, Places, Points
  <2>2. CASE MoveTo(ui, "idle", Blank) /\ SaveFailure
             /\ UNCHANGED <<phase, config, cfgFile, making, due, late>>
    <3>1. at' \in [Tasks -> Places] /\ text' \in [Tasks -> Points]
      BY <1>0, <2>2, MoveTyped DEF Places
    <3>2. failures' \in 0 .. MaxFailures
      BY <1>0, <2>2, FailuresTyped
    <3> QED BY <1>0, <1>15, <2>2, <3>1, <3>2 DEF RenameCopy, ConfigTypeOK, Places, Points
  <2> QED BY <1>15, <2>1, <2>2 DEF RenameCopy
<1>16. CASE FactoryReset
  <2>1. points' \in Seq(Points) /\ Len(points') = 0
    BY <1>16 DEF FactoryReset
  <2> QED BY <1>0, <1>16, <2>1, StopsTyped, DefaultsTyped DEF FactoryReset, ConfigTypeOK, Places, Points
<1>17. CASE Load
  <2>1. failures' \in 0 .. MaxFailures
    BY <1>0, <1>17, FailuresTyped DEF Load
  <2>2. config' \in Configs
    BY <1>17, ReadTyped, DefaultsTyped DEF Load
  <2> QED BY <1>0, <1>17, <2>1, <2>2 DEF Load, ConfigTypeOK, Places, Points
<1>18. CASE BootDone
  BY <1>0, <1>18 DEF BootDone, ConfigTypeOK, Places, Points
<1>19. CASE PowerOff
  BY <1>0, <1>19, StopsTyped DEF PowerOff, ConfigTypeOK, Places, Points
<1>20. CASE UNCHANGED configVars
  BY <1>0, <1>20 DEF configVars, ConfigTypeOK, Places, Points
<1> QED
  BY <1>3, <1>4, <1>5, <1>7, <1>8, <1>9, <1>10, <1>11, <1>12, <1>13, <1>14, <1>15, <1>16,
     <1>17, <1>18, <1>19, <1>20, <1>21
  DEF ConfigNext, Save

\* No step but OpenFile and those after it says what the next start has to load,
\* and a change makes every text that is under way late.
LEMMA ConfigStep == ConfigInv /\ [ConfigNext]_configVars => ConfigSafe'
<1> SUFFICES ASSUME ConfigInv, [ConfigNext]_configVars PROVE ConfigSafe'
  OBVIOUS
<1> USE ConfigAssumption DEF ConfigAssumption, ConfigInv, ConfigSafe
<1>0. /\ at \in [Tasks -> Places] /\ text \in [Tasks -> Points] /\ config \in Configs
      /\ phase \in {"off", "bios", "up"} /\ making \in BOOLEAN
      /\ points \in Seq(Points) /\ Len(points) <= MaxPoints
  BY DEF ConfigTypeOK, Places, Points
<1>1. ASSUME NEW t \in Tasks, NEW c, Change(t, c) PROVE ConfigSafe'
  <2>1. DueIsKept'
    BY <1>1 DEF Change, DueIsKept, Read
  <2>2. TextIsCurrent'
    BY <1>0, <1>1 DEF Change, MoveTo, TextIsCurrent
  <2>3. IdleBefore' /\ MakingHasRoom'
    BY <1>0, <1>1 DEF Change, Runs, MoveTo, IdleBefore, MakingHasRoom
  <2> QED BY <2>1, <2>2, <2>3
<1>2. ASSUME NEW t \in Tasks, SetSetting(t) PROVE ConfigSafe'
  BY <1>1, <1>2 DEF SetSetting
<1>3. CASE SetPassword \/ SetClock \/ Reset
  BY <1>1, <1>3 DEF SetPassword, SetClock, Reset
\* A save of the restore point's is the BIOS's.
<1>4. ASSUME NEW t \in Tasks, at[t] # "idle", Return(t), UNCHANGED <<phase, making, points>>
      PROVE  IdleBefore' /\ MakingHasRoom' /\ at'[t] \notin {"taken", "open"}
             /\ \A u \in Tasks \ {t} : at'[u] = at[u] /\ text'[u] = text[u]
  <2>1. at' = [at EXCEPT ![t] = IF making THEN "copy" ELSE "idle"] /\ text' = [text EXCEPT ![t] = Blank]
    BY <1>4 DEF Return, MoveTo
  <2>2. phase # "up" => t = ui
    BY <1>4 DEF IdleBefore
  <2>3. making => t = ui /\ phase = "bios"
    BY <2>2 DEF MakingHasRoom
  <2>4. phase # "off"
    BY <1>4 DEF IdleBefore
  <2>5. IdleBefore'
    BY <1>0, <1>4, <2>1, <2>2, <2>4 DEF IdleBefore
  <2>6. MakingHasRoom'
    BY <1>0, <1>4, <2>1, <2>3 DEF MakingHasRoom
  <2> QED BY <1>0, <2>1, <2>5, <2>6
\* So is what it goes on with.
<1>5. ASSUME NEW t \in Tasks, NEW place \in {"taken", "open"}, NEW content,
             at[t] \in {"save", "taken"}, MoveTo(t, place, content),
             UNCHANGED <<phase, making, points>>
      PROVE  IdleBefore' /\ MakingHasRoom' /\ at'[t] = place /\ text'[t] = content
             /\ \A u \in Tasks \ {t} : at'[u] = at[u] /\ text'[u] = text[u]
  BY <1>0, <1>5 DEF MoveTo, IdleBefore, MakingHasRoom
<1>6. ASSUME NEW t \in Tasks, MakeText(t) PROVE ConfigSafe'
  <2>1. DueIsKept'
    BY <1>6 DEF MakeText, DueIsKept, Read
  <2>2. CASE MoveTo(t, "taken", Stored(config))
    BY <1>5, <1>6, <2>1, <2>2 DEF MakeText, TextIsCurrent
  <2>3. CASE Return(t)
    BY <1>4, <1>6, <2>1, <2>3 DEF MakeText, TextIsCurrent
  <2> QED BY <1>6, <2>2, <2>3 DEF MakeText
<1>7. ASSUME NEW t \in Tasks, OpenFile(t) PROVE ConfigSafe'
  <2>1. DueIsKept'
    BY <1>7 DEF OpenFile, DueIsKept, Read
  <2>2. CASE MoveTo(t, "open", text[t])
    BY <1>5, <1>7, <2>1, <2>2 DEF OpenFile, TextIsCurrent
  <2>3. CASE Return(t)
    BY <1>4, <1>7, <2>1, <2>3 DEF OpenFile, TextIsCurrent
  <2> QED BY <1>7, <2>2, <2>3 DEF OpenFile
<1>8. ASSUME NEW t \in Tasks, WriteText(t) PROVE ConfigSafe'
  <2>1. DueIsKept'
    <3>1. CASE cfgFile' = text[t] /\ due' = IF t \in late THEN Unknown ELSE config
      <4>1. t \notin late => cfgFile' = Stored(config)
        BY <1>8, <3>1 DEF WriteText, TextIsCurrent
      <4> QED BY <1>0, <3>1, <4>1, ReadStored DEF DueIsKept
    <3>2. CASE UNCHANGED <<cfgFile, due>>
      BY <3>2 DEF DueIsKept, Read
    <3> QED BY <1>8, <3>1, <3>2 DEF WriteText
  <2> QED BY <1>4, <1>8, <2>1 DEF WriteText, TextIsCurrent
<1>9. CASE NewPoint
  <2>1. Len(points') < MaxPoints
    BY <1>0, <1>9, PointsTyped DEF NewPoint
  <2>2. DueIsKept' /\ TextIsCurrent'
    BY <1>0, <1>9 DEF NewPoint, MoveTo, DueIsKept, Read, TextIsCurrent
  <2>3. IdleBefore' /\ MakingHasRoom'
    BY <1>0, <1>9, <2>1 DEF NewPoint, InBios, MoveTo, IdleBefore, MakingHasRoom
  <2> QED BY <2>2, <2>3
<1>10. CASE Copy
  <2>1. DueIsKept' /\ TextIsCurrent'
    BY <1>0, <1>10 DEF Copy, MoveTo, DueIsKept, Read, TextIsCurrent
  <2>2. IdleBefore' /\ MakingHasRoom'
    BY <1>0, <1>10 DEF Copy, MoveTo, IdleBefore, MakingHasRoom
  <2> QED BY <2>1, <2>2
<1>11. ASSUME NEW i \in DOMAIN points, DeletePoint(i) PROVE ConfigSafe'
  BY <1>11 DEF DeletePoint, InBios, DueIsKept, Read, TextIsCurrent, IdleBefore, MakingHasRoom
<1>12. ASSUME NEW place \in {"unlink", "rename"}, NEW content,
              phase = "bios" \/ at[ui] = "unlink", ~making,
              MoveTo(ui, place, content), UNCHANGED <<phase, making, config, late>>
       PROVE  TextIsCurrent' /\ IdleBefore' /\ MakingHasRoom'
  BY <1>0, <1>12 DEF MoveTo, TextIsCurrent, IdleBefore, MakingHasRoom
<1>13. ASSUME NEW i \in DOMAIN points, Restore(i) PROVE ConfigSafe'
  <2>1. ~making
    BY <1>13 DEF Restore, InBios, MakingHasRoom
  <2> QED BY <1>12, <1>13, <2>1 DEF Restore, InBios, DueIsKept, Read
<1>14. CASE RemoveFile
  <2>1. ~making
    BY <1>14 DEF RemoveFile, MakingHasRoom
  <2> QED BY <1>12, <1>14, <2>1 DEF RemoveFile, DueIsKept
<1>15. ASSUME Stops PROVE TextIsCurrent' /\ IdleBefore' /\ MakingHasRoom'
  BY <1>15, StopsTyped DEF TextIsCurrent, IdleBefore, MakingHasRoom
<1>16. CASE RenameCopy
  <2>1. CASE cfgFile' = text[ui] /\ due' = Read(text[ui]) /\ Stops
    <3>1. DueIsKept'
      BY <2>1, ReadAgain DEF DueIsKept
    <3> QED BY <1>15, <2>1, <3>1
  <2>2. CASE MoveTo(ui, "idle", Blank) /\ UNCHANGED <<phase, config, cfgFile, making, due, late>>
    <3>1. ~making
      BY <1>16 DEF RenameCopy, MakingHasRoom
    <3> QED BY <1>0, <2>2, <3>1 DEF MoveTo, DueIsKept, Read, TextIsCurrent, IdleBefore, MakingHasRoom
  <2> QED BY <1>16, <2>1, <2>2 DEF RenameCopy
<1>17. CASE FactoryReset
  BY <1>15, <1>17 DEF FactoryReset, DueIsKept, Read, Defaults, Encrypted
<1>18. CASE Load
  <2>1. DueIsKept'
    BY <1>18 DEF Load, DueIsKept, Read
  <2> QED BY <1>18, <2>1 DEF Load, TextIsCurrent, IdleBefore, MakingHasRoom
<1>19. CASE BootDone
  BY <1>19 DEF BootDone, InBios, DueIsKept, Read, TextIsCurrent, IdleBefore, MakingHasRoom
<1>20. CASE PowerOff
  BY <1>15, <1>20 DEF PowerOff, DueIsKept, Read
<1>21. CASE UNCHANGED configVars
  BY <1>21 DEF configVars, DueIsKept, Read, TextIsCurrent, IdleBefore, MakingHasRoom
<1> QED
  BY <1>2, <1>3, <1>6, <1>7, <1>8, <1>9, <1>10, <1>11, <1>13, <1>14, <1>16, <1>17, <1>18,
     <1>19, <1>20, <1>21
  DEF ConfigNext, Save

LEMMA AlwaysConfigInv == ConfigSpec => []ConfigInv
<1>1. ConfigInv /\ [ConfigNext]_configVars => ConfigInv'
  BY ConfigTypeStep, ConfigStep DEF ConfigInv, ConfigSafe
<1> QED BY <1>1, ConfigInitHolds, PTL DEF ConfigSpec

\* The variables keep their types, and there are never more than RP_MAX points.
THEOREM ConfigTypeCorrect == ConfigSpec => []ConfigTypeOK
<1>1. ConfigInv => ConfigTypeOK
  BY DEF ConfigInv
<1> QED BY <1>1, AlwaysConfigInv, PTL

\* A start brings back what was saved last or restored, but for the clock
\* frequency, for any number of tasks that save, of restore points and of
\* failures.
THEOREM StartAlwaysBringsBack == ConfigSpec => StartBringsBack
<1>1. ConfigInv /\ [ConfigNext]_configVars
        => [phase = "off" /\ phase' = "bios" /\ failures' = failures /\ due # Unknown =>
              /\ config'.setting = due.setting
              /\ config'.password = Encrypted(due.password)]_configVars
  <2> SUFFICES ASSUME ConfigInv, [ConfigNext]_configVars, phase = "off", phase' = "bios",
                      failures' = failures, due # Unknown
               PROVE  config'.setting = due.setting /\ config'.password = Encrypted(due.password)
    OBVIOUS
  <2>1. \A t \in Tasks : at[t] = "idle"
    BY DEF ConfigInv, ConfigSafe, IdleBefore
  <2>2. Load
    BY <2>1, ConfigAssumption
    DEF ConfigAssumption, ConfigNext, configVars, SetSetting, Change, Runs, Save, MakeText, OpenFile,
        WriteText, SetPassword, SetClock, Reset, NewPoint, InBios, Copy, RemoveFile, RenameCopy,
        FactoryReset, DeletePoint, Restore, BootDone, PowerOff
  <2>3. config' = Read(cfgFile)
    BY <2>2, FailuresTyped DEF Load, ConfigInv, ConfigTypeOK
  <2> QED BY <2>3 DEF ConfigInv, ConfigSafe, DueIsKept
<1> QED BY <1>1, AlwaysConfigInv, PTL DEF ConfigSpec, StartBringsBack
=============================================================================

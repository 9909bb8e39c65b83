------------------------- MODULE FirmwareFlashProofs -------------------------
(***************************************************************************)
(* For any number of tasks, jobs and chunks, and with the power cut at any *)
(* moment: no operation leaves the shared stream open behind it.           *)
(* StreamHasOwner is inductive on top of the types: whoever closes the     *)
(* stream clears s_stream_active, so another owner is needed only while    *)
(* nobody has left.  The hash follows the slot, success means the job's    *)
(* own image, the recorded name is that of the slot's image, and an        *)
(* unsigned image goes: when its operation is over it is not bootable.     *)
(***************************************************************************)
EXTENDS FirmwareFlash, TLAPS

\* Of an upload whose link has gone less than an image arrives.
LEMMA LateType ==
  ASSUME late \in [Tasks -> 0..(Chunks - 1)], NEW t \in Tasks, Arrives(t)
  PROVE  late' \in [Tasks -> 0..(Chunks - 1)]
<1>1. Chunks \in Nat /\ late[t] \in 0..(Chunks - 1)
  BY FirmwareFlashAssumption DEF FirmwareFlashAssumption
<1>2. CASE kind[t] = "upload" /\ ~hotspot
  <2>1. late[t] + 1 \in 0..(Chunks - 1) /\ late' = [late EXCEPT ![t] = late[t] + 1]
    BY <1>1, <1>2 DEF Arrives
  <2> QED BY <2>1
<1>3. CASE ~(kind[t] = "upload" /\ ~hotspot)
  BY <1>3 DEF Arrives
<1> QED BY <1>2, <1>3

\* Every state has the variables in their types, and a busy task has a job.
THEOREM TypeCorrect == Spec => []TypeOK
<1> USE FirmwareFlashAssumption DEF FirmwareFlashAssumption, TypeOK, Cells, Kinds, Guarded
<1>0. <<>> \in Seq(Jobs \X (1..Chunks))
  OBVIOUS
<1>1. Init => TypeOK
  <2> SUFFICES ASSUME Init PROVE TypeOK
    OBVIOUS
  <2>1. hash \in Seq(Jobs \X (1..Chunks))
    BY <1>0 DEF Init
  <2>2. slot \in [Cells -> (Jobs \X (1..Chunks)) \cup {Nothing, Garbage}]
    BY DEF Init, Erased
  <2>3. wrote \in 0..SlotSize /\ sent \in [Tasks -> 0..Chunks]
    BY DEF Init
  <2>4. late \in [Tasks -> 0..(Chunks - 1)]
    BY DEF Init
  <2>5. {altName, savedName} \subseteq Jobs \cup {Nothing} /\ excused \in SUBSET Jobs
    BY DEF Init
  <2> QED
    BY <2>1, <2>2, <2>3, <2>4, <2>5 DEF Init
<1>2. TypeOK /\ [Next]_vars => TypeOK'
  <2> SUFFICES ASSUME TypeOK, [Next]_vars PROVE TypeOK'
    OBVIOUS
  <2>0. Invalidated \in [Cells -> (Jobs \X (1..Chunks)) \cup {Nothing, Garbage}]
    BY DEF Invalidated
  <2>1. ASSUME NEW t \in Tasks, NEW j \in Jobs, NEW k \in Kinds, Start(t, j, k)
        PROVE TypeOK'
    BY <2>1 DEF Start, stream, KindsOf
  <2>2. ASSUME NEW t \in Tasks, NEW result \in {"ok", "failed"},
               pc[t] # "idle", Return(t, result),
               active' \in BOOLEAN, wrote' = wrote, hash' = hash,
               slot' \in {slot, Invalidated}
        PROVE TypeOK'
    <3>1. {altName, savedName}' \subseteq Jobs \cup {Nothing} /\ excused' \in SUBSET Jobs
      BY <2>2 DEF Return, NameSlot, names
    <3> QED BY <2>0, <2>2, <3>1 DEF Return, link
  <2>3. ASSUME NEW t \in Tasks, Step(t) PROVE TypeOK'
    <3>0. CASE Forget(t)
      BY <3>0 DEF Forget, stream, link
    <3>1. CASE TakeGuard(t)
      BY <3>1 DEF TakeGuard, stream, link, names
    <3>2. CASE GiveUp(t)
      BY <2>2, <3>2 DEF GiveUp, stream
    <3>3. CASE TestActive(t)
      <4>1. CASE active
        BY <2>2, <3>3, <4>1 DEF TestActive, stream
      <4>2. CASE ~active
        BY <3>3, <4>2 DEF TestActive, Goto, stream, link, names
      <4> QED
        BY <4>1, <4>2
    <3>4. CASE EraseSlot(t)
      <4>1. CASE UNCHANGED slot /\ Return(t, "failed")
        BY <2>2, <3>4, <4>1 DEF EraseSlot, stream
      <4>2. CASE slot' = Erased /\ Goto(t, "open")
        BY <3>4, <4>2 DEF EraseSlot, Goto, stream, link, names, Erased
      <4> QED
        BY <3>4, <4>1, <4>2 DEF EraseSlot
    <3>5. CASE Open(t)
      BY <3>5 DEF Open, Goto, link, names
    <3>6. CASE Write(t)
      <4> DEFINE chunk == <<job[t], sent[t] + 1>>
      <4>1. pc[t] = "stream" /\ sent[t] < Chunks /\ sent[t] \in Nat
        BY <3>6 DEF Write
      <4>2. chunk \in Jobs \X (1..Chunks)
        BY <4>1
      <4>3. CASE Abort /\ Return(t, "failed")
        BY <2>2, <4>1, <4>3 DEF Abort, CloseStream, stream
      <4>4. CASE ~(Abort /\ Return(t, "failed"))
        <5>1. /\ wrote + 1 \in Cells
              /\ slot' = [slot EXCEPT ![wrote + 1] =
                            IF @ = Nothing THEN chunk ELSE Garbage]
              /\ wrote' = wrote + 1
              /\ hash' = Append(hash, chunk)
              /\ sent' = [sent EXCEPT ![t] = @ + 1]
              /\ Arrives(t)
              /\ UNCHANGED <<active, pc, job, kind, lock, outcome, signed, hotspot, names, thirdParty>>
          BY <3>6, <4>4 DEF Write
        <5>2. hash' \in Seq(Jobs \X (1..Chunks))
          BY <4>2, <5>1
        <5>3. slot' \in [Cells -> (Jobs \X (1..Chunks)) \cup {Nothing, Garbage}]
          BY <4>2, <5>1
        <5>4. sent' \in [Tasks -> 0..Chunks]
          BY <4>1, <5>1
        <5>5. late' \in [Tasks -> 0..(Chunks - 1)]
          BY <5>1, LateType
        <5>6. {altName, savedName}' \subseteq Jobs \cup {Nothing} /\ excused' \in SUBSET Jobs
          BY <5>1 DEF names
        <5>7. \A u \in Tasks : pc'[u] # "idle" => job'[u] \in Jobs
          BY <5>1
        <5>8. wrote' \in 0..SlotSize /\ UNCHANGED <<active, lock, pc, job, kind, outcome, signed>>
          BY <5>1
        <5>9. UNCHANGED <<hotspot, thirdParty>>
          BY <5>1
        <5> HIDE DEF chunk
        <5> QED
          BY <5>2, <5>3, <5>4, <5>5, <5>6, <5>7, <5>8, <5>9
      <4> QED
        BY <4>3, <4>4
    <3>7. CASE Break(t)
      BY <2>2, <3>7 DEF Break, Abort, CloseStream, stream
    <3>8. CASE EndVerified(t)
      BY <2>2, <3>8 DEF EndVerified, CloseStream, stream
    <3>9. CASE EndThirdParty(t)
      BY <2>2, <3>9 DEF EndThirdParty, CloseStream
    <3> QED
      BY <2>3, <3>0, <3>1, <3>2, <3>3, <3>4, <3>5, <3>6, <3>7, <3>8, <3>9 DEF Step
  <2>4. CASE PowerLoss
    <3>1. hash' \in Seq(Jobs \X (1..Chunks))
      BY <1>0, <2>4 DEF PowerLoss
    <3>2. /\ wrote' \in 0..SlotSize /\ sent' \in [Tasks -> 0..Chunks]
          /\ late' \in [Tasks -> 0..(Chunks - 1)]
      BY <2>4 DEF PowerLoss
    <3>3. {altName, savedName}' \subseteq Jobs \cup {Nothing} /\ excused' \in SUBSET Jobs
      BY <2>4 DEF PowerLoss
    <3>4. outcome' \in [Jobs -> {"new", "running", "ok", "failed", "lost"}]
      BY <2>4 DEF PowerLoss
    <3> QED
      BY <2>4, <3>1, <3>2, <3>3, <3>4 DEF PowerLoss
  <2>5. CASE UNCHANGED vars
    BY <2>5 DEF vars, stream, control, link, names
  <2>6. CASE EnterHotspot \/ LeaveHotspot
    <3>0. [t \in Tasks |-> 0] \in [Tasks -> 0..(Chunks - 1)]
      OBVIOUS
    <3>1. late' \in [Tasks -> 0..(Chunks - 1)] /\ hotspot' \in BOOLEAN
      BY <2>6, <3>0 DEF EnterHotspot, LeaveHotspot
    <3>2. UNCHANGED <<stream, slot, lock, control, outcome, signed, names, thirdParty>>
      BY <2>6 DEF EnterHotspot, LeaveHotspot
    <3> QED BY <3>1, <3>2 DEF stream, control, names
  <2> QED
    BY <2>1, <2>3, <2>4, <2>5, <2>6 DEF Next
<1> QED
  BY <1>1, <1>2, PTL DEF Spec

\* An open stream has a task that is still streaming, and so will close it.
THEOREM NoStreamLeak == Spec => []StreamHasOwner
<1> USE DEF StreamHasOwner
<1>1. Init => StreamHasOwner
  BY DEF Init
<1>2. TypeOK /\ StreamHasOwner /\ [Next]_vars => StreamHasOwner'
  <2> SUFFICES ASSUME TypeOK, StreamHasOwner, [Next]_vars, active'
               PROVE  \E u \in Tasks : pc'[u] = "stream"
    OBVIOUS
  <2>0. pc \in [Tasks -> {"idle", "forget", "guard", "begin", "erase", "open", "stream"}]
    BY DEF TypeOK
  <2>1. ASSUME NEW t \in Tasks, NEW place, pc[t] # "stream", active,
               pc' = [pc EXCEPT ![t] = place]
        PROVE  \E u \in Tasks : pc'[u] = "stream"
    BY <2>0, <2>1
  <2>2. ASSUME NEW t \in Tasks, NEW j \in Jobs, NEW k \in Kinds, Start(t, j, k)
        PROVE  \E u \in Tasks : pc'[u] = "stream"
    BY <2>1, <2>2 DEF Start, stream
  <2>3. ASSUME NEW t \in Tasks, Step(t)
        PROVE  \E u \in Tasks : pc'[u] = "stream"
    <3>0. CASE Forget(t)
      BY <2>1, <3>0 DEF Forget, stream
    <3>1. CASE TakeGuard(t)
      BY <2>1, <3>1 DEF TakeGuard, stream
    <3>2. CASE GiveUp(t)
      BY <2>1, <3>2 DEF GiveUp, Return, stream
    <3>3. CASE TestActive(t)
      BY <2>1, <3>3 DEF TestActive, Return, Goto, stream
    <3>4. CASE EraseSlot(t)
      BY <2>1, <3>4 DEF EraseSlot, Return, Goto, stream
    <3>5. CASE Open(t)
      BY <2>0, <3>5 DEF Open, Goto
    <3>6. CASE Write(t)
      BY <3>6 DEF Write, Abort, CloseStream, stream
    <3>7. CASE Break(t)
      BY <3>7 DEF Break, Abort, CloseStream, stream
    <3>8. CASE EndVerified(t)
      BY <3>8 DEF EndVerified, CloseStream, stream
    <3>9. CASE EndThirdParty(t)
      BY <3>9 DEF EndThirdParty, CloseStream
    <3> QED
      BY <2>3, <3>0, <3>1, <3>2, <3>3, <3>4, <3>5, <3>6, <3>7, <3>8, <3>9 DEF Step
  <2>4. CASE PowerLoss
    BY <2>4 DEF PowerLoss
  <2>5. CASE UNCHANGED vars
    BY <2>5 DEF vars, stream, control
  <2>6. CASE EnterHotspot \/ LeaveHotspot
    BY <2>6 DEF EnterHotspot, LeaveHotspot, stream, control
  <2> QED
    BY <2>2, <2>3, <2>4, <2>5, <2>6 DEF Next
<1> QED
  BY <1>1, <1>2, TypeCorrect, PTL DEF Spec

\* The hash covers the written cells, whoever writes, erases or closes.
THEOREM HashCorrect == Spec => []HashFollowsSlot
<1> USE FirmwareFlashAssumption DEF FirmwareFlashAssumption
<1>1. Init => HashFollowsSlot
  BY DEF Init, HashFollowsSlot
<1>2. TypeOK /\ HashFollowsSlot /\ [Next]_vars => HashFollowsSlot'
  <2> SUFFICES ASSUME TypeOK, HashFollowsSlot, [Next]_vars, active'
               PROVE  /\ wrote' = Len(hash')
                      /\ \A c \in 1..wrote' : slot'[c] \in {hash'[c], Nothing, Garbage}
    BY DEF HashFollowsSlot
  <2> DEFINE Follows == /\ wrote' = Len(hash')
                        /\ \A c \in 1..wrote' : slot'[c] \in {hash'[c], Nothing, Garbage}
  <2>0. /\ wrote \in 0..SlotSize
        /\ hash \in Seq(Jobs \X (1..Chunks))
        /\ slot \in [Cells -> (Jobs \X (1..Chunks)) \cup {Nothing, Garbage}]
    BY DEF TypeOK
  <2>1. ASSUME active, UNCHANGED stream, slot' \in {slot, Erased} PROVE Follows
    BY <2>0, <2>1 DEF HashFollowsSlot, stream, Cells, Erased
  <2>2. ASSUME NEW t \in Tasks, NEW j \in Jobs, NEW k \in Kinds, Start(t, j, k)
        PROVE  Follows
    BY <2>1, <2>2 DEF Start, stream
  <2>3. ASSUME NEW t \in Tasks, Step(t) PROVE Follows
    <3>1. CASE Forget(t) \/ TakeGuard(t) \/ GiveUp(t) \/ TestActive(t) \/ EraseSlot(t)
      BY <2>1, <3>1 DEF Forget, TakeGuard, GiveUp, TestActive, EraseSlot, stream
    <3>2. CASE Open(t)
      BY <3>2 DEF Open
    <3>3. CASE Write(t)
      <4> DEFINE chunk == <<job[t], sent[t] + 1>>
      <4>1. /\ active
            /\ wrote + 1 \in Cells
            /\ slot' = [slot EXCEPT ![wrote + 1] =
                          IF @ = Nothing THEN chunk ELSE Garbage]
            /\ wrote' = wrote + 1
            /\ hash' = Append(hash, chunk)
        BY <3>3 DEF Write, Abort, CloseStream, stream
      <4> HIDE DEF chunk
      <4>2. wrote = Len(hash)
        BY <4>1 DEF HashFollowsSlot
      <4>3. Len(hash') = Len(hash) + 1 /\ hash'[Len(hash) + 1] = chunk
        BY <2>0, <4>1
      <4>4. \A c \in 1..Len(hash) : hash'[c] = hash[c]
        BY <2>0, <4>1
      <4>5. \A c \in 1..wrote : slot'[c] = slot[c]
        BY <2>0, <4>1 DEF Cells
      <4>6. slot'[wrote + 1] \in {chunk, Garbage}
        BY <2>0, <4>1
      <4>7. \A c \in 1..wrote' : c \in 1..wrote \/ c = wrote + 1
        BY <2>0, <4>1
      <4> QED
        BY <4>1, <4>2, <4>3, <4>4, <4>5, <4>6, <4>7 DEF HashFollowsSlot
    <3>4. CASE Break(t)
      BY <3>4 DEF Break, Abort, CloseStream, stream
    <3>5. CASE EndVerified(t)
      BY <3>5 DEF EndVerified, CloseStream, stream
    <3>6. CASE EndThirdParty(t)
      BY <3>6 DEF EndThirdParty, CloseStream
    <3> QED
      BY <2>3, <3>1, <3>2, <3>3, <3>4, <3>5, <3>6 DEF Step
  <2>4. CASE PowerLoss
    BY <2>4 DEF PowerLoss
  <2>5. CASE UNCHANGED vars
    BY <2>1, <2>5 DEF vars, stream
  <2>6. CASE EnterHotspot \/ LeaveHotspot
    BY <2>1, <2>6 DEF EnterHotspot, LeaveHotspot, stream
  <2> QED
    BY <2>2, <2>3, <2>4, <2>5, <2>6 DEF Next
<1> QED
  BY <1>1, <1>2, TypeCorrect, PTL DEF Spec

\* What esp_ota_end accepts after the signature is the job's own image: the
\* signature fixes the hash, and the hash what the written cells can be.
LEMMA VerifiedImage ==
  ASSUME TypeOK, HashFollowsSlot, active, NEW j \in Jobs, SignatureMatches(j), ImageComplete
  PROVE  Bootable(j)
<1>1. PICK i \in Jobs : Bootable(i)
  BY DEF ImageComplete
<1>2. wrote = Chunks /\ \A n \in 1..Chunks : hash[n] = <<j, n>>
  <2>1. hash = Image(j)
    BY DEF SignatureMatches
  <2>2. DOMAIN hash = 1..Chunks
    BY <2>1 DEF Image
  <2>3. DOMAIN hash = 1..Len(hash) /\ Len(hash) \in Nat
    <3>1. hash \in Seq(Jobs \X (1..Chunks))
      BY DEF TypeOK
    <3> QED BY <3>1
  <2>4. Len(hash) = Chunks
    BY <2>2, <2>3, FirmwareFlashAssumption DEF FirmwareFlashAssumption
  <2>5. wrote = Len(hash)
    BY DEF HashFollowsSlot
  <2> QED
    BY <2>1, <2>4, <2>5 DEF Image
<1>3. \A n \in 1..Chunks : slot[n] \in {<<j, n>>, Nothing, Garbage}
  BY <1>2 DEF HashFollowsSlot
<1>4. \A n \in 1..Chunks : slot[n] = <<i, n>> /\ <<i, n>> \notin {Nothing, Garbage}
  BY <1>1, FirmwareFlashAssumption DEF Bootable, FirmwareFlashAssumption
<1> QED BY <1>3, <1>4 DEF Bootable

\* A signed install that reports success has put its own image into the slot,
\* also when another task opens, writes or closes the shared stream meanwhile.
THEOREM InstallCorrect == Spec => SuccessIsOwnImage
<1> DEFINE Own ==
      \A j \in Jobs :
          outcome[j] = "running" /\ outcome'[j] = "ok" =>
              \/ Bootable(j)'
              \/ \E t \in Tasks : job[t] = j /\ kind[t] = "thirdparty"
<1>1. ASSUME TypeOK, HashFollowsSlot, Next PROVE Own
  <2> SUFFICES ASSUME NEW j \in Jobs, outcome[j] = "running", outcome'[j] = "ok"
               PROVE  \/ Bootable(j)'
                      \/ \E t \in Tasks : job[t] = j /\ kind[t] = "thirdparty"
    OBVIOUS
  <2>0. outcome \in [Jobs -> {"new", "running", "ok", "failed", "lost"}]
    BY <1>1 DEF TypeOK
  <2>1. ASSUME NEW t \in Tasks, NEW result, Return(t, result)
        PROVE  job[t] = j /\ result = "ok"
    BY <2>0, <2>1 DEF Return
  <2>2. PICK t \in Tasks : EndVerified(t) \/ EndThirdParty(t)
    <3>1. ASSUME NEW t \in Tasks, NEW i \in Jobs, NEW k \in Kinds, Start(t, i, k)
          PROVE  FALSE
      BY <2>0, <3>1 DEF Start
    <3>2. ASSUME NEW t \in Tasks,
                 Forget(t) \/ TakeGuard(t) \/ GiveUp(t) \/ TestActive(t) \/ EraseSlot(t) \/ Open(t)
          PROVE  FALSE
      BY <2>0, <2>1, <3>2 DEF Forget, TakeGuard, GiveUp, TestActive, EraseSlot, Open, Goto
    <3>3. ASSUME NEW t \in Tasks, Write(t) \/ Break(t) PROVE FALSE
      BY <2>0, <2>1, <3>3 DEF Write, Break
    <3>4. ~PowerLoss /\ ~EnterHotspot /\ ~LeaveHotspot
      BY <2>0 DEF PowerLoss, EnterHotspot, LeaveHotspot
    <3> QED
      BY <1>1, <3>1, <3>2, <3>3, <3>4 DEF Next, Step
  <2>3. CASE EndVerified(t)
    BY <2>1, <2>3, <1>1, VerifiedImage DEF EndVerified, Bootable
  <2>4. CASE EndThirdParty(t)
    BY <2>1, <2>4 DEF EndThirdParty
  <2> QED
    BY <2>2, <2>3, <2>4
<1>2. UNCHANGED vars => Own
  BY DEF vars
<1>3. TypeOK /\ HashFollowsSlot /\ [Next]_vars => [Own]_vars
  BY <1>1, <1>2
<1> QED
  BY <1>3, TypeCorrect, HashCorrect, PTL DEF Spec, SuccessIsOwnImage

-----------------------------------------------------------------------------
(* The package manager's name.                                             *)

\* A name that counts is of a whole image, and nothing that could spoil the
\* image is on its way; only the UI's package manager is ever between the two
\* halves of forgetting a name.
NameInv ==
    /\ \A j \in {altName, savedName} : j \in Jobs /\ j \notin excused =>
          Bootable(j) /\ \A t \in Tasks : pc[t] \in {"idle", "forget"}
    /\ \A t \in Tasks : kind[t] = "package" => t = UI
    /\ \A t \in Tasks : pc[t] = "forget" => kind[t] = "package" /\ altName = Nothing

\* While an operation is past its start no name counts.
LEMMA NoName ==
  ASSUME NameInv, NEW t \in Tasks, pc[t] \notin {"idle", "forget"}
  PROVE  \A j \in {altName, savedName} : j \in Jobs => j \in excused
BY DEF NameInv

\* The names an operation that ends leaves behind.
LEMMA NameReturns ==
  ASSUME TypeOK, NameInv, NEW t \in Tasks, pc[t] \notin {"idle", "forget"},
         NEW result, Return(t, result),
         \A j \in Jobs : j = job[t] /\ kind[t] = "package" /\ result = "ok" => Bootable(j)'
  PROVE  NameInv'
<1>0. /\ pc \in [Tasks -> {"idle", "forget", "guard", "begin", "erase", "open", "stream"}]
      /\ kind \in [Tasks -> Kinds \cup {Nothing}] /\ job[t] \in Jobs
      /\ Nothing \notin Jobs /\ Nothing # "package"
  BY FirmwareFlashAssumption DEF TypeOK, FirmwareFlashAssumption, Kinds, Guarded
<1>1. /\ pc' = [pc EXCEPT ![t] = "idle"]
      /\ kind' = [kind EXCEPT ![t] = Nothing]
      /\ NameSlot(t, result)
  BY DEF Return
<1>2. CASE kind[t] = "package" /\ result = "ok"
  <2>1. /\ altName' = job[t] /\ savedName' \in {savedName, job[t]}
        /\ excused' = IF \E u \in Tasks \ {t} : pc[u] # "idle"
                      THEN excused \cup {job[t]} ELSE excused
    BY <1>1, <1>2 DEF NameSlot
  <2>2. savedName \in Jobs => savedName \in excused'
    BY <2>1, NoName
  <2>3. job[t] \notin excused' => \A u \in Tasks : pc'[u] = "idle"
    BY <1>0, <1>1, <1>2, <2>1
  <2>4. \A u \in Tasks : pc'[u] # "forget"
    BY <1>0, <1>1, <1>2 DEF NameInv
  <2>5. ASSUME NEW j \in {altName', savedName'}, j \in Jobs, j \notin excused'
        PROVE  Bootable(j)' /\ \A u \in Tasks : pc'[u] \in {"idle", "forget"}
    <3>1. j = job[t]
      BY <2>1, <2>2, <2>5
    <3>2. Bootable(j)'
      BY <1>0, <1>2, <3>1
    <3> QED BY <2>3, <2>5, <3>1, <3>2
  <2> QED BY <1>0, <1>1, <2>4, <2>5 DEF NameInv
<1>3. CASE ~(kind[t] = "package" /\ result = "ok")
  <2>1. UNCHANGED names
    BY <1>1, <1>3 DEF NameSlot
  <2> QED BY <1>0, <1>1, <2>1, NoName DEF NameInv, names
<1> QED BY <1>2, <1>3

LEMMA NameStep == TypeOK /\ HashFollowsSlot /\ NameInv /\ [Next]_vars => NameInv'
<1> SUFFICES ASSUME TypeOK, HashFollowsSlot, NameInv, [Next]_vars PROVE NameInv'
  OBVIOUS
<1>0. /\ pc \in [Tasks -> {"idle", "forget", "guard", "begin", "erase", "open", "stream"}]
      /\ kind \in [Tasks -> Kinds \cup {Nothing}]
      /\ Nothing \notin Jobs /\ Nothing # "package"
  BY FirmwareFlashAssumption DEF TypeOK, FirmwareFlashAssumption, Kinds, Guarded
<1>1. ASSUME NEW t \in Tasks, NEW j \in Jobs, NEW k \in Kinds, Start(t, j, k) PROVE NameInv'
  <2>1. /\ pc' = [pc EXCEPT ![t] = CASE k = "package" -> "forget"
                                  [] k = "upload"  -> "begin"
                                  [] OTHER         -> "guard"]
        /\ kind' = [kind EXCEPT ![t] = k] /\ k \in KindsOf(t)
        /\ UNCHANGED <<slot, savedName>>
    BY <1>1 DEF Start
  <2>2. k = "package" => t = UI
    BY <2>1 DEF KindsOf
  <2>3. CASE k = "package"
    <3>1. altName' = Nothing /\ excused' = excused /\ pc' = [pc EXCEPT ![t] = "forget"]
      BY <1>1, <2>1, <2>3 DEF Start
    <3> QED BY <1>0, <2>1, <2>2, <2>3, <3>1 DEF NameInv, Bootable
  <2>4. CASE k # "package"
    <3>1. altName' = altName /\ excused' = excused \cup ({altName, savedName} \cap Jobs)
      BY <1>1, <2>4 DEF Start
    <3>2. pc'[t] # "forget"
      BY <1>0, <2>1, <2>4
    <3> QED BY <1>0, <2>1, <2>4, <3>1, <3>2 DEF NameInv, Bootable
  <2> QED BY <2>3, <2>4
<1>2. ASSUME NEW t \in Tasks, Forget(t) PROVE NameInv'
  <2>1. altName = Nothing /\ kind[t] = "package" /\ t = UI
    BY <1>2 DEF NameInv, Forget
  <2>2. \A j \in {altName, savedName}' : j \in Jobs => j \in excused'
    BY <1>0, <1>2, <2>1 DEF Forget
  <2> QED BY <1>0, <1>2, <2>1, <2>2 DEF Forget, NameInv
\* A step of an operation that is past its start: no name counts.
<1>3. ASSUME NEW t \in Tasks, NEW place, pc[t] \notin {"idle", "forget"}, place # "forget",
             pc' = [pc EXCEPT ![t] = place], UNCHANGED <<kind, names>>
      PROVE  NameInv'
  BY <1>0, <1>3, NoName DEF NameInv, names
<1>4. ASSUME NEW t \in Tasks, Step(t) PROVE NameInv'
  <2>1. CASE Forget(t)
    BY <1>2, <2>1
  <2>2. CASE TakeGuard(t) \/ Open(t)
    BY <1>3, <2>2 DEF TakeGuard, Open, Goto
  <2>3. CASE GiveUp(t)
    BY <2>3, NameReturns DEF GiveUp
  <2>4. CASE TestActive(t) \/ EraseSlot(t)
    BY <1>3, <2>4, NameReturns DEF TestActive, EraseSlot, Goto
  <2>5. CASE Write(t)
    <3>1. CASE Return(t, "failed")
      BY <2>5, <3>1, NameReturns DEF Write
    <3>2. CASE ~Return(t, "failed")
      <4>1. pc[t] = "stream" /\ UNCHANGED <<pc, kind, names>>
        BY <2>5, <3>2 DEF Write
      <4> QED BY <4>1, NoName DEF NameInv, names
    <3> QED BY <3>1, <3>2
  <2>6. CASE Break(t)
    BY <2>6, NameReturns DEF Break
  <2>7. CASE EndVerified(t)
    <3>1. pc[t] = "stream" /\ job[t] \in Jobs
      BY <2>7 DEF EndVerified, TypeOK
    <3>2. CASE Return(t, "failed")
      BY <3>1, <3>2, NameReturns
    <3>3. CASE ~Return(t, "failed")
      <4>1. active /\ SignatureMatches(job[t]) /\ ImageComplete /\ Return(t, "ok") /\ slot' = slot
        BY <2>7, <3>3 DEF EndVerified
      <4>2. Bootable(job[t])
        BY <3>1, <4>1, VerifiedImage
      <4>3. ASSUME NEW j \in Jobs, j = job[t] PROVE Bootable(j)'
        BY <4>1, <4>2, <4>3 DEF Bootable
      <4> QED BY <3>1, <4>1, <4>3, NameReturns
    <3> QED BY <3>2, <3>3
  <2>8. CASE EndThirdParty(t)
    BY <2>8, NameReturns DEF EndThirdParty
  <2> QED BY <1>4, <2>1, <2>2, <2>3, <2>4, <2>5, <2>6, <2>7, <2>8 DEF Step
<1>5. CASE EnterHotspot \/ LeaveHotspot
  BY <1>5 DEF EnterHotspot, LeaveHotspot, control, names, NameInv, Bootable
<1>6. CASE PowerLoss
  BY <1>0, <1>6 DEF PowerLoss, NameInv, Bootable
<1>7. CASE UNCHANGED vars
  BY <1>7 DEF vars, control, names, NameInv, Bootable
<1> QED BY <1>1, <1>4, <1>5, <1>6, <1>7 DEF Next

\* The name that is shown, and the one that a restart reads back, is of the
\* image that is in the slot, wherever the power is cut: the old name is in no
\* place any more when the slot is erased, and the new one comes last.
THEOREM NameIsTrue == Spec => []NameTellsTheSlot
<1>1. Init => NameInv
  BY FirmwareFlashAssumption
  DEF Init, NameInv, FirmwareFlashAssumption, Kinds, Guarded
<1>2. NameInv => NameTellsTheSlot
  BY DEF NameInv, NameTellsTheSlot
<1> QED BY <1>1, <1>2, NameStep, TypeCorrect, HashCorrect, PTL DEF Spec

-----------------------------------------------------------------------------
(* Unsigned images.  Where the stream is closed, the image of an unsigned  *)
(* job is gone from the slot: whoever closes it erases the header, but for *)
(* a success, after which the slot holds what was hashed.  A third-party   *)
(* install ends without a look at the hash: it must be alone.  The heavy   *)
(* lock keeps downloads away from it, and the hotspot's screen uploads: of *)
(* an upload whose link has gone not all chunks come.                      *)

\* Of a job that has written nothing, nothing is in the slot.
Untouched(j) == \A c \in Cells, n \in 1..Chunks : slot[c] # <<j, n>>

Busy(t) == pc[t] # "idle"

\* Jobs and tasks: a busy task has a running job of its own, and what has not
\* come to the stream yet has not written.
JobsInv ==
    /\ \A t \in Tasks : Busy(t) => outcome[job[t]] = "running"
    /\ \A t, u \in Tasks : Busy(t) /\ Busy(u) /\ job[t] = job[u] => t = u
    /\ \A j \in Jobs : outcome[j] = "new" => Untouched(j)
    /\ \A t \in Tasks : pc[t] \in {"forget", "guard", "begin", "erase", "open"} => Untouched(job[t])

\* Who may do what, and when.
TurnInv ==
    /\ \A t \in Tasks : kind[t] = "thirdparty" => t = UI /\ job[t] \in thirdParty
    /\ \A t \in Tasks : kind[t] = "upload" => t # UI
    /\ \A t \in Tasks :
          kind[t] \in Guarded /\ pc[t] \in {"begin", "erase", "open", "stream"} => lock = t
    /\ \A t \in Tasks : Busy(t) <=> kind[t] \in Kinds
    /\ hotspot => pc[UI] = "idle"

\* A third-party install has erased the slot.
OtherOpen == kind[UI] = "thirdparty" /\ pc[UI] \in {"open", "stream"}

\* What the slot holds of an upload it has sent, and beside a third-party
\* install only what came after its link had gone.
LateInv ==
    \A t \in Tasks : kind[t] = "upload" =>
        \A c \in Cells, n \in 1..Chunks : slot[c] = <<job[t], n>> =>
            n <= sent[t] /\ (OtherOpen => n + late[t] > sent[t])

\* A job whose image the slot should not keep.
Suspect(j) == j \notin signed /\ j \notin thirdParty

ClosedInv ==
    \A j \in Jobs : Suspect(j) /\ Bootable(j) =>
        IF active /\ ~OtherOpen THEN outcome[j] \in {"running", "lost"}
                               ELSE outcome[j] = "lost"

UnsignedInv == JobsInv /\ TurnInv /\ LateInv /\ ClosedInv

\* Chunks are no empty cells and no garbage, and the slot holds a whole image.
LEMMA ChunkFacts ==
  /\ 1 \in 1..Chunks /\ 1..Chunks \subseteq Cells
  /\ \A j \in Jobs, n \in 1..Chunks : <<j, n>> \notin {Nothing, Garbage}
<1>1. 1 \in 1..Chunks /\ 1..Chunks \subseteq Cells
  BY FirmwareFlashAssumption DEF FirmwareFlashAssumption, Cells
<1>2. ASSUME NEW j \in Jobs, NEW n \in 1..Chunks PROVE <<j, n>> \notin {Nothing, Garbage}
  <2>1. <<j, n>> \in Jobs \X (1..Chunks)
    OBVIOUS
  <2> QED BY <2>1, FirmwareFlashAssumption DEF FirmwareFlashAssumption
<1> QED BY <1>1, <1>2

\* An erased header boots nothing, and no erasure writes a chunk.
LEMMA Erasing ==
  ASSUME TypeOK, slot' \in {Invalidated, Erased}, NEW j \in Jobs
  PROVE  /\ ~Bootable(j)' /\ (Untouched(j) => Untouched(j)')
         /\ \A c \in Cells, n \in 1..Chunks : slot'[c] = <<j, n>> => slot[c] = <<j, n>>
<1>1. slot'[1] = Nothing /\ \A c \in Cells : slot'[c] \in {slot[c], Nothing}
  BY ChunkFacts DEF TypeOK, Invalidated, Erased
<1> QED BY <1>1, ChunkFacts DEF Bootable, Untouched

\* What an operation leaves when it is over and the stream is closed.
LEMMA ReturnStep ==
  ASSUME TypeOK, UnsignedInv, NEW t \in Tasks, Busy(t), NEW result, result \notin {"new", "running"},
         Return(t, result), slot' \in {slot, Invalidated},
         \A j \in Jobs : Suspect(j) /\ Bootable(j)' =>
             IF active' /\ ~OtherOpen THEN j # job[t] /\ outcome[j] \in {"running", "lost"}
                                      ELSE outcome[j] = "lost"
  PROVE  UnsignedInv'
<1>0. /\ pc \in [Tasks -> {"idle", "forget", "guard", "begin", "erase", "open", "stream"}]
      /\ outcome \in [Jobs -> {"new", "running", "ok", "failed", "lost"}]
      /\ job[t] \in Jobs /\ job \in [Tasks -> Jobs \cup {Nothing}]
      /\ kind \in [Tasks -> Kinds \cup {Nothing}]
  BY DEF TypeOK, Busy
<1>1. /\ pc' = [pc EXCEPT ![t] = "idle"]
      /\ job' = [job EXCEPT ![t] = Nothing]
      /\ outcome' = [outcome EXCEPT ![job[t]] = result]
      /\ kind' = [kind EXCEPT ![t] = Nothing]
      /\ sent' = [sent EXCEPT ![t] = 0]
      /\ lock' = IF lock = t THEN Nothing ELSE lock
      /\ UNCHANGED <<signed, thirdParty, hotspot, late>>
  BY DEF Return, link
<1>2. \A j \in Jobs : Untouched(j) => Untouched(j)'
  BY Erasing DEF Untouched
<1>3. \A u \in Tasks : Busy(u)' => Busy(u) /\ u # t /\ pc'[u] = pc[u] /\ job'[u] = job[u]
  BY <1>0, <1>1 DEF Busy
<1>4. JobsInv'
  <2>1. \A u \in Tasks : Busy(u)' => outcome'[job'[u]] = "running"
    <3> SUFFICES ASSUME NEW u \in Tasks, Busy(u)' PROVE outcome'[job'[u]] = "running"
      OBVIOUS
    <3>1. job[u] # job[t] /\ outcome[job[u]] = "running" /\ job[u] \in Jobs
      BY <1>3 DEF UnsignedInv, JobsInv, TypeOK, Busy
    <3> QED BY <1>0, <1>1, <1>3, <3>1
  <2>2. \A u, v \in Tasks : Busy(u)' /\ Busy(v)' /\ job'[u] = job'[v] => u = v
    BY <1>3 DEF UnsignedInv, JobsInv
  <2>3. \A j \in Jobs : outcome'[j] = "new" => Untouched(j)'
    BY <1>0, <1>1, <1>2 DEF UnsignedInv, JobsInv
  <2>4. ASSUME NEW u \in Tasks, pc'[u] \in {"forget", "guard", "begin", "erase", "open"}
        PROVE  Untouched(job[u])' /\ job'[u] = job[u]
    <3>1. Busy(u)'
      BY <2>4 DEF Busy
    <3>2. job[u] \in Jobs /\ Untouched(job[u]) /\ job'[u] = job[u]
      BY <1>3, <2>4, <3>1 DEF UnsignedInv, JobsInv, TypeOK, Busy
    <3>3. ASSUME NEW j \in Jobs, j = job[u] PROVE Untouched(j)'
      BY <1>2, <3>2, <3>3
    <3> QED BY <3>2, <3>3 DEF Untouched
  <2> QED BY <2>1, <2>2, <2>3, <2>4 DEF JobsInv, Untouched
<1>5. TurnInv' /\ (OtherOpen' => OtherOpen)
  <2>1. Nothing \notin Kinds /\ UI \in Tasks
    BY FirmwareFlashAssumption DEF FirmwareFlashAssumption
  <2> QED BY <1>0, <1>1, <2>1 DEF UnsignedInv, TurnInv, OtherOpen, Busy, Kinds, Guarded
<1>7. LateInv'
  <2> SUFFICES ASSUME NEW u \in Tasks, kind'[u] = "upload", NEW c \in Cells, NEW n \in 1..Chunks,
                      slot'[c] = <<job'[u], n>>
               PROVE  n <= sent'[u] /\ (OtherOpen' => n + late'[u] > sent'[u])
    BY DEF LateInv
  <2>1. Nothing \notin Kinds
    BY FirmwareFlashAssumption DEF FirmwareFlashAssumption
  <2>2. u # t /\ kind[u] = "upload" /\ Busy(u) /\ job'[u] = job[u]
    BY <1>0, <1>1, <2>1 DEF UnsignedInv, TurnInv, Kinds, Guarded
  <2>3. job[u] \in Jobs
    BY <2>2 DEF TypeOK, Busy
  <2>4. slot[c] = <<job[u], n>>
    BY <2>2, <2>3, Erasing
  <2> QED BY <1>1, <1>5, <2>2, <2>4 DEF UnsignedInv, LateInv, TypeOK
<1>6. ClosedInv'
  <2>1. outcome[job[t]] = "running"
    BY DEF UnsignedInv, JobsInv
  <2> QED BY <1>0, <1>1, <1>5, <2>1 DEF ClosedInv, Suspect
<1> QED BY <1>4, <1>5, <1>6, <1>7 DEF UnsignedInv

\* A step that moves a task on without writing.
LEMMA MoveStep ==
  ASSUME TypeOK, UnsignedInv, NEW t \in Tasks, Busy(t),
         NEW place \in {"guard", "begin", "erase", "open", "stream"},
         place = "stream" => pc[t] = "open", pc[t] # "stream",
         place = "open" => slot' = Erased,
         pc' = [pc EXCEPT ![t] = place],
         lock' = lock \/ (lock = Nothing /\ lock' = t),
         place \in {"begin", "erase", "open", "stream"} /\ kind[t] \in Guarded => lock' = t,
         UNCHANGED <<job, kind, sent, outcome, signed, link, thirdParty>>,
         slot' \in {slot, Erased}, active' = active \/ active'
  PROVE  UnsignedInv'
<1>0. pc \in [Tasks -> {"idle", "forget", "guard", "begin", "erase", "open", "stream"}]
      /\ \A u \in Tasks : Busy(u) => job[u] \in Jobs
      /\ Nothing \notin Tasks /\ UI \in Tasks
  BY FirmwareFlashAssumption DEF TypeOK, Busy, FirmwareFlashAssumption
<1>1. \A j \in Jobs : (Untouched(j) => Untouched(j)') /\ (Bootable(j)' => Bootable(j))
  BY Erasing DEF Untouched, Bootable
<1>2. \A u \in Tasks : Busy(u)' <=> Busy(u)
  BY <1>0 DEF Busy
<1>3. JobsInv'
  <2>1. ASSUME NEW u \in Tasks, pc'[u] \in {"forget", "guard", "begin", "erase", "open"}
        PROVE  Untouched(job[u])'
    <3>1. pc[u] \in {"forget", "guard", "begin", "erase", "open"}
      BY <1>0, <2>1 DEF Busy
    <3>2. job[u] \in Jobs /\ Untouched(job[u])
      BY <1>0, <3>1 DEF UnsignedInv, JobsInv, Busy
    <3>3. ASSUME NEW j \in Jobs, j = job[u] PROVE Untouched(j)'
      BY <1>1, <3>2, <3>3
    <3> QED BY <3>2, <3>3 DEF Untouched
  <2> QED BY <1>1, <1>2, <2>1 DEF UnsignedInv, JobsInv, Untouched
<1>4. TurnInv'
  <2>1. hotspot' => pc'[UI] = "idle"
    BY <1>0 DEF UnsignedInv, TurnInv, Busy, link
  <2>2. \A u \in Tasks : kind'[u] \in Guarded /\ pc'[u] \in {"begin", "erase", "open", "stream"}
                          => lock' = u
    <3> SUFFICES ASSUME NEW u \in Tasks, kind'[u] \in Guarded,
                        pc'[u] \in {"begin", "erase", "open", "stream"}
                 PROVE  lock' = u
      OBVIOUS
    <3>1. CASE u = t
      BY <1>0, <3>1
    <3>2. CASE u # t
      BY <1>0, <3>2 DEF UnsignedInv, TurnInv
    <3> QED BY <3>1, <3>2
  <2> QED BY <1>2, <2>1, <2>2 DEF UnsignedInv, TurnInv
<1>5. OtherOpen' => OtherOpen \/ slot' = Erased
  BY <1>0 DEF OtherOpen
<1>6. LateInv' /\ ClosedInv'
  <2>1. CASE slot' = Erased
    <3>1. \A c \in Cells : slot'[c] = Nothing
      BY <2>1 DEF Erased
    <3>2. \A u \in Tasks : kind'[u] = "upload" => job'[u] \in Jobs
      BY <1>0 DEF UnsignedInv, TurnInv, Kinds
    <3>3. LateInv'
      BY <3>1, <3>2, ChunkFacts DEF LateInv
    <3>4. \A j \in Jobs : ~Bootable(j)'
      BY <2>1, Erasing
    <3> QED BY <3>3, <3>4 DEF ClosedInv
  <2>2. CASE slot' # Erased
    <3>1. slot' = slot /\ (OtherOpen' => OtherOpen)
      BY <1>5, <2>2
    <3>2. ClosedInv'
      <4>1. active /\ ~OtherOpen => active' /\ ~OtherOpen'
        BY <3>1
      <4> QED BY <1>1, <3>1 DEF UnsignedInv, ClosedInv, Suspect, Bootable
    <3>3. LateInv'
      BY <3>1 DEF UnsignedInv, LateInv, link
    <3> QED BY <3>2, <3>3
  <2> QED BY <2>1, <2>2
<1> QED BY <1>3, <1>4, <1>6 DEF UnsignedInv

LEMMA StartStep ==
  ASSUME TypeOK, UnsignedInv, NEW t \in Tasks, NEW j \in Jobs, NEW k \in Kinds, Start(t, j, k)
  PROVE  UnsignedInv'
<1>0. /\ pc \in [Tasks -> {"idle", "forget", "guard", "begin", "erase", "open", "stream"}]
      /\ outcome \in [Jobs -> {"new", "running", "ok", "failed", "lost"}]
      /\ job \in [Tasks -> Jobs \cup {Nothing}] /\ kind \in [Tasks -> Kinds \cup {Nothing}]
      /\ \A u \in Tasks : Busy(u) => job[u] \in Jobs
  BY DEF TypeOK, Busy
<1>1. /\ pc[t] = "idle" /\ outcome[j] = "new"
      /\ pc' = [pc EXCEPT ![t] = CASE k = "package" -> "forget"
                                [] k = "upload"  -> "begin"
                                [] OTHER         -> "guard"]
      /\ k \in KindsOf(t) /\ hotspot = (t # UI) /\ UNCHANGED <<hotspot, lock>>
      /\ sent' = [sent EXCEPT ![t] = 0] /\ late' = [late EXCEPT ![t] = 0]
      /\ job' = [job EXCEPT ![t] = j] /\ kind' = [kind EXCEPT ![t] = k]
      /\ outcome' = [outcome EXCEPT ![j] = "running"]
      /\ signed \subseteq signed'
      /\ thirdParty' = IF k = "thirdparty" THEN thirdParty \cup {j} ELSE thirdParty
      /\ UNCHANGED <<slot, active>>
  BY DEF Start, stream
<1>2. \A u \in Tasks \ {t} : pc'[u] = pc[u] /\ job'[u] = job[u] /\ (Busy(u)' <=> Busy(u))
  BY <1>0, <1>1 DEF Busy
<1>p. pc'[t] \in {"forget", "guard", "begin"} /\ (k \in Guarded => pc'[t] # "begin")
  <2>1. pc'[t] = CASE k = "package" -> "forget"
                   [] k = "upload"  -> "begin"
                   [] OTHER         -> "guard"
    BY <1>0, <1>1
  <2> QED BY <2>1 DEF Guarded
<1>3. \A u \in Tasks \ {t} : Busy(u) => job[u] # j
  BY <1>1 DEF UnsignedInv, JobsInv
<1>4. \A i \in Jobs : Untouched(i)' = Untouched(i) /\ Bootable(i)' = Bootable(i)
  BY <1>1 DEF Untouched, Bootable
<1>5. Untouched(j) /\ ~Bootable(j)
  <2>1. Untouched(j)
    BY <1>1 DEF UnsignedInv, JobsInv
  <2> QED BY <2>1, ChunkFacts DEF Untouched, Bootable
<1>6. JobsInv'
  <2>1. \A u \in Tasks : Busy(u)' => outcome'[job'[u]] = "running"
    BY <1>0, <1>1, <1>2, <1>3 DEF UnsignedInv, JobsInv
  <2>2. \A u, v \in Tasks : Busy(u)' /\ Busy(v)' /\ job'[u] = job'[v] => u = v
    BY <1>0, <1>1, <1>2, <1>3 DEF UnsignedInv, JobsInv
  <2>3. \A i \in Jobs : outcome'[i] = "new" => Untouched(i)'
    BY <1>0, <1>1, <1>4 DEF UnsignedInv, JobsInv
  <2>4. ASSUME NEW u \in Tasks, pc'[u] \in {"forget", "guard", "begin", "erase", "open"}
        PROVE  Untouched(job'[u]) /\ job'[u] \in Jobs
    <3>1. CASE u = t
      BY <1>0, <1>1, <1>5, <3>1
    <3>2. CASE u # t
      BY <1>0, <1>2, <2>4, <3>2 DEF UnsignedInv, JobsInv, Busy
    <3> QED BY <3>1, <3>2
  <2> QED BY <1>1, <1>p, <2>1, <2>2, <2>3, <2>4 DEF JobsInv, Untouched
<1>o. OtherOpen' = OtherOpen /\ (t = UI => ~OtherOpen)
  BY <1>0, <1>1, <1>p, FirmwareFlashAssumption DEF OtherOpen, FirmwareFlashAssumption
<1>7. TurnInv' /\ LateInv'
  <2>1. TurnInv'
    <3>1. k = "thirdparty" => t = UI
      BY <1>1 DEF KindsOf
    <3>2. k = "upload" => t # UI
      BY <1>1 DEF KindsOf, Guarded
    <3>3. \A u \in Tasks : Busy(u)' <=> kind'[u] \in Kinds
      BY <1>0, <1>1, <1>2, <1>p DEF UnsignedInv, TurnInv, Busy
    <3>4. \A u \in Tasks :
            kind'[u] \in Guarded /\ pc'[u] \in {"begin", "erase", "open", "stream"} => lock' = u
      BY <1>0, <1>1, <1>2, <1>p DEF UnsignedInv, TurnInv
    <3>5. hotspot' => pc'[UI] = "idle"
      BY <1>1, <1>2, FirmwareFlashAssumption DEF UnsignedInv, TurnInv, FirmwareFlashAssumption
    <3>6. \A u \in Tasks : kind'[u] = "thirdparty" => u = UI /\ job'[u] \in thirdParty'
      BY <1>0, <1>1, <1>2, <3>1 DEF UnsignedInv, TurnInv
    <3>7. \A u \in Tasks : kind'[u] = "upload" => u # UI
      BY <1>0, <1>1, <3>2 DEF UnsignedInv, TurnInv
    <3> QED BY <3>3, <3>4, <3>5, <3>6, <3>7 DEF TurnInv
  <2>2. LateInv'
    <3> SUFFICES ASSUME NEW u \in Tasks, kind'[u] = "upload", NEW c \in Cells, NEW n \in 1..Chunks,
                        slot'[c] = <<job'[u], n>>
                 PROVE  n <= sent'[u] /\ (OtherOpen' => n + late'[u] > sent'[u])
      BY DEF LateInv
    <3>1. u # t
      BY <1>0, <1>1, <1>5 DEF Untouched
    <3>2. kind[u] = "upload" /\ slot[c] = <<job[u], n>> /\ sent'[u] = sent[u] /\ late'[u] = late[u]
      BY <1>0, <1>1, <1>2, <3>1 DEF TypeOK
    <3> QED BY <1>o, <3>2 DEF UnsignedInv, LateInv
  <2> QED BY <2>1, <2>2
<1>8. ClosedInv'
  BY <1>0, <1>1, <1>4, <1>5, <1>o DEF UnsignedInv, ClosedInv, Suspect
<1> QED BY <1>6, <1>7, <1>8 DEF UnsignedInv

\* A chunk belongs to the job that writes it, which is running.
LEMMA WriteStep ==
  ASSUME TypeOK, UnsignedInv, NEW t \in Tasks, pc[t] = "stream", active, active',
         NEW cell \in Cells, sent[t] < Chunks, Arrives(t),
         slot' = [slot EXCEPT ![cell] = IF @ = Nothing THEN <<job[t], sent[t] + 1>> ELSE Garbage],
         sent' = [sent EXCEPT ![t] = @ + 1],
         UNCHANGED <<pc, job, kind, lock, outcome, signed, hotspot, thirdParty>>
  PROVE  UnsignedInv'
<1> DEFINE n == sent[t] + 1
<1>0. /\ job[t] \in Jobs /\ outcome[job[t]] = "running"
      /\ slot \in [Cells -> (Jobs \X (1..Chunks)) \cup {Nothing, Garbage}]
      /\ sent \in [Tasks -> 0..Chunks] /\ late \in [Tasks -> 0..(Chunks - 1)]
      /\ n \in 1..Chunks
  <2>1. job[t] \in Jobs /\ outcome[job[t]] = "running"
    BY DEF TypeOK, UnsignedInv, JobsInv, Busy
  <2>2. sent \in [Tasks -> 0..Chunks] /\ Chunks \in Nat
    BY FirmwareFlashAssumption DEF TypeOK, FirmwareFlashAssumption
  <2>3. n \in 1..Chunks
    BY <2>2
  <2> QED BY <2>1, <2>2, <2>3 DEF TypeOK
<1> HIDE DEF n
<1>1. \A c \in Cells : slot'[c] \in {slot[c], <<job[t], n>>, Garbage}
  BY <1>0 DEF n
<1>2. ASSUME NEW j \in Jobs, j # job[t]
      PROVE  (Untouched(j) => Untouched(j)') /\ (Bootable(j)' => Bootable(j))
  <2>1. \A c \in Cells, m \in 1..Chunks : slot'[c] = <<j, m>> => slot[c] = <<j, m>>
    BY <1>1, <1>2, ChunkFacts
  <2> QED BY <2>1, ChunkFacts DEF Untouched, Bootable
<1>3. \A u \in Tasks : Busy(u)' = Busy(u)
  BY DEF Busy
<1>4. JobsInv'
  <2>1. \A j \in Jobs : outcome'[j] = "new" => Untouched(j)'
    BY <1>0, <1>2 DEF UnsignedInv, JobsInv
  <2>2. ASSUME NEW u \in Tasks, pc'[u] \in {"forget", "guard", "begin", "erase", "open"}
        PROVE  Untouched(job[u])'
    <3>1. Busy(u) /\ job[u] # job[t] /\ job[u] \in Jobs /\ Untouched(job[u])
      BY <2>2 DEF UnsignedInv, JobsInv, Busy, TypeOK
    <3>2. ASSUME NEW j \in Jobs, j = job[u] PROVE Untouched(j)'
      BY <1>2, <3>1, <3>2
    <3> QED BY <3>1, <3>2 DEF Untouched
  <2> QED BY <1>3, <2>1, <2>2 DEF UnsignedInv, JobsInv, Untouched
<1>5. TurnInv' /\ OtherOpen' = OtherOpen
  BY <1>3 DEF UnsignedInv, TurnInv, OtherOpen
\* Beside a third-party install only an upload without a link still writes.
<1>6. OtherOpen /\ t # UI => kind[t] = "upload" /\ ~hotspot
  BY <1>0, FirmwareFlashAssumption
  DEF UnsignedInv, TurnInv, OtherOpen, Busy, Kinds, Guarded, FirmwareFlashAssumption
<1>7. LateInv'
  <2> SUFFICES ASSUME NEW u \in Tasks, kind'[u] = "upload", NEW c \in Cells, NEW m \in 1..Chunks,
                      slot'[c] = <<job'[u], m>>
               PROVE  m <= sent'[u] /\ (OtherOpen' => m + late'[u] > sent'[u])
    BY DEF LateInv
  <2>0. kind[u] = "upload" /\ u # UI /\ job'[u] = job[u] /\ job[u] \in Jobs /\ Busy(u)
    BY DEF UnsignedInv, TurnInv, TypeOK, Busy, Kinds
  <2>1. CASE u # t
    <3>1. job[u] # job[t]
      BY <2>0, <2>1 DEF UnsignedInv, JobsInv, Busy
    <3>2. slot[c] = <<job[u], m>>
      BY <1>1, <2>0, <3>1, ChunkFacts
    <3>3. sent'[u] = sent[u] /\ late'[u] = late[u]
      BY <1>0, <2>1 DEF Arrives
    <3> QED BY <1>5, <2>0, <3>2, <3>3 DEF UnsignedInv, LateInv
  <2>2. CASE u = t
    <3>1. sent'[t] = sent[t] + 1 /\ n = sent[t] + 1 /\ sent[t] \in Nat /\ late[t] \in Nat
      BY <1>0 DEF n
    <3>2. OtherOpen => late'[t] = late[t] + 1
      BY <1>0, <1>6, <2>0, <2>2 DEF Arrives
    <3>3. late'[t] \in {late[t], late[t] + 1}
      BY <1>0 DEF Arrives
    <3>4. slot[c] = <<job[t], m>> \/ m = n
      BY <1>1, <2>0, <2>2, ChunkFacts
    <3>5. slot[c] = <<job[t], m>> => m <= sent[t] /\ (OtherOpen => m + late[t] > sent[t])
      BY <2>0, <2>2 DEF UnsignedInv, LateInv
    <3> QED BY <1>5, <2>2, <3>1, <3>2, <3>3, <3>4, <3>5
  <2> QED BY <2>1, <2>2
<1>8. ClosedInv'
  <2> SUFFICES ASSUME NEW j \in Jobs, Suspect(j), Bootable(j)'
               PROVE  IF OtherOpen THEN outcome[j] = "lost" ELSE outcome[j] \in {"running", "lost"}
    BY <1>5 DEF ClosedInv, Suspect
  <2>1. CASE j # job[t]
    BY <1>2, <2>1 DEF UnsignedInv, ClosedInv
  <2>2. CASE j = job[t] /\ ~OtherOpen
    BY <1>0, <2>2
  <2>3. CASE j = job[t] /\ OtherOpen
    <3>1. t # UI
      BY <2>3 DEF Suspect, UnsignedInv, TurnInv, OtherOpen
    <3>2. kind[t] = "upload" /\ kind'[t] = "upload" /\ ~hotspot
      BY <1>6, <2>3, <3>1
    <3>3. /\ slot'[1] = <<job'[t], 1>> /\ slot'[Chunks] = <<job'[t], Chunks>>
          /\ 1 \in 1..Chunks /\ Chunks \in 1..Chunks /\ {1, Chunks} \subseteq Cells
      BY <2>3, ChunkFacts, FirmwareFlashAssumption DEF Bootable, FirmwareFlashAssumption
    <3>4. 1 + late'[t] > sent'[t] /\ Chunks <= sent'[t]
      BY <1>5, <1>7, <2>3, <3>2, <3>3 DEF LateInv
    <3>5. late'[t] = late[t] + 1 /\ late[t] + 1 < Chunks /\ sent'[t] \in Nat /\ late[t] \in Nat
      BY <1>0, <3>2 DEF Arrives
    <3>6. Chunks \in Nat
      BY FirmwareFlashAssumption DEF FirmwareFlashAssumption
    <3> QED BY <3>4, <3>5, <3>6
  <2> QED BY <2>1, <2>2, <2>3
<1> QED BY <1>4, <1>5, <1>7, <1>8 DEF UnsignedInv

LEMMA UnsignedStep == TypeOK /\ HashFollowsSlot /\ UnsignedInv /\ [Next]_vars => UnsignedInv'
<1> SUFFICES ASSUME TypeOK, HashFollowsSlot, UnsignedInv, [Next]_vars PROVE UnsignedInv'
  OBVIOUS
\* An operation that has not come to the stream yet leaves it as it is.
<1>a. ASSUME NEW t \in Tasks, pc[t] \in {"guard", "begin", "erase"}, Return(t, "failed"),
             UNCHANGED <<stream, slot>>
      PROVE  UnsignedInv'
  <2>1. Busy(t) /\ job[t] \in Jobs /\ Untouched(job[t])
    BY <1>a DEF UnsignedInv, JobsInv, TypeOK, Busy
  <2>2. \A j \in Jobs : Suspect(j) /\ Bootable(j) =>
           IF active /\ ~OtherOpen THEN j # job[t] /\ outcome[j] \in {"running", "lost"} ELSE outcome[j] = "lost"
    BY <2>1, ChunkFacts DEF UnsignedInv, ClosedInv, Untouched, Bootable
  <2> QED BY <1>a, <2>1, <2>2, ReturnStep DEF Bootable, stream
\* One that has, and whose stream is closed, by itself or by another.
<1>b. ASSUME NEW t \in Tasks, pc[t] = "stream", Return(t, "failed"), ~active',
             (~active /\ slot' = slot) \/ slot' = Invalidated
      PROVE  UnsignedInv'
  <2>1. \A j \in Jobs : Suspect(j) /\ Bootable(j)' => outcome[j] = "lost"
    BY <1>b, Erasing DEF UnsignedInv, ClosedInv, Bootable
  <2> QED BY <1>b, <2>1, ReturnStep DEF Busy
<1>1. ASSUME NEW t \in Tasks, NEW j \in Jobs, NEW k \in Kinds, Start(t, j, k) PROVE UnsignedInv'
  BY <1>1, StartStep
<1>2. ASSUME NEW t \in Tasks, Step(t) PROVE UnsignedInv'
  <2>0. CASE Forget(t)
    BY <2>0, MoveStep DEF Forget, stream, Busy
  <2>1. CASE TakeGuard(t)
    BY <2>1, MoveStep DEF TakeGuard, stream, Busy
  <2>2. CASE GiveUp(t)
    BY <1>a, <2>2 DEF GiveUp
  \* From here on a download holds the heavy lock.
  <2>l. pc[t] \in {"begin", "erase", "open"} /\ kind[t] \in Guarded => lock = t
    BY DEF UnsignedInv, TurnInv
  <2>3. CASE TestActive(t)
    <3>1. CASE active
      BY <1>a, <2>3, <3>1 DEF TestActive
    <3>2. CASE ~active
      BY <2>3, <2>l, <3>2, MoveStep DEF TestActive, Goto, stream, Busy
    <3> QED BY <3>1, <3>2
  <2>4. CASE EraseSlot(t)
    <3>1. CASE UNCHANGED slot /\ Return(t, "failed")
      BY <1>a, <2>4, <3>1 DEF EraseSlot
    <3>2. CASE slot' = Erased /\ Goto(t, "open")
      BY <2>4, <2>l, <3>2, MoveStep DEF EraseSlot, Goto, stream, Busy
    <3> QED BY <2>4, <3>1, <3>2 DEF EraseSlot
  <2>5. CASE Open(t)
    BY <2>5, <2>l, MoveStep DEF Open, Goto, Busy
  <2>6. CASE Write(t)
    <3>1. CASE Abort /\ Return(t, "failed")
      BY <1>b, <2>6, <3>1 DEF Write, Abort, CloseStream, stream, TypeOK
    <3>2. CASE ~(Abort /\ Return(t, "failed"))
      BY <2>6, <3>2, WriteStep DEF Write
    <3> QED BY <3>1, <3>2
  <2>7. CASE Break(t)
    BY <1>b, <2>7 DEF Break, Abort, CloseStream, stream, TypeOK
  <2>8. CASE EndVerified(t)
    <3>1. CASE Return(t, "failed") /\ ~active /\ UNCHANGED <<stream, slot>>
      BY <1>b, <2>8, <3>1 DEF EndVerified, stream
    <3>2. CASE Return(t, "failed") /\ CloseStream /\ slot' = Invalidated
      BY <1>b, <2>8, <3>2 DEF EndVerified, CloseStream
    \* The slot holds what was hashed, which is the image of a signed job.
    <3>3. CASE active /\ SignatureMatches(job[t]) /\ CloseStream /\ UNCHANGED slot
      <4>1. job[t] \in Jobs /\ job[t] \in signed /\ hash = Image(job[t]) /\ Busy(t)
        BY <2>8, <3>3 DEF EndVerified, SignatureMatches, TypeOK, Busy
      <4>2. hash[1] = <<job[t], 1>> /\ 1 \in DOMAIN hash
        BY <4>1, ChunkFacts DEF Image
      <4>3. 1 \in 1..wrote
        <5>1. DOMAIN hash = 1..Len(hash)
          <6>1. hash \in Seq(Jobs \X (1..Chunks))
            BY DEF TypeOK
          <6> QED BY <6>1
        <5> QED BY <3>3, <4>2, <5>1 DEF HashFollowsSlot
      <4>4. slot[1] \in {<<job[t], 1>>, Nothing, Garbage}
        BY <3>3, <4>2, <4>3 DEF HashFollowsSlot
      <4>5. \A j \in Jobs : Suspect(j) => ~Bootable(j)'
        BY <3>3, <4>1, <4>4, ChunkFacts DEF Suspect, Bootable
      <4>6. Return(t, "ok") \/ Return(t, "failed")
        BY <2>8, <3>3 DEF EndVerified
      <4> QED BY <3>3, <4>1, <4>5, <4>6, ReturnStep
    <3> QED BY <2>8, <3>1, <3>2, <3>3 DEF EndVerified
  <2>9. CASE EndThirdParty(t)
    <3>1. CASE Return(t, "failed") /\ slot' = Invalidated
      BY <1>b, <2>9, <3>1 DEF EndThirdParty, CloseStream
    \* Nothing of another's that is whole has been written beside this install.
    <3>2. CASE Return(t, "ok") /\ UNCHANGED slot
      <4>1. OtherOpen
        BY <2>9 DEF EndThirdParty, UnsignedInv, TurnInv, OtherOpen
      <4>2. \A j \in Jobs : Suspect(j) /\ Bootable(j)' => outcome[j] = "lost"
        BY <3>2, <4>1 DEF UnsignedInv, ClosedInv, Bootable
      <4> QED BY <2>9, <3>2, <4>2, ReturnStep DEF EndThirdParty, CloseStream, Busy
    <3> QED BY <2>9, <3>1, <3>2 DEF EndThirdParty
  <2> QED
    BY <1>2, <2>0, <2>1, <2>2, <2>3, <2>4, <2>5, <2>6, <2>7, <2>8, <2>9 DEF Step
<1>3. CASE PowerLoss
  <2>1. /\ ~active' /\ UNCHANGED <<slot, signed, thirdParty>> /\ ~hotspot'
        /\ pc' = [t \in Tasks |-> "idle"] /\ kind' = [t \in Tasks |-> Nothing]
        /\ outcome' = [j \in Jobs |-> IF outcome[j] = "running" THEN "lost" ELSE outcome[j]]
    BY <1>3 DEF PowerLoss
  <2>2. JobsInv'
    BY <2>1 DEF UnsignedInv, JobsInv, Busy, Untouched
  <2>3. TurnInv' /\ LateInv'
    <3>1. Nothing \notin Kinds /\ UI \in Tasks
      BY FirmwareFlashAssumption DEF FirmwareFlashAssumption
    <3> QED BY <2>1, <3>1 DEF TurnInv, LateInv, Busy, Kinds, Guarded
  <2>4. ClosedInv'
    BY <2>1 DEF UnsignedInv, ClosedInv, Suspect, Bootable
  <2> QED BY <2>2, <2>3, <2>4 DEF UnsignedInv
<1>4. CASE UNCHANGED vars
  BY <1>4 DEF vars, stream, control, link, UnsignedInv, JobsInv, TurnInv, LateInv, ClosedInv,
              OtherOpen, Busy, Untouched, Suspect, Bootable
<1>5. CASE EnterHotspot \/ LeaveHotspot
  <2>1. /\ UNCHANGED <<stream, slot, lock, control, outcome, signed, thirdParty>>
        /\ hotspot' => pc[UI] = "idle"
        /\ late' = late \/ pc[UI] = "idle"
    BY <1>5 DEF EnterHotspot, LeaveHotspot
  <2>2. JobsInv' /\ TurnInv' /\ ClosedInv'
    BY <2>1 DEF stream, control, UnsignedInv, JobsInv, TurnInv, ClosedInv,
                OtherOpen, Busy, Untouched, Suspect, Bootable
  <2>3. LateInv'
    BY <2>1 DEF control, UnsignedInv, LateInv, OtherOpen
  <2> QED BY <2>2, <2>3 DEF UnsignedInv
<1> QED BY <1>1, <1>2, <1>3, <1>4, <1>5 DEF Next

\* An image without a good signature is gone when its operation is over, for any
\* tasks that share the stream, unless a power cut came between; a third-party
\* install, which asks for no signature, does not let another's image through.
THEOREM UnsignedGoes == Spec => []UnsignedNotKept
<1>1. Init => UnsignedInv
  <2> SUFFICES ASSUME Init PROVE UnsignedInv
    OBVIOUS
  <2>1. \A j \in Jobs : Untouched(j) /\ ~Bootable(j)
    BY ChunkFacts DEF Init, Erased, Untouched, Bootable
  <2> QED
    BY <2>1, FirmwareFlashAssumption
    DEF Init, UnsignedInv, JobsInv, TurnInv, LateInv, ClosedInv, Busy, FirmwareFlashAssumption,
        Kinds, Guarded
<1>2. UnsignedInv => UnsignedNotKept
  BY DEF UnsignedInv, ClosedInv, UnsignedNotKept, Suspect
<1> QED BY <1>1, <1>2, UnsignedStep, TypeCorrect, HashCorrect, PTL DEF Spec
=============================================================================

---------------------------- MODULE FirmwareFlash ----------------------------
(***************************************************************************)
(* Writing an image into the spare OTA slot (main/net/firmware_flash.cpp)  *)
(* and the operations that do so: the signed download (Settings, Store,    *)
(* Games, the web page's install button), the package manager, the web     *)
(* upload and the unsigned third-party install.                            *)
(*                                                                         *)
(* There is one stream, in statics shared by every task.  Downloads hold   *)
(* the heavy lock, the upload does not.  A call of the stream API is one   *)
(* step, except k85_fwflash_stream_begin: esp_ota_begin erases the whole   *)
(* slot, which takes seconds, between the test of s_stream_active and its  *)
(* assignment.                                                             *)
(*                                                                         *)
(* The UI runs one screen at a time, and the hotspot is a screen: while it *)
(* is shown the UI installs nothing and the server task serves uploads;    *)
(* when it is left the link goes and the server task may be at work still. *)
(*                                                                         *)
(* An image is the sequence of its chunks.  A chunk written over another   *)
(* one is Garbage, as flash bits only fall.                                *)
(***************************************************************************)
EXTENDS Naturals, Sequences

CONSTANTS Tasks,     \* tasks that run install operations
          UI,        \* the UI task; the others serve the hotspot
          Jobs,      \* install operations, each with an image of its own
          Chunks,    \* chunks in an image
          SlotSize,  \* chunks that fit into the slot
          Nothing,   \* no task, no job, an erased cell
          Garbage,   \* a cell written twice
          Crashes    \* TRUE when the power may be cut

Guarded == {"url", "package", "thirdparty"}
Kinds   == Guarded \cup {"upload"}

ASSUME FirmwareFlashAssumption ==
    /\ UI \in Tasks
    /\ Chunks \in Nat \ {0}
    /\ SlotSize \in Nat /\ SlotSize >= Chunks
    /\ Nothing \notin Tasks \cup Jobs \cup Kinds
    /\ Nothing # Garbage
    /\ {Nothing, Garbage} \cap (Jobs \X (1..Chunks)) = {}
    /\ Crashes \in BOOLEAN

VARIABLES active,    \* s_stream_active
          wrote,     \* chunks written through s_ota_handle
          hash,      \* s_hash_ctx: the chunks hashed so far
          slot,      \* the cells of the spare slot
          lock,      \* holder of the heavy lock
          pc,        \* where each task is
          job,       \* the job of each task
          kind,      \* the kind of operation of each task
          sent,      \* chunks of its image the task has streamed
          outcome,   \* what has become of each job
          signed,    \* the jobs whose signature is the image's
          hotspot,   \* the UI shows the hotspot's screen, and the link is up
          late,      \* chunks that an upload has had since its link went
          altName,   \* g_config.alt_slot_name: the job it names
          savedName, \* the name in the configuration file
          thirdParty,\* history: the jobs that are third-party installs
          excused    \* history: the names that others may have made wrong

stream  == <<active, wrote, hash>>
control == <<pc, job, kind, sent>>
link    == <<hotspot, late>>
names   == <<altName, savedName, excused>>
vars    == <<stream, slot, lock, control, outcome, signed, link, names, thirdParty>>

\* What a task can be asked for: packages and third-party images are menus.
KindsOf(t) == IF t = UI THEN Guarded ELSE {"url", "upload"}

Cells == 1..SlotSize
Image(j) == [n \in 1..Chunks |-> <<j, n>>]
Erased == [c \in Cells |-> Nothing]

\* The bootloader, and esp_ota_end, accept the slot: it holds a whole image.
Bootable(j) == \A n \in 1..Chunks : slot[n] = <<j, n>>

Init ==
    /\ active = FALSE /\ wrote = 0 /\ hash = <<>>
    /\ slot = Erased
    /\ lock = Nothing
    /\ pc = [t \in Tasks |-> "idle"]
    /\ job = [t \in Tasks |-> Nothing]
    /\ kind = [t \in Tasks |-> Nothing]
    /\ sent = [t \in Tasks |-> 0]
    /\ outcome = [j \in Jobs |-> "new"]
    /\ signed = {} /\ thirdParty = {}
    /\ hotspot = FALSE /\ late = [t \in Tasks |-> 0]
    /\ altName = Nothing /\ savedName = Nothing /\ excused = {}

-----------------------------------------------------------------------------
(* Entering and leaving an operation.                                      *)

\* A user or a web client asks for an install.  The package manager forgets
\* the name of the old package first, in RAM and then in the file; no other
\* install looks at the name.
Start(t, j, k) ==
    /\ pc[t] = "idle" /\ outcome[j] = "new" /\ k \in KindsOf(t)
    /\ hotspot = (t # UI)
    /\ pc' = [pc EXCEPT ![t] = CASE k = "package" -> "forget"
                                [] k = "upload"  -> "begin"
                                [] OTHER         -> "guard"]
    /\ job' = [job EXCEPT ![t] = j]
    /\ kind' = [kind EXCEPT ![t] = k]
    /\ sent' = [sent EXCEPT ![t] = 0]
    /\ late' = [late EXCEPT ![t] = 0]
    /\ outcome' = [outcome EXCEPT ![j] = "running"]
    /\ signed' \in {signed, signed \cup {j}}
    /\ thirdParty' = IF k = "thirdparty" THEN thirdParty \cup {j} ELSE thirdParty
    /\ altName' = IF k = "package" THEN Nothing ELSE altName
    /\ excused' = IF k = "package" THEN excused
                  ELSE excused \cup ({altName, savedName} \cap Jobs)
    /\ UNCHANGED <<stream, slot, lock, hotspot, savedName>>

\* Bug to catch: the name is forgotten in RAM only.
ForgetInRam(t) ==
    /\ pc[t] = "forget"
    /\ pc' = [pc EXCEPT ![t] = "guard"]
    /\ UNCHANGED <<stream, slot, lock, job, kind, sent, outcome, signed, link,
                   names, thirdParty>>

\* k85_config_save of the cleared name; the save may fail, nobody looks.
Forget(t) ==
    /\ pc[t] = "forget"
    /\ pc' = [pc EXCEPT ![t] = "guard"]
    /\ \/ savedName' = altName /\ UNCHANGED excused
       \/ UNCHANGED savedName /\ excused' = excused \cup ({savedName} \cap Jobs)
    /\ UNCHANGED <<stream, slot, lock, job, kind, sent, outcome, signed, link,
                   altName, thirdParty>>

\* After its success the package manager names the slot and saves the name,
\* which may fail.  An install of another task that is not over is not seen.
NameSlot(t, result) ==
    IF kind[t] = "package" /\ result = "ok"
    THEN /\ altName' = job[t]
         /\ savedName' \in {savedName, job[t]}
         /\ excused' = IF \E u \in Tasks \ {t} : pc[u] # "idle"
                       THEN excused \cup {job[t]} ELSE excused
    ELSE UNCHANGED names

\* The operation returns; the guard is destroyed on every path.  Only the
\* package manager looks at the result.
Return(t, result) ==
    /\ pc' = [pc EXCEPT ![t] = "idle"]
    /\ job' = [job EXCEPT ![t] = Nothing]
    /\ kind' = [kind EXCEPT ![t] = Nothing]
    /\ sent' = [sent EXCEPT ![t] = 0]
    /\ outcome' = [outcome EXCEPT ![job[t]] = result]
    /\ lock' = IF lock = t THEN Nothing ELSE lock
    /\ NameSlot(t, result)
    /\ UNCHANGED <<signed, link, thirdParty>>

Goto(t, place) ==
    /\ pc' = [pc EXCEPT ![t] = place]
    /\ UNCHANGED <<job, kind, sent, lock, outcome, signed, link, names, thirdParty>>

\* K85HeavyLockGuard obtained.
TakeGuard(t) ==
    /\ pc[t] = "guard" /\ lock = Nothing
    /\ lock' = t
    /\ pc' = [pc EXCEPT ![t] = "begin"]
    /\ UNCHANGED <<stream, slot, job, kind, sent, outcome, signed, link, names, thirdParty>>

\* The guard was not obtained, there is no signature file, the link is not
\* https or the server does not answer: nothing has been touched.
GiveUp(t) ==
    /\ pc[t] \in {"guard", "begin"}
    /\ Return(t, "failed")
    /\ UNCHANGED <<stream, slot>>

-----------------------------------------------------------------------------
(* The stream API.                                                         *)

\* k85_fwflash_stream_begin up to esp_ota_begin.
TestActive(t) ==
    /\ pc[t] = "begin"
    /\ IF active THEN Return(t, "failed") ELSE Goto(t, "erase")
    /\ UNCHANGED <<stream, slot>>

\* esp_ota_begin erases the slot; it may also fail.
EraseSlot(t) ==
    /\ pc[t] = "erase"
    /\ \/ slot' = Erased /\ Goto(t, "open")
       \/ UNCHANGED slot /\ Return(t, "failed")
    /\ UNCHANGED stream

\* The rest of k85_fwflash_stream_begin: a new handle, a new hash.
Open(t) ==
    /\ pc[t] = "open"
    /\ active' = TRUE /\ wrote' = 0 /\ hash' = <<>>
    /\ Goto(t, "stream")
    /\ UNCHANGED slot

\* invalidate_slot: the image header is erased.
Invalidated == [slot EXCEPT ![1] = Nothing]

CloseStream ==
    /\ active' = FALSE
    /\ UNCHANGED <<wrote, hash>>

\* Bug to catch: the abort gives the stream back and leaves the header.
AbortKeepsHeader == CloseStream /\ UNCHANGED slot

\* k85_fwflash_stream_abort
Abort ==
    IF active THEN CloseStream /\ slot' = Invalidated
              ELSE UNCHANGED <<stream, slot>>

\* The next chunk arrives.  Once its link has gone an upload still gets what
\* the socket holds, which is less than an image.
Arrives(t) ==
    IF kind[t] = "upload" /\ ~hotspot
    THEN /\ late[t] + 1 < Chunks
         /\ late' = [late EXCEPT ![t] = @ + 1]
    ELSE UNCHANGED late

\* k85_fwflash_stream_write: a write may fail, and always does in a stream
\* that another task has closed or when the slot is full; the caller aborts.
Write(t) ==
    /\ pc[t] = "stream" /\ sent[t] < Chunks
    /\ LET chunk == <<job[t], sent[t] + 1>>
           cell  == wrote + 1
       IN \/ /\ active /\ cell \in Cells
             /\ slot' = [slot EXCEPT ![cell] = IF @ = Nothing THEN chunk ELSE Garbage]
             /\ wrote' = cell
             /\ hash' = Append(hash, chunk)
             /\ sent' = [sent EXCEPT ![t] = @ + 1]
             /\ Arrives(t)
             /\ UNCHANGED <<active, pc, job, kind, lock, outcome, signed, hotspot, names,
                            thirdParty>>
          \/ /\ Abort
             /\ Return(t, "failed")

\* Bug to catch: a broken connection ends the operation without an abort.
BreakLeaks(t) ==
    /\ pc[t] = "stream"
    /\ Return(t, "failed")
    /\ UNCHANGED <<stream, slot>>

\* The connection breaks, times out, or no signature follows the upload.
Break(t) ==
    /\ pc[t] = "stream"
    /\ Abort
    /\ Return(t, "failed")

\* esp_ota_end checks the image in the slot.
ImageComplete == \E j \in Jobs : Bootable(j)

\* Bug to catch: the signature covers the image that was meant to be sent,
\* whatever was hashed.
SignatureIgnoresHash(j) == j \in signed

\* k85_ota_verify_signature_hex accepts the hash for the job's signature.
SignatureMatches(j) == j \in signed /\ hash = Image(j)

\* k85_fwflash_stream_end_verified: after the last chunk, or when the server
\* closes a download early.
EndVerified(t) ==
    /\ pc[t] = "stream" /\ kind[t] # "thirdparty"
    /\ kind[t] = "upload" => sent[t] = Chunks
    /\ \/ /\ ~active
          /\ Return(t, "failed")
          /\ UNCHANGED <<stream, slot>>
       \/ /\ active /\ ~SignatureMatches(job[t])
          /\ Return(t, "failed")
          /\ CloseStream /\ slot' = Invalidated
       \/ /\ active /\ SignatureMatches(job[t])
          /\ Return(t, IF ImageComplete THEN "ok" ELSE "failed")
          /\ CloseStream /\ UNCHANGED slot

\* The end of k85_fwflash_install_thirdparty: no signature, and the stream
\* is closed without a look at s_stream_active.
EndThirdParty(t) ==
    /\ pc[t] = "stream" /\ kind[t] = "thirdparty" /\ sent[t] > 0
    /\ CloseStream
    /\ IF active /\ ImageComplete
       THEN Return(t, "ok") /\ UNCHANGED slot
       ELSE Return(t, "failed") /\ slot' = Invalidated

-----------------------------------------------------------------------------
\* k85_run_wifi_hotspot: the UI's screen, from the start of the access point
\* to its end.  The server task is told to stop, nobody waits for it.
EnterHotspot ==
    /\ ~hotspot /\ pc[UI] = "idle"
    /\ hotspot' = TRUE
    /\ late' = [t \in Tasks |-> 0]
    /\ UNCHANGED <<stream, slot, lock, control, outcome, signed, names, thirdParty>>

LeaveHotspot ==
    /\ hotspot
    /\ hotspot' = FALSE
    /\ UNCHANGED <<stream, slot, lock, control, outcome, signed, late, names, thirdParty>>

\* The power is cut: only the flash remains, the slot and the configuration.
PowerLoss ==
    /\ Crashes
    /\ \E t \in Tasks : pc[t] # "idle"
    /\ active' = FALSE /\ wrote' = 0 /\ hash' = <<>>
    /\ lock' = Nothing
    /\ pc' = [t \in Tasks |-> "idle"]
    /\ job' = [t \in Tasks |-> Nothing]
    /\ kind' = [t \in Tasks |-> Nothing]
    /\ sent' = [t \in Tasks |-> 0]
    /\ outcome' = [j \in Jobs |-> IF outcome[j] = "running" THEN "lost" ELSE outcome[j]]
    /\ hotspot' = FALSE /\ late' = [t \in Tasks |-> 0]
    /\ altName' = savedName
    /\ UNCHANGED <<slot, signed, savedName, excused, thirdParty>>

Step(t) ==
    \/ Forget(t) \/ TakeGuard(t) \/ GiveUp(t)
    \/ TestActive(t) \/ EraseSlot(t) \/ Open(t)
    \/ Write(t) \/ Break(t) \/ EndVerified(t) \/ EndThirdParty(t)

Next ==
    \/ \E t \in Tasks, j \in Jobs, k \in Kinds : Start(t, j, k)
    \/ \E t \in Tasks : Step(t)
    \/ EnterHotspot \/ LeaveHotspot
    \/ PowerLoss

Spec == Init /\ [][Next]_vars

-----------------------------------------------------------------------------
(* Properties.                                                             *)

TypeOK ==
    /\ active \in BOOLEAN
    /\ wrote \in 0..SlotSize
    /\ hash \in Seq(Jobs \X (1..Chunks))
    /\ slot \in [Cells -> (Jobs \X (1..Chunks)) \cup {Nothing, Garbage}]
    /\ lock \in Tasks \cup {Nothing}
    /\ pc \in [Tasks -> {"idle", "forget", "guard", "begin", "erase", "open", "stream"}]
    /\ job \in [Tasks -> Jobs \cup {Nothing}]
    /\ kind \in [Tasks -> Kinds \cup {Nothing}]
    /\ sent \in [Tasks -> 0..Chunks]
    /\ outcome \in [Jobs -> {"new", "running", "ok", "failed", "lost"}]
    /\ signed \in SUBSET Jobs /\ thirdParty \in SUBSET Jobs
    /\ hotspot \in BOOLEAN /\ late \in [Tasks -> 0..(Chunks - 1)]
    /\ {altName, savedName} \subseteq Jobs \cup {Nothing} /\ excused \in SUBSET Jobs
    /\ \A t \in Tasks : pc[t] # "idle" => job[t] \in Jobs

\* No operation leaves the stream open behind it, on any of its error paths:
\* s_stream_active set with nobody streaming would refuse every later install.
StreamHasOwner == active => \E t \in Tasks : pc[t] = "stream"

\* What the signature will be checked against is what has been written: cell
\* by cell the hash covers the slot, except where another task has erased it
\* or the flash had been written before.
HashFollowsSlot ==
    active =>
        /\ wrote = Len(hash)
        /\ \A c \in 1..wrote : slot[c] \in {hash[c], Nothing, Garbage}

\* A signed install that reports success has put its own image into the slot,
\* also when another task opens, writes or closes the shared stream meanwhile.
SuccessIsOwnImage ==
    [][\A j \in Jobs :
          outcome[j] = "running" /\ outcome'[j] = "ok" =>
              \/ Bootable(j)'
              \/ \E t \in Tasks : job[t] = j /\ kind[t] = "thirdparty"]_vars

\* An image whose signature is bad is not left bootable: whatever fails in
\* whatever order, it is gone when its operation is over.  Exempt are a job
\* that a power cut ended and a third-party image, which is not signed.
UnsignedNotKept ==
    \A j \in Jobs :
        Bootable(j) /\ j \notin signed /\ j \notin thirdParty =>
            outcome[j] \in {"running", "lost"}

\* The name of the slot never points at a broken slot (package_manager.cpp:
\* 105-106), nor does the name that a restart would read back, wherever the
\* power is cut.  Excused is a name that an install of another kind followed or
\* overlapped, as those never touch it, or that a failing save left behind.
NameTellsTheSlot ==
    \A j \in {altName, savedName} : j \in Jobs /\ j \notin excused => Bootable(j)
=============================================================================

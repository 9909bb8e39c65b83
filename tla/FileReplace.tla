---------------------------- MODULE FileReplace -----------------------------
(***************************************************************************)
(* How files are replaced: an upload by FTP (do_stor), one by the web page *)
(* of the hotspot (handle_upload_body) and a download of the store         *)
(* (k85_apprepo_download_file) each write a temporary file of their own    *)
(* beside the target, remove the target and rename.  With them the FTP     *)
(* commands that delete and rename, and the job table of the scheduler,    *)
(* which FTP reloads when it has touched the crontab.                      *)
(*                                                                         *)
(* Names are those of targets; that a client names a temporary file is     *)
(* left out.  A content is the number of its upload, who made it and       *)
(* whether it is all of it.                                                *)
(***************************************************************************)
EXTENDS Naturals

CONSTANTS Paths,       \* the targets
          Crontab,     \* the one of them that the scheduler reads
          MaxUploads   \* bound of the uploads that are begun

ASSUME FilesAssumption == Crontab \in Paths /\ MaxUploads \in Nat

Writers == {"ftp", "web", "store"}

Absent == [n |-> 0, by |-> "nobody", whole |-> FALSE]
Content == {Absent} \cup [n : 0 .. MaxUploads, by : Writers \cup {"nobody"}, whole : BOOLEAN]

VARIABLES targets,  \* the targets
          temps,    \* beside each target the temporary file of each writer
          job,      \* of each writer: where it is, its target, what it writes
          rnfr,     \* the source that RNFR has named, or "none"
          table,    \* the crontab that the job table was read from
          uploads   \* how many uploads were begun
VARIABLES told,     \* history: targets whose absence somebody was told
          stale     \* history: the crontab changed by other means than FTP's

disk == <<targets, temps>>
fileVars == <<disk, job, rnfr, table, uploads, told, stale>>

Idle == [pc |-> "idle", path |-> Crontab, new |-> Absent]

\* A first crontab is there and loaded, the other targets are not.
FilesInit ==
    /\ targets = [p \in Paths |-> IF p = Crontab THEN [Absent EXCEPT !.whole = TRUE] ELSE Absent]
    /\ temps = [p \in Paths |-> [w \in Writers |-> Absent]]
    /\ job = [w \in Writers |-> Idle]
    /\ rnfr = "none" /\ table = targets[Crontab] /\ uploads = 0
    /\ told = Paths \ {Crontab} /\ stale = FALSE

\* The FTP task serves one command at a time.
FtpIdle == job["ftp"].pc = "idle"

\* A reload follows an FTP command that may have changed the crontab.
ThenReload(due) ==
    job' = [job EXCEPT !["ftp"] = IF due THEN [Idle EXCEPT !.pc = "reload"] ELSE Idle]

-----------------------------------------------------------------------------
(* Replacing a file.                                                       *)

\* Bug to catch: the target is removed as soon as the upload begins.
OpenRemoves(p) == targets' = [targets EXCEPT ![p] = Absent]

OpenKeeps(p) == UNCHANGED targets

\* fopen of the temporary file empties one that a power cut has left; who
\* uploads again knows what is missing.
Open(w, p) ==
    /\ job[w].pc = "idle" /\ uploads < MaxUploads
    /\ uploads' = uploads + 1
    /\ temps' = [temps EXCEPT ![p][w] = [n |-> uploads + 1, by |-> w, whole |-> FALSE]]
    /\ job' = [job EXCEPT ![w] = [pc |-> "write", path |-> p,
                                  new |-> [n |-> uploads + 1, by |-> w, whole |-> TRUE]]]
    /\ OpenKeeps(p)
    /\ told' = IF targets[p] = Absent THEN told \cup {p} ELSE told
    /\ UNCHANGED <<rnfr, table, stale>>

\* Bug to catch: the result of fclose is not looked at.
AcceptsAny(w) == TRUE

\* The web page ignores the result of fclose, and the store takes a connection
\* that is closed early for the end of the file.
AcceptsPart(w) == w \in {"web", "store"}

\* The data has ended, and the temporary file is closed.
Close(w) ==
    /\ job[w].pc = "write"
    /\ \E c \in {job[w].new} \cup (IF AcceptsPart(w) THEN {[job[w].new EXCEPT !.whole = FALSE]} ELSE {}) :
           temps' = [temps EXCEPT ![job[w].path][w] = c]
    /\ job' = [job EXCEPT ![w].pc = "remove"]
    /\ UNCHANGED <<targets, rnfr, table, uploads, told, stale>>

\* A failed connection, write or fclose, or a stop of the server.
Fail(w) ==
    /\ job[w].pc = "write"
    /\ temps' = [temps EXCEPT ![job[w].path][w] = Absent]
    /\ job' = [job EXCEPT ![w] = Idle]
    /\ UNCHANGED <<targets, rnfr, table, uploads, told, stale>>

\* The target is removed; nobody looks whether that has failed, as it does
\* while another task has the file open.
Remove(w) ==
    LET p == job[w].path IN
    /\ job[w].pc = "remove"
    /\ targets' \in {targets, [targets EXCEPT ![p] = Absent]}
    /\ job' = [job EXCEPT ![w].pc = "rename"]
    /\ stale' = (stale \/ (targets'[p] # targets[p] /\ p = Crontab /\ w # "ftp"))
    /\ UNCHANGED <<temps, rnfr, table, uploads, told>>

RenameTemp(w) ==
    LET p == job[w].path IN
    /\ job[w].pc = "rename"
    /\ targets' = [targets EXCEPT ![p] = temps[p][w]]
    /\ temps' = [temps EXCEPT ![p][w] = Absent]
    /\ IF w = "ftp" THEN ThenReload(p = Crontab) ELSE job' = [job EXCEPT ![w] = Idle]
    /\ told' = told \ {p}
    /\ stale' = (stale \/ (p = Crontab /\ w # "ftp"))
    /\ UNCHANGED <<rnfr, table, uploads>>

\* The temporary file goes when the rename has failed, and a target that was
\* removed with it; the failure is reported, and there is no reload.
RenameTempFails(w) ==
    LET p == job[w].path IN
    /\ job[w].pc = "rename"
    /\ temps' = [temps EXCEPT ![p][w] = Absent]
    /\ job' = [job EXCEPT ![w] = Idle]
    /\ told' = IF targets[p] = Absent THEN told \cup {p} ELSE told
    /\ stale' = (stale \/ (targets[p] = Absent /\ p = Crontab))
    /\ UNCHANGED <<targets, rnfr, table, uploads>>

-----------------------------------------------------------------------------
(* FTP commands on whole files.                                            *)

Dele(p) ==
    /\ FtpIdle /\ targets[p] # Absent
    /\ targets' = [targets EXCEPT ![p] = Absent]
    /\ told' = told \cup {p}
    /\ ThenReload(p = Crontab)
    /\ UNCHANGED <<temps, rnfr, table, uploads, stale>>

Rnfr(p) ==
    /\ FtpIdle
    /\ rnfr' = IF targets[p] # Absent THEN p ELSE "none"
    /\ UNCHANGED <<disk, job, table, uploads, told, stale>>

\* Bug to catch: only a rename to the crontab reloads it.
RntoReloadsTarget(from, to) == ThenReload(to = Crontab)

\* "covers renames to/from crontab"
RntoReloads(from, to) == ThenReload(TRUE)

\* RNTO renames whatever is then under the name, over what is there.
Rnto(p) ==
    /\ FtpIdle /\ rnfr \in Paths
    /\ rnfr' = "none"
    /\ \/ /\ targets[rnfr] # Absent
          /\ targets' = [targets EXCEPT ![rnfr] = Absent, ![p] = targets[rnfr]]
          /\ told' = (told \cup {rnfr}) \ {p}
          /\ RntoReloads(rnfr, p)
       \/ UNCHANGED <<targets, told, job>>
    /\ UNCHANGED <<temps, table, uploads, stale>>

\* k85_cron_reload, which leaves the table as it is when memory is short.
Reload ==
    /\ job["ftp"].pc = "reload"
    /\ job' = [job EXCEPT !["ftp"] = Idle]
    /\ \/ table' = targets[Crontab] /\ stale' = FALSE
       \/ table' = table /\ stale' = TRUE
    /\ UNCHANGED <<disk, rnfr, uploads, told>>

-----------------------------------------------------------------------------
\* The power goes; the scheduler that is started next loads the crontab it
\* finds.  A file that was being written is there in part, a rename has
\* happened or not.
PowerCut ==
    /\ job' = [w \in Writers |-> Idle]
    /\ rnfr' = "none" /\ table' = targets[Crontab] /\ stale' = FALSE
    /\ UNCHANGED <<disk, uploads, told>>

FilesNext ==
    \/ \E w \in Writers :
         \/ \E p \in Paths : Open(w, p)
         \/ Close(w) \/ Fail(w) \/ Remove(w) \/ RenameTemp(w) \/ RenameTempFails(w)
    \/ \E p \in Paths : Dele(p) \/ Rnfr(p) \/ Rnto(p)
    \/ Reload
    \/ PowerCut

FilesSpec == FilesInit /\ [][FilesNext]_fileVars

-----------------------------------------------------------------------------
(* Properties.                                                             *)

FilesTypeOK ==
    /\ targets \in [Paths -> Content]
    /\ temps \in [Paths -> [Writers -> Content]]
    /\ job \in [Writers -> [pc : {"idle", "write", "remove", "rename", "reload"},
                           path : Paths, new : Content]]
    /\ table \in Content /\ uploads \in 0 .. MaxUploads
    /\ told \in SUBSET Paths /\ stale \in BOOLEAN

\* A target is never a part of what FTP has received, whenever a transfer or
\* the power breaks off ("move into place only when complete").
NeverPartial ==
    \A p \in Paths : targets[p].by = "ftp" => targets[p].whole

\* A target that is missing was deleted, renamed or reported as failed, or the
\* upload that was to replace it is still in a temporary file: the whole of it,
\* as far as its writer can tell.
NothingVanishes ==
    \A p \in Paths :
        targets[p] = Absent =>
            \/ p \in told
            \/ \E w \in Writers : \/ temps[p][w].whole
                                  \/ temps[p][w] # Absent /\ AcceptsPart(w)

\* The scheduler runs the crontab that is on the disk, whichever FTP command
\* has changed it, once the command is done.
TableFollows ==
    FtpIdle /\ ~stale => table = targets[Crontab]
=============================================================================

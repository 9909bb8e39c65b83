----------------------------- MODULE FtpServer ------------------------------
(***************************************************************************)
(* The FTP server, main/net/ftp_server.cpp: its task, which serves one     *)
(* client at a time, the starts and stops from the menus, the scripts and  *)
(* the boot task, the session of the client up to its transfers, and the   *)
(* login, checked against the two keys of the services store that the      *)
(* command ftppass sets one after the other.  The name of a user and his   *)
(* password are all that a login looks at; the files transferred are not   *)
(* part of this module.                                                    *)
(***************************************************************************)
EXTENDS Naturals

CONSTANTS Users,       \* user names a client may give
          Owners,      \* those ftppass may set
          Passwords,
          Addrs,       \* addresses the access point may give
          None,
          MaxFails,    \* wrong passwords that end a session (3)
          GlobalLimit  \* wrong passwords that lock the login (6)

ASSUME FtpAssumption ==
    /\ Owners \subseteq Users
    /\ None \notin Users \cup Passwords \cup Addrs
    /\ MaxFails \in Nat \ {0} /\ GlobalLimit \in Nat \ {0}

VARIABLES run,       \* s_run
          idle,      \* s_use_idle
          task,      \* what the task is doing; s_task is null if "none"
          bound,     \* s_bound_ip, the address s_listen is open on
          stopping,  \* a stop holds the state mutex while it waits
          addr       \* address of the station
VARIABLES at,        \* where the session is
          user,      \* Sess.user, None before USER
          authed,    \* Sess.authed
          fails,     \* Sess.fails
          pasv,      \* Sess.pasv is open
          guess,     \* the password of the PASS being handled
          cu, ch     \* name and hash read for it
VARIABLES name, hash,     \* ftp_user and ftp_hash in the services store
          setting,        \* password of an ftppass that has set the name only
          globFails,      \* s_glob_fails
          locked          \* esp_timer_get_time() < s_glob_lock_until
VARIABLES ports,     \* history: data ports that are open
          wrong,     \* history: wrong passwords since a right one or a lock's end
          tries,     \* history: wrong passwords in this session
          loggedIn   \* history: the name that last logged in in this session

server   == <<run, idle, task, bound, stopping, addr>>
request  == <<guess, cu, ch>>
session  == <<at, user, authed, fails, pasv, request, ports, tries, loggedIn>>
store    == <<name, hash, setting>>
lockout  == <<globFails, locked, wrong>>
vars     == <<server, session, store, lockout>>

Hashes == [pass : Passwords, salted : BOOLEAN]

\* The login may be unset, or stored by an old version without a salt.
Init ==
    /\ run = FALSE /\ idle = FALSE /\ task = "none" /\ bound = None
    /\ stopping = FALSE /\ addr \in Addrs \cup {None}
    /\ at = "none" /\ user = None /\ authed = FALSE /\ fails = 0 /\ pasv = FALSE
    /\ guess = None /\ cu = None /\ ch = None
    /\ \/ name = None /\ hash = None
       \/ name \in Owners /\ hash \in Hashes
    /\ setting = None
    /\ globFails = 0 /\ locked = FALSE
    /\ ports = 0 /\ wrong = 0 /\ tries = 0 /\ loggedIn = None

-----------------------------------------------------------------------------
(* The server's task, its starts and its stops.                            *)

HasLogin == name # None /\ hash # None

\* k85_ftp_server_start.  A port or a task that cannot be made leaves nothing
\* behind.
Start(useIdle) ==
    /\ ~stopping
    /\ task = "none" /\ addr # None /\ HasLogin
    /\ run' = TRUE /\ idle' = useIdle
    /\ task' = "listening" /\ bound' = addr
    /\ UNCHANGED <<stopping, addr, session, store, lockout>>

\* k85_ftp_server_stop: the task is asked to leave, and waited for, five
\* seconds at most.
Stop ==
    /\ ~stopping
    /\ stopping' = TRUE /\ run' = FALSE
    /\ UNCHANGED <<idle, task, bound, addr, session, store, lockout>>

StopReturns ==
    /\ stopping
    /\ stopping' = FALSE
    /\ UNCHANGED <<run, idle, task, bound, addr, session, store, lockout>>

\* The access point gives an address, another one, or none.
AddrChanges ==
    /\ addr' \in (Addrs \cup {None}) \ {addr}
    /\ UNCHANGED <<run, idle, task, bound, stopping, session, store, lockout>>

\* Bug to catch: the first address is kept.
RebindOnlyFirst ==
    /\ task = "listening" /\ run
    /\ addr # None /\ bound = None
    /\ bound' = addr
    /\ UNCHANGED <<run, idle, task, stopping, addr, session, store, lockout>>

\* The task follows a change of the address, when it can open the port.
Rebind ==
    /\ task = "listening" /\ run
    /\ addr # None /\ addr # bound
    /\ bound' = addr
    /\ UNCHANGED <<run, idle, task, stopping, addr, session, store, lockout>>

\* Nobody came for a quarter of an hour.
IdleStop ==
    /\ task = "listening" /\ run /\ idle
    /\ run' = FALSE
    /\ UNCHANGED <<idle, task, bound, stopping, addr, session, store, lockout>>

Leave ==
    /\ task = "listening" /\ ~run
    /\ task' = "none" /\ bound' = None
    /\ UNCHANGED <<run, idle, stopping, addr, session, store, lockout>>

-----------------------------------------------------------------------------
(* The session.                                                            *)

NoRequest == guess' = None /\ cu' = None /\ ch' = None

\* A client connects.
Accept ==
    /\ task = "listening" /\ run
    /\ task' = "session" /\ at' = "reading"
    /\ tries' = 0
    /\ UNCHANGED <<run, idle, bound, stopping, addr, user, authed, fails, pasv>>
    /\ UNCHANGED <<request, ports, loggedIn, store, lockout>>

\* close_pasv
ClosePasv == pasv' = FALSE /\ ports' = IF pasv THEN ports - 1 ELSE ports

\* Bug to catch: the data port of the session stays open.
HangUpKeepsPasv ==
    /\ task' = "listening" /\ at' = "none"
    /\ user' = None /\ authed' = FALSE /\ fails' = 0 /\ loggedIn' = None
    /\ NoRequest /\ pasv' = FALSE /\ ports' = ports /\ tries' = 0
    /\ UNCHANGED <<run, idle, bound, stopping, addr, store>>

\* The session ends; the next one starts from a blank Sess.
HangUp ==
    /\ task' = "listening" /\ at' = "none"
    /\ user' = None /\ authed' = FALSE /\ fails' = 0 /\ loggedIn' = None
    /\ NoRequest /\ ClosePasv /\ tries' = 0
    /\ UNCHANGED <<run, idle, bound, stopping, addr, store>>

\* The client sends the next line ...
ReadLine ==
    /\ at = "reading" /\ run
    /\ at' = "line"
    /\ UNCHANGED <<server, user, authed, fails, pasv, request, ports, tries, loggedIn>>
    /\ UNCHANGED <<store, lockout>>

\* ... or goes, or is silent for five minutes.
ClientGone == at = "reading" /\ HangUp /\ UNCHANGED lockout

\* Bug to catch: a session ends only by its client.
StopSessionWaits ==
    /\ at = "reading" /\ ~run /\ ~authed
    /\ HangUp
    /\ UNCHANGED lockout

\* The server was stopped: read_line and the loop of the session see it.
StopSession ==
    /\ at = "reading" /\ ~run
    /\ HangUp
    /\ UNCHANGED lockout

-----------------------------------------------------------------------------
(* The commands of a session that has read a line.                         *)

\* Bug to catch: another name does not end the login.
UserKeepsLogin(u) ==
    /\ at = "line"
    /\ at' = "reading" /\ user' = u
    /\ UNCHANGED <<server, authed, fails, pasv, request, ports, tries, loggedIn, store, lockout>>

\* USER
User(u) ==
    /\ at = "line"
    /\ at' = "reading" /\ user' = u /\ authed' = FALSE
    /\ UNCHANGED <<server, fails, pasv, request, ports, tries, loggedIn, store, lockout>>

\* Bug to catch: the lock is not looked at.
PassUnlocked(p) ==
    /\ at = "line"
    /\ at' = "hash" /\ guess' = p /\ cu' = name
    /\ UNCHANGED <<server, user, authed, fails, pasv, ch, ports, tries, loggedIn, store, lockout>>

\* PASS: while the login is locked the session is closed; otherwise the name
\* is read from the store, ...
Pass(p) ==
    /\ at = "line" /\ ~locked
    /\ at' = "hash" /\ guess' = p /\ cu' = name
    /\ UNCHANGED <<server, user, authed, fails, pasv, ch, ports, tries, loggedIn, store, lockout>>

PassLocked == at = "line" /\ locked /\ HangUp /\ UNCHANGED lockout

\* ... then the hash, ...
ReadHash ==
    /\ at = "hash"
    /\ at' = "check" /\ ch' = hash
    /\ UNCHANGED <<server, user, authed, fails, pasv, guess, cu, ports, tries, loggedIn, store, lockout>>

Right == cu # None /\ ch # None /\ user = cu /\ guess = ch.pass

LogIn ==
    /\ authed' = TRUE /\ loggedIn' = user
    /\ globFails' = 0 /\ wrong' = 0
    /\ at' = "reading" /\ NoRequest
    /\ UNCHANGED <<server, user, fails, pasv, ports, tries, name, setting, locked>>

\* ... and they are compared.
RightPassword ==
    /\ at = "check" /\ Right /\ ch.salted
    /\ LogIn
    /\ UNCHANGED hash

\* A hash without a salt is accepted once, and replaced.
Upgrade ==
    /\ at = "check" /\ Right /\ ~ch.salted
    /\ LogIn
    /\ hash' = [pass |-> guess, salted |-> TRUE]

\* A wrong password counts for the session and for all of them.
WrongPassword ==
    /\ at = "check" /\ ~Right
    /\ wrong' = wrong + 1
    /\ IF globFails + 1 >= GlobalLimit THEN locked' = TRUE /\ globFails' = 0
                                       ELSE locked' = locked /\ globFails' = globFails + 1
    /\ \/ fails + 1 >= MaxFails /\ HangUp
       \/ /\ fails + 1 < MaxFails
          /\ fails' = fails + 1 /\ tries' = tries + 1 /\ authed' = FALSE
          /\ at' = "reading" /\ NoRequest
          /\ UNCHANGED <<server, user, pasv, ports, loggedIn, store>>

\* The five minutes of the lock are over.
LockExpires ==
    /\ locked
    /\ locked' = FALSE /\ wrong' = 0
    /\ UNCHANGED <<server, session, store, globFails>>

\* PASV, EPSV: the data port before is closed; the new one may fail.
Pasv ==
    /\ at = "line" /\ authed
    /\ at' = "reading"
    /\ \/ ClosePasv
       \/ addr # None /\ pasv' = TRUE /\ ports' = IF pasv THEN ports ELSE ports + 1
    /\ UNCHANGED <<server, user, authed, fails, request, tries, loggedIn, store, lockout>>

\* LIST, NLST, RETR, STOR: the client connects to the data port, which is
\* closed then; without a port, or without the client, there is no transfer.
Transfer ==
    /\ at = "line" /\ authed
    /\ at' \in IF pasv THEN {"transfer", "reading"} ELSE {"reading"}
    /\ ClosePasv
    /\ UNCHANGED <<server, user, authed, fails, request, tries, loggedIn, store, lockout>>

\* The transfer ends with its data, with a silent client, or with a stop.
EndTransfer ==
    /\ at = "transfer"
    /\ at' = "reading"
    /\ UNCHANGED <<server, user, authed, fails, pasv, request, ports, tries, loggedIn, store, lockout>>

\* Any other command, or one that is refused for lack of a login.
OtherCommand ==
    /\ at = "line"
    /\ at' = "reading"
    /\ UNCHANGED <<server, user, authed, fails, pasv, request, ports, tries, loggedIn, store, lockout>>

Quit == at = "line" /\ HangUp /\ UNCHANGED lockout

-----------------------------------------------------------------------------
(* ftppass: the name is stored, then the hash of the password.             *)

SetName(u, p) ==
    /\ setting = None
    /\ name' = u /\ setting' = p
    /\ UNCHANGED <<server, session, hash, lockout>>

SetHash ==
    /\ setting # None
    /\ hash' = [pass |-> setting, salted |-> TRUE] /\ setting' = None
    /\ UNCHANGED <<server, session, name, lockout>>

-----------------------------------------------------------------------------
Command ==
    \/ \E u \in Users : User(u)
    \/ \E p \in Passwords : Pass(p)
    \/ PassLocked \/ Pasv \/ Transfer \/ OtherCommand \/ Quit

Check == ReadHash \/ RightPassword \/ Upgrade \/ WrongPassword

Session == ReadLine \/ ClientGone \/ StopSession \/ Command \/ Check \/ EndTransfer

Next ==
    \/ \E useIdle \in BOOLEAN : Start(useIdle)
    \/ Stop \/ StopReturns
    \/ AddrChanges \/ Rebind \/ IdleStop \/ Accept \/ Leave
    \/ Session
    \/ LockExpires
    \/ \E u \in Owners, p \in Passwords : SetName(u, p)
    \/ SetHash

Spec == Init /\ [][Next]_vars

\* The task goes on by itself except where it waits for a client while the
\* server is not stopped: every wait of a stopped server has a timeout.
Fairness ==
    /\ WF_vars(Rebind)
    /\ WF_vars(~run /\ Leave)
    /\ WF_vars(~run /\ (StopSession \/ Command \/ Check \/ EndTransfer))

FairSpec == Spec /\ Fairness

-----------------------------------------------------------------------------
(* Properties.                                                             *)

TypeOK ==
    /\ run \in BOOLEAN /\ idle \in BOOLEAN /\ stopping \in BOOLEAN
    /\ task \in {"none", "listening", "session"}
    /\ bound \in Addrs \cup {None} /\ addr \in Addrs \cup {None}
    /\ at \in {"none", "reading", "line", "hash", "check", "transfer"}
    /\ user \in Users \cup {None} /\ authed \in BOOLEAN /\ pasv \in BOOLEAN
    /\ guess \in Passwords \cup {None}
    /\ cu \in Owners \cup {None} /\ ch \in Hashes \cup {None}
    /\ name \in Owners \cup {None} /\ hash \in Hashes \cup {None}
    /\ setting \in Passwords \cup {None}
    /\ locked \in BOOLEAN
    /\ loggedIn \in Users \cup {None}
    /\ {fails, globFails, ports, wrong, tries} \subseteq Nat

\* The port is open while there is a task and never after: a start that finds
\* it still bound would fail.
PortHasTask == (bound # None) <=> (task # "none")

\* A client acts under the name whose password it gave, whatever names it has
\* tried since.
LoggedInAsNamed == authed => user = loggedIn

\* No sequence of connections and names gets more tries at the password than
\* the limit before a right password or the wait of the lock, and no session
\* more than its own limit.
TriesAreLimited ==
    /\ wrong <= GlobalLimit
    /\ locked \/ wrong < GlobalLimit
    /\ tries < MaxFails

\* No data port outlives the session that opened it, and none is lost.
PortsAccounted ==
    /\ ports = IF pasv THEN 1 ELSE 0
    /\ task # "session" => ports = 0

\* A stopped server leaves, whatever its client is doing.
StopEnds == ~run ~> task = "none"

\* While it has no client the server comes to listen on the address it has.
FollowsAddress ==
    \A a \in Addrs :
        []<>(~run \/ task # "listening" \/ addr # a \/ bound = a)
=============================================================================

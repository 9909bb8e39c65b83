------------------------------ MODULE Hotspot -------------------------------
(***************************************************************************)
(* The hotspot with its web file manager, main/apps/tools/wifi_hotspot.cpp:*)
(* the menu that starts and stops it and makes access keys, the server     *)
(* task that serves one connection at a time, the login by the access key  *)
(* with its growing delays, and the session that a login gives.            *)
(*                                                                         *)
(* The task's stack and control block are static.  A start while the task  *)
(* of an earlier one is still alive overwrites them: whatever happens then *)
(* is undefined, and the model ends there ("overwritten").                 *)
(***************************************************************************)
EXTENDS Naturals

CONSTANTS Clients,   \* browsers; each keeps the cookie of its last login
          Keys,      \* access keys
          Nothing,
          MaxWrong,  \* bound of the wrong keys tried in a row
          MaxTime    \* bound of the seconds counted for them

ASSUME HotspotAssumption == MaxWrong \in Nat /\ MaxTime \in Nat

VARIABLES menu,        \* what k85_run_wifi_hotspot is doing
          running,     \* s_hotspot_task_running
          listening,   \* s_hotspot_listen_fd is open
          webTask,     \* what hotspot_server_task is doing
          overwritten  \* the task was overwritten by another one
VARIABLES key,         \* s_web_access_key
          webSession,  \* the client whose cookie is s_session
          client,      \* the client being served
          failed,      \* s_failed_attempts
          wait         \* seconds until s_lockout_until_us
VARIABLES sessionKey,  \* history: the key that was compared for the session
          late,        \* history: the key has changed since it was compared
          elapsed      \* history: seconds since the first wrong key in a row

lifecycle == <<menu, running, listening, webTask, overwritten>>
login     == <<key, webSession, client, failed, wait>>
history   == <<sessionKey, late, elapsed>>
hotspotVars == <<lifecycle, login, history>>

HotspotInit ==
    /\ menu = "off" /\ running = FALSE /\ listening = FALSE
    /\ webTask = "none" /\ overwritten = FALSE
    /\ key = Nothing /\ webSession = Nothing /\ client = Nothing
    /\ failed = 0 /\ wait = 0
    /\ sessionKey = Nothing /\ late = FALSE /\ elapsed = 0

-----------------------------------------------------------------------------
(* The menu.                                                               *)

\* Bug to catch: the session of the old key stays.
NewKeyOnly ==
    /\ key' \in Keys \ {key}
    /\ late' = (webTask = "granting")
    /\ UNCHANGED <<webSession, sessionKey, client, failed, wait, elapsed>>

\* k85_wifi_hotspot_regenerate_key: a new key, and no session.
NewKey ==
    /\ key' \in Keys \ {key}
    /\ webSession' = Nothing
    /\ late' = (webTask = "granting")
    /\ sessionKey' = IF webTask = "granting" THEN sessionKey ELSE Nothing
    /\ UNCHANGED <<client, failed, wait, elapsed>>

Regenerate ==
    /\ menu = "on"
    /\ NewKey
    /\ UNCHANGED lifecycle

\* k85_run_wifi_hotspot.  The socket is made before the task.
StartHotspot ==
    /\ menu = "off"
    /\ NewKey
    /\ menu' = "on" /\ running' = TRUE /\ listening' = TRUE
    /\ IF webTask = "none" THEN webTask' = "idle" /\ overwritten' = FALSE
                          ELSE webTask' = webTask /\ overwritten' = TRUE

\* The access point, the socket or the stack of the task cannot be had.
StartFails ==
    /\ menu = "off"
    /\ NewKey
    /\ running' \in {running, FALSE}
    /\ UNCHANGED <<menu, listening, webTask, overwritten>>

StopHotspot ==
    /\ menu = "on"
    /\ menu' = "stopping" /\ running' = FALSE
    /\ UNCHANGED <<listening, webTask, overwritten, login, history>>

\* The 300 ms after a stop are longer than the select of an idle task, and as
\* nothing to a task that serves a connection.
Stopped ==
    /\ menu = "stopping" /\ webTask # "idle"
    /\ menu' = "off" /\ listening' = FALSE
    /\ UNCHANGED <<running, webTask, overwritten, login, history>>

-----------------------------------------------------------------------------
(* The server task.                                                        *)

\* Bug to catch: the loop ends only when a client has been served.
LeaveTaskAfterClient ==
    /\ webTask = "idle" /\ ~running /\ webSession # Nothing
    /\ webTask' = "none"
    /\ UNCHANGED <<menu, running, listening, overwritten, login, history>>

LeaveTask ==
    /\ webTask = "idle" /\ ~running
    /\ webTask' = "none"
    /\ UNCHANGED <<menu, running, listening, overwritten, login, history>>

AcceptClient(c) ==
    /\ webTask = "idle" /\ running
    /\ webTask' = "request" /\ client' = c
    /\ UNCHANGED <<menu, running, listening, overwritten>>
    /\ UNCHANGED <<key, webSession, failed, wait, history>>

\* The connection is closed.
Close ==
    /\ webTask' = "idle" /\ client' = Nothing
    /\ UNCHANGED <<menu, running, listening, overwritten>>

\* A request that never comes, has no session, or is answered at once; and a
\* login during the delay.
Answered ==
    /\ webTask = "request"
    /\ Close
    /\ UNCHANGED <<key, webSession, failed, wait, history>>

\* POST /login with the right key ...
RightKey ==
    /\ webTask = "request" /\ wait = 0
    /\ webTask' = "granting"
    /\ failed' = 0 /\ elapsed' = 0
    /\ sessionKey' = key /\ late' = FALSE
    /\ UNCHANGED <<menu, running, listening, overwritten, key, webSession, client, wait>>

\* ... gives a session, which ends any other one: new_session_token.
Grant ==
    /\ webTask = "granting"
    /\ webSession' = client
    /\ Close
    /\ UNCHANGED <<key, failed, wait, history>>

\* Bug to catch: the shift of the delay wraps instead of staying at its limit.
DelayWraps(n) == <<1, 2, 4, 8, 16>>[((n - 1) % 5) + 1]

\* Seconds of the delay after the n-th wrong key, 1 << shift of them.
Delay(n) ==
    LET shift == IF n > 5 THEN 5 ELSE n - 1
        delay == <<1, 2, 4, 8, 16, 32>>[shift + 1]
    IN IF delay > 30 THEN 30 ELSE delay

\* POST /login with a wrong key.
WrongKey ==
    /\ webTask = "request" /\ wait = 0
    /\ failed < MaxWrong
    /\ failed' = failed + 1
    /\ wait' = Delay(failed + 1)
    /\ elapsed' = IF failed = 0 THEN 0 ELSE elapsed
    /\ Close
    /\ UNCHANGED <<key, webSession, sessionKey, late>>

\* An upload, a download, or a firmware update that takes minutes.
Serve ==
    /\ webTask = "request" /\ webSession = client
    /\ webTask' = "serving"
    /\ UNCHANGED <<menu, running, listening, overwritten, login, history>>

Served ==
    /\ webTask = "serving"
    /\ Close
    /\ UNCHANGED <<key, webSession, failed, wait, history>>

\* A second passes.
Tick ==
    /\ wait > 0 \/ elapsed < MaxTime
    /\ wait' = IF wait > 0 THEN wait - 1 ELSE 0
    /\ elapsed' = IF failed > 0 /\ elapsed < MaxTime THEN elapsed + 1 ELSE elapsed
    /\ UNCHANGED <<lifecycle, key, webSession, client, failed, sessionKey, late>>

-----------------------------------------------------------------------------
Menu == StartHotspot \/ StartFails \/ StopHotspot \/ Stopped \/ Regenerate

Server ==
    \/ \E c \in Clients : AcceptClient(c)
    \/ LeaveTask \/ Answered \/ RightKey \/ Grant \/ WrongKey \/ Serve \/ Served

\* Nothing is known of what follows an overwritten task.
Lost == overwritten /\ UNCHANGED hotspotVars

HotspotNext ==
    \/ ~overwritten /\ (Menu \/ Server \/ Tick)
    \/ Lost

HotspotSpec == HotspotInit /\ [][HotspotNext]_hotspotVars

\* The server task goes on while the hotspot is being stopped: every wait of
\* a connection has a timeout.
HotspotFairness == WF_hotspotVars(~overwritten /\ ~running /\ Server)

HotspotFairSpec == HotspotSpec /\ HotspotFairness

-----------------------------------------------------------------------------
(* Properties.                                                             *)

HotspotTypeOK ==
    /\ menu \in {"off", "on", "stopping"}
    /\ running \in BOOLEAN /\ listening \in BOOLEAN /\ overwritten \in BOOLEAN
    /\ webTask \in {"none", "idle", "request", "granting", "serving"}
    /\ key \in Keys \cup {Nothing} /\ sessionKey \in Keys \cup {Nothing}
    /\ webSession \in Clients \cup {Nothing} /\ client \in Clients \cup {Nothing}
    /\ failed \in 0 .. MaxWrong /\ wait \in 0 .. 30
    /\ late \in BOOLEAN /\ elapsed \in 0 .. MaxTime

\* Seconds that n wrong keys in a row take at least: one after the first,
\* twice as many after each further one, never more than thirty.
Least(n) == IF n <= 6 THEN <<0, 0, 1, 3, 7, 15, 31>>[n + 1] ELSE 31 + 30 * (n - 6)

\* Wrong keys are slowed down over any sequence of connections, restarts of
\* the hotspot and new keys.
GuessesAreSlow == elapsed >= MaxTime \/ elapsed >= Least(failed)

\* A session is one of the present key, but for a login that was compared
\* before the key changed and granted after.
SessionOfKey == webSession # Nothing /\ webTask # "granting" => sessionKey = key \/ late

\* A stopped task leaves in the end, unless it is overwritten or started again.
HotspotStops == ~running ~> webTask = "none" \/ running \/ overwritten

\* When the menu says that the hotspot is stopped, its task is gone.
StoppedMeansStopped == menu = "off" => webTask = "none"
=============================================================================

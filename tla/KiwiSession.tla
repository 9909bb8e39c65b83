---------------------------- MODULE KiwiSession -----------------------------
(***************************************************************************)
(* A session of the internet SDR, main/net/kiwisdr_client.cpp: the UI task *)
(* (run_session) asks by flags, kiwi_background_task connects, greets, sets *)
(* up and tunes, and the task of the websocket client reports by flags.    *)
(*                                                                         *)
(* A frequency with its mode is one value; the sound is in KiwiAudio.      *)
(***************************************************************************)
EXTENDS Naturals

CONSTANTS Freqs,    \* what the user can tune to
          Nothing   \* none of them: the server has not been tuned

VARIABLES ui,          \* where run_session is
          freq,        \* s_freq_khz and s_mode_idx, as shown
          taskRunning  \* s_kiwi_task_running
VARIABLES connected, failed,         \* s_connected, s_connect_failed
          wantConnect, wantRetune,   \* s_want_connect, s_want_retune
          needHandshake, needSetup,  \* s_need_handshake, s_need_setup
          setupDone,                 \* s_setup_done
          connAge                    \* s_conn_us: none, within 6 s, longer ago
VARIABLES pc,         \* where kiwi_background_task is
          cmd,        \* the frequency in the command it sends
          client,     \* s_ws and its connection
          reporting,  \* what the handler has still to do for an event
          server,     \* what the server has been told
          tuned,      \* the frequency it is tuned to
          lossy       \* history: a command to this server was not sent

session == <<ui, freq, taskRunning>>
flags   == <<connected, failed, wantConnect, wantRetune, needHandshake, needSetup,
             setupDone, connAge>>
remote  == <<client, reporting, server, tuned>>
sdrVars == <<session, flags, pc, cmd, remote, lossy>>

SdrInit ==
    /\ ui = "menu" /\ freq \in Freqs /\ taskRunning = FALSE
    /\ connected = FALSE /\ failed = FALSE /\ wantConnect = FALSE /\ wantRetune = FALSE
    /\ needHandshake = FALSE /\ needSetup = FALSE /\ setupDone = FALSE /\ connAge = "none"
    /\ pc = "off" /\ cmd = Nothing
    /\ client = "none" /\ reporting = "none" /\ server = "none" /\ tuned = Nothing
    /\ lossy = FALSE

-----------------------------------------------------------------------------
(* run_session.                                                            *)

\* start_kiwi_background_task, after the menu has asked for the frequency.
StartTask ==
    /\ ui = "menu"
    /\ ui' = "starting" /\ taskRunning' = TRUE /\ pc' = "head"
    /\ freq' \in Freqs
    /\ UNCHANGED <<flags, cmd, remote, lossy>>

AskConnect ==
    /\ ui = "starting"
    /\ ui' = "waiting"
    /\ connected' = FALSE /\ failed' = FALSE /\ wantConnect' = TRUE
    /\ UNCHANGED <<freq, taskRunning, wantRetune, needHandshake, needSetup, setupDone, connAge,
                   pc, cmd, remote, lossy>>

Listen ==
    /\ ui = "waiting" /\ connected
    /\ ui' = "listening"
    /\ UNCHANGED <<freq, taskRunning, flags, pc, cmd, remote, lossy>>

\* The wait ends by A and B, held for 500 ms, by a failure, or after 6 s, which
\* counts as one.  Until then the task, of a higher priority and with nothing
\* to send, has taken the request to connect.
Abandon ==
    /\ ui = "waiting" /\ ~wantConnect
    /\ ui' = "stopping" /\ taskRunning' = FALSE
    /\ failed' \in {failed, TRUE}
    /\ UNCHANGED <<freq, connected, wantConnect, wantRetune, needHandshake, needSetup, setupDone,
                   connAge, pc, cmd, remote, lossy>>

\* A tap or a hold changes the frequency or the mode; the flag follows.
Turn ==
    /\ ui = "listening"
    /\ \E f \in Freqs \ {freq} : freq' = f
    /\ ui' = "turned"
    /\ UNCHANGED <<taskRunning, flags, pc, cmd, remote, lossy>>

AskRetune ==
    /\ ui = "turned"
    /\ ui' = "listening" /\ wantRetune' = TRUE
    /\ UNCHANGED <<freq, taskRunning, connected, failed, wantConnect, needHandshake, needSetup, setupDone,
                   connAge, pc, cmd, remote, lossy>>

Leave ==
    /\ ui = "listening"
    /\ ui' = "stopping" /\ taskRunning' = FALSE
    /\ UNCHANGED <<freq, flags, pc, cmd, remote, lossy>>

\* The task has ended; stop and destroy wait for the client's own task.
Left ==
    /\ ui = "stopping" /\ pc = "off" /\ reporting = "none"
    /\ ui' = "menu" /\ connected' = FALSE
    /\ client' = "none" /\ server' = "none" /\ tuned' = Nothing
    /\ UNCHANGED <<freq, taskRunning, failed, wantConnect, wantRetune, needHandshake, needSetup, setupDone,
                   connAge, pc, cmd, reporting, lossy>>

Sending == {"auth", "arrange", "sendFirst", "send", "tail"}

\* The wait for the task is 3 s, a command takes up to 5 s: the client is then
\* destroyed in the middle of a send.  What follows is undefined; the device
\* restarts at best, and nothing else is modelled.
GiveUpWait ==
    /\ ui = "stopping" /\ pc \in Sending
    /\ ui' = "menu" /\ freq' \in Freqs /\ taskRunning' = FALSE
    /\ connected' = FALSE /\ failed' = FALSE /\ wantConnect' = FALSE /\ wantRetune' = FALSE
    /\ needHandshake' = FALSE /\ needSetup' = FALSE /\ setupDone' = FALSE /\ connAge' = "none"
    /\ pc' = "off" /\ cmd' = Nothing
    /\ client' = "none" /\ reporting' = "none" /\ server' = "none" /\ tuned' = Nothing
    /\ lossy' = FALSE

-----------------------------------------------------------------------------
(* kiwi_background_task: one turn of its loop.                             *)

EndTask ==
    /\ pc = "head" /\ ~taskRunning
    /\ pc' = "off"
    /\ UNCHANGED <<session, flags, cmd, remote, lossy>>

\* do_connect_internal; there is never a client left to destroy.
Connect ==
    /\ pc = "head" /\ taskRunning /\ wantConnect
    /\ wantConnect' = FALSE
    /\ \/ client' = "opening" /\ failed' = FALSE
       \/ client' \in {"none", "down"} /\ failed' = TRUE
    /\ pc' = "greet"
    /\ UNCHANGED <<session, connected, wantRetune, needHandshake, needSetup, setupDone, connAge,
                   cmd, reporting, server, tuned, lossy>>

NoConnect ==
    /\ pc = "head" /\ taskRunning /\ ~wantConnect
    /\ pc' = "greet"
    /\ UNCHANGED <<session, flags, cmd, remote, lossy>>

\* Bug to catch: the setup of an earlier connection still counts.
FreshSetupKept == setupDone' = setupDone /\ needSetup' = FALSE

FreshSetup == setupDone' = FALSE /\ needSetup' = FALSE

\* do_handshake_internal, up to the send.
Greet ==
    /\ pc = "greet" /\ needHandshake
    /\ needHandshake' = FALSE
    /\ IF client = "none" THEN pc' = "setup" /\ UNCHANGED <<setupDone, needSetup, connAge>>
                      ELSE pc' = "auth" /\ FreshSetup /\ connAge' = "fresh"
    /\ UNCHANGED <<session, connected, failed, wantConnect, wantRetune, cmd, remote, lossy>>

NoGreet ==
    /\ pc = "greet" /\ ~needHandshake
    /\ pc' = "setup"
    /\ UNCHANGED <<session, flags, cmd, remote, lossy>>

\* kiwi_send: a command arrives if the client is connected and its lock comes
\* free in time; the failure is only logged.
Sent(s, f) ==
    \/ /\ client = "up"
       /\ server' = s /\ tuned' = f
       /\ UNCHANGED lossy
    \/ /\ lossy' = TRUE
       /\ UNCHANGED <<server, tuned>>

Auth ==
    /\ pc = "auth"
    /\ Sent(IF server = "open" THEN "greeted" ELSE server, tuned)
    /\ pc' = "setup"
    /\ UNCHANGED <<session, flags, cmd, client, reporting>>

SetupIsDue ==
    /\ connected /\ client # "none" /\ ~setupDone /\ ~needHandshake
    /\ needSetup \/ connAge = "old"

Setup ==
    /\ pc = "setup" /\ SetupIsDue
    /\ needSetup' = FALSE /\ setupDone' = TRUE
    /\ pc' = "arrange"
    /\ UNCHANGED <<session, connected, failed, wantConnect, wantRetune, needHandshake, connAge,
                   cmd, remote, lossy>>

NoSetup ==
    /\ pc = "setup" /\ ~SetupIsDue
    /\ pc' = "tune"
    /\ UNCHANGED <<session, flags, cmd, remote, lossy>>

\* send_retune, up to the send: next is where the task is while it sends.
Compose(next, otherwise) ==
    IF connected /\ client # "none" THEN cmd' = freq /\ pc' = next
                                ELSE pc' = otherwise /\ UNCHANGED cmd

\* do_setup_internal up to send_retune.  A server that was not greeted takes
\* no setup.
Arrange ==
    /\ pc = "arrange"
    /\ Sent(IF server = "greeted" THEN "set" ELSE server, tuned)
    /\ Compose("sendFirst", "tune")
    /\ UNCHANGED <<session, flags, client, reporting>>

SendFirst ==
    /\ pc = "sendFirst"
    /\ Sent(server, cmd)
    /\ pc' = "tune" /\ cmd' = Nothing
    /\ UNCHANGED <<session, flags, client, reporting>>

\* The request is cleared before the frequency is read.
Retune ==
    /\ pc = "tune" /\ wantRetune
    /\ wantRetune' = FALSE
    /\ Compose("send", "tail")
    /\ UNCHANGED <<session, connected, failed, wantConnect, needHandshake, needSetup, setupDone,
                   connAge, remote, lossy>>

NoRetune ==
    /\ pc = "tune" /\ ~wantRetune
    /\ pc' = "tail"
    /\ UNCHANGED <<session, flags, cmd, remote, lossy>>

\* Bug to catch: the request is cleared when it has been answered, too.
AnsweredClears == wantRetune' = FALSE

Answered == UNCHANGED wantRetune

Send ==
    /\ pc = "send"
    /\ Sent(server, cmd)
    /\ Answered
    /\ pc' = "tail" /\ cmd' = Nothing
    /\ UNCHANGED <<session, connected, failed, wantConnect, needHandshake, needSetup, setupDone,
                   connAge, client, reporting>>

\* A connection that was lost without an event is noticed here; then the
\* keepalive, which changes nothing.
EndTurn ==
    /\ pc = "tail"
    /\ IF connected /\ client = "down" /\ ~needHandshake
       THEN connected' = FALSE /\ failed' = TRUE
       ELSE UNCHANGED <<connected, failed>>
    /\ pc' = "head"
    /\ UNCHANGED <<session, wantConnect, wantRetune, needHandshake, needSetup, setupDone, connAge,
                   cmd, remote, lossy>>

-----------------------------------------------------------------------------
(* The websocket client's task, its handler, and the server.               *)

WsOpens ==
    /\ client = "opening"
    /\ client' = "up" /\ reporting' = "tell"
    /\ server' = "open" /\ tuned' = Nothing /\ lossy' = FALSE
    /\ UNCHANGED <<session, flags, pc, cmd>>

WsFails ==
    /\ client = "opening"
    /\ client' = "down" /\ reporting' = "error"
    /\ UNCHANGED <<session, flags, pc, cmd, server, tuned, lossy>>

\* A lost connection may come without an event.
WsLost ==
    /\ client = "up" /\ reporting = "none"
    /\ client' = "down" /\ server' = "none"
    /\ reporting' \in {"lost", "error", "none"}
    /\ UNCHANGED <<session, flags, pc, cmd, tuned, lossy>>

\* ws_event_handler sets its two flags one after the other.
Tells ==
    /\ reporting = "tell"
    /\ connected' = TRUE
    /\ reporting' = "ask"
    /\ UNCHANGED <<session, failed, wantConnect, wantRetune, needHandshake, needSetup, setupDone,
                   connAge, pc, cmd, client, server, tuned, lossy>>

Asks ==
    /\ reporting = "ask"
    /\ needHandshake' = TRUE
    /\ reporting' = "none"
    /\ UNCHANGED <<session, connected, failed, wantConnect, wantRetune, needSetup, setupDone,
                   connAge, pc, cmd, client, server, tuned, lossy>>

Reports ==
    /\ reporting \in {"lost", "error"}
    /\ connected' = FALSE
    /\ failed' = (failed \/ reporting = "error")
    /\ reporting' = "none"
    /\ UNCHANGED <<session, wantConnect, wantRetune, needHandshake, needSetup, setupDone,
                   connAge, pc, cmd, client, server, tuned, lossy>>

\* A greeted server announces its audio_rate, or never does.
Announces ==
    /\ client = "up" /\ reporting = "none" /\ server \in {"greeted", "set"}
    /\ needSetup' = TRUE
    /\ UNCHANGED <<session, connected, failed, wantConnect, wantRetune, needHandshake, setupDone,
                   connAge, pc, cmd, remote, lossy>>

\* Six seconds since the greeting.
Ages ==
    /\ connAge = "fresh"
    /\ connAge' = "old"
    /\ UNCHANGED <<session, connected, failed, wantConnect, wantRetune, needHandshake, needSetup,
                   setupDone, pc, cmd, remote, lossy>>

User == StartTask \/ AskConnect \/ Listen \/ Abandon \/ Turn \/ AskRetune \/ Leave \/ Left \/ GiveUpWait

Task == \/ EndTask \/ Connect \/ NoConnect \/ Greet \/ NoGreet \/ Auth \/ Setup \/ NoSetup
        \/ Arrange \/ SendFirst \/ Retune \/ NoRetune \/ Send \/ EndTurn

Handler == Tells \/ Asks \/ Reports

Remote == WsOpens \/ WsFails \/ WsLost \/ Announces \/ Ages

SdrNext == User \/ Task \/ Handler \/ Remote

SdrSpec == SdrInit /\ [][SdrNext]_sdrVars

\* The tasks are scheduled, every send has a timeout, and time passes.
SdrFairness == WF_sdrVars(Task) /\ WF_sdrVars(Handler) /\ WF_sdrVars(Ages)

SdrFairSpec == SdrSpec /\ SdrFairness

-----------------------------------------------------------------------------
(* Properties.                                                             *)

SdrTypeOK ==
    /\ ui \in {"menu", "starting", "waiting", "listening", "turned", "stopping"}
    /\ freq \in Freqs /\ taskRunning \in BOOLEAN
    /\ connected \in BOOLEAN /\ failed \in BOOLEAN
    /\ wantConnect \in BOOLEAN /\ wantRetune \in BOOLEAN
    /\ needHandshake \in BOOLEAN /\ needSetup \in BOOLEAN /\ setupDone \in BOOLEAN
    /\ connAge \in {"none", "fresh", "old"}
    /\ pc \in {"off", "head", "greet", "auth", "setup", "arrange", "sendFirst",
               "tune", "send", "tail"}
    /\ cmd \in Freqs \cup {Nothing} /\ tuned \in Freqs \cup {Nothing}
    /\ client \in {"none", "opening", "up", "down"}
    /\ reporting \in {"none", "tell", "ask", "lost", "error"}
    /\ server \in {"none", "open", "greeted", "set"}
    /\ lossy \in BOOLEAN

\* A server that was set up and that no command failed to reach is tuned to the
\* frequency and mode on the screen as soon as nothing is under way: no turn of
\* the user's is lost, however it falls into a send.
TunedAsShown ==
    server = "set" /\ ~lossy /\ ui = "listening" /\ ~wantRetune
        /\ pc \notin {"sendFirst", "send"}
    => tuned = freq

\* A connection that stays is set up in the end, whatever flags an earlier
\* session has left and whether the server announces its rate or not.
IsSetUp ==
    connected ~> server = "set" \/ lossy \/ ~connected \/ ~taskRunning
=============================================================================

------------------------------- MODULE Router -------------------------------
(***************************************************************************)
(* The router, main/net/router.cpp: an access point that shares the        *)
(* station's uplink.  The menu starts and stops it, the event task hears   *)
(* from the WiFi driver, a timer repeats lost connections, and a task      *)
(* answers the DNS queries of the clients.  None of the variables is       *)
(* guarded by a lock.                                                      *)
(*                                                                         *)
(* The length of the waits, the lists (ACL, log, DNS rules) and the        *)
(* contents of the queries are left out.                                   *)
(***************************************************************************)
EXTENDS Sequences, Naturals

CONSTANT MaxEvents  \* bound of the events that wait for the event task

ASSUME RouterAssumption == MaxEvents \in Nat \ {0}

VARIABLES running,   \* s_running
          stopping,  \* the menu is in the 600 ms of stop_dns_filter
          gotIp,     \* s_sta_got_ip
          napt,      \* s_napt_enabled
          retryOn,   \* s_sta_retry_on
          armed,     \* s_sta_retry_timer is running
          made       \* s_sta_retry_timer has been created
VARIABLES radio,     \* the station's side of the WiFi driver
          shares,    \* NAPT is on in the interface of the access point
          events,    \* what the driver has posted to the event task
          handling   \* what the event task has still to do for an event
VARIABLES dnsRunning,  \* s_dns_running
          dnsHandle,   \* s_dns_task_handle is set
          dns,         \* what dns_filter_task is doing
          deaf,        \* history: a filter task got no socket
          noTask,      \* history: this start got no memory for the task
          clean        \* history: this start found no filter task
VARIABLES cut,       \* history: a call of the chain of retries failed last
          refused    \* history: nothing came of the station's last address

uplink == <<radio, shares, events, handling>>
filter == <<dnsRunning, dnsHandle, dns, deaf, noTask, clean>>
state  == <<running, stopping, gotIp, napt, retryOn, armed, made>>
missed == <<cut, refused>>
vars   == <<state, uplink, filter, missed>>

\* The station may be connected already, or the driver not started.
Init ==
    /\ running = FALSE /\ stopping = FALSE
    /\ gotIp = FALSE /\ napt = FALSE /\ retryOn = FALSE /\ armed = FALSE
    /\ made = FALSE
    /\ radio \in {"off", "idle", "up"} /\ shares = FALSE
    /\ events = <<>> /\ handling = "none"
    /\ dnsRunning = FALSE /\ dnsHandle = FALSE /\ dns = "none"
    /\ deaf = FALSE /\ noTask = FALSE /\ clean = FALSE
    /\ cut = FALSE /\ refused = FALSE

\* esp_wifi_connect, whose result nobody looks at: a call that fails posts no
\* event.  A station that is up is left as it is, or joins once more.
ConnectStation ==
    \/ radio \in {"connecting", "up"} /\ UNCHANGED <<radio, events>>
    \/ /\ radio = "up" /\ Len(events) < MaxEvents
       /\ radio' = "connecting" /\ events' = Append(events, "lost")
    \/ radio \in {"off", "idle"} /\ radio' \in {"idle", "connecting"} /\ UNCHANGED events

-----------------------------------------------------------------------------
(* The menu.                                                               *)

\* Bug to catch: the flag is set before the task that is leaving is seen.
StartDnsRevives ==
    /\ dnsRunning' = TRUE
    /\ IF dnsHandle THEN UNCHANGED <<dnsHandle, dns, noTask>>
                    ELSE dnsHandle' = TRUE /\ dns' = "open" /\ noTask' = FALSE

\* start_dns_filter; nobody looks whether xTaskCreate has made a task.
StartDns ==
    IF dnsHandle THEN UNCHANGED <<dnsRunning, dnsHandle, dns, noTask>>
    ELSE /\ dnsRunning' = TRUE
         /\ noTask' \in BOOLEAN
         /\ dnsHandle' = ~noTask'
         /\ dns' = IF noTask' THEN "none" ELSE "open"

\* k85_router_start.  Nothing in it waits between the connect and the flags.
\* The event task, of a higher priority than the menu, has done with an event
\* before the user has gone from a stop to the next start; those that are
\* still queued may be of the run before.
StartWith(naptAtStart) ==
    /\ ~running /\ ~stopping
    /\ handling = "none"
    /\ running' = TRUE /\ gotIp' = FALSE /\ napt' = naptAtStart
    /\ retryOn' = TRUE /\ armed' = FALSE
    /\ ConnectStation
    /\ cut' = (radio' = "idle") /\ refused' = (radio' = "up")
    /\ StartDns
    /\ clean' = (dns = "none" /\ ~deaf)
    /\ UNCHANGED <<stopping, made, shares, handling, deaf>>

\* Bug to catch: a stop has cleared the flag, so a start need not.
StartKeepsNapt == StartWith(napt)

Start == StartWith(FALSE)

\* k85_router_stop, up to the wait of stop_dns_filter.
Stop ==
    /\ running /\ ~stopping
    /\ Len(events) < MaxEvents
    /\ running' = FALSE /\ gotIp' = FALSE /\ napt' = FALSE
    /\ retryOn' = FALSE /\ armed' = FALSE
    /\ radio' = "off" /\ shares' = FALSE
    /\ events' = IF radio = "idle" THEN events ELSE Append(events, "lost")
    /\ stopping' = dnsHandle
    /\ dnsRunning' = (dnsRunning /\ ~dnsHandle)
    /\ clean' = FALSE
    /\ UNCHANGED <<made, handling, dnsHandle, dns, deaf, noTask, missed>>

Stopped ==
    /\ stopping
    /\ stopping' = FALSE
    /\ UNCHANGED <<running, gotIp, napt, retryOn, armed, made, uplink, filter, missed>>

-----------------------------------------------------------------------------
(* The driver and the timer.                                               *)

Joins ==
    /\ radio = "connecting" /\ Len(events) < MaxEvents
    /\ radio' = "up"
    /\ events' = Append(events, "gotip")
    /\ UNCHANGED <<state, shares, handling, filter, missed>>

\* A connection that fails or is lost.
Loses ==
    /\ radio \in {"connecting", "up"} /\ Len(events) < MaxEvents
    /\ radio' = "idle"
    /\ events' = Append(events, "lost")
    /\ UNCHANGED <<state, shares, handling, filter, missed>>

\* sta_retry_cb
Retry ==
    /\ armed
    /\ armed' = FALSE
    /\ IF retryOn THEN ConnectStation /\ cut' = (radio' = "idle")
                  ELSE UNCHANGED <<radio, events, cut>>
    /\ UNCHANGED <<running, stopping, gotIp, napt, retryOn, made, shares,
                   handling, filter, refused>>

-----------------------------------------------------------------------------
(* The event task: wifi_event_handler.                                     *)

\* Bug to catch: the address is shared when it is the first one only.
GotIpOnce ==
    /\ handling = "none" /\ events # <<>> /\ Head(events) = "gotip"
    /\ events' = Tail(events)
    /\ gotIp' = TRUE
    /\ handling' = IF retryOn /\ ~armed THEN "napt" ELSE "none"
    /\ UNCHANGED <<running, stopping, napt, retryOn, armed, made,
                   radio, shares, filter, missed>>

GotIp ==
    /\ handling = "none" /\ events # <<>> /\ Head(events) = "gotip"
    /\ events' = Tail(events)
    /\ gotIp' = TRUE
    /\ handling' = IF retryOn THEN "napt" ELSE "none"
    /\ UNCHANGED <<running, stopping, napt, retryOn, armed, made,
                   radio, shares, filter, missed>>

\* try_enable_napt, up to the end of the call, which may fail.  With the access
\* point gone it has no effect, whatever it returns.
TryEnableNapt ==
    /\ handling = "napt"
    /\ \/ ~napt /\ gotIp /\ shares' = running /\ handling' = "shared" /\ refused' = FALSE
       \/ ~napt /\ gotIp /\ UNCHANGED shares /\ handling' = "none" /\ refused' = TRUE
       \/ (napt \/ ~gotIp) /\ UNCHANGED <<shares, refused>> /\ handling' = "none"
    /\ UNCHANGED <<state, radio, events, filter, cut>>

\* The rest of it.  A stop may have come in between.
NaptEnabled ==
    /\ handling = "shared"
    /\ napt' = TRUE
    /\ handling' = "none"
    /\ UNCHANGED <<running, stopping, gotIp, retryOn, armed, made,
                   radio, shares, events, filter, missed>>

\* Bug to catch: only a connection that had an address is repeated.
LostRetriesOnce ==
    /\ handling = "none" /\ events # <<>> /\ Head(events) = "lost"
    /\ events' = Tail(events)
    /\ gotIp' = FALSE
    /\ handling' = IF retryOn /\ gotIp THEN "arm" ELSE "none"
    /\ UNCHANGED <<running, stopping, napt, retryOn, armed, made,
                   radio, shares, filter, missed>>

Lost ==
    /\ handling = "none" /\ events # <<>> /\ Head(events) = "lost"
    /\ events' = Tail(events)
    /\ gotIp' = FALSE
    /\ handling' = IF retryOn THEN "arm" ELSE "none"
    /\ UNCHANGED <<running, stopping, napt, retryOn, armed, made,
                   radio, shares, filter, missed>>

\* k85_sta_retry_schedule, after it has looked at the flag.  Without a timer
\* it does nothing; the next loss tries to make one again.
Arm ==
    /\ handling = "arm"
    /\ made' \in {made, TRUE}
    /\ armed' = made' /\ cut' = ~made'
    /\ handling' = "none"
    /\ UNCHANGED <<running, stopping, gotIp, napt, retryOn,
                   radio, shares, events, filter, refused>>

EventTask == GotIp \/ TryEnableNapt \/ NaptEnabled \/ Lost \/ Arm

-----------------------------------------------------------------------------
(* The DNS filter task.                                                    *)

\* Without a socket the task ends and leaves its handle behind.
DnsOpen ==
    /\ dns = "open"
    /\ \/ dns' = "listening" /\ UNCHANGED deaf
       \/ dns' = "none" /\ deaf' = TRUE
    /\ UNCHANGED <<state, uplink, missed, dnsRunning, dnsHandle, noTask, clean>>

\* A query that is not blocked is passed on, and its answer waited for.
DnsForward ==
    /\ dns = "listening" /\ dnsRunning
    /\ dns' = "forwarding"
    /\ UNCHANGED <<state, uplink, missed, dnsRunning, dnsHandle, deaf, noTask, clean>>

DnsAnswered ==
    /\ dns = "forwarding"
    /\ dns' = "listening"
    /\ UNCHANGED <<state, uplink, missed, dnsRunning, dnsHandle, deaf, noTask, clean>>

DnsLeave ==
    /\ dns = "listening" /\ ~dnsRunning
    /\ dns' = "none" /\ dnsHandle' = FALSE
    /\ UNCHANGED <<state, uplink, missed, dnsRunning, deaf, noTask, clean>>

DnsTask == DnsOpen \/ DnsForward \/ DnsAnswered \/ DnsLeave

-----------------------------------------------------------------------------
Next ==
    \/ Start \/ Stop \/ Stopped
    \/ Joins \/ Loses \/ Retry
    \/ EventTask
    \/ DnsTask

Spec == Init /\ [][Next]_vars

\* The tasks are scheduled, a timer fires, and the filter waits for an answer
\* two seconds at most.  The driver may take its time, the user may do nothing.
Fairness ==
    /\ WF_vars(EventTask) /\ WF_vars(Retry)
    /\ WF_vars(DnsOpen \/ DnsAnswered \/ DnsLeave)

FairSpec == Spec /\ Fairness

-----------------------------------------------------------------------------
(* Properties.                                                             *)

TypeOK ==
    /\ {running, stopping, gotIp, napt, retryOn, armed, made} \subseteq BOOLEAN
    /\ radio \in {"off", "idle", "connecting", "up"}
    /\ events \in Seq({"gotip", "lost"}) /\ Len(events) <= MaxEvents
    /\ handling \in {"none", "napt", "shared", "arm"}
    /\ {shares, dnsRunning, dnsHandle, deaf, noTask, clean, cut, refused} \subseteq BOOLEAN
    /\ dns \in {"none", "open", "listening", "forwarding"}

\* A running router that takes NAPT for enabled has it enabled, whatever events
\* of the run before come late: else it would never enable it again.
NaptIsReal == napt /\ running => shares

\* A router that was started when no filter of an earlier one was left has a
\* filter, as long as its task and its socket could be made.
FilterRuns == running /\ clean /\ ~deaf /\ ~noTask => dnsRunning /\ dns # "none"

\* A filter that is to stop leaves in the end: no later start revives it.
FilterLeaves == ~dnsRunning ~> dns = "none"

\* A lost uplink is tried again for as long as the router is on, unless a call
\* fails on which the next try hangs: the making of the timer (router.cpp:90),
\* or a connect that posts no event (router.cpp:83, 179).
UplinkRetried ==
    running /\ radio = "idle" /\ ~cut ~> radio # "idle" \/ ~running \/ cut

\* An uplink that stays is shared, unless NAPT was refused to its last address
\* (router.cpp:74) or it was there at the start and brings no new one.
UplinkShared == <>[](running /\ radio = "up" /\ ~refused) => <>[]shares
=============================================================================

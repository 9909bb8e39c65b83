-------------------------------- MODULE Wifi --------------------------------
(***************************************************************************)
(* The station's connection, main/net/wifi.cpp: the UI task initialises,   *)
(* connects, disconnects and stops; the driver does what it is told and    *)
(* posts events; the event task tells the UI of them by a flag, which the  *)
(* whole system reads, and by two bits of an event group, for which        *)
(* wifi_do_connect waits.                                                  *)
(*                                                                         *)
(* A driver call takes effect at once, and its events come later.  The     *)
(* scan, the address and the access point are left out.                    *)
(***************************************************************************)
EXTENDS Naturals, Sequences

CONSTANTS Nets,      \* the networks the user can choose
          NoNet,     \* none of them: no network is configured
          MaxPosted  \* bound of the events that wait for the event task

VARIABLES inited,      \* s_inited, and the handlers are registered
          isConnected, \* s_connected
          gotBit,      \* WIFI_CONNECTED_BIT
          failBit,     \* WIFI_FAIL_BIT
          call,        \* where wifi_do_connect is
          asked        \* the network it was asked for
VARIABLES driver,      \* not initialised, stopped or started
          config,      \* the network the driver is configured for
          link,        \* the station's link
          posted       \* what the driver has posted
VARIABLES joined,      \* history: the network of this call has given an address
          early        \* history: an address of before the call came during it

wifiFlags == <<isConnected, gotBit, failBit>>
station   == <<driver, config, link, posted>>
past      == <<joined, early>>
wifiVars  == <<inited, wifiFlags, call, asked, station, past>>

Event(kind) == [kind |-> kind, net |-> config]

WifiInit ==
    /\ inited = FALSE /\ isConnected = FALSE /\ gotBit = FALSE /\ failBit = FALSE
    /\ call = "idle" /\ asked = NoNet
    /\ driver = "off" /\ config \in Nets \cup {NoNet} /\ link = "idle" /\ posted = <<>>
    /\ joined = FALSE /\ early = FALSE

Room == Len(posted) + 1 < MaxPosted

\* What the driver posts when the station's link is taken down by a call.
Leaving == IF link = "idle" THEN posted ELSE Append(posted, Event("own"))

-----------------------------------------------------------------------------
(* The calls.                                                              *)

\* k85_wifi_init.  The event task, of a higher priority, has done with the
\* events of before a stop when the driver's initialisation has ended.
InitWifi ==
    /\ ~inited /\ call = "idle" /\ posted = <<>>
    /\ inited' = TRUE
    /\ driver' = "started" /\ posted' = <<Event("start")>>
    /\ UNCHANGED <<wifiFlags, call, asked, config, link, past>>

\* Bug to catch: the bits are left from the call before.
KeepBits == UNCHANGED <<gotBit, failBit>>

ClearBits == gotBit' = FALSE /\ failBit' = FALSE

\* wifi_do_connect up to the clearing of the bits.
Ask(n) ==
    /\ inited /\ call = "idle"
    /\ call' = "cleared" /\ asked' = n
    /\ ClearBits
    /\ joined' = FALSE /\ early' = FALSE
    /\ UNCHANGED <<inited, isConnected, station>>

\* Its driver calls.  A driver that was stopped elsewhere is started, with an
\* event that connects once more.
Join ==
    /\ call = "cleared" /\ Room
    /\ call' = "waiting"
    /\ config' = asked /\ link' = "joining" /\ driver' = "started"
    /\ posted' = IF driver = "started" THEN Leaving
                                       ELSE Append(posted, [kind |-> "start", net |-> asked])
    /\ early' = (early \/ \E i \in DOMAIN posted : posted[i].kind = "gotip")
    /\ UNCHANGED <<inited, wifiFlags, asked, joined>>

\* It returns whether WIFI_CONNECTED_BIT is set, when a bit is or after 20 s.
Return ==
    /\ call = "waiting"
    /\ call' = "idle" /\ asked' = NoNet
    /\ UNCHANGED <<inited, wifiFlags, station, past>>

\* k85_wifi_disconnect, which does not look whether the driver is there.
Disconnect ==
    /\ call = "idle" /\ Room
    /\ isConnected' = FALSE
    /\ link' = "idle" /\ posted' = Leaving
    /\ UNCHANGED <<inited, gotBit, failBit, call, asked, driver, config, past>>

\* k85_wifi_stop.  What was posted finds no handler any more.
StopWifi ==
    /\ inited /\ call = "idle"
    /\ inited' = FALSE
    /\ isConnected' = FALSE
    /\ driver' = "off" /\ link' = "idle" /\ posted' = <<>>
    /\ UNCHANGED <<gotBit, failBit, call, asked, config, past>>

-----------------------------------------------------------------------------
(* The event task.                                                         *)

Handle(kind) ==
    /\ posted # <<>> /\ Head(posted).kind = kind
    /\ posted' = Tail(posted)

\* A driver that starts connects when it has a network.
OnStart ==
    /\ Handle("start")
    /\ link' = IF link = "idle" /\ config # NoNet /\ driver = "started" THEN "joining" ELSE link
    /\ UNCHANGED <<inited, wifiFlags, call, asked, driver, config, past>>

OnGotIp ==
    /\ Handle("gotip")
    /\ isConnected' = TRUE /\ gotBit' = TRUE
    /\ joined' = (joined \/ (call = "waiting" /\ Head(posted).net = asked))
    /\ early' = (early \/ call = "cleared")
    /\ UNCHANGED <<inited, failBit, call, asked, driver, config, link>>

\* Bug to catch: a disconnection of our own is not handled at all.
IgnoreOwn(own) == IF own THEN UNCHANGED <<isConnected, failBit>>
                         ELSE isConnected' = FALSE /\ failBit' = TRUE

\* One of our own is no failure of the connection.
Lose(own) == isConnected' = FALSE /\ failBit' = (failBit \/ ~own)

OnLost ==
    /\ \/ Handle("lost") /\ Lose(FALSE)
       \/ Handle("own") /\ Lose(TRUE)
    /\ UNCHANGED <<inited, gotBit, call, asked, driver, config, link, past>>

-----------------------------------------------------------------------------
(* The driver, and its other users.                                        *)

\* The address is given and posted while the link is up.
StationJoins ==
    /\ link = "joining" /\ Room
    /\ link' = "up"
    /\ posted' = Append(posted, Event("gotip"))
    /\ UNCHANGED <<inited, wifiFlags, call, asked, driver, config, past>>

\* An attempt fails, or the link is lost.
StationLoses ==
    /\ link # "idle" /\ Room
    /\ link' = "idle"
    /\ posted' = Append(posted, Event("lost"))
    /\ UNCHANGED <<inited, wifiFlags, call, asked, driver, config, past>>

\* The router stops the driver, the hotspot takes the station away.
StoppedElsewhere ==
    /\ driver = "started" /\ call = "idle" /\ Room
    /\ driver' = "stopped" /\ link' = "idle" /\ posted' = Leaving
    /\ UNCHANGED <<inited, wifiFlags, call, asked, config, past>>

\* They start it; the router connects, at once and again after a loss.
StartedElsewhere ==
    /\ inited /\ call = "idle" /\ Room
    /\ driver' = "started"
    /\ \/ driver = "stopped" /\ posted' = Append(posted, Event("start")) /\ UNCHANGED link
       \/ driver = "started" /\ link = "idle" /\ config # NoNet /\ link' = "joining"
          /\ UNCHANGED posted
    /\ UNCHANGED <<inited, wifiFlags, call, asked, config, past>>

WifiEventTask == OnStart \/ OnGotIp \/ OnLost

WifiNext ==
    \/ InitWifi \/ Join \/ Return \/ Disconnect \/ StopWifi
    \/ \E n \in Nets : Ask(n)
    \/ WifiEventTask
    \/ StationJoins \/ StationLoses \/ StoppedElsewhere \/ StartedElsewhere

WifiSpec == WifiInit /\ [][WifiNext]_wifiVars

-----------------------------------------------------------------------------
(* Properties.                                                             *)

AnyNet == Nets \cup {NoNet}

WifiTypeOK ==
    /\ inited \in BOOLEAN /\ isConnected \in BOOLEAN
    /\ gotBit \in BOOLEAN /\ failBit \in BOOLEAN
    /\ call \in {"idle", "cleared", "waiting"} /\ asked \in AnyNet
    /\ driver \in {"off", "stopped", "started"} /\ config \in AnyNet
    /\ link \in {"idle", "joining", "up"}
    /\ posted \in Seq([kind : {"start", "gotip", "lost", "own"}, net : AnyNet])
    /\ joined \in BOOLEAN /\ early \in BOOLEAN

\* When the driver's events have been handled, the flag that the status bar,
\* the services and the tools read says exactly whether there is a link.
LinkIsKnown == posted = <<>> => (isConnected <=> link = "up")

\* A connect that returns true has joined the network it was asked for, not one
\* of before; the address of an attempt that was still running when the bits
\* were cleared is the exception.
TrueMeansJoined == [][Return /\ gotBit => joined \/ early]_wifiVars
=============================================================================

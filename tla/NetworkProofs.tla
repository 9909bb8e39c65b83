---------------------------- MODULE NetworkProofs -----------------------------
(* Proofs about Router and Wifi, for any networks and any number of events   *)
(* that wait.  Router: its types, that the flag of internet sharing tells    *)
(* the truth, and that a router started without a filter of an earlier run   *)
(* has one.  Wifi: its types, that the flag of the station tells the truth   *)
(* once all events are handled, and that a connect returns true of the       *)
(* network it was asked for.                                                 *)
EXTENDS Router, Wifi, TLAPS

\* The event task is between the enabling of NAPT and the flag.
SharedInFlight == handling = "shared" /\ running => shares

\* A handle without a task is that of a task which got no socket.
HandleOfTask == dnsHandle => dns # "none" \/ deaf

IInv == NaptIsReal /\ SharedInFlight /\ HandleOfTask /\ FilterRuns

-----------------------------------------------------------------------------
LEMMA Queued ==
  ASSUME events \in Seq({"gotip", "lost"}), Len(events) <= MaxEvents
  PROVE  /\ events # <<>> => /\ Tail(events) \in Seq({"gotip", "lost"})
                             /\ Len(Tail(events)) <= MaxEvents
         /\ Len(events) < MaxEvents =>
              \A e \in {"gotip", "lost"} :
                 /\ Append(events, e) \in Seq({"gotip", "lost"})
                 /\ Len(Append(events, e)) <= MaxEvents
<1> USE RouterAssumption DEF RouterAssumption
<1>1. ASSUME events # <<>>
      PROVE  /\ Tail(events) \in Seq({"gotip", "lost"})
             /\ Len(Tail(events)) <= MaxEvents
  <2>1. Len(events) \in Nat /\ Len(Tail(events)) = Len(events) - 1
    BY <1>1
  <2> QED BY <1>1, <2>1
<1>2. ASSUME Len(events) < MaxEvents, NEW e \in {"gotip", "lost"}
      PROVE  /\ Append(events, e) \in Seq({"gotip", "lost"})
             /\ Len(Append(events, e)) <= MaxEvents
  BY <1>2
<1> QED BY <1>1, <1>2

LEMMA TypeInit == Init => TypeOK
<1> SUFFICES ASSUME Init PROVE TypeOK
  OBVIOUS
<1>1. events \in Seq({"gotip", "lost"}) /\ Len(events) = 0
  BY DEF Init
<1>2. Len(events) <= MaxEvents
  BY <1>1, RouterAssumption DEF RouterAssumption
<1> QED BY <1>1, <1>2 DEF Init, TypeOK

LEMMA TypeStep == TypeOK /\ [Next]_vars => TypeOK'
<1> SUFFICES ASSUME TypeOK, [Next]_vars PROVE TypeOK'
  OBVIOUS
<1> USE Queued DEF TypeOK, state, uplink, filter, missed
<1>1. CASE Start
  BY <1>1 DEF Start, StartWith, StartDns, ConnectStation
<1>2. CASE Stop
  BY <1>2 DEF Stop
<1>3. CASE Stopped
  BY <1>3 DEF Stopped
<1>4. CASE Joins \/ Loses
  BY <1>4 DEF Joins, Loses
<1>5. CASE Retry
  BY <1>5 DEF Retry, ConnectStation
<1>6. CASE GotIp \/ Lost
  BY <1>6 DEF GotIp, Lost
<1>7. CASE TryEnableNapt
  BY <1>7 DEF TryEnableNapt
<1>8. CASE NaptEnabled \/ Arm
  BY <1>8 DEF NaptEnabled, Arm
<1>9. CASE DnsTask
  BY <1>9 DEF DnsTask, DnsOpen, DnsForward, DnsAnswered, DnsLeave
<1>10. CASE UNCHANGED vars
  BY <1>10 DEF vars
<1> QED
  BY <1>1, <1>2, <1>3, <1>4, <1>5, <1>6, <1>7, <1>8, <1>9, <1>10 DEF Next, EventTask

\* The type invariant.
THEOREM TypeCorrect == Spec => []TypeOK
<1> QED BY TypeInit, TypeStep, PTL DEF Spec

-----------------------------------------------------------------------------
LEMMA IStep == TypeOK /\ IInv /\ [Next]_vars => IInv'
<1> SUFFICES ASSUME TypeOK, IInv, [Next]_vars PROVE IInv'
  OBVIOUS
<1> USE DEF IInv, NaptIsReal, SharedInFlight, HandleOfTask, FilterRuns
<1> USE DEF TypeOK, state, uplink, filter, missed
<1>1. CASE Start
  <2>1. NaptIsReal' /\ SharedInFlight'
    BY <1>1 DEF Start, StartWith
  <2>2. HandleOfTask'
    BY <1>1 DEF Start, StartWith, StartDns
  <2>3. FilterRuns'
    <3>1. clean' => ~dnsHandle
      BY <1>1 DEF Start, StartWith
    <3> QED BY <1>1, <3>1 DEF Start, StartWith, StartDns
  <2> QED BY <2>1, <2>2, <2>3
<1>2. CASE Stop
  BY <1>2 DEF Stop
<1>3. CASE Stopped
  BY <1>3 DEF Stopped
<1>4. CASE Joins \/ Loses \/ Retry
  BY <1>4 DEF Joins, Loses, Retry, ConnectStation
<1>5. CASE GotIp \/ Lost
  BY <1>5 DEF GotIp, Lost
<1>12. CASE Arm
  BY <1>12 DEF Arm
<1>6. CASE TryEnableNapt
  <2>1. NaptIsReal'
    BY <1>6 DEF TryEnableNapt
  <2>2. SharedInFlight'
    BY <1>6 DEF TryEnableNapt
  <2> QED BY <1>6, <2>1, <2>2 DEF TryEnableNapt
<1>7. CASE NaptEnabled
  BY <1>7 DEF NaptEnabled
<1>8. CASE DnsOpen
  BY <1>8 DEF DnsOpen
<1>9. CASE DnsForward \/ DnsAnswered
  BY <1>9 DEF DnsForward, DnsAnswered
<1>10. CASE DnsLeave
  BY <1>10 DEF DnsLeave
<1>11. CASE UNCHANGED vars
  BY <1>11 DEF vars
<1> QED
  BY <1>1, <1>2, <1>3, <1>4, <1>5, <1>6, <1>7, <1>8, <1>9, <1>10, <1>11, <1>12
  DEF Next, EventTask, DnsTask

LEMMA RouterInv == Spec => []IInv
<1>1. Init => IInv
  BY DEF Init, IInv, NaptIsReal, SharedInFlight, HandleOfTask, FilterRuns
<1> QED BY <1>1, TypeInit, TypeStep, IStep, PTL DEF Spec

\* A running router never takes NAPT for enabled when it is not, whatever
\* events of an earlier run come late.
THEOREM SharingIsReal == Spec => []NaptIsReal
<1> QED BY RouterInv, PTL DEF IInv

\* A router that was started when no filter of an earlier one was left has a
\* filter, as long as its task and its socket could be made.
THEOREM FilterIsThere == Spec => []FilterRuns
<1> QED BY RouterInv, PTL DEF IInv
-----------------------------------------------------------------------------
(* The station's connection.                                               *)

Events == [kind : {"start", "gotip", "lost", "own"}, net : AnyNet]

\* Only the start of the driver says nothing of the link.
Tells(e) == e.kind # "start"

\* The last event that tells of the link tells how it is; with none waiting
\* the flag does.
LastTells ==
    \A i \in 1 .. Len(posted) :
        Tells(posted[i]) /\ (\A j \in i + 1 .. Len(posted) : ~Tells(posted[j]))
        => (posted[i].kind = "gotip" <=> link = "up")

FlagTells ==
    (\A i \in 1 .. Len(posted) : ~Tells(posted[i])) => (isConnected <=> link = "up")

StoppedHasNoLink == driver # "started" => link = "idle"

LinkInv == LastTells /\ FlagTells /\ StoppedHasNoLink

\* While a call waits, an address that was posted is one of the network it was
\* asked for, if none of before was waiting when it began.
AddressIsOfCall ==
    call = "waiting" =>
        /\ config = asked
        /\ early \/ \A i \in 1 .. Len(posted) :
                        posted[i].kind = "gotip" => posted[i].net = asked

BitIsExplained == call # "idle" /\ gotBit => joined \/ early

CallInv == AddressIsOfCall /\ BitIsExplained

\* An event is taken from the front or added at the end.
LEMMA Dequeued ==
  ASSUME NEW S, NEW s \in Seq(S), s # <<>>
  PROVE  /\ Tail(s) \in Seq(S) /\ Len(Tail(s)) = Len(s) - 1
         /\ Head(s) = s[1] /\ Len(s) \in Nat \ {0}
         /\ \A i \in 1 .. Len(Tail(s)) : Tail(s)[i] = s[i + 1]
<1> QED OBVIOUS

LEMMA Enqueued ==
  ASSUME NEW S, NEW s \in Seq(S), NEW e \in S
  PROVE  /\ Append(s, e) \in Seq(S) /\ Len(Append(s, e)) = Len(s) + 1
         /\ Append(s, e)[Len(s) + 1] = e /\ Len(s) \in Nat
         /\ \A i \in 1 .. Len(s) : Append(s, e)[i] = s[i]
<1> QED OBVIOUS

LEMMA WifiTypeInit == WifiInit => WifiTypeOK
<1> SUFFICES ASSUME WifiInit PROVE WifiTypeOK
  OBVIOUS
<1>1. posted \in Seq([kind : {"start", "gotip", "lost", "own"}, net : AnyNet])
  BY DEF WifiInit
<1> QED BY <1>1 DEF WifiInit, WifiTypeOK, AnyNet

LEMMA WifiTypeStep == WifiTypeOK /\ [WifiNext]_wifiVars => WifiTypeOK'
<1> SUFFICES ASSUME WifiTypeOK, [WifiNext]_wifiVars PROVE WifiTypeOK'
  OBVIOUS
<1> USE DEF WifiTypeOK, wifiFlags, station, past
<1>1. \A k \in {"start", "gotip", "lost", "own"} : Event(k) \in Events
  BY DEF Event, Events
<1>2. posted \in Seq(Events)
  BY DEF Events
<1>3. \A e \in Events : Append(posted, e) \in Seq(Events)
  BY <1>2, Enqueued
<1>4. Leaving \in Seq(Events)
  BY <1>1, <1>2, <1>3 DEF Leaving
<1>5. posted # <<>> => Tail(posted) \in Seq(Events)
  BY <1>2, Dequeued
<1>6. \A n \in AnyNet : [kind |-> "start", net |-> n] \in Events
  BY DEF Events
<1>7. CASE InitWifi
  <2>1. <<Event("start")>> \in Seq(Events)
    BY <1>1
  <2> QED BY <1>7, <2>1 DEF InitWifi, Events
<1>8. ASSUME NEW n \in Nets, Ask(n) PROVE WifiTypeOK'
  BY <1>8 DEF Ask, ClearBits, AnyNet
<1>9. CASE Join
  BY <1>9, <1>3, <1>4, <1>6 DEF Join, Events
<1>10. CASE Return
  BY <1>10 DEF Return, AnyNet
<1>11. CASE Disconnect \/ StoppedElsewhere
  BY <1>11, <1>4 DEF Disconnect, StoppedElsewhere, Events
<1>12. CASE StopWifi
  <2>1. posted' \in Seq(Events)
    BY <1>12 DEF StopWifi
  <2> QED BY <1>12, <2>1 DEF StopWifi, Events
<1>13. CASE WifiEventTask
  <2>1. posted' \in Seq(Events)
    BY <1>13, <1>5 DEF WifiEventTask, OnStart, OnGotIp, OnLost, Handle
  <2>2. CASE OnStart
    BY <2>1, <2>2 DEF OnStart, Events
  <2>3. CASE OnGotIp
    BY <2>1, <2>3 DEF OnGotIp, Events
  <2>4. CASE OnLost
    BY <2>1, <2>4 DEF OnLost, Lose, Events
  <2> QED BY <1>13, <2>2, <2>3, <2>4 DEF WifiEventTask
<1>14. CASE StationJoins \/ StationLoses
  BY <1>14, <1>1, <1>3 DEF StationJoins, StationLoses, Events
<1>15. CASE StartedElsewhere
  BY <1>15, <1>1, <1>2, <1>3 DEF StartedElsewhere, Events
<1>16. CASE UNCHANGED wifiVars
  BY <1>16 DEF wifiVars
<1> QED
  BY <1>7, <1>8, <1>9, <1>10, <1>11, <1>12, <1>13, <1>14, <1>15, <1>16 DEF WifiNext

\* The types of the station's connection.
THEOREM WifiTypeCorrect == WifiSpec => []WifiTypeOK
<1> QED BY WifiTypeInit, WifiTypeStep, PTL DEF WifiSpec

-----------------------------------------------------------------------------
\* A queue that grows by an event that tells, ends in it ...
LEMMA TellingEnqueued ==
  ASSUME WifiTypeOK, NEW e \in Events, Tells(e), posted' = Append(posted, e),
         e.kind = "gotip" <=> link' = "up"
  PROVE  LastTells' /\ FlagTells'
<1>1. posted \in Seq(Events)
  BY DEF WifiTypeOK, Events
<1>2. /\ Len(posted') = Len(posted) + 1 /\ posted'[Len(posted) + 1] = e
      /\ Len(posted) \in Nat
  BY <1>1, Enqueued
<1>3. Tells(posted'[Len(posted')])
  BY <1>2
<1>4. FlagTells'
  BY <1>2, <1>3 DEF FlagTells, Tells
<1>5. LastTells'
  <2> SUFFICES ASSUME NEW i \in 1 .. Len(posted'),
                      \A j \in i + 1 .. Len(posted') : ~Tells(posted'[j])
               PROVE  posted'[i].kind = "gotip" <=> link' = "up"
    BY DEF LastTells, Tells
  <2>1. i = Len(posted')
    BY <1>2, <1>3
  <2> QED BY <1>2, <2>1
<1> QED BY <1>4, <1>5

\* ... by one that does not, says what it said before.
LEMMA SilentEnqueued ==
  ASSUME WifiTypeOK, LastTells, FlagTells,
         NEW e \in Events, ~Tells(e), posted' = Append(posted, e),
         isConnected' = isConnected, link' = "up" <=> link = "up"
  PROVE  LastTells' /\ FlagTells'
<1>1. posted \in Seq(Events)
  BY DEF WifiTypeOK, Events
<1>2. /\ Len(posted') = Len(posted) + 1 /\ posted'[Len(posted) + 1] = e
      /\ Len(posted) \in Nat
      /\ \A i \in 1 .. Len(posted) : posted'[i] = posted[i]
  BY <1>1, Enqueued
<1>3. FlagTells'
  BY <1>2 DEF FlagTells, Tells
<1>4. LastTells'
  <2> SUFFICES ASSUME NEW i \in 1 .. Len(posted'), Tells(posted'[i]),
                      \A j \in i + 1 .. Len(posted') : ~Tells(posted'[j])
               PROVE  posted'[i].kind = "gotip" <=> link' = "up"
    BY DEF LastTells, Tells
  <2>1. i \in 1 .. Len(posted)
    BY <1>2
  <2>2. \A j \in i + 1 .. Len(posted) : ~Tells(posted[j])
    BY <1>2, <2>1 DEF Tells
  <2> QED BY <1>2, <2>1, <2>2 DEF LastTells, Tells
<1> QED BY <1>3, <1>4

\* What a call posts when it takes the link down, whatever it then does.
LEMMA LeavingTells ==
  ASSUME WifiTypeOK, LastTells, FlagTells, posted' = Leaving, link' # "up",
         isConnected' \in {isConnected, FALSE}
  PROVE  LastTells' /\ FlagTells'
<1>1. CASE link = "idle"
  <2>1. posted' = posted
    BY <1>1 DEF Leaving
  <2>2. LastTells'
    BY <1>1, <2>1 DEF LastTells, Tells
  <2>3. FlagTells'
    BY <1>1, <2>1 DEF FlagTells, Tells
  <2> QED BY <2>2, <2>3
<1>2. CASE link # "idle"
  <2>1. Event("own") \in Events /\ Tells(Event("own")) /\ Event("own").kind # "gotip"
    BY DEF Event, Events, Tells, WifiTypeOK
  <2>2. posted' = Append(posted, Event("own"))
    BY <1>2 DEF Leaving
  <2> QED BY <2>1, <2>2, TellingEnqueued
<1> QED BY <1>1, <1>2

\* A queue that loses its head still ends in the same event, or that one was it.
LEMMA HeadHandled ==
  ASSUME WifiTypeOK, LastTells, FlagTells,
         posted # <<>>, posted' = Tail(posted), link' = "up" <=> link = "up",
         IF Tells(Head(posted)) THEN isConnected' <=> Head(posted).kind = "gotip"
                                ELSE isConnected' = isConnected
  PROVE  LastTells' /\ FlagTells'
<1>1. posted \in Seq(Events)
  BY DEF WifiTypeOK, Events
<1>2. /\ Len(posted') = Len(posted) - 1 /\ Head(posted) = posted[1]
      /\ Len(posted) \in Nat \ {0}
      /\ \A i \in 1 .. Len(posted') : posted'[i] = posted[i + 1]
  BY <1>1, Dequeued
<1>3. LastTells'
  <2> SUFFICES ASSUME NEW i \in 1 .. Len(posted'), Tells(posted'[i]),
                      \A j \in i + 1 .. Len(posted') : ~Tells(posted'[j])
               PROVE  posted'[i].kind = "gotip" <=> link' = "up"
    BY DEF LastTells, Tells
  <2>1. i + 1 \in 1 .. Len(posted) /\ posted'[i] = posted[i + 1]
    BY <1>2
  <2>2. ASSUME NEW j \in (i + 1) + 1 .. Len(posted) PROVE ~Tells(posted[j])
    <3>1. j - 1 \in i + 1 .. Len(posted') /\ posted'[j - 1] = posted[j]
      BY <1>2
    <3> QED BY <3>1 DEF Tells
  <2> QED BY <2>1, <2>2 DEF LastTells, Tells
<1>4. FlagTells'
  <2> SUFFICES ASSUME \A i \in 1 .. Len(posted') : ~Tells(posted'[i])
               PROVE  isConnected' <=> link' = "up"
    BY DEF FlagTells, Tells
  <2>1. ASSUME NEW j \in 2 .. Len(posted) PROVE ~Tells(posted[j])
    <3>1. j - 1 \in 1 .. Len(posted') /\ posted'[j - 1] = posted[j]
      BY <1>2
    <3> QED BY <3>1 DEF Tells
  <2>2. CASE Tells(posted[1])
    <3>1. posted[1].kind = "gotip" <=> link = "up"
      BY <1>2, <2>1, <2>2 DEF LastTells, Tells
    <3> QED BY <1>2, <2>2, <3>1
  <2>3. CASE ~Tells(posted[1])
    <3>1. \A j \in 1 .. Len(posted) : ~Tells(posted[j])
      BY <1>2, <2>1, <2>3
    <3> QED BY <1>2, <2>3, <3>1 DEF FlagTells, Tells
  <2> QED BY <2>2, <2>3
<1> QED BY <1>3, <1>4

LEMMA LinkStep == WifiTypeOK /\ LinkInv /\ [WifiNext]_wifiVars => LinkInv'
<1> SUFFICES ASSUME WifiTypeOK, LinkInv, [WifiNext]_wifiVars PROVE LinkInv'
  OBVIOUS
<1> USE DEF LinkInv, wifiFlags, station
<1>1. \A k \in {"start", "gotip", "lost", "own"} :
         Event(k) \in Events /\ Event(k).kind = k
  BY DEF Event, Events, WifiTypeOK
<1>2. CASE InitWifi
  <2>1. posted = <<>> /\ posted' = Append(posted, Event("start"))
        /\ ~Tells(Event("start"))
    BY <1>1, <1>2 DEF InitWifi, Tells
  <2>2. LastTells' /\ FlagTells'
    BY <1>1, <1>2, <2>1, SilentEnqueued DEF InitWifi
  <2> QED BY <1>2, <2>2 DEF InitWifi, StoppedHasNoLink
<1>3. ASSUME NEW n \in Nets, Ask(n) PROVE LinkInv'
  BY <1>3 DEF Ask, LastTells, FlagTells, StoppedHasNoLink, Tells
<1>4. CASE Join
  <2>1. StoppedHasNoLink' /\ link' # "up"
    BY <1>4 DEF Join, StoppedHasNoLink
  <2>2. CASE driver = "started"
    <3>1. posted' = Leaving /\ isConnected' = isConnected
      BY <1>4, <2>2 DEF Join
    <3> QED BY <2>1, <3>1, LeavingTells
  <2>3. CASE driver # "started"
    <3> DEFINE e == [kind |-> "start", net |-> asked]
    <3>1. e \in Events /\ ~Tells(e)
      BY DEF Events, Tells, WifiTypeOK
    <3>2. posted' = Append(posted, e) /\ isConnected' = isConnected
      BY <1>4, <2>3 DEF Join
    <3>3. link # "up"
      BY <2>3 DEF StoppedHasNoLink
    <3> HIDE DEF e
    <3> QED BY <2>1, <3>1, <3>2, <3>3, SilentEnqueued
  <2> QED BY <2>2, <2>3
<1>5. CASE Return
  BY <1>5 DEF Return, LastTells, FlagTells, StoppedHasNoLink, Tells
<1>6. CASE Disconnect \/ StoppedElsewhere
  <2>1. /\ posted' = Leaving /\ link' = "idle"
        /\ isConnected' \in {isConnected, FALSE}
    BY <1>6 DEF Disconnect, StoppedElsewhere
  <2> QED BY <2>1, LeavingTells DEF StoppedHasNoLink
<1>7. CASE StopWifi
  <2>1. posted' = <<>> /\ ~isConnected' /\ link' = "idle"
    BY <1>7 DEF StopWifi
  <2> QED BY <2>1 DEF LastTells, FlagTells, StoppedHasNoLink
<1>8. CASE OnStart
  <2>1. posted # <<>> /\ posted' = Tail(posted) /\ ~Tells(Head(posted))
    BY <1>8 DEF OnStart, Handle, Tells
  <2>2. (link' = "up" <=> link = "up") /\ isConnected' = isConnected
    BY <1>8 DEF OnStart
  <2>3. LastTells' /\ FlagTells'
    BY <2>1, <2>2, HeadHandled
  <2> QED BY <1>8, <2>3 DEF OnStart, StoppedHasNoLink
<1>9. CASE OnGotIp \/ OnLost
  <2>1. /\ posted # <<>> /\ posted' = Tail(posted) /\ Tells(Head(posted))
        /\ isConnected' <=> Head(posted).kind = "gotip"
        /\ link' = link /\ driver' = driver
    BY <1>9 DEF OnGotIp, OnLost, Handle, Lose, Tells
  <2>2. LastTells' /\ FlagTells'
    BY <2>1, HeadHandled
  <2> QED BY <2>1, <2>2 DEF StoppedHasNoLink
<1>10. CASE StationJoins
  <2>1. /\ posted' = Append(posted, Event("gotip")) /\ Tells(Event("gotip"))
        /\ link = "joining" /\ link' = "up" /\ driver' = driver
    BY <1>1, <1>10 DEF StationJoins, Tells
  <2> QED BY <1>1, <2>1, TellingEnqueued DEF StoppedHasNoLink
<1>11. CASE StationLoses
  <2>1. /\ posted' = Append(posted, Event("lost")) /\ Tells(Event("lost"))
        /\ link' = "idle"
    BY <1>1, <1>11 DEF StationLoses, Tells
  <2> QED BY <1>1, <2>1, TellingEnqueued DEF StoppedHasNoLink
<1>12. CASE StartedElsewhere
  <2>1. /\ driver' = "started" /\ isConnected' = isConnected
        /\ link' = "up" <=> link = "up"
    BY <1>12 DEF StartedElsewhere
  <2>2. CASE posted' = Append(posted, Event("start"))
    BY <1>1, <2>1, <2>2, SilentEnqueued DEF StoppedHasNoLink, Tells
  <2>3. CASE posted' = posted
    BY <2>1, <2>3 DEF LastTells, FlagTells, StoppedHasNoLink, Tells
  <2> QED BY <1>12, <2>2, <2>3 DEF StartedElsewhere
<1>13. CASE UNCHANGED wifiVars
  BY <1>13 DEF wifiVars, LastTells, FlagTells, StoppedHasNoLink, Tells
<1> QED
  BY <1>2, <1>3, <1>4, <1>5, <1>6, <1>7, <1>8, <1>9, <1>10, <1>11, <1>12, <1>13
  DEF WifiNext, WifiEventTask

\* When the driver's events have been handled, the flag of the station says
\* exactly whether there is a link, for any networks and any number of events.
THEOREM LinkIsAlwaysKnown == WifiSpec => []LinkIsKnown
<1>1. WifiInit => LinkInv
  BY DEF WifiInit, LinkInv, LastTells, FlagTells, StoppedHasNoLink
<1>2. WifiTypeOK /\ LinkInv => LinkIsKnown
  BY DEF LinkInv, FlagTells, LinkIsKnown
<1> QED BY <1>1, <1>2, WifiTypeInit, WifiTypeStep, LinkStep, PTL DEF WifiSpec

-----------------------------------------------------------------------------
LEMMA CallStep == WifiTypeOK /\ CallInv /\ [WifiNext]_wifiVars => CallInv'
<1> SUFFICES ASSUME WifiTypeOK, CallInv, [WifiNext]_wifiVars PROVE CallInv'
  OBVIOUS
<1> USE DEF CallInv, wifiFlags, station, past
<1>1. posted \in Seq(Events) /\ \A k \in {"gotip", "lost", "own"} : Event(k) \in Events
  BY DEF Event, Events, WifiTypeOK
<1>2. CASE call' = "idle"
  BY <1>2 DEF AddressIsOfCall, BitIsExplained
<1>3. ASSUME NEW n \in Nets, Ask(n) PROVE CallInv'
  BY <1>3 DEF Ask, ClearBits, AddressIsOfCall, BitIsExplained
<1>4. CASE Join
  <2>1. /\ call = "cleared" /\ config' = asked' /\ early' \in BOOLEAN
        /\ gotBit' = gotBit /\ joined' = joined
        /\ early' = (early \/ \E i \in DOMAIN posted : posted[i].kind = "gotip")
    BY <1>4 DEF Join, WifiTypeOK
  <2>2. BitIsExplained'
    BY <2>1 DEF BitIsExplained
  <2>3. ASSUME ~early'
        PROVE  \A i \in 1 .. Len(posted') : posted'[i].kind # "gotip"
    <3> DEFINE Waits == \E i \in DOMAIN posted : posted[i].kind = "gotip"
    <3>1. ~Waits
      BY <1>4, <2>3 DEF Join
    <3>2. DOMAIN posted = 1 .. Len(posted)
      BY <1>1
    <3>3. \A i \in 1 .. Len(posted) : posted[i].kind # "gotip"
      BY <3>1, <3>2
    <3>4. \/ posted' = posted
          \/ \E e \in Events : e.kind # "gotip" /\ posted' = Append(posted, e)
      BY <1>1, <1>4 DEF Join, Leaving, Event, Events, WifiTypeOK
    <3> QED BY <1>1, <3>3, <3>4, Enqueued
  <2> QED BY <2>1, <2>2, <2>3 DEF AddressIsOfCall
<1>5. CASE WifiEventTask
  <2>1. /\ posted' = Tail(posted) /\ posted # <<>>
        /\ call' = call /\ asked' = asked /\ config' = config
    BY <1>5 DEF WifiEventTask, OnStart, OnGotIp, OnLost, Handle
  <2>2. /\ Head(posted) = posted[1] /\ Len(posted) \in Nat \ {0}
        /\ Len(posted') = Len(posted) - 1
        /\ \A i \in 1 .. Len(posted') : posted'[i] = posted[i + 1]
    BY <1>1, <2>1, Dequeued
  <2>3. early => early'
    BY <1>5 DEF WifiEventTask, OnStart, OnGotIp, OnLost
  <2>4. AddressIsOfCall'
    <3>1. \A i \in 1 .. Len(posted') : i + 1 \in 1 .. Len(posted)
      BY <2>2
    <3> QED BY <2>1, <2>2, <2>3, <3>1 DEF AddressIsOfCall
  <2>5. CASE OnGotIp
    <3>1. ASSUME call = "waiting", ~early PROVE posted[1].net = asked
      BY <2>2, <2>5, <3>1 DEF AddressIsOfCall, OnGotIp, Handle
    <3>2. BitIsExplained'
      BY <2>2, <2>5, <3>1 DEF OnGotIp, BitIsExplained, WifiTypeOK
    <3> QED BY <2>4, <3>2
  <2>6. CASE OnStart \/ OnLost
    <3>1. BitIsExplained'
      BY <2>6 DEF OnStart, OnLost, BitIsExplained
    <3> QED BY <2>4, <3>1
  <2> QED BY <1>5, <2>5, <2>6 DEF WifiEventTask
<1>6. CASE StationJoins \/ StationLoses
  <2>1. PICK e \in Events : posted' = Append(posted, e) /\ e.net = config
    BY <1>1, <1>6 DEF StationJoins, StationLoses, Event
  <2>2. /\ call' = call /\ asked' = asked /\ config' = config
        /\ gotBit' = gotBit /\ early' = early /\ joined' = joined
    BY <1>6 DEF StationJoins, StationLoses
  <2>3. /\ Len(posted') = Len(posted) + 1 /\ posted'[Len(posted) + 1] = e
        /\ Len(posted) \in Nat
        /\ \A i \in 1 .. Len(posted) : posted'[i] = posted[i]
    BY <1>1, <2>1, Enqueued
  <2> QED BY <2>1, <2>2, <2>3 DEF AddressIsOfCall, BitIsExplained
<1>7. CASE UNCHANGED wifiVars
  BY <1>7 DEF wifiVars, AddressIsOfCall, BitIsExplained
<1>8. InitWifi \/ Return \/ Disconnect \/ StopWifi \/ StoppedElsewhere \/ StartedElsewhere
      => call' = "idle"
  BY DEF InitWifi, Return, Disconnect, StopWifi, StoppedElsewhere, StartedElsewhere
<1> QED
  BY <1>2, <1>3, <1>4, <1>5, <1>6, <1>7, <1>8 DEF WifiNext

\* A connect that returns true has joined the network it was asked for, but for
\* an address that was on its way when it began.
THEOREM TrueAlwaysMeansJoined == WifiSpec => TrueMeansJoined
<1>1. WifiInit => CallInv
  BY DEF WifiInit, CallInv, AddressIsOfCall, BitIsExplained
<1>2. CallInv => (Return /\ gotBit => joined \/ early)
  BY DEF CallInv, BitIsExplained, Return
<1>3. CallInv /\ [WifiNext]_wifiVars => [Return /\ gotBit => joined \/ early]_wifiVars
  BY <1>2
<1> QED
  BY <1>1, <1>3, WifiTypeInit, WifiTypeStep, CallStep, PTL DEF WifiSpec, TrueMeansJoined
=============================================================================

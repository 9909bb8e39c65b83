---------------------------- MODULE ServerProofs ----------------------------
(***************************************************************************)
(* Proofs about the two servers.                                           *)
(*                                                                         *)
(* FTP, for any names, passwords, addresses and limits: the login names    *)
(* whom it says, passwords are tried no more than the limits allow, and    *)
(* every data port is accounted for.                                       *)
(*                                                                         *)
(* The hotspot, for any browsers, keys and bounds: wrong keys are slowed   *)
(* down, because the delay that runs is the rest of what the next one has  *)
(* to wait, and a session is one of the present key.                       *)
(***************************************************************************)
EXTENDS FtpServer, Hotspot, TLAPS

-----------------------------------------------------------------------------
(* FTP.                                                                    *)

\* The task serves a session exactly while there is one, and outside of it
\* nothing of a session is left.
SessionOfTask ==
    /\ at # "none" <=> task = "session"
    /\ at = "none" => pasv = FALSE /\ fails = 0

PortsCounted ==
    /\ pasv => ports = 1
    /\ ~pasv => ports = 0

\* What the code counts is what has happened.  The lock closes on the last
\* wrong password, when no other PASS is being handled.
Counted ==
    /\ tries = fails /\ fails < MaxFails
    /\ locked => wrong = GlobalLimit /\ globFails = 0 /\ at \notin {"hash", "check"}
    /\ ~locked => wrong = globFails /\ globFails < GlobalLimit

Typed ==
    /\ pasv \in BOOLEAN /\ locked \in BOOLEAN
    /\ fails \in Nat /\ globFails \in Nat

IInv == Typed /\ SessionOfTask /\ PortsCounted /\ Counted /\ LoggedInAsNamed

-----------------------------------------------------------------------------
LEMMA IInit == Init => IInv
<1> SUFFICES ASSUME Init PROVE IInv
  OBVIOUS
<1> USE FtpAssumption DEF FtpAssumption
<1>1. Typed /\ SessionOfTask /\ PortsCounted
  BY DEF Init, Typed, SessionOfTask, PortsCounted
<1>2. Counted
  BY DEF Init, Counted
<1>3. LoggedInAsNamed
  BY DEF Init, LoggedInAsNamed
<1> QED BY <1>1, <1>2, <1>3 DEF IInv

LEMMA PortClosed ==
  ASSUME Typed, PortsCounted, ClosePasv
  PROVE  pasv' = FALSE /\ ports' = 0
<1>1. pasv' = FALSE
  BY DEF ClosePasv
<1>2. CASE pasv
  <2>1. ports = 1 /\ ports' = ports - 1
    BY <1>2 DEF ClosePasv, PortsCounted
  <2> QED BY <1>1, <2>1
<1>3. CASE ~pasv
  BY <1>1, <1>3 DEF ClosePasv, PortsCounted
<1> QED BY <1>2, <1>3

\* A session that ends leaves nothing behind.
LEMMA HungUp ==
  ASSUME IInv, HangUp, at # "none"
  PROVE  /\ pasv' = FALSE /\ fails' = 0 /\ fails' \in Nat
         /\ SessionOfTask' /\ PortsCounted' /\ LoggedInAsNamed'
         /\ tries' = fails' /\ fails' < MaxFails
         /\ at' \notin {"hash", "check"}
  BY FtpAssumption
  DEF FtpAssumption, IInv, Typed, HangUp, ClosePasv, SessionOfTask, PortsCounted, LoggedInAsNamed

LEMMA LockoutKept ==
  ASSUME IInv, UNCHANGED lockout, HangUp, at # "none"
  PROVE  IInv'
  BY HungUp DEF IInv, Typed, Counted, lockout

\* The server's own steps touch no session, and Accept begins a blank one.
LEMMA ServerStep ==
  ASSUME IInv, (\E useIdle \in BOOLEAN : Start(useIdle)) \/ Stop \/ StopReturns
               \/ AddrChanges \/ Rebind \/ IdleStop \/ Leave
  PROVE  IInv'
<1> USE DEF IInv, Typed, SessionOfTask, PortsCounted, Counted, LoggedInAsNamed
<1> USE DEF session, request, store, lockout
<1> QED BY DEF Start, Stop, StopReturns, AddrChanges, Rebind, IdleStop, Leave

LEMMA CommandStep == ASSUME IInv, Command PROVE IInv'
<1> USE DEF IInv, Typed, SessionOfTask, PortsCounted, Counted, LoggedInAsNamed
<1> USE DEF server, request, store, lockout
<1>1. CASE \E u \in Users : User(u)
  BY <1>1 DEF User
<1>2. CASE \E p \in Passwords : Pass(p)
  BY <1>2 DEF Pass
<1>3. CASE PassLocked \/ Quit
  BY <1>3, LockoutKept DEF PassLocked, Quit
<1>4. ASSUME Pasv \/ Transfer PROVE IInv'
  <2>1. /\ at = "line" /\ at' \in {"transfer", "reading"}
        /\ UNCHANGED <<server, user, authed, fails, request, tries, loggedIn, store, lockout>>
    BY <1>4 DEF Pasv, Transfer
  <2>2. pasv' \in BOOLEAN /\ PortsCounted'
    <3>1. CASE ClosePasv
      BY <3>1, PortClosed
    <3>2. CASE pasv' = TRUE /\ ports' = IF pasv THEN ports ELSE ports + 1
      <4>1. ports' = 1
        BY <3>2
      <4> QED BY <3>2, <4>1
    <3> QED BY <1>4, <3>1, <3>2 DEF Pasv, Transfer
  <2>3. SessionOfTask' /\ Counted' /\ LoggedInAsNamed'
    BY <2>1
  <2> QED BY <2>1, <2>2, <2>3
<1>5. CASE OtherCommand
  BY <1>5 DEF OtherCommand
<1> QED BY <1>1, <1>2, <1>3, <1>4, <1>5 DEF Command

LEMMA CheckStep == ASSUME IInv, Check PROVE IInv'
<1> USE FtpAssumption DEF FtpAssumption
<1> USE DEF IInv, Typed, SessionOfTask, PortsCounted, Counted, LoggedInAsNamed
<1> USE DEF server, request, store, lockout, NoRequest
<1>1. CASE ReadHash
  BY <1>1 DEF ReadHash
<1>2. CASE RightPassword \/ Upgrade
  BY <1>2 DEF RightPassword, Upgrade, LogIn
<1>3. CASE WrongPassword
  <2>1. ~locked /\ wrong = globFails /\ globFails < GlobalLimit
    BY <1>3 DEF WrongPassword
  <2>2. /\ locked' \in BOOLEAN /\ globFails' \in Nat
        /\ locked' => wrong' = GlobalLimit /\ globFails' = 0
        /\ ~locked' => wrong' = globFails' /\ globFails' < GlobalLimit
    <3>1. CASE globFails + 1 >= GlobalLimit
      <4>1. locked' = TRUE /\ globFails' = 0 /\ wrong' = wrong + 1
        BY <1>3, <3>1 DEF WrongPassword
      <4>2. globFails + 1 = GlobalLimit
        BY <2>1, <3>1
      <4> QED BY <2>1, <4>1, <4>2
    <3>2. CASE ~(globFails + 1 >= GlobalLimit)
      <4>1. locked' = locked /\ globFails' = globFails + 1 /\ wrong' = wrong + 1
        BY <1>3, <3>2 DEF WrongPassword
      <4> QED BY <2>1, <3>2, <4>1
    <3> QED BY <3>1, <3>2
  <2>3. CASE fails + 1 >= MaxFails /\ HangUp
    <3>1. at # "none"
      BY <1>3 DEF WrongPassword
    <3> QED BY <2>2, <2>3, <3>1, HungUp
  <2>4. CASE /\ fails + 1 < MaxFails
             /\ fails' = fails + 1 /\ tries' = tries + 1 /\ authed' = FALSE
             /\ at' = "reading" /\ NoRequest
             /\ UNCHANGED <<server, user, pasv, ports, loggedIn, store>>
    BY <1>3, <2>2, <2>4 DEF WrongPassword
  <2> QED BY <1>3, <2>3, <2>4 DEF WrongPassword
<1> QED BY <1>1, <1>2, <1>3 DEF Check

LEMMA IStep == IInv /\ [Next]_vars => IInv'
<1> SUFFICES ASSUME IInv, [Next]_vars PROVE IInv'
  OBVIOUS
<1>1. CASE Accept
  <2>1. at = "none" /\ tries' = 0 /\ fails' = fails
    BY <1>1 DEF Accept, IInv, SessionOfTask
  <2> QED
    BY <1>1, <2>1 DEF Accept, IInv, Typed, SessionOfTask, PortsCounted, Counted, LoggedInAsNamed, lockout
<1>2. CASE ReadLine \/ EndTransfer
  BY <1>2 DEF ReadLine, EndTransfer, IInv, Typed, SessionOfTask, PortsCounted, Counted,
              LoggedInAsNamed, server, lockout
<1>3. CASE ClientGone \/ StopSession
  BY <1>3, LockoutKept DEF ClientGone, StopSession
<1>4. CASE LockExpires
  <2>1. /\ locked' = FALSE /\ wrong' = 0 /\ globFails' = 0
        /\ UNCHANGED <<server, session>>
    BY <1>4 DEF LockExpires, IInv, Counted
  <2>2. Counted'
    BY <2>1, FtpAssumption DEF FtpAssumption, IInv, Counted, session
  <2> QED
    BY <2>1, <2>2 DEF IInv, Typed, SessionOfTask, PortsCounted, LoggedInAsNamed, server, session
<1>5. CASE (\E u \in Owners, p \in Passwords : SetName(u, p)) \/ SetHash
  BY <1>5 DEF SetName, SetHash, IInv, Typed, SessionOfTask, PortsCounted, Counted,
              LoggedInAsNamed, server, session, lockout
<1>6. CASE UNCHANGED vars
  BY <1>6 DEF vars, IInv, Typed, SessionOfTask, PortsCounted, Counted, LoggedInAsNamed,
              server, session, lockout
<1> QED
  BY <1>1, <1>2, <1>3, <1>4, <1>5, <1>6, ServerStep, CommandStep, CheckStep DEF Next, Session

LEMMA ServerInv == Spec => []IInv
<1> QED BY IInit, IStep, PTL DEF Spec

-----------------------------------------------------------------------------
\* A client acts under the name whose password it gave.
THEOREM LoginNamesItsUser == Spec => []LoggedInAsNamed
<1> QED BY ServerInv, PTL DEF IInv

\* Wrong passwords are limited over all sessions and within each.
THEOREM TriesLimited == Spec => []TriesAreLimited
<1>1. IInv => TriesAreLimited
  BY FtpAssumption DEF FtpAssumption, IInv, Typed, Counted, TriesAreLimited
<1> QED BY <1>1, ServerInv, PTL

\* A session has at most one data port and takes it along.
THEOREM NoPortLost == Spec => []PortsAccounted
<1>1. IInv => PortsAccounted
  BY DEF IInv, Typed, SessionOfTask, PortsCounted, PortsAccounted
<1> QED BY <1>1, ServerInv, PTL

-----------------------------------------------------------------------------
(* Types, on top of what is known of sessions and counters.                *)

LEMMA TypeInit == Init => TypeOK
<1> SUFFICES ASSUME Init PROVE TypeOK
  OBVIOUS
<1>1. {fails, globFails, ports, wrong, tries} \subseteq Nat
  BY DEF Init
<1> QED BY <1>1 DEF Init, TypeOK

\* The counters of a session and of the lock are numbers.
LEMMA Numbers == IInv => {fails, globFails, ports, wrong, tries} \subseteq Nat
<1> SUFFICES ASSUME IInv PROVE {fails, globFails, ports, wrong, tries} \subseteq Nat
  OBVIOUS
<1> QED BY FtpAssumption DEF FtpAssumption, IInv, Typed, PortsCounted, Counted

LEMMA TypeStep ==
  TypeOK /\ ({fails, globFails, ports, wrong, tries} \subseteq Nat)' /\ [Next]_vars => TypeOK'
<1> DEFINE Plain ==
      /\ run \in BOOLEAN /\ idle \in BOOLEAN /\ stopping \in BOOLEAN
      /\ task \in {"none", "listening", "session"}
      /\ bound \in Addrs \cup {None} /\ addr \in Addrs \cup {None}
      /\ at \in {"none", "reading", "line", "hash", "check", "transfer"}
      /\ user \in Users \cup {None} /\ authed \in BOOLEAN /\ pasv \in BOOLEAN
      /\ guess \in Passwords \cup {None}
      /\ cu \in Owners \cup {None} /\ ch \in Hashes \cup {None}
      /\ name \in Owners \cup {None} /\ hash \in Hashes \cup {None}
      /\ setting \in Passwords \cup {None}
      /\ locked \in BOOLEAN
      /\ loggedIn \in Users \cup {None}
<1> SUFFICES ASSUME TypeOK, [Next]_vars,
                    ({fails, globFails, ports, wrong, tries} \subseteq Nat)'
             PROVE  Plain'
  BY DEF TypeOK
<1>0. Plain
  BY DEF TypeOK
<1> USE DEF server, session, request, store, lockout
<1>a. ASSUME HangUp, UNCHANGED locked PROVE Plain'
  BY <1>0, <1>a DEF HangUp, NoRequest, ClosePasv
<1>1. CASE (\E useIdle \in BOOLEAN : Start(useIdle)) \/ Stop \/ StopReturns
           \/ AddrChanges \/ Rebind \/ IdleStop \/ Accept \/ Leave
  <2>1. /\ run' \in BOOLEAN /\ idle' \in BOOLEAN /\ stopping' \in BOOLEAN
        /\ task' \in {"none", "listening", "session"}
        /\ bound' \in Addrs \cup {None} /\ addr' \in Addrs \cup {None}
    BY <1>0, <1>1 DEF Start, Stop, StopReturns, AddrChanges, Rebind, IdleStop, Accept, Leave
  <2>2. at' \in {at, "reading"}
    BY <1>1 DEF Start, Stop, StopReturns, AddrChanges, Rebind, IdleStop, Accept, Leave
  <2>3. UNCHANGED <<user, authed, pasv, request, loggedIn, store, locked>>
    BY <1>1 DEF Start, Stop, StopReturns, AddrChanges, Rebind, IdleStop, Accept, Leave
  <2> QED BY <1>0, <2>1, <2>2, <2>3
<1>2. CASE ReadLine \/ ClientGone \/ StopSession \/ EndTransfer
  BY <1>0, <1>a, <1>2 DEF ReadLine, ClientGone, StopSession, EndTransfer
<1>3. CASE Command
  <2>1. CASE (\E u \in Users : User(u)) \/ (\E p \in Passwords : Pass(p)) \/ OtherCommand
    BY <1>0, <2>1 DEF User, Pass, OtherCommand
  <2>2. CASE PassLocked \/ Quit
    BY <1>a, <2>2 DEF PassLocked, Quit
  <2>3. CASE Pasv \/ Transfer
    BY <1>0, <2>3 DEF Pasv, Transfer, ClosePasv
  <2> QED BY <1>3, <2>1, <2>2, <2>3 DEF Command
<1>4. CASE Check
  <2>1. CASE ReadHash
    BY <1>0, <2>1 DEF ReadHash
  <2>2. CASE RightPassword
    BY <1>0, <2>2 DEF RightPassword, LogIn, NoRequest
  <2>3. CASE Upgrade
    <3>1. guess \in Passwords
      BY <1>0, <2>3 DEF Upgrade, Right, Hashes
    <3>2. hash' \in Hashes
      BY <2>3, <3>1 DEF Upgrade, Hashes
    <3> QED BY <1>0, <2>3, <3>2 DEF Upgrade, LogIn, NoRequest
  <2>4. CASE WrongPassword
    <3>1. locked' \in BOOLEAN
      BY <1>0, <2>4 DEF WrongPassword
    <3> QED BY <1>0, <2>4, <3>1 DEF WrongPassword, HangUp, NoRequest, ClosePasv
  <2> QED BY <1>4, <2>1, <2>2, <2>3, <2>4 DEF Check
<1>5. CASE LockExpires
  <2>1. locked' \in BOOLEAN /\ UNCHANGED <<server, session, store>>
    BY <1>5 DEF LockExpires
  <2> QED BY <1>0, <2>1
<1>6. CASE \E u \in Owners, p \in Passwords : SetName(u, p)
  BY <1>0, <1>6 DEF SetName
<1>7. CASE SetHash
  <2>1. hash' \in Hashes
    BY <1>0, <1>7 DEF SetHash, Hashes
  <2> QED BY <1>0, <1>7, <2>1 DEF SetHash
<1>8. CASE UNCHANGED vars
  BY <1>0, <1>8 DEF vars
<1> QED BY <1>1, <1>2, <1>3, <1>4, <1>5, <1>6, <1>7, <1>8 DEF Next, Session

\* The type invariant.
THEOREM TypeCorrect == Spec => []TypeOK
<1> QED BY TypeInit, TypeStep, Numbers, ServerInv, PTL DEF Spec

\* The port is open while there is a task and never after.
THEOREM PortGoesWithTask == Spec => []PortHasTask
<1> USE DEF PortHasTask
<1>1. Init => PortHasTask
  BY DEF Init
<1>2. IInv /\ TypeOK /\ PortHasTask /\ [Next]_vars => PortHasTask'
  <2> SUFFICES ASSUME IInv, TypeOK, PortHasTask, [Next]_vars PROVE PortHasTask'
    OBVIOUS
  <2>1. CASE (\E useIdle \in BOOLEAN : Start(useIdle)) \/ Rebind \/ Accept \/ Leave
    BY <2>1 DEF Start, Rebind, Accept, Leave
  <2>2. CASE HangUp /\ at # "none"
    BY <2>2 DEF HangUp, IInv, SessionOfTask
  <2>3. CASE UNCHANGED <<task, bound>>
    BY <2>3
  <2> QED
    BY <2>1, <2>2, <2>3
    DEF Next, Session, Command, Check, Stop, StopReturns, AddrChanges, IdleStop, ReadLine, ClientGone,
        StopSession, User, Pass, PassLocked, Pasv, Transfer, OtherCommand, Quit, ReadHash,
        RightPassword, Upgrade, LogIn, WrongPassword, EndTransfer, LockExpires, SetName, SetHash,
        server, vars
<1> QED BY <1>1, <1>2, TypeCorrect, ServerInv, PTL DEF Spec

-----------------------------------------------------------------------------
(* The hotspot.                                                            *)

\* The delay that runs is the rest of what the next wrong key has to wait.
SlowSoFar ==
    \/ elapsed >= MaxTime
    \/ /\ elapsed >= Least(failed)
       /\ failed > 0 => elapsed + wait >= Least(failed + 1)

\* The key that was compared is known from then on, not only when the session
\* is there.
KeyCompared == webSession # Nothing \/ webTask = "granting" => sessionKey = key \/ late

HotspotInv == HotspotTypeOK /\ SlowSoFar /\ KeyCompared

\* The next wrong key is due when the delay after the last one is over.
LEMMA LeastGrows ==
  ASSUME NEW n \in Nat
  PROVE  /\ Least(n) \in Nat /\ Delay(n + 1) \in 1 .. 30
         /\ Least(n + 2) = Least(n + 1) + Delay(n + 1)
<1>1. CASE n = 0
  BY <1>1 DEF Least, Delay
<1>2. CASE n = 1
  BY <1>2 DEF Least, Delay
<1>3. CASE n = 2
  BY <1>3 DEF Least, Delay
<1>4. CASE n = 3
  BY <1>4 DEF Least, Delay
<1>5. CASE n = 4
  BY <1>5 DEF Least, Delay
<1>6. CASE n = 5
  BY <1>6 DEF Least, Delay
<1>7. CASE n = 6
  BY <1>7 DEF Least, Delay
<1>8. CASE n > 6
  BY <1>8 DEF Least, Delay
<1> QED BY <1>1, <1>2, <1>3, <1>4, <1>5, <1>6, <1>7, <1>8

LEMMA HotspotInitHolds == HotspotInit => HotspotInv
<1> SUFFICES ASSUME HotspotInit PROVE HotspotInv
  OBVIOUS
<1>1. HotspotTypeOK
  <2>1. /\ running \in BOOLEAN /\ listening \in BOOLEAN /\ overwritten \in BOOLEAN
        /\ late \in BOOLEAN
    BY DEF HotspotInit
  <2>2. failed \in 0 .. MaxWrong /\ wait \in 0 .. 30 /\ elapsed \in 0 .. MaxTime
    BY HotspotAssumption DEF HotspotAssumption, HotspotInit
  <2> QED BY <2>1, <2>2 DEF HotspotInit, HotspotTypeOK
<1>2. SlowSoFar
  BY DEF HotspotInit, SlowSoFar, Least
<1>3. KeyCompared
  BY DEF HotspotInit, KeyCompared
<1> QED BY <1>1, <1>2, <1>3 DEF HotspotInv

LEMMA HotspotTypeStep == HotspotTypeOK /\ [HotspotNext]_hotspotVars => HotspotTypeOK'
<1> SUFFICES ASSUME HotspotTypeOK, [HotspotNext]_hotspotVars PROVE HotspotTypeOK'
  OBVIOUS
<1> USE DEF HotspotTypeOK, lifecycle, login, history
<1>1. CASE StartHotspot
  BY <1>1 DEF StartHotspot, NewKey
<1>2. CASE StartFails
  BY <1>2 DEF StartFails, NewKey
<1>3. CASE StopHotspot \/ Stopped
  BY <1>3 DEF StopHotspot, Stopped
<1>4. CASE Regenerate
  BY <1>4 DEF Regenerate, NewKey
<1>5. ASSUME NEW c \in Clients, AcceptClient(c) PROVE HotspotTypeOK'
  BY <1>5 DEF AcceptClient
<1>6. CASE LeaveTask
  BY <1>6 DEF LeaveTask
<1>7. CASE Answered \/ Served
  BY <1>7 DEF Answered, Served, Close
<1>8. CASE RightKey
  <2>1. failed' \in 0 .. MaxWrong /\ elapsed' \in 0 .. MaxTime
    BY <1>8, HotspotAssumption DEF RightKey, HotspotAssumption
  <2>2. late' \in BOOLEAN
    BY <1>8 DEF RightKey
  <2> QED BY <1>8, <2>1, <2>2 DEF RightKey
<1>9. CASE Grant
  BY <1>9 DEF Grant, Close
<1>10. CASE WrongKey
  <2>1. failed' \in 0 .. MaxWrong
    BY <1>10, HotspotAssumption DEF WrongKey, HotspotAssumption
  <2>2. wait' \in 0 .. 30
    BY <1>10, LeastGrows DEF WrongKey
  <2>3. elapsed' \in 0 .. MaxTime
    BY <1>10, HotspotAssumption DEF WrongKey, HotspotAssumption
  <2> QED BY <1>10, <2>1, <2>2, <2>3 DEF WrongKey, Close
<1>11. CASE Serve
  BY <1>11 DEF Serve
<1>12. CASE Tick
  <2>1. wait' \in 0 .. 30
    BY <1>12 DEF Tick
  <2>2. elapsed' \in 0 .. MaxTime
    BY <1>12, HotspotAssumption DEF Tick, HotspotAssumption
  <2> QED BY <1>12, <2>1, <2>2 DEF Tick
<1>13. CASE UNCHANGED hotspotVars
  BY <1>13 DEF hotspotVars
<1> QED
  BY <1>1, <1>2, <1>3, <1>4, <1>5, <1>6, <1>7, <1>8, <1>9, <1>10, <1>11, <1>12, <1>13
  DEF HotspotNext, Menu, Server, Lost

LEMMA SlowStep == HotspotTypeOK /\ SlowSoFar /\ [HotspotNext]_hotspotVars => SlowSoFar'
<1> SUFFICES ASSUME HotspotTypeOK, SlowSoFar, [HotspotNext]_hotspotVars PROVE SlowSoFar'
  OBVIOUS
<1> USE DEF lifecycle, login, history
<1>0. /\ failed \in Nat /\ wait \in Nat /\ elapsed \in Nat /\ MaxTime \in Nat
      /\ Least(failed) \in Nat /\ Least(failed + 1) \in Nat
  BY LeastGrows, HotspotAssumption DEF HotspotTypeOK, HotspotAssumption
<1>1. CASE RightKey
  BY <1>1 DEF RightKey, SlowSoFar, Least
<1>2. CASE WrongKey
  <2>1. /\ wait = 0 /\ failed' = failed + 1 /\ wait' = Delay(failed + 1)
        /\ elapsed' = IF failed = 0 THEN 0 ELSE elapsed
    BY <1>2 DEF WrongKey
  <2>2. /\ Least(failed' + 1) = Least(failed + 1) + Delay(failed + 1)
        /\ Delay(failed + 1) \in Nat
    <3>1. failed' + 1 = failed + 2
      BY <1>0, <2>1
    <3>2. /\ Least(failed + 2) = Least(failed + 1) + Delay(failed + 1)
          /\ Delay(failed + 1) \in 1 .. 30
      BY <1>0, LeastGrows, Zenon
    <3> QED BY <3>1, <3>2
  <2>3. CASE failed = 0
    <3>1. Least(failed + 1) = 0
      BY <2>3 DEF Least
    <3> QED BY <1>0, <2>1, <2>2, <2>3, <3>1 DEF SlowSoFar
  <2>4. CASE failed > 0
    BY <1>0, <2>1, <2>2, <2>4 DEF SlowSoFar
  <2> QED BY <1>0, <2>3, <2>4
<1>3. CASE Tick
  <2>1. /\ failed' = failed
        /\ elapsed' = IF failed > 0 /\ elapsed < MaxTime THEN elapsed + 1 ELSE elapsed
        /\ wait' = IF wait > 0 THEN wait - 1 ELSE 0
    BY <1>3 DEF Tick
  <2>2. Least(failed') = Least(failed) /\ Least(failed' + 1) = Least(failed + 1)
    BY <2>1
  <2> QED BY <1>0, <2>1, <2>2 DEF SlowSoFar
<1>4. CASE UNCHANGED <<failed, wait, elapsed>>
  BY <1>4 DEF SlowSoFar, Least
<1>5. \/ RightKey \/ WrongKey \/ Tick \/ UNCHANGED <<failed, wait, elapsed>>
  BY DEF HotspotNext, Menu, Server, Lost, hotspotVars, StartHotspot, StartFails, StopHotspot, Stopped, Regenerate,
         NewKey, AcceptClient, LeaveTask, Answered, Grant, Serve, Served, Close
<1> QED BY <1>1, <1>2, <1>3, <1>4, <1>5

LEMMA KeyStep == HotspotTypeOK /\ KeyCompared /\ [HotspotNext]_hotspotVars => KeyCompared'
<1> SUFFICES ASSUME HotspotTypeOK, KeyCompared, [HotspotNext]_hotspotVars PROVE KeyCompared'
  OBVIOUS
<1> USE DEF KeyCompared, lifecycle, login, history
<1>1. ASSUME NewKey, webTask' = webTask \/ webTask' = "idle" PROVE KeyCompared'
  BY <1>1 DEF NewKey
<1>2. CASE StartHotspot \/ StartFails \/ Regenerate
  BY <1>1, <1>2 DEF StartHotspot, StartFails, Regenerate
<1>3. CASE StopHotspot \/ Stopped \/ LeaveTask \/ Serve \/ Tick
  BY <1>3 DEF StopHotspot, Stopped, LeaveTask, Serve, Tick
<1>4. ASSUME NEW c \in Clients, AcceptClient(c) PROVE KeyCompared'
  BY <1>4 DEF AcceptClient
<1>5. CASE Answered \/ WrongKey \/ Served
  BY <1>5 DEF Answered, WrongKey, Served, Close
<1>6. CASE RightKey
  BY <1>6 DEF RightKey
<1>7. CASE Grant
  BY <1>7 DEF Grant, Close
<1>8. CASE UNCHANGED hotspotVars
  BY <1>8 DEF hotspotVars
<1> QED
  BY <1>2, <1>3, <1>4, <1>5, <1>6, <1>7, <1>8 DEF HotspotNext, Menu, Server, Lost

LEMMA AlwaysHotspotInv == HotspotSpec => []HotspotInv
<1>1. HotspotInv /\ [HotspotNext]_hotspotVars => HotspotInv'
  BY HotspotTypeStep, SlowStep, KeyStep DEF HotspotInv
<1> QED BY <1>1, HotspotInitHolds, PTL DEF HotspotSpec

\* The variables keep their types.
THEOREM HotspotTypeCorrect == HotspotSpec => []HotspotTypeOK
<1>1. HotspotInv => HotspotTypeOK
  BY DEF HotspotInv
<1> QED BY <1>1, AlwaysHotspotInv, PTL

\* Wrong keys take the time that their delays ask for, over any sequence of
\* connections, restarts of the hotspot and new keys.
THEOREM GuessesStaySlow == HotspotSpec => []GuessesAreSlow
<1>1. HotspotInv => GuessesAreSlow
  BY DEF HotspotInv, SlowSoFar, GuessesAreSlow
<1> QED BY <1>1, AlwaysHotspotInv, PTL

\* No session outlives the key that gave it, but for one login under way.
THEOREM SessionsAreOfKey == HotspotSpec => []SessionOfKey
<1>1. HotspotInv => SessionOfKey
  BY DEF HotspotInv, KeyCompared, SessionOfKey
<1> QED BY <1>1, AlwaysHotspotInv, PTL
=============================================================================

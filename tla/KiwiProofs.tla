----------------------------- MODULE KiwiProofs -----------------------------
(***************************************************************************)
(* Proofs about the internet SDR.                                          *)
(*                                                                         *)
(* The sound, for any number and length of buffers: no buffer is written   *)
(* while the speaker plays it.  What the speaker has is the end of what    *)
(* was queued, everything queued is marked so and once only, and the task  *)
(* releases no more than the speaker has finished.                         *)
(*                                                                         *)
(* The session, for any frequencies: the server is tuned to what is shown. *)
(* A change that has not reached it is still known to somebody, because    *)
(* the flags, the client and what its handler has still to report agree.   *)
(***************************************************************************)
EXTENDS KiwiAudio, KiwiSession, TLAPS

-----------------------------------------------------------------------------
(* The sound.                                                              *)

\* All that is queued is marked, and nothing is queued twice.
QueueMarked ==
    /\ \A i \in 1 .. Len(q) : bufState[q[i]] = Queued
    /\ \A i, j \in 1 .. Len(q) : q[i] = q[j] => i = j

\* The speaker has the last buffers of the queue.
SpeakerHasEnd ==
    /\ Len(speaker) <= Len(q)
    /\ \A i \in 1 .. Len(speaker) : speaker[i] = q[Len(q) - Len(speaker) + i]

\* What the task has heard of the speaker is never too little.
HeardEnough ==
    /\ at \in {"release", "play"} => Len(speaker) <= pl
    /\ at = "play" => Len(q) <= pl

IInv == RingTypeOK /\ QueueMarked /\ SpeakerHasEnd /\ HeardEnough

LEMMA InitHolds == RingInit => IInv
  <1> USE KiwiAudioAssumption DEF KiwiAudioAssumption, Free, Full, Queued, Buffers
  <1> SUFFICES ASSUME RingInit PROVE IInv
    OBVIOUS
  <1>1. /\ q = <<>> /\ q \in Seq(Buffers) /\ Len(q) = 0
        /\ speaker = <<>> /\ speaker \in Seq(Buffers) /\ Len(speaker) = 0
    BY DEF RingInit
  <1>2. RingTypeOK
    <2>1. bufState \in [Buffers -> {Free, Full, Queued}]
      BY DEF RingInit
    <2>2. fillIdx \in Buffers /\ fillPos \in 0 .. BufLen - 1 /\ playIdx \in Buffers
      BY DEF RingInit
    <2>3. /\ q \in Seq(Buffers) /\ Len(q) <= 2
          /\ speaker \in Seq(Buffers) /\ Len(speaker) <= 2
      BY <1>1
    <2>4. /\ primed \in BOOLEAN /\ pl \in 0 .. 2 /\ ws \in BOOLEAN
          /\ at \in {"off", "look", "release", "play"}
      BY DEF RingInit
    <2> QED
      BY <2>1, <2>2, <2>3, <2>4 DEF RingTypeOK
  <1> QED
    BY <1>1, <1>2 DEF RingInit, IInv, QueueMarked, SpeakerHasEnd, HeardEnough

\* A sample touches a free buffer only, so none of the queue.
LEMMA SampleKeeps == IInv /\ Sample => IInv'
  <1> USE KiwiAudioAssumption DEF KiwiAudioAssumption, Free, Full, Queued, Buffers
  <1> SUFFICES ASSUME IInv, Sample PROVE IInv'
    OBVIOUS
  <1> USE DEF IInv
  <1>1. RingTypeOK'
    <2>1. CASE fillPos + 1 >= BufLen
      BY <2>1 DEF RingTypeOK, Sample, Next1, task
    <2>2. CASE ~(fillPos + 1 >= BufLen)
      BY <2>2 DEF RingTypeOK, Sample, task
    <2> QED
      BY <2>1, <2>2
  <1>2. QueueMarked'
    <2>1. q' = q /\ bufState[fillIdx] = Free
      BY DEF Sample, MayFill, task
    <2>2. ASSUME NEW i \in 1 .. Len(q) PROVE bufState'[q[i]] = Queued
      <3>1. q[i] \in Buffers /\ bufState[q[i]] = Queued
        BY DEF RingTypeOK, QueueMarked
      <3>2. q[i] # fillIdx
        BY <2>1, <3>1
      <3> QED
        BY <3>1, <3>2 DEF RingTypeOK, Sample
    <2> QED
      BY <2>1, <2>2 DEF QueueMarked
  <1>3. SpeakerHasEnd' /\ HeardEnough'
    BY DEF SpeakerHasEnd, HeardEnough, Sample, task
  <1> QED
    BY <1>1, <1>2, <1>3

\* What is released is not among what the speaker has.
LEMMA ReleaseKeeps == IInv /\ Release => IInv'
  <1> USE KiwiAudioAssumption DEF KiwiAudioAssumption, Free, Full, Queued, Buffers
  <1> SUFFICES ASSUME IInv, Release PROVE IInv'
    OBVIOUS
  <1> USE DEF IInv
  <1>1. PICK b \in Buffers : MayRelease(b) /\ bufState' = [bufState EXCEPT ![b] = Free]
    BY DEF Release
  <1>2. /\ Len(q) > 0 /\ b = q[1] /\ q' = Tail(q)
        /\ Len(q') = Len(q) - 1 /\ q' \in Seq(Buffers)
        /\ \A i \in 1 .. Len(q') : q'[i] = q[i + 1]
    BY <1>1 DEF RingTypeOK, MayRelease, Release
  <1>3. RingTypeOK'
    BY <1>1, <1>2 DEF RingTypeOK, Release, fill
  <1>4. QueueMarked'
    BY <1>1, <1>2 DEF RingTypeOK, QueueMarked, Release
  <1>5. SpeakerHasEnd'
    <2>1. Len(speaker) <= pl /\ Len(q) > pl
      BY <1>1 DEF HeardEnough, MayRelease, Release
    <2>2. speaker' = speaker /\ Len(speaker') <= Len(q')
      BY <1>2, <2>1 DEF RingTypeOK, Release
    <2> QED
      BY <1>2, <2>1, <2>2 DEF RingTypeOK, SpeakerHasEnd
  <1>6. HeardEnough'
    BY DEF HeardEnough, Release
  <1> QED
    BY <1>3, <1>4, <1>5, <1>6

\* The buffer that is played was full, so not in the queue before.
LEMMA PlayKeeps == IInv /\ Play => IInv'
  <1> USE KiwiAudioAssumption DEF KiwiAudioAssumption, Free, Full, Queued, Buffers
  <1> SUFFICES ASSUME IInv, Play PROVE IInv'
    OBVIOUS
  <1> USE DEF IInv
  <1>1. /\ Len(q) <= pl /\ pl < 2 /\ Len(speaker) <= pl /\ bufState[playIdx] = Full
        /\ playIdx \in Buffers
    BY DEF Play, MayPlay, HeardEnough, RingTypeOK
  <1>2. /\ q' = Append(q, playIdx) /\ q' \in Seq(Buffers) /\ Len(q') = Len(q) + 1
        /\ \A i \in 1 .. Len(q) : q'[i] = q[i]
        /\ q'[Len(q) + 1] = playIdx
    BY <1>1 DEF Play, RingTypeOK
  <1>3. /\ speaker' \in Seq(Buffers) /\ Len(speaker') = Len(speaker) + 1
        /\ \A i \in 1 .. Len(speaker) : speaker'[i] = speaker[i]
        /\ speaker'[Len(speaker) + 1] = playIdx
    BY <1>1 DEF Play, RingTypeOK
  <1>4. RingTypeOK'
    BY <1>1, <1>2, <1>3 DEF RingTypeOK, Play, Next1, fill
  <1>5. QueueMarked'
    <2>1. ASSUME NEW i \in 1 .. Len(q)
          PROVE  q[i] \in Buffers /\ q[i] # playIdx /\ bufState'[q[i]] = Queued
      <3>1. q[i] \in Buffers /\ bufState[q[i]] = Queued
        BY DEF RingTypeOK, QueueMarked
      <3> QED
        BY <3>1, <1>1 DEF RingTypeOK, Play
    <2>2. bufState'[playIdx] = Queued
      BY <1>1 DEF RingTypeOK, Play
    <2>3. \A i \in 1 .. Len(q') : i \in 1 .. Len(q) \/ i = Len(q) + 1
      BY <1>2 DEF RingTypeOK
    <2>4. \A i \in 1 .. Len(q') : bufState'[q'[i]] = Queued
      BY <1>2, <2>1, <2>2, <2>3
    <2>5. \A i, j \in 1 .. Len(q') : q'[i] = q'[j] => i = j
      BY <1>2, <2>1, <2>3 DEF QueueMarked
    <2> QED
      BY <2>4, <2>5 DEF QueueMarked
  <1>6. SpeakerHasEnd'
    <2>1. Len(speaker') <= Len(q')
      BY <1>2, <1>3 DEF RingTypeOK, SpeakerHasEnd
    <2>2. ASSUME NEW i \in 1 .. Len(speaker')
          PROVE  speaker'[i] = q'[Len(q') - Len(speaker') + i]
      <3>1. CASE i = Len(speaker) + 1
        BY <3>1, <1>2, <1>3 DEF RingTypeOK
      <3>2. CASE i \in 1 .. Len(speaker)
        <4>1. Len(q) - Len(speaker) + i \in 1 .. Len(q)
          BY <3>2 DEF RingTypeOK, SpeakerHasEnd
        <4>2. Len(q') - Len(speaker') + i = Len(q) - Len(speaker) + i
          BY <3>2, <1>2, <1>3 DEF RingTypeOK
        <4> QED
          BY <3>2, <4>1, <4>2, <1>2, <1>3 DEF SpeakerHasEnd
      <3> QED
        BY <2>2, <3>1, <3>2, <1>3 DEF RingTypeOK
    <2> QED
      BY <2>1, <2>2 DEF SpeakerHasEnd
  <1>7. HeardEnough'
    BY <1>1, <1>2, <1>3 DEF RingTypeOK, HeardEnough, Play
  <1> QED
    BY <1>4, <1>5, <1>6, <1>7

LEMMA PlayedKeeps == IInv /\ Played => IInv'
  <1> USE KiwiAudioAssumption DEF KiwiAudioAssumption, Free, Full, Queued, Buffers
  <1> SUFFICES ASSUME IInv, Played PROVE IInv'
    OBVIOUS
  <1> USE DEF IInv
  <1>1. /\ speaker' \in Seq(Buffers) /\ Len(speaker') = Len(speaker) - 1
        /\ \A i \in 1 .. Len(speaker') : speaker'[i] = speaker[i + 1]
        /\ UNCHANGED <<bufState, fillIdx, fillPos, q, playIdx, primed, pl, at, ws>>
    BY DEF Played, RingTypeOK, fill, task
  <1>2. RingTypeOK'
    BY <1>1 DEF RingTypeOK
  <1>3. QueueMarked'
    BY <1>1 DEF QueueMarked
  <1>4. SpeakerHasEnd'
    BY <1>1 DEF RingTypeOK, SpeakerHasEnd
  <1>5. HeardEnough'
    BY <1>1 DEF RingTypeOK, HeardEnough
  <1> QED
    BY <1>2, <1>3, <1>4, <1>5

\* The steps of the task that move no buffer.
LEMMA LoopKeeps == IInv /\ (Look \/ Prime \/ Pause \/ End) => IInv'
  <1> USE KiwiAudioAssumption DEF KiwiAudioAssumption, Free, Full, Queued, Buffers
  <1> USE DEF IInv
  <1>1. CASE IInv /\ Look
    BY <1>1 DEF Look, RingTypeOK, QueueMarked, SpeakerHasEnd, HeardEnough, fill
  <1>2. CASE IInv /\ Prime
    <2>1. Len(q) <= pl
      <3> SUFFICES ASSUME Len(q) > pl PROVE FALSE
        BY <1>2 DEF RingTypeOK
      <3>1. q # <<>> /\ Head(q) \in Buffers
        BY <1>2 DEF RingTypeOK
      <3> QED
        BY <1>2, <3>1 DEF Prime, MayRelease
    <2>2. /\ at = "release" /\ at' = "play" /\ primed' \in BOOLEAN
          /\ UNCHANGED <<bufState, fillIdx, fillPos, q, playIdx, pl, ws, speaker>>
      BY <1>2 DEF Prime, RingTypeOK, fill
    <2> QED
      BY <1>2, <2>1, <2>2 DEF RingTypeOK, QueueMarked, SpeakerHasEnd, HeardEnough
  <1>3. CASE IInv /\ Pause
    BY <1>3 DEF Pause, RingTypeOK, QueueMarked, SpeakerHasEnd, HeardEnough, fill
  <1>4. CASE IInv /\ End
    BY <1>4 DEF End, RingTypeOK, QueueMarked, SpeakerHasEnd, HeardEnough, fill
  <1> QED
    BY <1>1, <1>2, <1>3, <1>4

\* The session's begin and end.
LEMMA SessionKeeps == IInv /\ (Restart \/ Connects \/ Drops \/ EndSession) => IInv'
  <1> USE KiwiAudioAssumption DEF KiwiAudioAssumption, Free, Full, Queued, Buffers
  <1> USE DEF IInv
  <1>1. CASE IInv /\ Restart
    BY <1>1 DEF Restart, RingTypeOK, QueueMarked, SpeakerHasEnd, HeardEnough
  <1>2. CASE IInv /\ Connects
    BY <1>2 DEF Connects, RingTypeOK, QueueMarked, SpeakerHasEnd, HeardEnough, fill, task
  <1>3. CASE IInv /\ Drops
    BY <1>3 DEF Drops, RingTypeOK, QueueMarked, SpeakerHasEnd, HeardEnough, fill, task
  <1>4. CASE IInv /\ EndSession
    <2>1. CASE speaker' = speaker
      BY <1>4, <2>1 DEF EndSession, RingTypeOK, QueueMarked, SpeakerHasEnd, HeardEnough, fill, task
    <2>2. CASE speaker' = <<>>
      <3>1. speaker' \in Seq(Buffers) /\ Len(speaker') = 0
        BY <2>2
      <3>2. at' = at /\ UNCHANGED <<bufState, fillIdx, fillPos, q, playIdx, primed, pl>>
        BY <1>4 DEF EndSession, fill, task
      <3>3. ws' = FALSE /\ at = "off"
        BY <1>4 DEF EndSession
      <3>4. Len(q) \in Nat
        BY <1>4 DEF RingTypeOK
      <3>5. RingTypeOK'
        <4>1. Len(speaker') <= 2
          BY <3>1
        <4>2. ws' \in BOOLEAN
          BY <3>3
        <4> HIDE DEF Buffers, Free, Full, Queued
        <4> QED
          BY <1>4, <3>1, <3>2, <4>1, <4>2 DEF RingTypeOK
      <3>6. QueueMarked'
        BY <1>4, <3>2 DEF QueueMarked
      <3>7. SpeakerHasEnd'
        BY <3>1, <3>2, <3>4 DEF SpeakerHasEnd
      <3>8. HeardEnough'
        BY <3>2, <3>3 DEF HeardEnough
      <3> QED
        BY <3>5, <3>6, <3>7, <3>8
    <2> QED
      BY <1>4, <2>1, <2>2 DEF EndSession
  <1> QED
    BY <1>1, <1>2, <1>3, <1>4

LEMMA StepHolds == IInv /\ [RingNext]_ringVars => IInv'
  <1> SUFFICES ASSUME IInv, [RingNext]_ringVars PROVE IInv'
    OBVIOUS
  <1>1. CASE RingNext
    BY <1>1, SampleKeeps, ReleaseKeeps, PlayKeeps, PlayedKeeps, LoopKeeps, SessionKeeps DEF RingNext, Loop
  <1>2. CASE UNCHANGED ringVars
    BY <1>2 DEF ringVars, fill, task, IInv, RingTypeOK, QueueMarked, SpeakerHasEnd, HeardEnough
  <1> QED
    BY <1>1, <1>2

LEMMA AlwaysIInv == RingSpec => []IInv
  <1> QED
    BY InitHolds, StepHolds, PTL DEF RingSpec

\* The variables keep their types: s_q never holds more than its two entries.
THEOREM TypeCorrect == RingSpec => []RingTypeOK
  <1>1. IInv => RingTypeOK
    BY DEF IInv
  <1> QED
    BY <1>1, AlwaysIInv, PTL

\* No sample goes into a buffer that the speaker still plays.
THEOREM RingIsSafe == RingSpec => NotOverwritten
  <1>1. IInv /\ [RingNext]_ringVars => [Sample => fillIdx \notin Range(speaker)]_ringVars
    <2> USE KiwiAudioAssumption DEF KiwiAudioAssumption, Free, Full, Queued, Buffers
    <2> SUFFICES ASSUME IInv, Sample, fillIdx \in Range(speaker) PROVE FALSE
      OBVIOUS
    <2>1. PICK i \in 1 .. Len(speaker) : speaker[i] = fillIdx
      BY DEF Range, IInv, RingTypeOK
    <2>2. Len(q) - Len(speaker) + i \in 1 .. Len(q)
      BY <2>1 DEF IInv, RingTypeOK, SpeakerHasEnd
    <2>3. bufState[fillIdx] = Queued
      BY <2>1, <2>2 DEF IInv, QueueMarked, SpeakerHasEnd
    <2> QED
      BY <2>3 DEF Sample, MayFill
  <1> QED
    BY <1>1, AlwaysIInv, PTL DEF RingSpec, NotOverwritten

-----------------------------------------------------------------------------
(* The session.                                                            *)

\* No client outlives a session, and none is asked for while there is one.
ClientOfSession ==
    /\ ui \in {"menu", "starting"} => client = "none" /\ reporting = "none"
    /\ ui = "menu" => pc = "off"
    /\ wantConnect => ui = "waiting" /\ client = "none" /\ reporting = "none"

\* What the handler has still to report is of the connection's last event.
EventTells ==
    /\ reporting \in {"lost", "error"} => client = "down"
    /\ reporting \in {"tell", "ask"} => client = "up"

\* The flag, the client and the server agree but for what is being reported.
FlagAgrees ==
    /\ connected => client \in {"up", "down"}
    /\ client = "up" => connected \/ reporting = "tell"
    /\ server # "none" => client = "up"
    /\ server = "set" => connected
    /\ pc = "arrange" => connected \/ client = "down"

\* A change that the task has not read yet.
ChangeIsAsked == wantRetune \/ ui = "turned"

\* A change is asked for, or under way, or it has arrived.
ChangeIsKnown ==
    /\ pc \in {"sendFirst", "send"} => cmd = freq \/ ChangeIsAsked
    /\ server = "set" /\ ~lossy =>
           tuned = freq \/ ChangeIsAsked \/ pc \in {"sendFirst", "send"}

SdrSafe == ClientOfSession /\ EventTells /\ FlagAgrees /\ ChangeIsKnown

SdrInv == SdrTypeOK /\ SdrSafe

\* The types, the flags apart from what says where somebody is.
FlagsTyped ==
    /\ taskRunning \in BOOLEAN /\ connected \in BOOLEAN /\ failed \in BOOLEAN
    /\ wantConnect \in BOOLEAN /\ wantRetune \in BOOLEAN
    /\ needHandshake \in BOOLEAN /\ needSetup \in BOOLEAN /\ setupDone \in BOOLEAN
    /\ lossy \in BOOLEAN

PlacesTyped ==
    /\ ui \in {"menu", "starting", "waiting", "listening", "turned", "stopping"}
    /\ freq \in Freqs
    /\ connAge \in {"none", "fresh", "old"}
    /\ pc \in {"off", "head", "greet", "auth", "setup", "arrange", "sendFirst",
               "tune", "send", "tail"}
    /\ cmd \in Freqs \cup {Nothing} /\ tuned \in Freqs \cup {Nothing}
    /\ client \in {"none", "opening", "up", "down"}
    /\ reporting \in {"none", "tell", "ask", "lost", "error"}
    /\ server \in {"none", "open", "greeted", "set"}

LEMMA SdrInitHolds == SdrInit => SdrInv
  <1> QED
    BY DEF SdrInit, SdrInv, SdrTypeOK, SdrSafe, ClientOfSession, EventTells, FlagAgrees, ChangeIsKnown

LEMMA UserTyped ==
    ASSUME FlagsTyped /\ PlacesTyped,
           StartTask \/ AskConnect \/ Listen \/ Abandon \/ Turn \/ AskRetune \/
           Leave \/ Left \/ GiveUpWait
    PROVE  FlagsTyped' /\ PlacesTyped'
  <1> USE DEF FlagsTyped, PlacesTyped, session, flags, remote
  <1>1. CASE StartTask
    BY <1>1 DEF StartTask
  <1>2. CASE AskConnect
    <2>1. FlagsTyped'
      BY <1>2 DEF AskConnect
    <2>2. PlacesTyped'
      BY <1>2 DEF AskConnect
    <2> QED
      BY <2>1, <2>2
  <1>3. CASE Listen
    BY <1>3 DEF Listen
  <1>4. CASE Abandon
    <2>1. FlagsTyped'
      BY <1>4 DEF Abandon
    <2>2. PlacesTyped'
      BY <1>4 DEF Abandon
    <2> QED
      BY <2>1, <2>2
  <1>5. CASE Turn
    BY <1>5 DEF Turn
  <1>6. CASE AskRetune
    BY <1>6 DEF AskRetune
  <1>7. CASE Leave
    <2>1. FlagsTyped'
      BY <1>7 DEF Leave
    <2>2. PlacesTyped'
      BY <1>7 DEF Leave
    <2> QED
      BY <2>1, <2>2
  <1>8. CASE Left
    BY <1>8 DEF Left
  <1>9. CASE GiveUpWait
    BY <1>9 DEF GiveUpWait, Sending
  <1> QED
    BY <1>1, <1>2, <1>3, <1>4, <1>5, <1>6, <1>7, <1>8, <1>9

\* A turn of the user's is known from the moment it is shown.
LEMMA UserKeeps ==
    ASSUME SdrInv,
           StartTask \/ AskConnect \/ Listen \/ Abandon \/ Turn \/ AskRetune \/
           Leave \/ Left \/ GiveUpWait
    PROVE  SdrSafe'
  <1> USE DEF SdrInv, SdrSafe, ClientOfSession, EventTells, FlagAgrees, ChangeIsKnown,
          ChangeIsAsked, session, flags, remote
  <1>1. CASE StartTask
    BY <1>1 DEF StartTask
  <1>2. CASE AskConnect
    BY <1>2 DEF AskConnect
  <1>3. CASE Listen
    BY <1>3 DEF Listen
  <1>4. CASE Abandon
    BY <1>4 DEF Abandon
  <1>5. CASE Turn
    BY <1>5 DEF Turn
  <1>6. CASE AskRetune
    BY <1>6 DEF AskRetune
  <1>7. CASE Leave
    BY <1>7 DEF Leave
  <1>8. CASE Left
    BY <1>8 DEF Left
  <1>9. CASE GiveUpWait
    BY <1>9 DEF GiveUpWait, Sending
  <1> QED
    BY <1>1, <1>2, <1>3, <1>4, <1>5, <1>6, <1>7, <1>8, <1>9

LEMMA TurnTyped ==
    ASSUME FlagsTyped /\ PlacesTyped,
           EndTask \/ Connect \/ NoConnect \/ Greet \/ NoGreet \/ Setup \/
           NoSetup \/ Retune \/ NoRetune \/ EndTurn
    PROVE  FlagsTyped' /\ PlacesTyped'
  <1> USE DEF FlagsTyped, PlacesTyped, session, flags, remote
  <1>1. CASE EndTask
    BY <1>1 DEF EndTask
  <1>2. CASE Connect
    <2>1. FlagsTyped'
      BY <1>2 DEF Connect
    <2>2. PlacesTyped'
      BY <1>2 DEF Connect
    <2> QED
      BY <2>1, <2>2
  <1>3. CASE NoConnect
    BY <1>3 DEF NoConnect
  <1>4. CASE Greet
    <2>1. FlagsTyped'
      BY <1>4 DEF Greet, FreshSetup
    <2>2. PlacesTyped'
      BY <1>4 DEF Greet, FreshSetup
    <2> QED
      BY <2>1, <2>2
  <1>5. CASE NoGreet
    BY <1>5 DEF NoGreet
  <1>6. CASE Setup
    <2>1. FlagsTyped'
      BY <1>6 DEF Setup, SetupIsDue
    <2>2. PlacesTyped'
      BY <1>6 DEF Setup, SetupIsDue
    <2> QED
      BY <2>1, <2>2
  <1>7. CASE NoSetup
    BY <1>7 DEF NoSetup, SetupIsDue
  <1>8. CASE Retune
    <2>1. FlagsTyped'
      BY <1>8 DEF Retune, Compose
    <2>2. PlacesTyped'
      BY <1>8 DEF Retune, Compose
    <2> QED
      BY <2>1, <2>2
  <1>9. CASE NoRetune
    BY <1>9 DEF NoRetune
  <1>10. CASE EndTurn
    <2>1. FlagsTyped'
      BY <1>10 DEF EndTurn
    <2>2. PlacesTyped'
      BY <1>10 DEF EndTurn
    <2> QED
      BY <2>1, <2>2
  <1> QED
    BY <1>1, <1>2, <1>3, <1>4, <1>5, <1>6, <1>7, <1>8, <1>9, <1>10

\* The task clears the request before it reads the frequency.
LEMMA TurnKeeps ==
    ASSUME SdrInv,
           EndTask \/ Connect \/ NoConnect \/ Greet \/ NoGreet \/ Setup \/
           NoSetup \/ Retune \/ NoRetune \/ EndTurn
    PROVE  SdrSafe'
  <1> USE DEF SdrInv, SdrSafe, ClientOfSession, EventTells, FlagAgrees, ChangeIsKnown,
          ChangeIsAsked, session, flags, remote
  <1>1. CASE EndTask
    BY <1>1 DEF EndTask
  <1>2. CASE Connect
    BY <1>2 DEF Connect
  <1>3. CASE NoConnect
    BY <1>3 DEF NoConnect
  <1>4. CASE Greet
    BY <1>4 DEF Greet, FreshSetup
  <1>5. CASE NoGreet
    BY <1>5 DEF NoGreet
  <1>6. CASE Setup
    BY <1>6 DEF Setup, SetupIsDue
  <1>7. CASE NoSetup
    BY <1>7 DEF NoSetup, SetupIsDue
  <1>8. CASE Retune
    BY <1>8 DEF Retune, Compose
  <1>9. CASE NoRetune
    BY <1>9 DEF NoRetune
  <1>10. CASE EndTurn
    BY <1>10 DEF EndTurn
  <1> QED
    BY <1>1, <1>2, <1>3, <1>4, <1>5, <1>6, <1>7, <1>8, <1>9, <1>10

LEMMA SendTyped ==
    ASSUME FlagsTyped /\ PlacesTyped,
           Auth \/ Arrange \/ SendFirst \/ Send
    PROVE  FlagsTyped' /\ PlacesTyped'
  <1> USE DEF FlagsTyped, PlacesTyped, session, flags, remote
  <1>1. CASE Auth
    <2>1. FlagsTyped'
      BY <1>1 DEF Auth, Sent
    <2>2. PlacesTyped'
      BY <1>1 DEF Auth, Sent
    <2> QED
      BY <2>1, <2>2
  <1>2. CASE Arrange
    <2>1. FlagsTyped'
      BY <1>2 DEF Arrange, Sent, Compose
    <2>2. PlacesTyped'
      BY <1>2 DEF Arrange, Sent, Compose
    <2> QED
      BY <2>1, <2>2
  <1>3. CASE SendFirst
    <2>1. FlagsTyped'
      BY <1>3 DEF SendFirst, Sent
    <2>2. PlacesTyped'
      BY <1>3 DEF SendFirst, Sent
    <2> QED
      BY <2>1, <2>2
  <1>4. CASE Send
    <2>1. FlagsTyped'
      BY <1>4 DEF Send, Sent, Answered
    <2>2. PlacesTyped'
      BY <1>4 DEF Send, Sent, Answered
    <2> QED
      BY <2>1, <2>2
  <1> QED
    BY <1>1, <1>2, <1>3, <1>4

\* A command that arrives tunes the server to what it carries, and the setup
\* is followed by one.
LEMMA SendKeeps ==
    ASSUME SdrInv,
           Auth \/ Arrange \/ SendFirst \/ Send
    PROVE  SdrSafe'
  <1> USE DEF SdrInv, SdrSafe, ClientOfSession, EventTells, FlagAgrees, ChangeIsKnown,
          ChangeIsAsked, session, flags, remote
  <1>1. CASE Auth
    BY <1>1 DEF Auth, Sent
  <1>2. CASE Arrange
    BY <1>2 DEF Arrange, Sent, Compose
  <1>3. CASE SendFirst
    BY <1>3 DEF SendFirst, Sent
  <1>4. CASE Send
    BY <1>4 DEF Send, Sent, Answered
  <1> QED
    BY <1>1, <1>2, <1>3, <1>4

LEMMA EventTyped ==
    ASSUME FlagsTyped /\ PlacesTyped,
           WsOpens \/ WsFails \/ WsLost \/ Tells \/ Asks \/ Reports \/ Announces
           \/ Ages
    PROVE  FlagsTyped' /\ PlacesTyped'
  <1> USE DEF FlagsTyped, PlacesTyped, session, flags, remote
  <1>1. CASE WsOpens
    <2>1. FlagsTyped'
      BY <1>1 DEF WsOpens
    <2>2. PlacesTyped'
      BY <1>1 DEF WsOpens
    <2> QED
      BY <2>1, <2>2
  <1>2. CASE WsFails
    BY <1>2 DEF WsFails
  <1>3. CASE WsLost
    BY <1>3 DEF WsLost
  <1>4. CASE Tells
    BY <1>4 DEF Tells
  <1>5. CASE Asks
    BY <1>5 DEF Asks
  <1>6. CASE Reports
    <2>1. FlagsTyped'
      BY <1>6 DEF Reports
    <2>2. PlacesTyped'
      BY <1>6 DEF Reports
    <2> QED
      BY <2>1, <2>2
  <1>7. CASE Announces
    BY <1>7 DEF Announces
  <1>8. CASE Ages
    BY <1>8 DEF Ages
  <1> QED
    BY <1>1, <1>2, <1>3, <1>4, <1>5, <1>6, <1>7, <1>8

\* The client's task, its handler and the server.
LEMMA EventKeeps ==
    ASSUME SdrInv,
           WsOpens \/ WsFails \/ WsLost \/ Tells \/ Asks \/ Reports \/ Announces
           \/ Ages
    PROVE  SdrSafe'
  <1> USE DEF SdrInv, SdrSafe, ClientOfSession, EventTells, FlagAgrees, ChangeIsKnown,
          ChangeIsAsked, session, flags, remote
  <1>1. CASE WsOpens
    BY <1>1 DEF WsOpens
  <1>2. CASE WsFails
    BY <1>2 DEF WsFails
  <1>3. CASE WsLost
    BY <1>3 DEF WsLost
  <1>4. CASE Tells
    BY <1>4 DEF Tells
  <1>5. CASE Asks
    BY <1>5 DEF Asks
  <1>6. CASE Reports
    BY <1>6 DEF Reports
  <1>7. CASE Announces
    BY <1>7 DEF Announces
  <1>8. CASE Ages
    BY <1>8 DEF Ages
  <1> QED
    BY <1>1, <1>2, <1>3, <1>4, <1>5, <1>6, <1>7, <1>8

LEMMA SdrStepHolds == SdrInv /\ [SdrNext]_sdrVars => SdrInv'
  <1> SUFFICES ASSUME SdrInv, [SdrNext]_sdrVars PROVE FlagsTyped' /\ PlacesTyped' /\ SdrSafe'
    BY DEF SdrInv, SdrTypeOK, FlagsTyped, PlacesTyped
  <1>1. FlagsTyped /\ PlacesTyped
    BY DEF SdrInv, SdrTypeOK, FlagsTyped, PlacesTyped
  <1>2. CASE User
    BY <1>1, <1>2, UserTyped, UserKeeps DEF User
  <1>3. CASE Task
    BY <1>1, <1>3, TurnTyped, TurnKeeps, SendTyped, SendKeeps DEF Task
  <1>4. CASE Handler \/ Remote
    BY <1>1, <1>4, EventTyped, EventKeeps DEF Handler, Remote
  <1>5. CASE UNCHANGED sdrVars
    <2>1. FlagsTyped'
      BY <1>1, <1>5 DEF sdrVars, session, flags, remote, FlagsTyped
    <2>2. PlacesTyped'
      BY <1>1, <1>5 DEF sdrVars, session, flags, remote, PlacesTyped
    <2>3. SdrSafe'
      BY <1>5 DEF sdrVars, session, flags, remote, SdrInv, SdrSafe, ClientOfSession,
                  EventTells, FlagAgrees, ChangeIsKnown, ChangeIsAsked
    <2> QED
      BY <2>1, <2>2, <2>3
  <1> QED
    BY <1>2, <1>3, <1>4, <1>5 DEF SdrNext

LEMMA AlwaysSdrInv == SdrSpec => []SdrInv
  <1> QED
    BY SdrInitHolds, SdrStepHolds, PTL DEF SdrSpec

\* The flags and states of a session of the SDR keep their types.
THEOREM SdrTypeCorrect == SdrSpec => []SdrTypeOK
  <1>1. SdrInv => SdrTypeOK
    BY DEF SdrInv
  <1> QED
    BY <1>1, AlwaysSdrInv, PTL

\* A server that was set up and that no command failed to reach is tuned to
\* what is shown as soon as nothing is under way, wherever a turn falls.
THEOREM TunedAlways == SdrSpec => []TunedAsShown
  <1>1. SdrInv => TunedAsShown
    BY DEF SdrInv, SdrSafe, ChangeIsKnown, ChangeIsAsked, TunedAsShown
  <1> QED
    BY <1>1, AlwaysSdrInv, PTL
=============================================================================

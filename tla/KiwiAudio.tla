----------------------------- MODULE KiwiAudio ------------------------------
(***************************************************************************)
(* The sound of the internet SDR, main/net/kiwisdr_client.cpp: the task of *)
(* the websocket client fills a ring of buffers, kiwi_background_task      *)
(* hands the full ones to the speaker, which plays them from where they    *)
(* are.  A buffer is reused by the state it has, nothing else guards it.   *)
(*                                                                         *)
(* Its top-level names are its own, so that a module may extend another    *)
(* part beside it.                                                         *)
(*                                                                         *)
(* Samples, gain and spectrum are left out; a sample that finds no free    *)
(* buffer is dropped, which changes nothing here.                          *)
(***************************************************************************)
EXTENDS Naturals, Sequences, FiniteSets, SequencesExt

CONSTANTS NBuf,     \* K85_KIWI_NBUF
          BufLen,   \* K85_KIWI_AUDIO_BUF_SAMPLES
          Enough    \* full buffers that start the playing

ASSUME KiwiAudioAssumption ==
    /\ NBuf \in Nat \ {0} /\ BufLen \in Nat \ {0} /\ Enough \in Nat \ {0}

Buffers == 0 .. NBuf - 1

Free == 0
Full == 1
Queued == 2

Next1(b) == (b + 1) % NBuf

VARIABLES bufState,  \* s_buf_state
          fillIdx,   \* s_fill_idx
          fillPos,   \* s_fill_pos
          q,         \* s_q, of s_qn buffers: handed over and not yet reused
          playIdx,   \* s_play_idx
          primed,    \* s_primed
          pl,        \* what the task last heard of the speaker
          at         \* where kiwi_background_task is in its loop
VARIABLES ws,        \* the websocket client delivers frames
          speaker    \* the buffers the speaker plays or will play

task == <<q, playIdx, primed, pl, at>>
fill == <<fillIdx, fillPos>>
ringVars == <<bufState, fill, task, ws, speaker>>

RingInit ==
    /\ bufState = [b \in Buffers |-> Free]
    /\ fillIdx = 0 /\ fillPos = 0
    /\ q = <<>> /\ playIdx = 0 /\ primed = FALSE /\ pl = 0 /\ at = "off"
    /\ ws = FALSE /\ speaker = <<>>

-----------------------------------------------------------------------------
(* The websocket client's task.                                            *)

\* Bug to catch: only a full buffer is spared, not one that is being played.
SampleSparesFull(b) == bufState[b] # Full

\* One turn of the loop of handle_audio_frame that finds a free buffer.
MayFill(b) == bufState[b] = Free

Sample ==
    /\ ws /\ MayFill(fillIdx)
    /\ IF fillPos + 1 >= BufLen
       THEN /\ bufState' = [bufState EXCEPT ![fillIdx] = Full]
            /\ fillIdx' = Next1(fillIdx) /\ fillPos' = 0
       ELSE fillPos' = fillPos + 1 /\ UNCHANGED <<bufState, fillIdx>>
    /\ UNCHANGED <<task, ws, speaker>>

-----------------------------------------------------------------------------
(* The background task.                                                    *)

\* The task starts with an empty ring.  The speaker has finished what an
\* earlier session left: two buffers last 171 ms, and the menus, the connect
\* and the first pause of do_setup_internal come before the next frame.
Restart ==
    /\ at = "off" /\ ~ws /\ speaker = <<>>
    /\ bufState' = [b \in Buffers |-> Free]
    /\ fillIdx' = 0 /\ fillPos' = 0
    /\ q' = <<>> /\ playIdx' = 0 /\ primed' = FALSE
    /\ at' = "look"
    /\ UNCHANGED <<pl, ws, speaker>>

\* isPlaying: the buffers the speaker has, of two at most.
Look ==
    /\ at = "look"
    /\ pl' = Len(speaker)
    /\ at' = "release"
    /\ UNCHANGED <<bufState, fill, q, playIdx, primed, ws, speaker>>

\* Bug to catch: buffers are released only while the speaker plays.
ReleasePlaying(b) ==
    /\ Len(q) > pl /\ pl > 0
    /\ b = Head(q)

\* The oldest buffer is released when the speaker has fewer than were queued.
MayRelease(b) ==
    /\ Len(q) > pl
    /\ b = Head(q)

Release ==
    /\ at = "release"
    /\ \E b \in Buffers :
           /\ MayRelease(b)
           /\ bufState' = [bufState EXCEPT ![b] = Free]
    /\ q' = Tail(q)
    /\ UNCHANGED <<fill, playIdx, primed, pl, at, ws, speaker>>

ready == Cardinality({b \in Buffers : bufState[b] = Full})

\* s_primed is set by enough full buffers and cleared when all has been played.
Prime ==
    /\ at = "release" /\ ~ \E b \in Buffers : MayRelease(b)
    /\ primed' = IF pl = 0 /\ ready = 0 THEN FALSE ELSE primed \/ ready >= Enough
    /\ at' = "play"
    /\ UNCHANGED <<bufState, fill, q, playIdx, pl, ws, speaker>>

MayPlay == primed /\ pl < 2 /\ bufState[playIdx] = Full

Play ==
    /\ at = "play" /\ MayPlay
    /\ speaker' = Append(speaker, playIdx)
    /\ bufState' = [bufState EXCEPT ![playIdx] = Queued]
    /\ q' = Append(q, playIdx)
    /\ playIdx' = Next1(playIdx)
    /\ pl' = pl + 1
    /\ UNCHANGED <<fill, primed, at, ws>>

\* The rest of the loop, with its pause.
Pause ==
    /\ at = "play" /\ ~MayPlay
    /\ at' = "look"
    /\ UNCHANGED <<bufState, fill, q, playIdx, primed, pl, ws, speaker>>

\* The loop ends when s_kiwi_task_running is found cleared.
End ==
    /\ at = "look"
    /\ at' = "off"
    /\ UNCHANGED <<bufState, fill, q, playIdx, primed, pl, ws, speaker>>

-----------------------------------------------------------------------------
(* The connection and the speaker.                                         *)

\* do_connect_internal, at the head of the loop.
Connects ==
    /\ at = "look" /\ ~ws
    /\ ws' = TRUE
    /\ UNCHANGED <<bufState, fill, task, speaker>>

\* The connection is lost.
Drops ==
    /\ at # "off" /\ ws
    /\ ws' = FALSE
    /\ UNCHANGED <<bufState, fill, task, speaker>>

\* The end of run_session: the client goes, then the speaker is stopped; a
\* session that was left while it was connecting does not stop the speaker.
EndSession ==
    /\ at = "off" /\ ws
    /\ ws' = FALSE
    /\ speaker' \in {speaker, <<>>}
    /\ UNCHANGED <<bufState, fill, task>>

Played ==
    /\ speaker # <<>>
    /\ speaker' = Tail(speaker)
    /\ UNCHANGED <<bufState, fill, task, ws>>

Loop == Look \/ Release \/ Prime \/ Play \/ Pause

RingNext == \/ Sample \/ Restart \/ Loop \/ End \/ Connects \/ Drops \/ EndSession \/ Played

RingSpec == RingInit /\ [][RingNext]_ringVars

\* The task is scheduled, and the speaker plays what it has.
RingFairness == WF_ringVars(Loop) /\ WF_ringVars(Played)

RingFairSpec == RingSpec /\ RingFairness

-----------------------------------------------------------------------------
(* Properties.                                                             *)

RingTypeOK ==
    /\ bufState \in [Buffers -> {Free, Full, Queued}]
    /\ fillIdx \in Buffers /\ fillPos \in 0 .. BufLen - 1
    /\ q \in Seq(Buffers) /\ Len(q) <= 2
    /\ playIdx \in Buffers /\ primed \in BOOLEAN /\ pl \in 0 .. 2
    /\ at \in {"off", "look", "release", "play"}
    /\ ws \in BOOLEAN /\ speaker \in Seq(Buffers) /\ Len(speaker) <= 2

\* No sample is written to a buffer that the speaker still plays ("a buffer is
\* reused only after the speaker has finished playing it").
NotOverwritten == [][Sample => fillIdx \notin Range(speaker)]_ringVars

\* As long as the server goes on sending and the session lasts, something is
\* heard again and again: the ring never comes to rest with full buffers.
SoundGoesOn ==
    <>[](ws /\ at # "off") /\ WF_ringVars(Sample) => []<>(speaker # <<>>)
=============================================================================

----------------------------- MODULE PushToTalk -----------------------------
(***************************************************************************)
(* The times of push-to-talk: ButtonDebouncer (button_debouncer.h),        *)
(* AudioFramePacer (audio_frame_pacer.h) and the two limits of a recording *)
(* (esp32_voice_kit.ino), all of them differences of millis(), a counter   *)
(* that wraps.  VoiceRuntime uses the debounced edges and lets deadlines   *)
(* pass; here the arithmetic behind them is checked.                       *)
(*                                                                         *)
(* One step per reading of the clock: `phase' is the next one.  Before     *)
(* each of them up to MaxStall passes, for the main loop blocks in reads   *)
(* and sends.  held, age and gap are history: the real times, not taken    *)
(* from the clock.                                                         *)
(***************************************************************************)
EXTENDS Integers

CONSTANTS
  ClockSize,      \* millis() counts modulo this (2^32)
  Debounce,       \* debounce_ms (40)
  Period,         \* kRealtimeFrameDurationMs (20)
  MinRecording,   \* kMinimumRecordingMs (300)
  MaxRecording,   \* kMaximumRecordingMs (10000)
  MaxStall        \* bound: what passes between two readings

\* The clock does not come round within one recording that the maximum bounds,
\* or within one debouncing.
ASSUME ClockAssumption ==
  /\ {ClockSize, Debounce, Period, MinRecording, MaxRecording} \subseteq Nat \ {0}
  /\ MaxStall \in Nat
  /\ MinRecording <= MaxRecording
  /\ Debounce + 5 * MaxStall < ClockSize
  /\ Period + MaxRecording + 5 * MaxStall < ClockSize

VARIABLES
  now,                      \* the clock
  phase,                    \* what reads it next
  stable, candidate, since, \* stable_level_, candidate_level_ (TRUE: HIGH,
                            \* pressed), candidate_since_ms_
  state,                    \* of voice_turn, as far as recordings go
  mic,                      \* microphone_running
  started,                  \* recording_started_ms
  lastSent, frames,         \* last_sent_ms_, streamed_frames
  held,                     \* the button was first read so, so long ago
  age,                      \* the recording began so long ago, Aged or longer
  gap                       \* the last frame was sent so long ago

debouncer == <<stable, candidate, since>>
recording == <<state, mic, started, lastSent, frames>>
history   == <<held, age, gap>>
vars      == <<now, phase, debouncer, recording, history>>

Times  == 0..(ClockSize - 1)
Phases == {"button", "begin", "limit", "finish", "frame"}
States == {"Idle", "Recording", "Waiting"}

\* The maximum, and what passes until a recording is looked at again.
Aged == MaxRecording + 3 * MaxStall

TypeOK ==
  /\ now \in Times /\ phase \in Phases
  /\ stable \in BOOLEAN /\ candidate \in BOOLEAN /\ since \in Times
  /\ state \in States /\ mic \in BOOLEAN /\ started \in Times
  /\ lastSent \in Times /\ frames \in Nat
  /\ held \in 0..Debounce
  /\ age \in 0..Aged
  /\ gap \in 0..Period

Least(a, b) == IF a <= b THEN a ELSE b

-----------------------------------------------------------------------------
(* Unsigned arithmetic.                                                    *)

Later(t, d) == IF t + d < ClockSize THEN t + d ELSE t + d - ClockSize

Earlier(t, d) == IF d <= t THEN t - d ELSE t + ClockSize - d

\* Mutant of Elapsed: the difference of a clock that does not wrap.
Difference(t, s) == IF s <= t THEN t - s ELSE 0

\* static_cast<uint32_t>(t - s)
Elapsed(t, s) == IF s <= t THEN t - s ELSE t + ClockSize - s

\* setup() begins the debouncer with the level it reads; if the button is
\* held down by then there is no edge until it was released.
Init ==
  /\ now \in Times /\ phase = "button"
  /\ stable \in BOOLEAN /\ candidate = stable /\ since = now
  /\ state = "Idle" /\ mic = FALSE /\ started = 0 /\ lastSent = 0 /\ frames = 0
  /\ held = 0 /\ age = 0 /\ gap = 0

\* d passes, and the clock is read.
Reads(p, d) ==
  /\ phase = p
  /\ now' = Later(now, d)
  /\ age' = IF state = "Recording" THEN Least(Aged, age + d) ELSE age
  /\ gap' = Least(Period, gap + d)

HeldOn(d) == held' = Least(Debounce, held + d)

-----------------------------------------------------------------------------
(* serviceButton()                                                         *)

\* serviceRecording() does nothing outside a recording, and nothing in one
\* whose microphone does not run any more.
AfterButton == IF state = "Recording" /\ mic THEN "limit" ELSE "button"

\* Mutant of Bounces: the time of the first edge is kept.
BouncesOn(level, d) ==
  /\ Reads("button", d) /\ phase' = AfterButton
  /\ level # candidate
  /\ candidate' = level
  /\ held' = 0
  /\ UNCHANGED <<stable, since, recording>>

\* The level differs from the last one read.
Bounces(level, d) ==
  /\ Reads("button", d) /\ phase' = AfterButton
  /\ level # candidate
  /\ candidate' = level /\ since' = now'
  /\ held' = 0
  /\ UNCHANGED <<stable, recording>>

Settles(level) ==
  level = candidate /\ level # stable /\ Elapsed(now', since) >= Debounce

Steady(level, d) ==
  /\ Reads("button", d) /\ phase' = AfterButton
  /\ level = candidate /\ ~Settles(level)
  /\ HeldOn(d)
  /\ UNCHANGED <<debouncer, recording>>

\* An edge; the session may not be ready for a press.
Edge(level, d) ==
  /\ Reads("button", d)
  /\ Settles(level)
  /\ stable' = level
  /\ HeldOn(d)
  /\ \/ level /\ state = "Idle" /\ phase' = "begin"
     \/ ~level /\ state = "Recording" /\ phase' = "finish"
     \/ (level \/ state # "Recording") /\ phase' = AfterButton
  /\ UNCHANGED <<candidate, since, recording>>

\* Mutant of BeginRecording: the pacer is not reset.
BeginWithoutReset(d) ==
  /\ phase = "begin" /\ phase' = "limit"
  /\ now' = Later(now, d)
  /\ state' = "Recording" /\ mic' = TRUE /\ frames' = 0 /\ started' = now'
  /\ age' = 0 /\ gap' = Period
  /\ HeldOn(d)
  /\ UNCHANGED <<debouncer, lastSent>>

\* beginRecording(), after the microphone and the server were started.
BeginRecording(d) ==
  /\ phase = "begin" /\ phase' = "limit"
  /\ now' = Later(now, d)
  /\ state' = "Recording" /\ mic' = TRUE /\ frames' = 0
  /\ started' = now' /\ lastSent' = Earlier(now', Period)
  /\ age' = 0 /\ gap' = Period
  /\ HeldOn(d)
  /\ UNCHANGED debouncer

\* finishRecording(), after the bus was stopped.
TooShort(t) == Elapsed(t, started) < MinRecording \/ frames = 0

FinishRecording(d) ==
  /\ Reads("finish", d) /\ phase' = "button"
  /\ state' = IF TooShort(now') THEN "Idle" ELSE "Waiting"
  /\ mic' = FALSE
  /\ HeldOn(d)
  /\ UNCHANGED <<debouncer, started, lastSent, frames>>

-----------------------------------------------------------------------------
(* serviceRecording()                                                      *)

\* Then up to a frame is read; part of one is left for the next pass.
CheckLimit(d) ==
  /\ Reads("limit", d)
  /\ IF Elapsed(now', started) >= MaxRecording
       THEN phase' = "finish"
       ELSE phase' \in {"button", "frame"}
  /\ HeldOn(d)
  /\ UNCHANGED <<debouncer, recording>>

FrameHeldBack(d) ==
  /\ Reads("frame", d) /\ phase' = "button"
  /\ Elapsed(now', lastSent) < Period
  /\ HeldOn(d)
  /\ UNCHANGED <<debouncer, recording>>

FrameSent(d) ==
  /\ phase = "frame" /\ phase' = "button"
  /\ now' = Later(now, d)
  /\ Elapsed(now', lastSent) >= Period
  /\ lastSent' = now' /\ frames' = frames + 1
  /\ age' = Least(Aged, age + d) /\ gap' = 0
  /\ HeldOn(d)
  /\ UNCHANGED <<debouncer, state, mic, started>>

\* Audio nobody waits for: startSpeaker() takes the bus from the microphone
\* before the button is looked at, and the recording goes on without it.
SpeakerTakesBus ==
  /\ phase = "button" /\ mic
  /\ mic' = FALSE
  /\ UNCHANGED <<now, phase, debouncer, state, started, lastSent, frames,
                 history>>

\* The runtime fails, here or elsewhere in the loop, or a reply ends.
TurnEnds ==
  /\ state # "Idle" \/ phase = "begin"
  /\ state' = "Idle" /\ mic' = FALSE /\ phase' = "button"
  /\ UNCHANGED <<now, debouncer, started, lastSent, frames, history>>

-----------------------------------------------------------------------------
Next ==
  \/ \E d \in 0..MaxStall :
       \/ \E level \in BOOLEAN :
            Bounces(level, d) \/ Steady(level, d) \/ Edge(level, d)
       \/ BeginRecording(d) \/ FinishRecording(d) \/ CheckLimit(d)
       \/ FrameHeldBack(d) \/ FrameSent(d)
  \/ SpeakerTakesBus \/ TurnEnds

Spec == Init /\ [][Next]_vars

-----------------------------------------------------------------------------
\* An edge is reported only if every reading of the button within the
\* debouncing time showed the new level, wherever the clock stood; and it is
\* reported then: no reading of a level that has been read for that long ends
\* without the edge, not even if the clock wrapped in between.
Debounced ==
  [][/\ stable' # stable => held' >= Debounce
     /\ phase = "button" /\ state' = state /\ mic' = mic /\ held' >= Debounce =>
          stable' = candidate']_vars

\* A recording is committed only after the minimum it has to last, and no
\* recording whose microphone runs lasts longer than the maximum and one pass
\* of the main loop.  One that lost the bus to audio nobody waits for has no
\* maximum: serviceRecording() returns before it looks at the time, and only
\* the release of the button or a failure ends it.
RecordingWithinLimits ==
  /\ state = "Waiting" => age >= MinRecording
  /\ mic => state = "Recording" /\ age < Aged

\* Frames leave at least a period apart, also after the loop was held up; and
\* only the frame before it, in the same recording and less than a period ago,
\* holds a frame back: what the pacer remembers of the last recording does not.
FramesSpaced ==
  [][/\ frames' = frames + 1 /\ frames > 0 => gap + Elapsed(now', now) >= Period
     /\ phase = "frame" /\ phase' = "button" /\ state' = state /\ frames' = frames =>
          frames > 0 /\ gap + Elapsed(now', now) < Period]_vars
=============================================================================

------------------------- MODULE PushToTalk_proofs -------------------------
(***************************************************************************)
(* The times of push-to-talk are right for every size of the counter, and  *)
(* wherever it stands, as long as it does not come round within one        *)
(* recording whose microphone runs.  Elapsed is opened in the first lemmas only; after that the  *)
(* proof is about real times.                                              *)
(***************************************************************************)
EXTENDS PushToTalk, TLAPS

\* How long a recording may have lasted when the clock was last read, by what
\* reads it next.  Without its microphone it may outlast the clock, which then
\* tells too little.
AgeInv ==
  /\ phase = "begin" => state = "Idle"
  /\ phase \in {"limit", "frame"} => mic
  /\ phase = "finish" => state = "Recording"
  /\ mic =>
       /\ state = "Recording"
       /\ Elapsed(now, started) = age
       /\ phase = "frame"  => age < MaxRecording
       /\ phase = "button" => age < MaxRecording + MaxStall
       /\ phase = "limit"  => age < MaxRecording + 2 * MaxStall
       /\ phase = "finish" => age < MaxRecording + 3 * MaxStall
  /\ state = "Recording" => age = Aged \/ Elapsed(now, started) <= age
  /\ state = "Waiting" => age >= MinRecording

\* While a level is not settled, the clock tells how long it has been read.
HeldInv ==
  candidate # stable =>
    /\ phase # "begin"
    /\ held = Least(Debounce, Elapsed(now, since))
    /\ phase = "limit" => Elapsed(now, since) < Debounce
    /\ phase \in {"frame", "finish"} => Elapsed(now, since) < Debounce + MaxStall
    /\ phase = "button" => Elapsed(now, since) < Debounce + 2 * MaxStall

\* While the microphone runs, the clock tells how long ago the last frame was
\* sent.
GapInv ==
  mic =>
    /\ gap = Least(Period, Elapsed(now, lastSent))
    /\ Elapsed(now, lastSent) <= Period + age
    /\ frames = 0 => Elapsed(now, lastSent) = Period + age

Inv == TypeOK /\ AgeInv /\ HeldInv /\ GapInv

-----------------------------------------------------------------------------
\* A difference is a time (button_debouncer.h:34).
LEMMA ElapsedType ==
  ASSUME NEW t \in Times, NEW s \in Times
  PROVE  Elapsed(t, s) \in Nat /\ Elapsed(t, s) < ClockSize
BY ClockAssumption DEF Times, Elapsed

\* What passes is added to every difference that does not reach the counter's
\* size.
LEMMA ElapsedLater ==
  ASSUME NEW t \in Times, NEW s \in Times, NEW d \in Nat,
         Elapsed(t, s) + d < ClockSize
  PROVE  Later(t, d) \in Times /\ Elapsed(Later(t, d), s) = Elapsed(t, s) + d
BY ClockAssumption DEF Times, Elapsed, Later

\* And to no difference is more added than what passes.
LEMMA ElapsedAtMost ==
  ASSUME NEW t \in Times, NEW s \in Times, NEW d \in 0..MaxStall
  PROVE  Elapsed(Later(t, d), s) <= Elapsed(t, s) + d
BY ClockAssumption DEF Times, Elapsed, Later

\* A time that was just stored is no time ago.
LEMMA ElapsedSelf == \A t \in Times : Elapsed(t, t) = 0
BY ClockAssumption DEF Times, Elapsed

\* AudioFramePacer::reset() makes the last frame a period old.
LEMMA ElapsedEarlier ==
  ASSUME NEW t \in Times
  PROVE  Earlier(t, Period) \in Times /\ Elapsed(t, Earlier(t, Period)) = Period
BY ClockAssumption DEF Times, Elapsed, Earlier

\* The clock after a reading.
LEMMA LaterType ==
  ASSUME NEW t \in Times, NEW d \in 0..MaxStall
  PROVE  Later(t, d) \in Times /\ Elapsed(Later(t, d), t) = d
BY ClockAssumption DEF Times, Later, Elapsed

-----------------------------------------------------------------------------
\* What a reading after d finds of the three times that are taken.
LEMMA Readings ==
  ASSUME Inv, NEW d \in 0..MaxStall
  PROVE  /\ now \in Times /\ d \in Nat /\ d <= MaxStall
         /\ Later(now, d) \in Times
         /\ Elapsed(Later(now, d), now) = d
         /\ Elapsed(Later(now, d), started) <= Elapsed(now, started) + d
         /\ Elapsed(now, started) \in Nat
         /\ Elapsed(Later(now, d), started) \in Nat
         /\ Aged \in Nat /\ MinRecording <= Aged
         /\ mic =>
              /\ Elapsed(Later(now, d), started) = age + d
              /\ Elapsed(Later(now, d), lastSent) = Elapsed(now, lastSent) + d
         /\ candidate # stable =>
              Elapsed(Later(now, d), since) = Elapsed(now, since) + d
         /\ Elapsed(now, since) \in Nat /\ Elapsed(now, lastSent) \in Nat
<1>1. now \in Times /\ since \in Times /\ started \in Times
      /\ lastSent \in Times /\ age \in Nat /\ phase \in Phases
  BY DEF Inv, TypeOK
<1>a. /\ Elapsed(Later(now, d), started) <= Elapsed(now, started) + d
      /\ Elapsed(now, started) \in Nat
      /\ Elapsed(Later(now, d), started) \in Nat
  BY <1>1, ElapsedAtMost, ElapsedType, LaterType
<1>b. Aged \in Nat /\ MinRecording <= Aged
  BY ClockAssumption DEF Aged
<1>2. d \in Nat /\ d <= MaxStall /\ MaxStall \in Nat
  BY ClockAssumption
<1>3. /\ Elapsed(now, since) \in Nat /\ Elapsed(now, lastSent) \in Nat
  BY <1>1, ElapsedType
<1>4. ASSUME mic
      PROVE  /\ Elapsed(Later(now, d), started) = age + d
             /\ Elapsed(Later(now, d), lastSent) = Elapsed(now, lastSent) + d
  <2>1. Elapsed(now, started) = age /\ age < MaxRecording + 3 * MaxStall
    BY <1>1, <1>2, <1>4, ClockAssumption DEF Inv, AgeInv, Phases
  <2>2. Elapsed(now, lastSent) <= Period + age
    BY <1>4 DEF Inv, GapInv
  <2>3. Elapsed(now, started) + d < ClockSize
        /\ Elapsed(now, lastSent) + d < ClockSize
    BY <1>1, <1>2, <1>3, <2>1, <2>2, ClockAssumption
  <2> QED
    BY <1>1, <1>2, <2>1, <2>3, ElapsedLater
<1>5. ASSUME candidate # stable
      PROVE  Elapsed(Later(now, d), since) = Elapsed(now, since) + d
  <2>1. Elapsed(now, since) + d < ClockSize
    BY <1>1, <1>2, <1>3, <1>5, ClockAssumption DEF Inv, HeldInv, Phases
  <2> QED
    BY <1>1, <1>2, <2>1, ElapsedLater
<1> QED
  BY <1>1, <1>2, <1>3, <1>4, <1>5, <1>a, <1>b, LaterType

-----------------------------------------------------------------------------
LEMMA InitInv == Init => Inv
<1> SUFFICES ASSUME Init PROVE Inv
  OBVIOUS
<1>0. 0 \in 0..Aged /\ 0 \in 0..Debounce /\ 0 \in 0..Period /\ 0 \in Times
  BY ClockAssumption DEF Aged, Times
<1>1. TypeOK
  BY <1>0 DEF Init, TypeOK, Phases, States
<1>2. AgeInv
  BY ClockAssumption DEF Init, AgeInv
<1> QED
  BY <1>1, <1>2 DEF Inv, Init, HeldInv, GapInv

\* Each step below: how the times move, then the parts of the invariant.
LEMMA BouncesInv ==
  ASSUME Inv, NEW level \in BOOLEAN, NEW d \in 0..MaxStall, Bounces(level, d)
  PROVE  Inv'
<1>1. now' = Later(now, d)
  BY DEF Bounces, Reads
<1>2. TypeOK'
  BY <1>1, Readings, ClockAssumption
     DEF Inv, TypeOK, AgeInv, Bounces, Reads, AfterButton, Least, Phases,
         recording
<1>3. AgeInv' /\ GapInv'
  BY <1>1, Readings, ClockAssumption
     DEF Inv, TypeOK, Aged, AgeInv, GapInv, Bounces, Reads, AfterButton, Least,
         Phases, recording
<1>4. Elapsed(now', since') = 0
  BY <1>1, Readings, ElapsedSelf DEF Bounces
<1>5. HeldInv'
  BY <1>4, ClockAssumption
     DEF HeldInv, Bounces, Reads, AfterButton, Least
<1> QED
  BY <1>2, <1>3, <1>5 DEF Inv

LEMMA SteadyInv ==
  ASSUME Inv, NEW level \in BOOLEAN, NEW d \in 0..MaxStall, Steady(level, d)
  PROVE  Inv'
<1>1. now' = Later(now, d)
  BY DEF Steady, Reads
<1>2. TypeOK'
  BY <1>1, Readings, ClockAssumption
     DEF Inv, TypeOK, AgeInv, Steady, Reads, AfterButton, HeldOn, Least,
         Phases, debouncer, recording
<1>3. AgeInv' /\ GapInv'
  BY <1>1, Readings, ClockAssumption
     DEF Inv, TypeOK, Aged, AgeInv, GapInv, Steady, Reads, AfterButton, Least,
         Phases, recording
<1>4. HeldInv'
  BY <1>1, Readings, ClockAssumption
     DEF Inv, TypeOK, HeldInv, Steady, Settles, Reads, AfterButton, HeldOn,
         Least, debouncer
<1> QED
  BY <1>2, <1>3, <1>4 DEF Inv

LEMMA EdgeInv ==
  ASSUME Inv, NEW level \in BOOLEAN, NEW d \in 0..MaxStall, Edge(level, d)
  PROVE  Inv'
<1>1. now' = Later(now, d)
  BY DEF Edge, Reads
<1>2. TypeOK'
  BY <1>1, Readings, ClockAssumption
     DEF Inv, TypeOK, AgeInv, Edge, Reads, AfterButton, HeldOn, Least,
         Phases, recording
<1>3. AgeInv' /\ GapInv'
  BY <1>1, Readings, ClockAssumption
     DEF Inv, TypeOK, Aged, AgeInv, GapInv, Edge, Reads, AfterButton, Least,
         Phases, recording
<1>4. HeldInv'
  BY DEF HeldInv, Edge, Settles
<1> QED
  BY <1>2, <1>3, <1>4 DEF Inv

LEMMA BeginInv ==
  ASSUME Inv, NEW d \in 0..MaxStall, BeginRecording(d)
  PROVE  Inv'
<1>1. now' = Later(now, d) /\ now' \in Times
  BY Readings DEF BeginRecording
<1>2. /\ Elapsed(now', started') = 0
      /\ lastSent' \in Times /\ Elapsed(now', lastSent') = Period
  BY <1>1, ElapsedSelf, ElapsedEarlier DEF BeginRecording
<1>3. TypeOK'
  BY <1>1, <1>2, Readings, ClockAssumption
     DEF Inv, TypeOK, Aged, BeginRecording, HeldOn, Least, Phases, States,
         debouncer
<1>4. AgeInv' /\ GapInv'
  BY <1>1, <1>2, ClockAssumption
     DEF Aged, AgeInv, GapInv, BeginRecording, Least
<1>5. HeldInv'
  BY DEF Inv, HeldInv, BeginRecording, debouncer
<1> QED
  BY <1>3, <1>4, <1>5 DEF Inv

LEMMA FinishInv ==
  ASSUME Inv, NEW d \in 0..MaxStall, FinishRecording(d)
  PROVE  Inv'
<1>1. now' = Later(now, d)
  BY DEF FinishRecording, Reads
<1>0. state' \in States /\ mic' \in BOOLEAN /\ phase' \in Phases
  BY DEF FinishRecording, States, Phases
<1>2. TypeOK'
  BY <1>0, <1>1, Readings, ClockAssumption
     DEF Inv, TypeOK, FinishRecording, Reads, HeldOn, Least, debouncer
<1>3. AgeInv' /\ GapInv'
  BY <1>1, Readings, ClockAssumption
     DEF Inv, TypeOK, Aged, AgeInv, GapInv, FinishRecording, TooShort, Reads, Least,
         Phases
<1>4. HeldInv'
  BY <1>1, Readings, ClockAssumption
     DEF Inv, TypeOK, HeldInv, FinishRecording, Reads, HeldOn, Least, debouncer
<1> QED
  BY <1>2, <1>3, <1>4 DEF Inv

LEMMA LimitInv ==
  ASSUME Inv, NEW d \in 0..MaxStall, CheckLimit(d)
  PROVE  Inv'
<1>1. now' = Later(now, d)
  BY DEF CheckLimit, Reads
<1>2. TypeOK'
  BY <1>1, Readings, ClockAssumption
     DEF Inv, TypeOK, AgeInv, CheckLimit, Reads, HeldOn, Least, Phases,
         debouncer, recording
<1>3. AgeInv' /\ GapInv'
  BY <1>1, Readings, ClockAssumption
     DEF Inv, TypeOK, Aged, AgeInv, GapInv, CheckLimit, Reads, Least, Phases,
         recording
<1>4. HeldInv'
  BY <1>1, Readings, ClockAssumption
     DEF Inv, TypeOK, HeldInv, CheckLimit, Reads, HeldOn, Least, debouncer
<1> QED
  BY <1>2, <1>3, <1>4 DEF Inv

LEMMA FrameHeldBackInv ==
  ASSUME Inv, NEW d \in 0..MaxStall, FrameHeldBack(d)
  PROVE  Inv'
<1>1. now' = Later(now, d)
  BY DEF FrameHeldBack, Reads
<1>2. TypeOK'
  BY <1>1, Readings, ClockAssumption
     DEF Inv, TypeOK, AgeInv, FrameHeldBack, Reads, HeldOn, Least, Phases,
         debouncer, recording
<1>3. AgeInv' /\ GapInv'
  BY <1>1, Readings, ClockAssumption
     DEF Inv, TypeOK, Aged, AgeInv, GapInv, FrameHeldBack, Reads, Least, Phases,
         recording
<1>4. HeldInv'
  BY <1>1, Readings, ClockAssumption
     DEF Inv, TypeOK, HeldInv, FrameHeldBack, Reads, HeldOn, Least, debouncer
<1> QED
  BY <1>2, <1>3, <1>4 DEF Inv

LEMMA FrameSentInv ==
  ASSUME Inv, NEW d \in 0..MaxStall, FrameSent(d)
  PROVE  Inv'
<1>1. now' = Later(now, d) /\ now' \in Times
  BY Readings DEF FrameSent
<1>2. Elapsed(now', lastSent') = 0
  BY <1>1, ElapsedSelf DEF FrameSent
<1>3. TypeOK'
  BY <1>1, Readings, ClockAssumption
     DEF Inv, TypeOK, AgeInv, FrameSent, HeldOn, Least, Phases, debouncer
<1>4. AgeInv' /\ GapInv'
  BY <1>1, <1>2, Readings, ClockAssumption
     DEF Inv, TypeOK, Aged, AgeInv, GapInv, FrameSent, Least, Phases
<1>5. HeldInv'
  BY <1>1, Readings, ClockAssumption
     DEF Inv, TypeOK, HeldInv, FrameSent, HeldOn, Least, debouncer
<1> QED
  BY <1>3, <1>4, <1>5 DEF Inv

LEMMA SpeakerInv == Inv /\ SpeakerTakesBus => Inv'
<1> SUFFICES ASSUME Inv, SpeakerTakesBus PROVE Inv'
  OBVIOUS
<1>1. TypeOK'
  BY DEF Inv, TypeOK, SpeakerTakesBus, debouncer, history
<1>2. AgeInv' /\ GapInv'
  BY ElapsedType
     DEF Inv, TypeOK, Aged, AgeInv, GapInv, SpeakerTakesBus, history
<1>3. HeldInv'
  BY DEF Inv, HeldInv, SpeakerTakesBus, debouncer, history
<1> QED
  BY <1>1, <1>2, <1>3 DEF Inv

LEMMA TurnEndsInv == Inv /\ TurnEnds => Inv'
<1> SUFFICES ASSUME Inv, TurnEnds PROVE Inv'
  OBVIOUS
<1>1. TypeOK'
  BY DEF Inv, TypeOK, TurnEnds, debouncer, history, Phases, States
<1>2. AgeInv' /\ GapInv'
  BY DEF Inv, AgeInv, GapInv, TurnEnds, history
<1>3. HeldInv'
  BY ElapsedType, ClockAssumption
     DEF Inv, TypeOK, HeldInv, TurnEnds, debouncer, history, Phases
<1> QED
  BY <1>1, <1>2, <1>3 DEF Inv

LEMMA StepInv == Inv /\ [Next]_vars => Inv'
<1> SUFFICES ASSUME Inv, [Next]_vars PROVE Inv'
  OBVIOUS
<1>1. CASE \E d \in 0..MaxStall : \E level \in BOOLEAN :
             Bounces(level, d) \/ Steady(level, d) \/ Edge(level, d)
  BY <1>1, BouncesInv, SteadyInv, EdgeInv
<1>2. CASE \E d \in 0..MaxStall :
             \/ BeginRecording(d) \/ FinishRecording(d) \/ CheckLimit(d)
             \/ FrameHeldBack(d) \/ FrameSent(d)
  BY <1>2, BeginInv, FinishInv, LimitInv, FrameHeldBackInv, FrameSentInv
<1>3. CASE SpeakerTakesBus \/ TurnEnds
  BY <1>3, SpeakerInv, TurnEndsInv
<1>4. CASE UNCHANGED vars
  BY <1>4 DEF Inv, TypeOK, AgeInv, HeldInv, GapInv, vars, debouncer, recording,
              history
<1> QED
  BY <1>1, <1>2, <1>3, <1>4 DEF Next

LEMMA Invariance == Spec => []Inv
BY InitInv, StepInv, PTL DEF Spec

-----------------------------------------------------------------------------
\* Every time stored is a time of the clock, and the history stays within its
\* bounds (button_debouncer.h, audio_frame_pacer.h).
THEOREM PushToTalkTypeCorrect == Spec => []TypeOK
<1>1. Inv => TypeOK
  BY DEF Inv
<1> QED
  BY <1>1, Invariance, PTL

\* The limits of a recording hold in real time, wherever the counter wraps:
\* the minimum of every one, the maximum as long as its microphone runs
\* (esp32_voice_kit.ino:222-224, 243-252).
THEOREM RecordingsWithinLimits == Spec => []RecordingWithinLimits
<1>1. Inv => RecordingWithinLimits
  BY ClockAssumption
     DEF Inv, TypeOK, AgeInv, Phases, Aged, RecordingWithinLimits
<1> QED
  BY <1>1, Invariance, PTL

\* An edge is reported after the debouncing time and not before
\* (button_debouncer.h:28-40).
THEOREM EdgesDebounced == Spec => Debounced
<1>1. ASSUME Inv, Next
      PROVE  /\ stable' # stable => held' >= Debounce
             /\ phase = "button" /\ state' = state /\ mic' = mic
                  /\ held' >= Debounce =>
                  stable' = candidate'
  <2>1. CASE \E d \in 0..MaxStall : \E level \in BOOLEAN : Bounces(level, d)
    BY <2>1, ClockAssumption DEF Bounces
  <2>2. CASE \E d \in 0..MaxStall : \E level \in BOOLEAN : Steady(level, d)
    <3>1. PICK d \in 0..MaxStall, level \in BOOLEAN : Steady(level, d)
      BY <2>2
    <3>2. now' = Later(now, d) /\ UNCHANGED debouncer
      BY <3>1 DEF Steady, Reads
    <3> QED
      BY <1>1, <3>1, <3>2, Readings, ClockAssumption
         DEF Inv, TypeOK, HeldInv, Steady, Settles, HeldOn, Least, debouncer
  <2>3. CASE \E d \in 0..MaxStall : \E level \in BOOLEAN : Edge(level, d)
    <3>1. PICK d \in 0..MaxStall, level \in BOOLEAN : Edge(level, d)
      BY <2>3
    <3>2. now' = Later(now, d)
      BY <3>1 DEF Edge, Reads
    <3> QED
      BY <1>1, <3>1, <3>2, Readings, ClockAssumption
         DEF Inv, TypeOK, HeldInv, Edge, Settles, HeldOn, Least
  <2>4. CASE \E d \in 0..MaxStall :
               \/ BeginRecording(d) \/ FinishRecording(d) \/ CheckLimit(d)
               \/ FrameHeldBack(d) \/ FrameSent(d)
    BY <2>4 DEF BeginRecording, FinishRecording, CheckLimit, FrameHeldBack,
                FrameSent, Reads, debouncer
  <2>5. CASE SpeakerTakesBus \/ TurnEnds
    BY <1>1, <2>5 DEF Inv, AgeInv, SpeakerTakesBus, TurnEnds, debouncer
  <2>6. CASE \E d \in 0..MaxStall : \E level \in BOOLEAN :
               Bounces(level, d) \/ Steady(level, d) \/ Edge(level, d)
    BY <2>1, <2>2, <2>3, <2>6
  <2> QED
    BY <1>1, <2>4, <2>5, <2>6 DEF Next
<1>2. Inv /\ [Next]_vars => [stable' # stable => held' >= Debounce]_vars
  BY <1>1
<1>3. Inv /\ [Next]_vars =>
        [phase = "button" /\ state' = state /\ mic' = mic /\ held' >= Debounce =>
           stable' = candidate']_vars
  BY <1>1
<1> QED
  BY <1>2, <1>3, Invariance, PTL DEF Spec, Debounced

\* The pacer keeps frames a period apart, and holds back none but those that
\* come too soon (audio_frame_pacer.h:11-19).
THEOREM FramesPaced == Spec => FramesSpaced
<1>1. ASSUME Inv, Next
      PROVE  /\ frames' = frames + 1 /\ frames > 0 =>
                  gap + Elapsed(now', now) >= Period
             /\ phase = "frame" /\ phase' = "button" /\ state' = state
                  /\ frames' = frames =>
                  frames > 0 /\ gap + Elapsed(now', now) < Period
  <2>0. frames \in Nat /\ frames # frames + 1 /\ 0 # frames + 1
    BY <1>1 DEF Inv, TypeOK
  <2>1. CASE \E d \in 0..MaxStall : FrameSent(d)
    <3>1. PICK d \in 0..MaxStall : FrameSent(d)
      BY <2>1
    <3>2. now' = Later(now, d) /\ mic
      BY <1>1, <3>1 DEF FrameSent, Inv, AgeInv
    <3> QED
      BY <1>1, <2>0, <3>1, <3>2, Readings, ClockAssumption
         DEF Inv, GapInv, FrameSent, Least
  <2>2. CASE \E d \in 0..MaxStall : FrameHeldBack(d)
    <3>1. PICK d \in 0..MaxStall : FrameHeldBack(d)
      BY <2>2
    <3>2. now' = Later(now, d) /\ mic /\ frames' = frames
      BY <1>1, <3>1 DEF FrameHeldBack, Reads, Inv, AgeInv, recording
    <3> QED
      BY <1>1, <2>0, <3>1, <3>2, Readings, ClockAssumption
         DEF Inv, TypeOK, GapInv, FrameHeldBack, Least
  <2>3. CASE \E d \in 0..MaxStall : \E level \in BOOLEAN :
               Bounces(level, d) \/ Steady(level, d) \/ Edge(level, d)
    BY <2>0, <2>3 DEF Bounces, Steady, Edge, Reads, recording
  <2>4. CASE \E d \in 0..MaxStall :
               BeginRecording(d) \/ FinishRecording(d) \/ CheckLimit(d)
    BY <2>0, <2>4 DEF BeginRecording, FinishRecording, CheckLimit, Reads,
                      recording
  <2>5. CASE SpeakerTakesBus \/ TurnEnds
    <3>1. /\ frames' = frames
          /\ phase = "frame" => state' = "Idle"
      BY <2>5 DEF SpeakerTakesBus, TurnEnds
    <3>2. phase = "frame" => state = "Recording"
      BY <1>1 DEF Inv, AgeInv
    <3> QED
      BY <2>0, <3>1, <3>2
  <2> QED
    BY <1>1, <2>1, <2>2, <2>3, <2>4, <2>5 DEF Next
<1>2. Inv /\ [Next]_vars =>
        [frames' = frames + 1 /\ frames > 0 =>
           gap + Elapsed(now', now) >= Period]_vars
  BY <1>1
<1>3. Inv /\ [Next]_vars =>
        [phase = "frame" /\ phase' = "button" /\ state' = state
           /\ frames' = frames =>
           frames > 0 /\ gap + Elapsed(now', now) < Period]_vars
  BY <1>1
<1> QED
  BY <1>2, <1>3, Invariance, PTL DEF Spec, FramesSpaced
=============================================================================

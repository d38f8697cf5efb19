----------------------- MODULE BufferedPlayback_proofs -----------------------
(***************************************************************************)
(* What holds of the playback task and the main loop for every buffer,     *)
(* watermark, chunk and turn, however the two cores are scheduled, as long *)
(* as cancel() does not give up waiting for a busy task.                   *)
(***************************************************************************)
EXTENDS BufferedPlayback, SequenceTheorems, TLAPS

\* Main is past the wait of a cancel(), or before the next turn is begun:
\* active_ is false, and a task that was not busy then gets no further than
\* finding that out.
Silent ==
  \/ main \in {"cancel3", "cancel4", "reset", "end", "off", "turn", "begin1",
               "begin2", "begin3", "begin4", "begin5", "begin6"}
  \/ (main \in {"cancel1", "cancel2", "wait"} /\ caller = "begin")

\* Where nothing may be left of the last turn's audio: what the first cancel()
\* found in the hands of the task is dropped before the second one returns.
Clean ==
  \/ main \in {"begin1", "begin2", "begin3", "begin4", "begin5", "begin6"}
  \/ (main \in {"cancel3", "cancel4", "reset"} /\ caller = "begin")

BusyInv ==
  /\ busy <=> task \in BusyLabels
  /\ bus <=> main # "off"
  /\ active => main \in TurnLabels \union {"cancel1"}
  /\ active /\ main = "cancel1" => caller = "stop"
  /\ Silent => task \notin {"empty", "write", "wrote", "short"}
  /\ InTurn /\ task = "write" => active

AudioInv ==
  /\ chunk # <<>> => task \in {"check", "drop", "write"}
  /\ active /\ task = "drop" => chunk = <<>>
  /\ Silent /\ main \notin {"cancel3", "cancel4", "reset"} /\ ~Clean
       => buf = <<>> \/ task \in {"look", "recv", "check", "drop"}
  /\ Clean => chunk = <<>> /\ (buf = <<>> \/ task = "look")
  /\ main \in {"begin2", "begin3", "begin4", "begin5", "begin6"} => buf = <<>>

CountInv ==
  /\ main \in {"loop", "send"} => sent + want <= MaxUnits
  /\ main \in {"loop", "send"} => attempts < MaxAttempts
  /\ main \in BeginLabels \/ (main \in CancelLabels /\ caller = "begin")
       => turn < MaxTurns
  /\ InTurn => turn > 0

Control == BusyInv /\ AudioInv /\ CountInv

-----------------------------------------------------------------------------
\* The handshake of the two cores: what the main loop does keeps it.
LEMMA MainControl == TypeOK /\ Control /\ ~CancelGivesUp /\ MainNext => Control'
<1> SUFFICES ASSUME TypeOK, Control, ~CancelGivesUp, MainNext PROVE Control'
  OBVIOUS
<1> USE PlaybackAssumption DEF TypeOK, Control, BusyInv, AudioInv, CountInv,
      Silent, Clean, InTurn, MainLabels, CancelLabels, BeginLabels,
      TurnLabels, TaskLabels, BusyLabels, flags, locals, calls, history,
      MainGoes, TaskGoes, Looks, Stops
<1>1. CASE StartSpeaker
  BY <1>1 DEF StartSpeaker
<1>2. CASE BeginTurn
  BY <1>2 DEF BeginTurn
<1>3. CASE BeginReset
  BY <1>3 DEF BeginReset, ReaderBlocked
<1>4. CASE BeginInput
  BY <1>4 DEF BeginInput
<1>5. CASE BeginPlaying
  BY <1>5 DEF BeginPlaying
<1>6. CASE BeginDrained
  BY <1>6 DEF BeginDrained
<1>7. CASE BeginFailed
  BY <1>7 DEF BeginFailed
<1>8. CASE BeginActive
  BY <1>8 DEF BeginActive
<1>9. CASE EnqueueLoop
  BY <1>9 DEF EnqueueLoop
<1>10. CASE EnqueueSend
  BY <1>10 DEF EnqueueSend, Room, Least
<1>11. CASE EnqueueNoRoom
  BY <1>11 DEF EnqueueNoRoom, Room, Least
<1>12. CASE EnqueueGivesUp
  BY <1>12 DEF EnqueueGivesUp
<1>13. CASE CancelActive
  BY <1>13 DEF CancelActive
<1>14. CASE CancelInput
  BY <1>14 DEF CancelInput
<1>15. CASE CancelWaits
  BY <1>15 DEF CancelWaits
<1>16. CASE CancelPlaying
  BY <1>16 DEF CancelPlaying
<1>17. CASE CancelDrained
  BY <1>17 DEF CancelDrained
<1>18. CASE CancelResets
  BY <1>18 DEF CancelResets, AfterCancel, ReaderBlocked
<1>19. CASE BusEnds
  BY <1>19 DEF BusEnds
<1>20. CASE FinishInputReads
  BY <1>20 DEF FinishInputReads
<1>21. CASE FinishInputStores
  BY <1>21 DEF FinishInputStores
<1>22. CASE StopAudioBus
  BY <1>22 DEF StopAudioBus
<1>23. ASSUME NEW n \in 1..MaxUnits, Enqueue(n) PROVE Control'
  BY <1>23 DEF Enqueue
<1> QED
  BY <1>1, <1>2, <1>3, <1>4, <1>5, <1>6, <1>7, <1>8, <1>9, <1>10, <1>11,
     <1>12, <1>13, <1>14, <1>15, <1>16, <1>17, <1>18, <1>19, <1>20, <1>21,
     <1>22, <1>23 DEF MainNext, BeginNext, EnqueueNext, CancelNext

\* And so does every step of the task.
LEMMA TaskControl == TypeOK /\ Control /\ TaskNext => Control'
<1> SUFFICES ASSUME TypeOK, Control, TaskNext PROVE Control'
  OBVIOUS
<1> USE PlaybackAssumption DEF TypeOK, Control, BusyInv, AudioInv, CountInv,
      Silent, Clean, InTurn, MainLabels, CancelLabels, BeginLabels,
      TurnLabels, TaskLabels, BusyLabels, flags, locals, calls, history,
      MainGoes, TaskGoes, Looks, Stops
<1>1. CASE LookActive
  BY <1>1 DEF LookActive
<1>2. CASE CountAvailable
  BY <1>2 DEF CountAvailable
<1>3. CASE LookPlaying
  BY <1>3 DEF LookPlaying
<1>4. CASE LookStart
  BY <1>4 DEF LookStart
<1>5. CASE LookFinished
  BY <1>5 DEF LookFinished
<1>6. CASE StartPlaying
  BY <1>6 DEF StartPlaying
<1>7. CASE BecomeBusy
  BY <1>7 DEF BecomeBusy
<1>8. CASE Receive
  BY <1>8 DEF Receive
<1>9. CASE LookAgain
  BY <1>9 DEF LookAgain
<1>10. CASE WriteAll
  BY <1>10 DEF WriteAll
<1>11. CASE WriteShort
  BY <1>11 DEF WriteShort
<1>12. CASE BecomeFree
  <2>1. /\ ~busy' /\ chunk' = <<>>
        /\ task' \in {"look", "eDone", "lDone", "fail1"}
        /\ task' = "look" => task = "drop"
        /\ UNCHANGED <<active, inputDone, buf, main, calls, bus, history>>
    BY <1>12 DEF BecomeFree
  <2>2. BusyInv'
    BY <2>1
  <2>3. AudioInv'
    BY <1>12, <2>1 DEF BecomeFree
  <2>4. CountInv'
    BY <2>1
  <2> QED
    BY <2>2, <2>3, <2>4
<1>13. CASE EmptyLooksDone
  BY <1>13 DEF EmptyLooksDone
<1>14. CASE EmptyCounts
  BY <1>14 DEF EmptyCounts
<1>15. CASE Underrun
  BY <1>15 DEF Underrun
<1>16. CASE LastLooksDone
  BY <1>16 DEF LastLooksDone
<1>17. CASE LastCounts
  BY <1>17 DEF LastCounts
<1>18. CASE DrainPlaying
  BY <1>18 DEF DrainPlaying
<1>19. CASE DrainDrained
  BY <1>19 DEF DrainDrained
<1>20. CASE DrainActive
  BY <1>20 DEF DrainActive
<1>21. CASE FailFailed
  BY <1>21 DEF FailFailed
<1>22. CASE FailActive
  BY <1>22 DEF FailActive
<1>23. CASE FailPlaying
  BY <1>23 DEF FailPlaying
<1> QED
  BY <1>1, <1>2, <1>3, <1>4, <1>5, <1>6, <1>7, <1>8, <1>9, <1>10, <1>11,
     <1>12, <1>13, <1>14, <1>15, <1>16, <1>17, <1>18, <1>19, <1>20, <1>21,
     <1>22, <1>23 DEF TaskNext

-----------------------------------------------------------------------------
\* The flags stay Booleans.
LEMMA FlagsType == FlagsOK /\ Next => FlagsOK'
<1> SUFFICES ASSUME FlagsOK, Next PROVE FlagsOK'
  OBVIOUS
<1> USE DEF FlagsOK, flags
<1>1. CASE StartSpeaker
  BY <1>1 DEF StartSpeaker
<1>2. CASE BeginTurn
  BY <1>2 DEF BeginTurn
<1>3. CASE BeginReset
  BY <1>3 DEF BeginReset
<1>4. CASE BeginInput
  BY <1>4 DEF BeginInput
<1>5. CASE BeginPlaying
  BY <1>5 DEF BeginPlaying
<1>6. CASE BeginDrained
  BY <1>6 DEF BeginDrained
<1>7. CASE BeginFailed
  BY <1>7 DEF BeginFailed
<1>8. CASE BeginActive
  BY <1>8 DEF BeginActive
<1>9. CASE EnqueueLoop
  BY <1>9 DEF EnqueueLoop
<1>10. CASE EnqueueSend
  BY <1>10 DEF EnqueueSend
<1>11. CASE EnqueueNoRoom
  BY <1>11 DEF EnqueueNoRoom
<1>12. CASE EnqueueGivesUp
  BY <1>12 DEF EnqueueGivesUp
<1>13. CASE CancelActive
  BY <1>13 DEF CancelActive
<1>14. CASE CancelInput
  BY <1>14 DEF CancelInput
<1>15. CASE CancelWaits
  BY <1>15 DEF CancelWaits
<1>16. CASE CancelPlaying
  BY <1>16 DEF CancelPlaying
<1>17. CASE CancelDrained
  BY <1>17 DEF CancelDrained
<1>18. CASE CancelResets
  BY <1>18 DEF CancelResets
<1>19. CASE BusEnds
  BY <1>19 DEF BusEnds
<1>20. CASE FinishInputReads
  BY <1>20 DEF FinishInputReads
<1>21. CASE FinishInputStores
  BY <1>21 DEF FinishInputStores
<1>22. CASE StopAudioBus
  BY <1>22 DEF StopAudioBus
<1>23. ASSUME NEW n \in 1..MaxUnits, Enqueue(n) PROVE FlagsOK'
  BY <1>23 DEF Enqueue
<1>24. CASE LookActive
  BY <1>24 DEF LookActive, Looks
<1>25. CASE CountAvailable
  BY <1>25 DEF CountAvailable
<1>26. CASE LookPlaying
  BY <1>26 DEF LookPlaying, Looks
<1>27. CASE LookStart
  BY <1>27 DEF LookStart, Looks
<1>28. CASE LookFinished
  BY <1>28 DEF LookFinished, Looks
<1>29. CASE StartPlaying
  BY <1>29 DEF StartPlaying
<1>30. CASE BecomeBusy
  BY <1>30 DEF BecomeBusy
<1>31. CASE Receive
  BY <1>31 DEF Receive
<1>32. CASE LookAgain
  BY <1>32 DEF LookAgain, Looks
<1>33. CASE WriteAll
  BY <1>33 DEF WriteAll
<1>34. CASE WriteShort
  BY <1>34 DEF WriteShort
<1>35. CASE BecomeFree
  BY <1>35 DEF BecomeFree
<1>36. CASE EmptyLooksDone
  BY <1>36 DEF EmptyLooksDone, Looks
<1>37. CASE EmptyCounts
  BY <1>37 DEF EmptyCounts, Looks
<1>38. CASE Underrun
  BY <1>38 DEF Underrun
<1>39. CASE LastLooksDone
  BY <1>39 DEF LastLooksDone, Looks
<1>40. CASE LastCounts
  BY <1>40 DEF LastCounts, Looks
<1>41. CASE DrainPlaying
  BY <1>41 DEF DrainPlaying
<1>42. CASE DrainDrained
  BY <1>42 DEF DrainDrained
<1>43. CASE DrainActive
  BY <1>43 DEF DrainActive
<1>44. CASE FailFailed
  BY <1>44 DEF FailFailed
<1>45. CASE FailActive
  BY <1>45 DEF FailActive
<1>46. CASE FailPlaying
  BY <1>46 DEF FailPlaying
<1> QED
  BY <1>1, <1>2, <1>3, <1>4, <1>5, <1>6, <1>7, <1>8, <1>9, <1>10, <1>11,
     <1>12, <1>13, <1>14, <1>15, <1>16, <1>17, <1>18, <1>19, <1>20, <1>21,
     <1>22, <1>23, <1>24, <1>25, <1>26, <1>27, <1>28, <1>29, <1>30, <1>31,
     <1>32, <1>33, <1>34, <1>35, <1>36, <1>37, <1>38, <1>39, <1>40, <1>41,
     <1>42, <1>43, <1>44, <1>45, <1>46 DEF Next, MainNext, TaskNext,
     BeginNext, EnqueueNext, CancelNext

LEMMA FunctionIsSeq ==
  ASSUME NEW S, NEW n \in Nat, NEW f \in [1..n -> S]
  PROVE  f \in Seq(S) /\ Len(f) = n
OBVIOUS

\* Both sides keep the other types.
LEMMA MainType == TypeOK /\ CountInv /\ FlagsOK' /\ MainNext => TypeOK'
<1> SUFFICES ASSUME TypeOK, CountInv, FlagsOK', MainNext PROVE TypeOK'
  OBVIOUS
<1> USE PlaybackAssumption DEF TypeOK, CountInv, InTurn, MainLabels,
      CancelLabels, BeginLabels, TurnLabels, TaskLabels, BusyLabels, locals,
      calls, history, MainGoes, TaskGoes, Looks, Stops
<1>1. CASE StartSpeaker
  BY <1>1 DEF StartSpeaker
<1>2. CASE BeginTurn
  BY <1>2 DEF BeginTurn
<1>3. CASE BeginReset
  <2>1. buf' = buf \/ buf' = <<>>
    BY <1>3 DEF BeginReset, ReaderBlocked
  <2>2. buf' \in Seq(Units) /\ Len(buf') <= Capacity
    <3>1. CASE buf' = buf
      BY <3>1
    <3>2. CASE buf' = <<>>
      BY <3>2
    <3> QED
      BY <2>1, <3>1, <3>2
  <2> QED
    BY <1>3, <2>2 DEF BeginReset, ReaderBlocked
<1>4. CASE BeginInput
  BY <1>4 DEF BeginInput
<1>5. CASE BeginPlaying
  BY <1>5 DEF BeginPlaying
<1>6. CASE BeginDrained
  BY <1>6 DEF BeginDrained
<1>7. CASE BeginFailed
  BY <1>7 DEF BeginFailed
<1>8. CASE BeginActive
  BY <1>8 DEF BeginActive
<1>9. CASE EnqueueLoop
  BY <1>9 DEF EnqueueLoop
<1>10. CASE EnqueueSend
  <2> DEFINE new == [i \in 1..Room |-> <<turn, sent + i>>]
  <2>1. /\ Room \in 1..want /\ Room <= Capacity - Len(buf)
        /\ sent + want <= MaxUnits /\ turn \in 1..MaxTurns
    BY <1>10 DEF EnqueueSend, Room, Least
  <2>2. new \in Seq(Units) /\ Len(new) = Room
    <3>1. \A i \in 1..Room : <<turn, sent + i>> \in Units
      BY <2>1 DEF Units
    <3>2. new \in [1..Room -> Units]
      BY <3>1
    <3> HIDE DEF new
    <3> QED
      BY <2>1, <3>2, FunctionIsSeq
  <2>3. buf' = buf \o new
    BY <1>10 DEF EnqueueSend
  <2>4. buf' \in Seq(Units) /\ Len(buf') = Len(buf) + Room
    BY <2>2, <2>3, ConcatProperties
  <2>5. /\ sent' = sent + Room /\ want' = want - Room /\ attempts' = 0
        /\ main' = "loop"
        /\ UNCHANGED <<task, avail, chunk, caller, turn, played, settled>>
    BY <1>10 DEF EnqueueSend
  <2> HIDE DEF new
  <2> QED
    BY <2>1, <2>4, <2>5
<1>11. CASE EnqueueNoRoom
  BY <1>11 DEF EnqueueNoRoom, Room, Least
<1>12. CASE EnqueueGivesUp
  BY <1>12 DEF EnqueueGivesUp
<1>13. CASE CancelActive
  BY <1>13 DEF CancelActive
<1>14. CASE CancelInput
  BY <1>14 DEF CancelInput
<1>15. CASE CancelWaits
  BY <1>15 DEF CancelWaits
<1>16. CASE CancelPlaying
  BY <1>16 DEF CancelPlaying
<1>17. CASE CancelDrained
  BY <1>17 DEF CancelDrained
<1>18. CASE CancelResets
  <2>1. buf' = buf \/ buf' = <<>>
    BY <1>18 DEF CancelResets, AfterCancel, ReaderBlocked
  <2>2. buf' \in Seq(Units) /\ Len(buf') <= Capacity
    <3>1. CASE buf' = buf
      BY <3>1
    <3>2. CASE buf' = <<>>
      BY <3>2
    <3> QED
      BY <2>1, <3>1, <3>2
  <2> QED
    BY <1>18, <2>2 DEF CancelResets, AfterCancel, ReaderBlocked
<1>19. CASE BusEnds
  BY <1>19 DEF BusEnds
<1>20. CASE FinishInputReads
  BY <1>20 DEF FinishInputReads
<1>21. CASE FinishInputStores
  BY <1>21 DEF FinishInputStores
<1>22. CASE StopAudioBus
  BY <1>22 DEF StopAudioBus
<1>23. ASSUME NEW n \in 1..MaxUnits, Enqueue(n) PROVE TypeOK'
  BY <1>23 DEF Enqueue
<1> QED
  BY <1>1, <1>2, <1>3, <1>4, <1>5, <1>6, <1>7, <1>8, <1>9, <1>10, <1>11,
     <1>12, <1>13, <1>14, <1>15, <1>16, <1>17, <1>18, <1>19, <1>20, <1>21,
     <1>22, <1>23 DEF MainNext, BeginNext, EnqueueNext, CancelNext

LEMMA TaskType == TypeOK /\ FlagsOK' /\ TaskNext => TypeOK'
<1> SUFFICES ASSUME TypeOK, FlagsOK', TaskNext PROVE TypeOK'
  OBVIOUS
<1> USE PlaybackAssumption DEF TypeOK, MainLabels, CancelLabels, BeginLabels,
      TurnLabels, TaskLabels, BusyLabels, locals, calls, history, MainGoes,
      TaskGoes, Looks, Stops
<1>1. CASE LookActive
  BY <1>1 DEF LookActive
<1>2. CASE CountAvailable
  BY <1>2 DEF CountAvailable
<1>3. CASE LookPlaying
  BY <1>3 DEF LookPlaying
<1>4. CASE LookStart
  BY <1>4 DEF LookStart
<1>5. CASE LookFinished
  BY <1>5 DEF LookFinished
<1>6. CASE StartPlaying
  BY <1>6 DEF StartPlaying
<1>7. CASE BecomeBusy
  BY <1>7 DEF BecomeBusy
<1>8. CASE Receive
  <2> DEFINE n == Least(Chunk, Len(buf))
  <2>1. n \in 0..Len(buf) /\ n <= Chunk
    BY DEF Least
  <2>2. chunk' = SubSeq(buf, 1, n) /\ buf' = SubSeq(buf, n + 1, Len(buf))
    BY <1>8 DEF Receive
  <2> HIDE DEF n
  <2>3. chunk' \in Seq(Units) /\ Len(chunk') = n
    BY <2>1, <2>2
  <2>4. buf' \in Seq(Units) /\ Len(buf') = Len(buf) - n
    BY <2>1, <2>2
  <2>5. task' = "check" /\ UNCHANGED <<avail, main, calls, bus, history>>
    BY <1>8 DEF Receive
  <2> QED
    BY <2>1, <2>3, <2>4, <2>5
<1>9. CASE LookAgain
  BY <1>9 DEF LookAgain
<1>10. CASE WriteAll
  BY <1>10 DEF WriteAll
<1>11. CASE WriteShort
  BY <1>11 DEF WriteShort
<1>12. CASE BecomeFree
  BY <1>12 DEF BecomeFree
<1>13. CASE EmptyLooksDone
  BY <1>13 DEF EmptyLooksDone
<1>14. CASE EmptyCounts
  BY <1>14 DEF EmptyCounts
<1>15. CASE Underrun
  BY <1>15 DEF Underrun
<1>16. CASE LastLooksDone
  BY <1>16 DEF LastLooksDone
<1>17. CASE LastCounts
  BY <1>17 DEF LastCounts
<1>18. CASE DrainPlaying
  BY <1>18 DEF DrainPlaying
<1>19. CASE DrainDrained
  BY <1>19 DEF DrainDrained
<1>20. CASE DrainActive
  BY <1>20 DEF DrainActive
<1>21. CASE FailFailed
  BY <1>21 DEF FailFailed
<1>22. CASE FailActive
  BY <1>22 DEF FailActive
<1>23. CASE FailPlaying
  BY <1>23 DEF FailPlaying
<1> QED
  BY <1>1, <1>2, <1>3, <1>4, <1>5, <1>6, <1>7, <1>8, <1>9, <1>10, <1>11,
     <1>12, <1>13, <1>14, <1>15, <1>16, <1>17, <1>18, <1>19, <1>20, <1>21,
     <1>22, <1>23 DEF TaskNext

-----------------------------------------------------------------------------
(* The audio itself.                                                       *)

\* The first k units of turn t, in order.
AllUnits(t, k) == [i \in 1..k |-> <<t, i>>]

\* Where the units the buffer accepted are accounted for.
Accounted == InTurn /\ active /\ task \notin {"short", "fail1", "fail2"}

OrderInv == Conserved /\ PlayedInOrder

\* Steps that leave the audio where it is.
LEMMA SameAudio ==
  ASSUME OrderInv, UNCHANGED <<buf, chunk, turn, sent, played>>,
         InTurn' => InTurn, Accounted' => Accounted
  PROVE  OrderInv'
<1> USE DEF OrderInv, Conserved, PlayedInOrder, Accounted
<1>1. Conserved'
  OBVIOUS
<1>2. PlayedInOrder'
  OBVIOUS
<1> QED
  BY <1>1, <1>2

\* Cutting a sequence in two and putting the parts behind another one.
LEMMA CutAndConcat ==
  ASSUME NEW S, NEW p \in Seq(S), NEW b \in Seq(S), NEW n \in 0..Len(b)
  PROVE  (p \o SubSeq(b, 1, n)) \o SubSeq(b, n + 1, Len(b)) = p \o b
<1> DEFINE left  == SubSeq(b, 1, n)
           right == SubSeq(b, n + 1, Len(b))
<1>0. Len(b) \in Nat /\ n \in (1 - 1)..Len(b) /\ Len(b) \in n..Len(b)
      /\ 1 \in 1..(Len(b) + 1)
  OBVIOUS
<1>1. left \in Seq(S) /\ right \in Seq(S)
  BY <1>0, SubSeqProperties
<1>2. left \o right = SubSeq(b, 1, Len(b))
  BY <1>0, ConcatAdjacentSubSeq
<1>3. SubSeq(b, 1, Len(b)) = b
  BY SubSeqFull
<1> HIDE DEF left, right
<1>4. (p \o left) \o right = p \o (left \o right)
  BY <1>1, Z3
<1>5. (p \o left) \o right = p \o b
  BY <1>2, <1>3, <1>4
<1> QED
  BY <1>5 DEF left, right

LEMMA AllUnitsType ==
  ASSUME NEW t \in 1..MaxTurns, NEW k \in 0..MaxUnits
  PROVE  AllUnits(t, k) \in Seq(Units) /\ Len(AllUnits(t, k)) = k
<1>1. AllUnits(t, k) \in [1..k -> Units]
  BY PlaybackAssumption DEF AllUnits, Units
<1> QED
  BY <1>1, PlaybackAssumption, FunctionIsSeq

\* More units of the same turn.
LEMMA UnitsConcat ==
  ASSUME NEW t \in 1..MaxTurns, NEW k \in Nat, NEW r \in Nat,
         k + r <= MaxUnits
  PROVE  AllUnits(t, k) \o [i \in 1..r |-> <<t, k + i>>] = AllUnits(t, k + r)
<1> DEFINE old == AllUnits(t, k)
           new == [i \in 1..r |-> <<t, k + i>>]
           all == AllUnits(t, k + r)
<1> USE PlaybackAssumption
<1>1. old \in Seq(Units) /\ Len(old) = k
  BY AllUnitsType
<1>2. new \in Seq(Units) /\ Len(new) = r
  <2>1. new \in [1..r -> Units]
    BY DEF Units
  <2> QED
    BY <2>1, FunctionIsSeq
<1>3. all \in Seq(Units) /\ Len(all) = k + r
  BY AllUnitsType
<1>4. \A i \in 1..k : old[i] = <<t, i>>
  BY DEF AllUnits
<1>5. \A i \in (k + 1)..(k + r) : new[i - k] = <<t, i>>
  OBVIOUS
<1>6. \A i \in 1..(k + r) : all[i] = <<t, i>>
  BY DEF AllUnits
<1> HIDE DEF old, new, all
<1>7. /\ old \o new \in Seq(Units)
      /\ Len(old \o new) = k + r
      /\ \A i \in 1..(k + r) :
           (old \o new)[i] = IF i <= k THEN old[i] ELSE new[i - k]
  <2>1. /\ old \o new \in Seq(Units)
        /\ Len(old \o new) = Len(old) + Len(new)
        /\ \A i \in 1..(Len(old) + Len(new)) :
             (old \o new)[i] =
                IF i <= Len(old) THEN old[i] ELSE new[i - Len(old)]
    BY <1>1, <1>2, ConcatProperties, ZenonT(30)
  <2> QED
    BY <1>1, <1>2, <2>1, ZenonT(30)
<1> DEFINE both == old \o new
<1> HIDE DEF both
<1>8. \A i \in 1..(k + r) : both[i] = IF i <= k THEN old[i] ELSE new[i - k]
  BY <1>7 DEF both
<1>9. ASSUME NEW i \in 1..(k + r) PROVE both[i] = all[i]
  <2>1. CASE i <= k
    BY <1>4, <1>6, <1>8, <2>1
  <2>2. CASE i > k
    BY <1>5, <1>6, <1>8, <2>2
  <2> QED
    BY <2>1, <2>2
<1>10. both = all
  BY <1>3, <1>7, <1>9, SeqEqual DEF both
<1> QED
  BY <1>10 DEF both, old, new, all

\* What is written from the head of the units in hand stays in order.
LEMMA WrittenInOrder ==
  ASSUME TypeOK, turn \in 1..MaxTurns,
         (played \o chunk) \o buf = AllUnits(turn, sent),
         NEW n \in 0..Len(chunk), NEW w, w = played \o SubSeq(chunk, 1, n)
  PROVE  Len(w) <= sent /\ \A i \in 1..Len(w) : w[i] = <<turn, i>>
<1>0. /\ played \in Seq(Units) /\ chunk \in Seq(Units) /\ buf \in Seq(Units)
      /\ sent \in 0..MaxUnits
  BY DEF TypeOK
<1> USE <1>0, PlaybackAssumption
<1>1. AllUnits(turn, sent) \in Seq(Units) /\ Len(AllUnits(turn, sent)) = sent
  BY AllUnitsType
<1>2. played \o chunk \in Seq(Units) /\ Len(played \o chunk) = Len(played) + Len(chunk)
  BY ConcatProperties
<1>3. Len(played) + Len(chunk) + Len(buf) = sent
  <2>1. Len((played \o chunk) \o buf) = Len(played \o chunk) + Len(buf)
    BY <1>2, ConcatProperties
  <2> QED
    BY <1>1, <1>2, <2>1
<1>4. \A i \in 1..(Len(played) + Len(chunk)) : (played \o chunk)[i] = <<turn, i>>
  <2>1. \A i \in 1..(Len(played) + Len(chunk)) : ((played \o chunk) \o buf)[i] = (played \o chunk)[i]
    BY <1>2, ConcatProperties
  <2>2. \A i \in 1..sent : AllUnits(turn, sent)[i] = <<turn, i>>
    BY DEF AllUnits
  <2> QED
    BY <1>3, <2>1, <2>2
<1>5. /\ SubSeq(chunk, 1, n) \in Seq(Units) /\ Len(SubSeq(chunk, 1, n)) = n
      /\ \A i \in 1..n : SubSeq(chunk, 1, n)[i] = chunk[i]
  BY SubSeqProperties
<1>6. Len(w) = Len(played) + n
  BY <1>5, ConcatProperties
<1>7. \A i \in 1..(Len(played) + n) : w[i] = (played \o chunk)[i]
  BY <1>5, ConcatProperties
<1>8. Len(w) <= sent /\ \A i \in 1..Len(w) : w[i] = <<turn, i>>
  <2>1. /\ Len(played) \in Nat /\ Len(chunk) \in Nat /\ Len(buf) \in Nat
        /\ n \in Nat /\ n <= Len(chunk)
    OBVIOUS
  <2>2. Len(w) <= sent
    BY <1>3, <1>6, <2>1
  <2>3. ASSUME NEW i \in 1..Len(w) PROVE w[i] = <<turn, i>>
    <3>1. i \in 1..(Len(played) + n) /\ i \in 1..(Len(played) + Len(chunk))
      BY <1>6, <2>1
    <3> QED
      BY <1>4, <1>7, <3>1
  <2> QED
    BY <2>2, <2>3
<1> QED
  BY <1>8

LEMMA MainOrder == TypeOK /\ Control /\ OrderInv /\ MainNext => OrderInv'
<1> SUFFICES ASSUME TypeOK, Control, OrderInv, MainNext PROVE OrderInv'
  OBVIOUS
<1>1. CASE BeginTurn
  <2>1. /\ UNCHANGED <<buf, chunk, turn, sent, played>>
        /\ (InTurn' => InTurn) /\ (Accounted' => Accounted)
    BY <1>1 DEF BeginTurn, Accounted, InTurn, TurnLabels, MainGoes, Stops,
       flags, locals, history
  <2> QED
    BY <2>1, SameAudio
<1>2. CASE BeginInput
  <2>1. /\ UNCHANGED <<buf, chunk, turn, sent, played>>
        /\ (InTurn' => InTurn) /\ (Accounted' => Accounted)
    BY <1>2 DEF BeginInput, Accounted, InTurn, TurnLabels, MainGoes, Stops,
       flags, locals, history
  <2> QED
    BY <2>1, SameAudio
<1>3. CASE BeginPlaying
  <2>1. /\ UNCHANGED <<buf, chunk, turn, sent, played>>
        /\ (InTurn' => InTurn) /\ (Accounted' => Accounted)
    BY <1>3 DEF BeginPlaying, Accounted, InTurn, TurnLabels, MainGoes, Stops,
       flags, locals, history
  <2> QED
    BY <2>1, SameAudio
<1>4. CASE BeginDrained
  <2>1. /\ UNCHANGED <<buf, chunk, turn, sent, played>>
        /\ (InTurn' => InTurn) /\ (Accounted' => Accounted)
    BY <1>4 DEF BeginDrained, Accounted, InTurn, TurnLabels, MainGoes, Stops,
       flags, locals, history
  <2> QED
    BY <2>1, SameAudio
<1>5. CASE BeginFailed
  <2>1. /\ UNCHANGED <<buf, chunk, turn, sent, played>>
        /\ (InTurn' => InTurn) /\ (Accounted' => Accounted)
    BY <1>5 DEF BeginFailed, Accounted, InTurn, TurnLabels, MainGoes, Stops,
       flags, locals, history
  <2> QED
    BY <2>1, SameAudio
<1>6. CASE EnqueueLoop
  <2>1. /\ UNCHANGED <<buf, chunk, turn, sent, played>>
        /\ (InTurn' => InTurn) /\ (Accounted' => Accounted)
    BY <1>6 DEF EnqueueLoop, Accounted, InTurn, TurnLabels, MainGoes, Stops,
       flags, locals, history
  <2> QED
    BY <2>1, SameAudio
<1>7. CASE EnqueueNoRoom
  <2>1. /\ UNCHANGED <<buf, chunk, turn, sent, played>>
        /\ (InTurn' => InTurn) /\ (Accounted' => Accounted)
    BY <1>7 DEF EnqueueNoRoom, Accounted, InTurn, TurnLabels, MainGoes, Stops,
       flags, locals, history
  <2> QED
    BY <2>1, SameAudio
<1>8. CASE EnqueueGivesUp
  <2>1. /\ UNCHANGED <<buf, chunk, turn, sent, played>>
        /\ (InTurn' => InTurn) /\ (Accounted' => Accounted)
    BY <1>8 DEF EnqueueGivesUp, Accounted, InTurn, TurnLabels, MainGoes, Stops,
       flags, locals, history
  <2> QED
    BY <2>1, SameAudio
<1>9. CASE CancelActive
  <2>1. /\ UNCHANGED <<buf, chunk, turn, sent, played>>
        /\ (InTurn' => InTurn) /\ (Accounted' => Accounted)
    BY <1>9 DEF CancelActive, Accounted, InTurn, TurnLabels, MainGoes, Stops,
       flags, locals, history
  <2> QED
    BY <2>1, SameAudio
<1>10. CASE CancelInput
  <2>1. /\ UNCHANGED <<buf, chunk, turn, sent, played>>
        /\ (InTurn' => InTurn) /\ (Accounted' => Accounted)
    BY <1>10 DEF CancelInput, Accounted, InTurn, TurnLabels, MainGoes, Stops,
       flags, locals, history
  <2> QED
    BY <2>1, SameAudio
<1>11. CASE CancelWaits
  <2>1. /\ UNCHANGED <<buf, chunk, turn, sent, played>>
        /\ (InTurn' => InTurn) /\ (Accounted' => Accounted)
    BY <1>11 DEF CancelWaits, Accounted, InTurn, TurnLabels, MainGoes, Stops,
       flags, locals, history
  <2> QED
    BY <2>1, SameAudio
<1>12. CASE CancelPlaying
  <2>1. /\ UNCHANGED <<buf, chunk, turn, sent, played>>
        /\ (InTurn' => InTurn) /\ (Accounted' => Accounted)
    BY <1>12 DEF CancelPlaying, Accounted, InTurn, TurnLabels, MainGoes, Stops,
       flags, locals, history
  <2> QED
    BY <2>1, SameAudio
<1>13. CASE CancelDrained
  <2>1. /\ UNCHANGED <<buf, chunk, turn, sent, played>>
        /\ (InTurn' => InTurn) /\ (Accounted' => Accounted)
    BY <1>13 DEF CancelDrained, Accounted, InTurn, TurnLabels, MainGoes, Stops,
       flags, locals, history
  <2> QED
    BY <2>1, SameAudio
<1>14. CASE BusEnds
  <2>1. /\ UNCHANGED <<buf, chunk, turn, sent, played>>
        /\ (InTurn' => InTurn) /\ (Accounted' => Accounted)
    BY <1>14 DEF BusEnds, Accounted, InTurn, TurnLabels, MainGoes, Stops,
       flags, locals, history
  <2> QED
    BY <2>1, SameAudio
<1>15. CASE FinishInputReads
  <2>1. /\ UNCHANGED <<buf, chunk, turn, sent, played>>
        /\ (InTurn' => InTurn) /\ (Accounted' => Accounted)
    BY <1>15 DEF FinishInputReads, Accounted, InTurn, TurnLabels, MainGoes, Stops,
       flags, locals, history
  <2> QED
    BY <2>1, SameAudio
<1>16. CASE FinishInputStores
  <2>1. /\ UNCHANGED <<buf, chunk, turn, sent, played>>
        /\ (InTurn' => InTurn) /\ (Accounted' => Accounted)
    BY <1>16 DEF FinishInputStores, Accounted, InTurn, TurnLabels, MainGoes, Stops,
       flags, locals, history
  <2> QED
    BY <2>1, SameAudio
<1>17. CASE StopAudioBus
  <2>1. /\ UNCHANGED <<buf, chunk, turn, sent, played>>
        /\ (InTurn' => InTurn) /\ (Accounted' => Accounted)
    BY <1>17 DEF StopAudioBus, Accounted, InTurn, TurnLabels, MainGoes, Stops,
       flags, locals, history
  <2> QED
    BY <2>1, SameAudio
<1>18. CASE StartSpeaker
  <2>1. /\ UNCHANGED <<buf, chunk, turn, sent, played>>
        /\ (InTurn' => InTurn) /\ (Accounted' => Accounted)
    BY <1>18 DEF StartSpeaker, Accounted, InTurn, TurnLabels, MainGoes, Stops,
       flags, locals, history
  <2> QED
    BY <2>1, SameAudio
<1>19. ASSUME NEW n \in 1..MaxUnits, Enqueue(n) PROVE OrderInv'
  <2>1. /\ UNCHANGED <<buf, chunk, turn, sent, played>>
        /\ (InTurn' => InTurn) /\ (Accounted' => Accounted)
    BY <1>19 DEF Enqueue, Accounted, InTurn, TurnLabels, MainGoes, Stops,
       flags, locals, history
  <2> QED
    BY <2>1, SameAudio
<1>20. CASE BeginReset \/ CancelResets
  <2>1. ~InTurn'
    BY <1>20 DEF BeginReset, CancelResets, AfterCancel, InTurn, TurnLabels,
       MainGoes
  <2> QED
    BY <2>1 DEF OrderInv, Conserved, PlayedInOrder
<1>21. CASE BeginActive
  <2>1. buf = <<>> /\ chunk = <<>>
    BY <1>21 DEF BeginActive, MainGoes, Control, AudioInv, Clean
  <2>2. played' = <<>> /\ sent' = 0 /\ buf' = <<>> /\ chunk' = <<>>
    BY <1>21, <2>1 DEF BeginActive, locals
  <2>3. (played' \o chunk') \o buf' = <<>>
    BY <2>2
  <2>4. [i \in 1..sent' |-> <<turn', i>>] = <<>>
    BY <2>2
  <2>5. Conserved'
    BY <2>3, <2>4 DEF Conserved
  <2>6. PlayedInOrder'
    BY <2>2 DEF PlayedInOrder
  <2> QED
    BY <2>5, <2>6 DEF OrderInv
<1>22. CASE EnqueueSend
  <2>1. /\ Room \in Nat /\ sent + Room <= MaxUnits /\ turn \in 1..MaxTurns
        /\ sent \in Nat /\ InTurn
    BY <1>22, PlaybackAssumption
       DEF EnqueueSend, Room, Least, MainGoes, TypeOK, Control, CountInv,
           InTurn, TurnLabels
  <2>2. /\ buf' = buf \o [i \in 1..Room |-> <<turn, sent + i>>]
        /\ sent' = sent + Room
        /\ UNCHANGED <<active, task, chunk, turn, played>>
    BY <1>22 DEF EnqueueSend, flags, locals
  <2>3. Conserved'
    <3> SUFFICES ASSUME Accounted'
                 PROVE  (played' \o chunk') \o buf' = AllUnits(turn', sent')
      BY DEF Conserved, Accounted, AllUnits
    <3>1. (played \o chunk) \o buf = AllUnits(turn, sent)
      BY <2>1, <2>2 DEF Accounted, OrderInv, Conserved, AllUnits
    <3> DEFINE new == [i \in 1..Room |-> <<turn, sent + i>>]
    <3>2. new \in Seq(Units)
      <4>1. new \in [1..Room -> Units]
        BY <2>1, PlaybackAssumption DEF Units
      <4> QED
        BY <2>1, <4>1, FunctionIsSeq
    <3>3. AllUnits(turn, sent) \o new = AllUnits(turn, sent + Room)
      BY <2>1, UnitsConcat
    <3> HIDE DEF new
    <3>4. /\ played \o chunk \in Seq(Units) /\ buf \in Seq(Units)
      BY ConcatProperties DEF TypeOK
    <3>5. (played \o chunk) \o (buf \o new)
            = ((played \o chunk) \o buf) \o new
      BY <3>2, <3>4, Z3
    <3> QED
      BY <2>2, <3>1, <3>3, <3>5 DEF new
  <2>4. PlayedInOrder'
    BY <2>1, <2>2 DEF OrderInv, PlayedInOrder, TypeOK
  <2> QED
    BY <2>3, <2>4 DEF OrderInv
<1> QED
  BY <1>1, <1>2, <1>3, <1>4, <1>5, <1>6, <1>7, <1>8, <1>9, <1>10, <1>11,
     <1>12, <1>13, <1>14, <1>15, <1>16, <1>17, <1>18, <1>19, <1>20, <1>21,
     <1>22 DEF MainNext, BeginNext, EnqueueNext, CancelNext

LEMMA TaskOrder == TypeOK /\ Control /\ OrderInv /\ TaskNext => OrderInv'
<1> SUFFICES ASSUME TypeOK, Control, OrderInv, TaskNext PROVE OrderInv'
  OBVIOUS
<1>1. CASE LookActive
  <2>1. /\ UNCHANGED <<buf, chunk, turn, sent, played>>
        /\ (InTurn' => InTurn) /\ (Accounted' => Accounted)
    BY <1>1 DEF LookActive, Accounted, InTurn, TaskGoes, Looks, flags, locals,
       history
  <2> QED
    BY <2>1, SameAudio
<1>2. CASE CountAvailable
  <2>1. /\ UNCHANGED <<buf, chunk, turn, sent, played>>
        /\ (InTurn' => InTurn) /\ (Accounted' => Accounted)
    BY <1>2 DEF CountAvailable, Accounted, InTurn, TaskGoes, Looks, flags, locals,
       history
  <2> QED
    BY <2>1, SameAudio
<1>3. CASE LookPlaying
  <2>1. /\ UNCHANGED <<buf, chunk, turn, sent, played>>
        /\ (InTurn' => InTurn) /\ (Accounted' => Accounted)
    BY <1>3 DEF LookPlaying, Accounted, InTurn, TaskGoes, Looks, flags, locals,
       history
  <2> QED
    BY <2>1, SameAudio
<1>4. CASE LookStart
  <2>1. /\ UNCHANGED <<buf, chunk, turn, sent, played>>
        /\ (InTurn' => InTurn) /\ (Accounted' => Accounted)
    BY <1>4 DEF LookStart, Accounted, InTurn, TaskGoes, Looks, flags, locals,
       history
  <2> QED
    BY <2>1, SameAudio
<1>5. CASE LookFinished
  <2>1. /\ UNCHANGED <<buf, chunk, turn, sent, played>>
        /\ (InTurn' => InTurn) /\ (Accounted' => Accounted)
    BY <1>5 DEF LookFinished, Accounted, InTurn, TaskGoes, Looks, flags, locals,
       history
  <2> QED
    BY <2>1, SameAudio
<1>6. CASE StartPlaying
  <2>1. /\ UNCHANGED <<buf, chunk, turn, sent, played>>
        /\ (InTurn' => InTurn) /\ (Accounted' => Accounted)
    BY <1>6 DEF StartPlaying, Accounted, InTurn, TaskGoes, Looks, flags, locals,
       history
  <2> QED
    BY <2>1, SameAudio
<1>7. CASE BecomeBusy
  <2>1. /\ UNCHANGED <<buf, chunk, turn, sent, played>>
        /\ (InTurn' => InTurn) /\ (Accounted' => Accounted)
    BY <1>7 DEF BecomeBusy, Accounted, InTurn, TaskGoes, Looks, flags, locals,
       history
  <2> QED
    BY <2>1, SameAudio
<1>8. CASE LookAgain
  <2>1. /\ UNCHANGED <<buf, chunk, turn, sent, played>>
        /\ (InTurn' => InTurn) /\ (Accounted' => Accounted)
    BY <1>8 DEF LookAgain, Accounted, InTurn, TaskGoes, Looks, flags, locals,
       history
  <2> QED
    BY <2>1, SameAudio
<1>9. CASE EmptyLooksDone
  <2>1. /\ UNCHANGED <<buf, chunk, turn, sent, played>>
        /\ (InTurn' => InTurn) /\ (Accounted' => Accounted)
    BY <1>9 DEF EmptyLooksDone, Accounted, InTurn, TaskGoes, Looks, flags, locals,
       history
  <2> QED
    BY <2>1, SameAudio
<1>10. CASE EmptyCounts
  <2>1. /\ UNCHANGED <<buf, chunk, turn, sent, played>>
        /\ (InTurn' => InTurn) /\ (Accounted' => Accounted)
    BY <1>10 DEF EmptyCounts, Accounted, InTurn, TaskGoes, Looks, flags, locals,
       history
  <2> QED
    BY <2>1, SameAudio
<1>11. CASE Underrun
  <2>1. /\ UNCHANGED <<buf, chunk, turn, sent, played>>
        /\ (InTurn' => InTurn) /\ (Accounted' => Accounted)
    BY <1>11 DEF Underrun, Accounted, InTurn, TaskGoes, Looks, flags, locals,
       history
  <2> QED
    BY <2>1, SameAudio
<1>12. CASE LastLooksDone
  <2>1. /\ UNCHANGED <<buf, chunk, turn, sent, played>>
        /\ (InTurn' => InTurn) /\ (Accounted' => Accounted)
    BY <1>12 DEF LastLooksDone, Accounted, InTurn, TaskGoes, Looks, flags, locals,
       history
  <2> QED
    BY <2>1, SameAudio
<1>13. CASE LastCounts
  <2>1. /\ UNCHANGED <<buf, chunk, turn, sent, played>>
        /\ (InTurn' => InTurn) /\ (Accounted' => Accounted)
    BY <1>13 DEF LastCounts, Accounted, InTurn, TaskGoes, Looks, flags, locals,
       history
  <2> QED
    BY <2>1, SameAudio
<1>14. CASE DrainPlaying
  <2>1. /\ UNCHANGED <<buf, chunk, turn, sent, played>>
        /\ (InTurn' => InTurn) /\ (Accounted' => Accounted)
    BY <1>14 DEF DrainPlaying, Accounted, InTurn, TaskGoes, Looks, flags, locals,
       history
  <2> QED
    BY <2>1, SameAudio
<1>15. CASE DrainDrained
  <2>1. /\ UNCHANGED <<buf, chunk, turn, sent, played>>
        /\ (InTurn' => InTurn) /\ (Accounted' => Accounted)
    BY <1>15 DEF DrainDrained, Accounted, InTurn, TaskGoes, Looks, flags, locals,
       history
  <2> QED
    BY <2>1, SameAudio
<1>16. CASE DrainActive
  <2>1. /\ UNCHANGED <<buf, chunk, turn, sent, played>>
        /\ (InTurn' => InTurn) /\ (Accounted' => Accounted)
    BY <1>16 DEF DrainActive, Accounted, InTurn, TaskGoes, Looks, flags, locals,
       history
  <2> QED
    BY <2>1, SameAudio
<1>17. CASE FailFailed
  <2>1. /\ UNCHANGED <<buf, chunk, turn, sent, played>>
        /\ (InTurn' => InTurn) /\ (Accounted' => Accounted)
    BY <1>17 DEF FailFailed, Accounted, InTurn, TaskGoes, Looks, flags, locals,
       history
  <2> QED
    BY <2>1, SameAudio
<1>18. CASE FailActive
  <2>1. /\ UNCHANGED <<buf, chunk, turn, sent, played>>
        /\ (InTurn' => InTurn) /\ (Accounted' => Accounted)
    BY <1>18 DEF FailActive, Accounted, InTurn, TaskGoes, Looks, flags, locals,
       history
  <2> QED
    BY <2>1, SameAudio
<1>19. CASE FailPlaying
  <2>1. /\ UNCHANGED <<buf, chunk, turn, sent, played>>
        /\ (InTurn' => InTurn) /\ (Accounted' => Accounted)
    BY <1>19 DEF FailPlaying, Accounted, InTurn, TaskGoes, Looks, flags, locals,
       history
  <2> QED
    BY <2>1, SameAudio
<1>20. CASE BecomeFree
  <2>1. /\ UNCHANGED <<buf, turn, sent, played>> /\ (InTurn' => InTurn)
        /\ (Accounted' => Accounted) /\ (Accounted => chunk' = chunk)
    BY <1>20 DEF BecomeFree, Accounted, InTurn, TaskGoes, history, Control,
       AudioInv
  <2> QED
    BY <2>1 DEF OrderInv, Conserved, PlayedInOrder, Accounted
<1>21. CASE Receive
  <2> DEFINE n == Least(Chunk, Len(buf))
  <2>1. n \in 0..Len(buf)
    BY PlaybackAssumption DEF Least, TypeOK
  <2>2. /\ chunk' = SubSeq(buf, 1, n) /\ buf' = SubSeq(buf, n + 1, Len(buf))
        /\ UNCHANGED <<turn, sent, played>>
        /\ (InTurn' => InTurn) /\ (Accounted' => Accounted)
    BY <1>21 DEF Receive, Accounted, InTurn, TaskGoes, flags, history
  <2> HIDE DEF n
  <2>3. chunk = <<>>
    BY <1>21 DEF Receive, TaskGoes, Control, AudioInv
  <2>4. (played' \o chunk') \o buf' = (played \o chunk) \o buf
    <3>1. played \o chunk = played
      BY <2>3, ConcatEmptySeq DEF TypeOK
    <3>2. (played \o SubSeq(buf, 1, n)) \o SubSeq(buf, n + 1, Len(buf))
            = played \o buf
      BY <2>1, CutAndConcat DEF TypeOK
    <3> QED
      BY <2>2, <3>1, <3>2
  <2>5. Conserved'
    BY <2>2, <2>4 DEF OrderInv, Conserved, Accounted
  <2>6. PlayedInOrder'
    BY <2>2 DEF OrderInv, PlayedInOrder
  <2> QED
    BY <2>5, <2>6 DEF OrderInv
<1>22. CASE WriteAll \/ WriteShort
  <2>1. PICK n \in 0..Len(chunk) :
          /\ played' = played \o SubSeq(chunk, 1, n)
          /\ task' = "wrote" => n = Len(chunk)
    <3>1. CASE WriteAll
      <4>1. SubSeq(chunk, 1, Len(chunk)) = chunk /\ Len(chunk) \in Nat
        BY SubSeqFull DEF TypeOK
      <4>2. played' = played \o SubSeq(chunk, 1, Len(chunk))
        BY <3>1, <4>1 DEF WriteAll
      <4>3. Len(chunk) \in 0..Len(chunk)
        BY <4>1
      <4> QED
        BY <4>2, <4>3
    <3>2. CASE WriteShort
      <4>1. PICK n \in 0..(Len(chunk) - 1) :
              played' = played \o SubSeq(chunk, 1, n)
        BY <3>2 DEF WriteShort
      <4>2. task' = "short" /\ Len(chunk) \in Nat
        BY <3>2 DEF WriteShort, TaskGoes, TypeOK
      <4>3. n \in 0..Len(chunk)
        BY <4>2
      <4> QED
        BY <4>1, <4>2, <4>3
    <3> QED
      BY <1>22, <3>1, <3>2
  <2>2. /\ chunk' = <<>> /\ task = "write" /\ task' \in {"wrote", "short"}
        /\ UNCHANGED <<active, buf, turn, sent>> /\ (InTurn' <=> InTurn)
    BY <1>22 DEF WriteAll, WriteShort, TaskGoes, InTurn, flags
  <2>3. CASE ~InTurn
    BY <2>2, <2>3 DEF OrderInv, Conserved, PlayedInOrder
  <2>4. CASE InTurn
    <3>1. (played \o chunk) \o buf = AllUnits(turn, sent)
      BY <2>2, <2>4 DEF OrderInv, Conserved, AllUnits, Control, BusyInv
    <3>2. turn \in 1..MaxTurns /\ sent \in 0..MaxUnits
      BY <2>4, PlaybackAssumption DEF TypeOK, Control, CountInv
    <3>3. PlayedInOrder'
      <4> DEFINE w == played \o SubSeq(chunk, 1, n)
      <4>1. Len(w) <= sent /\ \A i \in 1..Len(w) : w[i] = <<turn, i>>
        BY <3>1, <3>2, WrittenInOrder
      <4> QED
        BY <2>1, <2>2, <4>1 DEF PlayedInOrder
    <3>4. Conserved'
      <4>1. CASE task' = "short"
        BY <4>1 DEF Conserved
      <4>2. CASE task' = "wrote"
        <5>1. SubSeq(chunk, 1, Len(chunk)) = chunk
          BY SubSeqFull DEF TypeOK
        <5>2. played' = played \o chunk
          BY <2>1, <4>2, <5>1
        <5>3. played' \o chunk' = played \o chunk
          <6>1. played \o chunk \in Seq(Units)
            BY ConcatProperties DEF TypeOK
          <6> QED
            BY <2>2, <5>2, <6>1, ConcatEmptySeq
        <5> QED
          BY <2>2, <3>1, <5>3 DEF Conserved, AllUnits
      <4> QED
        BY <2>2, <4>1, <4>2
    <3> QED
      BY <3>3, <3>4 DEF OrderInv
  <2> QED
    BY <2>3, <2>4
<1> QED
  BY <1>1, <1>2, <1>3, <1>4, <1>5, <1>6, <1>7, <1>8, <1>9, <1>10, <1>11,
     <1>12, <1>13, <1>14, <1>15, <1>16, <1>17, <1>18, <1>19, <1>20, <1>21,
     <1>22 DEF TaskNext

-----------------------------------------------------------------------------
PlaybackInv == TypeOK /\ Control /\ OrderInv

LEMMA InitPlayback == Init => PlaybackInv
<1> SUFFICES ASSUME Init PROVE PlaybackInv
  OBVIOUS
<1>0. FlagsOK
  BY DEF Init, FlagsOK
<1>1. TypeOK
  <2>1. buf \in Seq(Units) /\ chunk \in Seq(Units) /\ played \in Seq(Units)
        /\ Len(buf) = 0 /\ Len(chunk) = 0
    BY DEF Init
  <2> QED
    BY <1>0, <2>1, PlaybackAssumption
       DEF Init, TypeOK, TaskLabels, BusyLabels, MainLabels
<1>2. Control
  BY DEF Init, Control, BusyInv, AudioInv, CountInv, Silent, Clean, InTurn,
     TurnLabels, BusyLabels, BeginLabels, CancelLabels
<1>3. OrderInv
  BY DEF Init, OrderInv, Conserved, PlayedInOrder, InTurn, TurnLabels
<1> QED
  BY <1>1, <1>2, <1>3 DEF PlaybackInv

LEMMA NextPlayback ==
  ~CancelGivesUp /\ PlaybackInv /\ [Next]_vars => PlaybackInv'
<1> SUFFICES ASSUME ~CancelGivesUp, PlaybackInv, [Next]_vars
             PROVE  PlaybackInv'
  OBVIOUS
<1>0. TypeOK /\ Control /\ OrderInv
  BY DEF PlaybackInv
<1>1. CASE Next
  <2>1. FlagsOK'
    BY <1>0, <1>1, FlagsType DEF TypeOK
  <2>2. CASE MainNext
    BY <1>0, <2>1, <2>2, MainType, MainControl, MainOrder
       DEF PlaybackInv, Control
  <2>3. CASE TaskNext
    BY <1>0, <2>1, <2>3, TaskType, TaskControl, TaskOrder DEF PlaybackInv
  <2> QED
    BY <1>1, <2>2, <2>3 DEF Next
<1>2. CASE UNCHANGED vars
  <2> USE <1>0, <1>2 DEF vars, flags, locals, calls, history
  <2>1. TypeOK'
    BY DEF TypeOK, FlagsOK
  <2>2. Control'
    BY DEF Control, BusyInv, AudioInv, CountInv, Silent, Clean, InTurn
  <2>3. OrderInv'
    BY DEF OrderInv, Conserved, PlayedInOrder, InTurn
  <2> QED
    BY <2>1, <2>2, <2>3 DEF PlaybackInv
<1> QED
  BY <1>1, <1>2

LEMMA PlaybackInvariance == ~CancelGivesUp => (Spec => []PlaybackInv)
<1> SUFFICES ASSUME ~CancelGivesUp PROVE Spec => []PlaybackInv
  OBVIOUS
<1>1. PlaybackInv /\ [Next]_vars => PlaybackInv'
  BY NextPlayback
<1> QED
  BY <1>1, InitPlayback, PTL DEF Spec

\* Every variable keeps its type, for all sizes and schedules.
THEOREM PlaybackTypeCorrect == ~CancelGivesUp => (Spec => []TypeOK)
<1>1. PlaybackInv => TypeOK
  BY DEF PlaybackInv
<1> QED
  BY <1>1, PlaybackInvariance, PTL

\* The playback task never writes to a bus stopAudioBus() took away, unless
\* cancel() gave up waiting for it (buffered_pcm_playback.h:95-104, 168-174).
THEOREM WritesOnlyOnBus == ~CancelGivesUp => (Spec => []NoWriteOffBus)
<1>1. PlaybackInv => NoWriteOffBus
  BY DEF PlaybackInv, Control, BusyInv, Silent, NoWriteOffBus
<1> QED
  BY <1>1, PlaybackInvariance, PTL

\* While a turn plays, no unit of audio is lost, repeated, reordered or left
\* over from the turn before, wherever the two cores are interrupted.
THEOREM AudioConserved == ~CancelGivesUp => (Spec => []Conserved)
<1>1. PlaybackInv => Conserved
  BY DEF PlaybackInv, OrderInv
<1> QED
  BY <1>1, PlaybackInvariance, PTL

\* What reached the bus in a turn is an unbroken beginning of its audio.
THEOREM PlaysInOrder == ~CancelGivesUp => (Spec => []PlayedInOrder)
<1>1. PlaybackInv => PlayedInOrder
  BY DEF PlaybackInv, OrderInv
<1> QED
  BY <1>1, PlaybackInvariance, PTL
-----------------------------------------------------------------------------
\* A turn that begins with the task off the last one: the task stays where it
\* looks for a turn until this one is active, so that nothing it stores later
\* comes from the last turn, and what it counted is in the buffer still.
Beginning ==
  main \in BeginLabels \/ (main \in CancelLabels /\ caller = "begin")

Counted == task \in {"gate", "start", "play"} => avail <= Len(buf)

SettledInv ==
  settled =>
    /\ Beginning => task = "look"
    /\ main \in {"begin5", "begin6"} => ~drained
    /\ InTurn =>
         /\ drained => inputDone
         /\ task \in {"drain1", "drain2", "drain3", "eCount", "lCount"} => inputDone
         /\ Counted
         /\ task = "play" => avail >= Watermark \/ (inputDone /\ avail > 0)

\* A turn that is neither begun nor over: the main loop calls cancel().
LEMMA CancelSettled ==
  ASSUME TypeOK, Control, SettledInv, CancelNext \/ BusEnds
  PROVE  SettledInv'
<1> USE DEF SettledInv, Beginning, InTurn, BeginLabels, CancelLabels,
      TurnLabels, MainGoes, history, calls, locals
<1>1. CASE CancelResets
  BY <1>1 DEF CancelResets, AfterCancel
<1>2. CASE BusEnds
  BY <1>2 DEF BusEnds
<1>3. CASE CancelActive \/ CancelInput \/ CancelWaits \/ CancelPlaying
           \/ CancelDrained
  BY <1>3 DEF CancelActive, CancelInput, CancelWaits, CancelPlaying,
     CancelDrained
<1> QED
  BY <1>1, <1>2, <1>3 DEF CancelNext

\* startSpeaker() and beginTurn().
LEMMA BeginSettled ==
  ASSUME TypeOK, Control, SettledInv, BeginNext
  PROVE  SettledInv'
<1> USE DEF SettledInv, Beginning, Counted, InTurn, BeginLabels, CancelLabels,
      TurnLabels, MainGoes, flags, history, calls, locals
<1>1. CASE StartSpeaker
  BY <1>1 DEF StartSpeaker
<1>2. CASE BeginTurn
  <2>1. ~active
    BY <1>2 DEF BeginTurn, Control, BusyInv
  <2> QED
    BY <1>2, <2>1 DEF BeginTurn
<1>3. CASE BeginReset
  BY <1>3 DEF BeginReset, ReaderBlocked
<1>4. CASE BeginInput \/ BeginPlaying \/ BeginDrained \/ BeginFailed
  BY <1>4 DEF BeginInput, BeginPlaying, BeginDrained, BeginFailed
<1>5. CASE BeginActive
  BY <1>5 DEF BeginActive
<1> QED
  BY <1>1, <1>2, <1>3, <1>4, <1>5 DEF BeginNext

\* enqueue(), finishInput() and the call of stopAudioBus(): the buffer only
\* grows, and a finished input stays finished.
LEMMA TurnSettled ==
  ASSUME TypeOK, Control, SettledInv,
         \/ EnqueueNext \/ FinishInputReads \/ FinishInputStores
         \/ StopAudioBus \/ \E n \in 1..MaxUnits : Enqueue(n)
  PROVE  SettledInv'
<1> USE DEF SettledInv, Beginning, Counted, InTurn, BeginLabels, CancelLabels,
      TurnLabels, MainGoes, Stops, flags, history, calls, locals
<1>1. CASE EnqueueSend
  <2> DEFINE new == [i \in 1..Room |-> <<turn, sent + i>>]
  <2>1. Room \in Nat
    BY <1>1, PlaybackAssumption DEF EnqueueSend, Room, Least, TypeOK
  <2>2. new \in Seq(Int \X Int)
    BY <2>1 DEF TypeOK
  <2>3. Len(buf \o new) = Len(buf) + Room /\ Len(buf) \in Nat
    BY <2>1, <2>2 DEF TypeOK
  <2>4. /\ Len(buf') = Len(buf) + Room
        /\ main = "send" /\ main' = "loop"
        /\ UNCHANGED <<flags, task, locals, settled>>
    BY <1>1, <2>3 DEF EnqueueSend
  <2>5. avail <= Len(buf) => avail <= Len(buf')
    BY <2>1, <2>3, <2>4 DEF TypeOK
  <2> QED
    BY <2>4, <2>5
<1>2. CASE EnqueueLoop \/ EnqueueNoRoom \/ EnqueueGivesUp
  BY <1>2 DEF EnqueueLoop, EnqueueNoRoom, EnqueueGivesUp
<1>3. CASE FinishInputReads \/ FinishInputStores \/ StopAudioBus
  BY <1>3 DEF FinishInputReads, FinishInputStores, StopAudioBus
<1>4. CASE \E n \in 1..MaxUnits : Enqueue(n)
  BY <1>4 DEF Enqueue
<1> QED
  BY <1>1, <1>2, <1>3, <1>4 DEF EnqueueNext

\* The task.
LEMMA TaskSettled ==
  ASSUME TypeOK, Control, SettledInv, TaskNext
  PROVE  SettledInv'
<1> USE DEF SettledInv, Beginning, Counted, InTurn, BeginLabels, CancelLabels,
      TurnLabels, TaskGoes, Looks, flags, history, calls, locals
<1>1. CASE LookActive
  BY <1>1 DEF LookActive, Control, BusyInv
<1>2. CASE CountAvailable
  <2>1. Len(buf) \in Nat /\ avail' = Len(buf) /\ buf' = buf
    BY <1>2 DEF CountAvailable, TypeOK
  <2> QED
    BY <1>2, <2>1 DEF CountAvailable
<1>3. CASE LookPlaying \/ LookFinished
  BY <1>3 DEF LookPlaying, LookFinished, NothingLeft
<1>4. CASE LookStart
  BY <1>4 DEF LookStart, MayStart
<1>5. CASE StartPlaying \/ BecomeBusy \/ LookAgain
  BY <1>5 DEF StartPlaying, BecomeBusy, LookAgain
<1>6. CASE Receive
  BY <1>6 DEF Receive
<1>7. CASE WriteAll \/ WriteShort
  BY <1>7 DEF WriteAll, WriteShort
<1>8. CASE BecomeFree
  BY <1>8 DEF BecomeFree
<1>9. CASE EmptyLooksDone \/ EmptyCounts \/ Underrun \/ LastLooksDone
           \/ LastCounts
  BY <1>9 DEF EmptyLooksDone, EmptyCounts, Underrun, LastLooksDone, LastCounts
<1>10. CASE DrainPlaying \/ DrainDrained \/ DrainActive
  BY <1>10 DEF DrainPlaying, DrainDrained, DrainActive
<1>11. CASE FailFailed \/ FailActive \/ FailPlaying
  BY <1>11 DEF FailFailed, FailActive, FailPlaying
<1> QED
  BY <1>1, <1>2, <1>3, <1>4, <1>5, <1>6, <1>7, <1>8, <1>9, <1>10, <1>11
     DEF TaskNext

LEMMA SettledInvariance == ~CancelGivesUp => (Spec => [](PlaybackInv /\ SettledInv))
<1> SUFFICES ASSUME ~CancelGivesUp
             PROVE  Spec => [](PlaybackInv /\ SettledInv)
  OBVIOUS
<1>1. Init => SettledInv
  BY DEF Init, SettledInv, Beginning, InTurn, BeginLabels, CancelLabels,
     TurnLabels
<1>2. PlaybackInv /\ SettledInv /\ [Next]_vars => SettledInv'
  <2> SUFFICES ASSUME PlaybackInv, SettledInv, [Next]_vars
               PROVE  SettledInv'
    OBVIOUS
  <2>0. TypeOK /\ Control
    BY DEF PlaybackInv
  <2>1. CASE MainNext
    BY <2>0, <2>1, CancelSettled, BeginSettled, TurnSettled DEF MainNext
  <2>2. CASE TaskNext
    BY <2>0, <2>2, TaskSettled
  <2>3. CASE UNCHANGED vars
    BY <2>3 DEF vars, flags, locals, calls, history, SettledInv, Beginning,
       Counted, InTurn
  <2> QED
    BY <2>1, <2>2, <2>3 DEF Next
<1> QED
  BY <1>1, <1>2, PlaybackInvariance, PTL DEF Spec

\* A settled turn is drained only when its input was finished: not by an
\* underrun, and not by what the task had still to store for the last turn
\* (buffered_pcm_playback.h:155-194, finishDrain()).
THEOREM DrainsAfterInput == ~CancelGivesUp => (Spec => []DrainedAfterInput)
<1>1. SettledInv => DrainedAfterInput
  BY DEF SettledInv, DrainedAfterInput
<1> QED
  BY <1>1, SettledInvariance, PTL

\* A settled turn starts prebuffered although the buffer was counted, and
\* input_done_ read, before playing_ is stored (buffered_pcm_playback.h:155-165).
THEOREM AlwaysStartsPrebuffered == ~CancelGivesUp => (Spec => StartsPrebuffered)
<1> SUFFICES ASSUME ~CancelGivesUp PROVE Spec => StartsPrebuffered
  OBVIOUS
<1>1. PlaybackInv /\ SettledInv /\ [Next]_vars =>
        [InTurn /\ settled /\ playing' /\ ~playing =>
           Len(buf) >= Watermark \/ (inputDone /\ buf # <<>>)]_vars
  <2> SUFFICES ASSUME PlaybackInv, SettledInv, Next, InTurn, settled,
                      playing', ~playing
               PROVE  Len(buf) >= Watermark \/ (inputDone /\ buf # <<>>)
    OBVIOUS
  <2>1. task = "play"
    <3>1. CASE MainNext
      BY <3>1 DEF MainNext, BeginNext, EnqueueNext, CancelNext, StartSpeaker,
         BeginTurn, BeginReset, BeginInput, BeginPlaying, BeginDrained,
         BeginFailed, BeginActive, EnqueueLoop, EnqueueSend, EnqueueNoRoom,
         EnqueueGivesUp, CancelActive, CancelInput, CancelWaits,
         CancelPlaying, CancelDrained, CancelResets, BusEnds, Enqueue,
         FinishInputReads, FinishInputStores, StopAudioBus, flags
    <3>2. CASE TaskNext
      BY <3>2 DEF TaskNext, LookActive, CountAvailable, LookPlaying,
         LookStart, LookFinished, StartPlaying, BecomeBusy, Receive,
         LookAgain, WriteAll, WriteShort, BecomeFree, EmptyLooksDone,
         EmptyCounts, Underrun, LastLooksDone, LastCounts, DrainPlaying,
         DrainDrained, DrainActive, FailFailed, FailActive, FailPlaying,
         Looks, TaskGoes, flags
    <3> QED
      BY <3>1, <3>2 DEF Next
  <2>2. /\ avail <= Len(buf)
        /\ avail >= Watermark \/ (inputDone /\ avail > 0)
    BY <2>1 DEF SettledInv, Counted
  <2>3. avail \in Nat /\ Len(buf) \in Nat /\ Watermark \in Nat
    BY PlaybackAssumption DEF PlaybackInv, TypeOK
  <2>4. avail > 0 => Len(buf) > 0
    BY <2>2, <2>3
  <2>5. Len(buf) > 0 => buf # <<>>
    OBVIOUS
  <2> QED
    BY <2>2, <2>3, <2>4, <2>5
<1> QED
  BY <1>1, SettledInvariance, PTL DEF Spec, StartsPrebuffered
=============================================================================

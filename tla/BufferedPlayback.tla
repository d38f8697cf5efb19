-------------------------- MODULE BufferedPlayback --------------------------
(***************************************************************************)
(* BufferedPcmPlayback (buffered_pcm_playback.h): the main loop hands the  *)
(* decoded audio of a reply to a task on the other core through a FreeRTOS *)
(* stream buffer; the task writes it to the I2S bus.  They share seven     *)
(* atomics and no lock, so every load and every store is a step of its own *)
(* here: `task' and `main' are the program counters of taskLoop() and of   *)
(* the calls the main loop makes.                                          *)
(*                                                                         *)
(* Audio is counted in units.  Unit n of turn t is <<t, n>>, so that a     *)
(* lost, repeated, reordered or stale unit can be told from the right one. *)
(* played and sent are history: the units of this turn that reached the    *)
(* bus, and how many units the buffer accepted; settled says that the task *)
(* was off the last turn, at its look at active_, when this turn began.    *)
(***************************************************************************)
EXTENDS Naturals, Sequences

CONSTANTS
  Capacity,       \* kCapacityBytes, in units
  Watermark,      \* kStartWatermarkBytes
  Chunk,          \* kWriteChunkBytes
  MaxAttempts,    \* kMaxNoProgressAttempts
  MaxTurns,       \* bound: turns begun
  MaxUnits,       \* bound: units handed to enqueue() in one turn
  CancelGivesUp   \* cancel() may stop waiting (300 ms) for a busy task

ASSUME PlaybackAssumption ==
  /\ Capacity \in Nat \ {0} /\ Chunk \in Nat \ {0} /\ MaxAttempts \in Nat \ {0}
  /\ Watermark \in 1..Capacity
  /\ MaxTurns \in Nat /\ MaxUnits \in Nat
  /\ CancelGivesUp \in BOOLEAN

VARIABLES
  active, inputDone, playing, drained, failed, busy, \* the atomics
  buf,              \* contents of the stream buffer
  task,             \* where the playback task is
  avail, chunk,     \* its locals: available, the received bytes
  main,             \* where the main loop is
  caller,           \* who called cancel(): beginTurn() or stopAudioBus()
  want, attempts,   \* locals of enqueue(): bytes remaining, attempts
  bus,              \* the I2S driver is installed for the speaker
  turn, sent, played, settled

flags   == <<active, inputDone, playing, drained, failed, busy>>
locals  == <<avail, chunk>>
calls   == <<caller, want, attempts>>
history == <<turn, sent, played, settled>>

vars == <<flags, buf, task, locals, main, calls, bus, history>>

Units == (1..MaxTurns) \X (1..MaxUnits)

BusyLabels == {"recv", "check", "drop", "empty", "write", "wrote", "short"}
TaskLabels == BusyLabels \union
  {"look", "count", "gate", "start", "idle", "play", "take", "eDone", "eCount",
   "under", "lDone", "lCount", "drain1", "drain2", "drain3",
   "fail1", "fail2", "fail3"}

CancelLabels == {"cancel1", "cancel2", "wait", "cancel3", "cancel4", "reset"}
BeginLabels  == {"turn", "begin1", "begin2", "begin3", "begin4", "begin5",
                 "begin6"}
TurnLabels   == {"ready", "loop", "send", "giveUp", "finish"}
MainLabels   == CancelLabels \union BeginLabels \union TurnLabels
                \union {"off", "end"}

FlagsOK ==
  /\ active \in BOOLEAN /\ inputDone \in BOOLEAN /\ playing \in BOOLEAN
  /\ drained \in BOOLEAN /\ failed \in BOOLEAN /\ busy \in BOOLEAN
  /\ bus \in BOOLEAN

TypeOK ==
  /\ FlagsOK
  /\ buf \in Seq(Units) /\ Len(buf) <= Capacity
  /\ task \in TaskLabels /\ main \in MainLabels
  /\ avail \in 0..Capacity
  /\ chunk \in Seq(Units) /\ Len(chunk) <= Chunk
  /\ caller \in {"begin", "stop"}
  /\ want \in 0..MaxUnits /\ attempts \in 0..MaxAttempts
  /\ turn \in 0..MaxTurns /\ sent \in 0..MaxUnits
  /\ played \in Seq(Units)
  /\ settled \in BOOLEAN

Init ==
  /\ active = FALSE /\ inputDone = FALSE /\ playing = FALSE
  /\ drained = FALSE /\ failed = FALSE /\ busy = FALSE
  /\ buf = <<>>
  /\ task = "look" /\ avail = 0 /\ chunk = <<>>
  /\ main = "off" /\ caller = "stop" /\ want = 0 /\ attempts = 0
  /\ bus = FALSE
  /\ turn = 0 /\ sent = 0 /\ played = <<>> /\ settled = TRUE

Least(a, b) == IF a <= b THEN a ELSE b

-----------------------------------------------------------------------------
(* The main loop: startSpeaker() and beginTurn().                          *)

MainGoes(from, to) == main = from /\ main' = to

\* startSpeaker(): the bus is installed, then the turn is begun.  A task that
\* is still on the last turn makes the new one unsettled; it had the 300 ms of
\* a recording at least to get from any of its steps back to its look.
StartSpeaker ==
  /\ MainGoes("off", "turn")
  /\ turn < MaxTurns
  /\ bus' = TRUE
  /\ settled' = (task = "look")
  /\ UNCHANGED <<flags, buf, task, locals, calls, turn, sent, played>>

\* beginTurn() refuses to begin over a running turn, which fails the runtime.
BeginTurn ==
  /\ main = "turn"
  /\ caller' = IF active THEN "stop" ELSE "begin"
  /\ main' = "cancel1"
  /\ UNCHANGED <<flags, buf, task, locals, want, attempts, bus, history>>

\* A reader blocked on the empty buffer makes xStreamBufferReset() fail.
ReaderBlocked == task = "recv" /\ buf = <<>>

BeginReset ==
  \/ /\ MainGoes("begin1", "begin2")
     /\ buf' = <<>>
     /\ UNCHANGED <<flags, task, locals, calls, bus, history>>
  \/ /\ MainGoes("begin1", "cancel1")
     /\ ReaderBlocked
     /\ caller' = "stop"
     /\ UNCHANGED <<flags, buf, task, locals, want, attempts, bus, history>>

BeginInput ==
  /\ MainGoes("begin2", "begin3") /\ inputDone' = FALSE
  /\ UNCHANGED <<active, playing, drained, failed, busy, buf, task, locals,
                 calls, bus, history>>

BeginPlaying ==
  /\ MainGoes("begin3", "begin4") /\ playing' = FALSE
  /\ UNCHANGED <<active, inputDone, drained, failed, busy, buf, task, locals,
                 calls, bus, history>>

BeginDrained ==
  /\ MainGoes("begin4", "begin5") /\ drained' = FALSE
  /\ UNCHANGED <<active, inputDone, playing, failed, busy, buf, task, locals,
                 calls, bus, history>>

BeginFailed ==
  /\ MainGoes("begin5", "begin6") /\ failed' = FALSE
  /\ UNCHANGED <<active, inputDone, playing, drained, busy, buf, task, locals,
                 calls, bus, history>>

BeginActive ==
  /\ MainGoes("begin6", "ready") /\ active' = TRUE
  /\ turn' = turn + 1 /\ sent' = 0 /\ played' = <<>>
  /\ UNCHANGED <<inputDone, playing, drained, failed, busy, buf, task, locals,
                 calls, bus, settled>>

-----------------------------------------------------------------------------
(* enqueue() and finishInput().                                            *)

Stops == main' = "cancel1" /\ caller' = "stop"

\* A delta of n units; a turn that takes no more input fails the runtime.
Enqueue(n) ==
  /\ main = "ready"
  /\ sent + n <= MaxUnits
  /\ \/ /\ active /\ ~inputDone
        /\ main' = "loop" /\ want' = n /\ attempts' = 0 /\ UNCHANGED caller
     \/ /\ ~active \/ inputDone
        /\ Stops /\ UNCHANGED <<want, attempts>>
  /\ UNCHANGED <<flags, buf, task, locals, bus, history>>

EnqueueLoop ==
  /\ main = "loop"
  /\ main' = IF want = 0 THEN "ready"
             ELSE IF active /\ ~inputDone /\ ~failed THEN "send" ELSE "giveUp"
  /\ UNCHANGED <<flags, buf, task, locals, calls, bus, history>>

Room == Least(Capacity - Len(buf), want)

\* xStreamBufferSend(): waits for room for everything, at most 250 ms, then
\* sends what there is room for.
EnqueueSend ==
  /\ MainGoes("send", "loop")
  /\ Room > 0
  /\ buf' = buf \o [i \in 1..Room |-> <<turn, sent + i>>]
  /\ sent' = sent + Room /\ want' = want - Room /\ attempts' = 0
  /\ UNCHANGED <<flags, task, locals, caller, bus, turn, played, settled>>

\* Mutant of EnqueueNoRoom: the attempts are not counted.
EnqueueRetriesForever ==
  /\ MainGoes("send", "loop")
  /\ Room = 0
  /\ UNCHANGED <<flags, buf, task, locals, calls, bus, history>>

EnqueueNoRoom ==
  /\ main = "send"
  /\ Room = 0
  /\ attempts' = attempts + 1
  /\ main' = IF attempts' >= MaxAttempts THEN "giveUp" ELSE "loop"
  /\ UNCHANGED <<flags, buf, task, locals, caller, want, bus, history>>

EnqueueGivesUp ==
  /\ main = "giveUp"
  /\ failed' = TRUE
  /\ Stops
  /\ UNCHANGED <<active, inputDone, playing, drained, busy, buf, task, locals,
                 want, attempts, bus, history>>

FinishInputReads ==
  /\ main = "ready" /\ active
  /\ main' = "finish"
  /\ UNCHANGED <<flags, buf, task, locals, calls, bus, history>>

FinishInputStores ==
  /\ MainGoes("finish", "ready") /\ inputDone' = TRUE
  /\ UNCHANGED <<active, playing, drained, failed, busy, buf, task, locals,
                 calls, bus, history>>

-----------------------------------------------------------------------------
(* stopAudioBus(): the turn is complete, or the runtime fails.             *)

StopAudioBus ==
  /\ main = "ready" /\ Stops
  /\ UNCHANGED <<flags, buf, task, locals, want, attempts, bus, history>>

CancelActive ==
  /\ MainGoes("cancel1", "cancel2") /\ active' = FALSE
  /\ UNCHANGED <<inputDone, playing, drained, failed, busy, buf, task, locals,
                 calls, bus, history>>

CancelInput ==
  /\ MainGoes("cancel2", "wait") /\ inputDone' = TRUE
  /\ UNCHANGED <<active, playing, drained, failed, busy, buf, task, locals,
                 calls, bus, history>>

CancelWaits ==
  /\ MainGoes("wait", "cancel3")
  /\ ~busy \/ CancelGivesUp
  /\ UNCHANGED <<flags, buf, task, locals, calls, bus, history>>

CancelPlaying ==
  /\ MainGoes("cancel3", "cancel4") /\ playing' = FALSE
  /\ UNCHANGED <<active, inputDone, drained, failed, busy, buf, task, locals,
                 calls, bus, history>>

CancelDrained ==
  /\ MainGoes("cancel4", "reset") /\ drained' = FALSE
  /\ UNCHANGED <<active, inputDone, playing, failed, busy, buf, task, locals,
                 calls, bus, history>>

AfterCancel == IF caller = "begin" THEN "begin1" ELSE "end"

CancelResets ==
  /\ MainGoes("reset", AfterCancel)
  /\ buf' = IF busy \/ ReaderBlocked THEN buf ELSE <<>>
  /\ UNCHANGED <<flags, task, locals, calls, bus, history>>

\* audio_bus.end()
BusEnds ==
  /\ MainGoes("end", "off") /\ bus' = FALSE
  /\ UNCHANGED <<flags, buf, task, locals, calls, history>>

-----------------------------------------------------------------------------
(* taskLoop()                                                              *)

TaskGoes(from, to) == task = from /\ task' = to

\* A step of the task that stores nothing.
Looks == UNCHANGED <<flags, buf, locals, main, calls, bus, history>>

\* Inactive, the task sleeps and looks again, which changes nothing.
LookActive == TaskGoes("look", "count") /\ active /\ Looks

CountAvailable ==
  /\ TaskGoes("count", "gate")
  /\ avail' = Len(buf)
  /\ UNCHANGED <<flags, buf, chunk, main, calls, bus, history>>

LookPlaying ==
  /\ task = "gate" /\ task' = IF playing THEN "take" ELSE "start"
  /\ Looks

\* Mutants of MayStart: nothing is prebuffered; a reply shorter than the
\* watermark waits for more.
StartsAtOnce     == avail > 0
StartsOnlyFilled == avail >= Watermark

\* Evaluated with input_done_ as it is now and available as it was counted.
MayStart == avail >= Watermark \/ (inputDone /\ avail > 0)

LookStart ==
  /\ task = "start" /\ task' = IF MayStart THEN "play" ELSE "idle"
  /\ Looks

\* Mutant of NothingLeft: an empty buffer is taken for the end of the input.
NothingNow == avail = 0

\* input_done_ is loaded once more; available is the old count.
NothingLeft == inputDone /\ avail = 0

LookFinished ==
  /\ task = "idle" /\ task' = IF NothingLeft THEN "drain1" ELSE "look"
  /\ Looks

StartPlaying ==
  /\ TaskGoes("play", "take") /\ playing' = TRUE
  /\ UNCHANGED <<active, inputDone, drained, failed, busy, buf, locals, main,
                 calls, bus, history>>

BecomeBusy ==
  /\ TaskGoes("take", "recv") /\ busy' = TRUE
  /\ UNCHANGED <<active, inputDone, playing, drained, failed, buf, locals,
                 main, calls, bus, history>>

\* xStreamBufferReceive(): up to a chunk, or nothing after 20 ms.
Receive ==
  /\ TaskGoes("recv", "check")
  /\ LET n == Least(Chunk, Len(buf))
     IN  /\ chunk' = SubSeq(buf, 1, n)
         /\ buf' = SubSeq(buf, n + 1, Len(buf))
  /\ UNCHANGED <<flags, avail, main, calls, bus, history>>

\* Mutant of LookAgain: active_ is not looked at again.
LookOnce ==
  /\ task = "check"
  /\ task' = IF chunk = <<>> THEN "empty" ELSE "write"
  /\ Looks

LookAgain ==
  /\ task = "check"
  /\ task' = IF ~active THEN "drop" ELSE IF chunk = <<>> THEN "empty"
                                                         ELSE "write"
  /\ Looks

\* output_.write(): all of the chunk, or less of it.
WriteAll ==
  /\ TaskGoes("write", "wrote")
  /\ played' = played \o chunk
  /\ chunk' = <<>>
  /\ UNCHANGED <<flags, buf, avail, main, calls, bus, turn, sent, settled>>

\* Mutant of WriteShort: part of the chunk is as good as all of it.
WriteSome ==
  /\ TaskGoes("write", "wrote")
  /\ \E n \in 0..(Len(chunk) - 1) : played' = played \o SubSeq(chunk, 1, n)
  /\ chunk' = <<>>
  /\ UNCHANGED <<flags, buf, avail, main, calls, bus, turn, sent, settled>>

WriteShort ==
  /\ TaskGoes("write", "short")
  /\ \E n \in 0..(Len(chunk) - 1) : played' = played \o SubSeq(chunk, 1, n)
  /\ chunk' = <<>>
  /\ UNCHANGED <<flags, buf, avail, main, calls, bus, turn, sent, settled>>

\* busy_.store(false), wherever the chunk is done with.
BecomeFree ==
  /\ \/ TaskGoes("drop", "look")   \/ TaskGoes("empty", "eDone")
     \/ TaskGoes("wrote", "lDone") \/ TaskGoes("short", "fail1")
  /\ busy' = FALSE /\ chunk' = <<>>
  /\ UNCHANGED <<active, inputDone, playing, drained, failed, buf, avail, main,
                 calls, bus, history>>

\* Nothing received: drained, or an underrun that goes back to prebuffering.
EmptyLooksDone ==
  task = "eDone" /\ task' = (IF inputDone THEN "eCount" ELSE "under") /\ Looks
EmptyCounts ==
  task = "eCount" /\ task' = (IF buf = <<>> THEN "drain1" ELSE "under") /\ Looks

Underrun ==
  /\ TaskGoes("under", "look") /\ playing' = FALSE
  /\ UNCHANGED <<active, inputDone, drained, failed, busy, buf, locals, main,
                 calls, bus, history>>

\* A chunk written: was it the last one?
LastLooksDone ==
  task = "lDone" /\ task' = (IF inputDone THEN "lCount" ELSE "look") /\ Looks
LastCounts ==
  task = "lCount" /\ task' = (IF buf = <<>> THEN "drain1" ELSE "look") /\ Looks

\* finishDrain()
DrainPlaying ==
  /\ TaskGoes("drain1", "drain2") /\ playing' = FALSE
  /\ UNCHANGED <<active, inputDone, drained, failed, busy, buf, locals, main,
                 calls, bus, history>>
DrainDrained ==
  /\ TaskGoes("drain2", "drain3") /\ drained' = TRUE
  /\ UNCHANGED <<active, inputDone, playing, failed, busy, buf, locals, main,
                 calls, bus, history>>
DrainActive ==
  /\ TaskGoes("drain3", "look") /\ active' = FALSE
  /\ UNCHANGED <<inputDone, playing, drained, failed, busy, buf, locals, main,
                 calls, bus, history>>

\* The I2S write came short.
FailFailed ==
  /\ TaskGoes("fail1", "fail2") /\ failed' = TRUE
  /\ UNCHANGED <<active, inputDone, playing, drained, busy, buf, locals, main,
                 calls, bus, history>>
FailActive ==
  /\ TaskGoes("fail2", "fail3") /\ active' = FALSE
  /\ UNCHANGED <<inputDone, playing, drained, failed, busy, buf, locals, main,
                 calls, bus, history>>
FailPlaying ==
  /\ TaskGoes("fail3", "look") /\ playing' = FALSE
  /\ UNCHANGED <<active, inputDone, drained, failed, busy, buf, locals, main,
                 calls, bus, history>>

-----------------------------------------------------------------------------
CancelNext ==
  \/ CancelActive \/ CancelInput \/ CancelWaits \/ CancelPlaying
  \/ CancelDrained \/ CancelResets

BeginNext ==
  \/ StartSpeaker \/ BeginTurn \/ BeginReset \/ BeginInput \/ BeginPlaying
  \/ BeginDrained \/ BeginFailed \/ BeginActive

EnqueueNext == EnqueueLoop \/ EnqueueSend \/ EnqueueNoRoom \/ EnqueueGivesUp

MainNext ==
  \/ BeginNext \/ EnqueueNext \/ CancelNext \/ BusEnds
  \/ \E n \in 1..MaxUnits : Enqueue(n)
  \/ FinishInputReads \/ FinishInputStores \/ StopAudioBus

TaskNext ==
  \/ LookActive \/ CountAvailable \/ LookPlaying \/ LookStart \/ LookFinished
  \/ StartPlaying \/ BecomeBusy \/ Receive \/ LookAgain \/ WriteAll
  \/ WriteShort \/ BecomeFree \/ EmptyLooksDone \/ EmptyCounts \/ Underrun
  \/ LastLooksDone \/ LastCounts \/ DrainPlaying \/ DrainDrained \/ DrainActive
  \/ FailFailed \/ FailActive \/ FailPlaying

Next == MainNext \/ TaskNext

Spec == Init /\ [][Next]_vars

\* A call of the main loop runs on; nothing is assumed of the task, which a
\* write to a stuck bus may hold up for ever.
EnqueueFairSpec == Spec /\ WF_vars(EnqueueNext)

-----------------------------------------------------------------------------
\* The main loop is between beginTurn() and the stop.
InTurn == main \in TurnLabels

\* The task writes only to an installed bus: stopAudioBus() takes the driver
\* away right after cancel(), and what keeps the task from writing then is
\* that it looks at active_ again after it declared itself busy, while
\* cancel() looks at busy_ after it cleared active_.
NoWriteOffBus == task = "write" => bus

\* Nothing is lost, repeated, reordered or left over from the turn before:
\* what was played, what the task holds and what is buffered are, in this
\* order, the units the buffer accepted in this turn.
Conserved ==
  InTurn /\ active /\ task \notin {"short", "fail1", "fail2"} =>
    played \o chunk \o buf = [i \in 1..sent |-> <<turn, i>>]

\* What reached the bus is an unbroken beginning of the turn's audio, whatever
\* became of the rest of it.
PlayedInOrder ==
  InTurn => /\ Len(played) <= sent
            /\ \A i \in 1..Len(played) : played[i] = <<turn, i>>

\* A turn is drained only when its input was finished, not by an underrun in
\* the middle of it and not by the turn before, if that one was settled: a
\* task still inside finishDrain() of the last turn marks the new one drained.
DrainedAfterInput == InTurn /\ settled /\ drained => inputDone

\* In a settled turn playback starts, and starts again after an underrun, with
\* the watermark reached or the input complete, although both were looked at
\* earlier.
StartsPrebuffered ==
  [][InTurn /\ settled /\ playing' /\ ~playing =>
       Len(buf) >= Watermark \/ (inputDone /\ buf # <<>>)]_vars

\* Drained means that all audio was taken from the buffer
\* (PlaybackBufferPolicy::drained()).
DrainedMeansPlayed == InTurn /\ settled /\ drained => buf = <<>>

\* Once the input is finished the turn ends, drained or failed, if the
\* scheduler runs the task.
TurnDrains ==
  WF_vars(TaskNext) => (InTurn /\ active /\ inputDone ~> ~active)

\* enqueue() returns, even if the task is stuck in a write.
EnqueueReturns == main \in {"loop", "send", "giveUp"}
                    ~> main \notin {"loop", "send", "giveUp"}
=============================================================================

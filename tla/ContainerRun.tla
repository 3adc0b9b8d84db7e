----------------------------- MODULE ContainerRun -----------------------------
(***************************************************************************)
(* ContainerProcess.ExecuteAndStream (container_process.go): one run of a  *)
(* container, from the check of the options to the return of the iterator. *)
(*                                                                         *)
(* Three goroutines: the caller's, which creates the container, pulling    *)
(* the image when it is missing, starts it, runs the stream loop and       *)
(* removes it; the log goroutine, which copies the follow stream to the    *)
(* BufferWriter; and the waiter.  Every call of the daemon may fail, also  *)
(* after the daemon acted, and a call made once its context is done does.  *)
(* The stream loop appears as in ProcessRun, by what StreamLoop shows.     *)
(***************************************************************************)
EXTENDS EventOrder, SequencesExt, Integers

CONSTANTS
  MaxOutput,    \* bound: bytes the container writes
  MaxProgress   \* bound: ImagePullProgress events

ASSUME MaxOutputAssumption == MaxOutput \in Nat
ASSUME MaxProgressAssumption == MaxProgress \in Nat

VARIABLES
  box,         \* the container: "none", "created", "running", "exited", "removed"
  written,     \* bytes the container wrote
  copied,      \* bytes the log goroutine copied to the BufferWriter
  delivered,   \* bytes yielded
  cancelled,   \* ctx is done
  cancelRun,   \* cancelRun was called
  logs,        \* "idle", "opening", "copying" or "finished" (logsDone is closed)
  logErr,
  waiter,      \* "idle", "waiting", "exit", "error", "sent" or "finished"
  result,      \* what the waiter sent: "none", "exit", "logError" or "waitError"
  pc,
  log,         \* history: the events yielded
  broke,       \* history: the consumer stopped iterating
  removal      \* history: "none", "done" or "failed"

vars == <<box, written, copied, delivered, cancelled, cancelRun, logs, logErr,
          waiter, result, pc, log, broke, removal>>

background == <<written, copied, cancelled, logs, logErr, waiter, result>>

RunCtxDone == cancelled \/ cancelRun

Yield(event, go) ==
  /\ log' = Append(log, event)
  /\ broke' = ~go

YieldThen(event, next, otherwise) ==
  \E go \in BOOLEAN : Yield(event, go) /\ pc' = IF go THEN next ELSE otherwise

Init ==
  /\ box = "none" /\ written = 0 /\ copied = 0 /\ delivered = 0
  /\ cancelled = FALSE /\ cancelRun = FALSE
  /\ logs = "idle" /\ logErr = FALSE /\ waiter = "idle" /\ result = "none"
  /\ pc = "begin" /\ log = <<>> /\ broke = FALSE /\ removal = "none"

-----------------------------------------------------------------------------
(* The container and the caller's context.                                 *)

Output ==
  /\ box = "running" /\ written < MaxOutput
  /\ written' = written + 1
  /\ UNCHANGED <<box, copied, delivered, cancelled, cancelRun, logs, logErr,
                 waiter, result, pc, log, broke, removal>>

Exit ==
  /\ box = "running"
  /\ box' = "exited"
  /\ UNCHANGED <<background, delivered, cancelRun, pc, log, broke, removal>>

CtxCancel ==
  /\ ~cancelled
  /\ cancelled' = TRUE
  /\ UNCHANGED <<box, written, copied, delivered, cancelRun, logs, logErr,
                 waiter, result, pc, log, broke, removal>>

-----------------------------------------------------------------------------
(* The log goroutine.                                                      *)

LogOpen ==
  /\ logs = "opening"
  /\ \/ ~RunCtxDone /\ logs' = "copying" /\ UNCHANGED logErr
     \/ logs' = "finished" /\ logErr' = TRUE
  /\ UNCHANGED <<box, written, copied, delivered, cancelled, cancelRun, waiter,
                 result, pc, log, broke, removal>>

LogCopy ==
  /\ logs = "copying" /\ copied < written
  /\ copied' \in copied + 1 .. written
  /\ UNCHANGED <<box, written, delivered, cancelled, cancelRun, logs, logErr,
                 waiter, result, pc, log, broke, removal>>

\* The follow stream ends with the container.
LogEnd ==
  /\ logs = "copying" /\ box \in {"exited", "removed"} /\ copied = written
  /\ logs' = "finished"
  /\ UNCHANGED <<box, written, copied, delivered, cancelled, cancelRun, logErr,
                 waiter, result, pc, log, broke, removal>>

\* Mutant: a stream that breaks is no error, as if it had ended.
LogBreakSilent ==
  /\ logs = "copying"
  /\ logs' = "finished"
  /\ UNCHANGED <<box, written, copied, delivered, cancelled, cancelRun, logErr,
                 waiter, result, pc, log, broke, removal>>

\* The stream breaks; once runCtx is done that is no error.
LogBreak ==
  /\ logs = "copying"
  /\ logs' = "finished"
  /\ logErr' = ~RunCtxDone
  /\ UNCHANGED <<box, written, copied, delivered, cancelled, cancelRun, waiter,
                 result, pc, log, broke, removal>>

-----------------------------------------------------------------------------
(* The waiter.                                                             *)

\* The container is not running any more.  An answer that is on its way when
\* runCtx ends may still be taken.
WaitExit ==
  /\ waiter = "waiting" /\ box \in {"exited", "removed"}
  /\ waiter' = "exit"
  /\ UNCHANGED <<box, written, copied, delivered, cancelled, cancelRun, logs,
                 logErr, result, pc, log, broke, removal>>

\* Mutant: the follow stream is not given up when the wait breaks.
WaitErrorKeepsLogs ==
  /\ waiter = "waiting"
  /\ waiter' = "error"
  /\ UNCHANGED <<box, written, copied, delivered, cancelled, cancelRun, logs,
                 logErr, result, pc, log, broke, removal>>

\* The wait breaks, at the latest when runCtx is done; the logs are given up.
WaitError ==
  /\ waiter = "waiting"
  /\ waiter' = "error"
  /\ cancelRun' = TRUE
  /\ UNCHANGED <<box, written, copied, delivered, cancelled, logs, logErr,
                 result, pc, log, broke, removal>>

WaitSend ==
  /\ waiter \in {"exit", "error"} /\ logs = "finished"
  /\ result' = CASE waiter = "error" -> "waitError"
                 [] waiter = "exit" /\ logErr -> "logError"
                 [] OTHER -> "exit"
  /\ waiter' = "sent"
  /\ UNCHANGED <<box, written, copied, delivered, cancelled, cancelRun, logs,
                 logErr, pc, log, broke, removal>>

\* exited is closed.
WaitFinish ==
  /\ waiter = "sent"
  /\ waiter' = "finished"
  /\ UNCHANGED <<box, written, copied, delivered, cancelled, cancelRun, logs,
                 logErr, result, pc, log, broke, removal>>

-----------------------------------------------------------------------------
(* The caller's goroutine, up to the start of the container.               *)

StartError ==
  /\ \E go \in BOOLEAN : Yield("startError", go)

\* No image, or no client.
Begin ==
  /\ pc = "begin"
  /\ \/ pc' = "create" /\ UNCHANGED <<log, broke>>
     \/ StartError /\ pc' = "returned"
  /\ UNCHANGED <<box, background, delivered, cancelRun, removal>>

\* The daemon creates the container; the answer with its id is on the way.
Create ==
  /\ pc \in {"create", "recreate"} /\ ~cancelled
  /\ box' = "created" /\ pc' = "creating"
  /\ UNCHANGED <<background, delivered, cancelRun, log, broke, removal>>

CreateAnswered ==
  /\ pc = "creating"
  /\ pc' = "created"
  /\ UNCHANGED <<box, background, delivered, cancelRun, log, broke, removal>>

CreateNotFound ==
  /\ pc = "create" /\ ~cancelled
  /\ pc' = "pull"
  /\ UNCHANGED <<box, background, delivered, cancelRun, log, broke, removal>>

\* An option or the daemon refuses, or the answer is lost, to a done ctx or to
\* anything else; then there is a container whose id nobody has.
CreateFails ==
  /\ pc \in {"create", "recreate", "creating"}
  /\ StartError /\ pc' = "returned"
  /\ UNCHANGED <<box, background, delivered, cancelRun, removal>>

PullStart ==
  /\ pc = "pull"
  /\ YieldThen("pullStart", "pullOpen", "returned")
  /\ UNCHANGED <<box, background, delivered, cancelRun, removal>>

PullOpen ==
  /\ pc = "pullOpen" /\ ~cancelled
  /\ pc' = "pulling"
  /\ UNCHANGED <<box, background, delivered, cancelRun, log, broke, removal>>

PullProgress ==
  /\ pc = "pulling"
  /\ Len(SelectSeq(log, LAMBDA event : event = "pullProgress")) < MaxProgress
  /\ YieldThen("pullProgress", "pulling", "returned")
  /\ UNCHANGED <<box, background, delivered, cancelRun, removal>>

PullComplete ==
  /\ pc = "pulling"
  /\ YieldThen("pullComplete", "recreate", "returned")
  /\ UNCHANGED <<box, background, delivered, cancelRun, removal>>

PullFails ==
  /\ pc \in {"pullOpen", "pulling"}
  /\ StartError /\ pc' = "returned"
  /\ UNCHANGED <<box, background, delivered, cancelRun, removal>>

\* Mutant: the removal is deferred only after the yield.
EmitCreateForgets ==
  /\ pc = "created"
  /\ YieldThen("create", "starting", "returned")
  /\ UNCHANGED <<box, background, delivered, cancelRun, removal>>

\* From here on a return removes the container.
EmitCreate ==
  /\ pc = "created"
  /\ YieldThen("create", "starting", "remove")
  /\ UNCHANGED <<box, background, delivered, cancelRun, removal>>

\* The inspection for the pid changes nothing else and its failure is ignored.
StartContainer ==
  /\ pc = "starting" /\ ~cancelled
  /\ box' = "running"
  /\ logs' = "opening" /\ waiter' = "waiting"
  /\ pc' = "started"
  /\ UNCHANGED <<written, copied, delivered, cancelled, cancelRun, logErr,
                 result, log, broke, removal>>

\* The daemon may have started it nevertheless, if it was asked.
StartContainerFails ==
  /\ pc = "starting"
  /\ box' \in {"created"} \union (IF cancelled THEN {} ELSE {"running"})
  /\ StartError /\ pc' = "remove"
  /\ UNCHANGED <<background, delivered, cancelRun, removal>>

-----------------------------------------------------------------------------
(* Streaming.                                                              *)

YieldStart ==
  /\ pc = "started"
  /\ YieldThen("start", "stream", "stop")
  /\ UNCHANGED <<box, background, delivered, cancelRun, removal>>

\* Mutant: the whole of what the container wrote is taken for delivered.
LoopOutputAhead ==
  /\ pc \in {"stream", "final"} /\ delivered < copied
  /\ delivered' = written
  /\ YieldThen("output", pc, "stop")
  /\ UNCHANGED <<box, background, cancelRun, removal>>

LoopOutput ==
  /\ pc \in {"stream", "final"} /\ delivered < copied
  /\ delivered' = copied
  /\ YieldThen("output", pc, "stop")
  /\ UNCHANGED <<box, background, cancelRun, removal>>

\* A heartbeat matters here only as a yield the consumer may break at.
LoopHeartbeat ==
  /\ pc = "stream"
  /\ broke' = TRUE /\ pc' = "stop"
  /\ UNCHANGED <<box, background, delivered, cancelRun, log, removal>>

LoopCancelled ==
  /\ pc = "stream" /\ cancelled
  /\ pc' = "stop"
  /\ UNCHANGED <<box, background, delivered, cancelRun, log, broke, removal>>

LoopDone ==
  /\ pc = "stream" /\ waiter \in {"sent", "finished"}
  /\ pc' = "final"
  /\ UNCHANGED <<box, background, delivered, cancelRun, log, broke, removal>>

EmitWaitError ==
  /\ pc = "final" /\ delivered = copied /\ result = "waitError"
  /\ YieldThen("error", "cleanup", "cleanup")
  /\ UNCHANGED <<box, background, delivered, cancelRun, removal>>

\* Mutant: the result of the yield of the log error is ignored.
EmitLogErrorGoesOn ==
  /\ pc = "final" /\ delivered = copied /\ result = "logError"
  /\ YieldThen("logError", "end", "end")
  /\ UNCHANGED <<box, background, delivered, cancelRun, removal>>

EmitLogError ==
  /\ pc = "final" /\ delivered = copied /\ result = "logError"
  /\ YieldThen("logError", "end", "cleanup")
  /\ UNCHANGED <<box, background, delivered, cancelRun, removal>>

EmitEnd ==
  /\ \/ pc = "end"
     \/ pc = "final" /\ delivered = copied /\ result = "exit"
  /\ YieldThen("end", "ended", "cleanup")
  /\ UNCHANGED <<box, background, delivered, cancelRun, removal>>

EmitRemove ==
  /\ pc = "ended"
  /\ YieldThen("remove", "cleanup", "cleanup")
  /\ UNCHANGED <<box, background, delivered, cancelRun, removal>>

-----------------------------------------------------------------------------
(* stop, and the deferred calls.                                           *)

StopContainer ==
  /\ pc = "stop"
  /\ box' \in {box} \union (IF box = "running" THEN {"exited"} ELSE {})
  /\ pc' = "cancelRun"
  /\ UNCHANGED <<background, delivered, cancelRun, log, broke, removal>>

\* Mutant: stop leaves the background calls running.
CancelRunForgotten ==
  /\ pc = "cancelRun"
  /\ pc' = "waitExited"
  /\ UNCHANGED <<box, background, delivered, cancelRun, log, broke, removal>>

CancelRun ==
  /\ pc = "cancelRun"
  /\ cancelRun' = TRUE
  /\ pc' = "waitExited"
  /\ UNCHANGED <<box, background, delivered, log, broke, removal>>

\* Mutant: stop does not wait for the goroutines.
WaitExitedForgotten ==
  /\ pc = "waitExited"
  /\ pc' = "cleanup"
  /\ UNCHANGED <<box, background, delivered, cancelRun, log, broke, removal>>

WaitExited ==
  /\ pc = "waitExited" /\ waiter = "finished"
  /\ pc' = "cleanup"
  /\ UNCHANGED <<box, background, delivered, cancelRun, log, broke, removal>>

Cleanup ==
  /\ pc = "cleanup"
  /\ cancelRun' = TRUE
  /\ pc' = "remove"
  /\ UNCHANGED <<box, background, delivered, log, broke, removal>>

\* The removal is forced, and its failure ignored.
RemoveContainer ==
  /\ pc = "remove"
  /\ \/ box' = "removed" /\ removal' = "done"
     \/ box' = box /\ removal' = "failed"
  /\ pc' = "returned"
  /\ UNCHANGED <<background, delivered, cancelRun, log, broke>>

Returned == pc = "returned" /\ UNCHANGED vars

-----------------------------------------------------------------------------
Background ==
  \/ WaitExit \/ WaitError \/ WaitSend \/ WaitFinish
  \/ LogOpen \/ LogCopy \/ LogEnd \/ LogBreak

Prepare ==
  \/ Begin \/ Create \/ CreateAnswered \/ CreateNotFound \/ CreateFails
  \/ PullStart \/ PullOpen \/ PullProgress \/ PullComplete \/ PullFails
  \/ EmitCreate \/ StartContainer \/ StartContainerFails

Stream ==
  \/ YieldStart \/ LoopOutput \/ LoopCancelled \/ LoopDone
  \/ EmitWaitError \/ EmitLogError \/ EmitEnd \/ EmitRemove

Finish == StopContainer \/ CancelRun \/ WaitExited \/ Cleanup \/ RemoveContainer

Next ==
  \/ Output \/ Exit \/ Background
  \/ Prepare \/ Stream \/ LoopHeartbeat \/ Finish \/ Returned
  \/ CtxCancel

Spec == Init /\ [][Next]_vars

(* The consumer answers every yield and the daemon every call; the stream    *)
(* loop takes done and ctx.Done in time; a follow stream breaks once runCtx  *)
(* is done and so does a wait.  The container need not exit, not even when   *)
(* the daemon was told to stop it.                                           *)
FairSpec ==
  /\ Spec
  /\ WF_vars(Prepare) /\ WF_vars(Stream) /\ WF_vars(Finish)
  /\ WF_vars(LogOpen \/ LogCopy \/ LogEnd \/ (RunCtxDone /\ LogBreak))
  /\ WF_vars(WaitExit \/ (RunCtxDone /\ WaitError) \/ WaitSend \/ WaitFinish)

-----------------------------------------------------------------------------
(* Properties.                                                             *)

Emitted(event) == event \in Range(log)

\* The variables have their types, and output moves one way: the container
\* writes it, the log goroutine copies it, the loop yields it.
TypeOK ==
  /\ box \in {"none", "created", "running", "exited", "removed"}
  /\ written \in 0..MaxOutput /\ copied \in 0..written /\ delivered \in 0..copied
  /\ cancelled \in BOOLEAN /\ cancelRun \in BOOLEAN
  /\ logs \in {"idle", "opening", "copying", "finished"} /\ logErr \in BOOLEAN
  /\ waiter \in {"idle", "waiting", "exit", "error", "sent", "finished"}
  /\ result \in {"none", "exit", "logError", "waitError"}
  /\ broke \in BOOLEAN /\ removal \in {"none", "done", "failed"}

\* Whichever call of the daemon fails and wherever the consumer breaks, in the
\* pull, the stream or the three events of the end, the iterator keeps the promise
\* of RunEvents: pull, create, start, output, end and remove in this order, a
\* failed start last, an error of the logs before the end, a failed wait instead
\* of it, and no call of yield after a break.
Events == INSTANCE RunEvents WITH
  Follows <- ContainerOrder, Finals <- ContainerFinals, returned <- pc = "returned"

ImplementsRunEvents == Events!RESpec

\* Unless ctx is cancelled, ProcessEnd comes when the container has exited and
\* all its output was yielded, or after a ProcessError that says it was not.
EndAfterLogs ==
  Emitted("end") /\ ~cancelled =>
    box # "running" /\ (delivered = written \/ Emitted("logError"))

\* When the container is removed no goroutine of the run reads its logs or waits
\* for it any more.
QuietAtRemove ==
  removal # "none" => logs \in {"idle", "finished"} /\ waiter \notin {"waiting", "exit", "error"}

\* Once the daemon has answered with the container's id, whatever fails after that
\* and wherever the consumer breaks, from the yield of ContainerCreate on, the
\* iterator does not return before it has removed the container or tried to.  A
\* container whose create call failed is not covered: the code has no id for it.
NoContainerForgotten ==
  pc = "returned" /\ Emitted("create") => removal # "none"

\* Breaking out of the loop, or cancelling ctx, makes the iterator return, though
\* the container cannot be stopped and its logs never end.
StopReturns == (broke \/ cancelled) ~> pc = "returned"

\* A wait that fails makes the iterator return, though the container runs on and
\* its follow stream stays open.
WaitFailureReturns == waiter = "error" ~> pc = "returned"

\* "Waiter goroutine: reports the exit once all logs are in the buffer": an end
\* without an error comes after all output.
EndMeansAllLogs ==
  Emitted("end") /\ ~Emitted("logError") => delivered = written

\* "ContainerCreate -> ProcessStart -> OutputData/HeartbeatEvent -> ProcessEnd |
\* ProcessError -> ContainerRemove": a run that started, and that neither the
\* consumer nor ctx cut short, has ContainerRemove as its last event.
RemoveComesLast ==
  pc = "returned" /\ Emitted("start") /\ ~broke /\ ~cancelled
    => Events!Latest = "remove"

=============================================================================

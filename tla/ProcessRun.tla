------------------------------ MODULE ProcessRun ------------------------------
(***************************************************************************)
(* Process.run (process.go) with LocalCancellor (console.go): one run of a *)
(* local process, from its start to the return of the iterator.            *)
(*                                                                         *)
(* Four goroutines: the caller's, which runs the stream loop and, when the *)
(* consumer stops or the context is cancelled, the Cancellor; the reader   *)
(* of the output; the reaper that waits for the child; and in PTY mode the *)
(* replier that answers feature queries.  streamOutput appears here by     *)
(* what StreamLoop shows it does: it yields what was read, in order, and   *)
(* ends when done was received and everything delivered, or when it is     *)
(* told to stop.                                                           *)
(***************************************************************************)
EXTENDS ProcessTable, EventOrder, SequencesExt

CONSTANTS
  Cancellors,   \* kinds of p.cancellor to check: "local", "custom", "none"
  MaxOutput     \* bound: bytes the processes write

ASSUME CancellorsAssumption == Cancellors \subseteq {"local", "custom", "none"}
ASSUME MaxOutputAssumption == MaxOutput \in Nat

VARIABLES
  os,          \* the processes
  written,     \* bytes written to the pipe or tty
  copied,      \* bytes the reader copied to the BufferWriter
  delivered,   \* bytes yielded
  outOpen,     \* `out', the read end, is open
  cancelled,   \* ctx is done
  cancellor,   \* the kind of p.cancellor
  reader,      \* "copying" or "finished" (readerDone is closed)
  reaper,      \* "waiting", "waited", "draining", "sent" or "finished"
  replies,     \* the replies channel holds a token
  replier,     \* "idle", "writing" or "finished" (replierDone is closed)
  pc,          \* where run is
  target,      \* what LocalCancellor.cancel signals: "group" or "pid"
  fallback,    \* allowPidFallback
  log,         \* history: the events yielded
  broke,       \* history: the consumer stopped iterating
  hit          \* history: <<target, fallback>> of signals that reached a stranger

system == <<os, written>>
vars == <<os, written, copied, delivered, outOpen, cancelled, cancellor, reader,
          reaper, replies, replier, pc, target, fallback, log, broke, hit>>

\* What the steps of the caller's goroutine leave to the others.
others == <<written, copied, cancelled, cancellor, reader, reaper, replies, replier>>

\* reaped is closed once cmd.Wait has returned, exited once the child is reaped
\* and the output drained.
ReapedClosed == reaper \in {"draining", "sent", "finished"}
DoneSent == reaper \in {"sent", "finished"}
ExitedClosed == reaper = "finished"

\* The calls of yield made so far end with one the consumer answered `go' to.
Yield(event, go) ==
  /\ log' = Append(log, event)
  /\ broke' = ~go

Init ==
  /\ os = NoProcesses /\ written = 0 /\ copied = 0 /\ delivered = 0
  /\ outOpen = FALSE /\ cancelled = FALSE
  /\ cancellor \in Cancellors
  /\ reader = "finished" /\ reaper = "finished"
  /\ replies = FALSE /\ replier = "finished"
  /\ pc = "begin" /\ target = "group" /\ fallback = FALSE
  /\ log = <<>> /\ broke = FALSE /\ hit = {}

-----------------------------------------------------------------------------
(* The child and its descendants.                                          *)

Spawn ==
  /\ \E parent \in os.alive \ os.doomed, p \in Kin \ os.born :
       os' = Fork(os, parent, p)
  /\ UNCHANGED <<written, copied, delivered, outOpen, cancelled, cancellor,
                 reader, reaper, replies, replier, pc, target, fallback, log,
                 broke, hit>>

\* A descendant may move to another group and may close the output.
Detach ==
  /\ \E p \in os.alive \ os.doomed :
       \/ p \in os.group \ {Leader} /\ os' = Leave(os, p)
       \/ p \in os.holders /\ os' = CloseOutput(os, p)
  /\ UNCHANGED <<written, copied, delivered, outOpen, cancelled, cancellor,
                 reader, reaper, replies, replier, pc, target, fallback, log,
                 broke, hit>>

Output ==
  /\ os.holders \ os.doomed # {}
  /\ outOpen /\ written < MaxOutput
  /\ written' = written + 1
  /\ UNCHANGED <<os, copied, delivered, outOpen, cancelled, cancellor, reader,
                 reaper, replies, replier, pc, target, fallback, log, broke, hit>>

Exit(p) ==
  /\ p \in os.alive
  /\ os' = Die(os, {p})
  /\ UNCHANGED <<written, copied, delivered, outOpen, cancelled, cancellor,
                 reader, reaper, replies, replier, pc, target, fallback, log,
                 broke, hit>>

\* The pid goes to a new process, and that process may lead a group.
Recycle ==
  /\ CanRecycle(os)
  /\ \E s \in {"member", "leader"} : os' = [os EXCEPT !.stranger = s]
  /\ UNCHANGED <<written, copied, delivered, outOpen, cancelled, cancellor,
                 reader, reaper, replies, replier, pc, target, fallback, log,
                 broke, hit>>

CtxCancel ==
  /\ ~cancelled
  /\ cancelled' = TRUE
  /\ UNCHANGED <<system, copied, delivered, outOpen, cancellor, reader, reaper,
                 replies, replier, pc, target, fallback, log, broke, hit>>

-----------------------------------------------------------------------------
(* The reader, the reaper and the replier.                                 *)

\* One Read and Write of io.Copy.  A query in it asks for a reply; a reply
\* that is pending covers it.
ReaderCopy ==
  /\ reader = "copying" /\ outOpen /\ copied < written
  /\ copied' \in copied + 1 .. written
  /\ replies' \in {replies, replies \/ replier # "finished"}
  /\ UNCHANGED <<system, delivered, outOpen, cancelled, cancellor, reader,
                 reaper, replier, pc, target, fallback, log, broke, hit>>

\* End of file once nobody holds the write end, or an error once out is closed.
ReaderEnd ==
  /\ reader = "copying"
  /\ ~outOpen \/ (copied = written /\ os.holders = {})
  /\ reader' = "finished"
  /\ UNCHANGED <<system, copied, delivered, outOpen, cancelled, cancellor,
                 reaper, replies, replier, pc, target, fallback, log, broke, hit>>

\* cmd.Wait returns; its result is not used before done.
ReaperWait ==
  /\ reaper = "waiting" /\ os.zombie
  /\ os' = Wait(os)
  /\ reaper' = "waited"
  /\ UNCHANGED <<written, copied, delivered, outOpen, cancelled, cancellor,
                 reader, replies, replier, pc, target, fallback, log, broke, hit>>

\* Mutant: done is sent without waiting for the reader.
ReaperSkipsReader ==
  /\ \/ reaper = "waited" /\ reaper' = "draining"
     \/ reaper = "draining" /\ reaper' = "sent"
     \/ reaper = "sent" /\ reaper' = "finished"
  /\ UNCHANGED <<system, copied, delivered, outOpen, cancelled, cancellor,
                 reader, replies, replier, pc, target, fallback, log, broke, hit>>

ReaperSteps ==
  /\ \/ reaper = "waited" /\ reaper' = "draining"
     \/ reaper = "draining" /\ reader = "finished" /\ reaper' = "sent"
     \/ reaper = "sent" /\ reaper' = "finished"
  /\ UNCHANGED <<system, copied, delivered, outOpen, cancelled, cancellor,
                 reader, replies, replier, pc, target, fallback, log, broke, hit>>

ReplierTake ==
  /\ replier = "idle" /\ replies
  /\ replies' = FALSE /\ replier' = "writing"
  /\ UNCHANGED <<system, copied, delivered, outOpen, cancelled, cancellor,
                 reader, reaper, pc, target, fallback, log, broke, hit>>

\* The write of a reply ends when the child reads it, if it ever does, ...
ReplierWritten ==
  /\ replier = "writing"
  /\ replier' = "idle"
  /\ UNCHANGED <<system, copied, delivered, outOpen, cancelled, cancellor,
                 reader, reaper, replies, pc, target, fallback, log, broke, hit>>

\* ... or when out is closed.  The replier ends once the reader closed replies.
ReplierUnblocked == ~outOpen /\ ReplierWritten

ReplierEnd ==
  /\ replier = "idle" /\ ~replies /\ reader = "finished"
  /\ replier' = "finished"
  /\ UNCHANGED <<system, copied, delivered, outOpen, cancelled, cancellor,
                 reader, reaper, replies, pc, target, fallback, log, broke, hit>>

-----------------------------------------------------------------------------
(* The caller's goroutine: start, stream, end.                             *)

\* Mutant: no return after the yield of the start error.
StartFailsGoesOn ==
  /\ pc = "begin"
  /\ \E go \in BOOLEAN : Yield("startError", go)
  /\ pc' = "started"
  /\ UNCHANGED <<os, others, delivered, outOpen, target, fallback, hit>>

StartFails ==
  /\ pc = "begin"
  /\ \E go \in BOOLEAN : Yield("startError", go)
  /\ pc' = "returned"
  /\ UNCHANGED <<os, others, delivered, outOpen, target, fallback, hit>>

\* With a pipe, or without program status, there is no replier.
StartSucceeds ==
  /\ pc = "begin"
  /\ os' = Started
  /\ outOpen' = TRUE
  /\ reader' = "copying" /\ reaper' = "waiting"
  /\ replier' \in {"idle", "finished"}
  /\ pc' = "started"
  /\ UNCHANGED <<written, copied, delivered, cancelled, cancellor, replies,
                 target, fallback, log, broke, hit>>

\* After a yield run goes on, or stops the child.
YieldStart ==
  /\ pc = "started"
  /\ \E go \in BOOLEAN :
       /\ Yield("start", go)
       /\ pc' = IF go THEN "stream" ELSE "stop"
  /\ UNCHANGED <<os, others, delivered, outOpen, target, fallback, hit>>

\* Mutant: the segments count what the child wrote, not what was read.
LoopOutputAhead ==
  /\ pc \in {"stream", "final"} /\ delivered < written
  /\ delivered' = written
  /\ \E go \in BOOLEAN :
       /\ Yield("output", go)
       /\ pc' = IF go THEN pc ELSE "stop"
  /\ UNCHANGED <<os, others, outOpen, target, fallback, hit>>

LoopOutput ==
  /\ pc \in {"stream", "final"} /\ delivered < copied
  /\ delivered' = copied
  /\ \E go \in BOOLEAN :
       /\ Yield("output", go)
       /\ pc' = IF go THEN pc ELSE "stop"
  /\ UNCHANGED <<os, others, outOpen, target, fallback, hit>>

\* A heartbeat matters here only as a yield the consumer may break at.
LoopHeartbeat ==
  /\ pc = "stream"
  /\ broke' = TRUE
  /\ pc' = "stop"
  /\ UNCHANGED <<os, others, delivered, outOpen, target, fallback, log, hit>>

LoopCancelled ==
  /\ pc = "stream" /\ cancelled
  /\ pc' = "stop"
  /\ UNCHANGED <<os, others, delivered, outOpen, target, fallback, log, broke, hit>>

LoopDone ==
  /\ pc = "stream" /\ DoneSent
  /\ pc' = "final"
  /\ UNCHANGED <<os, others, delivered, outOpen, target, fallback, log, broke, hit>>

\* emitProcessEnd: a wait error that is not an exit makes it a ProcessError.
EmitEnd ==
  /\ pc = "final" /\ delivered = copied
  /\ \E event \in {"end", "error"}, go \in BOOLEAN : Yield(event, go)
  /\ pc' = "cleanup"
  /\ UNCHANGED <<os, others, delivered, outOpen, target, fallback, hit>>

-----------------------------------------------------------------------------
(* stop, and LocalCancellor.cancel.                                        *)

\* The leader may be reaped any time after this look at `reaped'.  A custom
\* Cancellor is called only if it was not, and does what it likes; so is the
\* kill of the child, when WithCancellor(nil) left no Cancellor.
Stop ==
  /\ pc = "stop"
  /\ target' = "group"
  /\ fallback' = ~ReapedClosed
  /\ pc' = CASE cancellor = "local" -> "term"
             [] cancellor = "none" /\ ~ReapedClosed -> "killChild"
             [] OTHER -> "closeOut"
  /\ UNCHANGED <<os, others, delivered, outOpen, log, broke, hit>>

\* cmd.Process.Kill: os.Process does not signal a pid it has waited for.
KillChild ==
  /\ pc = "killChild"
  /\ os' = Killed(os, "pid")
  /\ pc' = "closeOut"
  /\ UNCHANGED <<others, delivered, outOpen, target, fallback, log, broke, hit>>

\* A signal that reaches whoever has the number now.
Signal ==
  hit' = hit \union (IF HitsStranger(os, target) THEN {<<target, fallback>>} ELSE {})

\* kill(target, SIGTERM), and the bare pid if the group is gone.
Term ==
  /\ pc = "term"
  /\ \/ /\ Exists(os, target)
        /\ os' \in Terminated(os, target)
        /\ Signal
        /\ pc' = "poll" /\ UNCHANGED <<target, fallback>>
     \/ /\ MayDeny(os, target)
        /\ pc' = "kill" /\ UNCHANGED <<os, hit, target, fallback>>
     \/ /\ ~Exists(os, target)
        /\ IF fallback THEN target' = "pid" /\ fallback' = FALSE /\ UNCHANGED pc
                       ELSE pc' = "closeOut" /\ UNCHANGED <<target, fallback>>
        /\ UNCHANGED <<os, hit>>
  /\ UNCHANGED <<others, delivered, outOpen, log, broke>>

\* kill(target, 0) says the target is gone; else the loop waits for its tick.
PollGone ==
  /\ pc = "poll" /\ ~Exists(os, target)
  /\ pc' = "closeOut"
  /\ UNCHANGED <<os, others, delivered, outOpen, target, fallback, log, broke, hit>>

Deadline ==
  /\ pc = "poll"
  /\ pc' = "kill"
  /\ UNCHANGED <<os, others, delivered, outOpen, target, fallback, log, broke, hit>>

\* Mutant: SIGKILL goes to the leader alone.
KillLeaderOnly ==
  /\ pc = "kill"
  /\ os' = Killed(os, "pid")
  /\ Signal
  /\ pc' = "closeOut"
  /\ UNCHANGED <<others, delivered, outOpen, target, fallback, log, broke>>

KillIgnoreGone ==
  /\ pc = "kill"
  /\ os' = Killed(os, target)
  /\ Signal
  /\ pc' = "closeOut"
  /\ UNCHANGED <<others, delivered, outOpen, target, fallback, log, broke>>

\* Mutant: stop leaves out open.
CloseOutForgotten ==
  /\ pc = "closeOut"
  /\ pc' = "waitExited"
  /\ UNCHANGED <<os, others, delivered, outOpen, target, fallback, log, broke, hit>>

CloseOut ==
  /\ pc = "closeOut"
  /\ outOpen' = FALSE
  /\ pc' = "waitExited"
  /\ UNCHANGED <<os, others, delivered, target, fallback, log, broke, hit>>

\* Mutant: stop returns once the child is reaped.
WaitReaped ==
  /\ pc = "waitExited" /\ ReapedClosed
  /\ pc' = "cleanup"
  /\ UNCHANGED <<os, others, delivered, outOpen, target, fallback, log, broke, hit>>

WaitExited ==
  /\ pc = "waitExited" /\ ExitedClosed
  /\ pc' = "cleanup"
  /\ UNCHANGED <<os, others, delivered, outOpen, target, fallback, log, broke, hit>>

\* Mutant: the replier is waited for before out is closed.
CleanupJoinsFirst ==
  /\ pc = "cleanup" /\ replier = "finished"
  /\ outOpen' = FALSE
  /\ pc' = "join"
  /\ UNCHANGED <<os, others, delivered, target, fallback, log, broke, hit>>

\* The deferred close, which also unblocks the replier, and the wait for it.
Cleanup ==
  /\ pc = "cleanup"
  /\ outOpen' = FALSE
  /\ pc' = "join"
  /\ UNCHANGED <<os, others, delivered, target, fallback, log, broke, hit>>

Join ==
  /\ pc = "join" /\ replier = "finished"
  /\ pc' = "returned"
  /\ UNCHANGED <<os, others, delivered, outOpen, target, fallback, log, broke, hit>>

Returned == pc = "returned" /\ UNCHANGED vars

-----------------------------------------------------------------------------
System == Spawn \/ Detach \/ Output \/ (\E p \in Procs : Exit(p)) \/ Recycle \/ CtxCancel

Goroutines ==
  \/ ReaderCopy \/ ReaderEnd \/ ReaperWait \/ ReaperSteps
  \/ ReplierTake \/ ReplierWritten \/ ReplierEnd

Run ==
  \/ StartFails \/ StartSucceeds \/ YieldStart
  \/ LoopOutput \/ LoopHeartbeat \/ LoopCancelled \/ LoopDone \/ EmitEnd

Cancel ==
  \/ Stop \/ KillChild \/ Term \/ PollGone \/ Deadline \/ KillIgnoreGone
  \/ CloseOut \/ WaitExited \/ Cleanup \/ Join

Next == System \/ Goroutines \/ Run \/ Cancel \/ Returned

Spec == Init /\ [][Next]_vars

(* The consumer answers every yield and a custom Cancellor returns; the      *)
(* select of the stream loop takes done and ctx.Done in time (CancelReturns  *)
(* and DoneReturns of StreamLoop); the kernel carries a SIGKILL out.  The     *)
(* child owes nothing: it need not exit, close its output, catch SIGTERM or   *)
(* read a reply.                                                              *)
CallerSteps ==
  \/ StartFails \/ StartSucceeds \/ YieldStart
  \/ LoopOutput \/ LoopCancelled \/ LoopDone \/ EmitEnd
  \/ Cancel

RunFairness ==
  /\ WF_vars(CallerSteps)
  /\ WF_vars(ReaderCopy \/ ReaderEnd)
  /\ WF_vars(ReaperWait \/ ReaperSteps)
  /\ WF_vars(ReplierTake \/ ReplierUnblocked \/ ReplierEnd)
  /\ \A p \in Procs : WF_vars(p \in os.doomed /\ Exit(p))

FairSpec == Spec /\ RunFairness

-----------------------------------------------------------------------------
(* Properties.                                                             *)

\* The variables have their types, and output moves one way: the child writes
\* it, then the reader copies it, then the loop yields it.
TypeOK ==
  /\ os \in TableType
  /\ os.alive \subseteq os.born /\ os.doomed \subseteq os.alive
  /\ os.holders \subseteq os.alive
  /\ written \in 0..MaxOutput /\ copied \in 0..written /\ delivered \in 0..copied
  /\ outOpen \in BOOLEAN /\ cancelled \in BOOLEAN /\ cancellor \in Cancellors
  /\ reader \in {"copying", "finished"}
  /\ reaper \in {"waiting", "waited", "draining", "sent", "finished"}
  /\ replies \in BOOLEAN /\ replier \in {"idle", "writing", "finished"}
  /\ pc \in {"begin", "started", "stream", "final", "stop", "killChild", "term", "poll", "kill",
             "closeOut", "waitExited", "cleanup", "join", "returned"}
  /\ target \in {"group", "pid"} /\ fallback \in BOOLEAN
  /\ \A i \in DOMAIN log : log[i] \in {"startError", "start", "output", "end", "error"}
  /\ broke \in BOOLEAN /\ hit \subseteq {"group", "pid"} \X BOOLEAN

EndEvents == {"end", "error"}

Ended == log # <<>> /\ Last(log) \in EndEvents

\* The iterator came back because it was told to: through stop.
StoppedAndReturned == pc = "returned" /\ ~Ended /\ log # <<"startError">>

\* The iterator keeps the promise of RunEvents whatever the processes, the
\* goroutines and the consumer do: ProcessStart first, then output, then one
\* ProcessEnd or ProcessError; a failed start its error alone; no call of yield
\* after a break (a range over the iterator would panic); and no return before
\* the end unless the consumer broke or ctx is done.
Events == INSTANCE RunEvents WITH
  Follows <- ProcessOrder, Finals <- ProcessFinals, returned <- pc = "returned"

ImplementsRunEvents == Events!RESpec

\* ProcessEnd is yielded only when every byte any process wrote was delivered,
\* nobody is left who could write more, and the child was reaped, also when
\* descendants outlive the child and go on writing.
EndAfterOutput ==
  Ended => delivered = written /\ os.holders = {} /\ Reaped(os)

\* "waits for all goroutines to finish before the iterator returns": after a
\* stop the child is reaped and no goroutine of the run is left; after a normal
\* end the reaper has only to return.
DrainedOnReturn ==
  pc = "returned" =>
    /\ reader = "finished" /\ replier = "finished"
    /\ StoppedAndReturned => reaper = "finished" /\ Reaped(os)
    /\ Ended => DoneSent

\* After a stop by LocalCancellor every process of the child's group is dead or
\* has a SIGKILL pending, whether or not the child was reaped before its
\* descendants were signalled, and whatever they catch or fork meanwhile.
NoGroupSurvivor ==
  StoppedAndReturned /\ cancellor = "local" => GroupAlive(os) \subseteq os.doomed

\* Breaking out of the loop, or cancelling ctx, makes the iterator return, though
\* the child ignores SIGTERM, descendants escape and hold the output open, or
\* a reply is never read, with LocalCancellor and without any.  (With a custom
\* Cancellor that is up to it.)
StopReturns ==
  (broke \/ cancelled) /\ cancellor # "custom" ~> pc = "returned"

\* When the child has exited and nobody holds its output the iterator returns,
\* also with a reply that nobody will read in the terminal.
ChildExitReturns ==
  (Leader \in os.born \ os.alive /\ os.holders = {}) ~> pc = "returned"

\* cancelGroup "is safe to use after the leader has been reaped: a pgid cannot
\* be reused while any group member lives, and kill(-pgid) returns ESRCH once
\* the group is empty": no signal of its reaches another's group.
CancelGroupSparesStrangers == <<"group", FALSE>> \notin hit

=============================================================================

--------------------------- MODULE RunnerProtocol ---------------------------
(***************************************************************************)
(* The line protocol between the gateway's drive loop                      *)
(* (crates/labby-codemode/src/runner_drive.rs and runner_drive/) and one    *)
(* pooled runner process (crates/labby-codemode/src/runner.rs) over its     *)
(* stdin and stdout pipes, across the executions that reuse the process.    *)
(*                                                                         *)
(* Every message carries, as a history field, the execution it belongs to  *)
(* ("exec"): a Start and a reply the execution being driven, a line of the *)
(* runner the execution whose code it is running, 0 for the complaint of a *)
(* parked runner.  The code never looks at it; the properties do.          *)
(***************************************************************************)
EXTENDS Integers, Sequences, FiniteSets

CONSTANTS
    MaxExec,        \* bound: executions driven
    MaxOps,         \* bound: operations one execution's code starts
    MaxCalls,       \* max_calls_per_run, the callTool budget
    MaxInternal,    \* MAX_INTERNAL_CALLS_PER_RUN
    PipeCap,        \* lines a pipe holds before its writer blocks
    RecycleAfter,   \* the pool's recycle threshold
    Habits          \* what may be true of all code: the possible values of awaits

ASSUME ProtocolAssumption ==
    /\ MaxExec \in Nat /\ MaxOps \in Nat
    /\ MaxCalls \in Nat /\ MaxInternal \in Nat
    /\ PipeCap \in Nat \ {0}
    /\ RecycleAfter \in Nat \ {0}
    /\ Habits \subseteq BOOLEAN

VARIABLES
    \* the drive loop
    dphase,         \* "idle", "starting" (writing Start), "loop", "replying"
    exec,           \* the execution being driven
    pending,        \* pending_tool_calls
    calls,          \* calls_enqueued
    internal,       \* internal_calls_enqueued
    settling,       \* settlement_deadline is armed
    reply,          \* the reply being written while "replying"
    \* the pipes
    stdin, stdout,
    \* the runner process
    rphase,         \* "parked", "jobs", "reading", "dead"
    rexec,          \* the execution whose code it runs
    rops,           \* seqs in __labPendingToolCalls
    rseq,           \* next_seq
    served,         \* PooledRunner.executions
    \* what each execution returned to its caller
    result,
    \* whether all code settles only after its operations settled
    awaits

driveVars == << dphase, exec, pending, calls, internal, settling, reply >>
runnerVars == << rphase, rexec, rops, rseq, served >>
vars == << driveVars, stdin, stdout, runnerVars, result, awaits >>

Execs == 1 .. MaxExec
Seqs == 0 .. MaxOps - 1

\* Parent to child: CodeModeRunnerInput.  A reply is any of tool_result,
\* tool_error, snippet_resolved, step_decision and step_recorded.
Start(e) == [type |-> "start", exec |-> e, seq |-> 0]
Reply(op) == [type |-> "reply", exec |-> op.exec, seq |-> op.seq]

\* Child to parent: CodeModeRunnerOutput.  "tool" is a tool_call, "internal" one
\* of a reserved __lab_internal:: tool, "inline" an operation the drive loop
\* answers before it reads on (artifact_write, snippet_resolve, step_begin,
\* step_result), "bad" a line that is too long or not protocol JSON.
Line(t, s) == [type |-> t, exec |-> rexec, seq |-> s]

NoResult == [outcome |-> "none", from |-> 0, first |-> FALSE]
NoReply == [seq |-> 0, exec |-> 0, arm |-> FALSE]

Init ==
    /\ dphase = "idle" /\ exec = 0 /\ pending = {} /\ calls = 0
    /\ internal = 0 /\ settling = FALSE /\ reply = NoReply
    /\ stdin = << >> /\ stdout = << >>
    /\ rphase = "parked" /\ rexec = 0 /\ rops = {} /\ rseq = 0 /\ served = 0
    /\ result = [e \in Execs |-> NoResult]
    /\ awaits \in Habits

-----------------------------------------------------------------------------
\* How a drive ends

\* Mutant of EndDrive: in-flight host calls outlive their execution.
EndDriveKeepsCalls(outcome, from) ==
    /\ dphase' = "idle"
    /\ settling' = FALSE
    /\ reply' = NoReply
    /\ result' = [result EXCEPT ![exec] =
                     [outcome |-> outcome, from |-> from, first |-> served = 0]]
    /\ UNCHANGED << exec, pending, calls, internal >>

\* The lease is over: locals of drive_runner are dropped, in-flight host calls
\* with them.
EndDrive(outcome, from) ==
    /\ dphase' = "idle"
    /\ pending' = {}
    /\ settling' = FALSE
    /\ reply' = NoReply
    /\ result' = [result EXCEPT ![exec] =
                     [outcome |-> outcome, from |-> from, first |-> served = 0]]
    /\ UNCHANGED << exec, calls, internal >>

\* The process is killed and the slot's next checkout spawns another.
FreshRunner ==
    /\ stdin' = << >> /\ stdout' = << >>
    /\ rphase' = "parked" /\ rexec' = 0 /\ rops' = {} /\ rseq' = 0
    /\ served' = 0

\* DriveOutcome::RunnerUnhealthy, or the task is cancelled and drops its lease.
Unhealthy ==
    /\ EndDrive("unhealthy", exec)
    /\ FreshRunner

\* DriveOutcome::Completed and ExecutionError: the runner goes back to its slot
\* unless it is due for recycling.  rest is the output not read.
ReleaseRunner(rest) ==
    \/ /\ served + 1 >= RecycleAfter
       /\ FreshRunner
    \/ /\ served + 1 < RecycleAfter
       /\ served' = served + 1
       /\ stdout' = rest
       /\ UNCHANGED << stdin, rphase, rexec, rops, rseq >>

-----------------------------------------------------------------------------
\* The drive loop

\* run_via_pool checks the runner out; drive_runner begins to write Start.
BeginExec ==
    /\ dphase = "idle"
    /\ exec < MaxExec
    /\ exec' = exec + 1
    /\ dphase' = "starting"
    /\ calls' = 0
    /\ internal' = 0
    /\ UNCHANGED << pending, settling, reply, stdin, stdout, runnerVars, result >>

\* The write of Start completes.  No deadline bounds it.
WriteStart ==
    /\ dphase = "starting"
    /\ rphase # "dead"
    /\ Len(stdin) < PipeCap
    /\ stdin' = Append(stdin, Start(exec))
    /\ dphase' = "loop"
    /\ UNCHANGED << exec, pending, calls, internal, settling, reply, stdout,
                    runnerVars, result >>

\* A write to a dead process fails; so does reading past its last line.
DetectDeath ==
    /\ rphase = "dead"
    /\ \/ dphase \in {"starting", "replying"}
       \/ dphase = "loop" /\ stdout = << >>
    /\ Unhealthy

\* What is remembered of an operation until its reply is written.
Op(line, kind) == [seq |-> line.seq, exec |-> line.exec, kind |-> kind]
ReplyTo(op, arm) == [seq |-> op.seq, exec |-> op.exec, arm |-> arm]

\* Mutant of ReadToolCall: the budget is compared before the call is counted.
ReadToolCallLateCount ==
    /\ dphase = "loop" /\ stdout # << >> /\ Head(stdout).type = "tool"
    /\ stdout' = Tail(stdout)
    /\ settling' = FALSE
    /\ calls' = calls + 1
    /\ \/ /\ calls <= MaxCalls
          /\ pending' = pending \cup {Op(Head(stdout), "tool")}
          /\ UNCHANGED << dphase, reply >>
       \/ /\ calls > MaxCalls
          /\ dphase' = "replying"
          /\ reply' = ReplyTo(Head(stdout), FALSE)
          /\ UNCHANGED pending
    /\ UNCHANGED << exec, internal, stdin, runnerVars, result >>

\* A tool_call within the budget becomes an in-flight host call; one beyond it
\* is refused at once.
ReadToolCall ==
    /\ dphase = "loop" /\ stdout # << >> /\ Head(stdout).type = "tool"
    /\ stdout' = Tail(stdout)
    /\ settling' = FALSE
    /\ calls' = calls + 1
    /\ \/ /\ calls + 1 <= MaxCalls
          /\ pending' = pending \cup {Op(Head(stdout), "tool")}
          /\ UNCHANGED << dphase, reply >>
       \/ /\ calls + 1 > MaxCalls
          /\ dphase' = "replying"
          /\ reply' = ReplyTo(Head(stdout), FALSE)
          /\ UNCHANGED pending
    /\ UNCHANGED << exec, internal, stdin, runnerVars, result >>

\* Mutant of ReadInternalCall: new activity does not end the settlement watch.
ReadInternalCallKeepsWatch ==
    /\ dphase = "loop" /\ stdout # << >> /\ Head(stdout).type = "internal"
    /\ stdout' = Tail(stdout)
    /\ internal' = internal + 1
    /\ pending' = pending \cup {Op(Head(stdout), "internal")}
    /\ UNCHANGED << dphase, exec, calls, settling, reply, stdin, runnerVars,
                    result >>

\* An internal call has a ceiling of its own; beyond it the call is answered
\* with an empty result ("canned") that needs no host work.
ReadInternalCall ==
    /\ dphase = "loop" /\ stdout # << >> /\ Head(stdout).type = "internal"
    /\ stdout' = Tail(stdout)
    /\ settling' = FALSE
    /\ internal' = internal + 1
    /\ \/ /\ internal + 1 <= MaxInternal
          /\ pending' = pending \cup {Op(Head(stdout), "internal")}
       \/ /\ internal + 1 > MaxInternal
          /\ pending' = pending \cup {Op(Head(stdout), "canned")}
    /\ UNCHANGED << dphase, exec, calls, reply, stdin, runnerVars, result >>

\* Artifact, snippet and step operations are carried out inside the handler.
ReadInlineOp ==
    /\ dphase = "loop" /\ stdout # << >> /\ Head(stdout).type = "inline"
    /\ stdout' = Tail(stdout)
    /\ settling' = FALSE
    /\ dphase' = "replying"
    /\ reply' = ReplyTo(Head(stdout), FALSE)
    /\ UNCHANGED << exec, pending, calls, internal, stdin, runnerVars, result >>

\* A line over the length cap, or one that does not parse.
ReadBadLine ==
    /\ dphase = "loop" /\ stdout # << >> /\ Head(stdout).type = "bad"
    /\ Unhealthy

\* Done with in-flight calls is a protocol error; otherwise the runner is
\* reused.
ReadDone ==
    /\ dphase = "loop" /\ stdout # << >> /\ Head(stdout).type = "done"
    /\ \/ /\ pending # {}
          /\ Unhealthy
       \/ /\ pending = {}
          /\ EndDrive("completed", Head(stdout).exec)
          /\ ReleaseRunner(Tail(stdout))

\* An Error line ends the execution, in-flight calls or not, and the runner is
\* reused.
ReadError ==
    /\ dphase = "loop" /\ stdout # << >> /\ Head(stdout).type = "error"
    /\ EndDrive("error", Head(stdout).exec)
    /\ ReleaseRunner(Tail(stdout))

\* pending_tool_calls.next() yields a finished call.
CallCompletes(call) ==
    /\ dphase = "loop"
    /\ call \in pending
    /\ pending' = pending \ {call}
    /\ dphase' = "replying"
    /\ reply' = ReplyTo(call, pending = {call})
    /\ UNCHANGED << exec, calls, internal, settling, stdin, stdout, runnerVars, result >>

\* Mutant of WriteReply: the reply is written again after a partial write.
WriteReplyTwice ==
    /\ dphase = "replying"
    /\ rphase # "dead"
    /\ Len(stdin) + 1 < PipeCap
    /\ stdin' = stdin \o << Reply(reply), Reply(reply) >>
    /\ settling' = (settling \/ reply.arm)
    /\ dphase' = "loop"
    /\ reply' = NoReply
    /\ UNCHANGED << exec, pending, calls, internal, stdout, runnerVars, result >>

\* The write of a reply completes; after the last in-flight call the settlement
\* watch is armed.
WriteReply ==
    /\ dphase = "replying"
    /\ rphase # "dead"
    /\ Len(stdin) < PipeCap
    /\ stdin' = Append(stdin, Reply(reply))
    /\ settling' = (settling \/ reply.arm)
    /\ dphase' = "loop"
    /\ reply' = NoReply
    /\ UNCHANGED << exec, pending, calls, internal, stdout, runnerVars, result >>

\* Mutants of Timeout: the timed-out runner is released for reuse; the write of a
\* reply has no deadline.
TimeoutReleases ==
    /\ \/ dphase = "loop" /\ stdout = << >>
       \/ dphase = "replying"
    /\ EndDrive("unhealthy", exec)
    /\ ReleaseRunner(stdout)

TimeoutReadsOnly ==
    /\ dphase = "loop" /\ stdout = << >>
    /\ Unhealthy

\* The execution deadline, or the shorter settlement deadline, expires while no
\* line is there to read; or the execution deadline expires while an inline
\* operation is carried out or a reply is written.
Timeout ==
    /\ \/ dphase = "loop" /\ stdout = << >>
       \/ dphase = "replying"
    /\ Unhealthy

\* Mutant of CancelExec: a cancelled lease parks its runner.
CancelExecParks ==
    /\ dphase # "idle"
    /\ EndDrive("unhealthy", exec)
    /\ ReleaseRunner(stdout)

\* The caller's task is cancelled; dropping the lease kills the runner.
CancelExec ==
    /\ dphase # "idle"
    /\ Unhealthy

-----------------------------------------------------------------------------
\* The runner process: one JS program per Start, chosen step by step

\* A parked runner reads its next input: a Start begins an execution in a new
\* runtime; anything else is answered with an Error line.
RunnerReadsStart ==
    /\ rphase = "parked"
    /\ stdin # << >>
    /\ \/ /\ Head(stdin).type = "start"
          /\ rphase' = "jobs"
          /\ rexec' = Head(stdin).exec
          /\ UNCHANGED stdout
       \/ /\ Head(stdin).type # "start"
          /\ Len(stdout) < PipeCap
          /\ stdout' = Append(stdout, [type |-> "error", exec |-> 0, seq |-> 0])
          /\ UNCHANGED << rphase, rexec >>
    /\ stdin' = Tail(stdin)
    /\ UNCHANGED << driveVars, rops, rseq, served, result >>

\* The code starts an operation and gets a promise.
RunnerEmits(kind) ==
    /\ rphase = "jobs"
    /\ rseq < MaxOps
    /\ Len(stdout) < PipeCap
    /\ stdout' = Append(stdout, Line(kind, rseq))
    /\ rops' = rops \cup {rseq}
    /\ rseq' = rseq + 1
    /\ UNCHANGED << driveVars, stdin, rphase, rexec, served, result >>

\* The main promise settled: a Done or an Error line, then reset_runner_seq and
\* park.  The promises of unfinished operations are dropped with the runtime.
RunnerSettles(t) ==
    /\ rphase = "jobs"
    /\ awaits => rops = {}
    /\ Len(stdout) < PipeCap
    /\ stdout' = Append(stdout, Line(t, 0))
    /\ rphase' = "parked"
    /\ rops' = {}
    /\ rseq' = 0
    /\ UNCHANGED << driveVars, stdin, rexec, served, result >>

\* The main promise is pending and no job is left: wait for input.
RunnerAwaits ==
    /\ rphase = "jobs"
    /\ rphase' = "reading"
    /\ UNCHANGED << driveVars, stdin, stdout, rexec, rops, rseq, served, result >>

\* javy_settle_tool_promise: a reply to an unsettled operation resumes the code;
\* any other input makes the settle function throw, which ends the execution.
RunnerReadsReply ==
    /\ rphase = "reading"
    /\ stdin # << >>
    /\ stdin' = Tail(stdin)
    /\ \/ /\ Head(stdin).type = "reply" /\ Head(stdin).seq \in rops
          /\ rops' = rops \ {Head(stdin).seq}
          /\ rphase' = "jobs"
          /\ UNCHANGED << stdout, rseq >>
       \/ /\ ~(Head(stdin).type = "reply" /\ Head(stdin).seq \in rops)
          /\ Len(stdout) < PipeCap
          /\ stdout' = Append(stdout, Line("error", 0))
          /\ rphase' = "parked"
          /\ rops' = {}
          /\ rseq' = 0
    /\ UNCHANGED << driveVars, rexec, served, result >>

\* The process crashes or is killed from outside.
RunnerDies ==
    /\ rphase # "dead"
    /\ rphase' = "dead"
    /\ UNCHANGED << driveVars, stdin, stdout, rexec, rops, rseq, served, result >>

-----------------------------------------------------------------------------
DriveStep ==
    \/ BeginExec
    \/ WriteStart
    \/ DetectDeath
    \/ ReadToolCall
    \/ ReadInternalCall
    \/ ReadInlineOp
    \/ ReadBadLine
    \/ ReadDone
    \/ ReadError
    \/ \E call \in pending : CallCompletes(call)
    \/ WriteReply
    \/ Timeout
    \/ CancelExec

RunnerStep ==
    \/ RunnerReadsStart
    \/ \E kind \in {"tool", "internal", "inline"} : RunnerEmits(kind)
    \/ \E t \in {"done", "error", "bad"} : RunnerSettles(t)
    \/ RunnerAwaits
    \/ RunnerReadsReply
    \/ RunnerDies

\* All executions are over: the gateway stays up with nothing to do.
Finished ==
    /\ dphase = "idle" /\ exec = MaxExec
    /\ UNCHANGED vars

Next ==
    \/ (DriveStep \/ RunnerStep) /\ UNCHANGED awaits
    \/ Finished

Spec == Init /\ [][Next]_vars

\* The executor polls the drive task, and its timers fire: an enabled step of
\* the loop, a timeout included, is eventually taken.  Nothing is assumed of the
\* runner (its code may spin for ever), of host calls, or of cancellation.
ReadLine ==
    \/ ReadToolCall \/ ReadInternalCall \/ ReadInlineOp
    \/ ReadBadLine \/ ReadDone \/ ReadError

Fairness ==
    /\ WF_vars(WriteStart /\ UNCHANGED awaits)
    /\ WF_vars(DetectDeath /\ UNCHANGED awaits)
    /\ WF_vars(ReadLine /\ UNCHANGED awaits)
    /\ WF_vars(WriteReply /\ UNCHANGED awaits)
    /\ WF_vars(Timeout /\ UNCHANGED awaits)

FairSpec == Spec /\ Fairness

-----------------------------------------------------------------------------
\* Properties

Lines == [type : {"start", "reply", "tool", "internal", "inline", "bad",
                  "done", "error"},
          exec : 0 .. MaxExec, seq : 0 .. MaxOps]

InFlight(kind) == {call \in pending : call.kind = kind}

\* Types and capacities: lines in a pipe, executions served by a process, and the
\* host calls in flight, which stay within the two budgets of the execution driven
\* even when the runner is out of step with the loop (runner_drive.rs:462-470).
TypeOK ==
    /\ dphase \in {"idle", "starting", "loop", "replying"}
    /\ exec \in 0 .. MaxExec
    /\ pending \subseteq [seq : 0 .. MaxOps, exec : 0 .. MaxExec,
                    kind : {"tool", "internal", "canned"}]
    /\ Cardinality(InFlight("tool")) <= MaxCalls
    /\ Cardinality(InFlight("internal")) <= MaxInternal
    /\ calls \in Nat /\ internal \in Nat
    /\ settling \in BOOLEAN
    /\ reply \in [seq : 0 .. MaxOps, exec : 0 .. MaxExec, arm : BOOLEAN]
    /\ stdin \in Seq(Lines) /\ Len(stdin) <= PipeCap
    /\ stdout \in Seq(Lines) /\ Len(stdout) <= PipeCap
    /\ rphase \in {"parked", "jobs", "reading", "dead"}
    /\ rexec \in 0 .. MaxExec
    /\ rops \subseteq 0 .. MaxOps
    /\ rseq \in 0 .. MaxOps
    /\ served \in 0 .. RecycleAfter - 1
    /\ result \in [Execs -> [outcome : {"none", "completed", "error", "unhealthy"},
                             from : 0 .. MaxExec, first : BOOLEAN]]
    /\ awaits \in Habits

\* An execution's answer, Done or Error, was produced by its own code
\* (runner_drive.rs:257-261 and 274-276: the runner "is safe to reuse").
OwnAnswer ==
    \A e \in Execs :
        result[e].outcome \in {"completed", "error"} => result[e].from = e

\* That is so where all code awaits the operations it starts and, whatever the
\* code does with its promises, for the first execution on a process.
AwaitedOwnAnswer ==
    \A e \in Execs :
        (awaits \/ result[e].first) /\ result[e].outcome \in {"completed", "error"}
            => result[e].from = e

\* Where code awaits its operations, a host call runs with the caller and capability
\* filter of the execution whose code asked for it (cfg.caller, enqueue_tool_call).
OwnCalls == awaits => \A call \in pending : call.exec = exec

\* A released runner is really parked, where all code awaits its operations:
\* between executions no line is left in either pipe and no code runs.
ReleasedIdle ==
    awaits /\ dphase = "idle" => /\ stdin = << >> /\ stdout = << >>
                                 /\ rphase \in {"parked", "dead"}

\* The settlement watch only runs when no host call is in flight, so the short
\* grace period never cuts a running call (runner_drive.rs:364-365, 689-693).
SettlementSound == settling => pending = {}

\* A reply that settles a promise answers an operation of the same execution:
\* where all code awaits its operations, the value one execution awaits is never
\* the result of another's call.
OwnReplies ==
    [][awaits /\ rphase = "reading" /\ rphase' = "jobs" => Head(stdin).exec = rexec]_vars

\* Every execution that begins ends, where all code awaits its operations: the
\* deadline covers every wait of the loop (runner_drive.rs:1099-1114).
ExecutionEnds == awaits /\ dphase # "idle" ~> dphase = "idle"

=============================================================================

---------------------------- MODULE ShellStream ----------------------------
(***************************************************************************)
(* A shell command whose output is streamed while it runs                  *)
(* (tools_cluster/shell_streaming.py, called from tools_cluster/           *)
(* shell_ops.py).  The calling thread waits for the command, with a        *)
(* timeout for a command of the assistant; a reader thread takes the       *)
(* output out of the pipe, gathers it and emits it in chunks.  The command *)
(* may leave a process behind that keeps the pipe open.                    *)
(*                                                                         *)
(* The output is the sequence 1, 2, 3 ...; the pipe holds what was written *)
(* and not read.  Whether a gathered line ends, is long enough or is old   *)
(* enough to be emitted is not decided here, except that a reader that     *)
(* waited in vain has waited long enough.                                  *)
(***************************************************************************)
EXTENDS Integers, Sequences, FiniteSets, SequencesExt

CONSTANTS MaxWrites,   \* bound on the writes to the pipe
          Timed        \* whether the command has a timeout

ASSUME ShellAssumption == MaxWrites \in Nat /\ Timed \in BOOLEAN

VARIABLES child,    \* "none", "running", "exited" or "killed"
          behind,   \* the process left behind, if any: "none", "open" or "ended"
          wrote,    \* how many writes there were
          pipe,     \* what is in the pipe
          reader,   \* where the reader is
          events,   \* whether its last select found something
          pending,  \* what it has read and not emitted
          chunks,   \* what was emitted, by either thread
          caller,   \* where the calling thread is
          drained,  \* what the calling thread has read and not emitted
          result,   \* the output the call returned
          quiet     \* history: what had been written when a select last found nothing

shellVars == <<child, behind, wrote, pipe, reader, events, pending, chunks, caller, drained, result, quiet>>

ShellInit ==
    /\ child = "none" /\ behind = "none" /\ wrote = 0 /\ pipe = <<>>
    /\ reader = "none" /\ events = FALSE /\ pending = <<>> /\ chunks = <<>>
    /\ caller = "idle" /\ drained = <<>> /\ result = <<>> /\ quiet = 0

\* The pipe is at its end once nobody can write to it.
WritersGone == child # "running" /\ behind # "open"

-----------------------------------------------------------------------------
(***************************************************************************)
(* The command.                                                            *)
(***************************************************************************)
Write ==
    /\ ~WritersGone /\ wrote < MaxWrites
    /\ wrote' = wrote + 1
    /\ pipe' = IF reader = "closed" THEN pipe ELSE Append(pipe, wrote + 1)
    /\ UNCHANGED <<child, behind, reader, events, pending, chunks, caller, drained, result, quiet>>

LeaveBehind ==
    /\ child = "running" /\ behind = "none"
    /\ behind' = "open"
    /\ UNCHANGED <<child, wrote, pipe, reader, events, pending, chunks, caller, drained, result, quiet>>

BehindEnds ==
    /\ behind = "open"
    /\ behind' = "ended"
    /\ UNCHANGED <<child, wrote, pipe, reader, events, pending, chunks, caller, drained, result, quiet>>

Exit ==
    /\ child = "running"
    /\ child' = "exited"
    /\ UNCHANGED <<behind, wrote, pipe, reader, events, pending, chunks, caller, drained, result, quiet>>

-----------------------------------------------------------------------------
(***************************************************************************)
(* The reader thread, _reader_event_loop.                                  *)
(***************************************************************************)
\* Up to the select's timeout the reader waits; it ends up with an event when
\* there is something to read or the pipe is at its end.
Select ==
    /\ reader = "select"
    /\ events' = (pipe # <<>> \/ WritersGone)
    /\ quiet' = IF events' THEN quiet ELSE wrote
    /\ reader' = "read"
    /\ UNCHANGED <<child, behind, wrote, pipe, pending, chunks, caller, drained, result>>

\* Without an event nothing is read; with one, the other thread may have been
\* faster and there is nothing left.
ReadNothing ==
    /\ reader = "read" /\ (~events \/ (pipe = <<>> /\ ~WritersGone))
    /\ reader' = "flush"
    /\ UNCHANGED <<child, behind, wrote, pipe, events, pending, chunks, caller, drained, result, quiet>>

ReadSome ==
    /\ reader = "read" /\ events /\ pipe # <<>>
    /\ \E n \in 1 .. Len(pipe) : /\ pending' = pending \o SubSeq(pipe, 1, n)
                                 /\ pipe' = SubSeq(pipe, n + 1, Len(pipe))
    /\ reader' = "flush"
    /\ UNCHANGED <<child, behind, wrote, events, chunks, caller, drained, result, quiet>>

\* Mutant: what is pending at the end of the pipe is dropped.
ReadEndDrops ==
    /\ reader = "read" /\ events /\ pipe = <<>> /\ WritersGone
    /\ pending' = <<>>
    /\ reader' = "close"
    /\ UNCHANGED <<child, behind, wrote, pipe, events, chunks, caller, drained, result, quiet>>

\* The end of the pipe: what is pending is emitted and the loop is left.
ReadEnd ==
    /\ reader = "read" /\ events /\ pipe = <<>> /\ WritersGone
    /\ chunks' = chunks \o pending /\ pending' = <<>>
    /\ reader' = "close"
    /\ UNCHANGED <<child, behind, wrote, pipe, events, caller, drained, result, quiet>>

Flush ==
    /\ reader = "flush" /\ pending # <<>>
    /\ chunks' = chunks \o pending /\ pending' = <<>>
    /\ reader' = "check"
    /\ UNCHANGED <<child, behind, wrote, pipe, events, caller, drained, result, quiet>>

FlushLater ==
    /\ reader = "flush" /\ (pending = <<>> \/ events)
    /\ reader' = "check"
    /\ UNCHANGED <<child, behind, wrote, pipe, events, pending, chunks, caller, drained, result, quiet>>

\* _reader_should_exit: the child is gone now, and the select, some time ago,
\* found nothing.
ShouldExit == child # "running" /\ pending = <<>> /\ ~events

CheckExit ==
    /\ reader = "check"
    /\ reader' = IF ShouldExit THEN "close" ELSE "select"
    /\ UNCHANGED <<child, behind, wrote, pipe, events, pending, chunks, caller, drained, result, quiet>>

CloseReader ==
    /\ reader = "close"
    /\ pipe' = <<>>
    /\ reader' = "closed"
    /\ UNCHANGED <<child, behind, wrote, events, pending, chunks, caller, drained, result, quiet>>

-----------------------------------------------------------------------------
(***************************************************************************)
(* The calling thread, run_streaming_subprocess.                           *)
(***************************************************************************)
\* The command is started, and the reader thread behind it.
Popen ==
    /\ caller = "idle"
    /\ child' = "running" /\ reader' = "select" /\ caller' = "wait"
    /\ UNCHANGED <<behind, wrote, pipe, events, pending, chunks, drained, result, quiet>>

\* Mutant: the caller waits for the end of the pipe.
WaitForEnd ==
    /\ caller = "wait" /\ WritersGone
    /\ caller' = "join"
    /\ UNCHANGED <<child, behind, wrote, pipe, reader, events, pending, chunks, drained, result, quiet>>

Wait ==
    /\ caller = "wait" /\ child # "running"
    /\ caller' = "join"
    /\ UNCHANGED <<child, behind, wrote, pipe, reader, events, pending, chunks, drained, result, quiet>>

\* The command is killed and the call raises; nothing is returned, and the
\* reader is left to itself.
TimeOut ==
    /\ caller = "wait" /\ child = "running" /\ Timed
    /\ child' = "killed"
    /\ caller' = "raised"
    /\ UNCHANGED <<behind, wrote, pipe, reader, events, pending, chunks, drained, result, quiet>>

Join ==
    /\ caller = "join" /\ reader = "closed"
    /\ caller' = "collect"
    /\ UNCHANGED <<child, behind, wrote, pipe, reader, events, pending, chunks, drained, result, quiet>>

\* The reader is not done within a second: one more read of what there is,
\* which may fail when the reader closes the pipe meanwhile.
JoinTimeOut ==
    /\ caller = "join" /\ reader # "closed"
    /\ drained' = pipe /\ pipe' = <<>>
    /\ caller' = "drain"
    /\ UNCHANGED <<child, behind, wrote, reader, events, pending, chunks, result, quiet>>

Drain ==
    /\ caller = "drain"
    /\ chunks' = chunks \o drained /\ drained' = <<>>
    /\ caller' = "collect"
    /\ UNCHANGED <<child, behind, wrote, pipe, reader, events, pending, result, quiet>>

Collect ==
    /\ caller = "collect"
    /\ result' = chunks
    /\ caller' = "returned"
    /\ UNCHANGED <<child, behind, wrote, pipe, reader, events, pending, chunks, drained, quiet>>

ChildNext == Write \/ LeaveBehind \/ BehindEnds \/ Exit
ReaderNext == Select \/ ReadNothing \/ ReadSome \/ ReadEnd \/ Flush \/ FlushLater \/ CheckExit \/ CloseReader
CallerNext == Wait \/ TimeOut \/ Join \/ JoinTimeOut \/ Drain \/ Collect

ShellNext == Popen \/ ChildNext \/ ReaderNext \/ CallerNext

ShellSpec == ShellInit /\ [][ShellNext]_shellVars

\* Both threads run on.  The command need not end, nor what it leaves behind.
ShellFairness == WF_shellVars(ReaderNext) /\ WF_shellVars(CallerNext)

-----------------------------------------------------------------------------
Writes == Seq(1 .. MaxWrites)

\* Type correctness of the pipe and the two threads.
ShellTypeOK ==
    /\ child \in {"none", "running", "exited", "killed"} /\ behind \in {"none", "open", "ended"} /\ events \in BOOLEAN
    /\ wrote \in 0 .. MaxWrites /\ quiet \in 0 .. wrote
    /\ pipe \in Writes /\ pending \in Writes /\ chunks \in Writes /\ drained \in Writes /\ result \in Writes
    /\ reader \in {"none", "select", "read", "flush", "check", "close", "closed"}
    /\ caller \in {"idle", "wait", "join", "drain", "collect", "returned", "raised"}
    /\ drained # <<>> => caller = "drain"

\* While two threads take output from one pipe, nothing is taken or emitted
\* twice and nothing the command wrote disappears before the pipe is closed.
\* A reader that is done has emitted everything that had been written when it
\* last found nothing to read, and everything there was if it saw the end.
OutputConserved ==
    LET held == chunks \o pending \o drained \o pipe
    IN  /\ IsInjective(held)
        /\ reader \notin {"close", "closed"} => ToSet(held) = 1 .. wrote
        /\ reader \in {"close", "closed"} /\ drained = <<>> =>
             1 .. (IF events THEN wrote ELSE quiet) \subseteq ToSet(chunks)

\* A call whose command ends, or that has a timeout, comes back: a process left
\* behind does not hold it up.
CallReturns ==
    (caller # "idle" /\ (child # "running" \/ Timed)) ~> (caller \in {"returned", "raised"})

=============================================================================

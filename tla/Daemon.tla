------------------------------- MODULE Daemon -------------------------------
(***************************************************************************)
(* The daemon's life (daemon/server_lifecycle.py, rpc_unix.py on a Unix    *)
(* socket): start, stop and status by the operator's commands, and what    *)
(* serve_forever does to the pid file and to the socket file.  Neither     *)
(* file is locked.                                                         *)
(***************************************************************************)
EXTENDS Integers, FiniteSets

CONSTANTS Operators,    \* commands that may be running
          MaxDaemons,   \* bound: daemon processes
          MaxCommands   \* bound: commands given

ASSUME DaemonAssumption == MaxDaemons \in Nat /\ MaxCommands \in Nat

VARIABLES daemon,    \* where each daemon process is
          pidFile,   \* the process .toas/toas.pid names, 0 if it is absent
          sock,      \* the process bound to .toas/toas.sock, 0 if it is absent
          command,   \* what each operator's command is doing
          given,     \* commands given so far
          disturbed  \* whether commands overlapped or one gave up (history)

daemonVars == <<daemon, pidFile, sock, command, given, disturbed>>

Daemons == 1 .. MaxDaemons
NoCommand == [at |-> "idle", pid |-> 0]
Lives(d) == d # 0 /\ daemon[d] \notin {"none", "dead"}
\* run_step_healthcheck: a request through the socket file is answered.
Healthy == sock # 0 /\ daemon[sock] = "serving"
\* status: the recorded process lives and there is a socket, or an answer.
Running == Lives(pidFile) /\ (sock # 0 \/ Healthy)
Settled == \A d \in Daemons : daemon[d] \in {"none", "serving", "dead"}
NoneRuns == \A o \in Operators : command[o] = NoCommand

DaemonTypeOK ==
    /\ daemon \in [Daemons -> {"none", "boot", "recorded", "cleared", "serving", "closing", "dead"}]
    /\ pidFile \in 0 .. MaxDaemons /\ sock \in 0 .. MaxDaemons /\ disturbed \in BOOLEAN
    /\ command \in [Operators -> [at : {"idle", "start", "stale", "spawn", "await", "stop", "term", "kill", "tidy"},
                                  pid : 0 .. MaxDaemons]]

DaemonInit ==
    /\ daemon = [d \in Daemons |-> "none"] /\ pidFile = 0 /\ sock = 0
    /\ command = [o \in Operators |-> NoCommand] /\ given = 0 /\ disturbed = FALSE

Becomes(d, s) == daemon' = [daemon EXCEPT ![d] = s]
Moves(o, place, p) == command' = [command EXCEPT ![o] = [at |-> place, pid |-> p]]
Ends(o) == command' = [command EXCEPT ![o] = NoCommand]

-----------------------------------------------------------------------------
(***************************************************************************)
(* serve_forever                                                           *)
(***************************************************************************)
RecordPid(d) ==
    /\ daemon[d] = "boot" /\ pidFile' = d /\ Becomes(d, "recorded")
    /\ UNCHANGED <<sock, command, given, disturbed>>

\* UnixRpcServer.start takes whatever socket file is there out of the way.
ClearSocket(d) ==
    /\ daemon[d] = "recorded" /\ sock' = 0 /\ Becomes(d, "cleared")
    /\ UNCHANGED <<pidFile, command, given, disturbed>>

\* Binding fails when another process was quicker; that ends the daemon.
Bind(d) ==
    /\ daemon[d] = "cleared"
    /\ IF sock = 0 THEN sock' = d /\ Becomes(d, "serving")
       ELSE UNCHANGED sock /\ Becomes(d, "dead")
    /\ UNCHANGED <<pidFile, command, given, disturbed>>

\* An interrupt at the terminal: the finally clause removes the socket file,
\* then the pid file, whoever they name by then.
Interrupt(d) ==
    /\ daemon[d] = "serving" /\ sock' = 0 /\ Becomes(d, "closing")
    /\ disturbed' = (disturbed \/ ~NoneRuns)
    /\ UNCHANGED <<pidFile, command, given>>

Close(d) ==
    /\ daemon[d] = "closing" /\ pidFile' = 0 /\ Becomes(d, "dead")
    /\ UNCHANGED <<sock, command, given, disturbed>>

\* A daemon that is killed, or crashes, leaves both files behind.
Dies(d) ==
    /\ Lives(d) /\ Becomes(d, "dead")
    /\ UNCHANGED <<pidFile, sock, command, given, disturbed>>

-----------------------------------------------------------------------------
GiveCommand(o) ==
    /\ command[o] = NoCommand /\ given < MaxCommands
    /\ given' = given + 1
    /\ disturbed' = (disturbed \/ ~NoneRuns \/ ~Settled)
    /\ \E place \in {"start", "stop"} : Moves(o, place, 0)
    /\ UNCHANGED <<daemon, pidFile, sock>>

\* start: nothing to do when status says running; else ask for the socket's health.
StartFinds(o) ==
    /\ command[o].at = "start"
    /\ IF Running THEN Ends(o) ELSE Moves(o, "stale", IF Healthy THEN sock ELSE 0)
    /\ UNCHANGED <<daemon, pidFile, sock, given, disturbed>>

\* stale_socket_cleanup, on the answer just obtained.
CleanStale(o) ==
    /\ command[o].at = "stale"
    /\ sock' = IF command[o].pid = 0 THEN 0 ELSE sock
    /\ Moves(o, "spawn", 0)
    /\ UNCHANGED <<daemon, pidFile, given, disturbed>>

Spawn(o) ==
    /\ command[o].at = "spawn"
    /\ \E d \in Daemons : /\ daemon[d] = "none" /\ \A e \in 1 .. d - 1 : daemon[e] # "none"
                          /\ Becomes(d, "boot")
    /\ Moves(o, "await", 0)
    /\ UNCHANGED <<pidFile, sock, given, disturbed>>

Started(o) ==
    /\ command[o].at = "await" /\ Healthy /\ Ends(o)
    /\ UNCHANGED <<daemon, pidFile, sock, given, disturbed>>

\* failed to start daemon within timeout: the process is left alone.
StartTimesOut(o) ==
    /\ command[o].at = "await" /\ ~Healthy /\ Ends(o) /\ disturbed' = TRUE
    /\ UNCHANGED <<daemon, pidFile, sock, given>>

\* stop: without a pid file there is only a socket file to remove.
StopReads(o) ==
    /\ command[o].at = "stop"
    /\ Moves(o, IF Lives(pidFile) THEN "term" ELSE "tidy", pidFile)
    /\ UNCHANGED <<daemon, pidFile, sock, given, disturbed>>

\* Mutant: the files are removed without waiting for the process to end.
TerminateUnwaited(o) ==
    /\ command[o].at = "term" /\ Moves(o, "tidy", command[o].pid)
    /\ \/ Becomes(command[o].pid, "dead")
       \/ UNCHANGED daemon
    /\ UNCHANGED <<pidFile, sock, given, disturbed>>

\* SIGTERM is not handled: it ends the process on the spot, if it is not stuck.
Terminate(o) ==
    /\ command[o].at = "term"
    /\ \/ Becomes(command[o].pid, "dead") /\ Moves(o, "tidy", command[o].pid)
       \/ UNCHANGED daemon /\ Moves(o, "kill", command[o].pid)
    /\ UNCHANGED <<pidFile, sock, given, disturbed>>

\* SIGKILL; failed to stop daemon within timeout if even that takes too long.
Kill(o) ==
    /\ command[o].at = "kill"
    /\ \/ Becomes(command[o].pid, "dead") /\ Moves(o, "tidy", command[o].pid) /\ UNCHANGED disturbed
       \/ UNCHANGED daemon /\ Ends(o) /\ disturbed' = TRUE
    /\ UNCHANGED <<pidFile, sock, given>>

\* What the process ended left behind, whoever wrote it.
Tidy(o) ==
    /\ command[o].at = "tidy" /\ sock' = 0
    /\ pidFile' = IF command[o].pid = 0 THEN pidFile ELSE 0
    /\ Ends(o)
    /\ UNCHANGED <<daemon, given, disturbed>>

\* The operator runs the server in the foreground.
ServeInForeground ==
    /\ given < MaxCommands /\ given' = given + 1
    /\ disturbed' = (disturbed \/ ~NoneRuns \/ \E d \in Daemons : Lives(d))
    /\ \E d \in Daemons : /\ daemon[d] = "none" /\ \A e \in 1 .. d - 1 : daemon[e] # "none"
                          /\ Becomes(d, "boot")
    /\ UNCHANGED <<pidFile, sock, command>>

CommandStep(o) ==
    StartFinds(o) \/ CleanStale(o) \/ Spawn(o) \/ Started(o) \/ StartTimesOut(o)
    \/ StopReads(o) \/ Terminate(o) \/ Kill(o) \/ Tidy(o)
DaemonStep(d) == RecordPid(d) \/ ClearSocket(d) \/ Bind(d) \/ Interrupt(d) \/ Close(d) \/ Dies(d)
DaemonNext ==
    \/ \E o \in Operators : GiveCommand(o) \/ CommandStep(o)
    \/ \E d \in Daemons : DaemonStep(d)
    \/ ServeInForeground

DaemonSpec == DaemonInit /\ [][DaemonNext]_daemonVars

-----------------------------------------------------------------------------
\* Commands given one after the other, each after the processes of the one
\* before it settled and none giving up, never leave a daemon behind: at most
\* one lives, and while it serves both files name it, so the next stop finds it.
\* Crashes and kills may come at any time, an interrupt between commands.
OneDaemon ==
    ~disturbed => \A d \in Daemons : Lives(d) =>
        /\ \A e \in Daemons : Lives(e) => e = d
        /\ daemon[d] = "serving" => pidFile = d /\ sock = d
=============================================================================

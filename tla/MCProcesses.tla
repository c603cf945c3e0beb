---------------------------- MODULE MCProcesses ----------------------------
(***************************************************************************)
(* The four places where toas starts and ends processes, each on its own:  *)
(* they share no state, so a behaviour is a behaviour of one of them.      *)
(***************************************************************************)
EXTENDS Backend, Daemon, SessionHost, ShellStream

VARIABLE part   \* the one that runs

processesVars == <<part, backendVars, daemonVars, hostVars, shellVars>>

ProcessesInit ==
    /\ part \in {"backend", "daemon", "host", "shell"}
    /\ BackendInit /\ DaemonInit /\ HostInit /\ ShellInit

ProcessesNext ==
    \/ part = "backend" /\ BackendNext /\ UNCHANGED <<part, daemonVars, hostVars, shellVars>>
    \/ part = "daemon" /\ DaemonNext /\ UNCHANGED <<part, backendVars, hostVars, shellVars>>
    \/ part = "host" /\ HostNext /\ UNCHANGED <<part, backendVars, daemonVars, shellVars>>
    \/ part = "shell" /\ ShellNext /\ UNCHANGED <<part, backendVars, daemonVars, hostVars>>

ProcessesSpec ==
    /\ ProcessesInit /\ [][ProcessesNext]_processesVars
    /\ BackendFairness /\ HostFairness /\ ShellFairness
=============================================================================

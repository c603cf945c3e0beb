------------------------------ MODULE Backend ------------------------------
(***************************************************************************)
(* The model-serving process a workspace manages                           *)
(* (runtime/model_backend_lifecycle.py): start, stop, restart and status,  *)
(* called by the request threads of the daemon or of a session host.  Only *)
(* the managed-local mode is modelled; in the external mode no call does   *)
(* anything.  One lock guards the held process; the wait for its health    *)
(* and the writing of the lifecycle records happen outside it.             *)
(***************************************************************************)
EXTENDS Integers, Sequences, FiniteSets

CONSTANTS Callers,      \* request threads
          MaxServers,   \* bound: processes spawned
          MaxCalls      \* bound: calls made

ASSUME BackendAssumption == MaxServers \in Nat /\ MaxCalls \in Nat

VARIABLES server,    \* what became of each process: none, up, told, killed, dead
          held,      \* the process the lifecycle object holds, 0 if none
          holder,    \* who has the lock, or nobody
          call,      \* what each caller is doing: operation, place, process
          activeRun, \* whether a run is in progress
          lifecycle, \* the lifecycle records written
          calls      \* calls made so far

backendVars == <<server, held, holder, call, activeRun, lifecycle, calls>>

Servers == 1 .. MaxServers
Nobody == "nobody"
Idle == [op |-> "none", at |-> "idle", proc |-> 0]
Alive(p) == p # 0 /\ server[p] \in {"up", "told", "killed"}

BackendTypeOK ==
    /\ server \in [Servers -> {"none", "up", "told", "killed", "dead"}]
    /\ held \in 0 .. MaxServers /\ holder \in Callers \cup {Nobody}
    /\ call \in [Callers -> [op : {"none", "start", "stop", "restart"},
                             at : {"idle", "start", "probe", "stop", "wait", "check", "recheck"},
                             proc : 0 .. MaxServers]]
    /\ activeRun \in BOOLEAN /\ calls \in 0 .. MaxCalls

BackendInit ==
    /\ server = [p \in Servers |-> "none"] /\ held = 0 /\ holder = Nobody
    /\ call = [c \in Callers |-> Idle] /\ activeRun = FALSE /\ lifecycle = <<>> /\ calls = 0

Written(action, status, p) == lifecycle' = Append(lifecycle, [action |-> action, status |-> status, proc |-> p])
At(c, place) == call[c].at = place
Goes(c, place, p) == call' = [call EXCEPT ![c].at = place, ![c].proc = p]
Returns(c) == call' = [call EXCEPT ![c] = Idle]

-----------------------------------------------------------------------------
CallBackend(c) ==
    /\ At(c, "idle") /\ calls < MaxCalls
    /\ \E op \in {"start", "stop", "restart"} :
        call' = [call EXCEPT ![c] = [op |-> op, proc |-> 0,
                                     at |-> IF op = "start" THEN "start" ELSE "check"]]
    /\ calls' = calls + 1
    /\ UNCHANGED <<server, held, holder, activeRun, lifecycle>>

\* The held process, if any, is over (poll).
Vacant == ~Alive(held)

\* start finds a process that is not over, of whatever configuration.
StartFindsOne(c) ==
    /\ At(c, "start") /\ holder = Nobody /\ ~Vacant
    /\ IF call[c].op = "restart" THEN Written("restart", "ok", held) ELSE UNCHANGED lifecycle
    /\ Returns(c)
    /\ UNCHANGED <<server, held, holder, activeRun, calls>>

StartSpawns(c) ==
    /\ At(c, "start") /\ holder = Nobody /\ Vacant
    /\ \E p \in Servers :
        /\ server[p] = "none" /\ \A q \in 1 .. p - 1 : server[q] # "none"
        /\ server' = [server EXCEPT ![p] = "up"]
        /\ held' = p /\ Goes(c, "probe", p)
    /\ UNCHANGED <<holder, activeRun, lifecycle, calls>>

\* The health probe answers before the deadline.
ProbeHealthy(c) ==
    /\ At(c, "probe") /\ Alive(call[c].proc)
    /\ lifecycle' = lifecycle \o
         <<[action |-> "start", status |-> "ok", proc |-> call[c].proc]>> \o
         (IF call[c].op = "restart" THEN <<[action |-> "restart", status |-> "ok", proc |-> call[c].proc]>>
          ELSE <<>>)
    /\ Returns(c)
    /\ UNCHANGED <<server, held, holder, activeRun, calls>>

\* Mutant: a start that gives up forgets the process it spawned.
ProbeFailedForgets(c) ==
    /\ At(c, "probe") /\ held' = 0
    /\ Written("start", "error", call[c].proc) /\ Returns(c)
    /\ UNCHANGED <<server, holder, activeRun, calls>>

\* The process is over or the deadline passed: it is told to end and the
\* caller gets an error.  The process stays the held one.
ProbeFailed(c) ==
    /\ At(c, "probe")
    /\ server' = [server EXCEPT ![call[c].proc] = IF @ = "up" THEN "told" ELSE @]
    /\ Written("start", "error", call[c].proc) /\ Returns(c)
    /\ UNCHANGED <<held, holder, activeRun, calls>>

\* stop, and restart before it stops, refuse while a run is in progress;
\* restart asks twice.
Check(c) ==
    /\ At(c, "check") \/ At(c, "recheck")
    /\ IF activeRun THEN Returns(c)
       ELSE Goes(c, IF At(c, "check") /\ call[c].op = "restart" THEN "recheck" ELSE "stop", 0)
    /\ UNCHANGED <<server, held, holder, activeRun, lifecycle, calls>>

AfterStop(c) == IF call[c].op = "restart" THEN Goes(c, "start", 0) ELSE Returns(c)

StopFindsNone(c) ==
    /\ At(c, "stop") /\ holder = Nobody /\ Vacant
    /\ held' = 0 /\ Written("stop", "ok", 0) /\ AfterStop(c)
    /\ UNCHANGED <<server, holder, activeRun, calls>>

StopTells(c) ==
    /\ At(c, "stop") /\ holder = Nobody /\ ~Vacant
    /\ server' = [server EXCEPT ![held] = IF @ = "up" THEN "told" ELSE @]
    /\ holder' = c /\ Goes(c, "wait", held)
    /\ UNCHANGED <<held, activeRun, lifecycle, calls>>

StopWaited(c) ==
    /\ At(c, "wait") /\ ~Alive(held)
    /\ held' = 0 /\ holder' = Nobody /\ Written("stop", "ok", 0) /\ AfterStop(c)
    /\ UNCHANGED <<server, activeRun, calls>>

\* Mutant: the lock is kept when the process has to be killed.
StopKillsHolding(c) ==
    /\ At(c, "wait") /\ Alive(held)
    /\ server' = [server EXCEPT ![held] = "killed"]
    /\ held' = 0 /\ Written("stop", "ok", 0) /\ AfterStop(c)
    /\ UNCHANGED <<holder, activeRun, calls>>

\* The process did not end within the two seconds.
StopKills(c) ==
    /\ At(c, "wait") /\ Alive(held)
    /\ server' = [server EXCEPT ![held] = "killed"]
    /\ held' = 0 /\ holder' = Nobody /\ Written("stop", "ok", 0) /\ AfterStop(c)
    /\ UNCHANGED <<activeRun, calls>>

-----------------------------------------------------------------------------
ServerEnds(p) ==
    /\ Alive(p) /\ server' = [server EXCEPT ![p] = "dead"]
    /\ UNCHANGED <<held, holder, call, activeRun, lifecycle, calls>>

\* Runs come and go (has_active_runs reads the activity store).
RunComesOrGoes ==
    /\ activeRun' = ~activeRun
    /\ UNCHANGED <<server, held, holder, call, lifecycle, calls>>

CallStep(c) ==
    StartFindsOne(c) \/ StartSpawns(c) \/ ProbeHealthy(c) \/ ProbeFailed(c) \/ Check(c)
    \/ StopFindsNone(c) \/ StopTells(c) \/ StopWaited(c) \/ StopKills(c)

BackendNext ==
    \/ \E c \in Callers : CallBackend(c) \/ CallStep(c)
    \/ \E p \in Servers : ServerEnds(p)
    \/ RunComesOrGoes

BackendSpec == BackendInit /\ [][BackendNext]_backendVars

\* Every loop of a call has a deadline, so each call takes its next step.
BackendFairness == \A c \in Callers : WF_backendVars(CallStep(c))

-----------------------------------------------------------------------------
\* No process is left serving behind the lifecycle's back: one that nobody told
\* to end is the one held, so there is never a second and stop can reach it.
OneServer == \A p \in Servers : server[p] = "up" => p = held

\* start, stop and restart return, whoever else is calling: the lock is given
\* back on every path.
BackendCallsReturn == \A c \in Callers : ~At(c, "idle") ~> At(c, "idle")
=============================================================================

---------------------------- MODULE SessionHost ----------------------------
(***************************************************************************)
(* Session hosts: processes that serve an owner (an editor, or one command *)
(* in a shell) and end with it, and the record of the workspace's current  *)
(* host (runtime/session_host_state.py, runtime/session_host_process.py,   *)
(* cli_async_commands.py, cli_host_commands.py).  The record file is read, *)
(* written and removed without a lock.                                     *)
(***************************************************************************)
EXTENDS Integers, FiniteSets

CONSTANTS Shells, Editors,   \* the owners, by kind
          MaxHosts           \* bound: host processes

ASSUME SessionHostAssumption == MaxHosts \in Nat /\ Shells \cap Editors = {}

VARIABLES host,      \* each host process: none, up, over
          ownerOf,   \* the owner it was spawned for
          alive,     \* the owners that are alive
          record,    \* the host session-host.json names, 0 if it is absent
          doing      \* what each owner is doing, with the host it deals with

hostVars == <<host, ownerOf, alive, record, doing>>

Owners == Shells \cup Editors
Hosts == 1 .. MaxHosts
NoOwner == "no owner"
Rest == [at |-> "rest", host |-> 0]

HostTypeOK ==
    /\ host \in [Hosts -> {"none", "up", "over"}] /\ ownerOf \in [Hosts -> Owners \cup {NoOwner}]
    /\ alive \subseteq Owners /\ record \in 0 .. MaxHosts
    /\ doing \in [Owners -> [at : {"rest", "ensure", "spawned", "recheck", "attached", "stop", "clear"},
                             host : 0 .. MaxHosts]]

HostInit ==
    /\ host = [h \in Hosts |-> "none"] /\ ownerOf = [h \in Hosts |-> NoOwner]
    /\ alive = Owners /\ record = 0 /\ doing = [o \in Owners |-> Rest]

Turns(o, place, h) == doing' = [doing EXCEPT ![o] = [at |-> place, host |-> h]]

\* record_is_stale: the host or its owner is gone.
Stale(h) == h = 0 \/ host[h] # "up" \/ ownerOf[h] \notin alive

-----------------------------------------------------------------------------
\* _resolve_active_session_host_record: a stale record is removed.  A shell is
\* refused while an editor's host is the current one.
Resolve(o) ==
    /\ o \in alive /\ doing[o] = Rest
    /\ record' = IF Stale(record) THEN 0 ELSE record
    /\ IF Stale(record) THEN Turns(o, "ensure", 0)
       ELSE IF o \in Shells /\ ownerOf[record] \in Editors THEN UNCHANGED doing
       ELSE Turns(o, "attached", record)
    /\ UNCHANGED <<host, ownerOf, alive>>

\* ensure_session_host_record: another owner's host will not do.
Ensure(o) ==
    /\ o \in alive /\ doing[o].at = "ensure"
    /\ IF ~Stale(record) /\ ownerOf[record] = o
       THEN Turns(o, "recheck", record) /\ UNCHANGED <<host, ownerOf>>
       ELSE \E h \in Hosts : /\ host[h] = "none" /\ \A k \in 1 .. h - 1 : host[k] # "none"
                             /\ host' = [host EXCEPT ![h] = "up"]
                             /\ ownerOf' = [ownerOf EXCEPT ![h] = o]
                             /\ Turns(o, "spawned", h)
    /\ UNCHANGED <<alive, record>>

WriteHostRecord(o) ==
    /\ o \in alive /\ doing[o].at = "spawned"
    /\ record' = doing[o].host /\ Turns(o, "recheck", doing[o].host)
    /\ UNCHANGED <<host, ownerOf, alive>>

\* The host may be over already: then whatever record is there is removed.
Recheck(o) ==
    /\ o \in alive /\ doing[o].at = "recheck"
    /\ IF Stale(doing[o].host) THEN record' = 0 /\ Turns(o, "rest", 0)
       ELSE UNCHANGED record /\ Turns(o, "attached", doing[o].host)
    /\ UNCHANGED <<host, ownerOf, alive>>

Detach(o) ==
    /\ o \in alive /\ doing[o].at = "attached" /\ doing' = [doing EXCEPT ![o] = Rest]
    /\ UNCHANGED <<host, ownerOf, alive, record>>

\* toas host stop, given by an owner: the recorded host is signalled, then the
\* record of that moment is removed.
StopReadsRecord(o) ==
    /\ o \in alive /\ doing[o] = Rest /\ record # 0
    /\ Turns(o, "stop", record)
    /\ UNCHANGED <<host, ownerOf, alive, record>>

StopHost(o) ==
    /\ o \in alive /\ doing[o].at = "stop"
    /\ host' = [host EXCEPT ![doing[o].host] = "over"] /\ Turns(o, "clear", 0)
    /\ UNCHANGED <<ownerOf, alive, record>>

ClearRecord(o) ==
    /\ o \in alive /\ doing[o].at = "clear" /\ record' = 0 /\ doing' = [doing EXCEPT ![o] = Rest]
    /\ UNCHANGED <<host, ownerOf, alive>>

OwnerEnds(o) ==
    /\ o \in alive /\ alive' = alive \ {o}
    /\ UNCHANGED <<host, ownerOf, record, doing>>

\* Mutant: a host follows the owner of the record, not its own.
FollowRecorded(h) ==
    /\ host[h] = "up" /\ record # 0 /\ ownerOf[record] \notin alive
    /\ host' = [host EXCEPT ![h] = "over"]
    /\ UNCHANGED <<ownerOf, alive, record, doing>>

\* serve_session_host, _serve_loop_sync: the owner is probed on every round; an
\* owner that is gone has closed its end of the pipe, so no read blocks.
FollowOwner(h) ==
    /\ host[h] = "up" /\ ownerOf[h] \notin alive
    /\ host' = [host EXCEPT ![h] = "over"]
    /\ UNCHANGED <<ownerOf, alive, record, doing>>

HostNext ==
    \/ \E o \in Owners : Resolve(o) \/ Ensure(o) \/ WriteHostRecord(o) \/ Recheck(o) \/ Detach(o)
                         \/ StopReadsRecord(o) \/ StopHost(o) \/ ClearRecord(o) \/ OwnerEnds(o)
    \/ \E h \in Hosts : FollowOwner(h)

\* A host polls its owner for ever.
HostFairness == \A h \in Hosts : WF_hostVars(FollowOwner(h))

-----------------------------------------------------------------------------
\* No host outlives its owner, whatever the races on the record: not the host
\* whose record another owner overwrote, nor one whose owner died before it
\* wrote the record.
HostFollowsOwner ==
    \A h \in Hosts : (host[h] = "up" /\ ownerOf[h] \notin alive) ~> host[h] = "over"
=============================================================================

---------------------------- MODULE WatchStream ----------------------------
(***************************************************************************)
(* Readers of a run's event stream, composed with the run itself:          *)
(*  - followers: the session host's stream_subscribe bridge                *)
(*    (session_host_stream_bridge.py), reading in follow mode;             *)
(*  - pollers: the loop of `toas watch --follow` (cli_async_commands.py),  *)
(*    reading in poll mode.                                                *)
(* Each read is one watch_async_step: apply the cancellation policy, take  *)
(* a baseline, (follow mode) wait, apply the policy again, and take the    *)
(* view the reader gets.  The waiting may end at any time, by an event or  *)
(* by its timeout.                                                         *)
(***************************************************************************)
EXTENDS AsyncRun

CONSTANTS Followers, Pollers   \* the threads of Clients that read the stream

Readers == Followers \cup Pollers

ASSUME WatchAssumption == Readers \subseteq Clients /\ Followers \cap Pollers = {}

VARIABLE
    reader   \* per reader: where its read is, its cursor, what it delivered

wvars == <<vars, reader>>

Over == {"open", "terminal_event", "terminal_status", "gave_up"}

Reader == [at : {"off", "policy1", "baseline", "policy2"},
           base : Nat,        \* event_seq of _capture_watch_baseline
           since : Nat,       \* the since_seq cursor the next read sends
           got : Seq(Nat),    \* sequence numbers delivered, in order
           over : Over]

TerminalKinds == {"error", "llm_done", "run_done"}

-----------------------------------------------------------------------------

\* A read begins: the request thread enters the policy.
BeginRead(w) ==
    /\ reader[w].at = "off" /\ reader[w].over = "open"
    /\ WatchRequest(w)
    /\ reader' = [reader EXCEPT ![w].at = "policy1"]

\* _capture_watch_baseline, then the policy a second time.
Baseline(w) ==
    /\ reader[w].at = "policy1" /\ pc[w] = "idle"
    /\ reader' = [reader EXCEPT ![w].at = "policy2", ![w].base = Len(events)]
    /\ GoTo(w, "pol_supports")
    /\ UNCHANGED <<runVars, records, persisted, worker, starter, op>>

\* Mutant of UpperSeq: a follow read is bounded like a poll.
UpperSeqBaseline(w) == reader[w].base

\* The bound of _capture_stream_view: a poll stops at its baseline.
UpperSeq(w) == IF w \in Pollers THEN reader[w].base ELSE Len(events)

NewSeqs(since, upper) == [i \in 1..(upper - since) |-> since + i]

\* Mutant of TakeView: only the status ends a subscription.
TakeViewStatusOnly(w) ==
    /\ reader[w].at = "policy2" /\ pc[w] = "idle"
    /\ LET upper == UpperSeq(w)
           since == reader[w].since
       IN  reader' = [reader EXCEPT ![w] =
             [reader[w] EXCEPT !.at = "off",
                               !.since = upper,
                               !.got = @ \o NewSeqs(since, upper),
                               !.over = IF status \in Terminal
                                        THEN "terminal_status" ELSE "open"]]
    /\ UNCHANGED vars

\* _capture_stream_view reads events and status in one lock section; then
\* consume_subscribe_read_payload (bridge) or run_watch (CLI) takes them in.
TakeView(w) ==
    /\ reader[w].at = "policy2" /\ pc[w] = "idle"
    /\ LET upper == UpperSeq(w)
           since == reader[w].since
           news == {events[i].type : i \in (since + 1)..upper}
       IN  reader' = [reader EXCEPT ![w] =
             [reader[w] EXCEPT !.at = "off",
                               !.since = upper,
                               !.got = @ \o NewSeqs(since, upper),
                               !.over = IF news \cap TerminalKinds # {}
                                        THEN "terminal_event"
                                        ELSE IF status \in Terminal
                                        THEN "terminal_status" ELSE "open"]]
    /\ UNCHANGED vars

\* The bridge's deadlines, or a read that outlives its fuse, end the
\* subscription without a terminal answer; a late result is dropped.
GiveUp(w) ==
    /\ w \in Followers /\ reader[w].over = "open"
    /\ reader' = [reader EXCEPT ![w].over = "gave_up", ![w].at = "off"]
    /\ UNCHANGED vars

\* The editor subscribes again from its cursor.
Resubscribe(w) ==
    /\ reader[w].over = "gave_up" /\ pc[w] = "idle"
    /\ reader' = [reader EXCEPT ![w].over = "open"]
    /\ UNCHANGED vars

-----------------------------------------------------------------------------

WInit ==
    /\ Init
    /\ reader = [w \in Readers |->
                   [at |-> "off", base |-> 0, since |-> 0, got |-> <<>>,
                    over |-> "open"]]

ReaderStep(w) == BeginRead(w) \/ Baseline(w) \/ TakeView(w) \/ Resubscribe(w)

RunStep ==
    \/ StarterStep \/ WorkerStep
    \/ \E p \in Clients \ Readers : CancelRequest(p)
    \/ \E p \in Clients : ClientStep(p)

WNext ==
    \/ RunStep /\ UNCHANGED reader
    \/ \E w \in Readers : ReaderStep(w) \/ GiveUp(w)

WSpec == WInit /\ [][WNext]_wvars

-----------------------------------------------------------------------------
(* Properties.                                                             *)

\* Type correctness of the readers.
WTypeOK == reader \in [Readers -> Reader]

\* Over any mix of reads, timeouts and new subscriptions a reader gets every
\* event up to its cursor once, in order: no gap, no duplicate, and never an
\* event the run has not emitted.
DeliveredInOrder ==
    \A w \in Readers :
        /\ reader[w].since <= Len(events)
        /\ reader[w].got = NewSeqs(0, reader[w].since)

SawRunDone(w) ==
    \E i \in 1..Len(reader[w].got) : events[reader[w].got[i]].type = "run_done"

\* A subscription that reports completion has delivered run_done, and so the
\* whole stream before it: complete=true is never a guess of the bridge.
FollowerSawTheEnd ==
    \A w \in Followers :
        reader[w].over \in {"terminal_event", "terminal_status"} => SawRunDone(w)

\* A subscription delivers the stream, the whole of it and nothing else.
DeliveredWhole == DeliveredInOrder /\ FollowerSawTheEnd

\* The worker, the request threads and the readers are not suspended, and a
\* subscription that was cut is renewed.
WFairSpec ==
    /\ WSpec
    /\ WF_wvars(StarterStep /\ UNCHANGED reader)
    /\ WF_wvars(WorkerStep /\ UNCHANGED reader)
    /\ \A w \in Readers : /\ WF_wvars(ReaderStep(w))
                          /\ WF_wvars(ClientStep(w) /\ UNCHANGED reader)

\* Every reader is told that the run is over, unless its subscriptions are cut
\* again and again: also when a racing cancel left the run "cancelling".
ReadersFinish ==
    \A w \in Readers :
        \/ <>(reader[w].over \in {"terminal_event", "terminal_status"})
        \/ []<>(reader[w].over = "gave_up")

=============================================================================

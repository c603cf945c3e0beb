---------------------------- MODULE WatchProofs ----------------------------
(***************************************************************************)
(* Theorems about the readers of a run's stream, for any number of         *)
(* followers, pollers and cancelling threads.  A reader's two passes       *)
(* through the cancellation policy are two watch requests of the run, so   *)
(* the run among its readers is a run (RunAmongReaders) and what is proved *)
(* of a run alone holds there.                                             *)
(***************************************************************************)
EXTENDS WatchStream, AsyncRunProofs, SequenceTheorems

-----------------------------------------------------------------------------
(* The stream only grows.                                                  *)

Extends(old, new) ==
    /\ Len(old) <= Len(new)
    /\ \A i \in 1..Len(old) : new[i] = old[i]

\* Appending an event, if at all.
LEMMA AppendExtends ==
    ASSUME NEW evs \in Seq(Event), NEW c \in BOOLEAN, NEW e \in Event
    PROVE  Extends(evs, AppendIf(c, evs, e))
BY DEF Extends, AppendIf

\* What the finalizer was given stays at the start of the stream.
LEMMA ClosedExtends ==
    ASSUME NEW evs \in Seq(Event), NEW st \in Terminal
    PROVE  Extends(evs, ClosedEvents(st, evs))
<1>1. PICK before \in Seq(Event) :
        /\ Grown(evs, before)
        /\ ClosedEvents(st, evs) = Append(before, Ev("run_done", ClosedStatus(st, evs)))
  BY ClosedGrown
<1>2. \A e : /\ Len(Append(before, e)) = Len(before) + 1
             /\ \A i \in 1..Len(before) : Append(before, e)[i] = before[i]
  BY <1>1
<1> QED
  BY <1>1, <1>2 DEF Extends, Grown

\* emit_stream_event and the finalizer append to run.events and change nothing
\* that is in it.
LEMMA StreamExtends ==
    ASSUME Typed, [Next]_vars PROVE Extends(events, events')
<1>1. events \in Seq(Event) /\ emitted \in BOOLEAN
  BY DEF Typed, TypeOK
<1>2. CASE UNCHANGED events
  BY <1>1, <1>2 DEF Extends
<1>3. CASE Emits
  BY <1>1, <1>3, AppendExtends DEF Emits
<1>4. ASSUME NEW st \in Terminal, NEW evs \in {events, Errored}, FinalizeEvent(st, evs)
      PROVE  Extends(events, events')
  <2>1. Ev("error", "none") \in Event
    BY KnownEvents
  <2>2. evs \in Seq(Event) /\ Extends(events, evs)
    BY <1>1, <2>1 DEF Extends, Errored
  <2>3. events' = evs \/ Extends(evs, events')
    BY <1>1, <1>4, <2>2, ClosedExtends DEF FinalizeEvent
  <2> QED
    BY <1>1, <2>2, <2>3 DEF Extends
<1> QED
  BY <1>2, <1>3, <1>4, NextEffect DEF StreamEffect, Finalizes

-----------------------------------------------------------------------------
(* The run among its readers is a run.                                     *)

Watching ==
    \A w \in Readers : op[w] = "watch" /\ (reader[w].at # "off" => starter = "replied")

\* What the readers and the rest of the system do is a step of the run, or
\* none: Baseline's second pass through the policy is another watch request.
LEMMA RunSteps ==
    ASSUME Typed, Watching, [WNext]_wvars PROVE [Next]_vars
<1>0. Readers \subseteq Clients /\ op \in [Clients -> {"cancel", "watch"}]
  BY WatchAssumption DEF Typed, TypeOK
<1>1. CASE RunStep
  BY <1>1 DEF RunStep, Next
<1>2. ASSUME NEW w \in Readers, BeginRead(w) PROVE Next
  BY <1>0, <1>2 DEF BeginRead, Next
<1>3. ASSUME NEW w \in Readers, Baseline(w) PROVE Next
  <2>1. op' = [op EXCEPT ![w] = "watch"]
    BY <1>0, <1>3 DEF Baseline, Watching
  <2>2. WatchRequest(w)
    BY <1>3, <2>1 DEF Baseline, Watching, WatchRequest, Request
  <2> QED
    BY <1>0, <2>2 DEF Next
<1>4. ASSUME NEW w \in Readers, TakeView(w) \/ Resubscribe(w) \/ GiveUp(w)
      PROVE  UNCHANGED vars
  BY <1>4 DEF TakeView, Resubscribe, GiveUp
<1> QED
  BY <1>1, <1>2, <1>3, <1>4 DEF WNext, ReaderStep, wvars

\* A read is only ever made of a run whose start was answered, and a reader
\* never cancels.
LEMMA StepWatching ==
    ASSUME Typed, Watching, [WNext]_wvars, reader \in [Readers -> Reader]
    PROVE  Watching'
<1>0. /\ Readers \subseteq Clients /\ op \in [Clients -> {"cancel", "watch"}]
      /\ \A w \in Readers : w \in Clients
  BY WatchAssumption DEF Typed, TypeOK
<1>1. CASE RunStep /\ UNCHANGED reader
  <2>1. UNCHANGED op \/ \E p \in Clients \ Readers : op' = [op EXCEPT ![p] = "cancel"]
    BY <1>1 DEF RunStep, StarterStep, StartWorker, WriteStarted, WorkerStep,
       ToolEvent, Generate, OpenStream, StreamError, StreamCallback, Deliver,
       StreamEnd, CompletionCheck, ReconcileCompletion, PersistOutputs,
       ProjectionCheck, ReconcileProjection, ProjectionDelta, StepReturns,
       StepRaises, FinishOk, FinishCancelled, FinishFailed, FinishUnlogged,
       ClearCloser, WorkerFinished, WorkerUnchanged, CancelRequest, Request,
       ClientStep, PolicyStep, CancelStep, PolicySupports, PolicyObserve,
       PolicyDue, PolicyClose, PolicyRequested, PolicyForce, CancelRead,
       CancelEscalate, CancelClose, CancelForce, CancelSupports, CancelMark,
       ClientUnchanged
  <2>2. starter = "replied" => starter' = "replied"
    BY <1>1 DEF RunStep, StarterStep, StartWorker, WriteStarted, WorkerStep,
       ToolEvent, Generate, OpenStream, StreamError, StreamCallback, Deliver,
       StreamEnd, CompletionCheck, ReconcileCompletion, PersistOutputs,
       ProjectionCheck, ReconcileProjection, ProjectionDelta, StepReturns,
       StepRaises, FinishOk, FinishCancelled, FinishFailed, FinishUnlogged,
       ClearCloser, WorkerFinished, WorkerUnchanged, CancelRequest, Request,
       ClientStep, PolicyStep, CancelStep, PolicySupports, PolicyObserve,
       PolicyDue, PolicyClose, PolicyRequested, PolicyForce, CancelRead,
       CancelEscalate, CancelClose, CancelForce, CancelSupports, CancelMark,
       ClientUnchanged
  <2> QED
    BY <1>0, <1>1, <2>1, <2>2 DEF Watching
<1>2. ASSUME NEW v \in Readers, BeginRead(v) PROVE Watching'
  BY <1>0, <1>2 DEF BeginRead, WatchRequest, Request, Watching
<1>3. ASSUME NEW v \in Readers, Baseline(v) PROVE Watching'
  BY <1>0, <1>3 DEF Baseline, Watching, Reader
<1>4. ASSUME NEW v \in Readers, TakeView(v) \/ Resubscribe(v) \/ GiveUp(v)
      PROVE  Watching'
  <2>1. UNCHANGED <<op, starter>>
    BY <1>4 DEF TakeView, Resubscribe, GiveUp, vars, runVars
  <2>2. \A w \in Readers : reader'[w].at # "off" => reader[w].at # "off"
    <3> TAKE w \in Readers
    <3>1. reader[v] \in Reader
      OBVIOUS
    <3> QED
      BY <1>4, <3>1 DEF TakeView, Resubscribe, GiveUp, Reader
  <2> QED
    BY <2>1, <2>2 DEF Watching
<1>5. CASE UNCHANGED wvars
  BY <1>5 DEF wvars, vars, Watching
<1> QED
  BY <1>1, <1>2, <1>3, <1>4, <1>5 DEF WNext, ReaderStep

-----------------------------------------------------------------------------
(* What a reader has got.                                                  *)

\* A view that follows what was delivered continues it.
LEMMA SeqsJoin ==
    ASSUME NEW since \in Nat, NEW upper \in Nat, since <= upper
    PROVE  /\ NewSeqs(0, since) \in Seq(Nat) /\ Len(NewSeqs(0, since)) = since
           /\ \A i \in 1..since : NewSeqs(0, since)[i] = i
           /\ NewSeqs(0, since) \o NewSeqs(since, upper) = NewSeqs(0, upper)
<1>1. ASSUME NEW a \in Nat, NEW b \in Nat, a <= b
      PROVE  /\ NewSeqs(a, b) \in Seq(Nat) /\ Len(NewSeqs(a, b)) = b - a
             /\ \A i \in 1..(b - a) : NewSeqs(a, b)[i] = a + i
  BY <1>1 DEF NewSeqs
<1>2. /\ NewSeqs(0, since) \in Seq(Nat) /\ Len(NewSeqs(0, since)) = since
      /\ \A i \in 1..since : NewSeqs(0, since)[i] = i
  BY <1>1
<1>3. /\ NewSeqs(since, upper) \in Seq(Nat) /\ Len(NewSeqs(since, upper)) = upper - since
      /\ \A i \in 1..(upper - since) : NewSeqs(since, upper)[i] = since + i
  BY <1>1
<1>4. /\ NewSeqs(0, upper) \in Seq(Nat) /\ Len(NewSeqs(0, upper)) = upper
      /\ \A i \in 1..upper : NewSeqs(0, upper)[i] = i
  BY <1>1
<1> DEFINE a == NewSeqs(0, since)
           b == NewSeqs(since, upper)
           c == NewSeqs(0, upper)
<1> HIDE DEF a, b, c
<1>5. /\ a \o b \in Seq(Nat) /\ Len(a \o b) = upper
      /\ \A i \in 1..upper : (a \o b)[i] = c[i]
  BY <1>2, <1>3, <1>4 DEF a, b, c
<1>7. c \in Seq(Nat) /\ Len(c) = upper
  BY <1>4 DEF c
<1>8. a \o b = c
  BY <1>5, <1>7, SeqEqual
<1> QED
  BY <1>2, <1>8 DEF a, b, c

\* Per reader: its cursor is within the stream, it has what is before the
\* cursor, a baseline it took is not behind the cursor, and it reads nothing
\* once its subscription is over.
GotWhole(w) ==
    /\ reader[w].since <= Len(events)
    /\ reader[w].got = NewSeqs(0, reader[w].since)
    /\ reader[w].at = "policy2" =>
          reader[w].since <= reader[w].base /\ reader[w].base <= Len(events)
    /\ reader[w].over # "open" => reader[w].at = "off"

Reading == WTypeOK /\ Watching /\ \A w \in Readers : GotWhole(w)

\* Every reader keeps its place when the run goes on.
LEMMA GrowthKeeps ==
    ASSUME Typed, Typed', Reading, Extends(events, events'),
           NEW w \in Readers, reader'[w] = reader[w]
    PROVE  GotWhole(w)'
<1>1. Len(events) \in Nat /\ Len(events') \in Nat /\ reader[w] \in Reader
  BY DEF Typed, TypeOK, Reading, WTypeOK
<1> QED
  BY <1>1 DEF Reading, GotWhole, Extends, Reader

\* Every step keeps the readers' places.
LEMMA StepReading ==
    ASSUME Typed, Reading, [WNext]_wvars PROVE Reading'
<1>1. Typed' /\ Extends(events, events') /\ Watching'
  BY RunSteps, StepTyped, StreamExtends, StepWatching DEF Reading, WTypeOK
<1>2. reader \in [Readers -> Reader] /\ Len(events) \in Nat
  BY DEF Reading, WTypeOK, Typed, TypeOK
<1>3. CASE UNCHANGED reader
  BY <1>1, <1>3, GrowthKeeps DEF Reading, WTypeOK
<1>4. ASSUME NEW v \in Readers, NEW r \in Reader, reader' = [reader EXCEPT ![v] = r],
             GotWhole(v)'
      PROVE  Reading'
  <2>1. \A w \in Readers : w # v => reader'[w] = reader[w]
    BY <1>2, <1>4
  <2> QED
    BY <1>1, <1>2, <1>4, <2>1, GrowthKeeps DEF Reading, WTypeOK
<1>5. ASSUME NEW v \in Readers, ReaderStep(v) \/ GiveUp(v)
      PROVE  Reading'
  <2>1. /\ reader[v] \in Reader /\ reader[v].since \in Nat /\ reader[v].base \in Nat
        /\ GotWhole(v)
    BY <1>2 DEF Reader, Reading
  <2>2. CASE BeginRead(v) \/ Resubscribe(v) \/ GiveUp(v)
    <3>1. PICK r \in Reader : /\ reader' = [reader EXCEPT ![v] = r] /\ r.at # "policy2"
                              /\ r.since = reader[v].since /\ r.got = reader[v].got
                              /\ r.over # "open" => r.at = "off"
      <4>1. CASE BeginRead(v)
        <5> DEFINE r == [reader[v] EXCEPT !.at = "policy1"]
        <5>1. /\ r \in Reader /\ r.at = "policy1" /\ r.over = "open"
              /\ r.since = reader[v].since /\ r.got = reader[v].got
              /\ reader' = [reader EXCEPT ![v] = r]
          BY <2>1, <4>1 DEF BeginRead, Reader
        <5> QED
          BY <5>1
      <4>2. CASE Resubscribe(v)
        <5> DEFINE r == [reader[v] EXCEPT !.over = "open"]
        <5>1. /\ r \in Reader /\ r.at = "off"
              /\ r.since = reader[v].since /\ r.got = reader[v].got
              /\ reader' = [reader EXCEPT ![v] = r]
          BY <2>1, <4>2 DEF Resubscribe, Reader, Over, GotWhole
        <5> QED
          BY <5>1
      <4>3. CASE GiveUp(v)
        <5> DEFINE r == [reader[v] EXCEPT !.over = "gave_up", !.at = "off"]
        <5>1. /\ r \in Reader /\ r.at = "off"
              /\ r.since = reader[v].since /\ r.got = reader[v].got
              /\ reader' = [reader EXCEPT ![v] = r]
          BY <2>1, <4>3 DEF GiveUp, Reader, Over
        <5> QED
          BY <5>1
      <4> QED
        BY <2>2, <4>1, <4>2, <4>3
    <3>2. reader'[v] = r
      BY <1>2, <3>1
    <3>3. Len(events') \in Nat
      BY <1>1 DEF Typed, TypeOK
    <3>4. GotWhole(v)'
      BY <1>1, <1>2, <2>1, <3>1, <3>2, <3>3 DEF GotWhole, Extends
    <3> QED
      BY <1>4, <3>1, <3>4
  <2>3. CASE Baseline(v)
    <3> DEFINE r == [reader[v] EXCEPT !.at = "policy2", !.base = Len(events)]
    <3>1. /\ r \in Reader /\ reader' = [reader EXCEPT ![v] = r] /\ UNCHANGED events
          /\ reader[v].at = "policy1"
      BY <1>2, <2>1, <2>3 DEF Baseline, Reader, runVars
    <3>2. reader'[v] = r
      BY <1>2, <3>1
    <3>3. GotWhole(v)'
      BY <1>2, <2>1, <3>1, <3>2 DEF GotWhole, Reader
    <3> QED
      BY <1>4, <3>1, <3>3
  <2>4. CASE TakeView(v)
    <3> DEFINE upper == UpperSeq(v)
    <3>1. /\ upper \in Nat /\ reader[v].since <= upper /\ upper <= Len(events)
          /\ UNCHANGED events
      BY <1>2, <2>1, <2>4 DEF TakeView, GotWhole, UpperSeq, vars, runVars
    <3>2. PICK r \in Reader : /\ reader' = [reader EXCEPT ![v] = r] /\ r.at = "off"
                              /\ r.since = upper
                              /\ r.got = reader[v].got \o NewSeqs(reader[v].since, upper)
      <4> HIDE DEF upper
      <4> DEFINE got == reader[v].got \o NewSeqs(reader[v].since, upper)
      <4>1. got = NewSeqs(0, upper) /\ got \in Seq(Nat)
        <5>1. NewSeqs(0, reader[v].since) \o NewSeqs(reader[v].since, upper) = NewSeqs(0, upper)
          BY <2>1, <3>1, SeqsJoin
        <5>2. NewSeqs(0, upper) \in Seq(Nat)
          BY <3>1, SeqsJoin
        <5> QED
          BY <2>1, <5>1, <5>2 DEF GotWhole
      <4>2. PICK over \in Over :
              reader' = [reader EXCEPT ![v] =
                 [reader[v] EXCEPT !.at = "off", !.since = upper,
                           !.got = @ \o NewSeqs(reader[v].since, upper),
                           !.over = over]]
        BY <2>4 DEF TakeView, Over, upper
      <4> DEFINE r == [reader[v] EXCEPT !.at = "off", !.since = upper,
                              !.got = @ \o NewSeqs(reader[v].since, upper), !.over = over]
      <4>3. reader' = [reader EXCEPT ![v] = r]
        BY <4>2
      <4>4. r \in Reader /\ r.at = "off" /\ r.since = upper /\ r.got = got
        BY <2>1, <3>1, <4>1 DEF Reader
      <4> QED
        BY <4>3, <4>4 DEF got
    <3> HIDE DEF upper
    <3>3. reader'[v] = r
      BY <1>2, <3>2
    <3>4. r.got = NewSeqs(0, upper)
      BY <2>1, <3>1, <3>2, SeqsJoin DEF GotWhole
    <3>5. GotWhole(v)'
      BY <3>1, <3>2, <3>3, <3>4 DEF GotWhole
    <3> QED
      BY <1>4, <3>2, <3>5
  <2> QED
    BY <1>5, <2>2, <2>3, <2>4 DEF ReaderStep
<1>6. CASE UNCHANGED wvars
  BY <1>3, <1>6 DEF wvars
<1> QED
  BY <1>3, <1>5, <1>6 DEF WNext

\* The readers' places are sound in every reachable state.
LEMMA AlwaysReading == WSpec => [](Typed /\ Reading)
<1>1. WInit => Typed /\ Reading
  <2>1. NewSeqs(0, 0) = <<>>
    BY DEF NewSeqs
  <2>2. WInit => Typed /\ WTypeOK /\ Watching
    BY InitTyped, WatchAssumption
       DEF WInit, Init, WTypeOK, Watching, Reader, Over
  <2>3. WInit => \A w \in Readers : GotWhole(w)
    BY <2>1 DEF WInit, Init, GotWhole
  <2> QED
    BY <2>2, <2>3 DEF Reading
<1>2. Typed /\ Reading /\ [WNext]_wvars => (Typed /\ Reading)'
  BY RunSteps, StepTyped, StepReading DEF Reading
<1> QED
  BY <1>1, <1>2, PTL DEF WSpec

\* The run among its readers, pollers and cancelling threads is a run: every
\* theorem about a run alone holds of it.
THEOREM RunAmongReaders == WSpec => Spec
<1>1. WInit => Init
  BY DEF WInit
<1>2. Typed /\ Reading /\ [WNext]_wvars => [Next]_vars
  BY RunSteps DEF Reading
<1> QED
  BY <1>1, <1>2, AlwaysReading, PTL DEF WSpec, Spec

\* Over any mix of reads, timeouts and new subscriptions a reader gets every
\* event up to its cursor once and in order, and no event the run has not
\* emitted (the since_seq cursors of _capture_stream_view and its readers).
THEOREM EveryReaderInOrder == WSpec => []DeliveredInOrder
<1>1. Reading => DeliveredInOrder
  BY DEF Reading, GotWhole, DeliveredInOrder
<1> QED
  BY <1>1, AlwaysReading, PTL

-----------------------------------------------------------------------------
(* The end of a subscription.  What ends one, an event of a terminal kind  *)
(* or a terminal status, appears in the lock section that closes the       *)
(* stream, unless writing the error log raises before the stream is closed *)
(* (FinishUnlogged).                                                       *)

Announced ==
    /\ status \in Terminal => emitted
    /\ \A i \in 1..Len(events) : events[i].type \in TerminalKinds => emitted

\* The kinds a subscription ends at are not those of an emitted delta.
LEMMA DeltaGoesOn == Deltas \cap TerminalKinds = {}
BY DEF Deltas, LlmActivity, TerminalKinds

\* A status that ends the run is set by the finalizer alone.
LEMMA StatusByFinalizer ==
    ASSUME "error_log" \notin Faults, [Next]_vars
    PROVE  UNCHANGED status \/ emitted' \/ status' = "cancelling"
<1>1. CASE WorkerStep
  BY <1>1 DEF WorkerStep, ToolEvent, Generate, OpenStream, StreamError,
     StreamCallback, Deliver, StreamEnd, CompletionCheck, ReconcileCompletion,
     PersistOutputs, ProjectionCheck, ReconcileProjection, ProjectionDelta,
     StepReturns, StepRaises, FinishOk, FinishCancelled, FinishFailed,
     FinishUnlogged, ClearCloser, FinalizeState, FinalizeEvent, runVars
<1>2. ASSUME NEW p \in Clients, ClientStep(p)
      PROVE  UNCHANGED status \/ emitted' \/ status' = "cancelling"
  BY <1>2 DEF ClientStep, PolicyStep, CancelStep, PolicySupports, PolicyObserve,
     PolicyDue, PolicyClose, PolicyRequested, PolicyForce, CancelRead,
     CancelEscalate, CancelClose, CancelForce, CancelSupports, CancelMark,
     CloseRun, FinalizeEvent, runVars
<1> QED
  BY <1>1, <1>2 DEF Next, StarterStep, StartWorker, WriteStarted, CancelRequest,
     WatchRequest, Request, vars, runVars

\* Nothing ends a subscription before the stream is closed.
LEMMA StepAnnounced ==
    ASSUME "error_log" \notin Faults, Typed, Announced, [Next]_vars
    PROVE  Announced'
<1>1. events \in Seq(Event) /\ emitted \in BOOLEAN
  BY DEF Typed, TypeOK
<1>2. emitted => emitted'
  BY NextEffect DEF StreamEffect, Emits, Finalizes, FinalizeEvent
<1>3. status' \in Terminal => emitted'
  BY <1>2, StatusByFinalizer DEF Announced, Terminal
<1>4. ASSUME ~emitted', NEW i \in 1..Len(events'), events'[i].type \in TerminalKinds
      PROVE  FALSE
  <2>1. ~Finalizes
    BY <1>4 DEF Finalizes, FinalizeEvent
  <2>2. CASE UNCHANGED <<events, emitted>>
    BY <1>4, <2>2 DEF Announced
  <2>3. CASE Emits
    <3>1. PICK c \in BOOLEAN, e \in Event :
            e.type \in Deltas /\ events' = AppendIf(c, events, e)
      BY <2>3 DEF Emits
    <3>2. \/ i \in 1..Len(events) /\ events'[i] = events[i]
          \/ events'[i] = e
      BY <1>1, <1>4, <3>1 DEF AppendIf
    <3> QED
      BY <1>2, <1>4, <3>1, <3>2, DeltaGoesOn DEF Announced
  <2> QED
    BY <2>1, <2>2, <2>3, NextEffect DEF StreamEffect
<1> QED
  BY <1>3, <1>4 DEF Announced

\* A follower whose subscription is over, and was not cut, got the run's end.
Told(w) ==
    reader[w].over \in {"terminal_event", "terminal_status"} =>
        \E i \in 1..reader[w].since : events[i].type = "run_done"

\* Every step keeps that.
LEMMA StepTold ==
    ASSUME Typed, Reading, Closed, Announced, [WNext]_wvars,
           NEW w \in Followers, Told(w)
    PROVE  Told(w)'
<1>1. /\ w \in Readers /\ w \notin Pollers /\ reader \in [Readers -> Reader]
      /\ events \in Seq(Event) /\ Extends(events, events')
  BY WatchAssumption, RunSteps, StreamExtends
     DEF Readers, Reading, WTypeOK, Typed, TypeOK
<1>2. reader[w].since \in 0..Len(events)
  BY <1>1 DEF Reading, GotWhole, Reader
<1>3. CASE reader'[w].since = reader[w].since /\
           (reader'[w].over \in {"terminal_event", "terminal_status"} =>
              reader'[w].over = reader[w].over)
  BY <1>1, <1>2, <1>3 DEF Told, Extends
<1>4. CASE TakeView(w)
  <2> DEFINE news == {events[i].type : i \in (reader[w].since + 1)..Len(events)}
  <2>1. /\ UNCHANGED events /\ reader'[w].since = Len(events)
        /\ reader'[w].over \in {"terminal_event", "terminal_status"} =>
              news \cap TerminalKinds # {} \/ status \in Terminal
    BY <1>1, <1>4 DEF TakeView, UpperSeq, vars, runVars, Reader
  <2>2. news \cap TerminalKinds # {} =>
          \E i \in 1..Len(events) : events[i].type \in TerminalKinds
    BY <1>1, <1>2
  <2>3. emitted => \E i \in 1..Len(events) : events[i].type = "run_done"
    BY DEF Closed, OneDone
  <2> HIDE DEF news
  <2> QED
    BY <2>1, <2>2, <2>3 DEF Announced, Told
<1>5. ASSUME NEW v \in Readers, ReaderStep(v) \/ GiveUp(v), ~TakeView(w)
      PROVE  Told(w)'
  <2>1. CASE v # w
    <3>1. reader'[w] = reader[w]
      BY <1>1, <1>5, <2>1 DEF ReaderStep, BeginRead, Baseline, TakeView, Resubscribe, GiveUp
    <3> QED
      BY <1>3, <3>1
  <2>2. CASE v = w
    BY <1>1, <1>3, <1>5, <2>2
       DEF ReaderStep, BeginRead, Baseline, Resubscribe, GiveUp, Reader
  <2> QED
    BY <2>1, <2>2
<1> QED
  BY <1>3, <1>4, <1>5 DEF WNext, wvars

\* Where writing the error log does not fail, a subscription delivers the whole
\* of the stream and nothing else, and reports completion only after run_done.
\* The hypothesis is needed: a worker that dies on its error log leaves a failed
\* run whose stream was never closed.
THEOREM EverySubscriptionWhole ==
    ASSUME "error_log" \notin Faults
    PROVE  WSpec => []DeliveredWhole
<1> DEFINE I == Announced /\ \A w \in Followers : Told(w)
<1>1. WInit => I
  BY WatchAssumption DEF WInit, Init, Announced, Told, Terminal, Readers
<1>2. Typed /\ Reading /\ Closed /\ I /\ [WNext]_wvars => I'
  <2> SUFFICES ASSUME Typed, Reading, Closed, I, [WNext]_wvars PROVE I'
    OBVIOUS
  <2>1. Announced'
    BY RunSteps, StepAnnounced DEF Reading
  <2>2. \A w \in Followers : Told(w)'
    BY StepTold
  <2> QED
    BY <2>1, <2>2
<1>3. WSpec => []Closed
  BY RunAmongReaders, AlwaysClosed, PTL
<1>4. Typed /\ Reading /\ I => DeliveredWhole
  <2> SUFFICES ASSUME Typed, Reading, I, NEW w \in Followers,
                      reader[w].over \in {"terminal_event", "terminal_status"}
               PROVE  SawRunDone(w)
    BY DEF Reading, GotWhole, DeliveredWhole, DeliveredInOrder, FollowerSawTheEnd
  <2>1. /\ reader[w].since \in Nat
        /\ reader[w].got = NewSeqs(0, reader[w].since)
    BY DEF Reading, WTypeOK, Reader, Readers, GotWhole
  <2>2. PICK i \in 1..reader[w].since : events[i].type = "run_done"
    BY DEF Told
  <2>3. Len(reader[w].got) = reader[w].since /\ reader[w].got[i] = i
    BY <2>1, <2>2 DEF NewSeqs
  <2> QED
    BY <2>1, <2>2, <2>3 DEF SawRunDone
<1> HIDE DEF I
<1> QED
  BY <1>1, <1>2, <1>3, <1>4, AlwaysReading, PTL DEF WSpec

=============================================================================

--------------------------- MODULE TranscriptStep ---------------------------
(***************************************************************************)
(* One `toas step` over a session file: the transcript is reconciled with  *)
(* the journal, its last turn (the frontier) is answered or executed under *)
(* the policy in force, and the outcome is persisted in phases, any of     *)
(* which a crash may cut short (runtime/step_runtime.py, step.py,          *)
(* runtime/step_context_runtime.py, runtime/step_result_runtime.py,        *)
(* runtime/session_step_edges.py).                                         *)
(*                                                                         *)
(* A turn is its role and its text; a text is what the extractors find in  *)
(* it: operator commands, the calls of a plan, the staged remainder of a   *)
(* plan, or nothing but its tag.                                           *)
(***************************************************************************)
EXTENDS Policy

CONSTANTS Files,       \* the session files, 1 .. n; the first one exists at the start
          Commands,    \* the command sequences an operator may type as one turn
          Controls,    \* those a control step may inject
          Answers,     \* the texts the model may answer with
          Edited,      \* the texts an operator may put in the place of an answer
          Bootstrap,   \* whether session.bootstrap_prompt_ref is configured
          MaxTurns,    \* bound on the turns of a session file
          MaxMessages, \* bound on the messages of the journal
          MaxSteps,    \* bound on the steps taken
          MaxEdits     \* bound on the operator's edits

ASSUME StepAssumption ==
    /\ Files \subseteq Nat \ {0} /\ 1 \in Files
    /\ Bootstrap \in BOOLEAN
    /\ MaxTurns \in Nat /\ MaxMessages \in Nat /\ MaxSteps \in Nat /\ MaxEdits \in Nat

VARIABLES msgs,     \* the messages of the journal; the id of a message is its position
          records,  \* the other records of the journal, in order
          files,    \* the turns of each session file, or NoFile
          output,   \* what the last finished step printed, not yet pasted
          step,     \* the step under way, or Idle
          ran,      \* history: the calls that were executed, with their outcomes
          steps,    \* how many steps were started
          edits     \* how many edits were made

vars == <<msgs, records, files, output, step, ran, steps, edits>>

-----------------------------------------------------------------------------
(***************************************************************************)
(* Texts and turns.                                                        *)
(***************************************************************************)
Say(tag) == [tag |-> tag, cmds |-> <<>>, calls |-> <<>>, rest |-> <<>>]
Typed(cmds) == [Say("command") EXCEPT !.cmds = cmds]
Plan(calls, rest) == [Say("plan") EXCEPT !.calls = calls, !.rest = rest]

Turn(role, text) == [role |-> role, text |-> text]

\* The turns an operator may type: a request, commands, or an edited answer.
OperatorTurns ==
    {Turn("user", Say("say"))}
      \cup {Turn("user", Typed(c)) : c \in Commands}
      \cup {Turn("assistant", a) : a \in Edited}

\* Commands declared by the turns of a transcript, in order.
Declarations(turns) == FlattenSeq([i \in DOMAIN turns |-> turns[i].text.cmds])

\* What an operator and the model write are texts.
Calls == {"shell", "edit"}
Tags == {"say", "command", "plan", "result", "loose", "near", "digest", "empty", "bootstrap"}
Texts == [tag : Tags, cmds : Seq(STRING), calls : Seq(Calls), rest : Seq(Calls)]

ASSUME TextAssumption ==
    /\ Answers \cup Edited \subseteq Texts
    /\ Commands \cup Controls \subseteq Seq(STRING)

NoFile == <<Turn("none", Say("absent"))>>
Idle == [phase |-> "idle"]

-----------------------------------------------------------------------------
(***************************************************************************)
(* Reconciliation.  Lineage(m) is message_lineage for head m; the log of a *)
(* step is the lineage of the last message, from the position its session  *)
(* file is bound to.                                                       *)
(***************************************************************************)
Lineage(m) ==
    LET path[i \in 0 .. Len(msgs)] ==
          IF i = 0 THEN <<>> ELSE Append(path[msgs[i].parent], i)
    IN  path[m]

Turns(ids) == [i \in DOMAIN ids |-> Turn(msgs[ids[i]].role, msgs[ids[i]].text)]

\* Mutant: a successor file is bound at the message its record names.
BindIndexAt(f) ==
    LET lineage == Lineage(Len(msgs))
        named   == {i \in DOMAIN records : /\ records[i].kind = "session_successor"
                                           /\ records[i].path = f
                                           /\ records[i].parent \in ToSet(lineage)}
    IN  IF named = {} THEN 0
        ELSE (CHOOSE k \in DOMAIN lineage : lineage[k] = records[Max(named)].parent) - 1

\* A successor file is bound after the message its record names as parent,
\* when that message is on the lineage.
BindIndex(f) ==
    LET lineage == Lineage(Len(msgs))
        named   == {i \in DOMAIN records : /\ records[i].kind = "session_successor"
                                           /\ records[i].path = f
                                           /\ records[i].parent \in ToSet(lineage)}
    IN  IF named = {} THEN 0
        ELSE CHOOSE k \in DOMAIN lineage : lineage[k] = records[Max(named)].parent

BoundLog(f) == LET lineage == Lineage(Len(msgs)) IN SubSeq(lineage, BindIndex(f) + 1, Len(lineage))

Lcp(s, t) == Max({0} \cup {i \in 1 .. Min({Len(s), Len(t)}) : SubSeq(s, 1, i) = SubSeq(t, 1, i)})

HasResult(text) == text.tag = "result"

\* A transcript that differs from the log in nothing but the body of a last
\* assistant turn with a RESULT block is taken to agree with it.
Stabilized(nodes, log) ==
    /\ Len(nodes) = Len(log) /\ nodes # <<>>
    /\ Lcp(nodes, log) = Len(nodes) - 1
    /\ Last(nodes).role = "assistant" /\ Last(log).role = "assistant"
    /\ HasResult(Last(nodes).text) \/ HasResult(Last(log).text)

LcpIndex(nodes, log) == IF Stabilized(nodes, log) THEN Len(nodes) ELSE Lcp(nodes, log)

\* The parent the first new turn is given; 0 is the virtual root n0.  With
\* nothing in the log the parent is left to the writer.
NoParent == -1

\* Mutant: the first new turn follows the last message of the journal.
DivergenceParentTip(i, bound) == NoParent

DivergenceParent(i, bound) ==
    CASE i = 0 /\ bound = <<>> -> NoParent
      [] i = 0 /\ bound # <<>> -> 0
      [] i > 0                 -> bound[i]

-----------------------------------------------------------------------------
(***************************************************************************)
(* The policy in force.  A step that rewrites history takes what its own   *)
(* transcript declares; a linear one starts from the journal's records.    *)
(***************************************************************************)
IsRewrite(nodes, bound) == LcpIndex(nodes, Turns(bound)) < Len(bound)

\* Mutant: a linear step never looks at what the transcript declares.
GrantEventsRecorded(rewrite, declared) == IF rewrite THEN declared ELSE records

GrantEvents(rewrite, declared) == IF rewrite \/ declared # <<>> THEN declared ELSE records

PolicyInForce(nodes, bound) ==
    LET rewrite   == IsRewrite(nodes, bound)
        declared  == IF nodes = <<>> THEN <<>> ELSE Declarations(Front(nodes))
        grants    == BranchGrantEvents(declared)
        config    == IF rewrite \/ Declared(declared, ConfigCommands) # <<>>
                     THEN BranchConfig(declared) ELSE OperatorConfig(records)
        workspace == BranchWorkspace(declared, IF rewrite THEN StartWorkspace ELSE ActiveWorkspaceScope(records))
        context   == BranchContext(declared, IF rewrite THEN StartContext ELSE ActiveCommandContext(records),
                                   workspace)
    IN  [granted   |-> ResolveShellGrants(config, GrantEvents(rewrite, grants)),
         staging   |-> config.staging,
         workspace |-> workspace,
         context   |-> context]

-----------------------------------------------------------------------------
(***************************************************************************)
(* Consequences: message nodes and result nodes, in the order they arise.  *)
(***************************************************************************)
NoEffect == [kind |-> "none"]

Message(role, text, adopted) ==
    [node |-> "message", role |-> role, text |-> text, adopted |-> adopted]

Result(lane, effect, call, outcome) ==
    [node |-> "result", lane |-> lane, effect |-> effect, call |-> call, outcome |-> outcome]

NoCall == "none"

\* An empty user turn, shown but never persisted.
FrontierFlip == [node |-> "flip", role |-> "user", text |-> Say("empty"), adopted |-> FALSE]

\* The outcomes a sequence of calls may have: execution stops at the first
\* call that does not succeed.  `may` is what each call may end in.
Outcomes(calls, may) ==
    {o \in UNION {[1 .. n -> {"ok", "exit", "error", "blocked"}] : n \in 1 .. Len(calls)} :
        /\ \A i \in DOMAIN o : o[i] \in may[calls[i]] /\ (i < Len(o) => o[i] = "ok")
        /\ Len(o) < Len(calls) => Last(o) # "ok"}

UserMay(call) == IF call = "shell" THEN {"ok", "exit", "error"} ELSE {"ok", "error"}

AssistantMay(granted, call) ==
    IF call = "shell" /\ Granted \notin granted THEN {"blocked"} ELSE UserMay(call)

Results(lane, calls, o) == [i \in DOMAIN o |-> Result(lane, NoEffect, calls[i], o[i])]

Adopt(calls, rest) == <<Message("user", Plan(calls, rest), TRUE)>>

\* Mutant: the remainder is offered without the call that failed.
PlanRecoverySkips(text, o, allowFailure) ==
    LET left == SubSeq(text.calls, Len(o) + 1, Len(text.calls))
    IN  IF Last(o) # "ok" /\ allowFailure /\ left # <<>> THEN Adopt(left, <<>>) ELSE <<>>

\* _append_plan_recovery_consequence: the failed call again, with the calls
\* after it staged; or, after a success, the staged remainder.  A shell
\* command that ran to an exit status is not offered again.
PlanRecovery(text, o, allowFailure) ==
    LET failed == Last(o) # "ok"
        left   == SubSeq(text.calls, Len(o) + 1, Len(text.calls))
    IN  CASE failed /\ (~allowFailure \/ Last(o) = "exit") -> <<>>
          [] failed /\ allowFailure /\ Last(o) # "exit" ->
               Adopt(<<text.calls[Len(o)]>>,
                     IF Len(text.calls) = 1 /\ text.rest # <<>> THEN text.rest ELSE left)
          [] ~failed -> IF text.rest = <<>> THEN <<>> ELSE Adopt(text.rest, <<>>)

\* _handle_plan_frontier, for a plan of the assistant.
AssistantPlan(text, o, staging) ==
    LET authorization == Len(text.calls) = 1 /\ Last(o) = "blocked"
        recovery      == IF authorization THEN <<>> ELSE PlanRecovery(text, o, TRUE)
    IN  Results("user", text.calls, o)
          \o recovery
          \o IF recovery = <<>> /\ staging = "auto" /\ Last(o) = "blocked"
             THEN Adopt(text.calls, <<>>) ELSE <<>>

\* _run_user_intent_candidate, for a plan.
UserPlan(text, o) == Results("user", text.calls, o) \o PlanRecovery(text, o, FALSE)

ContextUpdate(c) == [kind |-> "command_context", src |-> 0, cwd |-> c.cwd, previous |-> c.previous]
WorkspaceUpdate(w) == [kind |-> "workspace_scope", src |-> 0, mode |-> w.mode, roots |-> w.roots]

\* Every command of a turn runs under the policy the step started with.
CommandEffect(cmd, force) ==
    CASE cmd \in GrantCommands     -> PolicyUpdate(cmd, 0)
      [] cmd \in ConfigCommands    -> ConfigUpdate(cmd, 0)
      [] cmd \in CdCommands        ->
           IF CdAllowed(cmd, force.context, force.workspace)
           THEN ContextUpdate(AfterCd(cmd, force.context)) ELSE NoEffect
      [] cmd \in WorkspaceCommands ->
           IF WorkspaceAllowed(cmd, force.context)
           THEN WorkspaceUpdate(AfterWorkspace(cmd, force.context, force.workspace)) ELSE NoEffect
      [] cmd = "compact"           -> [kind |-> "compaction_projection", src |-> 0]
      [] OTHER                     -> NoEffect

CommandResults(role, cmds, force) ==
    [i \in DOMAIN cmds |-> Result(IF role = "control" THEN "control" ELSE "user",
                                  CommandEffect(cmds[i], force), NoCall, "ok")]

\* _generation_guard_result: the endpoint named is not configured, or the
\* context packet fails its quality gate.
Refusal == <<Result("user", NoEffect, NoCall, "error")>>

\* What the frontier turn leads to: a set, for the model's answer, the outcome
\* of each call and the checks made before a generation are not decided here.
Consequences(frontier, force) ==
    LET text == frontier.text
    IN  CASE frontier.role = "assistant" /\ text.calls # <<>> ->
               {AssistantPlan(text, o, force.staging) :
                  o \in Outcomes(text.calls, [c \in ToSet(text.calls) |-> AssistantMay(force.granted, c)])}
          [] frontier.role = "assistant" /\ text.tag = "loose" -> {Adopt(<<"shell">>, <<>>)}
          [] frontier.role = "assistant" /\ text.tag = "near"  -> {<<Result("user", NoEffect, NoCall, "error")>>}
          [] frontier.role = "assistant" /\ text.calls = <<>> /\ text.tag \notin {"loose", "near"} ->
               {<<FrontierFlip>>}
          [] frontier.role # "assistant" /\ text.cmds # <<>> -> {CommandResults(frontier.role, text.cmds, force)}
          [] frontier.role # "assistant" /\ text.calls # <<>> ->
               {UserPlan(text, o) : o \in Outcomes(text.calls, [c \in ToSet(text.calls) |-> UserMay(c)])}
          [] frontier.role = "control" /\ text.cmds = <<>> /\ text.calls = <<>> -> {<<>>}
          [] frontier.role = "user" /\ text.cmds = <<>> /\ text.calls = <<>> ->
               {Refusal} \cup {<<Message("assistant", a, FALSE)>> : a \in Answers}

\* An empty transcript is seeded from the configured prompt.
Seed == <<Message("user", Say("bootstrap"), FALSE)>>

IsMessage(n) == n.node = "message"
IsResult(n) == n.node = "result"
HasCall(n) == n.node = "result" /\ n.call # NoCall
HasEffect(n) == n.node = "result" /\ n.effect # NoEffect

\* The calls among the consequences, with their outcomes; they come first.
Executed(out) ==
    [i \in {i \in DOMAIN out : HasCall(out[i])} |-> [call |-> out[i].call, outcome |-> out[i].outcome]]

\* render_transcript_blocks: what each node looks like in a transcript.
Rendered(n) ==
    CASE ~IsResult(n)                                                 -> Turn(n.role, n.text)
      [] IsResult(n) /\ n.effect.kind = "compaction_projection" -> Turn("assistant", Say("digest"))
      [] IsResult(n) /\ n.effect.kind # "compaction_projection" -> Turn(n.lane, Say("result"))

Projection(out) == [i \in DOMAIN out |-> Rendered(out[i])]

-----------------------------------------------------------------------------
(***************************************************************************)
(* Persistence.                                                            *)
(***************************************************************************)
HasDurableMutation(new, out) ==
    \/ \E i \in DOMAIN new : new[i].role # "control"
    \/ Len(new) + Len(SelectSeq(out, IsMessage)) > 1
    \/ \E i \in DOMAIN out : IsMessage(out[i]) \/ HasCall(out[i]) \/ HasEffect(out[i])

\* write_message_events: a node without a parent follows the last message.
Written(nodes, parent) ==
    [i \in DOMAIN nodes |->
        [parent |-> IF i = 1 /\ parent # NoParent THEN parent ELSE Len(msgs) + i - 1,
         role |-> nodes[i].role, text |-> nodes[i].text, adopted |-> nodes[i].adopted]]

\* The message the results are recorded against: the last one written, or,
\* when none was, the one at the frontier's place in the whole lineage.
FrontierMessage(ids, nodes, results) ==
    LET lineage == Lineage(Len(msgs))
    IN  CASE ids # <<>>                       -> Last(ids)
          [] ids = <<>> /\ results # <<>> /\ lineage # <<>> ->
               IF Len(nodes) \in DOMAIN lineage THEN lineage[Len(nodes)] ELSE Last(lineage)
          [] OTHER                            -> 0

\* An adopted turn stands behind the plan it came from.
RequestMessage(log, ids, frontier) ==
    LET planned == {i \in 1 .. Len(ids) - 1 : log[ids[i]].text.calls # <<>>}
    IN  IF log[frontier].adopted /\ planned # {} THEN ids[Max(planned)] ELSE frontier

\* Mutant: one result record for a plan.
StitchRecordsOnce(log, ids, frontier, results) ==
    LET m == IF frontier = 0 THEN 0 ELSE RequestMessage(log, ids, frontier)
    IN  IF m = 0 \/ results = <<>> \/ log[m].text.calls = <<>> THEN <<>>
        ELSE <<[kind |-> "tool_result", src |-> m, call |-> results[1].call, outcome |-> results[1].outcome]>>

\* The records of a plan: the request, then a result for each result node.
\* (A turn of commands gets a request and results of its own, which no step
\* reads; they are left out.)
StitchRecords(log, ids, frontier, results) ==
    LET m == IF frontier = 0 THEN 0 ELSE RequestMessage(log, ids, frontier)
    IN  IF m = 0 \/ results = <<>> \/ log[m].text.calls = <<>> THEN <<>>
        ELSE <<[kind |-> "tool_request", src |-> m, calls |-> log[m].text.calls]>>
               \o [i \in DOMAIN results |-> [kind |-> "tool_result", src |-> m, call |-> results[i].call,
                                             outcome |-> results[i].outcome]]

\* apply_result_side_effects: kind by kind, each in the order of the results.
EffectOrder == <<"command_context", "workspace_scope", "config_override", "policy_override",
                 "compaction_projection">>

SideEffects(results, source) ==
    FlattenSeq([k \in DOMAIN EffectOrder |->
        LET of == SelectSeq(results, LAMBDA r : r.effect.kind = EffectOrder[k])
        IN  [i \in DOMAIN of |-> [of[i].effect EXCEPT !.src = source]]])

-----------------------------------------------------------------------------
(***************************************************************************)
(* The actions of a step.                                                  *)
(***************************************************************************)
Init ==
    /\ msgs = <<>> /\ records = <<>> /\ output = <<>> /\ ran = <<>> /\ steps = 0 /\ edits = 0
    /\ files = [f \in Files |-> IF f = 1 THEN <<>> ELSE NoFile]
    /\ step = Idle

\* The journal and the file are read, the frontier is executed; nothing has
\* been written yet.  `control` is a turn injected on the command line.
Execute(f, control, nodes, out, shown) ==
    LET bound == BoundLog(f)
        i     == LcpIndex(nodes, Turns(bound))
        new   == SubSeq(nodes, i + 1, Len(nodes))
    IN  /\ step' = [phase   |-> CASE ~control -> "messages"
                                  [] control /\ HasDurableMutation(new, out) -> "session"
                                  [] control /\ ~HasDurableMutation(new, out) -> "show",
                    file    |-> f,
                    control |-> control,
                    nodes   |-> nodes,
                    new     |-> new,
                    parent  |-> IF new = <<>> THEN NoParent ELSE DivergenceParent(i, bound),
                    rewrite |-> i < Len(bound),
                    drift   |-> Stabilized(nodes, Turns(bound)),
                    force   |-> PolicyInForce(nodes, bound),
                    out     |-> out,
                    shown   |-> shown,
                    ids     |-> <<>>,
                    todo    |-> <<>>,
                    base    |-> Len(records)]
        /\ ran' = ran \o Executed(out)
        /\ steps' = steps + 1
        /\ UNCHANGED <<msgs, records, files, output, edits>>

CanStep(f) == step = Idle /\ steps < MaxSteps /\ files[f] # NoFile

StepTranscript(f) ==
    /\ CanStep(f) /\ files[f] # <<>>
    /\ \E out \in Consequences(Last(files[f]), PolicyInForce(files[f], BoundLog(f))) :
         Execute(f, FALSE, files[f], out, Projection(out))

StepControl(f) ==
    /\ CanStep(f) /\ Len(files[f]) < MaxTurns
    /\ \E c \in Controls :
         LET nodes == Append(files[f], Turn("control", Typed(c)))
         IN  \E out \in Consequences(Last(nodes), PolicyInForce(nodes, BoundLog(f))) :
               Execute(f, TRUE, nodes, out, Projection(out))

\* With nothing in the file and no prompt configured a step does nothing.
StepSeed(f) ==
    /\ CanStep(f) /\ files[f] = <<>> /\ Bootstrap
    /\ Execute(f, FALSE, <<>>, Seed, Append(Projection(Seed), Turn("user", Say("empty"))))

\* A control step writes the transcript it read, with its turn, first.
WriteSession ==
    /\ step.phase = "session"
    /\ files' = [files EXCEPT ![step.file] = step.nodes]
    /\ step' = [step EXCEPT !.phase = "messages"]
    /\ UNCHANGED <<msgs, records, output, ran, steps, edits>>

\* The new turns and the message consequences, in one append.
WriteMessages ==
    LET new     == [i \in DOMAIN step.new |-> Message(step.new[i].role, step.new[i].text, FALSE)]
        nodes   == new \o SelectSeq(step.out, IsMessage)
        ids     == [i \in DOMAIN nodes |-> Len(msgs) + i]
        results == SelectSeq(step.out, IsResult)
        front   == FrontierMessage(ids, step.nodes, results)
        log     == msgs \o Written(nodes, step.parent)
    IN  /\ step.phase = "messages"
        /\ Len(log) <= MaxMessages
        /\ msgs' = log
        /\ step' = [step EXCEPT !.phase = "records", !.ids = ids,
                                !.todo = StitchRecords(log, ids, front, results)
                                           \o SideEffects(results, front)]
        /\ UNCHANGED <<records, files, output, ran, steps, edits>>

\* The records follow one at a time; a projection brings its own message.
WriteRecord ==
    /\ step.phase = "records" /\ step.todo # <<>>
    /\ LET r == Head(step.todo)
       IN  IF r.kind = "compaction_projection"
           THEN /\ Len(msgs) < MaxMessages
                /\ msgs' = Append(msgs, [parent |-> Len(msgs), role |-> "assistant", text |-> Say("digest"),
                                         adopted |-> FALSE])
                /\ records' = Append(records, r)
           ELSE /\ records' = Append(records, r)
                /\ UNCHANGED msgs
    /\ step' = [step EXCEPT !.todo = Tail(@)]
    /\ UNCHANGED <<files, output, ran, steps, edits>>

Finished == step.phase = "show" \/ (step.phase = "records" /\ step.todo = <<>>)

Show ==
    /\ Finished
    /\ output' = step.shown
    /\ step' = Idle
    /\ UNCHANGED <<msgs, records, files, ran, steps, edits>>

\* The process may be killed at any point; nothing is printed.
Crash ==
    /\ step # Idle
    /\ step' = Idle
    /\ output' = <<>>
    /\ UNCHANGED <<msgs, records, files, ran, steps, edits>>

-----------------------------------------------------------------------------
(***************************************************************************)
(* The operator edits a session file between steps.  A step reads the file *)
(* once, so an edit made while it runs is either one made after it or, when*)
(* a control step then writes the transcript it had read, one that is lost.*)
(***************************************************************************)
Type(f) ==
    /\ CanStep(f) /\ Len(files[f]) < MaxTurns /\ edits < MaxEdits
    /\ edits' = edits + 1
    /\ \E t \in OperatorTurns : files' = [files EXCEPT ![f] = Append(@, t)]
    /\ UNCHANGED <<msgs, records, output, step, ran, steps>>

Truncate(f) ==
    /\ CanStep(f) /\ files[f] # <<>> /\ edits < MaxEdits
    /\ edits' = edits + 1
    /\ \E n \in 0 .. Len(files[f]) - 1 : files' = [files EXCEPT ![f] = SubSeq(@, 1, n)]
    /\ UNCHANGED <<msgs, records, output, step, ran, steps>>

Paste(f) ==
    /\ CanStep(f) /\ output # <<>>
    /\ Len(files[f]) + Len(output) <= MaxTurns
    /\ files' = [files EXCEPT ![f] = @ \o output]
    /\ output' = <<>>
    /\ UNCHANGED <<msgs, records, step, ran, steps, edits>>

StepNext ==
    \/ \E f \in Files : StepTranscript(f) \/ StepControl(f) \/ StepSeed(f)
    \/ WriteSession \/ WriteMessages \/ WriteRecord \/ Show \/ Crash

OperatorNext == \E f \in Files : Type(f) \/ Truncate(f) \/ Paste(f)

Next == StepNext \/ OperatorNext

Spec == Init /\ [][Next]_vars

-----------------------------------------------------------------------------
IsText(x) == DOMAIN x = {"tag", "cmds", "calls", "rest"} /\ ToSet(x.calls) \cup ToSet(x.rest) \subseteq Calls

\* The journal is a forest whose parents come first, every record names a
\* message that was written before it, and a step is in one of its phases.
TypeOK ==
    /\ \A i \in DOMAIN msgs : /\ msgs[i].parent \in 0 .. i - 1
                              /\ msgs[i].role \in {"user", "assistant", "control"}
                              /\ IsText(msgs[i].text)
    /\ \A i \in DOMAIN records : records[i].src \in 0 .. Len(msgs)
    /\ \A f \in Files : files[f] = NoFile \/ Len(files[f]) <= MaxTurns
    /\ step.phase \in {"idle", "session", "messages", "records", "show"}
    /\ steps \in 0 .. MaxSteps /\ edits \in 0 .. MaxEdits

\* A step that wrote its messages has recorded the transcript it read: the
\* turns on the path to each message it wrote are that transcript, up to it,
\* followed by what the step itself added; and this whatever was edited,
\* cut off, crashed or left behind on other branches before.  A step without
\* new turns leaves its answer's place to the writer and is not meant.
TranscriptRecorded ==
    step.phase = "records" /\ step.new # <<>> /\ BindIndex(step.file) = 0 =>
      LET added == SelectSeq(step.out, IsMessage)
          kept  == Len(step.nodes) - Len(step.new)
          whole == step.nodes \o [i \in DOMAIN added |-> Turn(added[i].role, added[i].text)]
      IN  \A k \in DOMAIN step.ids : Turns(Lineage(step.ids[k])) = SubSeq(whole, 1, kept + k)

\* Every control record names the turn that declared it.
RecordsNameTheirSource ==
    \A i \in DOMAIN records :
      LET r == records[i]
          Declares(K) == \E c \in K : c \in ToSet(msgs[r.src].text.cmds)
      IN  CASE r.kind = "policy_override" -> r.src # 0 /\ Declares(GrantCommands)
            [] r.kind = "config_override" -> r.src # 0 /\ Declares(ConfigCommands)
            [] r.kind = "command_context" -> r.src # 0 /\ Declares(CdCommands)
            [] r.kind = "workspace_scope" -> r.src # 0 /\ Declares(WorkspaceCommands)
            [] OTHER                      -> TRUE

\* A step that ends normally has recorded the result of every call it ran, in
\* order, against a message that holds a plan.  (A step whose transcript was
\* taken to agree with a log it differs from records nothing of its last turn.)
ExecutionsRecorded ==
    Finished /\ ~step.drift =>
      LET logged == SelectSeq(SubSeq(records, step.base + 1, Len(records)),
                              LAMBDA r : r.kind = "tool_result" /\ r.call # NoCall)
      IN  /\ Executed(step.out)
               = [i \in DOMAIN logged |-> [call |-> logged[i].call, outcome |-> logged[i].outcome]]
          /\ \A i \in DOMAIN logged : msgs[logged[i].src].text.calls # <<>>

\* In s, every edit stands behind a shell call.
InOrder(s) == \A i \in DOMAIN s : s[i] = "edit" => \E j \in 1 .. i - 1 : s[j] = "shell"

\* So do the plans that the model's or an edited answer brings in.
PlansInOrder == \A a \in Answers \cup Edited : InOrder(a.calls \o a.rest)

\* An edit, which every plan puts after a shell call, is never executed unless
\* a shell call succeeded before: neither a failure nor its recovery, over any
\* number of steps, skips a call.
CallsInOrder ==
    \A i \in DOMAIN ran : ran[i].call = "edit" =>
      \E j \in 1 .. i - 1 : ran[j].call = "shell" /\ ran[j].outcome = "ok"

\* What the transcript grants over the configuration files.
DeclaredGrants(nodes) == ResolveShellGrants(FileConfig, BranchGrantEvents(Declarations(nodes)))

\* Journal and session have never parted: every step extended the log.
Linear == \A i \in DOMAIN msgs : msgs[i].parent = i - 1

\* While no step has rewritten history, the grants in force are the ones that
\* the transcript declares above the frontier, or those of the frontier as
\* well when it is stepped again: a crash between a declaration's message and
\* its record neither loses a grant nor keeps one that was revoked.
GrantsAsDeclared ==
    step # Idle /\ step.nodes # <<>> /\ ~step.rewrite /\ Linear =>
      step.force.granted \in {DeclaredGrants(Front(step.nodes)), DeclaredGrants(step.nodes)}

\* Control records name their turns and give the grants those turns declare.
ControlsAsDeclared == RecordsNameTheirSource /\ GrantsAsDeclared
=============================================================================

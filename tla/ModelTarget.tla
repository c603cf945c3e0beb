---------------------------- MODULE ModelTarget ----------------------------
(***************************************************************************)
(* Which model answers the next message.  The operator selects one with    *)
(* commands that stay in the transcript (/model select TARGET, /model      *)
(* select ENDPOINT MODEL, /endpoint NAME, /model NAME); accepted target    *)
(* selections are also recorded in the journal.  When the next answer is   *)
(* due, resolve_model_invocation reads the transcript lines again, against *)
(* the catalogs as they are by then, and falls back to the record.         *)
(*                                                                         *)
(* A message is the sequence of its lines; the result a command prints is  *)
(* a message too, and so can hold lines that read like commands.  Each     *)
(* message also remembers the target its command was told it selected.     *)
(***************************************************************************)
EXTENDS Integers, Sequences, FiniteSets, SequencesExt, TLC

CONSTANTS
    Endpoints,       \* the configured endpoints (llm.endpoints)
    Models,          \* the model ids an endpoint may report
    Label,           \* a model's short name: the last part of its id
    FileTargets,     \* the targets of the configuration file, a function
    DefaultModel,    \* the endpoint's default_model, or NoModel
    KeyedEndpoints,  \* the endpoints whose api_key_ref is set
    ConfigModel,     \* llm.model of the configuration, or NoModel
    NoModel, NoTarget, BaseEndpoint,
    Unknown,         \* a name no catalog has
    MaxDeclarations,     \* bound: messages in the transcript
    MaxSelections       \* bound: selection records in the journal

VARIABLES
    transcript,   \* the messages of the branch that is being stepped
    known,        \* the model catalog of each endpoint
    targets,      \* the named targets: the file's and the session's
    selections,   \* the llm.target records of the journal, oldest first
    request       \* how the last answer was asked for

targetVars == <<transcript, known, targets, selections, request>>

Line(op, a, b) == [op |-> op, a |-> a, b |-> b]
LabelNames == {Label[m] : m \in Models}
Lines(working) == FlattenSeq([i \in DOMAIN working |-> working[i].lines])

(* discovered_model_selection: the models a name may mean, and the target  *)
(* that stands for the endpoint's model: the catalogued one, or a new id   *)
(* with the first suffix that is free.                                     *)
Matches(e, name) ==
    IF name \in Range(known[e]) THEN {name}
    ELSE {m \in Range(known[e]) : Label[m] = name}
Resolvable(e, name) == e \in Endpoints /\ Cardinality(Matches(e, name)) = 1
Existing(e, m) ==
    {t \in DOMAIN targets : targets[t].endpoint = e /\ targets[t].model = m}
FreeId(e, m) ==
    LET n == CHOOSE k \in 1..(Cardinality(DOMAIN targets) + 1) :
                 /\ <<e, Label[m], k>> \notin DOMAIN targets
                 /\ \A j \in 1..(k - 1) : <<e, Label[m], j>> \in DOMAIN targets
    IN  <<e, Label[m], n>>
Discovered(e, name) ==
    LET m == CHOOSE x \in Matches(e, name) : TRUE
    IN  IF Existing(e, m) # {} THEN CHOOSE t \in Existing(e, m) : TRUE
                               ELSE FreeId(e, m)

(* _direct_target_selection: the last line of the branch that reads like a *)
(* selection, whoever wrote it; a discovery that no longer resolves is     *)
(* passed over.                                                            *)
Selects(l) ==
    \/ l.op = "select"
    \/ l.op = "discover" /\ Resolvable(l.a, l.b)
Selected(l) == IF l.op = "select" THEN l.a ELSE Discovered(l.a, l.b)
\* Mutant: the first selection of the branch wins.
DirectSelectionFirst(working) ==
    LET named == SelectSeq(Lines(working), Selects)
    IN  IF named = <<>> THEN NoTarget ELSE Selected(Head(named))

DirectSelection(working) ==
    LET named == SelectSeq(Lines(working), Selects)
    IN  IF named = <<>> THEN NoTarget ELSE Selected(Last(named))

(* _branch_visible_target_selection: no selection in the transcript leaves *)
(* the newest record of the journal; /model select records a policy        *)
(* override, and only records of another kind are tested for the branch.   *)
ActiveTarget(working) ==
    IF DirectSelection(working) # NoTarget THEN DirectSelection(working)
    ELSE IF selections = <<>> THEN NoTarget ELSE Last(selections)

(* resolve_settings, infer_endpoint_default_model, and the endpoint's own  *)
(* settings over them.  BaseSettings.model stands for llm.model, or for    *)
(* the environment's when that is empty: the endpoint without a default of *)
(* its own falls back to it whether or not it is the only endpoint.        *)
BaseSettings == [endpoint |-> BaseEndpoint, key |-> BaseEndpoint,
                 model |-> ConfigModel]
EndpointModel(e) ==
    IF DefaultModel[e] # NoModel THEN DefaultModel[e]
    ELSE IF Len(known[e]) = 1 THEN known[e][1]
    ELSE BaseSettings.model
\* resolve_secret: an endpoint without a key of its own is sent the default.
EndpointKey(e) == IF e \in KeyedEndpoints THEN e ELSE BaseSettings.key
EndpointSettings(e) ==
    [endpoint |-> e, model |-> EndpointModel(e), key |-> EndpointKey(e)]

(* resolve_target_invocation *)
Available(t) ==
    /\ t \in DOMAIN targets
    /\ targets[t].endpoint \in Endpoints \cup {BaseEndpoint}
TargetSettings(t) ==
    LET base == IF targets[t].endpoint = BaseEndpoint THEN BaseSettings
                ELSE EndpointSettings(targets[t].endpoint)
    IN  IF targets[t].model = NoModel THEN base
        ELSE [base EXCEPT !.model = targets[t].model]

(* resolve_selected_endpoint, resolve_selected_model: the newest message   *)
(* whose last line is the command.                                         *)
LastLineOf(working, op) ==
    LET named == SelectSeq(working, LAMBDA m :
                     m.lines # <<>> /\ Last(m.lines).op = op)
    IN  IF named = <<>> THEN NoModel ELSE Last(Last(named).lines).a
TranscriptSettings(working) ==
    LET e == LastLineOf(working, "endpoint")
        m == LastLineOf(working, "model")
        s == IF e \in Endpoints THEN EndpointSettings(e) ELSE BaseSettings
    IN  IF m = NoModel THEN s ELSE [s EXCEPT !.model = m]

(* resolve_model_invocation: a target that cannot be resolved is an error. *)
Invocation(working) ==
    LET t == ActiveTarget(working)
    IN  CASE t = NoTarget ->
               [status |-> "sent", target |-> t,
                settings |-> TranscriptSettings(working)]
          [] t # NoTarget /\ Available(t) ->
               [status |-> "sent", target |-> t, settings |-> TargetSettings(t)]
          [] OTHER ->
               [status |-> "raised", target |-> t, settings |-> BaseSettings]

NoRequest == [status |-> "none", target |-> NoTarget, settings |-> BaseSettings]

TargetInit ==
    /\ transcript = <<>>
    /\ known = [e \in Endpoints |-> <<>>]
    /\ targets = FileTargets
    /\ selections = <<>>
    /\ request = NoRequest

Adds(lines, t) ==
    /\ Len(transcript) < MaxDeclarations
    /\ transcript' = Append(transcript, [lines |-> lines, accepted |-> t])
    /\ request' = NoRequest
Records(t) ==
    /\ Len(selections) < MaxSelections
    /\ selections' = Append(selections, t)

(* _handle_endpoint prints the endpoints as commands. *)
EndpointCommands ==
    LET listed == SetToSeq(Endpoints)
    IN  [i \in DOMAIN listed |-> Line("endpoint", listed[i], NoModel)]

(* An ordinary message: the step asks for an answer, unless               *)
(* _generation_guard_result finds that the endpoint named is not one of    *)
(* the configured ones; its answer lists those.                            *)
Refused ==
    /\ Endpoints # {}
    /\ LastLineOf(transcript, "endpoint") \notin Endpoints \cup {NoModel}
Ask == /\ ~Refused
       /\ request' = Invocation(transcript)
       /\ UNCHANGED <<transcript, known, targets, selections>>
AskRefused == /\ Refused
              /\ Adds(EndpointCommands, NoTarget)
              /\ UNCHANGED <<known, targets, selections>>

(* _handle_model_select with one argument: an unknown target is answered   *)
(* with an error; the line stays in the transcript either way.             *)
ModelSelect(t) ==
    /\ IF Available(t)
         THEN Adds(<<Line("select", t, NoModel)>>, t) /\ Records(t)
         ELSE /\ Adds(<<Line("select", t, NoModel)>>, NoTarget)
              /\ UNCHANGED selections
    /\ UNCHANGED <<known, targets>>

Catalogue(t, e, m) ==
    targets' = IF t \in DOMAIN targets THEN targets
               ELSE (t :> [endpoint |-> e, model |-> m]) @@ targets

(* _handle_model_select with two: the config_update record that names the  *)
(* new target is written before the selection is, and a step may end       *)
(* between them.                                                           *)
ModelSelectKnown(e, name) ==
    LET line == Line("discover", e, name)
    IN  /\ IF Resolvable(e, name)
             THEN LET t == Discovered(e, name)
                      m == CHOOSE x \in Matches(e, name) : TRUE
                  IN  /\ Catalogue(t, e, m)
                      /\ \/ Adds(<<line>>, t) /\ Records(t)
                         \/ Adds(<<line>>, NoTarget) /\ UNCHANGED selections
             ELSE Adds(<<line>>, NoTarget) /\ UNCHANGED <<targets, selections>>
        /\ UNCHANGED known

(* selection_commands: the commands a catalog prints, by short name where  *)
(* that is unique.                                                         *)
SelectionCommands(e, models) ==
    [i \in DOMAIN models |->
        Line("discover", e,
             IF \A j \in DOMAIN models \ {i} : Label[models[j]] # Label[models[i]]
             THEN Label[models[i]] ELSE models[i])]

ModelsKnown(e) == /\ Adds(SelectionCommands(e, known[e]), NoTarget)
                  /\ UNCHANGED <<known, targets, selections>>

(* merge_endpoint_model_ids: what the endpoint reports is added at the end *)
(* of what is known; nothing is forgotten.                                 *)
Merged(e, observed) ==
    known[e] \o SelectSeq(observed, LAMBDA m : m \notin Range(known[e]))

ModelsRefresh(e, observed) ==
    /\ known' = [known EXCEPT ![e] = Merged(e, observed)]
    /\ Adds(SelectionCommands(e, Merged(e, observed)), NoTarget)
    /\ UNCHANGED <<targets, selections>>
ModelsRefreshFails == /\ Adds(<<>>, NoTarget)
                      /\ UNCHANGED <<known, targets, selections>>

(* _handle_endpoint: a name is validated only when the answer is asked     *)
(* for; without one the command lists what there is.                       *)
EndpointNamed(e) == /\ Adds(<<Line("endpoint", e, NoModel)>>, NoTarget)
                    /\ UNCHANGED <<known, targets, selections>>
EndpointsListed == /\ Adds(EndpointCommands, NoTarget)
                   /\ UNCHANGED <<known, targets, selections>>

(* _handle_model: /model NAME is refused and /model targets lists the      *)
(* targets; both leave a last line of two words that starts with /model.   *)
ModelNamed(word) == /\ Adds(<<Line("model", word, NoModel)>>, NoTarget)
                    /\ UNCHANGED <<known, targets, selections>>

(* The operator cuts the transcript back and goes on from there. *)
Rewrite(n) == /\ transcript' = SubSeq(transcript, 1, n)
              /\ request' = NoRequest
              /\ UNCHANGED <<known, targets, selections>>

TargetNext ==
    \/ Ask
    \/ AskRefused
    \/ \E t \in DOMAIN targets \cup {Unknown} : ModelSelect(t)
    \/ \E e \in Endpoints, name \in Models \cup LabelNames : ModelSelectKnown(e, name)
    \/ \E e \in Endpoints : ModelsKnown(e)
    \/ \E e \in Endpoints, m \in Models : ModelsRefresh(e, <<m>>)
    \/ ModelsRefreshFails
    \/ \E e \in Endpoints \cup {Unknown} : EndpointNamed(e)
    \/ EndpointsListed
    \/ \E word \in Models \cup {"targets"} : ModelNamed(word)
    \/ \E n \in 0..(Len(transcript) - 1) : Rewrite(n)

TargetSpec == TargetInit /\ [][TargetNext]_targetVars

-----------------------------------------------------------------------------
SelectionLines(m) == {l \in Range(m.lines) : l.op \in {"select", "discover"}}
Selectors(working) == SelectSeq(working, LAMBDA m : SelectionLines(m) # {})

(* When the newest message with a selection in it is a /model select       *)
(* TARGET that was accepted, every answer is asked of that target, with    *)
(* the endpoint, the key and the model it names, whatever was selected     *)
(* before, listed, refreshed or named by /endpoint and /model since.       *)
LatestSelectionDecides ==
    LET s == Selectors(transcript)
    IN  /\ request.status # "none"
        /\ s # <<>>
        /\ Last(s).accepted # NoTarget
        /\ Last(s).lines[1].op = "select"
        => /\ request.status = "sent"
           /\ request.target = Last(s).accepted
           /\ LET t == targets[Last(s).accepted]
              IN  /\ request.settings.endpoint = t.endpoint
                  /\ request.settings.key \in {t.endpoint, BaseEndpoint}
                  /\ t.model # NoModel => request.settings.model = t.model

(* A branch on which a selection was accepted is never answered by the     *)
(* default settings instead: a selection that has become unusable is an    *)
(* error, or another selection, but never silently none.                   *)
SelectionFailsClosed ==
    /\ request.status = "sent"
    /\ \E i \in DOMAIN transcript : transcript[i].accepted # NoTarget
    => request.target # NoTarget

\* The accepted selection decides, and an unusable one is never dropped in
\* silence.
SelectionSound == LatestSelectionDecides /\ SelectionFailsClosed
=============================================================================

---------------------------- MODULE StateIntents ----------------------------
(* The operator's turns below a STATE turn (cli_session_commands.py         *)
(* _run_state_step_impl, _resolve_state_input_turns; state_step.py          *)
(* observation_with_user_turns). A step runs the commands among them        *)
(* through the ordinary step runtime, prints their results, which are added *)
(* at the end of session.md, and stops; only a step that finds nothing to   *)
(* run asks the model, with the turns and results as its observation.       *)
EXTENDS Integers, Sequences, SequencesExt, FiniteSets

CONSTANTS Commands,         \* the commands the operator may write, each once
          MaxInputs,        \* turns below a STATE turn
          MaxStates,        \* STATE turns
          MaxIntentCrashes  \* steps that die

VARIABLES inputs,    \* the turns of session.md below the last STATE turn
          states,    \* how many STATE turns there are
          run,       \* the step under way
          ran,       \* how often each command was executed
          preview,   \* what step --preview said of the present transcript
          asked,     \* the last inference: its turns, and what it was given
          died       \* steps that died

intentVars == <<inputs, states, run, ran, preview, asked, died>>

Plain == [kind |-> "plain", of |-> "none"]
Call(c) == [kind |-> "call", of |-> c]
Result(c) == [kind |-> "result", of |-> c]
Idle == [on |-> FALSE, turns |-> <<>>, at |-> 1, acted |-> FALSE, open |-> FALSE]
NotAsked == [turns |-> <<>>, observed |-> <<>>, preview |-> "none"]

IntentInit ==
    /\ inputs = <<>> /\ states = 1 /\ run = Idle
    /\ ran = [c \in Commands |-> 0]
    /\ preview = "none" /\ asked = NotAsked /\ died = 0

----------------------------------------------------------------------------
\* A turn counts as answered when the next one is a result.
Answered(turns, i) == i < Len(turns) /\ turns[i + 1].kind = "result"

\* A turn the step runs (_frontier_has_callable_intent).
Unresolved(turns, i) == turns[i].kind = "call" /\ ~Answered(turns, i)

(* observation_with_user_turns: the prose of the turns and the results, each *)
(* in the order of the transcript.                                         *)
Observation(turns) == SelectSeq(turns, LAMBDA t : t.kind # "result")
                      \o SelectSeq(turns, LAMBDA t : t.kind = "result")

----------------------------------------------------------------------------
(* The operator.                                                           *)

\* Appends a USER or CONTROL turn.
AddTurn(turn) ==
    /\ ~run.on /\ Len(inputs) < MaxInputs
    /\ turn.kind = "call" => \A i \in 1..Len(inputs) : inputs[i] # turn
    /\ turn.kind = "call" => ran[turn.of] = 0
    /\ inputs' = Append(inputs, turn) /\ preview' = "none"
    /\ UNCHANGED <<states, run, ran, asked, died>>

\* Mutant of PreviewStep: only the last turn is looked at.
PreviewLast ==
    /\ ~run.on
    /\ preview' = IF inputs # <<>> /\ Unresolved(inputs, Len(inputs))
                  THEN "resolve_user_intent" ELSE "infer"
    /\ UNCHANGED <<inputs, states, run, ran, asked, died>>

\* step --preview
PreviewStep ==
    /\ ~run.on
    /\ preview' = IF \E i \in 1..Len(inputs) : Unresolved(inputs, i)
                  THEN "resolve_user_intent" ELSE "infer"
    /\ UNCHANGED <<inputs, states, run, ran, asked, died>>

----------------------------------------------------------------------------
(* The step. Results are put into the list behind their turn as it goes;    *)
(* the transcript gets them at its end.                                     *)

BeginIntentStep ==
    /\ ~run.on
    /\ run' = [Idle EXCEPT !.on = TRUE, !.turns = inputs]
    /\ UNCHANGED <<inputs, states, ran, preview, asked, died>>

InTurns == run.on /\ ~run.open /\ run.at <= Len(run.turns)

SkipTurn ==
    /\ InTurns /\ ~Unresolved(run.turns, run.at)
    /\ run' = [run EXCEPT !.at = @ + 1]
    /\ UNCHANGED <<inputs, states, ran, preview, asked, died>>

\* step_fn executes the command.
RunIntent ==
    /\ InTurns /\ Unresolved(run.turns, run.at)
    /\ Len(inputs) < MaxInputs + Cardinality(Commands)
    /\ ran' = [ran EXCEPT ![run.turns[run.at].of] = @ + 1]
    /\ run' = [run EXCEPT !.open = TRUE, !.acted = TRUE]
    /\ UNCHANGED <<inputs, states, preview, asked, died>>

\* _persist_step_outputs prints the result; the list goes on behind it.
ShowResult ==
    /\ run.on /\ run.open
    /\ LET result == Result(run.turns[run.at].of)
       IN /\ inputs' = Append(inputs, result)
          /\ run' = [run EXCEPT !.open = FALSE, !.at = @ + 2,
                                !.turns = InsertAt(@, run.at + 1, result)]
    /\ preview' = "none"
    /\ UNCHANGED <<states, ran, asked, died>>

\* Something was run: the step ends there.
EndResolved ==
    /\ run.on /\ ~run.open /\ run.at > Len(run.turns) /\ run.acted
    /\ run' = Idle
    /\ UNCHANGED <<inputs, states, ran, preview, asked, died>>

\* Nothing was left to run: the model is asked and a new STATE turn follows.
Infer ==
    /\ run.on /\ ~run.open /\ run.at > Len(run.turns) /\ ~run.acted /\ states < MaxStates
    /\ asked' = [turns |-> run.turns, observed |-> Observation(run.turns), preview |-> preview]
    /\ states' = states + 1 /\ inputs' = <<>> /\ run' = Idle /\ preview' = "none"
    /\ UNCHANGED <<ran, died>>

\* The process dies; what was printed stays.
StepDies ==
    /\ run.on /\ died < MaxIntentCrashes
    /\ run' = Idle /\ died' = died + 1
    /\ UNCHANGED <<inputs, states, ran, preview, asked>>

IntentNext ==
    \/ AddTurn(Plain)
    \/ \E c \in Commands : AddTurn(Call(c))
    \/ PreviewStep
    \/ BeginIntentStep
    \/ SkipTurn
    \/ RunIntent
    \/ ShowResult
    \/ EndResolved
    \/ Infer
    \/ StepDies

IntentSpec == IntentInit /\ [][IntentNext]_intentVars

----------------------------------------------------------------------------
(* Properties.                                                             *)

(* The model is never asked before every command the operator wrote below    *)
(* the state has run, and then with the result of each in its observation,   *)
(* also when steps died half way and results stand below turns they do not   *)
(* belong to (_resolve_state_input_turns).                                   *)
InferenceSeesAll ==
    \A i \in 1..Len(asked.turns) : asked.turns[i].kind = "call"
        => \E j \in 1..Len(asked.observed) : asked.observed[j] = Result(asked.turns[i].of)

(* step --preview tells what the next step does: it announces an inference   *)
(* only when no command is going to run, and the other way round.            *)
PreviewAgrees ==
    /\ run.on /\ run.open => preview # "infer"
    /\ asked.preview # "resolve_user_intent"

(* tests/test_cli_session_commands_state_step.py: "already resolved user     *)
(* command must not re-execute" - without a crash no command runs twice.     *)
ResolvedOnce == died = 0 => \A c \in Commands : ran[c] <= 1

\* An inference is asked with the result of every command turn before it, as the
\* preview said.
IntentsFaithful == InferenceSeesAll /\ PreviewAgrees
=============================================================================

------------------------------- MODULE Policy -------------------------------
(***************************************************************************)
(* The control state of a session: the reducers that turn the journal's    *)
(* control records, or the declarations visible in a transcript, into the  *)
(* grants, the configuration, the workspace and the working directory in   *)
(* force (graph_control_state_edges.py, runtime/policy.py, and the branch  *)
(* reducers of runtime/step_runtime.py).                                   *)
(*                                                                         *)
(* Data is abstracted to what the reducers tell apart.  A grant is a model *)
(* value; the configuration is the list of allowed commands and the one    *)
(* scalar a plan step reads, extraction.shell_staging; the directories     *)
(* form one chain, named by their depth: 0 is the directory the process    *)
(* runs in, -1 its parent, and deeper ones are its descendants.            *)
(***************************************************************************)
EXTENDS Integers, Sequences, FiniteSets, SequencesExt

CONSTANTS Grants,        \* the commands a grant can name
          Defaults,      \* ShellPolicy().allowed_commands, the list in the code
          FileAllowed,   \* shell.allowed_commands of the configuration files
          Granted,       \* the command the grant commands of a transcript name
          MaxDepth       \* the deepest directory that exists

ASSUME PolicyAssumption ==
    /\ Defaults \subseteq Grants
    /\ FileAllowed \subseteq Grants
    /\ Granted \in Grants
    /\ MaxDepth \in Nat

Scopes == <<"global", "user", "workspace", "session", "transient">>
ScopeNames == {Scopes[i] : i \in DOMAIN Scopes}

Directories == -1 .. MaxDepth
Root == 0

\* What a scope holds: its edits of the grant collection, and its scalars.
EmptyScope == [added |-> {}, removed |-> {}, staging |-> "unset"]
EmptyPolicy == [s \in ScopeNames |-> EmptyScope]

-----------------------------------------------------------------------------
(***************************************************************************)
(* active_policy_state: one pass over the records, then a projection of    *)
(* the scopes in precedence order.                                         *)
(***************************************************************************)
AddGrant(scope, g) == [scope EXCEPT !.added = @ \cup {g}, !.removed = @ \ {g}]

RemoveGrant(scope, g) == [scope EXCEPT !.added = @ \ {g}, !.removed = @ \cup {g}]

ApplyPolicyOverride(st, r) ==
    CASE r.action = "add"    -> [st EXCEPT ![r.scope] = AddGrant(@, r.grant)]
      [] r.action = "remove" -> [st EXCEPT ![r.scope] = RemoveGrant(@, r.grant)]
      [] r.action = "reset"  -> [st EXCEPT ![r.scope].added = {}, ![r.scope].removed = {}]

ApplyConfigOverride(st, r) ==
    [st EXCEPT !["session"].staging = IF r.op = "set" THEN r.value ELSE "unset"]

ApplyRecord(st, r) ==
    CASE r.kind = "policy_override" -> ApplyPolicyOverride(st, r)
      [] r.kind = "config_override" -> ApplyConfigOverride(st, r)
      [] OTHER                      -> st

ActivePolicyState(records) == FoldLeft(LAMBDA st, r : ApplyRecord(st, r), EmptyPolicy, records)

HasGrantEdits(st) == \E s \in ScopeNames : st[s].added # {} \/ st[s].removed # {}

\* The grants left of `base` by the scopes, the narrower ones last.
ApplyScopes(base, st) ==
    LET upTo[i \in 0 .. Len(Scopes)] ==
          IF i = 0 THEN base
                   ELSE (upTo[i - 1] \ st[Scopes[i]].removed) \cup st[Scopes[i]].added
    IN  upTo[Len(Scopes)]

\* The staging mode the narrowest scope sets; the files say "auto".
EffectiveStaging(st) ==
    LET upTo[i \in 0 .. Len(Scopes)] ==
          IF i = 0 THEN "auto"
          ELSE IF st[Scopes[i]].staging = "unset" THEN upTo[i - 1] ELSE st[Scopes[i]].staging
    IN  upTo[Len(Scopes)]

\* The configuration of a step: the files, overridden by the policy records.
\* Once any scope edits the grants, the list of the files is replaced by the
\* in-code defaults with the edits applied.
OperatorConfig(records) ==
    LET st == ActivePolicyState(records)
    IN  [allowed |-> IF HasGrantEdits(st) THEN ApplyScopes(Defaults, st) ELSE FileAllowed,
         staging |-> EffectiveStaging(st)]

FileConfig == [allowed |-> FileAllowed, staging |-> "auto"]

\* resolve_shell_grants: an empty configured list means the built-in one.
ResolveShellGrants(config, records) ==
    ApplyScopes(IF config.allowed = {} THEN Defaults ELSE config.allowed, ActivePolicyState(records))

-----------------------------------------------------------------------------
(***************************************************************************)
(* The working directory and the workspace of the journal: the last record *)
(* of each kind wins.                                                      *)
(***************************************************************************)
NoDirectory == -2

StartContext == [cwd |-> Root, previous |-> NoDirectory]
StartWorkspace == [mode |-> "strict", roots |-> {Root}]

ActiveCommandContext(records) ==
    FoldLeft(LAMBDA c, r : IF r.kind # "command_context" THEN c
                           ELSE [cwd |-> r.cwd, previous |-> r.previous],
             StartContext, records)

ActiveWorkspaceScope(records) ==
    FoldLeft(LAMBDA w, r : IF r.kind # "workspace_scope" THEN w
                           ELSE [mode |-> r.mode, roots |-> r.roots],
             StartWorkspace, records)

-----------------------------------------------------------------------------
(***************************************************************************)
(* What one operator command does to each domain.  A relative directory is *)
(* resolved against the working directory it finds; one that does not      *)
(* exist, or that a strict workspace does not contain, is an error.        *)
(***************************************************************************)
CdTarget(cmd, context) ==
    CASE cmd = "cd_down" -> context.cwd + 1
      [] cmd = "cd_up"   -> context.cwd - 1
      [] cmd = "cd_back" -> context.previous

CdAllowed(cmd, context, workspace) ==
    LET target == CdTarget(cmd, context)
    IN  /\ target \in Directories
        /\ workspace.mode = "strict" => \E r \in workspace.roots : r <= target

AfterCd(cmd, context) == [cwd |-> CdTarget(cmd, context), previous |-> context.cwd]

\* /workspace add .., remove .., mode strict|unbounded, reset, for the process.
AfterWorkspace(cmd, context, workspace) ==
    LET target == context.cwd - 1
        left   == workspace.roots \ {target}
    IN  CASE cmd = "ws_add"    -> [workspace EXCEPT !.roots = @ \cup {target}]
          [] cmd = "ws_remove" -> [workspace EXCEPT !.roots = IF left = {} THEN {Root} ELSE left]
          [] cmd = "ws_open"   -> [workspace EXCEPT !.mode = "unbounded"]
          [] cmd = "ws_strict" -> [workspace EXCEPT !.mode = "strict"]
          [] cmd = "ws_reset"  -> StartWorkspace

WorkspaceAllowed(cmd, context) == cmd = "ws_add" => context.cwd - 1 \in Directories

-----------------------------------------------------------------------------
(***************************************************************************)
(* The branch reducers: the same domains, from the commands a transcript   *)
(* declares.  `commands` is the sequence of commands above the frontier.   *)
(***************************************************************************)
GrantCommands == {"shell_add", "shell_remove", "shell_reset"}
ConfigCommands == {"config_set", "config_unset", "config_restore"}
CdCommands == {"cd_down", "cd_up", "cd_back"}
WorkspaceCommands == {"ws_add", "ws_remove", "ws_open", "ws_strict", "ws_reset"}

PolicyUpdate(cmd, source) ==
    [kind |-> "policy_override", src |-> source, scope |-> "session", grant |-> Granted,
     action |-> CASE cmd = "shell_add"    -> "add"
                  [] cmd = "shell_remove" -> "remove"
                  [] cmd = "shell_reset"  -> "reset"]

ConfigUpdate(cmd, source) ==
    [kind |-> "config_override", src |-> source, value |-> "manual",
     op |-> CASE cmd = "config_set"     -> "set"
              [] cmd = "config_unset"   -> "unset"
              [] cmd = "config_restore" -> "restore"]

Declared(commands, Kinds) == SelectSeq(commands, LAMBDA c : c \in Kinds)

BranchGrantEvents(commands) ==
    LET declared == Declared(commands, GrantCommands)
    IN  [i \in DOMAIN declared |-> PolicyUpdate(declared[i], 0)]

BranchConfig(commands) ==
    FoldLeft(LAMBDA config, c : [config EXCEPT !.staging = IF c = "config_set" THEN "manual" ELSE "auto"],
             FileConfig, Declared(commands, ConfigCommands))

\* The reducer resolves a path against the process's directory, not the
\* command's, and an emptied list falls back to the baseline it was given.
BranchWorkspace(commands, baseline) ==
    FoldLeft(LAMBDA w, c : LET left == w.roots \ {Root - 1}
                           IN CASE c = "ws_reset"  -> [mode |-> "strict", roots |-> baseline.roots]
                                [] c = "ws_remove" -> [w EXCEPT !.roots = IF left = {} THEN baseline.roots
                                                                                       ELSE left]
                                [] OTHER           -> AfterWorkspace(c, StartContext, w),
             baseline, Declared(commands, WorkspaceCommands))

BranchContext(commands, baseline, workspace) ==
    FoldLeft(LAMBDA x, c : IF CdAllowed(c, x, workspace) THEN AfterCd(c, x) ELSE x,
             baseline, Declared(commands, CdCommands))
=============================================================================

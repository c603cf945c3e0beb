---------------------------- MODULE TaskCapture ----------------------------
(***************************************************************************)
(* capture_task_thread (tasks.py): a thought is turned into a task file, an *)
(* item of the active task, a blocker of it or an entry of the review      *)
(* inbox, and the capture is written to the ledger tasks/events.jsonl      *)
(* afterwards.  A capture may be repeated: after a crash, by a replayed    *)
(* turn, or because the model says the same again.                         *)
(*                                                                         *)
(* A task file is named <<id, title>>; of its content the model keeps the  *)
(* captured items and whether it is marked blocked.  What identifies a     *)
(* capture without its capture id, title, kind and active task, is its key.*)
(***************************************************************************)
EXTENDS Integers, Sequences, FiniteSets, FiniteSetsExt, SequencesExt, TLC

CONSTANTS Titles, Kinds, SmallKinds,   \* SmallKinds: risk, todo, cleanup ...
          MaxCaptures, MaxCaptureCrashes, MaxCloses   \* bounds

ASSUME CaptureAssumption ==
    /\ SmallKinds \subseteq Kinds
    /\ MaxCaptures \in Nat /\ MaxCaptureCrashes \in Nat /\ MaxCloses \in Nat

VARIABLES open,      \* tasks/open: what each file holds
          inbox,     \* tasks/open/inbox.md: the keys entered
          ledger,    \* tasks/events.jsonl
          capture,   \* the call under way
          captures,  \* how many calls there were
          slips,     \* history: the calls that crashed, and whether after a change
          closed     \* history: the files the operator has moved to tasks/closed

captureVars == <<open, inbox, ledger, capture, captures, slips, closed>>

NoActive == 0
InboxFile == <<0, "inbox">>
Keys == [title : Titles, kind : Kinds, active : {NoActive, 1}]
Requests == [key : Keys, hint : {"micro", "macro", ""}, blocks : BOOLEAN]
NotCapturing == [at |-> "idle"]
NewTask(key) == [of |-> {key}, items |-> <<>>, blocked |-> FALSE]

CaptureInit ==
    /\ open = (<<1, "active">> :> [of |-> {}, items |-> <<>>, blocked |-> FALSE])
    /\ inbox = <<>> /\ ledger = <<>> /\ capture = NotCapturing /\ captures = 0
    /\ slips = <<>> /\ closed = {}

-----------------------------------------------------------------------------
\* find_existing_event: the first with the capture id, else the last with the key.
FindExisting(key, named) ==
    LET byId == {i \in DOMAIN ledger : named /\ ledger[i].named /\ ledger[i].key = key}
        byKey == {i \in DOMAIN ledger : ledger[i].key = key}
    IN  IF byId # {} THEN Min(byId) ELSE IF byKey # {} THEN Max(byKey) ELSE 0

\* verify_physical_event
Verified(e) ==
    CASE e.target \in {"macro", "blocker"} -> e.path \in DOMAIN open
      [] e.target = "micro" -> e.path \in DOMAIN open /\ e.key \in ToSet(open[e.path].items)
      [] e.target = "inbox" -> e.key \in ToSet(inbox)

Resolved(id) == {n \in DOMAIN open : n[1] = id}
NextTaskId == Max({n[1] : n \in DOMAIN open} \cup {0}) + 1

Route(r) ==
    IF r.blocks THEN IF r.key.active # NoActive THEN "blocker" ELSE "inbox"
    ELSE IF \/ r.hint = "micro"
            \/ r.key.kind \in SmallKinds /\ r.key.active # NoActive /\ r.hint # "macro"
         THEN "micro"
    ELSE "macro"

\* An item of an active task that is not open is reviewed by hand.
RouteResolved(target, active) ==
    IF target \in {"micro", "blocker"} /\ active # NoActive /\ Resolved(active) = {} THEN "inbox" ELSE target

\* A capture whose effect is there is answered at once; one that is in the
\* ledger and whose effect is gone is done again under its old number.
BeginCapture ==
    /\ capture.at = "idle" /\ captures < MaxCaptures
    /\ \E r \in Requests, named \in BOOLEAN :
        LET old == FindExisting(r.key, named)
            target == RouteResolved(IF old # 0 THEN ledger[old].target ELSE Route(r), r.key.active)
            unassigned == target = "micro" /\ r.key.active = NoActive   \* the assertion fails
        IN  /\ captures' = captures + 1
            /\ capture' = IF unassigned \/ (old # 0 /\ Verified(ledger[old])) THEN NotCapturing
                          ELSE [at |-> target, key |-> r.key, named |-> named, old |-> old,
                                target |-> target, path |-> IF old # 0 THEN ledger[old].path ELSE InboxFile]
    /\ UNCHANGED <<open, inbox, ledger, slips, closed>>

EnterInbox ==
    /\ capture.at = "inbox"
    /\ inbox' = Append(inbox, capture.key)
    /\ capture' = [capture EXCEPT !.at = "log", !.target = "inbox", !.path = InboxFile]
    /\ UNCHANGED <<open, ledger, captures, slips, closed>>

\* edit_task_section
AddItem ==
    /\ capture.at = "micro"
    /\ IF Resolved(capture.key.active) = {}
       THEN capture' = [capture EXCEPT !.at = "inbox"] /\ open' = open
       ELSE \E n \in Resolved(capture.key.active) :
                /\ open' = [open EXCEPT ![n].items = Append(@, capture.key)]
                /\ capture' = [capture EXCEPT !.at = "log", !.path = n]
    /\ UNCHANGED <<inbox, ledger, captures, slips, closed>>

CreateTask ==
    /\ capture.at \in {"macro", "blocker"}
    /\ LET name == <<IF capture.old # 0 /\ capture.path # InboxFile THEN capture.path[1] ELSE NextTaskId,
                     capture.key.title>>
       IN  /\ open' = (name :> NewTask(capture.key)) @@ open
           /\ capture' = [capture EXCEPT !.at = IF @ = "blocker" THEN "mark" ELSE "log", !.path = name]
    /\ UNCHANGED <<inbox, ledger, captures, slips, closed>>

\* mark_task_blocked; a parent that is gone by now sends the capture to the inbox.
MarkParent ==
    /\ capture.at = "mark"
    /\ IF Resolved(capture.key.active) = {}
       THEN capture' = [capture EXCEPT !.at = "inbox"] /\ open' = open
       ELSE \E n \in Resolved(capture.key.active) :
                /\ open' = [open EXCEPT ![n].blocked = TRUE]
                /\ capture' = [capture EXCEPT !.at = "log"]
    /\ UNCHANGED <<inbox, ledger, captures, slips, closed>>

Event == [key |-> capture.key, named |-> capture.named, target |-> capture.target, path |-> capture.path]

\* Mutant: the ledger is written as soon as the task file is there.
LogCaptureEarly ==
    /\ capture.at \in {"log", "mark"}
    /\ ledger' = IF capture.old = 0 THEN Append(ledger, Event) ELSE ledger
    /\ capture' = IF capture.at = "log" THEN NotCapturing ELSE [capture EXCEPT !.old = Len(ledger) + 1]
    /\ UNCHANGED <<open, inbox, captures, slips, closed>>

\* log_event, unless the ledger has the capture already.
LogCapture ==
    /\ capture.at = "log"
    /\ ledger' = IF capture.old = 0 THEN Append(ledger, Event) ELSE ledger
    /\ capture' = NotCapturing
    /\ UNCHANGED <<open, inbox, captures, slips, closed>>

\* The process ends between two changes.
CrashCapture ==
    /\ capture # NotCapturing /\ Len(slips) < MaxCaptureCrashes
    /\ slips' = Append(slips, [key |-> capture.key, changed |-> capture.at # capture.target])
    /\ capture' = NotCapturing
    /\ UNCHANGED <<open, inbox, ledger, captures, closed>>

\* The operator closes a task.
CloseTask ==
    /\ Cardinality(closed) < MaxCloses
    /\ \E n \in DOMAIN open : /\ open' = [m \in DOMAIN open \ {n} |-> open[m]]
                              /\ closed' = closed \cup {n}
    /\ UNCHANGED <<inbox, ledger, capture, captures, slips>>

CaptureNext ==
    \/ BeginCapture \/ EnterInbox \/ AddItem \/ CreateTask \/ MarkParent \/ LogCapture
    \/ CrashCapture \/ CloseTask

-----------------------------------------------------------------------------
\* How often a capture shows in the open task files and the inbox.
Copies(key) ==
    Cardinality({n \in DOMAIN open : key \in open[n].of})
    + Len(SelectSeq(inbox, LAMBDA k : k = key))
    + MapThenSumSet(LAMBDA n : Len(SelectSeq(open[n].items, LAMBDA k : k = key)), DOMAIN open)

\* Neither the file of a capture nor the task it belongs to was closed.
Untouched(e) == e.path \notin closed /\ \A n \in closed : n[1] # e.key.active

\* A capture that is in the ledger shows, unless the operator closed its file
\* or its task: once, and once more for every call for it that crashed between
\* a change and the ledger.  Repeating it changes nothing.
CapturedOnce ==
    \A i \in DOMAIN ledger : Untouched(ledger[i]) =>
        Copies(ledger[i].key) \in 1 .. 1 + Len(SelectSeq(slips, LAMBDA c : c.changed /\ c.key = ledger[i].key))

\* A task whose blocker is in the ledger, so that the caller was told to pause,
\* is marked blocked, whatever crashed on the way.
BlockedIsMarked ==
    \A i \in DOMAIN ledger :
        ledger[i].target = "blocker" /\ (\A n \in closed : n[1] # ledger[i].key.active) =>
            \E n \in Resolved(ledger[i].key.active) : open[n].blocked

\* Crashes between the task files and the ledger leave neither a capture that
\* does not show nor a blocked task that is not marked.
CaptureSound == CapturedOnce /\ BlockedIsMarked
=============================================================================

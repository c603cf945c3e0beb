---------------------------- MODULE HistoryView ----------------------------
(***************************************************************************)
(* What the read commands (transcript, history, llm-input, heads, graph)    *)
(* show of a history that was sealed into several files                     *)
(* (projection_selection.py, graph_stitch_edges.py, operator_api.py). Every *)
(* file counts its message ids from n1, so an id alone may name a message   *)
(* in each of them; the commands select sources, refuse damaged ones, stitch *)
(* the prefix the sources have in common, and follow the parents of one     *)
(* message. The id of a message is its position in its file (the journal    *)
(* keeps ids unique). A parent that is not in the file stands for one that  *)
(* was sealed away.                                                         *)
(***************************************************************************)
EXTENDS Integers, Sequences, SequencesExt, FiniteSets, FiniteSetsExt

CONSTANTS Utterances,        \* what a message says, its role included
          MaxSealed,   \* sealed files
          MaxWritten,  \* messages of one file
          MaxHistory   \* messages of all files

VARIABLES sealed, hot  \* the sealed files in order, and the one that grows

viewVars == <<sealed, hot>>

Missing == MaxWritten + 1
HotSource == 0

ViewInit == sealed = <<>> /\ hot = <<>>

\* A step records a message: a root, an answer to any message, or one whose
\* parent was sealed away.
RecordMessage ==
    /\ Len(hot) < MaxWritten
    /\ Len(hot) + FoldSeq(LAMBDA f, n : n + Len(f), 0, sealed) < MaxHistory
    /\ \E parent \in (0..Len(hot)) \cup {Missing}, says \in Utterances :
         hot' = Append(hot, [parent |-> parent, says |-> says])
    /\ UNCHANGED sealed

SealFile ==
    /\ hot # <<>> /\ Len(sealed) < MaxSealed
    /\ sealed' = Append(sealed, hot) /\ hot' = <<>>

ViewNext == RecordMessage \/ SealFile

ViewSpec == ViewInit /\ [][ViewNext]_viewVars

-----------------------------------------------------------------------------
(* Sources.                                                                *)

File(source) == IF source = HotSource THEN hot ELSE sealed[source]

\* The selectors of --sources: "hot", "segments", the path of a file.
SourceTokens == {[kind |-> "hot", at |-> HotSource], [kind |-> "segments", at |-> 0]}
             \cup [kind : {"path"}, at : 1..Len(sealed)]

\* selected_history_sources: the files of the selectors in order.
Sources(tokens) ==
    FlattenSeq([i \in 1..Len(tokens) |->
        CASE tokens[i].kind = "hot" -> <<HotSource>>
          [] tokens[i].kind = "segments" -> [k \in 1..Len(sealed) |-> k]
          [] OTHER -> <<tokens[i].at>>])

\* What it lets through: no file twice.
Selections == {sel \in {Sources(tokens) : tokens \in SeqOf(SourceTokens, 2)} :
                 sel # <<>> /\ IsInjective(sel)}

\* ensure_events_have_source_local_message_integrity
Intact(source) == \A i \in 1..Len(File(source)) : File(source)[i].parent # Missing

\* list_heads
Heads(file) == {i \in 1..Len(file) : \A k \in 1..Len(file) : file[k].parent # i}

-----------------------------------------------------------------------------
(* Stitching: the messages every source begins with.                       *)

\* _selected_messages_equivalent: the sources say the same at position i, each
\* below its previous stitched message.
Equivalent(sel, i) ==
    /\ \A k \in 1..Len(sel) : i <= Len(File(sel[k]))
    /\ \A k \in 1..Len(sel) : /\ File(sel[k])[i].says = File(sel[1])[i].says
                              /\ File(sel[k])[i].parent = i - 1

\* selected_scope_lcp_stitch
StitchLength(sel) ==
    IF Len(sel) < 2 THEN 0
    ELSE Max({n \in 0..MaxWritten : \A i \in 1..n : Equivalent(sel, i)})

-----------------------------------------------------------------------------
(* Anchors: a message id, alone (source -1) or qualified by its source.    *)

Plainly == -1
Anchors == [source : {Plainly} \cup (0..Len(sealed)), id : 1..MaxWritten]
NoMessage == <<-1, 0>>

\* The messages of the selected sources an anchor can mean.
Meant(sel, anchor) ==
    {<<sel[k], anchor.id>> : k \in {j \in 1..Len(sel) :
        anchor.source \in {Plainly, sel[j]} /\ anchor.id <= Len(File(sel[j]))}}

\* stitched_anchor_id: the id, alone or qualified, is one of a stitched message.
StitchedAnchor(sel, anchor) ==
    anchor.source \in {Plainly} \cup ToSet(sel) /\ anchor.id <= StitchLength(sel)

\* anchor_id_for_selected_sources: of a stitched message the first source's; else
\* the only one meant.
AnchorMessage(sel, anchor) ==
    IF StitchedAnchor(sel, anchor) THEN <<sel[1], anchor.id>>
    ELSE IF Cardinality(Meant(sel, anchor)) = 1 THEN CHOOSE x \in Meant(sel, anchor) : TRUE
    ELSE NoMessage

\* default_head_id_for_selected_sources: the newest head of the hot file, or of
\* the last selected source that has one.
DefaultHead(sel) ==
    LET written == {k \in 1..Len(sel) : Heads(File(sel[k])) # {}}
        hots == {k \in written : sel[k] = HotSource}
        k == Max(IF hots # {} THEN hots ELSE written)
    IN  IF written = {} THEN NoMessage ELSE <<sel[k], Max(Heads(File(sel[k])))>>

-----------------------------------------------------------------------------
(* Projections.                                                            *)

\* Mutant of QualifiedParent: the parent keeps the id it had in its file, which
\* is looked up in the first source.
LocalParent(sel, message) == <<sel[1], File(message[1])[message[2]].parent>>

\* qualified_message_events_for_selected_sources: id and parent carry the source.
QualifiedParent(sel, message) == <<message[1], File(message[1])[message[2]].parent>>

Nodes(sel) == UNION {{<<sel[k], i>> : i \in 1..Len(File(sel[k]))} : k \in 1..Len(sel)}

\* _lineage: from the head up as long as the parent is there.
LineageTo(sel, head) ==
    LET up[n \in Nodes(sel)] ==
          LET parent == QualifiedParent(sel, n)
          IN  IF parent \in Nodes(sel) THEN Append(up[parent], n) ELSE <<n>>
    IN  up[head]

Readable(sel) == \A k \in 1..Len(sel) : Intact(sel[k])

\* What transcript, history and llm-input say of the branch of a message.
Told(sel, head) == [i \in 1..Len(LineageTo(sel, head)) |->
                      LET n == LineageTo(sel, head)[i] IN File(n[1])[n[2]].says]

\* _head_lineage_stats: depth and changes of speaker, extended from the parent's.
LineageStats(sel) ==
    LET stats[n \in Nodes(sel)] ==
          LET parent == QualifiedParent(sel, n)
          IN  IF parent \notin Nodes(sel) THEN [depth |-> 1, turns |-> 0]
              ELSE [depth |-> stats[parent].depth + 1,
                    turns |-> stats[parent].turns
                              + IF File(n[1])[n[2]].says # File(parent[1])[parent[2]].says
                                THEN 1 ELSE 0]
    IN  stats

\* _graph_neighborhood_anchor_ids: a stitched message in all its sources; any
\* other id as it was given, which over several sources must be qualified.
NeighborhoodAnchors(sel, anchor) ==
    IF StitchedAnchor(sel, anchor) THEN {<<sel[k], anchor.id>> : k \in 1..Len(sel)}
    ELSE IF Len(sel) > 1 /\ anchor.source = Plainly THEN {}
    ELSE Meant(sel, anchor)

\* _graph_neighborhood: "before" ancestors and "after" generations below.
Neighborhood(sel, anchors, before, after) ==
    LET line == [n \in Nodes(sel) |-> Reverse(LineageTo(sel, n))]
        within(n, m, d) == \E i \in 1..(d + 1) : i <= Len(line[n]) /\ line[n][i] = m
    IN  {x \in Nodes(sel) : \E n \in anchors : within(n, x, before) \/ within(x, n, after)}

\* _subgraph_from_nodes: the roots of what is drawn.
DrawnRoots(sel, drawn) == {n \in drawn : QualifiedParent(sel, n) \notin drawn}

-----------------------------------------------------------------------------
(* Properties.                                                             *)

\* The conversation recorded in one file up to a message, from its root.
Conversation(source, i) ==
    LET up[k \in 1..Len(File(source))] ==
          LET m == File(source)[k]
          IN  IF m.parent = 0 THEN <<m.says>> ELSE Append(up[m.parent], m.says)
    IN  up[i]

(* A projection over any selection of sources tells one recorded            *)
(* conversation from its root, and whichever file's message the operator's   *)
(* id may name, it is that one: an id that could mean two different          *)
(* conversations is refused (anchor_id_for_selected_sources).                *)
AnchorsUnmistaken ==
    \A sel \in Selections : Readable(sel) =>
        \A anchor \in Anchors : AnchorMessage(sel, anchor) # NoMessage =>
            \A m \in Meant(sel, anchor) :
                Conversation(m[1], m[2]) = Told(sel, AnchorMessage(sel, anchor))

(* Without an id the newest message of the hot file is shown when there is   *)
(* one, whatever the order of the sources (default_head_id_for_selected_     *)
(* sources).                                                                 *)
NewestByDefault ==
    \A sel \in Selections : Readable(sel) /\ HotSource \in ToSet(sel) /\ hot # <<>> =>
        Told(sel, DefaultHead(sel)) = Conversation(HotSource, Len(hot))

(* The columns of heads count what transcript shows (_head_lineage_stats and *)
(* _lineage_stats agree).                                                    *)
HeadsCountTheirBranch ==
    \A sel \in Selections : Readable(sel) => \A n \in Nodes(sel) :
        LET told == Told(sel, n)
        IN  LineageStats(sel)[n] =
              [depth |-> Len(told),
               turns |-> Cardinality({i \in 1..(Len(told) - 1) : told[i] # told[i + 1]})]

(* The neighborhood of a stitched message hangs together in each source and  *)
(* begins at the same message in all of them (_graph_neighborhood).          *)
NeighborhoodHangsTogether ==
    \A sel \in Selections : Readable(sel) => \A anchor \in Anchors, before, after \in 0..1 :
        LET anchors == NeighborhoodAnchors(sel, anchor)
            roots == DrawnRoots(sel, Neighborhood(sel, anchors, before, after))
        IN  /\ Cardinality(roots) = Cardinality(anchors)
            /\ \A a, b \in roots : Conversation(a[1], a[2]) = Conversation(b[1], b[2])

(* What is shown of a history in several files is what one of them records;  *)
(* of an empty history nothing is shown.                                     *)
ShownAsRecorded ==
    sealed # <<>> \/ hot # <<>> =>
        /\ AnchorsUnmistaken
        /\ NewestByDefault
        /\ HeadsCountTheirBranch
        /\ NeighborhoodHangsTogether
=============================================================================

----------------------------- MODULE FileTools -----------------------------
(***************************************************************************)
(* The tools that change files of the workspace: write_file (basic_ops.py),*)
(* replace_range and replace_block (file_ops.py, file_match_ops.py) and    *)
(* apply_patch (apply_patch_ops.py).                                       *)
(*                                                                         *)
(* A file is a sequence of lines, a line an indentation and a text, "" on  *)
(* a blank line.  No text is part of another one.  A search block does not *)
(* start with a blank line, and match_mode=lax is left out.                *)
(***************************************************************************)
EXTENDS Integers, Sequences, FiniteSets, FiniteSetsExt, SequencesExt

CONSTANTS FilePaths, Texts, NoFile,
          MaxIndent, MaxFile, MaxBlock, MaxEdits   \* bounds

ASSUME FileAssumption ==
    /\ "" \notin Texts /\ MaxIndent \in Nat /\ MaxFile \in Nat /\ MaxBlock \in Nat /\ MaxEdits \in Nat

VARIABLES files,     \* what each path holds, or NoFile
          captured,  \* what the repository's history holds of it
          patch,     \* the update hunk under way: its path and the lines so far
          edits,     \* how many changes there were
          edit       \* history: the last change of lines

fileVars == <<files, captured, patch, edits, edit>>

Blank == [ind |-> 0, txt |-> ""]
FileLines == [ind : 0 .. MaxIndent, txt : Texts] \cup {Blank}
NewLines == BoundedSeq(FileLines, MaxBlock)
NoPatch == [path |-> NoFile, lines |-> <<>>]
NoEdit == [before |-> <<>>, after |-> <<>>, old |-> <<>>, new |-> <<>>, count |-> 0]

FileInit ==
    /\ files = [p \in FilePaths |-> NoFile]
    /\ captured = [p \in FilePaths |-> NoFile]
    /\ patch = NoPatch /\ edits = 0 /\ edit = NoEdit

\* The tools find a workspace with one file in it, whatever it holds.
FirstPath == CHOOSE p \in FilePaths : TRUE
OpenWorkspace ==
    /\ edits = 0 /\ \A p \in FilePaths : files[p] = NoFile
    /\ \E found \in BoundedSeq(FileLines, MaxFile) : files' = [files EXCEPT ![FirstPath] = found]
    /\ UNCHANGED <<captured, patch, edits, edit>>

Changed(before, after, old, new, count) ==
    [before |-> before, after |-> after, old |-> old, new |-> new, count |-> count]

Window(s, i, n) == SubSeq(s, i, i + n - 1)
Starts(s, block) == 1 .. Len(s) - Len(block) + 1
IsBlank(line) == line.txt = ""
Shift(lines, d) ==
    [k \in DOMAIN lines |-> IF IsBlank(lines[k]) THEN lines[k]
                            ELSE [lines[k] EXCEPT !.ind = IF @ + d < 0 THEN 0 ELSE @ + d]]

\* The same texts on the same lines, every indentation off by d.
OffBy(found, block, d) ==
    \A k \in DOMAIN block :
        /\ found[k].txt = block[k].txt
        /\ IsBlank(block[k]) \/ found[k].ind = block[k].ind + d

-----------------------------------------------------------------------------
(***************************************************************************)
(* apply_patch                                                             *)
(***************************************************************************)
\* find_unique_indent_shifted_chunk
ShiftedAt(s, old) ==
    {id \in Starts(s, old) \X (-MaxIndent .. MaxIndent) : OffBy(Window(s, id[1], Len(old)), old, id[2])}

\* Mutant: as many lines are cut out as are put in.
SpliceNew(s, i, old, new) == SubSeq(s, 1, i - 1) \o new \o SubSeq(s, i + Len(new), Len(s))

Splice(s, i, old, new) == SubSeq(s, 1, i - 1) \o new \o SubSeq(s, i + Len(old), Len(s))

\* Where apply_update_change_lines puts a chunk, and shifted by how much: at the
\* first exact match, from the start of the file for every chunk, else at the
\* only match that is indented differently; {} when there is no such place.
Places(s, old) ==
    LET exact == {i \in Starts(s, old) : Window(s, i, Len(old)) = old}
    IN  IF exact # {} THEN {<<Min(exact), 0>>}
        ELSE IF (\E k \in DOMAIN old : ~IsBlank(old[k])) /\ Cardinality(ShiftedAt(s, old)) = 1
        THEN ShiftedAt(s, old)
        ELSE {}

\* An update hunk reads its file.
BeginUpdate ==
    /\ patch = NoPatch /\ edits < MaxEdits
    /\ \E p \in FilePaths : files[p] # NoFile /\ patch' = [path |-> p, lines |-> files[p]]
    /\ UNCHANGED <<files, captured, edits, edit>>

ApplyChunk ==
    /\ patch # NoPatch
    /\ \E old \in NewLines \ {<<>>} : \E place \in Places(patch.lines, old) : \E new \in NewLines :
        LET after == Splice(patch.lines, place[1], old, Shift(new, place[2]))
        IN  /\ old # new /\ Len(after) <= MaxFile /\ ToSet(after) \subseteq FileLines
            /\ patch' = [patch EXCEPT !.lines = after]
            /\ edit' = Changed(patch.lines, after, old, new, 1)
    /\ edits < MaxEdits /\ edits' = edits + 1
    /\ UNCHANGED <<files, captured>>

\* The chunks applied, the file is written; a chunk that found no place leaves
\* the file as the hunks before left it.
WriteUpdate ==
    /\ patch # NoPatch
    /\ files' = [files EXCEPT ![patch.path] = patch.lines]
    /\ patch' = NoPatch
    /\ UNCHANGED <<captured, edits, edit>>

FailUpdate ==
    /\ patch # NoPatch
    /\ \E old \in NewLines : Places(patch.lines, old) = {} \/ old = <<>>
    /\ patch' = NoPatch
    /\ UNCHANGED <<files, captured, edits, edit>>

\* The move of an update hunk, which comes after its write and fails on a path
\* that is taken.
MoveFile ==
    /\ patch = NoPatch /\ edits < MaxEdits /\ edits' = edits + 1
    /\ \E p, q \in FilePaths : /\ files[p] # NoFile /\ files[q] = NoFile
                               /\ files' = [files EXCEPT ![q] = files[p], ![p] = NoFile]
    /\ UNCHANGED <<captured, patch, edit>>

AddFile ==
    /\ patch = NoPatch /\ edits < MaxEdits /\ edits' = edits + 1
    /\ \E p \in FilePaths, new \in NewLines : files[p] = NoFile /\ files' = [files EXCEPT ![p] = new]
    /\ UNCHANGED <<captured, patch, edit>>

DeleteFile ==
    /\ patch = NoPatch /\ edits < MaxEdits /\ edits' = edits + 1
    /\ \E p \in FilePaths : files[p] # NoFile /\ files' = [files EXCEPT ![p] = NoFile]
    /\ UNCHANGED <<captured, patch, edit>>

-----------------------------------------------------------------------------
(***************************************************************************)
(* replace_block and replace_range                                         *)
(***************************************************************************)
\* The pattern is not anchored: its first line matches the end of an indented
\* line as well, and the indentation stays in front of what replaces it.
DirectAt(s, old) ==
    {i \in Starts(s, old) : /\ s[i].txt = old[1].txt /\ s[i].ind >= old[1].ind
                            /\ OffBy(Window(s, i + 1, Len(old) - 1), Tail(old), 0)}

UniformAt(s, old) ==
    {i \in Starts(s, old) : \E d \in 1 .. MaxIndent : OffBy(Window(s, i, Len(old)), old, d)}

\* finditer: from the left, without overlap.
BlockMatches(s, old, at) ==
    LET from[i \in 1 .. Len(s) + Len(old)] ==
            IF i \notin Starts(s, old) THEN <<>>
            ELSE IF i \in at THEN <<i>> \o from[i + Len(old)]
            ELSE from[i + 1]
    IN  from[1]

\* The indentation left in front of a block that was deleted is that of the next line.
Indented(lines, d) ==
    IF lines = <<>> \/ IsBlank(lines[1]) THEN lines ELSE <<[lines[1] EXCEPT !.ind = @ + d]>> \o Tail(lines)

\* Every match is replaced, from the last to the first.
Replaced(s, found, old, new, uniform) ==
    LET done[k \in 0 .. Len(found)] ==
            IF k = 0 THEN s
            ELSE LET i == found[Len(found) + 1 - k]
                     d == s[i].ind - old[1].ind
                     rest == SubSeq(done[k - 1], i + Len(old), Len(done[k - 1]))
                 IN  SubSeq(s, 1, i - 1)
                     \o IF uniform THEN Shift(new, d) \o rest ELSE Indented(new \o rest, d)
    IN  done[Len(found)]

ReplaceBlock ==
    /\ patch = NoPatch /\ edits < MaxEdits /\ edits' = edits + 1
    /\ \E p \in FilePaths, old \in NewLines \ {<<>>}, expected \in 1 .. 2, strict \in BOOLEAN :
        /\ files[p] # NoFile /\ ~IsBlank(old[1])
        /\ LET direct == BlockMatches(files[p], old, DirectAt(files[p], old))
               uniform == direct = <<>> /\ ~strict
               found == IF uniform THEN BlockMatches(files[p], old, UniformAt(files[p], old)) ELSE direct
           IN  /\ Len(found) = expected
               /\ \E new \in NewLines :
                    LET after == Replaced(files[p], found, old, new, uniform)
                    IN  /\ Len(after) <= MaxFile /\ ToSet(after) \subseteq FileLines
                        /\ files' = [files EXCEPT ![p] = after]
                        /\ edit' = Changed(files[p], after, old, new, expected)
    /\ UNCHANGED <<captured, patch>>

\* The first and the last line of the range are compared when the caller gave them.
ReplaceRange ==
    /\ patch = NoPatch /\ edits < MaxEdits /\ edits' = edits + 1
    /\ \E p \in FilePaths, new \in NewLines : \E first \in 1 .. MaxFile : \E last \in first .. MaxFile :
        /\ files[p] # NoFile /\ last <= Len(files[p])
        /\ LET old == SubSeq(files[p], first, last)
               after == Splice(files[p], first, old, new)
           IN  /\ Len(after) <= MaxFile
               /\ files' = [files EXCEPT ![p] = after]
               /\ edit' = Changed(files[p], after, old, new, 1)
    /\ UNCHANGED <<captured, patch>>

-----------------------------------------------------------------------------
\* An existing file is replaced with force, or when the repository has it.
WriteFile ==
    /\ patch = NoPatch /\ edits < MaxEdits /\ edits' = edits + 1
    /\ \E p \in FilePaths, new \in NewLines, force \in BOOLEAN :
        /\ files[p] = NoFile \/ force \/ captured[p] = files[p]
        /\ files' = [files EXCEPT ![p] = new]
    /\ UNCHANGED <<captured, patch, edit>>

AppendFile ==
    /\ patch = NoPatch /\ edits < MaxEdits /\ edits' = edits + 1
    /\ \E p \in FilePaths, new \in NewLines :
        LET before == IF files[p] = NoFile THEN <<>> ELSE files[p]
        IN  /\ Len(before \o new) <= MaxFile
            /\ files' = [files EXCEPT ![p] = before \o new]
            /\ edit' = Changed(before, before \o new, <<>>, new, 1)
    /\ UNCHANGED <<captured, patch>>

\* The operator commits.
Commit ==
    /\ captured # files
    /\ captured' = files
    /\ UNCHANGED <<files, patch, edits, edit>>

FileNext ==
    \/ OpenWorkspace
    \/ BeginUpdate \/ ApplyChunk \/ WriteUpdate \/ FailUpdate \/ MoveFile \/ AddFile \/ DeleteFile
    \/ ReplaceBlock \/ ReplaceRange \/ WriteFile \/ AppendFile \/ Commit

-----------------------------------------------------------------------------
Count(lines, t) == Cardinality({k \in DOMAIN lines : lines[k].txt = t})

\* Whatever a block, a chunk or a range matched, the change takes out of the
\* file the lines it names, as often as it says it does, and puts in the new
\* ones as often; every other line stays.
EditConserves ==
    \A t \in Texts :
        Count(edit.after, t) + edit.count * Count(edit.old, t)
            = Count(edit.before, t) + edit.count * Count(edit.new, t)
=============================================================================

---------------------------- MODULE ShellProofs ----------------------------
(***************************************************************************)
(* Theorems about a streamed shell command, for any number of writes, with *)
(* a timeout or without.                                                   *)
(***************************************************************************)
EXTENDS ShellStream, SequenceTheorems, TLAPS

-----------------------------------------------------------------------------
(* Output that is gathered, split and passed on.                           *)

\* A concatenation holds what its parts hold, each once if they do and share
\* nothing.
LEMMA Concatenated ==
    ASSUME NEW S, NEW s \in Seq(S), NEW t \in Seq(S)
    PROVE  /\ ToSet(s \o t) = ToSet(s) \cup ToSet(t)
           /\ IsInjective(s \o t) <=>
                IsInjective(s) /\ IsInjective(t) /\ ToSet(s) \cap ToSet(t) = {}
<1> DEFINE u == s \o t
<1>1. /\ u \in Seq(S) /\ Len(u) = Len(s) + Len(t)
      /\ Len(s) \in Nat /\ Len(t) \in Nat
      /\ \A i \in 1..Len(s) : u[i] = s[i]
      /\ \A i \in 1..Len(t) : u[Len(s) + i] = t[i]
  OBVIOUS
<1> HIDE DEF u
<1>2. /\ DOMAIN u = 1..Len(u) /\ DOMAIN s = 1..Len(s) /\ DOMAIN t = 1..Len(t)
  BY <1>1
<1>3. \A i \in 1..Len(u) : i \in 1..Len(s) \/ \E j \in 1..Len(t) : i = Len(s) + j
  <2> TAKE i \in 1..Len(u)
  <2>1. CASE i > Len(s)
    <3>1. i - Len(s) \in 1..Len(t) /\ i = Len(s) + (i - Len(s))
      BY <1>1, <2>1
    <3> QED
      BY <3>1
  <2> QED
    BY <1>1, <2>1
<1>8. \A i \in 1..Len(s) : i \in 1..Len(u)
  BY <1>1
<1>9. \A i \in 1..Len(t) : Len(s) + i \in 1..Len(u) /\ Len(s) + i \notin 1..Len(s)
  BY <1>1
<1>4. /\ \A i \in 1..Len(s) : i \in 1..Len(u)
      /\ \A i \in 1..Len(t) : Len(s) + i \in 1..Len(u) /\ Len(s) + i \notin 1..Len(s)
  BY <1>8, <1>9
<1>5. ToSet(u) = ToSet(s) \cup ToSet(t)
  <2>1. ASSUME NEW i \in 1..Len(u) PROVE u[i] \in ToSet(s) \cup ToSet(t)
    BY <1>1, <1>2, <1>3 DEF ToSet
  <2>2. ASSUME NEW i \in 1..Len(s) PROVE s[i] \in ToSet(u)
    BY <1>1, <1>2, <1>4 DEF ToSet
  <2>3. ASSUME NEW i \in 1..Len(t) PROVE t[i] \in ToSet(u)
    <3>1. Len(s) + i \in 1..Len(u) /\ u[Len(s) + i] = t[i]
      BY <1>1, <1>4
    <3> QED
      BY <1>2, <3>1 DEF ToSet
  <2> QED
    BY <1>2, <2>1, <2>2, <2>3 DEF ToSet
<1>6. ASSUME IsInjective(u)
      PROVE  IsInjective(s) /\ IsInjective(t) /\ ToSet(s) \cap ToSet(t) = {}
  <2>1. \A i, j \in 1..Len(u) : u[i] = u[j] => i = j
    BY <1>2, <1>6 DEF IsInjective
  <2>2. IsInjective(s)
    BY <1>1, <1>2, <1>4, <2>1 DEF IsInjective
  <2>3. \A i, j \in 1..Len(t) : t[i] = t[j] => i = j
    <3> TAKE i, j \in 1..Len(t)
    <3>1. u[Len(s) + i] = t[i] /\ u[Len(s) + j] = t[j]
      BY <1>1
    <3>2. t[i] = t[j] => Len(s) + i = Len(s) + j
      BY <1>4, <2>1, <3>1
    <3> QED
      BY <1>1, <3>2
  <2>4. \A i \in 1..Len(s), j \in 1..Len(t) : s[i] # t[j]
    BY <1>1, <1>4, <2>1
  <2> QED
    BY <1>2, <2>2, <2>3, <2>4 DEF IsInjective, ToSet
<1>7. ASSUME IsInjective(s), IsInjective(t), ToSet(s) \cap ToSet(t) = {}
      PROVE  IsInjective(u)
  <2>1. \A i, j \in 1..Len(s) : s[i] = s[j] => i = j
    BY <1>2, <1>7 DEF IsInjective
  <2>2. \A i, j \in 1..Len(t) : t[i] = t[j] => i = j
    BY <1>2, <1>7 DEF IsInjective
  <2>3. \A i \in 1..Len(s), j \in 1..Len(t) : s[i] # t[j]
    BY <1>2, <1>7 DEF ToSet
  <2>4. ASSUME NEW i \in 1..Len(u), NEW j \in 1..Len(u), u[i] = u[j] PROVE i = j
    <3>1. CASE i \in 1..Len(s) /\ j \in 1..Len(s)
      BY <1>1, <2>1, <2>4, <3>1
    <3>2. CASE i \in 1..Len(s) /\ j \notin 1..Len(s)
      BY <1>1, <1>3, <2>3, <2>4, <3>2
    <3>3. CASE i \notin 1..Len(s) /\ j \in 1..Len(s)
      BY <1>1, <1>3, <2>3, <2>4, <3>3
    <3>4. CASE i \notin 1..Len(s) /\ j \notin 1..Len(s)
      <4>1. PICK k \in 1..Len(t) : i = Len(s) + k
        BY <1>3, <3>4
      <4>2. PICK l \in 1..Len(t) : j = Len(s) + l
        BY <1>3, <3>4
      <4> QED
        BY <1>1, <2>2, <2>4, <4>1, <4>2
    <3> QED
      BY <3>1, <3>2, <3>3, <3>4
  <2> QED
    BY <1>2, <2>4 DEF IsInjective
<1> QED
  BY <1>5, <1>6, <1>7 DEF u

\* What a read takes out of the pipe and what it leaves there are the pipe.
LEMMA Taken ==
    ASSUME NEW S, NEW s \in Seq(S), NEW n \in 1..Len(s)
    PROVE  /\ SubSeq(s, 1, n) \in Seq(S) /\ SubSeq(s, n + 1, Len(s)) \in Seq(S)
           /\ SubSeq(s, 1, n) \o SubSeq(s, n + 1, Len(s)) = s
<1> DEFINE a == SubSeq(s, 1, n)
           b == SubSeq(s, n + 1, Len(s))
<1>1. Len(s) \in Nat /\ n \in Nat /\ \A i \in 1..Len(s) : s[i] \in S
  OBVIOUS
<1>4. a \in Seq(S) /\ Len(a) = n /\ \A i \in 1..n : a[i] = s[i]
  BY <1>1
<1>5. /\ b \in Seq(S) /\ Len(b) = Len(s) - n
      /\ \A i \in 1..(Len(s) - n) : b[i] = s[n + i]
  <2>1. /\ n + 1 \in Int /\ Len(s) \in Int /\ Len(s) - (n + 1) + 1 = Len(s) - n
        /\ \A i \in (n + 1) .. Len(s) : s[i] \in S
    BY <1>1
  <2>2. /\ b \in Seq(S) /\ Len(b) = IF n + 1 <= Len(s) THEN Len(s) - (n + 1) + 1 ELSE 0
        /\ \A i \in 1 .. Len(s) - (n + 1) + 1 : b[i] = s[(n + 1) + i - 1]
    BY <2>1, SubSeqProperties
  <2>3. \A i \in 1 .. Len(s) - n : (n + 1) + i - 1 = n + i
    BY <1>1
  <2> HIDE DEF b
  <2>4. Len(b) = Len(s) - n
    BY <1>1, <2>2
  <2>5. \A i \in 1 .. Len(s) - n : b[i] = s[n + i]
    <3> TAKE i \in 1 .. Len(s) - n
    <3>1. b[i] = s[(n + 1) + i - 1]
      BY <2>1, <2>2
    <3> QED
      BY <2>3, <3>1
  <2> QED
    BY <2>2, <2>4, <2>5
<1> HIDE DEF a, b
<1>2. /\ a \o b \in Seq(S) /\ Len(a \o b) = Len(s)
      /\ \A i \in 1..Len(s) : (a \o b)[i] = s[i]
  <2>1. a \o b \in Seq(S) /\ Len(a \o b) = Len(s)
    BY <1>1, <1>4, <1>5
  <2>2. ASSUME NEW i \in 1..Len(s) PROVE (a \o b)[i] = s[i]
    <3>1. CASE i <= n
      BY <1>1, <1>4, <1>5, <3>1
    <3>2. CASE i > n
      <4>1. i - n \in 1..(Len(s) - n) /\ n + (i - n) = i
        BY <1>1, <3>2
      <4>2. (a \o b)[i] = b[i - n]
        BY <1>1, <1>4, <1>5, <3>2
      <4>3. b[i - n] = s[n + (i - n)]
        BY <1>5, <4>1
      <4> QED
        BY <4>1, <4>2, <4>3
    <3>3. i <= n \/ i > n
      BY <1>1
    <3> QED
      BY <3>1, <3>2, <3>3
  <2> QED
    BY <2>1, <2>2
<1>3. a \o b = s
  BY <1>2, SeqEqual
<1> QED
  BY <1>3, <1>4, <1>5 DEF a, b

-----------------------------------------------------------------------------
(* The invariant.  The four places output can be in share none of it; what *)
(* leaves one enters another, until the reader closes the pipe.            *)

Segments == chunks \in Writes /\ pending \in Writes /\ drained \in Writes /\ pipe \in Writes

Once ==
    /\ IsInjective(chunks) /\ IsInjective(pending) /\ IsInjective(drained) /\ IsInjective(pipe)
    /\ ToSet(chunks) \cap ToSet(pending) = {} /\ ToSet(chunks) \cap ToSet(drained) = {}
    /\ ToSet(chunks) \cap ToSet(pipe) = {} /\ ToSet(pending) \cap ToSet(drained) = {}
    /\ ToSet(pending) \cap ToSet(pipe) = {} /\ ToSet(drained) \cap ToSet(pipe) = {}

Out == ToSet(chunks) \cup ToSet(pending) \cup ToSet(drained)

All ==
    /\ Out \cup ToSet(pipe) \subseteq 1 .. wrote
    /\ reader # "closed" => Out \cup ToSet(pipe) = 1 .. wrote

\* What the last select allows to say: up to what it found in vain, or up to
\* the end of the pipe, the output is out of the pipe.
Seen ==
    /\ ~events /\ reader \in {"read", "flush", "check", "close", "closed"} => 1 .. quiet \subseteq Out
    /\ events /\ reader \in {"close", "closed"} => WritersGone /\ 1 .. wrote \subseteq Out
    /\ reader \in {"close", "closed"} => pending = <<>>

Threads ==
    /\ wrote \in 0 .. MaxWrites /\ quiet \in Nat /\ events \in BOOLEAN
    /\ caller = "idle" => reader = "none"
    /\ drained # <<>> => caller = "drain"

SInv == Segments /\ Once /\ All /\ Seen /\ Threads

\* Where there is nothing, nothing is held.
LEMMA Nothing == <<>> \in Writes /\ ToSet(<<>>) = {} /\ IsInjective(<<>>)
<1>1. <<>> \in Writes
  BY DEF Writes
<1>2. DOMAIN <<>> = {}
  OBVIOUS
<1> QED
  BY <1>1, <1>2 DEF ToSet, IsInjective

\* A write at the end of the pipe.
LEMMA Written ==
    ASSUME NEW s \in Writes, NEW x \in 1 .. MaxWrites, x \notin ToSet(s)
    PROVE  /\ Append(s, x) \in Writes /\ ToSet(Append(s, x)) = ToSet(s) \cup {x}
           /\ IsInjective(s) => IsInjective(Append(s, x))
<1>1. <<x>> \in Writes /\ Append(s, x) = s \o <<x>>
  BY DEF Writes
<1>2. ToSet(<<x>>) = {x} /\ IsInjective(<<x>>)
  BY DEF ToSet, IsInjective
<1>3. Append(s, x) \in Writes
  BY DEF Writes
<1> QED
  <2>1. s \in Seq(1 .. MaxWrites) /\ <<x>> \in Seq(1 .. MaxWrites)
    BY <1>1 DEF Writes
  <2>2. /\ ToSet(s \o <<x>>) = ToSet(s) \cup ToSet(<<x>>)
        /\ IsInjective(s \o <<x>>) <=>
             IsInjective(s) /\ IsInjective(<<x>>) /\ ToSet(s) \cap ToSet(<<x>>) = {}
    BY <2>1, Concatenated
  <2> QED
    BY <1>1, <1>2, <1>3, <2>2

\* Gathering and emitting.
LEMMA Joined ==
    ASSUME NEW s \in Writes, NEW t \in Writes
    PROVE  /\ s \o t \in Writes /\ ToSet(s \o t) = ToSet(s) \cup ToSet(t)
           /\ IsInjective(s \o t) <=>
                IsInjective(s) /\ IsInjective(t) /\ ToSet(s) \cap ToSet(t) = {}
<1>1. s \o t \in Writes
  BY DEF Writes
<1> QED
  BY <1>1, Concatenated DEF Writes

\* A step of the command.
LEMMA ChildKeeps == ASSUME SInv, ChildNext PROVE SInv'
<1>1. CASE Write
  <2>1. /\ wrote + 1 \in 1 .. MaxWrites /\ wrote \in Nat /\ ~WritersGone /\ wrote' = wrote + 1
        /\ pipe' = IF reader = "closed" THEN pipe ELSE Append(pipe, wrote + 1)
        /\ UNCHANGED <<child, behind, reader, events, pending, chunks, caller, drained, quiet>>
    BY <1>1, ShellAssumption DEF Write, SInv, Threads
  <2>2. 1 .. wrote' = 1 .. wrote \cup {wrote + 1} /\ wrote + 1 \notin 1 .. wrote
    BY <2>1
  <2>3. /\ wrote + 1 \notin ToSet(chunks) /\ wrote + 1 \notin ToSet(pending)
        /\ wrote + 1 \notin ToSet(drained) /\ wrote + 1 \notin ToSet(pipe)
    BY <2>2 DEF SInv, All, Out
  <2>4. /\ Append(pipe, wrote + 1) \in Writes
        /\ ToSet(Append(pipe, wrote + 1)) = ToSet(pipe) \cup {wrote + 1}
        /\ IsInjective(Append(pipe, wrote + 1))
    BY <2>1, <2>3, Written DEF SInv, Segments, Once
  <2>5. Segments'
    BY <2>1, <2>4 DEF SInv, Segments
  <2>6. Once'
    BY <2>1, <2>3, <2>4 DEF SInv, Once
  <2>7. All'
    BY <2>1, <2>2, <2>4 DEF SInv, All, Out
  <2>8. Seen'
    BY <2>1 DEF SInv, Seen, Out
  <2>9. Threads'
    BY <2>1 DEF SInv, Threads
  <2> QED
    BY <2>5, <2>6, <2>7, <2>8, <2>9 DEF SInv
<1>2. CASE LeaveBehind \/ BehindEnds \/ Exit
  <2>1. /\ UNCHANGED <<wrote, pipe, reader, events, pending, chunks, caller, drained, quiet>>
        /\ WritersGone => WritersGone'
    BY <1>2 DEF LeaveBehind, BehindEnds, Exit, WritersGone
  <2> QED
    BY <2>1 DEF SInv, Segments, Once, All, Seen, Out, Threads
<1> QED
  BY <1>1, <1>2 DEF ChildNext

\* What was gathered is emitted, the reader goes on or ends.
LEMMA EmitKeeps ==
    ASSUME SInv, chunks' = chunks \o pending, pending' = <<>>,
           UNCHANGED <<child, behind, wrote, pipe, events, caller, drained, result, quiet>>,
           \/ reader = "flush" /\ reader' = "check"
           \/ reader = "read" /\ reader' = "close" /\ events /\ pipe = <<>> /\ WritersGone
    PROVE  SInv'
<1>1. /\ chunks' \in Writes /\ ToSet(chunks') = ToSet(chunks) \cup ToSet(pending)
      /\ IsInjective(chunks')
  BY Joined DEF SInv, Segments, Once
<1>2. pending' \in Writes /\ ToSet(pending') = {} /\ IsInjective(pending')
  BY Nothing
<1>3. Segments' /\ Once'
  BY <1>1, <1>2 DEF SInv, Segments, Once
<1>4. Out' = Out
  BY <1>1, <1>2 DEF Out
<1>5. All'
  BY <1>4 DEF SInv, All
<1>6. reader = "read" => 1 .. wrote \subseteq Out
  BY Nothing DEF SInv, All
<1>7. Seen'
  BY <1>4, <1>6 DEF SInv, Seen, WritersGone
<1>8. Threads'
  BY DEF SInv, Threads
<1> QED
  BY <1>3, <1>5, <1>7, <1>8 DEF SInv

\* A step of the reader thread.
LEMMA ReaderKeeps == ASSUME SInv, ReaderNext PROVE SInv'
<1>1. CASE Select
  <2>1. /\ UNCHANGED <<child, behind, wrote, pipe, pending, chunks, caller, drained>>
        /\ reader = "select" /\ reader' = "read"
        /\ events' = (pipe # <<>> \/ WritersGone)
        /\ quiet' = IF events' THEN quiet ELSE wrote
    BY <1>1 DEF Select
  <2>2. ~events' => 1 .. quiet' \subseteq Out
    BY <2>1, Nothing DEF SInv, All
  <2>3. Out' = Out
    BY <2>1 DEF Out
  <2>4. Seen'
    BY <2>1, <2>2, <2>3 DEF Seen
  <2> QED
    BY <2>1, <2>3, <2>4 DEF SInv, Segments, Once, All, Threads
<1>2. CASE ReadSome
  <2>1. /\ UNCHANGED <<child, behind, wrote, events, chunks, caller, drained, quiet>>
        /\ reader = "read" /\ reader' = "flush" /\ events
    BY <1>2 DEF ReadSome
  <2>2. PICK n \in 1 .. Len(pipe) : /\ pending' = pending \o SubSeq(pipe, 1, n)
                                    /\ pipe' = SubSeq(pipe, n + 1, Len(pipe))
    BY <1>2 DEF ReadSome
  <2> DEFINE a == SubSeq(pipe, 1, n)
  <2>3. a \in Writes /\ pipe' \in Writes /\ a \o pipe' = pipe
    BY <2>2, Taken DEF SInv, Segments, Writes
  <2> HIDE DEF a
  <2>4. /\ ToSet(pipe) = ToSet(a) \cup ToSet(pipe') /\ ToSet(a) \cap ToSet(pipe') = {}
        /\ IsInjective(a) /\ IsInjective(pipe')
    BY <2>3, Joined DEF SInv, Once
  <2>5. pending' = pending \o a
    BY <2>2 DEF a
  <2>6. /\ pending' \in Writes /\ ToSet(pending') = ToSet(pending) \cup ToSet(a)
        /\ IsInjective(pending')
    BY <2>3, <2>4, <2>5, Joined DEF SInv, Segments, Once
  <2>7. Segments' /\ Once'
    BY <2>1, <2>3, <2>4, <2>6 DEF SInv, Segments, Once
  <2>8. All'
    BY <2>1, <2>4, <2>6 DEF SInv, All, Out
  <2>9. Seen' /\ Threads'
    BY <2>1 DEF SInv, Seen, Threads
  <2> QED
    BY <2>7, <2>8, <2>9 DEF SInv
<1>3. CASE ReadEnd \/ Flush
  BY <1>3, EmitKeeps DEF ReadEnd, Flush
<1>4. CASE ReadNothing \/ FlushLater
  BY <1>4 DEF ReadNothing, FlushLater, SInv, Segments, Once, All, Seen, Out, Threads, WritersGone
<1>5. CASE CheckExit
  BY <1>5 DEF CheckExit, ShouldExit, SInv, Segments, Once, All, Seen, Out, Threads, WritersGone
<1>6. CASE CloseReader
  <2>1. /\ UNCHANGED <<child, behind, wrote, events, pending, chunks, caller, drained, quiet>>
        /\ reader = "close" /\ reader' = "closed" /\ pipe' = <<>>
    BY <1>6 DEF CloseReader
  <2>2. pipe' \in Writes /\ ToSet(pipe') = {} /\ IsInjective(pipe')
    BY <2>1, Nothing
  <2>3. Segments' /\ Once'
    BY <2>1, <2>2 DEF SInv, Segments, Once
  <2>4. All' /\ Seen' /\ Threads'
    BY <2>1, <2>2 DEF SInv, All, Seen, Out, Threads, WritersGone
  <2> QED
    BY <2>3, <2>4 DEF SInv
<1> QED
  BY <1>1, <1>2, <1>3, <1>4, <1>5, <1>6 DEF ReaderNext

\* A step of the calling thread.
LEMMA CallerKeeps == ASSUME SInv, Popen \/ CallerNext PROVE SInv'
<1>1. CASE Popen
  BY <1>1 DEF Popen, SInv, Segments, Once, All, Seen, Out, Threads
<1>2. CASE Wait \/ TimeOut \/ Join \/ Collect
  <2>1. /\ UNCHANGED <<behind, wrote, pipe, reader, events, pending, chunks, drained, quiet>>
        /\ WritersGone => WritersGone'
        /\ caller \notin {"idle", "drain"} /\ caller' # "idle"
    BY <1>2 DEF Wait, TimeOut, Join, Collect, WritersGone
  <2> QED
    BY <2>1 DEF SInv, Segments, Once, All, Seen, Out, Threads
<1>3. CASE JoinTimeOut
  <2>1. /\ UNCHANGED <<child, behind, wrote, reader, events, pending, chunks, quiet>>
        /\ caller = "join" /\ caller' = "drain" /\ drained' = pipe /\ pipe' = <<>>
    BY <1>3 DEF JoinTimeOut
  <2>2. pipe' \in Writes /\ ToSet(pipe') = {} /\ IsInjective(pipe')
    BY <2>1, Nothing
  <2>3. ToSet(drained) = {}
    BY <2>1, Nothing DEF SInv, Threads
  <2>4. Segments' /\ Once'
    BY <2>1, <2>2 DEF SInv, Segments, Once
  <2>5. Out' = Out \cup ToSet(pipe)
    BY <2>1, <2>3 DEF Out
  <2>6. All' /\ Seen' /\ Threads'
    BY <2>1, <2>2, <2>5 DEF SInv, All, Seen, Threads, WritersGone
  <2> QED
    BY <2>4, <2>6 DEF SInv
<1>4. CASE Drain
  <2>1. /\ UNCHANGED <<child, behind, wrote, pipe, reader, events, pending, quiet>>
        /\ caller = "drain" /\ caller' = "collect"
        /\ chunks' = chunks \o drained /\ drained' = <<>>
    BY <1>4 DEF Drain
  <2>2. drained' \in Writes /\ ToSet(drained') = {} /\ IsInjective(drained')
    BY <2>1, Nothing
  <2>3. /\ chunks' \in Writes /\ ToSet(chunks') = ToSet(chunks) \cup ToSet(drained)
        /\ IsInjective(chunks')
    BY <2>1, Joined DEF SInv, Segments, Once
  <2>4. Segments' /\ Once'
    BY <2>1, <2>2, <2>3 DEF SInv, Segments, Once
  <2>5. Out' = Out
    BY <2>1, <2>2, <2>3 DEF Out
  <2>6. All' /\ Seen' /\ Threads'
    BY <2>1, <2>5 DEF SInv, All, Seen, Threads, WritersGone
  <2> QED
    BY <2>4, <2>6 DEF SInv
<1> QED
  BY <1>1, <1>2, <1>3, <1>4 DEF CallerNext

\* While two threads take output from one pipe, nothing is taken or emitted
\* twice and nothing disappears before the reader closes the pipe; a reader that
\* is done has emitted what there was when it last found nothing, and everything
\* if it saw the end.  For any output, and a process left behind or not.
THEOREM OutputAlwaysConserved == ShellSpec => []OutputConserved
<1>1. ASSUME ShellInit PROVE SInv
  <2>1. Segments /\ Once /\ Out \cup ToSet(pipe) = {} /\ wrote = 0 /\ reader = "none"
    BY <1>1, Nothing DEF ShellInit, Segments, Once, Out
  <2>2. Threads
    <3>1. wrote = 0 /\ quiet = 0 /\ events = FALSE /\ reader = "none" /\ drained = <<>>
      BY <1>1 DEF ShellInit
    <3>2. 0 \in 0 .. MaxWrites /\ 0 \in Nat
      BY ShellAssumption
    <3> QED
      BY <3>1, <3>2 DEF Threads
  <2>3. 1 .. 0 = {}
    OBVIOUS
  <2>4. All
    BY <2>1, <2>3 DEF All
  <2>5. Seen
    BY <2>1 DEF Seen
  <2> QED
    BY <2>1, <2>2, <2>4, <2>5 DEF SInv
<1>2. SInv /\ [ShellNext]_shellVars => SInv'
  <2>1. CASE UNCHANGED shellVars
    BY <2>1 DEF shellVars, SInv, Segments, Once, All, Seen, Out, Threads, WritersGone
  <2> QED
    BY <2>1, ChildKeeps, ReaderKeeps, CallerKeeps DEF ShellNext
<1>3. ASSUME SInv PROVE OutputConserved
  <2> DEFINE held == chunks \o pending \o drained \o pipe
             two == chunks \o pending
             three == two \o drained
  <2>1. Segments /\ Once
    BY <1>3 DEF SInv
  <2>2. /\ two \in Writes /\ ToSet(two) = ToSet(chunks) \cup ToSet(pending)
        /\ IsInjective(two)
    BY <2>1, Joined DEF Segments, Once
  <2> HIDE DEF two
  <2>3. /\ three \in Writes /\ ToSet(three) = Out /\ IsInjective(three)
    BY <2>1, <2>2, Joined DEF Segments, Once, Out
  <2>4. held = three \o pipe
    BY DEF two
  <2> HIDE DEF three, held
  <2>5. IsInjective(held) /\ ToSet(held) = Out \cup ToSet(pipe)
    BY <2>1, <2>3, <2>4, Joined DEF Segments, Once, Out
  <2>6. reader \notin {"close", "closed"} => ToSet(held) = 1 .. wrote
    BY <1>3, <2>5 DEF SInv, All
  <2>7. reader \in {"close", "closed"} /\ drained = <<>> =>
           1 .. (IF events THEN wrote ELSE quiet) \subseteq ToSet(chunks)
    BY <1>3, Nothing DEF SInv, Seen, Out, Threads
  <2> QED
    BY <2>5, <2>6, <2>7 DEF OutputConserved, held
<1> QED
  BY <1>1, <1>2, <1>3, PTL DEF ShellSpec

=============================================================================

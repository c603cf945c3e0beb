-------------------------- MODULE TranscriptProofs --------------------------
(* Calls run in order: over any number of steps, crashes and edits, no     *)
(* recovery of a failed plan skips a call.                                 *)
EXTENDS TranscriptStep, SequenceTheorems, TLAPS

(* That the plans are in order when they come in is not inductive: what a  *)
(* recovery leaves of a plan may start with an edit.  It may do so once a  *)
(* shell call has succeeded, and only such texts are in the files, in what *)
(* was printed and in what the step under way has read and will print.     *)
(* The messages of the journal are never executed from, so nothing is      *)
(* needed of them.                                                         *)

Roles == {"user", "assistant", "control"}
Outcome == {"ok", "exit", "error", "blocked"}
Entries == [call : Calls, outcome : Outcome]

\* Among the executed calls r, a shell call succeeded.
Shelled(r) == \E j \in DOMAIN r : r[j].call = "shell" /\ r[j].outcome = "ok"

RanInOrder(r) ==
    \A i \in DOMAIN r : r[i].call = "edit" =>
      \E j \in 1 .. i - 1 : r[j].call = "shell" /\ r[j].outcome = "ok"

Ready(r, t) == t \in Texts /\ (Shelled(r) \/ InOrder(t.calls \o t.rest))

ReadyTurns(r) == {t \in [role : Roles, text : Texts] : Ready(r, t.text)}

\* s has the fields of a step.
IsStep(s) ==
    s = [phase |-> s.phase, file |-> s.file, control |-> s.control, nodes |-> s.nodes,
         new |-> s.new, parent |-> s.parent, rewrite |-> s.rewrite, drift |-> s.drift,
         force |-> s.force, out |-> s.out, shown |-> s.shown, ids |-> s.ids,
         todo |-> s.todo, base |-> s.base]

StepInv ==
    \/ step = Idle
    \/ /\ IsStep(step) /\ step.file \in Files
       /\ step.nodes \in Seq(ReadyTurns(ran))
       /\ step.shown \in Seq(ReadyTurns(ran))

OrderInv ==
    /\ ran \in Seq(Entries) /\ RanInOrder(ran)
    /\ files \in [Files -> {NoFile} \cup Seq(ReadyTurns(ran))]
    /\ output \in Seq(ReadyTurns(ran))
    /\ StepInv

-----------------------------------------------------------------------------
(* Orders.                                                                 *)

\* A staged remainder: what is left of s from the k-th call on, when no shell
\* call stands before it.
LEMMA RestInOrder ==
    ASSUME NEW s \in Seq(Calls), InOrder(s), NEW k \in 1 .. Len(s) + 1,
           \A j \in 1 .. k - 1 : s[j] # "shell",
           NEW t \in Seq(Calls), Len(t) <= Len(s) - k + 1,
           \A i \in 1 .. Len(t) : t[i] = s[k + i - 1]
    PROVE  InOrder(t)
<1>1. DOMAIN t = 1 .. Len(t) /\ DOMAIN s = 1 .. Len(s) /\ Len(s) \in Nat /\ Len(t) \in Nat
  OBVIOUS
<1> SUFFICES ASSUME NEW i \in 1 .. Len(t), t[i] = "edit"
             PROVE  \E j \in 1 .. i - 1 : t[j] = "shell"
  BY <1>1 DEF InOrder
<1>2. k + i - 1 \in 1 .. Len(s) /\ s[k + i - 1] = "edit"
  BY <1>1
<1>3. PICK j \in 1 .. (k + i - 1) - 1 : s[j] = "shell"
  BY <1>1, <1>2 DEF InOrder
<1>4. j >= k
  <2>1. j \in Int /\ k \in Int /\ j >= 1
    BY <1>3
  <2>2. ~ (j \in 1 .. k - 1)
    BY <1>3
  <2> QED
    BY <2>1, <2>2
<1>5. j - k + 1 \in 1 .. i - 1 /\ t[j - k + 1] = s[j]
  BY <1>1, <1>3, <1>4
<1> QED
  BY <1>3, <1>5

\* The calls of a plan are in order with and without its remainder.
LEMMA CallsAlone ==
    ASSUME NEW calls \in Seq(Calls), NEW rest \in Seq(Calls), InOrder(calls \o rest)
    PROVE  InOrder(calls) /\ InOrder(calls \o <<>>)
<1>1. /\ DOMAIN calls = 1 .. Len(calls)
      /\ \A i \in 1 .. Len(calls) : (calls \o rest)[i] = calls[i]
      /\ 1 .. Len(calls) \subseteq DOMAIN (calls \o rest)
  OBVIOUS
<1>2. InOrder(calls)
  BY <1>1 DEF InOrder
<1> QED
  BY <1>2

\* A text without calls is ready at any time.
LEMMA SayReady ==
    ASSUME NEW r, NEW tag \in Tags, NEW cmds \in Seq(STRING)
    PROVE  Ready(r, Say(tag)) /\ Ready(r, Typed(cmds))
<1>1. InOrder(<<>> \o <<>>)
  BY DEF InOrder
<1>2. Say(tag) \in Texts /\ Typed(cmds) \in Texts
  <2>1. /\ Say(tag) = [tag |-> tag, cmds |-> <<>>, calls |-> <<>>, rest |-> <<>>]
        /\ Typed(cmds) = [tag |-> "command", cmds |-> cmds, calls |-> <<>>, rest |-> <<>>]
    BY DEF Say, Typed
  <2>2. <<>> \in Seq(STRING) /\ <<>> \in Seq(Calls)
    BY EmptySeq
  <2>0. "command" \in Tags
    BY DEF Tags
  <2>3. \A c \in Seq(STRING), g \in Tags :
          [tag |-> g, cmds |-> c, calls |-> <<>>, rest |-> <<>>] \in Texts
    BY <2>2 DEF Texts
  <2> QED
    BY <2>0, <2>1, <2>2, <2>3
<1>3. /\ Say(tag).calls = <<>> /\ Say(tag).rest = <<>>
      /\ Typed(cmds).calls = <<>> /\ Typed(cmds).rest = <<>>
  BY DEF Say, Typed
<1> QED
  BY <1>1, <1>2, <1>3 DEF Ready

\* What is ready stays ready as more is executed.
LEMMA ReadyStays ==
    ASSUME NEW r \in Seq(Entries), NEW e \in Seq(Entries)
    PROVE  /\ Shelled(r) => Shelled(r \o e)
           /\ ReadyTurns(r) \subseteq ReadyTurns(r \o e)
           /\ Seq(ReadyTurns(r)) \subseteq Seq(ReadyTurns(r \o e))
<1>1. \A j \in DOMAIN r : j \in DOMAIN (r \o e) /\ (r \o e)[j] = r[j]
  OBVIOUS
<1>2. Shelled(r) => Shelled(r \o e)
  BY <1>1 DEF Shelled
<1>3. ReadyTurns(r) \subseteq ReadyTurns(r \o e)
  BY <1>2 DEF ReadyTurns, Ready
<1>4. Seq(ReadyTurns(r)) \subseteq Seq(ReadyTurns(r \o e))
  BY <1>3
<1> QED
  BY <1>2, <1>3, <1>4

-----------------------------------------------------------------------------
(* Plans.  The first n calls of a plan were executed, all but perhaps the  *)
(* last one with success.                                                  *)

Ran(calls, o, n) == [i \in 1 .. n |-> [call |-> calls[i], outcome |-> o[i]]]

LEMMA RanTyped ==
    ASSUME NEW calls \in Seq(Calls), NEW n \in 1 .. Len(calls), NEW o \in [1 .. n -> Outcome]
    PROVE  Ran(calls, o, n) \in Seq(Entries) /\ Len(Ran(calls, o, n)) = n
<1>1. n \in Nat /\ \A i \in 1 .. n : calls[i] \in Calls /\ o[i] \in Outcome
  OBVIOUS
<1>2. \A i \in 1 .. n : [call |-> calls[i], outcome |-> o[i]] \in Entries
  BY <1>1 DEF Entries
<1> QED
  BY <1>1, <1>2 DEF Ran

\* What is executed of a plan that is ready is executed in order.
LEMMA PlanRunsInOrder ==
    ASSUME NEW r \in Seq(Entries), RanInOrder(r),
           NEW calls \in Seq(Calls), NEW rest \in Seq(Calls),
           Shelled(r) \/ InOrder(calls \o rest),
           NEW n \in 1 .. Len(calls), NEW o \in [1 .. n -> Outcome],
           \A i \in 1 .. n - 1 : o[i] = "ok"
    PROVE  RanInOrder(r \o Ran(calls, o, n))
<1> DEFINE e == Ran(calls, o, n)
           s == r \o e
<1>1. /\ e \in Seq(Entries) /\ Len(e) = n
      /\ \A i \in 1 .. n : e[i].call = calls[i] /\ e[i].outcome = o[i]
  BY RanTyped DEF Ran
<1> HIDE DEF e
<1>2. /\ Len(s) = Len(r) + n /\ DOMAIN s = 1 .. Len(r) + n /\ Len(r) \in Nat /\ n \in Nat
      /\ \A i \in 1 .. Len(r) : s[i] = r[i]
      /\ \A i \in 1 .. n : s[Len(r) + i] = e[i]
  BY <1>1
<1> HIDE DEF s
<1> SUFFICES ASSUME NEW i \in 1 .. Len(r) + n, s[i].call = "edit"
             PROVE  \E j \in 1 .. i - 1 : s[j].call = "shell" /\ s[j].outcome = "ok"
  BY <1>2 DEF RanInOrder, s, e
<1>3. CASE i <= Len(r)
  <2>1. i \in DOMAIN r /\ r[i].call = "edit"
    BY <1>2, <1>3
  <2>2. PICK j \in 1 .. i - 1 : r[j].call = "shell" /\ r[j].outcome = "ok"
    BY <2>1 DEF RanInOrder
  <2>3. s[j] = r[j]
    BY <1>2, <1>3, <2>2
  <2> QED
    BY <2>2, <2>3
<1>4. CASE i > Len(r) /\ Shelled(r)
  <2>1. PICK j \in 1 .. Len(r) : r[j].call = "shell" /\ r[j].outcome = "ok"
    BY <1>4 DEF Shelled
  <2>2. s[j] = r[j] /\ j \in 1 .. i - 1
    BY <1>2, <1>4, <2>1
  <2> QED
    BY <2>1, <2>2
<1>5. CASE i > Len(r) /\ InOrder(calls \o rest)
  <2> DEFINE k == i - Len(r)
  <2>1. k \in 1 .. n /\ s[i] = e[k] /\ calls[k] = "edit"
    <3>1. k \in 1 .. n /\ i = Len(r) + k
      BY <1>2, <1>5
    <3>2. s[i] = e[k]
      BY <1>2, <3>1
    <3> QED
      BY <1>1, <3>1, <3>2
  <2>2. /\ (calls \o rest)[k] = "edit" /\ k \in DOMAIN (calls \o rest)
        /\ \A j \in 1 .. k - 1 : (calls \o rest)[j] = calls[j]
    BY <2>1
  <2>3. PICK j \in 1 .. k - 1 : calls[j] = "shell"
    BY <1>5, <2>2 DEF InOrder
  <2>4. j \in 1 .. n - 1 /\ j \in 1 .. n
    BY <1>2, <2>1, <2>3
  <2>5. s[Len(r) + j].call = "shell" /\ s[Len(r) + j].outcome = "ok"
    BY <1>1, <1>2, <2>3, <2>4
  <2>6. Len(r) + j \in 1 .. i - 1
    BY <1>2, <2>1, <2>3
  <2> QED
    BY <2>5, <2>6
<1> QED
  BY <1>2, <1>3, <1>4, <1>5

\* As long as no shell call has succeeded, none stands before the last call
\* that was executed, nor is it one if it succeeded.
LEMMA NoShellBefore ==
    ASSUME NEW r \in Seq(Entries), NEW calls \in Seq(Calls),
           NEW n \in 1 .. Len(calls), NEW o \in [1 .. n -> Outcome],
           \A i \in 1 .. n - 1 : o[i] = "ok",
           ~ Shelled(r \o Ran(calls, o, n))
    PROVE  \A j \in 1 .. n : calls[j] = "shell" => j = n /\ o[n] # "ok"
<1> DEFINE e == Ran(calls, o, n)
<1>1. /\ e \in Seq(Entries) /\ Len(e) = n
      /\ \A i \in 1 .. n : e[i].call = calls[i] /\ e[i].outcome = o[i]
  BY RanTyped DEF Ran
<1>2. ~ Shelled(r \o e)
  OBVIOUS
<1> HIDE DEF e
<1> SUFFICES ASSUME NEW j \in 1 .. n, calls[j] = "shell", o[j] = "ok"
             PROVE  FALSE
  OBVIOUS
<1>3. (r \o e)[Len(r) + j] = e[j] /\ Len(r) + j \in DOMAIN (r \o e)
  BY <1>1
<1> QED
  BY <1>1, <1>2, <1>3 DEF Shelled

-----------------------------------------------------------------------------
(* Recoveries.                                                             *)

LEMMA PlanIsText ==
    ASSUME NEW calls \in Seq(Calls), NEW rest \in Seq(Calls)
    PROVE  /\ Plan(calls, rest) \in Texts
           /\ Plan(calls, rest).calls = calls /\ Plan(calls, rest).rest = rest
<1>1. Plan(calls, rest) = [tag |-> "plan", cmds |-> <<>>, calls |-> calls, rest |-> rest]
  <2>1. Say("plan") = [tag |-> "plan", cmds |-> <<>>, calls |-> <<>>, rest |-> <<>>]
    BY DEF Say
  <2>2. [Say("plan") EXCEPT !.calls = calls]
          = [tag |-> "plan", cmds |-> <<>>, calls |-> calls, rest |-> <<>>]
    BY <2>1
  <2>3. Plan(calls, rest) = [[Say("plan") EXCEPT !.calls = calls] EXCEPT !.rest = rest]
    BY DEF Plan
  <2> QED
    BY <2>2, <2>3
<1>2. "plan" \in Tags
  BY DEF Tags
<1>3. <<>> \in Seq(STRING)
  BY EmptySeq
<1> QED
  BY <1>1, <1>2, <1>3 DEF Texts

\* Every plan a recovery offers is ready: the failed call with the calls after
\* it or with the staged remainder, the remainder alone after a success, and
\* the whole plan again.
LEMMA RecoveryReady ==
    ASSUME NEW r \in Seq(Entries),
           NEW calls \in Seq(Calls), NEW rest \in Seq(Calls),
           Shelled(r) \/ InOrder(calls \o rest),
           NEW n \in 1 .. Len(calls), NEW o \in [1 .. n -> Outcome],
           \A i \in 1 .. n - 1 : o[i] = "ok"
    PROVE  LET s == r \o Ran(calls, o, n)
               left == SubSeq(calls, n + 1, Len(calls))
           IN  /\ left \in Seq(Calls) /\ <<calls[n]>> \in Seq(Calls)
               /\ Ready(s, Plan(<<calls[n]>>, left))
               /\ Len(calls) = 1 => Ready(s, Plan(<<calls[n]>>, rest))
               /\ n = Len(calls) /\ o[n] = "ok" => Ready(s, Plan(rest, <<>>))
               /\ Ready(s, Plan(calls, <<>>))
<1> DEFINE s == r \o Ran(calls, o, n)
           left == SubSeq(calls, n + 1, Len(calls))
<1>1. /\ n \in Nat /\ Len(calls) \in Nat /\ n <= Len(calls) /\ n >= 1
      /\ left \in Seq(Calls) /\ Len(left) = Len(calls) - n
      /\ \A i \in 1 .. Len(left) : left[i] = calls[n + i]
  OBVIOUS
<1> HIDE DEF left
<1>2. <<calls[n]>> \in Seq(Calls)
  OBVIOUS
<1>3. <<>> \in Seq(Calls)
  BY EmptySeq
<1> DEFINE Needs(t, u) == ~ Shelled(s) => InOrder(t \o u)
<1>4. ASSUME NEW t \in Seq(Calls), NEW u \in Seq(Calls), Needs(t, u)
      PROVE  Ready(s, Plan(t, u))
  BY <1>4, PlanIsText DEF Ready
<1>5. ~ Shelled(s) =>
        /\ InOrder(calls \o rest)
        /\ \A j \in 1 .. n : calls[j] = "shell" => j = n /\ o[n] # "ok"
  <2>1. Ran(calls, o, n) \in Seq(Entries)
    BY RanTyped
  <2>2. Shelled(r) => Shelled(s)
    BY <2>1, ReadyStays
  <2>3. ~ Shelled(s) => \A j \in 1 .. n : calls[j] = "shell" => j = n /\ o[n] # "ok"
    BY NoShellBefore
  <2> QED
    BY <2>2, <2>3
<1> HIDE DEF s
<1>6. Needs(<<calls[n]>>, left)
  <2> SUFFICES ASSUME ~ Shelled(s) PROVE InOrder(<<calls[n]>> \o left)
    OBVIOUS
  <2> DEFINE t == <<calls[n]>> \o left
  <2>1. InOrder(calls)
    BY <1>5, CallsAlone
  <2>2. t \in Seq(Calls) /\ Len(t) = Len(calls) - n + 1
    <3> DEFINE one == <<calls[n]>>
    <3>1. one \in Seq(Calls) /\ Len(one) = 1
      BY <1>2
    <3> HIDE DEF one
    <3>2. one \o left \in Seq(Calls) /\ Len(one \o left) = Len(one) + Len(left)
      BY <1>1, <3>1, ConcatProperties
    <3> QED
      BY <1>1, <3>1, <3>2 DEF one
  <2>3. \A i \in 1 .. Len(t) : t[i] = calls[n + i - 1]
    <3> SUFFICES ASSUME NEW i \in 1 .. Len(t) PROVE t[i] = calls[n + i - 1]
      OBVIOUS
    <3>1. CASE i = 1
      BY <1>1, <1>2, <3>1
    <3>2. CASE i > 1
      <4>1. i - 1 \in 1 .. Len(left) /\ t[i] = left[i - 1]
        BY <1>1, <1>2, <2>2, <3>2
      <4>2. left[i - 1] = calls[n + (i - 1)]
        BY <1>1, <4>1
      <4>3. n + (i - 1) = n + i - 1
        BY <1>1, <2>2
      <4> QED
        BY <4>1, <4>2, <4>3
    <3> QED
      BY <2>2, <3>1, <3>2
  <2>4. n \in 1 .. Len(calls) + 1 /\ \A j \in 1 .. n - 1 : calls[j] # "shell"
    BY <1>1, <1>5
  <2> HIDE DEF t
  <2>6. Len(t) <= Len(calls) - n + 1
    BY <1>1, <2>2
  <2>5. InOrder(t)
    BY <2>1, <2>2, <2>3, <2>4, <2>6, RestInOrder
  <2> QED
    BY <2>5 DEF t
<1>7. ASSUME Len(calls) = 1 PROVE Needs(<<calls[n]>>, rest)
  <2>1. calls = <<calls[n]>>
    BY <1>1, <1>7
  <2> QED
    BY <1>5, <2>1
<1>8. ASSUME n = Len(calls), o[n] = "ok" PROVE Needs(rest, <<>>)
  <2> SUFFICES ASSUME ~ Shelled(s) PROVE InOrder(rest \o <<>>)
    OBVIOUS
  <2> DEFINE w == calls \o rest
  <2>1. /\ w \in Seq(Calls) /\ Len(w) = n + Len(rest) /\ Len(rest) \in Nat
        /\ \A i \in 1 .. n : w[i] = calls[i]
        /\ \A i \in 1 .. Len(rest) : w[n + i] = rest[i]
    BY <1>1, <1>8
  <2>2. InOrder(w)
    BY <1>5
  <2> HIDE DEF w
  <2>3. n + 1 \in 1 .. Len(w) + 1 /\ \A j \in 1 .. (n + 1) - 1 : w[j] # "shell"
    BY <1>1, <1>5, <1>8, <2>1
  <2>4. /\ Len(rest) <= Len(w) - (n + 1) + 1
        /\ \A i \in 1 .. Len(rest) : rest[i] = w[(n + 1) + i - 1]
    BY <1>1, <2>1
  <2>5. InOrder(rest)
    BY <1>1, <2>1, <2>2, <2>3, <2>4, RestInOrder
  <2>6. rest \o <<>> = rest
    OBVIOUS
  <2> QED
    BY <2>5, <2>6
<1>9. Needs(calls, <<>>)
  BY <1>5, CallsAlone
<1> HIDE DEF Needs
<1> QED
  BY <1>1, <1>2, <1>3, <1>4, <1>6, <1>7, <1>8, <1>9 DEF s, left

-----------------------------------------------------------------------------
(* Consequences.  LegalOut is what has to be known of those of a step: the *)
(* calls among them were made in order, and what they look like in a       *)
(* transcript is ready.                                                    *)

LegalOut(r, out) ==
    /\ Executed(out) \in Seq(Entries)
    /\ RanInOrder(r \o Executed(out))
    /\ Projection(out) \in Seq(ReadyTurns(r \o Executed(out)))

Fits(r, x) ==
    IF IsResult(x) THEN x.lane \in Roles ELSE x.role \in Roles /\ Ready(r, x.text)

LEMMA ShownReady ==
    ASSUME NEW r, NEW out, NEW m \in Nat, DOMAIN out = 1 .. m,
           \A i \in 1 .. m : Fits(r, out[i])
    PROVE  Projection(out) \in Seq(ReadyTurns(r))
<1>1. ASSUME NEW role \in Roles, NEW t \in Texts, Ready(r, t)
      PROVE  Turn(role, t) \in ReadyTurns(r)
  BY <1>1 DEF Turn, ReadyTurns
<1>2. /\ Say("digest") \in Texts /\ Ready(r, Say("digest"))
      /\ Say("result") \in Texts /\ Ready(r, Say("result"))
  <2>1. "digest" \in Tags /\ "result" \in Tags
    BY DEF Tags
  <2>2. <<>> \in Seq(STRING)
    BY EmptySeq
  <2>3. Ready(r, Say("digest")) /\ Ready(r, Say("result"))
    BY <2>1, <2>2, SayReady
  <2> QED
    BY <2>3 DEF Ready
<1>3. ASSUME NEW i \in 1 .. m PROVE Rendered(out[i]) \in ReadyTurns(r)
  <2> DEFINE x == out[i]
  <2>1. Fits(r, x)
    OBVIOUS
  <2> HIDE DEF x
  <2>2. ASSUME IsResult(x) PROVE Rendered(x) \in ReadyTurns(r)
    <3>1. x.lane \in Roles /\ "assistant" \in Roles
      BY <2>1, <2>2 DEF Fits, Roles
    <3>2. \/ Rendered(x) = Turn("assistant", Say("digest"))
          \/ Rendered(x) = Turn(x.lane, Say("result"))
      BY <2>2 DEF Rendered
    <3> QED
      BY <1>1, <1>2, <3>1, <3>2
  <2>3. ASSUME ~ IsResult(x) PROVE Rendered(x) \in ReadyTurns(r)
    <3>1. x.role \in Roles /\ Ready(r, x.text) /\ x.text \in Texts
      BY <2>1, <2>3 DEF Fits, Ready
    <3>2. Rendered(x) = Turn(x.role, x.text)
      BY <2>3 DEF Rendered
    <3> QED
      BY <1>1, <3>1, <3>2
  <2>4. Rendered(x) \in ReadyTurns(r)
    BY <2>2, <2>3
  <2> QED
    BY <2>4 DEF x
<1>4. Projection(out) = [i \in 1 .. m |-> Rendered(out[i])]
  BY DEF Projection
<1> QED
  BY <1>3, <1>4

\* Consequences without a call.
LEMMA NothingExecuted ==
    ASSUME NEW r \in Seq(Entries), RanInOrder(r),
           NEW out, NEW m \in Nat, DOMAIN out = 1 .. m,
           \A i \in 1 .. m : Fits(r, out[i]) /\ ~ HasCall(out[i])
    PROVE  LegalOut(r, out)
<1>1. Executed(out) = <<>>
  <2>1. {i \in DOMAIN out : HasCall(out[i])} = {}
    OBVIOUS
  <2>2. Executed(out) = [i \in {} |-> [call |-> out[i].call, outcome |-> out[i].outcome]]
    BY <2>1 DEF Executed
  <2> QED
    BY <2>2
<1>2. <<>> \in Seq(Entries)
  BY EmptySeq
<1>3. r \o Executed(out) = r
  BY <1>1
<1>4. Projection(out) \in Seq(ReadyTurns(r))
  BY ShownReady
<1> QED
  BY <1>1, <1>2, <1>3, <1>4 DEF LegalOut

\* A plan: the results of its executed calls, then what is offered of it.
Offered(r, tail) ==
    \/ tail = <<>>
    \/ \E t, u \in Seq(Calls) : tail = Adopt(t, u) /\ Ready(r, Plan(t, u))

LEMMA OfferedNodes ==
    ASSUME NEW r, NEW tail, Offered(r, tail)
    PROVE  \E m \in Nat : /\ DOMAIN tail = 1 .. m /\ Len(tail) = m
                          /\ tail \in Seq({tail[i] : i \in 1 .. m})
                          /\ \A i \in 1 .. m : Fits(r, tail[i]) /\ ~ HasCall(tail[i])
<1>1. CASE tail = <<>>
  <2> WITNESS 0 \in Nat
  <2> QED
    BY <1>1
<1>2. CASE tail # <<>>
  <2>1. PICK t \in Seq(Calls), u \in Seq(Calls) : tail = Adopt(t, u) /\ Ready(r, Plan(t, u))
    BY <1>2 DEF Offered
  <2> DEFINE x == Message("user", Plan(t, u), TRUE)
  <2>2. x.node = "message" /\ x.role = "user" /\ x.text = Plan(t, u)
    BY DEF Message
  <2>3. Fits(r, x) /\ ~ HasCall(x)
    BY <2>1, <2>2 DEF Fits, HasCall, IsResult, Roles
  <2> HIDE DEF x
  <2>4. tail = <<x>>
    BY <2>1 DEF Adopt, x
  <2> WITNESS 1 \in Nat
  <2> QED
    BY <2>3, <2>4
<1> QED
  BY <1>1, <1>2

\* A function on 1 .. n is a sequence.
LEMMA ListIsSeq ==
    ASSUME NEW n \in Nat, NEW S, NEW s \in [1 .. n -> S]
    PROVE  s \in Seq(S) /\ Len(s) = n
  OBVIOUS

LEMMA PlanExecuted ==
    ASSUME NEW r \in Seq(Entries), RanInOrder(r),
           NEW calls \in Seq(Calls), NEW rest \in Seq(Calls),
           Shelled(r) \/ InOrder(calls \o rest),
           NEW n \in 1 .. Len(calls), NEW o \in [1 .. n -> Outcome],
           \A i \in 1 .. n - 1 : o[i] = "ok",
           NEW tail, Offered(r \o Ran(calls, o, n), tail)
    PROVE  LegalOut(r, Results("user", calls, o) \o tail)
<1> DEFINE res == Results("user", calls, o)
           s == r \o Ran(calls, o, n)
           out == res \o tail
<1>0. res = [i \in 1 .. n |-> Result("user", NoEffect, calls[i], o[i])]
  BY DEF Results
<1> HIDE DEF res
<1>1. /\ n \in Nat /\ DOMAIN res = 1 .. n
      /\ \A i \in 1 .. n :
           /\ res[i] = Result("user", NoEffect, calls[i], o[i])
           /\ calls[i] \in Calls
  BY <1>0
<1>2. \A i \in 1 .. n : /\ res[i].node = "result" /\ res[i].lane = "user"
                        /\ res[i].call = calls[i] /\ res[i].outcome = o[i]
                        /\ res[i].call # NoCall
  <2>1. \A c \in Calls : c # NoCall
    BY DEF NoCall, Calls
  <2>2. \A c, x : LET y == Result("user", NoEffect, c, x)
                 IN  y.node = "result" /\ y.lane = "user" /\ y.call = c /\ y.outcome = x
    BY DEF Result
  <2> QED
    BY <1>1, <2>1, <2>2
<1>3. Len(res) = n /\ res \in Seq({res[i] : i \in 1 .. n})
  <2> DEFINE S == {res[i] : i \in 1 .. n}
  <2>1. res = [i \in 1 .. n |-> res[i]]
    BY <1>0
  <2>2. \A i \in 1 .. n : res[i] \in S
    OBVIOUS
  <2> HIDE DEF S
  <2>3. res \in [1 .. n -> S]
    BY <2>1, <2>2
  <2>4. n \in Nat
    BY <1>1
  <2>5. res \in Seq(S) /\ Len(res) = n
    BY <2>3, <2>4, ListIsSeq
  <2> QED
    BY <2>5 DEF S
<1>4. PICK m \in Nat : /\ DOMAIN tail = 1 .. m /\ Len(tail) = m
                       /\ tail \in Seq({tail[i] : i \in 1 .. m})
                       /\ \A i \in 1 .. m : Fits(s, tail[i]) /\ ~ HasCall(tail[i])
  BY OfferedNodes
<1> HIDE DEF s
<1>5. /\ DOMAIN out = 1 .. n + m
      /\ \A i \in 1 .. n : out[i] = res[i]
      /\ \A i \in 1 .. n + m : i > n => i - n \in 1 .. m /\ out[i] = tail[i - n]
  <2> DEFINE S == {res[i] : i \in 1 .. n} \cup {tail[i] : i \in 1 .. m}
  <2>1. res \in Seq(S) /\ tail \in Seq(S)
    BY <1>3, <1>4
  <2> HIDE DEF S
  <2>5. /\ out \in Seq(S) /\ Len(out) = Len(res) + Len(tail)
        /\ \A i \in 1 .. Len(res) + Len(tail) :
             out[i] = IF i <= Len(res) THEN res[i] ELSE tail[i - Len(res)]
    BY <2>1, ConcatProperties
  <2>2. out \in Seq(S) /\ Len(out) = n + m
    BY <1>3, <1>4, <2>5
  <2>3. \A i \in 1 .. n + m : out[i] = IF i <= n THEN res[i] ELSE tail[i - n]
    BY <1>3, <1>4, <2>5
  <2>4. DOMAIN out = 1 .. Len(out)
    BY <2>2
  <2> QED
    BY <1>1, <2>2, <2>3, <2>4
<1> HIDE DEF out
<1>6. Executed(out) = Ran(calls, o, n)
  <2>1. \A i \in 1 .. n : HasCall(out[i])
    BY <1>2, <1>5 DEF HasCall
  <2>2. ASSUME NEW i \in 1 .. n + m, i > n PROVE ~ HasCall(out[i])
    <3>1. i - n \in 1 .. m /\ out[i] = tail[i - n]
      BY <1>5, <2>2
    <3>2. ~ HasCall(tail[i - n])
      BY <1>4, <3>1
    <3> QED
      BY <3>1, <3>2
  <2>3. {i \in DOMAIN out : HasCall(out[i])} = 1 .. n
    BY <1>1, <1>5, <2>1, <2>2
  <2>4. Executed(out) = [i \in 1 .. n |-> [call |-> out[i].call, outcome |-> out[i].outcome]]
    BY <2>3 DEF Executed
  <2>5. \A i \in 1 .. n : [call |-> out[i].call, outcome |-> out[i].outcome]
                             = [call |-> calls[i], outcome |-> o[i]]
    BY <1>2, <1>5
  <2> QED
    BY <2>4, <2>5 DEF Ran
<1>7. \A i \in 1 .. n + m : Fits(s, out[i])
  <2>1. \A i \in 1 .. n : Fits(s, out[i])
    BY <1>2, <1>5 DEF Fits, IsResult, Roles
  <2>2. ASSUME NEW i \in 1 .. n + m, i > n PROVE Fits(s, out[i])
    <3>1. i - n \in 1 .. m /\ out[i] = tail[i - n]
      BY <1>5, <2>2
    <3>2. Fits(s, tail[i - n])
      BY <1>4, <3>1
    <3> QED
      BY <3>1, <3>2
  <2>3. \A i \in 1 .. n + m : i > n \/ i \in 1 .. n
    BY <1>1
  <2> QED
    BY <2>1, <2>2, <2>3
<1>8. Projection(out) \in Seq(ReadyTurns(s))
  <2>1. n + m \in Nat
    BY <1>1
  <2> QED
    BY <1>5, <1>7, <2>1, ShownReady
<1>9. RanInOrder(s) /\ Ran(calls, o, n) \in Seq(Entries)
  BY PlanRunsInOrder, RanTyped DEF s
<1> QED
  BY <1>6, <1>8, <1>9 DEF LegalOut, s, out, res

-----------------------------------------------------------------------------
(* The consequences of a frontier that is ready are legal, whatever the    *)
(* policy in force.                                                        *)

LEMMA OutcomesStop ==
    ASSUME NEW calls \in Seq(Calls), NEW may, NEW o \in Outcomes(calls, may)
    PROVE  \E n \in 1 .. Len(calls) :
             /\ o \in [1 .. n -> Outcome] /\ Len(o) = n /\ Last(o) = o[n]
             /\ \A i \in 1 .. n - 1 : o[i] = "ok"
             /\ n < Len(calls) => o[n] # "ok"
<1>1. PICK n \in 1 .. Len(calls) : o \in [1 .. n -> Outcome]
  BY DEF Outcomes, Outcome
<1>2. n \in Nat /\ DOMAIN o = 1 .. n
  BY <1>1
<1>3. Len(o) = n
  BY <1>1, <1>2, ListIsSeq
<1>4. Last(o) = o[n]
  BY <1>3 DEF Last
<1>5. /\ \A i \in DOMAIN o : i < Len(o) => o[i] = "ok"
      /\ Len(o) < Len(calls) => Last(o) # "ok"
  BY DEF Outcomes
<1>6. \A i \in 1 .. n - 1 : o[i] = "ok"
  BY <1>2, <1>3, <1>5
<1> QED
  BY <1>1, <1>3, <1>4, <1>5, <1>6

LEMMA RecoveryOffered ==
    ASSUME NEW r \in Seq(Entries), NEW text \in Texts, Ready(r, text),
           NEW n \in 1 .. Len(text.calls), NEW o \in [1 .. n -> Outcome],
           Len(o) = n, Last(o) = o[n],
           \A i \in 1 .. n - 1 : o[i] = "ok",
           n < Len(text.calls) => o[n] # "ok",
           NEW allowFailure \in BOOLEAN
    PROVE  /\ Offered(r \o Ran(text.calls, o, n), PlanRecovery(text, o, allowFailure))
           /\ Offered(r \o Ran(text.calls, o, n), Adopt(text.calls, <<>>))
<1> DEFINE calls == text.calls
           rest == text.rest
           s == r \o Ran(calls, o, n)
           left == SubSeq(calls, n + 1, Len(calls))
           out == PlanRecovery(text, o, allowFailure)
<1>1. calls \in Seq(Calls) /\ rest \in Seq(Calls)
  BY DEF Texts
<1>2. Shelled(r) \/ InOrder(calls \o rest)
  BY DEF Ready
<1>3. /\ left \in Seq(Calls) /\ <<calls[n]>> \in Seq(Calls)
      /\ Ready(s, Plan(<<calls[n]>>, left))
      /\ Len(calls) = 1 => Ready(s, Plan(<<calls[n]>>, rest))
      /\ n = Len(calls) /\ o[n] = "ok" => Ready(s, Plan(rest, <<>>))
      /\ Ready(s, Plan(calls, <<>>))
  BY <1>1, <1>2, RecoveryReady
<1>4. <<>> \in Seq(Calls)
  BY EmptySeq
<1>5. \/ out = <<>>
      \/ out = Adopt(<<calls[n]>>, left)
      \/ Len(calls) = 1 /\ out = Adopt(<<calls[n]>>, rest)
      \/ o[n] = "ok" /\ out = Adopt(rest, <<>>)
  BY DEF PlanRecovery
<1> HIDE DEF s, left, out
<1>6. o[n] = "ok" => n = Len(calls)
  BY <1>1
<1> HIDE DEF calls, rest
<1>7. Offered(s, out)
  BY <1>1, <1>3, <1>4, <1>5, <1>6 DEF Offered
<1>8. Offered(s, Adopt(calls, <<>>))
  BY <1>1, <1>3, <1>4 DEF Offered
<1> QED
  BY <1>7, <1>8 DEF s, out, calls

LEMMA PlansAreLegal ==
    ASSUME NEW r \in Seq(Entries), RanInOrder(r),
           NEW text \in Texts, Ready(r, text),
           NEW may, NEW o \in Outcomes(text.calls, may), NEW staging
    PROVE  LegalOut(r, UserPlan(text, o)) /\ LegalOut(r, AssistantPlan(text, o, staging))
<1> DEFINE calls == text.calls
           res == Results("user", calls, o)
<1>1. calls \in Seq(Calls) /\ text.rest \in Seq(Calls)
  BY DEF Texts
<1>2. PICK n \in 1 .. Len(calls) :
             /\ o \in [1 .. n -> Outcome] /\ Len(o) = n /\ Last(o) = o[n]
             /\ \A i \in 1 .. n - 1 : o[i] = "ok"
             /\ n < Len(calls) => o[n] # "ok"
  BY <1>1, OutcomesStop
<1> DEFINE s == r \o Ran(calls, o, n)
<1>3. \A a \in BOOLEAN : Offered(s, PlanRecovery(text, o, a))
  BY <1>2, RecoveryOffered
<1>4. Offered(s, Adopt(calls, <<>>))
  BY <1>2, RecoveryOffered
<1>5. Shelled(r) \/ InOrder(calls \o text.rest)
  BY DEF Ready
<1>6. ASSUME NEW tail, Offered(s, tail) PROVE LegalOut(r, res \o tail)
  BY <1>1, <1>2, <1>5, <1>6, PlanExecuted
<1>7. LegalOut(r, UserPlan(text, o))
  BY <1>3, <1>6 DEF UserPlan
<1>8. Offered(s, <<>>)
  BY DEF Offered
<1>9. \E tail : Offered(s, tail) /\ AssistantPlan(text, o, staging) = res \o tail
  <2> DEFINE authorization == Len(calls) = 1 /\ Last(o) = "blocked"
             recovery == IF authorization THEN <<>> ELSE PlanRecovery(text, o, TRUE)
             again == IF recovery = <<>> /\ staging = "auto" /\ Last(o) = "blocked"
                      THEN Adopt(calls, <<>>) ELSE <<>>
  <2>1. AssistantPlan(text, o, staging) = res \o recovery \o again
    BY DEF AssistantPlan
  <2>2. Offered(s, recovery) /\ Offered(s, again)
    BY <1>3, <1>4, <1>8
  <2>3. recovery = <<>> \/ again = <<>>
    OBVIOUS
  <2> HIDE DEF recovery, again
  <2>4. res \in Seq({res[i] : i \in 1 .. n})
    <3> DEFINE S == {res[i] : i \in 1 .. n}
    <3>1. res = [i \in 1 .. n |-> res[i]]
      BY <1>2 DEF Results
    <3>2. \A i \in 1 .. n : res[i] \in S
      OBVIOUS
    <3> HIDE DEF S, res
    <3>3. res \in [1 .. n -> S] /\ n \in Nat
      BY <1>1, <1>2, <3>1, <3>2
    <3>4. res \in Seq(S)
      BY <3>3, ListIsSeq
    <3> QED
      BY <3>4 DEF S
  <2> HIDE DEF res
  <2>5. res \o <<>> = res
    BY <2>4, ConcatEmptySeq
  <2>6. CASE recovery = <<>>
    BY <2>1, <2>2, <2>5, <2>6
  <2>7. CASE again = <<>>
    <3> HIDE DEF s
    <3>1. PICK m \in Nat : /\ DOMAIN recovery = 1 .. m /\ Len(recovery) = m
                           /\ recovery \in Seq({recovery[i] : i \in 1 .. m})
                           /\ \A i \in 1 .. m : Fits(s, recovery[i]) /\ ~ HasCall(recovery[i])
      BY <2>2, OfferedNodes
    <3> DEFINE S == {res[i] : i \in 1 .. n} \cup {recovery[i] : i \in 1 .. m}
    <3>2. res \in Seq(S) /\ recovery \in Seq(S)
      BY <2>4, <3>1, SeqMonotonic
    <3> HIDE DEF S
    <3>3. res \o recovery \in Seq(S)
      BY <3>2, ConcatProperties
    <3>4. (res \o recovery) \o <<>> = res \o recovery
      BY <3>3, ConcatEmptySeq
    <3> QED
      BY <2>1, <2>2, <2>7, <3>4
  <2> QED
    BY <2>3, <2>6, <2>7
<1> QED
  BY <1>6, <1>7, <1>9

\* A single node that is not a call.
LEMMA OneNode ==
    ASSUME NEW r \in Seq(Entries), RanInOrder(r), NEW x, Fits(r, x), ~ HasCall(x)
    PROVE  LegalOut(r, <<x>>)
<1> DEFINE out == <<x>>
<1>1. DOMAIN out = 1 .. 1 /\ out[1] = x
  OBVIOUS
<1> HIDE DEF out
<1>2. \A i \in 1 .. 1 : Fits(r, out[i]) /\ ~ HasCall(out[i])
  BY <1>1
<1>3. LegalOut(r, out)
  BY <1>1, <1>2, NothingExecuted
<1> QED
  BY <1>3 DEF out

LEMMA ConsequencesAreLegal ==
    ASSUME PlansInOrder, NEW r \in Seq(Entries), RanInOrder(r),
           NEW turn \in ReadyTurns(r), NEW force,
           NEW out \in Consequences(turn, force)
    PROVE  LegalOut(r, out)
<1> DEFINE text == turn.text
<1>1. turn.role \in Roles /\ text \in Texts /\ Ready(r, text)
  BY DEF ReadyTurns
<1>2. \/ \E may : \E o \in Outcomes(text.calls, may) : out = AssistantPlan(text, o, force.staging)
      \/ out = Adopt(<<"shell">>, <<>>)
      \/ out = <<Result("user", NoEffect, NoCall, "error")>>
      \/ out = <<FrontierFlip>>
      \/ out = CommandResults(turn.role, text.cmds, force)
      \/ \E may : \E o \in Outcomes(text.calls, may) : out = UserPlan(text, o)
      \/ out = <<>>
      \/ \E a \in Answers : out = <<Message("assistant", a, FALSE)>>
  <2> DEFINE mayA == [c \in ToSet(text.calls) |-> AssistantMay(force.granted, c)]
             mayU == [c \in ToSet(text.calls) |-> UserMay(c)]
  <2>1. \/ out \in {AssistantPlan(text, o, force.staging) : o \in Outcomes(text.calls, mayA)}
        \/ out \in {Adopt(<<"shell">>, <<>>)}
        \/ out \in {<<Result("user", NoEffect, NoCall, "error")>>}
        \/ out \in {<<FrontierFlip>>}
        \/ out \in {CommandResults(turn.role, text.cmds, force)}
        \/ out \in {UserPlan(text, o) : o \in Outcomes(text.calls, mayU)}
        \/ out \in {<<>>}
        \/ out \in {Refusal} \cup {<<Message("assistant", a, FALSE)>> : a \in Answers}
    BY <1>1 DEF Consequences, Roles
  <2> HIDE DEF mayA, mayU
  <2> QED
    BY <2>1 DEF Refusal
<1>3. ASSUME NEW may, NEW o \in Outcomes(text.calls, may)
      PROVE  LegalOut(r, UserPlan(text, o)) /\ LegalOut(r, AssistantPlan(text, o, force.staging))
  BY <1>1, <1>3, PlansAreLegal
<1>4. LegalOut(r, Adopt(<<"shell">>, <<>>))
  <2> DEFINE one == <<"shell">>
             x == Message("user", Plan(one, <<>>), TRUE)
  <2>1. one \in Seq(Calls) /\ <<>> \in Seq(Calls)
    BY EmptySeq DEF Calls
  <2>2. InOrder(one \o <<>>)
    BY DEF InOrder
  <2> HIDE DEF one
  <2>3. Ready(r, Plan(one, <<>>))
    BY <2>1, <2>2, PlanIsText DEF Ready
  <2>4. x.node = "message" /\ x.role = "user" /\ x.text = Plan(one, <<>>)
    BY DEF Message
  <2>5. Fits(r, x) /\ ~ HasCall(x)
    BY <2>3, <2>4 DEF Fits, HasCall, IsResult, Roles
  <2> HIDE DEF x
  <2>6. LegalOut(r, <<x>>)
    BY <2>5, OneNode
  <2> QED
    BY <2>6 DEF x, one, Adopt
<1>5. LegalOut(r, <<Result("user", NoEffect, NoCall, "error")>>)
  <2> DEFINE x == Result("user", NoEffect, NoCall, "error")
  <2>1. x.node = "result" /\ x.lane = "user" /\ x.call = NoCall
    BY DEF Result
  <2>2. Fits(r, x) /\ ~ HasCall(x)
    BY <2>1 DEF Fits, HasCall, IsResult, Roles
  <2> HIDE DEF x
  <2>3. LegalOut(r, <<x>>)
    BY <2>2, OneNode
  <2> QED
    BY <2>3 DEF x
<1>6. LegalOut(r, <<FrontierFlip>>)
  <2>1. /\ FrontierFlip.node = "flip" /\ FrontierFlip.role = "user"
        /\ FrontierFlip.text = Say("empty")
    BY DEF FrontierFlip
  <2>2. Ready(r, Say("empty"))
    <3>1. "empty" \in Tags /\ <<>> \in Seq(STRING)
      BY EmptySeq DEF Tags
    <3> QED
      BY <3>1, SayReady
  <2>3. Fits(r, FrontierFlip) /\ ~ HasCall(FrontierFlip)
    BY <2>1, <2>2 DEF Fits, HasCall, IsResult, Roles
  <2> QED
    BY <2>3, OneNode
<1>7. LegalOut(r, CommandResults(turn.role, text.cmds, force))
  <2> DEFINE cmds == text.cmds
             res == CommandResults(turn.role, cmds, force)
  <2>1. cmds \in Seq(STRING)
    BY <1>1 DEF Texts
  <2>2. Len(cmds) \in Nat /\ DOMAIN cmds = 1 .. Len(cmds)
    BY <2>1
  <2> HIDE DEF cmds
  <2>3. DOMAIN res = 1 .. Len(cmds)
    BY <2>2 DEF CommandResults
  <2>4. ASSUME NEW i \in 1 .. Len(cmds) PROVE Fits(r, res[i]) /\ ~ HasCall(res[i])
    <3>1. \E lane \in Roles : res[i] = Result(lane, CommandEffect(cmds[i], force), NoCall, "ok")
      BY <2>2 DEF CommandResults, Roles
    <3>2. res[i].node = "result" /\ res[i].lane \in Roles /\ res[i].call = NoCall
      BY <3>1 DEF Result
    <3> QED
      BY <3>2 DEF Fits, HasCall, IsResult
  <2> HIDE DEF res
  <2>5. LegalOut(r, res)
    BY <2>2, <2>3, <2>4, NothingExecuted
  <2> QED
    BY <2>5 DEF res, cmds
<1>8. LegalOut(r, <<>>)
  <2> DEFINE none == <<>>
  <2>1. DOMAIN none = 1 .. 0
    OBVIOUS
  <2>2. \A i \in 1 .. 0 : FALSE
    OBVIOUS
  <2> HIDE DEF none
  <2>3. LegalOut(r, none)
    BY <2>1, <2>2, NothingExecuted
  <2> QED
    BY <2>3 DEF none
<1>9. ASSUME NEW a \in Answers PROVE LegalOut(r, <<Message("assistant", a, FALSE)>>)
  <2> DEFINE x == Message("assistant", a, FALSE)
  <2>1. x.node = "message" /\ x.role = "assistant" /\ x.text = a
    BY DEF Message
  <2>2. Ready(r, a)
    BY TextAssumption DEF PlansInOrder, Ready
  <2>3. Fits(r, x) /\ ~ HasCall(x)
    BY <2>1, <2>2 DEF Fits, HasCall, IsResult, Roles
  <2> HIDE DEF x
  <2>4. LegalOut(r, <<x>>)
    BY <2>3, OneNode
  <2> QED
    BY <2>4 DEF x
<1> HIDE DEF text
<1> QED
  BY <1>2, <1>3, <1>4, <1>5, <1>6, <1>7, <1>8, <1>9

-----------------------------------------------------------------------------
(* The steps.                                                              *)

LEMMA OrderInit == Init => OrderInv
<1> SUFFICES ASSUME Init PROVE OrderInv
  OBVIOUS
<1>1. ran \in Seq(Entries) /\ RanInOrder(ran)
  BY EmptySeq DEF Init, RanInOrder
<1>2. output \in Seq(ReadyTurns(ran)) /\ <<>> \in Seq(ReadyTurns(ran))
  BY EmptySeq DEF Init
<1>3. files \in [Files -> {NoFile} \cup Seq(ReadyTurns(ran))]
  BY <1>2 DEF Init
<1>4. StepInv
  BY DEF Init, StepInv
<1> QED
  BY <1>1, <1>2, <1>3, <1>4 DEF OrderInv

\* A file that exists holds ready turns, the last one included.
LEMMA FileReady ==
    ASSUME OrderInv, NEW f \in Files, files[f] # NoFile
    PROVE  /\ files[f] \in Seq(ReadyTurns(ran))
           /\ files[f] # <<>> => Last(files[f]) \in ReadyTurns(ran)
<1>1. files[f] \in Seq(ReadyTurns(ran))
  BY DEF OrderInv
<1> DEFINE s == files[f]
           S == ReadyTurns(ran)
<1>2. s \in Seq(S)
  BY <1>1
<1> HIDE DEF s, S
<1>3. s # <<>> => Last(s) \in S
  BY <1>2 DEF Last
<1> QED
  BY <1>1, <1>3 DEF s, S

\* A step that starts on ready turns and leads to legal consequences.
LEMMA ExecuteKeeps ==
    ASSUME OrderInv, NEW f \in Files, NEW control, NEW nodes \in Seq(ReadyTurns(ran)),
           NEW out, LegalOut(ran, out), NEW shown,
           shown \in Seq(ReadyTurns(ran \o Executed(out))),
           Execute(f, control, nodes, out, shown)
    PROVE  OrderInv'
<1> DEFINE r == ran \o Executed(out)
<1>1. ran' = r /\ UNCHANGED <<files, output>>
  BY DEF Execute
<1>2. Executed(out) \in Seq(Entries) /\ RanInOrder(r) /\ ran \in Seq(Entries)
  BY DEF LegalOut, OrderInv
<1>3. r \in Seq(Entries)
  BY <1>2, ConcatProperties
<1>4. Seq(ReadyTurns(ran)) \subseteq Seq(ReadyTurns(r))
  BY <1>2, ReadyStays
<1>5. files \in [Files -> {NoFile} \cup Seq(ReadyTurns(r))] /\ output \in Seq(ReadyTurns(r))
  BY <1>4 DEF OrderInv
<1>6. /\ IsStep(step') /\ step'.file = f /\ step'.nodes = nodes /\ step'.shown = shown
  BY DEF Execute, IsStep
<1> HIDE DEF r
<1>7. ReadyTurns(ran)' = ReadyTurns(r)
  BY <1>1 DEF ReadyTurns, Ready, Shelled
<1>8. nodes \in Seq(ReadyTurns(r)) /\ shown \in Seq(ReadyTurns(r))
  BY <1>4 DEF r
<1>9. StepInv'
  BY <1>6, <1>7, <1>8 DEF StepInv, IsStep
<1>10. RanInOrder(ran)'
  BY <1>1, <1>2 DEF RanInOrder
<1> QED
  BY <1>1, <1>3, <1>5, <1>7, <1>9, <1>10 DEF OrderInv

LEMMA StepTranscriptKeeps ==
    ASSUME PlansInOrder, OrderInv, NEW f \in Files, StepTranscript(f)
    PROVE  OrderInv'
<1> DEFINE force == PolicyInForce(files[f], BoundLog(f))
<1>1. files[f] # NoFile /\ files[f] # <<>>
  BY DEF StepTranscript, CanStep
<1>2. PICK out \in Consequences(Last(files[f]), force) :
        Execute(f, FALSE, files[f], out, Projection(out))
  BY DEF StepTranscript
<1> HIDE DEF force
<1>3. ran \in Seq(Entries) /\ RanInOrder(ran)
  BY DEF OrderInv
<1>4. files[f] \in Seq(ReadyTurns(ran)) /\ Last(files[f]) \in ReadyTurns(ran)
  BY <1>1, FileReady
<1>5. LegalOut(ran, out)
  BY <1>2, <1>3, <1>4, ConsequencesAreLegal
<1>6. Projection(out) \in Seq(ReadyTurns(ran \o Executed(out)))
  BY <1>5 DEF LegalOut
<1> QED
  BY <1>2, <1>4, <1>5, <1>6, ExecuteKeeps

LEMMA StepControlKeeps ==
    ASSUME PlansInOrder, OrderInv, NEW f \in Files, StepControl(f)
    PROVE  OrderInv'
<1>1. files[f] # NoFile
  BY DEF StepControl, CanStep
<1>2. PICK c \in Controls :
         LET nodes == Append(files[f], Turn("control", Typed(c)))
         IN  \E out \in Consequences(Last(nodes), PolicyInForce(nodes, BoundLog(f))) :
               Execute(f, TRUE, nodes, out, Projection(out))
  BY DEF StepControl
<1> DEFINE turn == Turn("control", Typed(c))
           nodes == Append(files[f], turn)
           force == PolicyInForce(nodes, BoundLog(f))
<1>3. PICK out \in Consequences(Last(nodes), force) :
        Execute(f, TRUE, nodes, out, Projection(out))
  BY <1>2
<1> HIDE DEF force
<1>4. ran \in Seq(Entries) /\ RanInOrder(ran)
  BY DEF OrderInv
<1>5. turn \in ReadyTurns(ran)
  <2>1. c \in Seq(STRING) /\ "say" \in Tags
    BY TextAssumption DEF Tags
  <2>2. Ready(ran, Typed(c)) /\ Typed(c) \in Texts
    BY <2>1, SayReady DEF Ready
  <2> QED
    BY <2>2 DEF Turn, ReadyTurns, Roles
<1>6. files[f] \in Seq(ReadyTurns(ran))
  BY <1>1, FileReady
<1> HIDE DEF turn
<1>7. nodes \in Seq(ReadyTurns(ran)) /\ Last(nodes) = turn
  BY <1>5, <1>6 DEF Last
<1> HIDE DEF nodes
<1>8. LegalOut(ran, out)
  BY <1>3, <1>4, <1>5, <1>7, ConsequencesAreLegal
<1>9. Projection(out) \in Seq(ReadyTurns(ran \o Executed(out)))
  BY <1>8 DEF LegalOut
<1> QED
  BY <1>3, <1>7, <1>8, <1>9, ExecuteKeeps

LEMMA StepSeedKeeps ==
    ASSUME OrderInv, NEW f \in Files, StepSeed(f)
    PROVE  OrderInv'
<1> DEFINE r == ran \o Executed(Seed)
           x == Message("user", Say("bootstrap"), FALSE)
           empty == Turn("user", Say("empty"))
           shown == Append(Projection(Seed), empty)
           none == <<>>
<1>1. Execute(f, FALSE, none, Seed, shown)
  BY DEF StepSeed
<1>2. ran \in Seq(Entries) /\ RanInOrder(ran)
  BY DEF OrderInv
<1>3. \A s : Ready(s, Say("bootstrap")) /\ Ready(s, Say("empty")) /\ Say("empty") \in Texts
  <2>1. "bootstrap" \in Tags /\ "empty" \in Tags /\ <<>> \in Seq(STRING)
    BY EmptySeq DEF Tags
  <2> QED
    BY <2>1, SayReady DEF Ready
<1>4. LegalOut(ran, Seed)
  <2>1. x.node = "message" /\ x.role = "user" /\ x.text = Say("bootstrap")
    BY DEF Message
  <2>2. Fits(ran, x) /\ ~ HasCall(x)
    BY <1>3, <2>1 DEF Fits, HasCall, IsResult, Roles
  <2>3. Seed = <<x>>
    BY DEF Seed
  <2> HIDE DEF x
  <2> QED
    BY <1>2, <2>2, <2>3, OneNode
<1>5. empty \in ReadyTurns(r)
  BY <1>3 DEF Turn, ReadyTurns, Roles
<1> HIDE DEF empty
<1>6. shown \in Seq(ReadyTurns(r))
  BY <1>4, <1>5 DEF LegalOut
<1>7. none \in Seq(ReadyTurns(ran))
  BY EmptySeq
<1> HIDE DEF shown, none
<1> QED
  BY <1>1, <1>4, <1>6, <1>7, ExecuteKeeps

\* What a step does after it has executed leaves its transcript and what it
\* will print as they are.
LEMMA PhaseKeeps ==
    ASSUME OrderInv, step.phase # "idle",
           step' = [step EXCEPT !.phase = step'.phase, !.ids = step'.ids, !.todo = step'.todo],
           UNCHANGED <<ran, output>>,
           files' \in [Files -> {NoFile} \cup Seq(ReadyTurns(ran))]
    PROVE  OrderInv'
<1>1. step # Idle
  BY DEF Idle
<1>2. /\ IsStep(step) /\ step.file \in Files
      /\ step.nodes \in Seq(ReadyTurns(ran)) /\ step.shown \in Seq(ReadyTurns(ran))
  BY <1>1 DEF OrderInv, StepInv
<1>3. /\ step'.file = step.file /\ step'.nodes = step.nodes /\ step'.shown = step.shown
      /\ IsStep(step')
  BY <1>2 DEF IsStep
<1>4. ReadyTurns(ran)' = ReadyTurns(ran) /\ ran' = ran /\ output' = output
  BY DEF ReadyTurns, Ready, Shelled
<1>5. StepInv'
  BY <1>2, <1>3, <1>4 DEF StepInv, IsStep
<1>6. RanInOrder(ran)'
  BY <1>4 DEF OrderInv, RanInOrder
<1> QED
  BY <1>4, <1>5, <1>6 DEF OrderInv

\* The step is over.
LEMMA EndKeeps ==
    ASSUME OrderInv, step' = Idle, UNCHANGED <<ran, files>>,
           output' \in Seq(ReadyTurns(ran))
    PROVE  OrderInv'
<1>1. ReadyTurns(ran)' = ReadyTurns(ran) /\ ran' = ran /\ files' = files
  BY DEF ReadyTurns, Ready, Shelled
<1>2. RanInOrder(ran)'
  BY <1>1 DEF OrderInv, RanInOrder
<1>3. StepInv'
  BY DEF StepInv
<1> QED
  BY <1>1, <1>2, <1>3 DEF OrderInv

LEMMA StepPhasesKeep ==
    ASSUME OrderInv, WriteSession \/ WriteMessages \/ WriteRecord \/ Show \/ Crash
    PROVE  OrderInv'
<1>1. files \in [Files -> {NoFile} \cup Seq(ReadyTurns(ran))] /\ output \in Seq(ReadyTurns(ran))
  BY DEF OrderInv
<1>2. step # Idle => /\ IsStep(step) /\ step.file \in Files
                     /\ step.nodes \in Seq(ReadyTurns(ran)) /\ step.shown \in Seq(ReadyTurns(ran))
  BY DEF OrderInv, StepInv
<1>3. step.phase # "idle" => step # Idle
  BY DEF Idle
<1>4. CASE WriteSession
  <2>1. step.phase # "idle"
    BY <1>4 DEF WriteSession
  <2>2. step' = [step EXCEPT !.phase = step'.phase, !.ids = step'.ids, !.todo = step'.todo]
    BY <1>2, <1>3, <1>4, <2>1 DEF WriteSession, IsStep
  <2>3. files' \in [Files -> {NoFile} \cup Seq(ReadyTurns(ran))]
    BY <1>1, <1>2, <1>3, <1>4, <2>1 DEF WriteSession
  <2> QED
    BY <1>4, <2>1, <2>2, <2>3, PhaseKeeps DEF WriteSession
<1>5. CASE WriteMessages
  <2>1. step.phase # "idle" /\ UNCHANGED <<ran, output, files>>
    BY <1>5 DEF WriteMessages
  <2>2. \E ids, todo : step' = [step EXCEPT !.phase = "records", !.ids = ids, !.todo = todo]
    BY <1>5 DEF WriteMessages
  <2>3. step' = [step EXCEPT !.phase = step'.phase, !.ids = step'.ids, !.todo = step'.todo]
    BY <1>2, <1>3, <2>1, <2>2 DEF IsStep
  <2> QED
    BY <1>1, <2>1, <2>3, PhaseKeeps
<1>6. CASE WriteRecord
  <2>1. step.phase # "idle" /\ UNCHANGED <<ran, output, files>>
    BY <1>6 DEF WriteRecord
  <2>2. step' = [step EXCEPT !.todo = Tail(step.todo)]
    BY <1>6 DEF WriteRecord
  <2>3. step' = [step EXCEPT !.phase = step'.phase, !.ids = step'.ids, !.todo = step'.todo]
    BY <1>2, <1>3, <2>1, <2>2 DEF IsStep
  <2> QED
    BY <1>1, <2>1, <2>3, PhaseKeeps
<1>7. CASE Show
  <2>1. step.phase # "idle"
    BY <1>7 DEF Show, Finished
  <2>2. output' \in Seq(ReadyTurns(ran))
    BY <1>2, <1>3, <1>7, <2>1 DEF Show
  <2> QED
    BY <1>7, <2>2, EndKeeps DEF Show
<1>8. CASE Crash
  <2>1. output' \in Seq(ReadyTurns(ran))
    BY <1>8, EmptySeq DEF Crash
  <2> QED
    BY <1>8, <2>1, EndKeeps DEF Crash
<1> QED
  BY <1>4, <1>5, <1>6, <1>7, <1>8

\* The operator's edits: between steps, with ready turns only.
LEMMA EditKeeps ==
    ASSUME OrderInv, UNCHANGED <<step, ran>>,
           NEW f \in Files, NEW turns \in Seq(ReadyTurns(ran)),
           files' = [files EXCEPT ![f] = turns],
           output' \in Seq(ReadyTurns(ran))
    PROVE  OrderInv'
<1>1. ReadyTurns(ran)' = ReadyTurns(ran) /\ ran' = ran /\ step' = step
  BY DEF ReadyTurns, Ready, Shelled
<1>2. RanInOrder(ran)'
  BY <1>1 DEF OrderInv, RanInOrder
<1>3. StepInv'
  BY <1>1 DEF OrderInv, StepInv, IsStep
<1>4. files' \in [Files -> {NoFile} \cup Seq(ReadyTurns(ran))]
  BY DEF OrderInv
<1> QED
  BY <1>1, <1>2, <1>3, <1>4 DEF OrderInv

LEMMA OperatorKeeps ==
    ASSUME PlansInOrder, OrderInv, NEW f \in Files, Type(f) \/ Truncate(f) \/ Paste(f)
    PROVE  OrderInv'
<1> DEFINE S == ReadyTurns(ran)
           old == files[f]
<1>1. files[f] # NoFile
  BY DEF Type, Truncate, Paste, CanStep
<1>2. old \in Seq(S) /\ output \in Seq(S)
  BY <1>1, FileReady DEF OrderInv
<1>3. f \in DOMAIN files
  BY DEF OrderInv
<1>4. CASE Type(f)
  <2>1. PICK t \in OperatorTurns : files' = [files EXCEPT ![f] = Append(old, t)]
    BY <1>4 DEF Type
  <2>2. t \in S
    <3>1. /\ "user" \in Roles /\ "assistant" \in Roles /\ "say" \in Tags
          /\ <<>> \in Seq(STRING)
      BY EmptySeq DEF Roles, Tags
    <3>2. ASSUME NEW role \in Roles, NEW x, Ready(ran, x) PROVE Turn(role, x) \in S
      BY <3>2 DEF Ready, Turn, ReadyTurns
    <3>3. Ready(ran, Say("say"))
      BY <3>1, SayReady
    <3>4. \A c \in Commands : Ready(ran, Typed(c))
      BY <3>1, TextAssumption, SayReady
    <3>5. \A a \in Edited : Ready(ran, a)
      BY TextAssumption DEF PlansInOrder, Ready
    <3> HIDE DEF S
    <3> QED
      BY <3>1, <3>2, <3>3, <3>4, <3>5 DEF OperatorTurns
  <2> HIDE DEF S, old
  <2>3. Append(old, t) \in Seq(S)
    BY <1>2, <2>2
  <2> DEFINE new == Append(old, t)
  <2>4. new \in Seq(ReadyTurns(ran)) /\ output' \in Seq(ReadyTurns(ran))
    BY <1>2, <1>4, <2>3 DEF S, Type
  <2>5. files' = [files EXCEPT ![f] = new] /\ UNCHANGED <<step, ran>>
    BY <1>4, <2>1 DEF Type
  <2> HIDE DEF new
  <2> QED
    BY <2>4, <2>5, EditKeeps
<1>5. CASE Truncate(f)
  <2>1. PICK n \in 0 .. Len(old) - 1 : files' = [files EXCEPT ![f] = SubSeq(old, 1, n)]
    BY <1>5 DEF Truncate
  <2> DEFINE new == SubSeq(old, 1, n)
  <2> HIDE DEF S, old
  <2>2. Len(old) \in Nat
    BY <1>2
  <2>3. new \in Seq(S)
    BY <1>2, <2>1, <2>2
  <2>4. new \in Seq(ReadyTurns(ran)) /\ output' \in Seq(ReadyTurns(ran))
    BY <1>2, <1>5, <2>3 DEF S, Truncate
  <2>5. files' = [files EXCEPT ![f] = new] /\ UNCHANGED <<step, ran>>
    BY <1>5, <2>1 DEF Truncate
  <2> HIDE DEF new
  <2> QED
    BY <2>4, <2>5, EditKeeps
<1>6. CASE Paste(f)
  <2> DEFINE new == old \o output
  <2>1. files' = [files EXCEPT ![f] = new] /\ UNCHANGED <<step, ran>> /\ output' = <<>>
    BY <1>6 DEF Paste
  <2> HIDE DEF S, old
  <2>2. new \in Seq(S)
    BY <1>2, ConcatProperties
  <2>3. new \in Seq(ReadyTurns(ran)) /\ output' \in Seq(ReadyTurns(ran))
    BY <2>1, <2>2, EmptySeq DEF S
  <2> HIDE DEF new
  <2> QED
    BY <2>1, <2>3, EditKeeps
<1> QED
  BY <1>4, <1>5, <1>6

LEMMA OrderStep == PlansInOrder /\ OrderInv /\ [Next]_vars => OrderInv'
<1> SUFFICES ASSUME PlansInOrder, OrderInv, [Next]_vars PROVE OrderInv'
  OBVIOUS
<1>1. ASSUME NEW f \in Files, StepTranscript(f) PROVE OrderInv'
  BY <1>1, StepTranscriptKeeps
<1>2. ASSUME NEW f \in Files, StepControl(f) PROVE OrderInv'
  BY <1>2, StepControlKeeps
<1>3. ASSUME NEW f \in Files, StepSeed(f) PROVE OrderInv'
  BY <1>3, StepSeedKeeps
<1>4. CASE WriteSession \/ WriteMessages \/ WriteRecord \/ Show \/ Crash
  BY <1>4, StepPhasesKeep
<1>5. ASSUME NEW f \in Files, Type(f) \/ Truncate(f) \/ Paste(f) PROVE OrderInv'
  BY <1>5, OperatorKeeps
<1>6. CASE UNCHANGED vars
  BY <1>6 DEF vars, OrderInv, StepInv, IsStep, RanInOrder, ReadyTurns, Ready, Shelled
<1> QED
  BY <1>1, <1>2, <1>3, <1>4, <1>5, <1>6 DEF Next, StepNext, OperatorNext

(* Where the plans of the answers and of the operator put an edit behind a *)
(* shell call, no edit is ever executed before a shell call has succeeded: *)
(* a failed plan, its recovery (_append_plan_recovery_consequence), a      *)
(* staged remainder, a crash between execution and record, or pasting and  *)
(* cutting a transcript never skips the call it depends on.                *)
THEOREM CallsAlwaysInOrder ==
    ASSUME PlansInOrder
    PROVE  Spec => []CallsInOrder
<1>1. Init => OrderInv
  BY OrderInit
<1>2. OrderInv /\ [Next]_vars => OrderInv'
  BY OrderStep
<1>3. OrderInv => CallsInOrder
  BY DEF OrderInv, RanInOrder, CallsInOrder
<1> QED
  BY <1>1, <1>2, <1>3, PTL DEF Spec

=============================================================================

--------------------------- MODULE AgentSessionProofs ---------------------------
(***************************************************************************)
(* Proofs about a session, for any number of turns, any bounds and any     *)
(* thresholds: at most one summariser works on it; what a turn leaves in   *)
(* the transcript stays in the order it happened in, in memory and in the  *)
(* file; a prompt holds the question at most once and misses nothing that  *)
(* is being summarised; and no call is left without a result.              *)
(*                                                                         *)
(* The order is not inductive.  Every copy of the transcript that may come *)
(* back (what a turn read, the files being written, what a summariser      *)
(* works on) is in order too, and behind its turns: it holds nothing that  *)
(* a turn has yet to add (TrailInv).  That, in turn, needs to know what a  *)
(* turn's record is at each of its places (ShapeInv).                      *)
(***************************************************************************)
EXTENDS AgentSession, SequenceTheorems, FiniteSetTheorems, WellFoundedInduction, TLAPS

-----------------------------------------------------------------------------
Fields == {"pc", "read", "context", "file"}

(* The records of the summarisers have their fields; what is in them does  *)
(* not matter here.                                                        *)
SummarizersTyped ==
    /\ DOMAIN summarizer = Turns
    /\ \A t \in Turns : DOMAIN summarizer[t] = Fields

Summarizing == SummarizersTyped /\ OneSummarizer

(* Nobody summarises at first.                                             *)
LEMMA SummarizingInit == Init => Summarizing
BY DEF Init, NoSummarizer, Summarizing, SummarizersTyped, Fields, OneSummarizer

(* A summariser that goes on, or is done, lets nobody else begin.          *)
LEMMA OneGoesOn ==
    ASSUME Summarizing, NEW t \in Turns, summarizer[t].pc # "idle", NEW s,
           DOMAIN s = Fields, summarizer' = [summarizer EXCEPT ![t] = s],
           UNCHANGED guard
    PROVE  Summarizing'
<1>1. SummarizersTyped'
  BY DEF Summarizing, SummarizersTyped
<1>2. \A u \in Turns : summarizer'[u] = IF u = t THEN s ELSE summarizer[u]
  BY DEF Summarizing, SummarizersTyped
<1>3. \A u \in Turns \ {t} : summarizer[u].pc = "idle"
  BY DEF Summarizing, OneSummarizer
<1>4. guard /\ guard'
  BY DEF Summarizing, OneSummarizer
<1>5. OneSummarizer'
  BY <1>2, <1>3, <1>4 DEF OneSummarizer
<1> QED
  BY <1>1, <1>5 DEF Summarizing

(* Every step of a summariser is one of these.                             *)
LEMMA SummarizerGoesOn ==
    ASSUME Summarizing, NEW t \in Turns, SummarizerStep(t)
    PROVE  Summarizing'
<1>0. /\ DOMAIN NoSummarizer = Fields /\ NoSummarizer.pc = "idle"
      /\ DOMAIN summarizer = Turns /\ DOMAIN summarizer[t] = Fields
  BY DEF NoSummarizer, Fields, Summarizing, SummarizersTyped
<1>1. ASSUME NEW p, NEW v, UNCHANGED guard,
             \/ summarizer' = [summarizer EXCEPT ![t].pc = p, ![t].read = v]
             \/ summarizer' = [summarizer EXCEPT ![t].pc = p, ![t].context = v]
             \/ summarizer' = [summarizer EXCEPT ![t].pc = p, ![t].file = v],
             summarizer[t].pc # "idle"
      PROVE  Summarizing'
  <2>1. PICK s \in {[summarizer[t] EXCEPT !.pc = p, !.read = v],
                    [summarizer[t] EXCEPT !.pc = p, !.context = v],
                    [summarizer[t] EXCEPT !.pc = p, !.file = v]} :
           summarizer' = [summarizer EXCEPT ![t] = s]
    BY <1>0, <1>1
  <2>2. DOMAIN s = Fields
    BY <1>0, <2>1
  <2> QED
    BY <1>1, <2>1, <2>2, OneGoesOn
<1>2. ASSUME NEW p, UNCHANGED guard,
             summarizer' = [summarizer EXCEPT ![t] = [NoSummarizer EXCEPT !.pc = p]],
             summarizer[t].pc # "idle"
      PROVE  Summarizing'
  <2>1. DOMAIN [NoSummarizer EXCEPT !.pc = p] = Fields
    BY <1>0
  <2> QED
    BY <1>2, <2>1, OneGoesOn
<1>3. CASE SummarizerReadsHistory(t)
  BY <1>1, <1>3 DEF SummarizerReadsHistory
<1>4. CASE SummarizerReadsSummary(t)
  BY <1>1, <1>2, <1>4 DEF SummarizerReadsSummary
<1>5. CASE SummarizeAndTruncate(t)
  BY <1>2, <1>5 DEF SummarizeAndTruncate
<1>6. CASE SummaryFails(t)
  BY <1>2, <1>6 DEF SummaryFails
<1>7. CASE SummarizerSnapshot(t)
  BY <1>1, <1>7 DEF SummarizerSnapshot
<1>8. ASSUME NEW ok, SummarizerRename(t, ok) PROVE Summarizing'
  BY <1>2, <1>8 DEF SummarizerRename
<1>9. CASE Release(t)
  <2>1. /\ summarizer' = [summarizer EXCEPT ![t] = NoSummarizer]
        /\ guard' = FALSE /\ summarizer[t].pc # "idle"
    BY <1>9 DEF Release
  <2>2. \A u \in Turns : summarizer'[u].pc = "idle"
    BY <1>0, <2>1 DEF Summarizing, OneSummarizer
  <2>3. SummarizersTyped'
    BY <1>0, <2>1 DEF Summarizing, SummarizersTyped
  <2> QED
    BY <2>2, <2>3 DEF Summarizing, OneSummarizer
<1> QED
  BY <1>3, <1>4, <1>5, <1>6, <1>7, <1>8, <1>9 DEF SummarizerStep

(* A turn that ends starts a summariser only if the guard is free, that is,*)
(* if nobody is at work.                                                   *)
LEMMA TurnsStartOne ==
    ASSUME Summarizing, NEW t \in Turns, NEW toobig, MaybeSummarize(t, toobig)
    PROVE  Summarizing'
<1>1. CASE toobig /\ ~guard
  <2>1. /\ guard' = TRUE
        /\ summarizer' = [summarizer EXCEPT ![t] = [summarizer[t] EXCEPT !.pc = "history"]]
    BY <1>1 DEF MaybeSummarize, Summarizing, SummarizersTyped
  <2>2. \A u \in Turns : summarizer[u].pc = "idle"
    BY <1>1 DEF Summarizing, OneSummarizer
  <2>3. SummarizersTyped'
    BY <2>1 DEF Summarizing, SummarizersTyped
  <2>4. \A u \in Turns \ {t} : summarizer'[u].pc = "idle"
    BY <2>1, <2>2 DEF Summarizing, SummarizersTyped
  <2> QED
    BY <2>1, <2>3, <2>4 DEF Summarizing, OneSummarizer
<1>2. CASE UNCHANGED background
  BY <1>2 DEF background, Summarizing, SummarizersTyped, OneSummarizer
<1> QED
  BY <1>1, <1>2 DEF MaybeSummarize

(* Every step keeps the summarisers apart.                                 *)
LEMMA SummarizingNext == Summarizing /\ [Next]_vars => Summarizing'
<1> SUFFICES ASSUME Summarizing, [Next]_vars PROVE Summarizing'
  OBVIOUS
<1>1. CASE UNCHANGED background
  BY <1>1 DEF background, Summarizing, SummarizersTyped, OneSummarizer
<1>2. ASSUME NEW t \in Turns, MessageArrives(t) \/ TurnStep(t) PROVE Summarizing'
  <2>1. ASSUME NEW toobig \in BOOLEAN, MaybeSummarize(t, toobig) PROVE Summarizing'
    BY <2>1, TurnsStartOne
  <2>2. CASE ReadHistory(t) \/ ReadSummary(t) \/ AddUserMessage(t) \/ ToolReturns(t)
             \/ NextIteration(t) \/ Answer(t) \/ EndOnTerminalTools(t) \/ ProviderFails(t)
    BY <1>1, <2>2 DEF ReadHistory, ReadSummary, AddUserMessage, ToolReturns, NextIteration,
       Answer, EndOnTerminalTools, ProviderFails
  <2>3. CASE RetryWithoutTools(t) \/ ContextError(t) \/ CompressRead(t) \/ CompressWrite(t)
             \/ Snapshot(t)
    BY <1>1, <2>3 DEF RetryWithoutTools, ContextError, CompressRead, CompressWrite, Snapshot
  <2>4. ASSUME NEW width \in 1..MaxCalls, CallTools(t, width) PROVE Summarizing'
    BY <1>1, <2>4 DEF CallTools
  <2>5. ASSUME NEW ok \in BOOLEAN, Rename(t, ok) PROVE Summarizing'
    BY <1>1, <2>5 DEF Rename
  <2> QED
    BY <1>2, <2>1, <2>2, <2>3, <2>4, <2>5 DEF MessageArrives, TurnStep
<1>3. ASSUME NEW t \in Turns, SummarizerStep(t) PROVE Summarizing'
  BY <1>3, SummarizerGoesOn
<1>4. CASE CrashAndRestart
  BY <1>4 DEF CrashAndRestart, NoSummarizer, Summarizing, SummarizersTyped, Fields, OneSummarizer
<1>5. CASE UNCHANGED vars
  BY <1>1, <1>5 DEF vars, background
<1> QED
  BY <1>2, <1>3, <1>4, <1>5 DEF Next

(* However many turns end at once, and whatever the provider and the disk  *)
(* do, at most one summariser works on the session, under its guard.       *)
THEOREM NeverTwoSummarizers == Spec => []OneSummarizer
BY SummarizingInit, SummarizingNext, PTL DEF Spec, Summarizing

-----------------------------------------------------------------------------
(* Sequences: induction over data, by the least number.                    *)

(* A set of natural numbers that is not empty has a least element: this    *)
(* is how the lemmas about recursive functions are proved.                 *)
LEMMA LeastNumber ==
    ASSUME NEW T \in SUBSET Nat, T # {}
    PROVE  \E x \in T : \A y \in T : x <= y
<1> DEFINE R == OpToRel(<, Nat)
<1>1. PICK x \in T : \A y \in T : <<y, x>> \notin R
  <2>1. IsWellFoundedOn(R, Nat)
    BY NatLessThanWellFounded
  <2> HIDE DEF R
  <2> QED
    BY <2>1, WFMin
<1>2. \A y \in T : ~(y < x)
  BY <1>1 DEF OpToRel
<1> QED
  BY <1>2

(* So what holds of 0, and of each successor up to n, holds up to n.       *)
LEMMA UpTo ==
    ASSUME NEW n \in Nat, NEW T \in SUBSET Nat, 0 \in T,
           \A k \in 1..n : k - 1 \in T => k \in T
    PROVE  0..n \subseteq T
<1> SUFFICES ASSUME 0..n \ T # {} PROVE FALSE
  OBVIOUS
<1>1. PICK k \in 0..n \ T : \A j \in 0..n \ T : k <= j
  <2>1. 0..n \ T \in SUBSET Nat
    OBVIOUS
  <2> QED
    BY <2>1, LeastNumber
<1>2. k # 0 /\ k - 1 \in 0..n /\ ~(k <= k - 1)
  BY <1>1
<1>3. k - 1 \in T
  BY <1>1, <1>2
<1> QED
  BY <1>1, <1>2, <1>3

(* The recursive function by which FlattenSeq is defined.                  *)
Flattens(f, seqs, n) ==
    f = [i \in 1..n |-> IF i = 1 THEN seqs[i] ELSE f[i - 1] \o seqs[i]]

(* There is one.                                                           *)
LEMMA FlattenExists ==
    ASSUME NEW n \in Nat, NEW seqs
    PROVE  \E f : Flattens(f, seqs, n)
<1> DEFINE T == {k \in Nat : \E f : Flattens(f, seqs, k)}
<1>1. 0 \in T
  <2>1. [i \in 1..0 |-> << >>] = [i \in 1..0 |-> IF i = 1 THEN seqs[i]
           ELSE [j \in 1..0 |-> << >>][i - 1] \o seqs[i]]
    OBVIOUS
  <2> QED
    BY <2>1 DEF Flattens
<1>2. ASSUME NEW k \in 1..n, k - 1 \in T PROVE k \in T
  <2>1. PICK f : Flattens(f, seqs, k - 1)
    BY <1>2
  <2>2. \A i \in 1..(k - 1) : f[i] = IF i = 1 THEN seqs[i] ELSE f[i - 1] \o seqs[i]
    BY <2>1 DEF Flattens
  <2> DEFINE g == [i \in 1..k |-> IF i < k THEN f[i]
                                  ELSE IF i = 1 THEN seqs[i] ELSE f[i - 1] \o seqs[i]]
  <2>3. \A i \in 1..k : g[i] = IF i = 1 THEN seqs[i] ELSE g[i - 1] \o seqs[i]
    <3> TAKE i \in 1..k
    <3>1. CASE i = 1
      BY <2>2, <3>1
    <3>2. CASE i # 1
      <4>1. i - 1 \in 1..k /\ i - 1 < k /\ g[i - 1] = f[i - 1]
        BY <3>2
      <4>2. g[i] = f[i - 1] \o seqs[i]
        <5>1. CASE i < k
          <6>1. i \in 1..(k - 1)
            BY <5>1
          <6> QED
            BY <2>2, <3>2, <5>1, <6>1
        <5> QED
          BY <3>2, <5>1
      <4> QED
        BY <3>2, <4>1, <4>2
    <3> QED
      BY <3>1, <3>2
  <2>4. Flattens(g, seqs, k)
    <3>1. g = [i \in 1..k |-> g[i]]
      OBVIOUS
    <3> HIDE DEF g
    <3> QED
      BY <2>3, <3>1 DEF Flattens
  <2> QED
    BY <2>4
<1>3. 0..n \subseteq T
  <2> HIDE DEF T
  <2>1. T \in SUBSET Nat
    BY DEF T
  <2> QED
    BY <1>1, <1>2, <2>1, UpTo
<1> QED
  BY <1>3

(* What FlattenSeq returns: a sequence of what the parts hold, in which two*)
(* elements stand in the order given by their parts.                       *)
LEMMA FlattenFacts ==
    ASSUME NEW S, NEW n \in Nat, NEW seqs \in [1..n -> Seq(S)], NEW Before,
           \A p \in 1..n : \A i, j \in DOMAIN seqs[p] :
              i < j => <<seqs[p][i], seqs[p][j]>> \in Before,
           \A p, q \in 1..n : p < q =>
              \A i \in DOMAIN seqs[p], j \in DOMAIN seqs[q] :
                 <<seqs[p][i], seqs[q][j]>> \in Before
    PROVE  /\ FlattenSeq(seqs) \in Seq(S)
           /\ \A x : x \in Elements(FlattenSeq(seqs))
                 <=> \E p \in 1..n : x \in Elements(seqs[p])
           /\ \A i, j \in DOMAIN FlattenSeq(seqs) :
                 i < j => <<FlattenSeq(seqs)[i], FlattenSeq(seqs)[j]>> \in Before
<1>0. Len(seqs) = n /\ DOMAIN seqs = 1..n
  OBVIOUS
<1>1. CASE n = 0
  <2>1. FlattenSeq(seqs) = seqs /\ seqs = << >>
    BY <1>0, <1>1 DEF FlattenSeq
  <2> QED
    BY <1>1, <2>1 DEF Elements
<1>2. CASE n # 0
  <2> DEFINE f == CHOOSE f : Flattens(f, seqs, n)
  <2>1. FlattenSeq(seqs) = f[n]
    BY <1>0, <1>2 DEF FlattenSeq, Flattens
  <2>2. \A i \in 1..n : f[i] = IF i = 1 THEN seqs[i] ELSE f[i - 1] \o seqs[i]
    <3>1. Flattens(f, seqs, n)
      BY FlattenExists
    <3> HIDE DEF f
    <3> QED
      BY <3>1 DEF Flattens
  <2> HIDE DEF f
  <2> DEFINE P(k) ==
        /\ f[k] \in Seq(S)
        /\ \A x : x \in Elements(f[k]) <=> \E p \in 1..k : x \in Elements(seqs[p])
        /\ \A i, j \in DOMAIN f[k] : i < j => <<f[k][i], f[k][j]>> \in Before
  <2> DEFINE T == {k \in Nat : k # 0 => P(k)}
  <2>3. 0 \in T
    OBVIOUS
  <2>4. ASSUME NEW k \in 1..n, k - 1 \in T PROVE k \in T
    <3>1. CASE k = 1
      <4>1. f[k] = seqs[1]
        BY <2>2, <3>1
      <4> QED
        BY <3>1, <4>1
    <3>2. CASE k # 1
      <4>1. k - 1 \in 1..n /\ P(k - 1)
        BY <2>4, <3>2
      <4>2. f[k] = f[k - 1] \o seqs[k] /\ seqs[k] \in Seq(S)
        BY <2>2, <3>2
      <4> DEFINE a == f[k - 1]
                 b == seqs[k]
      <4>3. a \in Seq(S) /\ b \in Seq(S) /\ f[k] = a \o b
        BY <4>1, <4>2
      <4>4. /\ f[k] \in Seq(S)
            /\ DOMAIN f[k] = 1..(Len(a) + Len(b))
            /\ DOMAIN a = 1..Len(a) /\ DOMAIN b = 1..Len(b)
            /\ \A i \in 1..Len(a) : f[k][i] = a[i]
            /\ \A i \in 1..Len(b) : f[k][Len(a) + i] = b[i]
            /\ \A i \in (Len(a) + 1)..(Len(a) + Len(b)) : f[k][i] = b[i - Len(a)]
        BY <4>3
      <4>5. \A x : x \in Elements(f[k]) <=> x \in Elements(a) \/ x \in Elements(b)
        <5>1. ASSUME NEW i \in DOMAIN f[k] PROVE f[k][i] \in Elements(a) \cup Elements(b)
          <6>1. CASE i <= Len(a)
            BY <4>3, <4>4, <6>1 DEF Elements
          <6>2. CASE i > Len(a)
            <7>1. i - Len(a) \in DOMAIN b /\ f[k][i] = b[i - Len(a)]
              BY <4>3, <4>4, <6>2
            <7> QED
              BY <7>1 DEF Elements
          <6> QED
            BY <4>3, <4>4, <6>1, <6>2
        <5>2. ASSUME NEW i \in DOMAIN a PROVE a[i] \in Elements(f[k])
          BY <4>3, <4>4 DEF Elements
        <5>3. ASSUME NEW i \in DOMAIN b PROVE b[i] \in Elements(f[k])
          <6>1. Len(a) + i \in DOMAIN f[k]
            BY <4>3, <4>4
          <6> QED
            BY <4>4, <6>1 DEF Elements
        <5> HIDE DEF a, b
        <5> QED
          BY <5>1, <5>2, <5>3 DEF Elements
      <4>6. \A x : x \in Elements(f[k]) <=> \E p \in 1..k : x \in Elements(seqs[p])
        <5>1. 1..k = 1..(k - 1) \cup {k}
          OBVIOUS
        <5> QED
          BY <4>1, <4>5, <5>1
      <4>7. ASSUME NEW i \in DOMAIN f[k], NEW j \in DOMAIN f[k], i < j
            PROVE  <<f[k][i], f[k][j]>> \in Before
        <5>1. CASE j <= Len(a)
          BY <4>1, <4>3, <4>4, <4>7, <5>1
        <5>2. CASE i > Len(a)
          <6>0. /\ i \in Nat /\ j \in Nat /\ Len(a) \in Nat /\ j > Len(a)
                /\ i \in (Len(a) + 1)..(Len(a) + Len(b))
                /\ j \in (Len(a) + 1)..(Len(a) + Len(b))
            BY <4>3, <4>4, <4>7, <5>2
          <6>1. /\ i - Len(a) \in DOMAIN b /\ j - Len(a) \in DOMAIN b
                /\ i - Len(a) < j - Len(a)
                /\ f[k][i] = b[i - Len(a)] /\ f[k][j] = b[j - Len(a)]
            <7> HIDE DEF a, b
            <7>1. i - Len(a) \in 1..Len(b) /\ j - Len(a) \in 1..Len(b)
                  /\ i - Len(a) < j - Len(a)
              BY <4>3, <4>7, <6>0
            <7> QED
              BY <4>4, <6>0, <7>1
          <6>2. <<b[i - Len(a)], b[j - Len(a)]>> \in Before
            <7> HIDE DEF a
            <7> QED
              BY <6>1
          <6> QED
            BY <6>1, <6>2
        <5>3. CASE i <= Len(a) /\ j > Len(a)
          <6>1. j - Len(a) \in DOMAIN b /\ f[k][j] = b[j - Len(a)] /\ f[k][i] = a[i]
            BY <4>3, <4>4, <4>7, <5>3
          <6>2. a[i] \in Elements(a)
            BY <4>3, <4>4, <4>7, <5>3 DEF Elements
          <6>3. PICK p \in 1..(k - 1) : a[i] \in Elements(seqs[p])
            BY <4>1, <6>2
          <6>4. PICK l \in DOMAIN seqs[p] : a[i] = seqs[p][l]
            BY <6>3 DEF Elements
          <6> QED
            BY <6>1, <6>3, <6>4
        <5> QED
          <6>1. i \in Nat /\ j \in Nat /\ Len(a) \in Nat
            BY <4>3, <4>4
          <6> QED
            BY <4>7, <5>1, <5>2, <5>3, <6>1
      <4>8. P(k)
        BY <4>4, <4>6, <4>7
      <4> QED
        BY <4>8
    <3> QED
      BY <3>1, <3>2
  <2>5. 0..n \subseteq T
    <3> HIDE DEF T
    <3>1. T \in SUBSET Nat
      BY DEF T
    <3> QED
      BY <2>3, <2>4, <3>1, UpTo
  <2>6. P(n)
    <3>1. n \in T
      <4> HIDE DEF T
      <4> QED
        BY <2>5
    <3> QED
      BY <1>2, <3>1
  <2> QED
    BY <2>1, <2>6
<1> QED
  BY <1>1, <1>2

-----------------------------------------------------------------------------
(* What the functions of Transcript keep of the order.                     *)

(* What may stand before what in a transcript.  It says more than InOrder: *)
(* only tool results may share their place in the turn.                    *)
InPlace(a, b) ==
    a.turn = b.turn /\ "note" \notin {a.role, b.role} =>
        a # b /\ Rank(a) <= Rank(b) /\ (b.role # "tool" => Rank(a) < Rank(b))

Placed(s) == \A p, q \in DOMAIN s : p < q => InPlace(s[p], s[q])

Before == {pair \in Messages \X Messages : InPlace(pair[1], pair[2])}

(* The rank of a message follows from its role and its iteration.          *)
LEMMA RankFacts ==
    ASSUME NEW m \in Messages, m.role # "note"
    PROVE  /\ Rank(m) \in Nat /\ m.n \in Nat
           /\ m.role = "user" => Rank(m) = 0
           /\ m.role = "call" => Rank(m) = 2 * m.n
           /\ m.role = "tool" => Rank(m) = 2 * m.n + 1
           /\ m.role = "assistant" => Rank(m) = 2 * m.n + 2
           /\ m.role \in {"user", "call", "tool", "assistant"}
BY DEF Messages, Roles, Rank

(* Messages in their places are in order.                                  *)
LEMMA PlacedInOrder == \A s : Placed(s) => InOrder(s)
BY DEF Placed, InPlace, InOrder

(* The end of a transcript in order is in order.                           *)
LEMMA SuffixFacts ==
    ASSUME NEW S, NEW s \in Seq(S), NEW k \in 1..(Len(s) + 1)
    PROVE  /\ SubSeq(s, k, Len(s)) \in Seq(S)
           /\ \A x : x \in Elements(SubSeq(s, k, Len(s)))
                        <=> \E p \in k..Len(s) : s[p] = x
           /\ Placed(s) => Placed(SubSeq(s, k, Len(s)))
<1> DEFINE e == SubSeq(s, k, Len(s))
<1>1. /\ e \in Seq(S) /\ DOMAIN e = 1..(Len(s) + 1 - k)
      /\ \A p \in 1..(Len(s) + 1 - k) : e[p] = s[k + p - 1]
  BY SubSeqProperties
<1>2. ASSUME NEW p \in DOMAIN e PROVE k + p - 1 \in k..Len(s) /\ k + p - 1 \in DOMAIN s
  BY <1>1
<1>3. ASSUME NEW p \in k..Len(s) PROVE p - k + 1 \in DOMAIN e /\ e[p - k + 1] = s[p]
  BY <1>1
<1> HIDE DEF e
<1>4. \A x : x \in Elements(e) <=> \E p \in k..Len(s) : s[p] = x
  <2>1. ASSUME NEW p \in DOMAIN e PROVE \E q \in k..Len(s) : s[q] = e[p]
    BY <1>1, <1>2
  <2>2. ASSUME NEW p \in k..Len(s) PROVE s[p] \in Elements(e)
    BY <1>3 DEF Elements
  <2> QED
    BY <2>1, <2>2 DEF Elements
<1>5. ASSUME Placed(s), NEW p \in DOMAIN e, NEW q \in DOMAIN e, p < q
      PROVE  InPlace(e[p], e[q])
  <2>1. k + p - 1 < k + q - 1
    BY <1>1, <1>5
  <2> QED
    BY <1>1, <1>2, <1>5, <2>1 DEF Placed
<1> QED
  BY <1>1, <1>4, <1>5 DEF Placed, e

(* A result comes after its call, so that whoever keeps the call keeps the *)
(* result.                                                                 *)
LEMMA SuffixKeepsResults ==
    ASSUME NEW s \in Seq(Messages), Placed(s), NEW k \in 1..(Len(s) + 1),
           NEW m \in Elements(SubSeq(s, k, Len(s))), m.role = "call",
           NEW r \in Results(m), r \in Elements(s)
    PROVE  r \in Elements(SubSeq(s, k, Len(s)))
<1>1. PICK p \in k..Len(s) : s[p] = m
  BY SuffixFacts
<1>2. PICK q \in 1..Len(s) : s[q] = r
  BY DEF Elements
<1>3. m \in Messages /\ r \in Messages
  BY <1>1, <1>2
<1>4. r.turn = m.turn /\ r.role = "tool" /\ r.n = m.n
  BY DEF Results, ToolResult, Message
<1>5. Rank(m) = 2 * m.n /\ Rank(r) = 2 * m.n + 1 /\ m.n \in Nat
  BY <1>3, <1>4, RankFacts
<1>6. ~(q < p)
  <2>1. ~InPlace(r, m)
    BY <1>4, <1>5 DEF InPlace
  <2> QED
    BY <1>1, <1>2, <2>1 DEF Placed
<1>7. q \in k..Len(s)
  BY <1>1, <1>2, <1>6
<1> QED
  BY <1>2, <1>7, SuffixFacts

(* Only results of tools are stripped from the head of a prompt.           *)
LEMMA StripFacts ==
    ASSUME NEW h \in Seq(Messages)
    PROVE  /\ StripLeadingTools(h) \in Seq(Messages)
           /\ Placed(h) => Placed(StripLeadingTools(h))
           /\ Elements(StripLeadingTools(h)) \subseteq Elements(h)
           /\ \A m \in Elements(h) : m.role # "tool" => m \in Elements(StripLeadingTools(h))
<1> DEFINE I == {p \in 1..Len(h) : h[p].role # "tool"}
           first == SelectInSeq(h, LAMBDA m : m.role # "tool")
<1>1. StripLeadingTools(h) = IF first = 0 THEN << >> ELSE SubSeq(h, first, Len(h))
  BY DEF StripLeadingTools
<1>2. CASE I = {}
  <2>1. first = 0
    BY <1>2 DEF SelectInSeq
  <2> QED
    BY <1>1, <1>2, <2>1 DEF Elements, Placed
<1>3. CASE I # {}
  <2>1. PICK p \in I : \A q \in I : p <= q
    <3>1. I \in SUBSET Nat
      OBVIOUS
    <3> QED
      BY <1>3, <3>1, LeastNumber
  <2>2. first = Min(I)
    BY <1>3 DEF SelectInSeq
  <2>3. first \in I /\ \A q \in I : first <= q
    BY <2>1, <2>2 DEF Min
  <2>4. first # 0 /\ first \in 1..(Len(h) + 1)
    <3> HIDE DEF first
    <3> QED
      BY <2>3
  <2> HIDE DEF first
  <2>5. StripLeadingTools(h) = SubSeq(h, first, Len(h))
    BY <1>1, <2>4
  <2>6. \A m \in Elements(h) : m.role # "tool" => m \in Elements(SubSeq(h, first, Len(h)))
    <3> SUFFICES ASSUME NEW m \in Elements(h), m.role # "tool"
                 PROVE  m \in Elements(SubSeq(h, first, Len(h)))
      OBVIOUS
    <3>0. PICK q \in 1..Len(h) : h[q] = m
      BY DEF Elements
    <3>1. q \in first..Len(h)
      BY <2>3, <3>0
    <3> QED
      BY <2>4, <3>0, <3>1, SuffixFacts
  <2>7. Elements(SubSeq(h, first, Len(h))) \subseteq Elements(h)
    BY <2>3, <2>4, SuffixFacts DEF Elements
  <2> QED
    BY <2>4, <2>5, <2>6, <2>7, SuffixFacts
<1> QED
  BY <1>2, <1>3

(* A compression keeps an end of the history, behind a note.               *)
LEMMA CompressedFacts ==
    ASSUME NEW t \in Turns, NEW h \in Seq(Messages)
    PROVE  \E k \in 1..(Len(h) + 1) :
              /\ Compressed(t, h) = <<Note(t, k - 1)>> \o SubSeq(h, k, Len(h))
              /\ Note(t, k - 1) \in Messages
<1> DEFINE dropCount == Len(h) \div 2
<1>1. dropCount \in 0..Len(h)
  OBVIOUS
<1>2. Note(t, dropCount) \in Messages
  BY <1>1 DEF Note, Message, Messages, Roles
<1>3. Compressed(t, h) = <<Note(t, dropCount)>> \o SubSeq(h, dropCount + 1, Len(h))
  BY DEF Compressed
<1> HIDE DEF dropCount
<1>4. dropCount + 1 \in 1..(Len(h) + 1) /\ (dropCount + 1) - 1 = dropCount
  BY <1>1
<1> QED
  BY <1>2, <1>3, <1>4

(* A note may stand anywhere.                                              *)
LEMMA NoteFirst ==
    ASSUME NEW s \in Seq(Messages), NEW m \in Messages, m.role = "note"
    PROVE  /\ <<m>> \o s \in Seq(Messages)
           /\ Elements(<<m>> \o s) = {m} \cup Elements(s)
           /\ Placed(s) => Placed(<<m>> \o s)
<1> DEFINE e == <<m>> \o s
<1>1. e \in Seq(Messages) /\ DOMAIN e = 1..(Len(s) + 1) /\ e[1] = m
      /\ \A p \in 2..(Len(s) + 1) : e[p] = s[p - 1] /\ p - 1 \in DOMAIN s
  OBVIOUS
<1>2. \A p \in DOMAIN s : p + 1 \in 2..(Len(s) + 1) /\ e[p + 1] = s[p]
  OBVIOUS
<1> HIDE DEF e
<1>3. Elements(e) = {m} \cup Elements(s)
  <2>1. ASSUME NEW p \in DOMAIN e PROVE e[p] \in {m} \cup Elements(s)
    BY <1>1 DEF Elements
  <2>2. ASSUME NEW p \in DOMAIN s PROVE s[p] \in Elements(e)
    <3>1. p + 1 \in DOMAIN e /\ e[p + 1] = s[p]
      BY <1>1, <1>2
    <3> QED
      BY <3>1 DEF Elements
  <2>3. m \in Elements(e)
    BY <1>1 DEF Elements
  <2> QED
    BY <2>1, <2>2, <2>3 DEF Elements
<1>4. ASSUME Placed(s), NEW p \in DOMAIN e, NEW q \in DOMAIN e, p < q
      PROVE  InPlace(e[p], e[q])
  <2>1. CASE p = 1
    BY <1>1, <2>1 DEF InPlace
  <2>2. CASE p # 1
    <3>1. /\ p - 1 \in DOMAIN s /\ q - 1 \in DOMAIN s /\ p - 1 < q - 1
          /\ e[p] = s[p - 1] /\ e[q] = s[q - 1]
      BY <1>1, <1>4, <2>2
    <3> QED
      BY <1>4, <3>1 DEF Placed
  <2> QED
    BY <2>1, <2>2
<1> QED
  BY <1>1, <1>3, <1>4 DEF Placed, e

(* What may be summarised: all of it comes from the part to summarise, and *)
(* all that can be is there.                                               *)
LEMMA ValidFacts ==
    ASSUME NEW h \in Seq(Messages), NEW keep \in Nat, NEW oversized
    PROVE  /\ ValidMessages(h, keep, oversized) \in Seq(Messages)
           /\ Elements(ValidMessages(h, keep, oversized)) \subseteq Elements(h)
           /\ \A p \in 1..(Len(h) - keep) : Summarizable(h[p], oversized) =>
                 h[p] \in Elements(ValidMessages(h, keep, oversized))
<1> DEFINE n == IF Len(h) > keep THEN Len(h) - keep ELSE 0
           seqs == [p \in 1..n |-> IF Summarizable(h[p], oversized) THEN <<h[p]>> ELSE << >>]
<1>1. n \in Nat /\ 1..n = 1..(Len(h) - keep) /\ n <= Len(h)
  OBVIOUS
<1>2. ValidMessages(h, keep, oversized) = FlattenSeq(seqs)
  BY <1>1 DEF ValidMessages
<1> HIDE DEF n
<1>3. seqs \in [1..n -> Seq(Messages)]
  <2>1. ASSUME NEW p \in 1..n PROVE seqs[p] \in Seq(Messages)
    <3>1. h[p] \in Messages
      BY <1>1
    <3> QED
      BY <3>1
  <2> QED
    BY <2>1
<1>4. \A p \in 1..n : /\ DOMAIN seqs[p] \subseteq {1}
                      /\ \A i \in DOMAIN seqs[p] : seqs[p][i] = h[p]
                      /\ Summarizable(h[p], oversized) => 1 \in DOMAIN seqs[p]
  OBVIOUS
<1> HIDE DEF seqs
<1>5. \A p \in 1..n : \A i \in DOMAIN seqs[p] : seqs[p][i] \in Messages
  BY <1>1, <1>4
<1>6. /\ FlattenSeq(seqs) \in Seq(Messages)
      /\ \A x : x \in Elements(FlattenSeq(seqs)) <=> \E p \in 1..n : x \in Elements(seqs[p])
  <2> DEFINE Pairs == Messages \X Messages
  <2>1. \A p \in 1..n : \A i, j \in DOMAIN seqs[p] :
           i < j => <<seqs[p][i], seqs[p][j]>> \in Pairs
    BY <1>5
  <2>2. \A p, q \in 1..n : p < q => \A i \in DOMAIN seqs[p], j \in DOMAIN seqs[q] :
           <<seqs[p][i], seqs[q][j]>> \in Pairs
    BY <1>5
  <2> HIDE DEF Pairs
  <2> QED
    BY <1>1, <1>3, <2>1, <2>2, FlattenFacts
<1>7. Elements(FlattenSeq(seqs)) \subseteq Elements(h)
  <2> SUFFICES ASSUME NEW p \in 1..n, NEW x \in Elements(seqs[p]) PROVE x \in Elements(h)
    BY <1>6
  <2>1. x = h[p]
    BY <1>4 DEF Elements
  <2> QED
    BY <1>1, <2>1 DEF Elements
<1>8. ASSUME NEW p \in 1..(Len(h) - keep), Summarizable(h[p], oversized)
      PROVE  h[p] \in Elements(FlattenSeq(seqs))
  <2>1. h[p] \in Elements(seqs[p])
    BY <1>1, <1>4, <1>8 DEF Elements
  <2> QED
    BY <1>1, <1>6, <2>1
<1> QED
  BY <1>2, <1>6, <1>7, <1>8

(* The two halves of what is summarised.                                   *)
LEMMA PartsFacts ==
    ASSUME NEW s \in Seq(Messages)
    PROVE  /\ Elements(FirstPart(s)) \subseteq Elements(s)
           /\ Elements(SecondPart(s)) \subseteq Elements(s)
<1>1. Len(s) \div 2 \in 0..Len(s)
  OBVIOUS
<1>2. \A p \in DOMAIN FirstPart(s) : FirstPart(s)[p] = s[p] /\ p \in DOMAIN s
  BY <1>1 DEF FirstPart
<1>3. \A x \in Elements(SecondPart(s)) : \E p \in (Len(s) \div 2 + 1)..Len(s) : s[p] = x
  BY <1>1, SuffixFacts DEF SecondPart
<1>4. Elements(SecondPart(s)) \subseteq Elements(s)
  BY <1>1, <1>3 DEF Elements
<1> QED
  BY <1>2, <1>4 DEF Elements

(* The results that the repair adds after a call.                          *)
LEMMA SyntheticFacts ==
    ASSUME NEW h, NEW m \in Messages
    PROVE  /\ Synthetic(h, m) \in Seq(Messages)
           /\ \A x : x \in Elements(Synthetic(h, m)) <=> x \in Unanswered(h, m)
           /\ \A i, j \in DOMAIN Synthetic(h, m) :
                 i < j => Synthetic(h, m)[i] # Synthetic(h, m)[j]
<1> DEFINE r(i) == ToolResult(m.turn, m.n, i)
           seqs == [i \in 1..m.i |-> IF r(i) \in Unanswered(h, m) THEN <<r(i)>> ELSE << >>]
           Distinct == {pair \in Messages \X Messages : pair[1] # pair[2]}
<1>1. m.i \in Nat /\ m.turn \in Turns /\ m.n \in Nat
  BY DEF Messages
<1>2. \A i \in 1..m.i : r(i) \in Messages /\ r(i).i = i
  BY <1>1 DEF ToolResult, Message, Messages, Roles
<1>3. Synthetic(h, m) = FlattenSeq(seqs)
  BY DEF Synthetic
<1>4. \A x : x \in Unanswered(h, m) => \E i \in 1..m.i : x = r(i)
  BY DEF Unanswered, Results
<1> HIDE DEF r
<1>5. \A p \in 1..m.i : /\ DOMAIN seqs[p] \subseteq {1}
                        /\ \A i \in DOMAIN seqs[p] : seqs[p][i] = r(p) /\ r(p) \in Unanswered(h, m)
                        /\ r(p) \in Unanswered(h, m) => 1 \in DOMAIN seqs[p]
  OBVIOUS
<1>6. seqs \in [1..m.i -> Seq(Messages)]
  BY <1>2
<1> HIDE DEF seqs
<1>7. /\ FlattenSeq(seqs) \in Seq(Messages)
      /\ \A x : x \in Elements(FlattenSeq(seqs)) <=> \E p \in 1..m.i : x \in Elements(seqs[p])
      /\ \A i, j \in DOMAIN FlattenSeq(seqs) :
            i < j => <<FlattenSeq(seqs)[i], FlattenSeq(seqs)[j]>> \in Distinct
  <2>1. \A p \in 1..m.i : \A i, j \in DOMAIN seqs[p] :
           i < j => <<seqs[p][i], seqs[p][j]>> \in Distinct
    BY <1>5
  <2>2. \A p, q \in 1..m.i : p < q => \A i \in DOMAIN seqs[p], j \in DOMAIN seqs[q] :
           <<seqs[p][i], seqs[q][j]>> \in Distinct
    BY <1>2, <1>5
  <2> HIDE DEF Distinct
  <2> QED
    BY <1>1, <1>6, <2>1, <2>2, FlattenFacts
<1>8. \A p \in 1..m.i : \A x : x \in Elements(seqs[p]) <=> x = r(p) /\ r(p) \in Unanswered(h, m)
  BY <1>5 DEF Elements
<1>9. \A x : x \in Elements(FlattenSeq(seqs)) <=> x \in Unanswered(h, m)
  <2>1. ASSUME NEW x \in Elements(FlattenSeq(seqs)) PROVE x \in Unanswered(h, m)
    <3>1. PICK p \in 1..m.i : x \in Elements(seqs[p])
      BY <1>7
    <3> QED
      BY <1>8, <3>1
  <2>2. ASSUME NEW x \in Unanswered(h, m) PROVE x \in Elements(FlattenSeq(seqs))
    <3>1. PICK p \in 1..m.i : x = r(p)
      BY <1>4
    <3>2. x \in Elements(seqs[p])
      BY <1>8, <3>1
    <3> QED
      BY <1>7, <3>2
  <2> QED
    BY <2>1, <2>2
<1>10. \A i, j \in DOMAIN FlattenSeq(seqs) :
          i < j => FlattenSeq(seqs)[i] # FlattenSeq(seqs)[j]
  BY <1>7
<1> HIDE DEF Distinct
<1> QED
  BY <1>3, <1>7, <1>9, <1>10

(* The repair keeps what there is, in order, and answers every call.       *)
LEMMA RepairFacts ==
    ASSUME NEW h \in Seq(Messages), Placed(h)
    PROVE  /\ RepairOrphanedToolCalls(h) \in Seq(Messages)
           /\ Placed(RepairOrphanedToolCalls(h))
           /\ Elements(h) \subseteq Elements(RepairOrphanedToolCalls(h))
           /\ \A x \in Elements(RepairOrphanedToolCalls(h)) \ Elements(h) :
                 \E m \in Elements(h) : x \in Unanswered(h, m) /\ x.turn = m.turn
           /\ \A m \in Elements(RepairOrphanedToolCalls(h)) :
                 Unanswered(RepairOrphanedToolCalls(h), m) = {}
<1> DEFINE n == Len(h)
           seqs == [p \in 1..n |-> <<h[p]>> \o Synthetic(h, h[p])]
           F == FlattenSeq(seqs)
<1>1. n \in Nat /\ DOMAIN h = 1..n /\ \A p \in 1..n : h[p] \in Messages /\ h[p] \in Elements(h)
  BY DEF Elements
<1>2. RepairOrphanedToolCalls(h) = F
  BY <1>1 DEF RepairOrphanedToolCalls
<1> HIDE DEF n
<1>3. ASSUME NEW p \in 1..n
      PROVE  /\ seqs[p] \in Seq(Messages)
             /\ 1 \in DOMAIN seqs[p] /\ seqs[p][1] = h[p]
             /\ \A i \in DOMAIN seqs[p] : i # 1 => seqs[p][i] \in Unanswered(h, h[p])
             /\ \A i, j \in DOMAIN seqs[p] : i < j =>
                   j # 1 /\ (i # 1 => seqs[p][i] # seqs[p][j])
             /\ \A x : x \in Elements(seqs[p]) <=> x = h[p] \/ x \in Unanswered(h, h[p])
  <2> DEFINE s == Synthetic(h, h[p])
             e == <<h[p]>> \o s
  <2>1. /\ s \in Seq(Messages) /\ \A x : x \in Elements(s) <=> x \in Unanswered(h, h[p])
        /\ \A i, j \in DOMAIN s : i < j => s[i] # s[j]
    BY <1>1, SyntheticFacts
  <2>2. seqs[p] = e
    OBVIOUS
  <2> HIDE DEF s, seqs
  <2>3. /\ e \in Seq(Messages) /\ DOMAIN e = 1..(Len(s) + 1) /\ e[1] = h[p]
        /\ \A i \in 2..(Len(s) + 1) : e[i] = s[i - 1] /\ i - 1 \in DOMAIN s
        /\ \A i \in DOMAIN s : i + 1 \in 2..(Len(s) + 1) /\ e[i + 1] = s[i]
    BY <1>1, <2>1
  <2> HIDE DEF e
  <2>4. \A i \in DOMAIN s : s[i] \in Unanswered(h, h[p])
    BY <2>1 DEF Elements
  <2>5. \A x \in Unanswered(h, h[p]) : \E i \in DOMAIN e : e[i] = x
    <3> TAKE x \in Unanswered(h, h[p])
    <3>1. PICK i \in DOMAIN s : s[i] = x
      BY <2>1 DEF Elements
    <3>2. i + 1 \in DOMAIN e /\ e[i + 1] = x
      BY <2>1, <2>3, <3>1
    <3> QED
      BY <3>2
  <2>6. ASSUME NEW i \in DOMAIN e, NEW j \in DOMAIN e, i < j
        PROVE  j # 1 /\ (i # 1 => e[i] # e[j])
    <3>1. Len(s) \in Nat
      BY <2>1
    <3>2. CASE i = 1
      BY <2>3, <2>6, <3>1, <3>2
    <3>3. CASE i # 1
      <4>1. i - 1 \in DOMAIN s /\ j - 1 \in DOMAIN s /\ i - 1 < j - 1 /\ j # 1
        BY <2>3, <2>6, <3>1, <3>3
      <4>2. e[i] = s[i - 1] /\ e[j] = s[j - 1]
        BY <2>3, <2>6, <3>1, <3>3
      <4> QED
        BY <2>1, <4>1, <4>2
    <3> QED
      BY <3>2, <3>3
  <2>7. ASSUME NEW i \in DOMAIN e, i # 1 PROVE e[i] \in Unanswered(h, h[p])
    <3>1. Len(s) \in Nat
      BY <2>1
    <3> QED
      BY <2>3, <2>4, <2>7, <3>1
  <2>8. \A x : x \in Elements(e) <=> x = h[p] \/ x \in Unanswered(h, h[p])
    <3>1. 1 \in DOMAIN e
      BY <2>1, <2>3
    <3>2. \A i \in DOMAIN e : e[i] = h[p] \/ e[i] \in Unanswered(h, h[p])
      BY <2>3, <2>7
    <3>3. h[p] \in Elements(e)
      <4>1. e[1] = h[p]
        BY <2>3
      <4> QED
        BY <3>1, <4>1 DEF Elements
    <3>4. \A x \in Unanswered(h, h[p]) : x \in Elements(e)
      BY <2>5 DEF Elements
    <3> QED
      BY <3>2, <3>3, <3>4 DEF Elements
  <2>9. 1 \in DOMAIN e
    BY <2>1, <2>3
  <2> QED
    BY <2>2, <2>3, <2>6, <2>7, <2>8, <2>9
<1>4. seqs \in [1..n -> Seq(Messages)]
  BY <1>3
<1> HIDE DEF seqs
<1>5. ASSUME NEW m \in Messages, NEW r \in Unanswered(h, m)
      PROVE  /\ r \in Messages /\ r.turn = m.turn /\ r.role = "tool" /\ r.n = m.n
             /\ m.role = "call" /\ r \notin Elements(h)
             /\ Rank(m) = 2 * m.n /\ Rank(r) = 2 * m.n + 1 /\ m.n \in Nat
  <2>1. PICK i \in 1..m.i : r = ToolResult(m.turn, m.n, i)
    BY DEF Unanswered, Results
  <2>2. r \in Messages /\ r.turn = m.turn /\ r.role = "tool" /\ r.n = m.n
    BY <2>1 DEF ToolResult, Message, Messages, Roles
  <2>3. m.role = "call" /\ r \notin Elements(h)
    BY DEF Unanswered
  <2> QED
    BY <2>2, <2>3, RankFacts
<1>6. ASSUME NEW p \in 1..n, NEW i \in DOMAIN seqs[p], NEW j \in DOMAIN seqs[p], i < j
      PROVE  <<seqs[p][i], seqs[p][j]>> \in Before
  <2> DEFINE a == seqs[p][i]
             b == seqs[p][j]
  <2>1. b \in Unanswered(h, h[p]) /\ (a = h[p] \/ a \in Unanswered(h, h[p])) /\ (i # 1 => a # b)
    BY <1>3, <1>6
  <2>2. i = 1 => a = h[p]
    BY <1>3
  <2>3. a # b
    BY <1>1, <2>1, <2>2, <1>5
  <2> HIDE DEF a, b
  <2>4. InPlace(a, b) /\ a \in Messages /\ b \in Messages
    BY <1>1, <1>5, <2>1, <2>3 DEF InPlace
  <2> QED
    BY <2>4 DEF Before, a, b
<1>7. ASSUME NEW p \in 1..n, NEW q \in 1..n, p < q,
             NEW i \in DOMAIN seqs[p], NEW j \in DOMAIN seqs[q]
      PROVE  <<seqs[p][i], seqs[q][j]>> \in Before
  <2> DEFINE a == seqs[p][i]
             b == seqs[q][j]
             c == h[p]
             d == h[q]
  <2>1. /\ a = c \/ a \in Unanswered(h, c)
        /\ b = d \/ b \in Unanswered(h, d)
    BY <1>3
  <2>2. c \in Messages /\ d \in Messages /\ InPlace(c, d) /\ c \in Elements(h) /\ d \in Elements(h)
    BY <1>1, <1>7 DEF Placed
  <2> HIDE DEF a, b, c, d
  <2>3. a \in Messages /\ b \in Messages
    BY <1>5, <2>1, <2>2
  <2>8. SUFFICES InPlace(a, b)
    BY <2>3 DEF Before, a, b
  <2>4. CASE a = c /\ b = d
    BY <2>2, <2>4
  <2>5. CASE a = c /\ b \in Unanswered(h, d)
    BY <1>5, <2>2, <2>5, RankFacts DEF InPlace
  <2>6. CASE a \in Unanswered(h, c) /\ b = d
    <3>1. SUFFICES ASSUME c.turn = d.turn, d.role # "note" PROVE InPlace(a, b)
      BY <1>5, <2>2, <2>6 DEF InPlace
    <3>2. a # b
      BY <1>5, <2>2, <2>6
    <3>3. /\ Rank(a) = 2 * c.n + 1 /\ Rank(c) = 2 * c.n /\ c.n \in Nat
          /\ Rank(c) <= Rank(d) /\ (d.role # "tool" => Rank(c) < Rank(d))
      BY <1>5, <2>2, <2>6, <3>1 DEF InPlace
    <3>4. Rank(a) <= Rank(d) /\ (d.role # "tool" => Rank(a) < Rank(d))
      <4>1. /\ d.n \in Nat /\ d.role \in {"user", "call", "tool", "assistant"}
            /\ d.role = "user" => Rank(d) = 0
            /\ d.role = "call" => Rank(d) = 2 * d.n
            /\ d.role = "tool" => Rank(d) = 2 * d.n + 1
            /\ d.role = "assistant" => Rank(d) = 2 * d.n + 2
        BY <2>2, <3>1, RankFacts
      <4>2. CASE d.role = "user"
        BY <3>3, <4>1, <4>2
      <4>3. CASE d.role = "call"
        BY <3>3, <4>1, <4>3
      <4>4. CASE d.role = "tool"
        BY <3>3, <4>1, <4>4
      <4>5. CASE d.role = "assistant"
        BY <3>3, <4>1, <4>5
      <4> QED
        BY <4>1, <4>2, <4>3, <4>4, <4>5
    <3> QED
      BY <2>6, <3>2, <3>4 DEF InPlace
  <2>7. CASE a \in Unanswered(h, c) /\ b \in Unanswered(h, d)
    <3>1. SUFFICES ASSUME c.turn = d.turn PROVE InPlace(a, b)
      BY <1>5, <2>2, <2>7 DEF InPlace
    <3>2. Rank(c) < Rank(d)
      BY <1>5, <2>2, <2>7, <3>1 DEF InPlace
    <3>3. Rank(a) < Rank(b)
      BY <1>5, <2>2, <2>7, <3>2
    <3> QED
      BY <1>5, <2>2, <2>7, <3>3 DEF InPlace
  <2> QED
    BY <2>1, <2>4, <2>5, <2>6, <2>7
<1>8. /\ F \in Seq(Messages)
      /\ \A x : x \in Elements(F) <=> \E p \in 1..n : x \in Elements(seqs[p])
      /\ \A i, j \in DOMAIN F : i < j => <<F[i], F[j]>> \in Before
  BY <1>1, <1>4, <1>6, <1>7, FlattenFacts
<1> HIDE DEF F
<1>9. Placed(F)
  <2> SUFFICES ASSUME NEW i \in DOMAIN F, NEW j \in DOMAIN F, i < j PROVE InPlace(F[i], F[j])
    BY DEF Placed
  <2>1. <<F[i], F[j]>> \in Before
    BY <1>8
  <2> QED
    BY <2>1 DEF Before
<1>10. \A x : x \in Elements(F) <=> x \in Elements(h) \/ \E m \in Elements(h) : x \in Unanswered(h, m)
  <2>1. \A m : m \in Elements(h) <=> \E p \in 1..n : m = h[p]
    BY <1>1 DEF Elements
  <2>2. \A x : (\E p \in 1..n : x = h[p] \/ x \in Unanswered(h, h[p]))
                 <=> x \in Elements(h) \/ \E m \in Elements(h) : x \in Unanswered(h, m)
    BY <1>1, <2>1
  <2>3. \A x : x \in Elements(F) <=> \E p \in 1..n : x = h[p] \/ x \in Unanswered(h, h[p])
    BY <1>3, <1>8
  <2> QED
    BY <2>2, <2>3
<1>11. \A m \in Elements(h) : m \in Messages
  BY DEF Elements
<1>12. ASSUME NEW m \in Elements(F) PROVE Unanswered(F, m) = {}
  <2>1. CASE m \in Elements(h)
    BY <1>10, <2>1 DEF Unanswered
  <2>2. CASE m \notin Elements(h)
    <3>1. m.role = "tool"
      BY <1>5, <1>10, <1>11, <2>2
    <3> QED
      BY <3>1 DEF Unanswered
  <2> QED
    BY <2>1, <2>2
<1> QED
  BY <1>2, <1>5, <1>8, <1>9, <1>10, <1>11, <1>12

-----------------------------------------------------------------------------
(* The turns' records, and the types.                                      *)

(* The current message of a turn is not in the session yet.                *)
NotAdded(x) == x.pc = "idle" \/ (x.pc \in {"summary", "add"} /\ ~x.again)

(* A turn that will ask the provider next: its last round is complete.     *)
Asking(x) ==
    \/ x.pc \in {"ask", "compress", "setHistory", "rebuild"}
    \/ x.pc \in {"summary", "snapshot", "rename"} /\ x.again

Distinct(s) == \A i, j \in DOMAIN s : i # j => s[i] # s[j]

(* A turn's record fits the place the turn is at.                          *)
TurnFits(x) ==
    /\ x.pc = "idle" => x = Waiting
    /\ x.pc \in {"compress", "setHistory", "rebuild"} => x.again
    /\ x.again => /\ x.pc \in {"compress", "setHistory", "rebuild", "summary",
                               "snapshot", "rename"}
                  /\ x.retry < MaxRetries
    /\ Asking(x) \/ x.pc \in {"tools", "toolsDone"} => x.iter >= 1
    /\ x.pc = "tools" => x.left # << >> /\ Distinct(x.left)

TurnRecord == [pc : TurnPcs, read : Sessions, iter : 0..MaxIterations,
               retry : 0..MaxRetries, left : Seq(1..MaxCalls),
               again : BOOLEAN, file : Sessions]

SummarizerRecord == [pc : SummarizerPcs, read : Seq(Messages),
                     context : SUBSET Messages, file : Sessions]

ShapeInv == TypeOK /\ \A t \in Turns : TurnFits(turn[t])

(* What is assumed of the constants.                                       *)
LEMMA Bounds ==
    /\ MaxIterations \in Nat /\ MaxIterations >= 1
    /\ MaxCalls \in Nat /\ MaxCalls >= 1
    /\ 0 \in 0..MaxIterations /\ 1 \in 0..MaxIterations /\ 0 \in 0..MaxRetries
    /\ MaxRetries \in Nat /\ KeepLast \in Nat /\ CompressMin \in Nat /\ MaxCrashes \in Nat
BY AgentSessionAssumption

(* The messages that are added are messages.                               *)
LEMMA NewMessages ==
    ASSUME NEW t \in Turns, NEW n \in Nat, NEW i \in Nat
    PROVE  /\ User(t) \in Messages /\ Calls(t, n, i) \in Messages
           /\ ToolResult(t, n, i) \in Messages /\ Reply(t, n) \in Messages
BY DEF User, Calls, ToolResult, Reply, Message, Messages, Roles

(* The initial records.                                                    *)
LEMMA RecordsInit ==
    /\ EmptySession \in Sessions
    /\ Waiting \in TurnRecord /\ TurnFits(Waiting)
    /\ Ended \in TurnRecord /\ TurnFits(Ended)
    /\ [Waiting EXCEPT !.pc = "snapshot"] \in TurnRecord
    /\ TurnFits([Waiting EXCEPT !.pc = "snapshot"])
    /\ NoSummarizer \in SummarizerRecord
<1>1. EmptySession \in Sessions
  BY DEF EmptySession, Sessions
<1>2. Waiting \in TurnRecord /\ Ended \in TurnRecord /\ [Waiting EXCEPT !.pc = "snapshot"] \in TurnRecord
  <2>1. << >> \in Seq(1..MaxCalls)
    OBVIOUS
  <2> QED
    BY <1>1, <2>1, Bounds DEF Waiting, Ended, TurnRecord, TurnPcs
<1>3. NoSummarizer \in SummarizerRecord
  BY <1>1 DEF NoSummarizer, SummarizerRecord, SummarizerPcs
<1>4. TurnFits(Waiting) /\ TurnFits(Ended) /\ TurnFits([Waiting EXCEPT !.pc = "snapshot"])
  BY DEF Waiting, Ended, TurnFits, Asking
<1> QED
  BY <1>1, <1>2, <1>3, <1>4

(* One turn's record changes, and fits.                                    *)
LEMMA TurnShape ==
    ASSUME ShapeInv, NEW t \in Turns, NEW x \in TurnRecord, TurnFits(x),
           turn' = [turn EXCEPT ![t] = x],
           history' \in Seq(Messages), disk' \in Sessions,
           UNCHANGED <<summary, crashes>>, clobbered' \in BOOLEAN,
           \/ UNCHANGED background
           \/ guard' \in BOOLEAN /\ \E s \in SummarizerRecord :
                 summarizer' = [summarizer EXCEPT ![t] = s]
    PROVE  ShapeInv'
<1>1. turn' \in [Turns -> TurnRecord] /\ \A u \in Turns : TurnFits(turn'[u])
  BY DEF ShapeInv, TypeOK, TurnRecord
<1>2. summarizer' \in [Turns -> SummarizerRecord] /\ guard' \in BOOLEAN
  BY DEF ShapeInv, TypeOK, SummarizerRecord, background
<1> QED
  BY <1>1, <1>2 DEF ShapeInv, TypeOK, TurnRecord, SummarizerRecord

(* Every step of a turn keeps the types, and the record fitting.           *)
LEMMA TurnStepShape ==
    ASSUME ShapeInv, NEW t \in Turns, MessageArrives(t) \/ TurnStep(t)
    PROVE  ShapeInv'
<1> DEFINE y == turn[t]
<1>1. /\ y \in TurnRecord /\ TurnFits(y) /\ Session \in Sessions
      /\ history \in Seq(Messages) /\ disk \in Sessions /\ clobbered \in BOOLEAN
      /\ guard \in BOOLEAN
  BY DEF ShapeInv, TypeOK, TurnRecord, Session, Sessions
<1>2. DOMAIN turn = Turns
  BY DEF ShapeInv, TypeOK
<1>3. CASE ReadHistory(t)
  <2>1. turn' = [turn EXCEPT ![t] = [y EXCEPT !.pc = "summary", !.read = Session]]
    BY <1>2, <1>3 DEF ReadHistory
  <2>2. [y EXCEPT !.pc = "summary", !.read = Session] \in TurnRecord
    BY <1>1 DEF TurnRecord, TurnPcs
  <2>3. TurnFits([y EXCEPT !.pc = "summary", !.read = Session])
    BY <1>1, <1>3 DEF TurnRecord, TurnFits, Asking, ReadHistory, Waiting
  <2> QED
    BY <1>1, <1>3, <2>1, <2>2, <2>3, TurnShape DEF ReadHistory
<1>4. CASE ReadSummary(t)
  <2> DEFINE x == [y EXCEPT !.pc = IF y.again THEN "ask" ELSE "add",
                            !.read = EmptySession,
                            !.retry = IF y.again THEN @ + 1 ELSE @, !.again = FALSE]
  <2>1. turn' = [turn EXCEPT ![t] = x]
    BY <1>2, <1>4 DEF ReadSummary
  <2>2. x \in TurnRecord
    <3>1. EmptySession \in Sessions
      BY RecordsInit
    <3>2. y.again => y.retry + 1 \in 0..MaxRetries
      BY <1>1, Bounds DEF TurnRecord, TurnFits
    <3> HIDE DEF y
    <3> QED
      BY <1>1, <3>1, <3>2 DEF TurnRecord, TurnPcs
  <2>3. TurnFits(x)
    BY <1>1, <1>4 DEF TurnRecord, TurnFits, Asking, ReadSummary, BuildsPrompt
  <2> QED
    BY <1>1, <1>4, <2>1, <2>2, <2>3, TurnShape DEF ReadSummary
<1>5. CASE AddUserMessage(t)
  <2> DEFINE x == [y EXCEPT !.pc = "ask", !.iter = 1]
  <2>1. turn' = [turn EXCEPT ![t] = x]
    BY <1>2, <1>5 DEF AddUserMessage
  <2>2. x \in TurnRecord
    <3>1. 1 \in 0..MaxIterations
      BY Bounds
    <3> QED
      BY <1>1, <3>1 DEF TurnRecord, TurnPcs
  <2>3. TurnFits(x)
    BY <1>1, <1>5 DEF TurnRecord, TurnFits, Asking, AddUserMessage
  <2>4. history' \in Seq(Messages)
    <3>1. User(t) \in Messages
      BY NewMessages
    <3> QED
      BY <1>1, <1>5, <3>1 DEF AddUserMessage
  <2> QED
    BY <1>1, <1>5, <2>1, <2>2, <2>3, <2>4, TurnShape DEF AddUserMessage
<1>6. ASSUME NEW width \in 1..MaxCalls, CallTools(t, width) PROVE ShapeInv'
  <2> DEFINE l == [i \in 1..width |-> i]
             x == [y EXCEPT !.pc = "tools", !.left = l]
  <2>1. turn' = [turn EXCEPT ![t] = x]
    BY <1>2, <1>6 DEF CallTools
  <2>2. l \in Seq(1..MaxCalls) /\ l # << >> /\ Distinct(l)
    BY Bounds DEF Distinct
  <2> HIDE DEF l
  <2>3. x \in TurnRecord
    BY <1>1, <2>2 DEF TurnRecord, TurnPcs
  <2>4. TurnFits(x)
    BY <1>1, <1>6, <2>2 DEF TurnRecord, TurnFits, Asking, CallTools
  <2>5. history' \in Seq(Messages)
    BY <1>1, <1>6, NewMessages, Bounds DEF CallTools, TurnRecord
  <2> QED
    BY <1>1, <1>6, <2>1, <2>3, <2>4, <2>5, TurnShape DEF CallTools
<1>7. CASE ToolReturns(t)
  <2> DEFINE x == [y EXCEPT !.pc = IF Len(y.left) = 1 THEN "toolsDone" ELSE "tools",
                            !.left = Tail(@)]
  <2>1. turn' = [turn EXCEPT ![t] = x]
    BY <1>2, <1>7 DEF ToolReturns
  <2>2. y.left \in Seq(1..MaxCalls) /\ y.left # << >> /\ Distinct(y.left)
    BY <1>1, <1>7 DEF TurnRecord, TurnFits, ToolReturns
  <2>3. /\ Tail(y.left) \in Seq(1..MaxCalls) /\ Head(y.left) \in 1..MaxCalls
        /\ Len(y.left) # 1 => Tail(y.left) # << >>
        /\ Distinct(Tail(y.left))
    <3>1. \A i \in DOMAIN Tail(y.left) : i \in Nat /\ i + 1 \in DOMAIN y.left /\ Tail(y.left)[i] = y.left[i + 1]
      BY <2>2
    <3>2. Distinct(Tail(y.left))
      <4> HIDE DEF y
      <4>1. \A i, j \in DOMAIN Tail(y.left) : i # j => i + 1 # j + 1
        BY <3>1
      <4> QED
        BY <2>2, <3>1, <4>1 DEF Distinct
    <3>3. Len(y.left) \in Nat /\ Len(y.left) >= 1
      BY <2>2
    <3>4. Tail(y.left) \in Seq(1..MaxCalls) /\ Head(y.left) \in 1..MaxCalls
      BY <2>2, HeadTailProperties
    <3>5. Len(y.left) # 1 => Tail(y.left) # << >>
      <4>1. Len(Tail(y.left)) = Len(y.left) - 1
        BY <2>2, HeadTailProperties
      <4>2. Tail(y.left) = << >> => Len(Tail(y.left)) = 0
        BY <3>4, EmptySeq
      <4> HIDE DEF y
      <4> QED
        BY <3>3, <4>1, <4>2
    <3> QED
      BY <3>2, <3>4, <3>5
  <2>4. x \in TurnRecord
    BY <1>1, <2>3 DEF TurnRecord, TurnPcs
  <2>5. TurnFits(x)
    BY <1>1, <1>7, <2>3 DEF TurnRecord, TurnFits, Asking, ToolReturns
  <2>6. history' \in Seq(Messages)
    <3>1. y.iter \in Nat /\ Head(y.left) \in Nat
      <4>1. y.iter \in 0..MaxIterations
        BY <1>1 DEF TurnRecord
      <4> QED
        BY <2>3, <4>1, Bounds
    <3>2. ToolResult(t, y.iter, Head(y.left)) \in Messages
      BY <3>1, NewMessages
    <3> QED
      BY <1>1, <1>7, <3>2 DEF ToolReturns
  <2> QED
    BY <1>1, <1>7, <2>1, <2>4, <2>5, <2>6, TurnShape DEF ToolReturns
<1>8. CASE NextIteration(t)
  <2> DEFINE x == [y EXCEPT !.pc = "ask", !.iter = @ + 1, !.retry = 0]
  <2>1. turn' = [turn EXCEPT ![t] = x]
    BY <1>2, <1>8 DEF NextIteration
  <2>2. x \in TurnRecord
    <3>0. y.iter \in 0..MaxIterations /\ y.iter < MaxIterations
      BY <1>1, <1>8 DEF TurnRecord, NextIteration
    <3>1. y.iter + 1 \in 0..MaxIterations /\ 0 \in 0..MaxRetries
      BY <3>0, Bounds
    <3> HIDE DEF y
    <3> QED
      BY <1>1, <3>1 DEF TurnRecord, TurnPcs
  <2>3. TurnFits(x)
    BY <1>1, <1>8 DEF TurnRecord, TurnFits, Asking, NextIteration
  <2> QED
    BY <1>1, <1>8, <2>1, <2>2, <2>3, TurnShape DEF NextIteration
<1>9. CASE Answer(t)
  <2>1. history' \in Seq(Messages)
    BY <1>1, <1>9, NewMessages, Bounds DEF Answer, TurnRecord
  <2> QED
    BY <1>1, <1>9, <2>1, RecordsInit, TurnShape DEF Answer
<1>10. CASE EndOnTerminalTools(t)
  BY <1>1, <1>10, RecordsInit, TurnShape DEF EndOnTerminalTools
<1>11. CASE ProviderFails(t)
  BY <1>1, <1>11, RecordsInit, TurnShape DEF ProviderFails
<1>12. CASE RetryWithoutTools(t)
  <2> DEFINE x == [y EXCEPT !.retry = @ + 1]
  <2>1. turn' = [turn EXCEPT ![t] = x]
    BY <1>2, <1>12 DEF RetryWithoutTools
  <2>2. x \in TurnRecord
    <3>0. y.retry \in 0..MaxRetries /\ y.retry < MaxRetries
      BY <1>1, <1>12 DEF TurnRecord, RetryWithoutTools
    <3>1. y.retry + 1 \in 0..MaxRetries
      BY <3>0, Bounds
    <3> HIDE DEF y
    <3> QED
      BY <1>1, <3>1 DEF TurnRecord
  <2>3. TurnFits(x)
    BY <1>1, <1>12 DEF TurnRecord, TurnFits, Asking, RetryWithoutTools
  <2> QED
    BY <1>1, <1>12, <2>1, <2>2, <2>3, TurnShape DEF RetryWithoutTools
<1>13. CASE ContextError(t)
  <2> DEFINE x == [y EXCEPT !.pc = "compress", !.again = TRUE]
  <2>1. turn' = [turn EXCEPT ![t] = x]
    BY <1>2, <1>13 DEF ContextError
  <2>2. x \in TurnRecord
    BY <1>1 DEF TurnRecord, TurnPcs
  <2>3. TurnFits(x)
    BY <1>1, <1>13 DEF TurnRecord, TurnFits, Asking, ContextError
  <2> QED
    BY <1>1, <1>13, <2>1, <2>2, <2>3, TurnShape DEF ContextError
<1>14. CASE CompressRead(t)
  <2> DEFINE r == [EmptySession EXCEPT !.messages = history]
             x == IF Len(history) <= CompressMin THEN [y EXCEPT !.pc = "rebuild"]
                  ELSE [y EXCEPT !.pc = "setHistory", !.read = r]
  <2>1. turn' = [turn EXCEPT ![t] = x]
    BY <1>2, <1>14 DEF CompressRead
  <2>2. r \in Sessions
    BY <1>1 DEF EmptySession, Sessions
  <2> HIDE DEF r
  <2>3. x \in TurnRecord
    BY <1>1, <2>2 DEF TurnRecord, TurnPcs
  <2>4. TurnFits(x)
    BY <1>1, <1>14 DEF TurnRecord, TurnFits, Asking, CompressRead
  <2> QED
    BY <1>1, <1>14, <2>1, <2>3, <2>4, TurnShape DEF CompressRead
<1>15. CASE CompressWrite(t)
  <2> DEFINE x == [y EXCEPT !.pc = "snapshot", !.read = EmptySession]
  <2>1. turn' = [turn EXCEPT ![t] = x]
    BY <1>2, <1>15 DEF CompressWrite
  <2>2. x \in TurnRecord
    BY <1>1, RecordsInit DEF TurnRecord, TurnPcs
  <2>3. TurnFits(x)
    BY <1>1, <1>15 DEF TurnRecord, TurnFits, Asking, CompressWrite
  <2>4. y.read.messages \in Seq(Messages)
    BY <1>1 DEF TurnRecord, Sessions
  <2>5. Compressed(t, y.read.messages) \in Seq(Messages)
    <3> DEFINE h == y.read.messages
    <3>1. PICK k \in 1..(Len(h) + 1) :
             /\ Compressed(t, h) = <<Note(t, k - 1)>> \o SubSeq(h, k, Len(h))
             /\ Note(t, k - 1) \in Messages
      BY <2>4, CompressedFacts
    <3>2. SubSeq(h, k, Len(h)) \in Seq(Messages)
      BY <2>4, SuffixFacts
    <3>3. Compressed(t, h) \in Seq(Messages)
      <4> HIDE DEF h
      <4> QED
        BY <3>1, <3>2
    <3> QED
      BY <3>3
  <2>6. history' \in Seq(Messages) /\ clobbered' \in BOOLEAN
    BY <1>15, <2>5 DEF CompressWrite
  <2> QED
    BY <1>1, <1>15, <2>1, <2>2, <2>3, <2>6, TurnShape DEF CompressWrite
<1>16. CASE Snapshot(t)
  <2> DEFINE x == [y EXCEPT !.pc = "rename", !.file = Session]
  <2>1. turn' = [turn EXCEPT ![t] = x]
    BY <1>2, <1>16 DEF Snapshot
  <2>2. x \in TurnRecord
    BY <1>1 DEF TurnRecord, TurnPcs
  <2>3. TurnFits(x)
    BY <1>1, <1>16 DEF TurnRecord, TurnFits, Asking, Snapshot
  <2> QED
    BY <1>1, <1>16, <2>1, <2>2, <2>3, TurnShape DEF Snapshot
<1>17. ASSUME NEW ok \in BOOLEAN, Rename(t, ok) PROVE ShapeInv'
  <2> DEFINE x == [y EXCEPT !.pc = IF y.again THEN "rebuild" ELSE "saved",
                            !.file = EmptySession]
  <2>1. turn' = [turn EXCEPT ![t] = x]
    BY <1>2, <1>17 DEF Rename
  <2>2. x \in TurnRecord
    BY <1>1, RecordsInit DEF TurnRecord, TurnPcs
  <2>3. TurnFits(x)
    BY <1>1, <1>17 DEF TurnRecord, TurnFits, Asking, Rename
  <2>4. disk' \in Sessions
    BY <1>1, <1>17 DEF Rename, TurnRecord
  <2> QED
    BY <1>1, <1>17, <2>1, <2>2, <2>3, <2>4, TurnShape DEF Rename
<1>18. ASSUME NEW toobig \in BOOLEAN, MaybeSummarize(t, toobig) PROVE ShapeInv'
  <2>1. turn' = [turn EXCEPT ![t] = Ended]
    BY <1>18 DEF MaybeSummarize
  <2>2. CASE toobig /\ ~guard
    <3>1. summarizer' = [summarizer EXCEPT ![t] = [summarizer[t] EXCEPT !.pc = "history"]]
      BY <1>18, <2>2 DEF MaybeSummarize, ShapeInv, TypeOK
    <3>2. [summarizer[t] EXCEPT !.pc = "history"] \in SummarizerRecord
      BY DEF ShapeInv, TypeOK, SummarizerRecord, SummarizerPcs
    <3>3. guard' \in BOOLEAN
      BY <1>18, <2>2 DEF MaybeSummarize
    <3> QED
      BY <1>1, <1>18, <2>1, <3>1, <3>2, <3>3, RecordsInit, TurnShape DEF MaybeSummarize
  <2>3. CASE UNCHANGED background
    BY <1>1, <1>18, <2>1, <2>3, RecordsInit, TurnShape DEF MaybeSummarize
  <2> QED
    BY <1>18, <2>2, <2>3 DEF MaybeSummarize
<1> HIDE DEF y
<1> QED
  BY <1>3, <1>4, <1>5, <1>6, <1>7, <1>8, <1>9, <1>10, <1>11, <1>12, <1>13, <1>14,
     <1>15, <1>16, <1>17, <1>18 DEF MessageArrives, TurnStep

-----------------------------------------------------------------------------
(* The trail: what is in order, and what turns have left behind.           *)

(* What a summariser may summarise, and what it may come to.               *)
LEMMA SummaryFacts ==
    ASSUME NEW t \in Turns, summarizer[t] \in SummarizerRecord
    PROVE  /\ Valid(t) \in Seq(Messages)
           /\ Elements(Valid(t)) \subseteq Elements(summarizer[t].read)
           /\ \A text \in NewSummaries(t) :
                 text \subseteq Elements(summarizer[t].read) \cup summarizer[t].context
<1> DEFINE read == summarizer[t].read
<1>1. read \in Seq(Messages)
  BY DEF SummarizerRecord
<1>2. Valid(t) \in Seq(Messages) /\ Elements(Valid(t)) \subseteq Elements(read)
  <2>1. CASE Len(read) <= KeepLast
    BY <2>1 DEF Valid, Elements
  <2>2. CASE ~(Len(read) <= KeepLast)
    BY <1>1, <2>2, Bounds, ValidFacts DEF Valid
  <2> QED
    BY <2>1, <2>2
<1>3. ASSUME NEW text \in NewSummaries(t)
      PROVE  text \subseteq Elements(read) \cup summarizer[t].context
  <2>1. CASE Len(Valid(t)) <= BatchMax
    BY <1>2, <1>3, <2>1 DEF NewSummaries
  <2>2. CASE ~(Len(Valid(t)) <= BatchMax)
    <3>1. PICK parts \in SUBSET {Elements(FirstPart(Valid(t))), Elements(SecondPart(Valid(t)))} :
             text = UNION parts
      BY <1>3, <2>2 DEF NewSummaries
    <3>2. /\ Elements(FirstPart(Valid(t))) \subseteq Elements(read)
          /\ Elements(SecondPart(Valid(t))) \subseteq Elements(read)
      BY <1>2, PartsFacts
    <3> QED
      BY <3>1, <3>2
  <2> QED
    BY <2>1, <2>2
<1> QED
  BY <1>2, <1>3

(* The elements of a sequence of messages are messages.                    *)
LEMMA ElementsTyped == \A s \in Seq(Messages) : Elements(s) \subseteq Messages
BY DEF Elements

(* Every step of a summariser keeps the types.                             *)
LEMMA SummarizerStepShape ==
    ASSUME ShapeInv, NEW t \in Turns, SummarizerStep(t)
    PROVE  ShapeInv'
<1> DEFINE z == summarizer[t]
<1>1. /\ z \in SummarizerRecord /\ Session \in Sessions /\ summarizer \in [Turns -> SummarizerRecord]
      /\ history \in Seq(Messages) /\ disk \in Sessions /\ summary \subseteq Messages
      /\ guard \in BOOLEAN
  BY DEF ShapeInv, TypeOK, SummarizerRecord, Session, Sessions
<1>2. UNCHANGED <<turn, clobbered, crashes>>
  BY DEF SummarizerStep, SummarizerReadsHistory, SummarizerReadsSummary, SummarizeAndTruncate,
     SummaryFails, SummarizerSnapshot, SummarizerRename, Release
<1>3. SUFFICES /\ history' \in Seq(Messages) /\ summary' \subseteq Messages /\ disk' \in Sessions
               /\ guard' \in BOOLEAN
               /\ \E s \in SummarizerRecord : summarizer' = [summarizer EXCEPT ![t] = s]
  BY <1>1, <1>2 DEF ShapeInv, TypeOK, SummarizerRecord
<1>4. \A p \in SummarizerPcs : [NoSummarizer EXCEPT !.pc = p] \in SummarizerRecord
  BY RecordsInit DEF SummarizerRecord
<1>5. CASE SummarizerReadsHistory(t)
  <2>1. summarizer' = [summarizer EXCEPT ![t] = [z EXCEPT !.pc = "summary", !.read = history]]
    BY <1>1, <1>5 DEF SummarizerReadsHistory
  <2>2. [z EXCEPT !.pc = "summary", !.read = history] \in SummarizerRecord
    BY <1>1 DEF SummarizerRecord, SummarizerPcs
  <2> QED
    BY <1>1, <1>5, <2>1, <2>2 DEF SummarizerReadsHistory
<1>6. CASE SummarizerReadsSummary(t)
  <2>1. CASE Valid(t) = << >>
    BY <1>1, <1>4, <1>6, <2>1 DEF SummarizerReadsSummary, SummarizerPcs
  <2>2. CASE Valid(t) # << >>
    <3>1. summarizer' = [summarizer EXCEPT ![t] = [z EXCEPT !.pc = "call", !.context = summary]]
      BY <1>1, <1>6, <2>2 DEF SummarizerReadsSummary
    <3>2. [z EXCEPT !.pc = "call", !.context = summary] \in SummarizerRecord
      BY <1>1 DEF SummarizerRecord, SummarizerPcs
    <3> QED
      BY <1>1, <1>6, <3>1, <3>2 DEF SummarizerReadsSummary
  <2> QED
    BY <2>1, <2>2
<1>7. CASE SummarizeAndTruncate(t)
  <2>1. summary' \subseteq Messages
    <3>1. summary' \subseteq Elements(z.read) \cup z.context
      BY <1>1, <1>7, SummaryFacts DEF SummarizeAndTruncate
    <3> QED
      BY <1>1, <3>1, ElementsTyped DEF SummarizerRecord
  <2>2. history' \in Seq(Messages)
    <3>1. CASE Len(history) > KeepLast
      <4>1. Len(history) - KeepLast + 1 \in 1..(Len(history) + 1)
        BY <1>1, <3>1, Bounds
      <4> QED
        BY <1>1, <1>7, <3>1, <4>1, SuffixFacts DEF SummarizeAndTruncate, LastOf
    <3> QED
      BY <1>1, <1>7, <3>1 DEF SummarizeAndTruncate, LastOf
  <2> QED
    BY <1>1, <1>4, <1>7, <2>1, <2>2 DEF SummarizeAndTruncate, SummarizerPcs
<1>8. CASE SummaryFails(t)
  BY <1>1, <1>4, <1>8 DEF SummaryFails, SummarizerPcs
<1>9. CASE SummarizerSnapshot(t)
  <2>1. summarizer' = [summarizer EXCEPT ![t] = [z EXCEPT !.pc = "rename", !.file = Session]]
    BY <1>1, <1>9 DEF SummarizerSnapshot
  <2>2. [z EXCEPT !.pc = "rename", !.file = Session] \in SummarizerRecord
    BY <1>1 DEF SummarizerRecord, SummarizerPcs
  <2> QED
    BY <1>1, <1>9, <2>1, <2>2 DEF SummarizerSnapshot
<1>10. ASSUME NEW ok \in BOOLEAN, SummarizerRename(t, ok)
       PROVE  /\ history' \in Seq(Messages) /\ summary' \subseteq Messages /\ disk' \in Sessions
              /\ guard' \in BOOLEAN
              /\ \E s \in SummarizerRecord : summarizer' = [summarizer EXCEPT ![t] = s]
  <2>1. z.file \in Sessions
    BY <1>1 DEF SummarizerRecord
  <2> QED
    BY <1>1, <1>4, <1>10, <2>1 DEF SummarizerRename, SummarizerPcs
<1>11. CASE Release(t)
  BY <1>1, <1>11, RecordsInit DEF Release
<1> HIDE DEF z
<1> QED
  BY <1>5, <1>6, <1>7, <1>8, <1>9, <1>10, <1>11 DEF SummarizerStep

-----------------------------------------------------------------------------
(* A message is behind its turn: the turn will not add it again, nor one   *)
(* that belongs before it.                                                 *)
Behind(m, x) ==
    m.role # "note" =>
        /\ ~NotAdded(x)
        /\ Asking(x) => Rank(m) < 2 * x.iter
        /\ x.pc \in {"tools", "toolsDone"} => Rank(m) <= 2 * x.iter + 1
        /\ x.pc = "tools" /\ m.role = "tool" /\ m.n = x.iter => m.i \notin Elements(x.left)

(* All copies of the transcript are in order and behind their turns, and   *)
(* so is what the summaries cover.                                         *)
Known(S, at) == \A m \in S : Behind(m, at[m.turn])

Good(s, at) == Placed(s) /\ Known(Elements(s), at)

GoodSession(session, at) == Good(session.messages, at) /\ Known(session.summary, at)

TrailInv ==
    /\ GoodSession(Session, turn) /\ GoodSession(disk, turn)
    /\ \A t \in Turns :
          /\ GoodSession(turn[t].read, turn) /\ GoodSession(turn[t].file, turn)
          /\ Good(summarizer[t].read, turn) /\ Known(summarizer[t].context, turn)
          /\ GoodSession(summarizer[t].file, turn)

(* The turns leave behind what they had left behind.                       *)
Onward == \A m \in Messages : Behind(m, turn[m.turn]) => Behind(m, turn'[m.turn])

(* So what was in order stays so.                                          *)
LEMMA StaysGood ==
    ASSUME Onward
    PROVE  /\ \A S \in SUBSET Messages : Known(S, turn) => Known(S, turn')
           /\ \A s \in Seq(Messages) : Good(s, turn) => Good(s, turn')
           /\ \A session \in Sessions : GoodSession(session, turn) => GoodSession(session, turn')
<1>1. \A S \in SUBSET Messages : Known(S, turn) => Known(S, turn')
  BY DEF Onward, Known
<1>2. \A s \in Seq(Messages) : Good(s, turn) => Good(s, turn')
  BY <1>1, ElementsTyped DEF Good
<1>3. \A session \in Sessions : session.messages \in Seq(Messages) /\ session.summary \subseteq Messages
  BY DEF Sessions
<1> QED
  BY <1>1, <1>2, <1>3 DEF GoodSession

(* Nothing is in an empty session.                                         *)
LEMMA EmptyGood ==
    ASSUME NEW at
    PROVE  Good(<< >>, at) /\ Known({}, at) /\ GoodSession(EmptySession, at)
BY DEF Good, Placed, Known, Elements, GoodSession, EmptySession

(* A turn's own record is what the messages of the turn are behind.        *)
LEMMA OneMoves ==
    ASSUME ShapeInv, NEW t \in Turns, NEW x, turn' = [turn EXCEPT ![t] = x],
           \A m \in Messages : m.turn = t /\ Behind(m, turn[t]) => Behind(m, x)
    PROVE  Onward
<1> SUFFICES ASSUME NEW m \in Messages, Behind(m, turn[m.turn]) PROVE Behind(m, turn'[m.turn])
  BY DEF Onward
<1>1. m.turn \in Turns /\ DOMAIN turn = Turns
  BY DEF Messages, ShapeInv, TypeOK
<1> QED
  BY <1>1

(* A step that adds nothing keeps the trail: the turn's own copies are the *)
(* session or nothing new.                                                 *)
LEMMA NothingAdded ==
    ASSUME ShapeInv, TrailInv, Onward, NEW t \in Turns, NEW x,
           turn' = [turn EXCEPT ![t] = x],
           GoodSession(x.read, turn'), GoodSession(x.file, turn'),
           GoodSession(Session', turn'), GoodSession(disk', turn'),
           \A u \in Turns : /\ summarizer'[u].read = summarizer[u].read
                            /\ summarizer'[u].context = summarizer[u].context
                            /\ summarizer'[u].file = summarizer[u].file
    PROVE  TrailInv'
<1>1. ASSUME NEW u \in Turns, u # t
      PROVE  GoodSession(turn'[u].read, turn') /\ GoodSession(turn'[u].file, turn')
  <2>1. turn'[u] = turn[u] /\ turn[u].read \in Sessions /\ turn[u].file \in Sessions
    BY <1>1 DEF ShapeInv, TypeOK
  <2> QED
    BY <2>1, StaysGood DEF TrailInv
<1>2. turn'[t] = x
  BY DEF ShapeInv, TypeOK
<1>3. ASSUME NEW u \in Turns
      PROVE  /\ Good(summarizer'[u].read, turn') /\ Known(summarizer'[u].context, turn')
             /\ GoodSession(summarizer'[u].file, turn')
  <2>1. /\ summarizer[u].read \in Seq(Messages) /\ summarizer[u].context \in SUBSET Messages
        /\ summarizer[u].file \in Sessions
    BY DEF ShapeInv, TypeOK
  <2> QED
    BY <2>1, StaysGood DEF TrailInv
<1> QED
  BY <1>1, <1>2, <1>3 DEF TrailInv

(* What is copied from one place to another.                               *)
LEMMA CopiesStay ==
    ASSUME ShapeInv, TrailInv, Onward
    PROVE  /\ GoodSession(Session, turn') /\ GoodSession(disk, turn')
           /\ Good(history, turn') /\ Known(summary, turn')
           /\ \A t \in Turns :
                 /\ GoodSession(turn[t].read, turn') /\ GoodSession(turn[t].file, turn')
                 /\ Good(turn[t].read.messages, turn')
<1>1. Session \in Sessions /\ disk \in Sessions /\ Session.messages = history /\ Session.summary = summary
  BY DEF ShapeInv, TypeOK, Session, Sessions
<1>2. \A t \in Turns : turn[t].read \in Sessions /\ turn[t].file \in Sessions
  BY DEF ShapeInv, TypeOK
<1>3. GoodSession(Session, turn') /\ GoodSession(disk, turn')
  BY <1>1, StaysGood DEF TrailInv
<1>4. \A t \in Turns : GoodSession(turn[t].read, turn') /\ GoodSession(turn[t].file, turn')
  BY <1>2, StaysGood DEF TrailInv
<1> QED
  BY <1>1, <1>3, <1>4 DEF GoodSession

(* A message that its turn adds comes after all that is there.             *)
LEMMA AppendedGood ==
    ASSUME NEW s \in Seq(Messages), NEW m \in Messages, NEW at, Good(s, at),
           \A a \in Elements(s) : InPlace(a, m), Behind(m, at[m.turn])
    PROVE  Good(Append(s, m), at) /\ Append(s, m) \in Seq(Messages)
<1> DEFINE e == Append(s, m)
<1>1. /\ e \in Seq(Messages) /\ Len(s) \in Nat /\ DOMAIN e = 1..(Len(s) + 1) /\ e[Len(s) + 1] = m
      /\ DOMAIN s = 1..Len(s)
      /\ \A p \in DOMAIN s : e[p] = s[p]
  OBVIOUS
<1> HIDE DEF e
<1>2. \A p \in DOMAIN e : p = Len(s) + 1 \/ p \in DOMAIN s
  BY <1>1
<1>3. \A p \in DOMAIN s : s[p] \in Elements(s)
  BY DEF Elements
<1>4. Known(Elements(e), at)
  <2> SUFFICES ASSUME NEW p \in DOMAIN e PROVE Behind(e[p], at[e[p].turn])
    BY DEF Known, Elements
  <2>1. CASE p = Len(s) + 1
    BY <1>1, <2>1
  <2>2. CASE p \in DOMAIN s
    <3>1. e[p] \in Elements(s)
      BY <1>1, <1>3, <2>2
    <3> QED
      BY <3>1 DEF Good, Known
  <2> QED
    BY <1>2, <2>1, <2>2
<1>5. ASSUME NEW p \in DOMAIN e, NEW q \in DOMAIN e, p < q PROVE InPlace(e[p], e[q])
  <2>1. p \in DOMAIN s
    BY <1>1, <1>5
  <2>2. CASE q \in DOMAIN s
    BY <1>1, <1>5, <2>1, <2>2 DEF Good, Placed
  <2>3. CASE q = Len(s) + 1
    BY <1>1, <1>3, <2>1, <2>3
  <2> QED
    BY <1>2, <2>2, <2>3
<1> QED
  BY <1>1, <1>4, <1>5 DEF Good, Placed, e

(* A step of a turn that only adds a message to the history.               *)
LEMMA AddsMessage ==
    ASSUME ShapeInv, TrailInv, NEW t \in Turns, NEW x, turn' = [turn EXCEPT ![t] = x],
           NEW m \in Messages, m.turn = t, Behind(m, x),
           \A a \in Messages : a.turn = t /\ Behind(a, turn[t]) => Behind(a, x) /\ InPlace(a, m),
           history' = Append(history, m), UNCHANGED <<summary, disk, summarizer>>,
           x.read \in {turn[t].read, EmptySession}, x.file \in {turn[t].file, EmptySession}
    PROVE  TrailInv'
<1>1. Onward
  BY OneMoves
<1>2. turn'[t] = x /\ history \in Seq(Messages)
  BY DEF ShapeInv, TypeOK
<1>3. ASSUME NEW a \in Elements(history) PROVE InPlace(a, m)
  <2>1. a \in Messages /\ Behind(a, turn[a.turn])
    BY <1>2, ElementsTyped DEF TrailInv, GoodSession, Good, Known, Session
  <2> QED
    BY <2>1 DEF InPlace
<1>4. Good(history', turn')
  BY <1>1, <1>2, <1>3, AppendedGood, CopiesStay
<1>5. GoodSession(Session', turn')
  BY <1>1, <1>4, CopiesStay DEF GoodSession, Session
<1>6. GoodSession(x.read, turn') /\ GoodSession(x.file, turn')
  BY <1>1, CopiesStay, EmptyGood
<1> QED
  BY <1>1, <1>5, <1>6, CopiesStay, NothingAdded

(* A step of a turn that only reads the session.                           *)
LEMMA OnlyReads ==
    ASSUME ShapeInv, TrailInv, NEW t \in Turns, NEW x, turn' = [turn EXCEPT ![t] = x],
           \A a \in Messages : a.turn = t /\ Behind(a, turn[t]) => Behind(a, x),
           UNCHANGED <<history, summary, disk>>,
           \A u \in Turns : /\ summarizer'[u].read = summarizer[u].read
                            /\ summarizer'[u].context = summarizer[u].context
                            /\ summarizer'[u].file = summarizer[u].file,
           x.read \in {turn[t].read, EmptySession, Session, [EmptySession EXCEPT !.messages = history]},
           x.file \in {turn[t].file, EmptySession, Session}
    PROVE  TrailInv'
<1>1. Onward
  BY OneMoves
<1>2. GoodSession([EmptySession EXCEPT !.messages = history], turn')
  BY <1>1, CopiesStay DEF GoodSession, EmptySession, Known
<1>3. GoodSession(x.read, turn') /\ GoodSession(x.file, turn')
  BY <1>1, <1>2, CopiesStay, EmptyGood
<1>4. Session' = Session
  BY DEF Session
<1> QED
  BY <1>1, <1>3, <1>4, CopiesStay, NothingAdded

(* Every step of a turn keeps the trail.                                   *)
LEMMA TurnStepTrail ==
    ASSUME ShapeInv, TrailInv, NEW t \in Turns, MessageArrives(t) \/ TurnStep(t)
    PROVE  TrailInv'
<1> DEFINE y == turn[t]
<1>1. /\ y \in TurnRecord /\ TurnFits(y) /\ DOMAIN turn = Turns
      /\ y.iter \in Nat /\ y.again \in BOOLEAN /\ history \in Seq(Messages)
  BY DEF ShapeInv, TypeOK, TurnRecord
<1>2. \A u \in Turns : DOMAIN summarizer[u] = Fields /\ DOMAIN summarizer = Turns
  BY DEF ShapeInv, TypeOK, Fields
<1>3. CASE ReadHistory(t)
  <2> DEFINE x == [y EXCEPT !.pc = "summary", !.read = Session]
  <2>1. turn' = [turn EXCEPT ![t] = x]
    BY <1>1, <1>3 DEF ReadHistory
  <2>2. \A a \in Messages : Behind(a, y) => Behind(a, x)
    BY <1>1, <1>3 DEF ReadHistory, Behind, NotAdded, Asking, TurnFits, TurnRecord
  <2>3. x.read = Session /\ x.file = y.file
    BY <1>1 DEF TurnRecord
  <2> HIDE DEF x
  <2> QED
    BY <1>3, <2>1, <2>2, <2>3, OnlyReads DEF ReadHistory, background
<1>4. CASE ReadSummary(t)
  <2> DEFINE x == [y EXCEPT !.pc = IF y.again THEN "ask" ELSE "add",
                            !.read = EmptySession,
                            !.retry = IF y.again THEN @ + 1 ELSE @, !.again = FALSE]
  <2>1. turn' = [turn EXCEPT ![t] = x]
    BY <1>1, <1>4 DEF ReadSummary
  <2>2. \A a \in Messages : Behind(a, y) => Behind(a, x)
    BY <1>1, <1>4 DEF ReadSummary, BuildsPrompt, Behind, NotAdded, Asking, TurnRecord
  <2>3. x.read = EmptySession /\ x.file = y.file
    BY <1>1 DEF TurnRecord
  <2> HIDE DEF x
  <2> QED
    BY <1>4, <2>1, <2>2, <2>3, OnlyReads DEF ReadSummary, background
<1>5. CASE AddUserMessage(t)
  <2> DEFINE x == [y EXCEPT !.pc = "ask", !.iter = 1]
             m == User(t)
  <2>1. turn' = [turn EXCEPT ![t] = x]
    BY <1>1, <1>5 DEF AddUserMessage
  <2>2. m \in Messages /\ m.turn = t /\ m.role = "user"
    BY NewMessages DEF User, Message
  <2>3. Behind(m, x)
    BY <1>1, <2>2, RankFacts DEF Behind, NotAdded, Asking, TurnRecord
  <2>4. \A a \in Messages : Behind(a, y) => a.role = "note"
    BY <1>1, <1>5 DEF AddUserMessage, Behind, NotAdded, TurnFits
  <2>5. \A a \in Messages : Behind(a, y) => Behind(a, x) /\ InPlace(a, m)
    BY <2>4 DEF Behind, InPlace
  <2>6. x.read = y.read /\ x.file = y.file
    BY <1>1 DEF TurnRecord
  <2> HIDE DEF x, m
  <2>7. history' = Append(history, m)
    BY <1>5 DEF AddUserMessage, m
  <2> QED
    BY <1>5, <2>1, <2>2, <2>3, <2>5, <2>6, <2>7, AddsMessage DEF AddUserMessage, background
<1>6. ASSUME NEW width \in 1..MaxCalls, CallTools(t, width) PROVE TrailInv'
  <2> DEFINE l == [i \in 1..width |-> i]
             x == [y EXCEPT !.pc = "tools", !.left = l]
             m == Calls(t, y.iter, width)
  <2>1. turn' = [turn EXCEPT ![t] = x]
    BY <1>1, <1>6 DEF CallTools
  <2> HIDE DEF l
  <2>2. m \in Messages /\ m.turn = t /\ m.role = "call" /\ m.n = y.iter
    BY <1>1, NewMessages, Bounds DEF Calls, Message
  <2>3. Behind(m, x)
    BY <1>1, <2>2, RankFacts DEF Behind, NotAdded, Asking, TurnRecord
  <2>4. ASSUME NEW a \in Messages, a.turn = t, Behind(a, y), a.role # "note"
        PROVE  Rank(a) \in Nat /\ Rank(a) < 2 * y.iter
    BY <1>6, <2>4, RankFacts DEF CallTools, Behind, Asking
  <2>5. ASSUME NEW a \in Messages, a.turn = t, Behind(a, y)
        PROVE  Behind(a, x) /\ InPlace(a, m)
    <3>1. Rank(m) = 2 * y.iter
      BY <2>2, RankFacts
    <3>2. CASE a.role = "note"
      BY <3>2 DEF Behind, InPlace
    <3>3. CASE a.role # "note"
      <4>1. a # m /\ Rank(a) < Rank(m) /\ Rank(a) <= Rank(m)
        BY <1>1, <2>4, <2>5, <3>1, <3>3
      <4>2. a.role = "tool" => a.n # y.iter
        BY <1>1, <2>4, <2>5, <3>3, RankFacts
      <4>3. /\ x.pc = "tools" /\ x.iter = y.iter
        BY <1>1 DEF TurnRecord
      <4> QED
        BY <1>1, <2>4, <2>5, <3>3, <4>1, <4>2, <4>3 DEF Behind, InPlace, NotAdded, Asking
    <3> QED
      BY <3>2, <3>3
  <2>6. x.read = y.read /\ x.file = y.file
    BY <1>1 DEF TurnRecord
  <2>7. history' = Append(history, m)
    BY <1>6 DEF CallTools
  <2> HIDE DEF x, m
  <2> QED
    BY <1>6, <2>1, <2>2, <2>3, <2>5, <2>6, <2>7, AddsMessage DEF CallTools, background
<1>7. CASE ToolReturns(t)
  <2> DEFINE x == [y EXCEPT !.pc = IF Len(y.left) = 1 THEN "toolsDone" ELSE "tools",
                            !.left = Tail(@)]
             m == ToolResult(t, y.iter, Head(y.left))
  <2>1. turn' = [turn EXCEPT ![t] = x]
    BY <1>1, <1>7 DEF ToolReturns
  <2>2. y.left \in Seq(1..MaxCalls) /\ y.left # << >> /\ Distinct(y.left) /\ y.pc = "tools"
    BY <1>1, <1>7 DEF TurnRecord, TurnFits, ToolReturns
  <2>3. /\ Head(y.left) \in Nat /\ Head(y.left) \in Elements(y.left)
        /\ Head(y.left) \notin Elements(Tail(y.left))
        /\ Elements(Tail(y.left)) \subseteq Elements(y.left)
    <3>0. Len(y.left) # 0 /\ Len(y.left) \in Nat /\ DOMAIN y.left = 1..Len(y.left)
      BY <2>2, EmptySeq, LenProperties
    <3>1. /\ 1 \in DOMAIN y.left /\ Head(y.left) = y.left[1]
          /\ y.left[1] \in 1..MaxCalls
      <4>1. 1 \in 1..Len(y.left)
        BY <3>0
      <4>2. y.left[1] \in 1..MaxCalls
        BY <2>2, <3>0, <4>1, ElementOfSeq
      <4> QED
        BY <2>2, <3>0, <4>1, <4>2
    <3>2. \A i \in DOMAIN Tail(y.left) : i + 1 \in DOMAIN y.left /\ i + 1 # 1 /\ Tail(y.left)[i] = y.left[i + 1]
      BY <2>2
    <3> QED
      BY <2>2, <3>1, <3>2, Bounds DEF Elements, Distinct
  <2>4. m \in Messages /\ m.turn = t /\ m.role = "tool" /\ m.n = y.iter /\ m.i = Head(y.left)
    BY <1>1, <2>3, NewMessages DEF ToolResult, Message
  <2>5. /\ x.pc \in {"tools", "toolsDone"} /\ x.iter = y.iter /\ x.left = Tail(y.left)
        /\ x.again = y.again /\ x.read = y.read /\ x.file = y.file
    BY <1>1 DEF TurnRecord
  <2>6. Rank(m) = 2 * y.iter + 1
    BY <2>4, RankFacts
  <2>7. history' = Append(history, m)
    BY <1>7 DEF ToolReturns
  <2>8. y.again = FALSE
    BY <1>1, <2>2 DEF TurnFits
  <2> HIDE DEF x, m
  <2>9. Behind(m, x)
    BY <1>1, <2>3, <2>4, <2>5, <2>6, <2>8 DEF Behind, NotAdded, Asking
  <2>10. ASSUME NEW a \in Messages, a.turn = t, Behind(a, y)
         PROVE  Behind(a, x) /\ InPlace(a, m)
    <3>1. CASE a.role = "note"
      BY <3>1 DEF Behind, InPlace
    <3>2. CASE a.role # "note"
      <4>1. /\ Rank(a) \in Nat /\ Rank(a) <= 2 * y.iter + 1
            /\ a.role = "tool" /\ a.n = y.iter => a.i \notin Elements(y.left)
        BY <2>2, <2>10, <3>2, RankFacts DEF Behind
      <4>2. a # m
        BY <2>3, <2>4, <4>1
      <4>3. InPlace(a, m)
        BY <2>4, <2>6, <4>1, <4>2 DEF InPlace
      <4> QED
        BY <2>3, <2>5, <2>8, <4>1, <4>3 DEF Behind, NotAdded, Asking
    <3> QED
      BY <3>1, <3>2
  <2> QED
    BY <1>7, <2>1, <2>4, <2>5, <2>7, <2>9, <2>10, AddsMessage DEF ToolReturns, background
<1>8. CASE NextIteration(t)
  <2> DEFINE x == [y EXCEPT !.pc = "ask", !.iter = @ + 1, !.retry = 0]
  <2>1. turn' = [turn EXCEPT ![t] = x]
    BY <1>1, <1>8 DEF NextIteration
  <2>2. x.pc = "ask" /\ x.iter = y.iter + 1 /\ x.read = y.read /\ x.file = y.file
    BY <1>1 DEF TurnRecord
  <2> HIDE DEF x
  <2>3. ASSUME NEW a \in Messages, Behind(a, y) PROVE Behind(a, x)
    <3>1. a.role # "note" => Rank(a) \in Nat /\ Rank(a) <= 2 * y.iter + 1
      BY <1>8, <2>3, RankFacts DEF NextIteration, Behind
    <3> QED
      BY <1>1, <2>2, <3>1 DEF Behind, NotAdded, Asking
  <2> QED
    BY <1>8, <2>1, <2>2, <2>3, OnlyReads DEF NextIteration, background
<1>9. CASE Answer(t)
  <2> DEFINE x == [Waiting EXCEPT !.pc = "snapshot"]
             m == Reply(t, y.iter)
  <2>1. turn' = [turn EXCEPT ![t] = x]
    BY <1>9 DEF Answer
  <2>2. m \in Messages /\ m.turn = t /\ m.role = "assistant" /\ m.n = y.iter
    BY <1>1, NewMessages DEF Reply, Message
  <2>3. \A a : Behind(a, x)
    BY DEF Behind, NotAdded, Asking, Waiting
  <2>4. ASSUME NEW a \in Messages, a.turn = t, Behind(a, y) PROVE InPlace(a, m)
    <3>1. CASE a.role = "note"
      BY <3>1 DEF InPlace
    <3>2. CASE a.role # "note"
      <4>1. Rank(a) \in Nat /\ Rank(a) <= 2 * y.iter + 1
        BY <1>1, <1>9, <2>4, <3>2, RankFacts DEF Answer, Behind, Asking
      <4>2. Rank(m) = 2 * y.iter + 2
        BY <2>2, RankFacts
      <4>3. Rank(a) < Rank(m) /\ Rank(a) <= Rank(m)
        BY <1>1, <4>1, <4>2
      <4>4. a # m
        BY <1>1, <4>1, <4>2
      <4> QED
        BY <4>3, <4>4 DEF InPlace
    <3> QED
      BY <3>1, <3>2
  <2>5. x.read = EmptySession /\ x.file = EmptySession
    BY DEF Waiting
  <2>6. history' = Append(history, m)
    BY <1>9 DEF Answer
  <2> HIDE DEF x, m
  <2> QED
    BY <1>9, <2>1, <2>2, <2>3, <2>4, <2>5, <2>6, AddsMessage DEF Answer, background
<1>10. ASSUME NEW x \in {Ended, [Waiting EXCEPT !.pc = "snapshot"]},
              turn' = [turn EXCEPT ![t] = x], UNCHANGED <<history, summary, disk>>,
              \A u \in Turns : /\ summarizer'[u].read = summarizer[u].read
                               /\ summarizer'[u].context = summarizer[u].context
                               /\ summarizer'[u].file = summarizer[u].file
       PROVE  TrailInv'
  <2>1. x.read = EmptySession /\ x.file = EmptySession /\ \A a : Behind(a, x)
    BY <1>10 DEF Ended, Waiting, Behind, NotAdded, Asking
  <2> QED
    BY <1>10, <2>1, OnlyReads
<1>11. CASE EndOnTerminalTools(t)
  BY <1>10, <1>11 DEF EndOnTerminalTools, background
<1>12. CASE ProviderFails(t)
  BY <1>10, <1>12 DEF ProviderFails, background
<1>13. ASSUME NEW toobig \in BOOLEAN, MaybeSummarize(t, toobig) PROVE TrailInv'
  <2>1. \A u \in Turns : /\ summarizer'[u].read = summarizer[u].read
                         /\ summarizer'[u].context = summarizer[u].context
                         /\ summarizer'[u].file = summarizer[u].file
    BY <1>2, <1>13 DEF MaybeSummarize, background, Fields
  <2> QED
    BY <1>10, <1>13, <2>1 DEF MaybeSummarize
<1>14. CASE RetryWithoutTools(t)
  <2> DEFINE x == [y EXCEPT !.retry = @ + 1]
  <2>1. turn' = [turn EXCEPT ![t] = x]
    BY <1>1, <1>14 DEF RetryWithoutTools
  <2>2. /\ x.read = y.read /\ x.file = y.file /\ x.pc = y.pc /\ x.iter = y.iter
        /\ x.again = y.again /\ x.left = y.left
    BY <1>1 DEF TurnRecord
  <2> HIDE DEF x
  <2>3. \A a : Behind(a, y) => Behind(a, x)
    BY <2>2 DEF Behind, NotAdded, Asking
  <2> QED
    BY <1>14, <2>1, <2>2, <2>3, OnlyReads DEF RetryWithoutTools, background
<1>15. CASE ContextError(t)
  <2> DEFINE x == [y EXCEPT !.pc = "compress", !.again = TRUE]
  <2>1. turn' = [turn EXCEPT ![t] = x]
    BY <1>1, <1>15 DEF ContextError
  <2>2. x.read = y.read /\ x.file = y.file /\ x.pc = "compress" /\ x.iter = y.iter
    BY <1>1 DEF TurnRecord
  <2> HIDE DEF x
  <2>3. \A a : Behind(a, y) => Behind(a, x)
    BY <1>15, <2>2 DEF Behind, NotAdded, Asking, ContextError
  <2> QED
    BY <1>15, <2>1, <2>2, <2>3, OnlyReads DEF ContextError, background
<1>16. CASE CompressRead(t)
  <2> DEFINE r == [EmptySession EXCEPT !.messages = history]
             x == IF Len(history) <= CompressMin THEN [y EXCEPT !.pc = "rebuild"]
                  ELSE [y EXCEPT !.pc = "setHistory", !.read = r]
  <2>1. turn' = [turn EXCEPT ![t] = x]
    BY <1>1, <1>16 DEF CompressRead
  <2>2. /\ x.read \in {y.read, r} /\ x.file = y.file /\ x.pc \in {"rebuild", "setHistory"}
        /\ x.iter = y.iter
    BY <1>1 DEF TurnRecord
  <2> HIDE DEF x
  <2>3. \A a : Behind(a, y) => Behind(a, x)
    BY <1>16, <2>2 DEF Behind, NotAdded, Asking, CompressRead
  <2> QED
    BY <1>16, <2>1, <2>2, <2>3, OnlyReads DEF CompressRead, background
<1>17. CASE CompressWrite(t)
  <2> DEFINE x == [y EXCEPT !.pc = "snapshot", !.read = EmptySession]
             h == y.read.messages
  <2>1. turn' = [turn EXCEPT ![t] = x]
    BY <1>1, <1>17 DEF CompressWrite
  <2>2. /\ x.read = EmptySession /\ x.file = y.file /\ x.pc = "snapshot"
        /\ x.iter = y.iter /\ x.again
    BY <1>1, <1>17 DEF TurnRecord, CompressWrite, TurnFits
  <2> HIDE DEF x
  <2>3. \A a : Behind(a, y) => Behind(a, x)
    BY <1>17, <2>2 DEF Behind, NotAdded, Asking, CompressWrite
  <2>4. Onward
    BY <2>1, <2>3, OneMoves
  <2>5. h \in Seq(Messages)
    BY <1>1 DEF TurnRecord, Sessions
  <2>6. Good(h, turn')
    BY <2>4, CopiesStay
  <2>7. Good(Compressed(t, h), turn')
    <3>1. PICK k \in 1..(Len(h) + 1) :
             /\ Compressed(t, h) = <<Note(t, k - 1)>> \o SubSeq(h, k, Len(h))
             /\ Note(t, k - 1) \in Messages
      BY <2>5, CompressedFacts
    <3> DEFINE e == SubSeq(h, k, Len(h))
               note == Note(t, k - 1)
    <3>2. note.role = "note"
      BY DEF Note, Message
    <3> HIDE DEF h
    <3>3. /\ e \in Seq(Messages) /\ Placed(e)
          /\ \A a : a \in Elements(e) => \E p \in k..Len(h) : h[p] = a
      BY <2>5, <2>6, SuffixFacts DEF Good
    <3>4. k..Len(h) \subseteq DOMAIN h
      BY <2>5
    <3>5. \A a \in Elements(e) : Behind(a, turn'[a.turn])
      BY <2>6, <3>3, <3>4 DEF Good, Known, Elements
    <3> HIDE DEF e, note
    <3>6. /\ Elements(<<note>> \o e) = {note} \cup Elements(e)
          /\ Placed(<<note>> \o e)
      BY <3>1, <3>2, <3>3, NoteFirst DEF note
    <3>7. Behind(note, turn'[note.turn])
      BY <3>2 DEF Behind
    <3>8. Good(<<note>> \o e, turn')
      BY <3>5, <3>6, <3>7 DEF Good, Known
    <3> QED
      BY <3>1, <3>8 DEF e, note
  <2>8. history' = Compressed(t, h)
    BY <1>17 DEF CompressWrite
  <2> HIDE DEF h
  <2>9. GoodSession(Session', turn')
    BY <1>17, <2>4, <2>7, <2>8, CopiesStay DEF GoodSession, Session, CompressWrite
  <2>10. GoodSession(x.read, turn') /\ GoodSession(x.file, turn')
    BY <2>2, <2>4, CopiesStay, EmptyGood
  <2> QED
    BY <1>17, <2>1, <2>4, <2>9, <2>10, CopiesStay, NothingAdded DEF CompressWrite, background
<1>18. CASE Snapshot(t)
  <2> DEFINE x == [y EXCEPT !.pc = "rename", !.file = Session]
  <2>1. turn' = [turn EXCEPT ![t] = x]
    BY <1>1, <1>18 DEF Snapshot
  <2>2. /\ x.read = y.read /\ x.file = Session /\ x.pc = "rename" /\ x.iter = y.iter
        /\ x.again = y.again
    BY <1>1 DEF TurnRecord
  <2> HIDE DEF x
  <2>3. \A a : Behind(a, y) => Behind(a, x)
    BY <1>18, <2>2 DEF Behind, NotAdded, Asking, Snapshot
  <2> QED
    BY <1>18, <2>1, <2>2, <2>3, OnlyReads DEF Snapshot, background
<1>19. ASSUME NEW ok \in BOOLEAN, Rename(t, ok) PROVE TrailInv'
  <2> DEFINE x == [y EXCEPT !.pc = IF y.again THEN "rebuild" ELSE "saved",
                            !.file = EmptySession]
  <2>1. turn' = [turn EXCEPT ![t] = x]
    BY <1>1, <1>19 DEF Rename
  <2>2. /\ x.read = y.read /\ x.file = EmptySession /\ x.iter = y.iter
        /\ x.pc = IF y.again THEN "rebuild" ELSE "saved"
    BY <1>1 DEF TurnRecord
  <2> HIDE DEF x
  <2>3. \A a : Behind(a, y) => Behind(a, x)
    BY <1>1, <1>19, <2>2 DEF Behind, NotAdded, Asking, Rename
  <2>4. Onward
    BY <2>1, <2>3, OneMoves
  <2>5. GoodSession(disk', turn')
    BY <1>19, <2>4, CopiesStay DEF Rename
  <2>6. GoodSession(x.read, turn') /\ GoodSession(x.file, turn')
    BY <2>2, <2>4, CopiesStay, EmptyGood
  <2>7. Session' = Session
    BY <1>19 DEF Rename, Session
  <2> QED
    BY <1>19, <2>1, <2>4, <2>5, <2>6, <2>7, CopiesStay, NothingAdded DEF Rename, background
<1> HIDE DEF y
<1> QED
  BY <1>3, <1>4, <1>5, <1>6, <1>7, <1>8, <1>9, <1>11, <1>12, <1>13, <1>14,
     <1>15, <1>16, <1>17, <1>18, <1>19 DEF MessageArrives, TurnStep

(* What a truncation keeps is an end of the history.                       *)
LEMMA LastOfFacts ==
    ASSUME NEW h \in Seq(Messages), NEW keep \in Nat
    PROVE  \E k \in 1..(Len(h) + 1) :
              /\ LastOf(h, keep) = SubSeq(h, k, Len(h))
              /\ k = 1 \/ k = Len(h) - keep + 1
<1>1. Len(h) \in Nat
  OBVIOUS
<1>2. CASE Len(h) > keep
  <2> DEFINE k == Len(h) - keep + 1
  <2>1. k \in 1..(Len(h) + 1)
    BY <1>1, <1>2
  <2>2. LastOf(h, keep) = SubSeq(h, k, Len(h))
    BY <1>2 DEF LastOf
  <2> QED
    BY <2>1, <2>2
<1>3. CASE ~(Len(h) > keep)
  <2>1. SubSeq(h, 1, Len(h)) = h
    OBVIOUS
  <2>2. 1 \in 1..(Len(h) + 1)
    BY <1>1
  <2> QED
    BY <1>3, <2>1, <2>2 DEF LastOf
<1> QED
  BY <1>2, <1>3

(* So it is in order, and what is in it was there.                         *)
LEMMA LastOfGood ==
    ASSUME NEW h \in Seq(Messages), NEW at, Good(h, at), NEW keep \in Nat
    PROVE  Good(LastOf(h, keep), at)
<1>1. PICK k \in 1..(Len(h) + 1) : LastOf(h, keep) = SubSeq(h, k, Len(h))
  BY LastOfFacts
<1> DEFINE e == SubSeq(h, k, Len(h))
<1>2. /\ Placed(e)
      /\ \A a : a \in Elements(e) => \E p \in k..Len(h) : h[p] = a
  BY SuffixFacts DEF Good
<1>3. k..Len(h) \subseteq DOMAIN h
  OBVIOUS
<1> HIDE DEF e
<1>4. Elements(e) \subseteq Elements(h)
  BY <1>2, <1>3 DEF Elements
<1>5. Good(e, at)
  BY <1>2, <1>4 DEF Good, Known
<1> QED
  BY <1>1, <1>5 DEF e

(* A summariser moves, and the turns stand still.                          *)
LEMMA SummarizerMoves ==
    ASSUME ShapeInv, TrailInv, UNCHANGED turn, NEW t \in Turns, NEW s,
           summarizer' = [summarizer EXCEPT ![t] = s],
           Good(s.read, turn), Known(s.context, turn), GoodSession(s.file, turn),
           GoodSession(Session', turn), GoodSession(disk', turn)
    PROVE  TrailInv'
<1>1. \A u \in Turns : summarizer'[u] = IF u = t THEN s ELSE summarizer[u]
  BY DEF ShapeInv, TypeOK
<1>2. \A u \in Turns : /\ Good(summarizer'[u].read, turn)
                       /\ Known(summarizer'[u].context, turn)
                       /\ GoodSession(summarizer'[u].file, turn)
  BY <1>1 DEF TrailInv
<1> QED
  BY <1>2 DEF TrailInv

(* Every step of a summariser keeps the trail.                             *)
LEMMA SummarizerStepTrail ==
    ASSUME ShapeInv, TrailInv, NEW t \in Turns, SummarizerStep(t)
    PROVE  TrailInv'
<1> DEFINE y == summarizer[t]
<1>1. /\ y \in SummarizerRecord /\ DOMAIN summarizer = Turns
      /\ history \in Seq(Messages) /\ summary \subseteq Messages
      /\ y.read \in Seq(Messages) /\ y.context \subseteq Messages
  BY DEF ShapeInv, TypeOK, SummarizerRecord
<1>2. /\ GoodSession(Session, turn) /\ GoodSession(disk, turn)
      /\ Good(history, turn) /\ Known(summary, turn)
      /\ Good(y.read, turn) /\ Known(y.context, turn) /\ GoodSession(y.file, turn)
  BY DEF TrailInv, GoodSession, Session
<1>3. UNCHANGED <<history, summary>> => Session' = Session
  BY DEF Session
<1>4. ASSUME NEW p, UNCHANGED turn, GoodSession(Session', turn), GoodSession(disk', turn),
             summarizer' = [summarizer EXCEPT ![t] = [NoSummarizer EXCEPT !.pc = p]]
      PROVE  TrailInv'
  <2> DEFINE s == [NoSummarizer EXCEPT !.pc = p]
  <2>1. s.read = << >> /\ s.context = {} /\ s.file = EmptySession
    BY DEF NoSummarizer
  <2> HIDE DEF s
  <2>2. Good(s.read, turn) /\ Known(s.context, turn) /\ GoodSession(s.file, turn)
    BY <2>1, EmptyGood
  <2> QED
    BY <1>4, <2>2, SummarizerMoves DEF s
<1>5. CASE SummarizerReadsHistory(t)
  <2> DEFINE s == [y EXCEPT !.pc = "summary", !.read = history]
  <2>1. summarizer' = [summarizer EXCEPT ![t] = s]
    BY <1>1, <1>5 DEF SummarizerReadsHistory
  <2>2. s.read = history /\ s.context = y.context /\ s.file = y.file
    BY <1>1 DEF SummarizerRecord
  <2> HIDE DEF s
  <2> QED
    BY <1>2, <1>3, <1>5, <2>1, <2>2, SummarizerMoves DEF SummarizerReadsHistory
<1>6. CASE SummarizerReadsSummary(t)
  <2>1. CASE Valid(t) = << >>
    BY <1>2, <1>3, <1>4, <1>6, <2>1 DEF SummarizerReadsSummary
  <2>2. CASE Valid(t) # << >>
    <3> DEFINE s == [y EXCEPT !.pc = "call", !.context = summary]
    <3>1. summarizer' = [summarizer EXCEPT ![t] = s]
      BY <1>1, <1>6, <2>2 DEF SummarizerReadsSummary
    <3>2. s.read = y.read /\ s.context = summary /\ s.file = y.file
      BY <1>1 DEF SummarizerRecord
    <3> HIDE DEF s
    <3> QED
      BY <1>2, <1>3, <1>6, <3>1, <3>2, SummarizerMoves DEF SummarizerReadsSummary
  <2> QED
    BY <2>1, <2>2
<1>7. CASE SummarizeAndTruncate(t)
  <2>1. Good(history', turn)
    BY <1>1, <1>2, <1>7, LastOfGood, Bounds DEF SummarizeAndTruncate
  <2>2. summary' \subseteq Elements(y.read) \cup y.context
    BY <1>1, <1>7, SummaryFacts DEF SummarizeAndTruncate
  <2>3. Known(summary', turn)
    BY <1>2, <2>2 DEF Good, Known
  <2>4. GoodSession(Session', turn)
    BY <2>1, <2>3 DEF GoodSession, Session
  <2> QED
    BY <1>2, <1>4, <1>7, <2>4 DEF SummarizeAndTruncate
<1>8. CASE SummaryFails(t)
  BY <1>2, <1>3, <1>4, <1>8 DEF SummaryFails
<1>9. CASE SummarizerSnapshot(t)
  <2> DEFINE s == [y EXCEPT !.pc = "rename", !.file = Session]
  <2>1. summarizer' = [summarizer EXCEPT ![t] = s]
    BY <1>1, <1>9 DEF SummarizerSnapshot
  <2>2. s.read = y.read /\ s.context = y.context /\ s.file = Session
    BY <1>1 DEF SummarizerRecord
  <2> HIDE DEF s
  <2> QED
    BY <1>2, <1>3, <1>9, <2>1, <2>2, SummarizerMoves DEF SummarizerSnapshot
<1>10. ASSUME NEW ok \in BOOLEAN, SummarizerRename(t, ok) PROVE TrailInv'
  <2>1. GoodSession(disk', turn)
    BY <1>2, <1>10 DEF SummarizerRename
  <2> QED
    BY <1>2, <1>3, <1>4, <1>10, <2>1 DEF SummarizerRename
<1>11. CASE Release(t)
  <2>1. Good(NoSummarizer.read, turn) /\ Known(NoSummarizer.context, turn)
        /\ GoodSession(NoSummarizer.file, turn)
    BY EmptyGood DEF NoSummarizer
  <2> QED
    BY <1>2, <1>3, <1>11, <2>1, SummarizerMoves DEF Release
<1> QED
  BY <1>5, <1>6, <1>7, <1>8, <1>9, <1>10, <1>11 DEF SummarizerStep

(* A crash ends the turns that have begun: all that is on disk is behind   *)
(* them, the results that the repair adds too.                             *)
LEMMA CrashKeeps ==
    ASSUME ShapeInv, TrailInv, CrashAndRestart
    PROVE  ShapeInv' /\ TrailInv'
<1>1. /\ disk \in Sessions /\ disk.messages \in Seq(Messages) /\ disk.summary \subseteq Messages
      /\ DOMAIN turn = Turns /\ \A t \in Turns : TurnFits(turn[t])
      /\ crashes \in Nat /\ crashes <= MaxCrashes
  BY Bounds DEF ShapeInv, TypeOK, Sessions
<1>2. \A t \in Turns : turn'[t] = IF turn[t].pc = "idle" THEN Waiting ELSE Ended
  BY DEF CrashAndRestart
<1>3. Good(disk.messages, turn) /\ Known(disk.summary, turn)
  BY DEF TrailInv, GoodSession
<1> DEFINE h == disk.messages
           repaired == RepairOrphanedToolCalls(h)
<1> HIDE DEF h
<1>4. /\ repaired \in Seq(Messages) /\ Placed(repaired)
      /\ \A x \in Elements(repaired) \ Elements(h) :
            \E m \in Elements(h) : x \in Unanswered(h, m) /\ x.turn = m.turn
  BY <1>1, <1>3, RepairFacts DEF Good, h
<1> HIDE DEF repaired
<1>5. history' = repaired /\ summary' = disk.summary /\ UNCHANGED disk
  BY DEF CrashAndRestart, repaired, h
<1>6. ShapeInv'
  <2>1. turn' \in [Turns -> TurnRecord] /\ \A t \in Turns : TurnFits(turn'[t])
    BY <1>2, RecordsInit DEF CrashAndRestart
  <2>2. summarizer' \in [Turns -> SummarizerRecord]
    BY RecordsInit DEF CrashAndRestart
  <2>3. crashes' \in 0..MaxCrashes
    BY <1>1, Bounds DEF CrashAndRestart
  <2>4. guard' \in BOOLEAN /\ clobbered' \in BOOLEAN
    BY DEF CrashAndRestart
  <2>5. history' \in Seq(Messages) /\ summary' \subseteq Messages /\ disk' \in Sessions
    BY <1>1, <1>4, <1>5
  <2> QED
    BY <2>1, <2>2, <2>3, <2>4, <2>5 DEF ShapeInv, TypeOK, TurnRecord, SummarizerRecord
<1>7. \A a : Behind(a, Ended)
  BY DEF Behind, NotAdded, Asking, Ended, Waiting
<1>8. ASSUME NEW m \in Messages, m.role # "note", Behind(m, turn[m.turn])
      PROVE  turn'[m.turn] = Ended
  BY <1>2, <1>8 DEF Messages, Behind, NotAdded
<1>9. Onward
  BY <1>7, <1>8 DEF Onward, Behind
<1>10. Good(repaired, turn')
  <2> SUFFICES ASSUME NEW a \in Elements(repaired) PROVE Behind(a, turn'[a.turn])
    BY <1>4 DEF Good, Known
  <2>1. CASE a \in Elements(h)
    BY <1>1, <1>3, <1>9, <2>1, ElementsTyped DEF Good, Known, Onward, h
  <2>2. CASE a \notin Elements(h)
    <3>1. PICK m \in Elements(h) : a \in Unanswered(h, m) /\ a.turn = m.turn
      BY <1>4, <2>2
    <3>2. m \in Messages /\ m.role = "call" /\ Behind(m, turn[m.turn])
      BY <1>1, <1>3, <3>1, ElementsTyped DEF Unanswered, Good, Known, h
    <3> QED
      BY <1>7, <1>8, <3>1, <3>2
  <2> QED
    BY <2>1, <2>2
<1>11. GoodSession(disk, turn') /\ Known(disk.summary, turn')
  BY <1>9, CopiesStay DEF GoodSession
<1>12. GoodSession(Session', turn')
  BY <1>5, <1>10, <1>11 DEF GoodSession, Session
<1>13. \A t \in Turns : /\ turn'[t].read = EmptySession /\ turn'[t].file = EmptySession
                        /\ summarizer'[t].read = << >> /\ summarizer'[t].context = {}
                        /\ summarizer'[t].file = EmptySession
  BY <1>2 DEF CrashAndRestart, Waiting, Ended, NoSummarizer
<1>14. \A t \in Turns : /\ GoodSession(turn'[t].read, turn') /\ GoodSession(turn'[t].file, turn')
                        /\ Good(summarizer'[t].read, turn') /\ Known(summarizer'[t].context, turn')
                        /\ GoodSession(summarizer'[t].file, turn')
  BY <1>13, EmptyGood
<1>15. TrailInv'
  BY <1>5, <1>11, <1>12, <1>14 DEF TrailInv
<1> QED
  BY <1>6, <1>15

(* An empty session to begin with.                                         *)
LEMMA TrailInit == Init => ShapeInv /\ TrailInv
<1> SUFFICES ASSUME Init PROVE ShapeInv /\ TrailInv
  OBVIOUS
<1>1. /\ history = << >> /\ summary = {} /\ disk = EmptySession /\ Session = EmptySession
      /\ \A t \in Turns : turn[t] = Waiting /\ summarizer[t] = NoSummarizer
  BY DEF Init, Session, EmptySession
<1>2. ShapeInv
  <2>1. turn \in [Turns -> TurnRecord] /\ summarizer \in [Turns -> SummarizerRecord]
    BY RecordsInit DEF Init
  <2>2. crashes \in 0..MaxCrashes /\ guard \in BOOLEAN /\ clobbered \in BOOLEAN
    <3>1. 0 \in 0..MaxCrashes
      BY Bounds
    <3> QED
      BY <3>1 DEF Init
  <2>3. disk \in Sessions /\ \A t \in Turns : TurnFits(turn[t])
    BY <1>1, RecordsInit
  <2>4. history \in Seq(Messages) /\ summary \subseteq Messages
    BY <1>1
  <2> QED
    BY <2>1, <2>2, <2>3, <2>4 DEF ShapeInv, TypeOK, TurnRecord, SummarizerRecord
<1>3. \A t \in Turns : /\ turn[t].read = EmptySession /\ turn[t].file = EmptySession
                       /\ summarizer[t].read = << >> /\ summarizer[t].context = {}
                       /\ summarizer[t].file = EmptySession
  BY <1>1 DEF Waiting, NoSummarizer
<1>4. TrailInv
  BY <1>1, <1>3, EmptyGood DEF TrailInv
<1> QED
  BY <1>2, <1>4

(* Every step keeps the types and the trail.                               *)
LEMMA TrailNext == ShapeInv /\ TrailInv /\ [Next]_vars => ShapeInv' /\ TrailInv'
<1> SUFFICES ASSUME ShapeInv, TrailInv, [Next]_vars PROVE ShapeInv' /\ TrailInv'
  OBVIOUS
<1>1. ASSUME NEW t \in Turns, MessageArrives(t) \/ TurnStep(t) PROVE ShapeInv' /\ TrailInv'
  BY <1>1, TurnStepShape, TurnStepTrail
<1>2. ASSUME NEW t \in Turns, SummarizerStep(t) PROVE ShapeInv' /\ TrailInv'
  BY <1>2, SummarizerStepShape, SummarizerStepTrail
<1>3. CASE CrashAndRestart
  BY <1>3, CrashKeeps
<1>4. CASE UNCHANGED vars
  BY <1>4 DEF vars, ShapeInv, TypeOK, TrailInv, Session
<1> QED
  BY <1>1, <1>2, <1>3, <1>4 DEF Next

(* The types and the trail are invariants.                                 *)
LEMMA TrailAlways == Spec => [](ShapeInv /\ TrailInv)
  BY TrailInit, TrailNext, PTL DEF Spec

(* The variables keep their types.                                         *)
THEOREM SessionTypeCorrect == Spec => []TypeOK
<1>1. ShapeInv => TypeOK
  BY DEF ShapeInv
<1> QED
  BY <1>1, TrailAlways, PTL

(* Whatever is compressed, summarised, saved out of order, lost in a crash *)
(* or repaired, what is left of a turn stays in the order it happened in,  *)
(* and no message is there twice, in memory and in the file.               *)
THEOREM SessionsStayInOrder == Spec => []TranscriptInOrder
<1>1. TrailInv => TranscriptInOrder
  BY PlacedInOrder DEF TrailInv, GoodSession, Good, Session, TranscriptInOrder
<1> QED
  BY <1>1, TrailAlways, PTL

-----------------------------------------------------------------------------
(* What follows for the prompts, and for the calls.                        *)

(* What stands at no two places is there at most once.                     *)
LEMMA AtMostOnce ==
    ASSUME NEW m, NEW s,
           \A p, q \in DOMAIN s : s[p] = m /\ s[q] = m => p = q
    PROVE  Occurrences(m, s) <= 1
<1> DEFINE T == {p \in DOMAIN s : s[p] = m}
<1>1. CASE T = {}
  BY <1>1, FS_EmptySet DEF Occurrences
<1>2. CASE T # {}
  <2>1. PICK p \in T : TRUE
    BY <1>2
  <2>2. T = {p}
    BY <2>1
  <2>3. Cardinality({p}) = 1
    BY FS_Singleton
  <2> HIDE DEF T
  <2>4. Cardinality(T) = 1
    BY <2>2, <2>3
  <2> QED
    BY <2>4 DEF Occurrences, T
<1> QED
  BY <1>1, <1>2

(* What a turn's prompt starts from: a transcript in order, which does not *)
(* hold the turn's message yet unless the prompt is being rebuilt.         *)
LEMMA PromptIsInOrder ==
    ASSUME ShapeInv, TrailInv, NEW t \in Turns, BuildsPrompt(t)
    PROVE  /\ turn[t].again \in BOOLEAN
           /\ StripLeadingTools(turn[t].read.messages) \in Seq(Messages)
           /\ Placed(StripLeadingTools(turn[t].read.messages))
           /\ ~turn[t].again =>
                 User(t) \notin Elements(StripLeadingTools(turn[t].read.messages))
<1> DEFINE h == turn[t].read.messages
<1>1. turn[t] \in TurnRecord
  BY DEF ShapeInv, TypeOK, TurnRecord
<1>2. h \in Seq(Messages) /\ turn[t].again \in BOOLEAN
  BY <1>1 DEF TurnRecord, Sessions
<1>3. Placed(h) /\ Known(Elements(h), turn)
  BY DEF TrailInv, GoodSession, Good
<1>4. ~turn[t].again => User(t) \notin Elements(h)
  <2>1. User(t).role # "note" /\ User(t).turn = t
    BY DEF User, Message
  <2>2. ~turn[t].again => ~Behind(User(t), turn[t])
    BY <2>1 DEF BuildsPrompt, Behind, NotAdded
  <2> QED
    BY <1>3, <2>1, <2>2 DEF Known
<1> HIDE DEF h
<1> QED
  BY <1>2, <1>3, <1>4, StripFacts DEF h

(* The provider never sees the current message twice, though it is added   *)
(* to the session while the prompt already holds it, and the prompt may be *)
(* rebuilt from the session (runLLMIteration's empty currentMessage).      *)
THEOREM TheQuestionIsAskedOnce == Spec => []QuestionAtMostOnce
<1>1. ShapeInv /\ TrailInv => QuestionAtMostOnce
  <2> SUFFICES ASSUME ShapeInv, TrailInv, NEW t \in Turns, BuildsPrompt(t)
               PROVE  Occurrences(User(t), Prompt(t).messages) <= 1
    BY DEF QuestionAtMostOnce
  <2> DEFINE m == User(t)
             e == StripLeadingTools(turn[t].read.messages)
             s == e \o CurrentMessage(t)
  <2>1. Prompt(t).messages = s
    BY DEF Prompt, BuildMessages
  <2>2. /\ turn[t].again \in BOOLEAN /\ e \in Seq(Messages) /\ Placed(e)
        /\ ~turn[t].again => m \notin Elements(e)
    BY PromptIsInOrder
  <2>3. m.role = "user"
    BY DEF User, Message
  <2> HIDE DEF e
  <2>4. \A p, q \in DOMAIN e : e[p] = m /\ e[q] = m => p = q
    <3> SUFFICES ASSUME NEW p \in DOMAIN e, NEW q \in DOMAIN e, e[p] = m, e[q] = m, p < q
                 PROVE  FALSE
      BY <2>2
    <3>1. InPlace(e[p], e[q])
      BY <2>2 DEF Placed
    <3> QED
      BY <2>3, <3>1 DEF InPlace
  <2>5. \A p, q \in DOMAIN s : s[p] = m /\ s[q] = m => p = q
    <3>1. CASE turn[t].again
      <4>1. s = e
        BY <2>2, <3>1 DEF CurrentMessage
      <4> QED
        BY <2>4, <4>1
    <3>2. CASE ~turn[t].again
      <4>1. CurrentMessage(t) = <<m>>
        BY <3>2 DEF CurrentMessage
      <4> HIDE DEF m
      <4>2. /\ Len(e) \in Nat /\ DOMAIN e = 1..Len(e) /\ DOMAIN s = 1..(Len(e) + 1)
            /\ \A p \in 1..Len(e) : s[p] = e[p]
        BY <2>2, <4>1
      <4>3. \A p \in DOMAIN e : e[p] # m
        BY <2>2, <3>2 DEF Elements
      <4>4. \A p \in DOMAIN s : s[p] = m => p = Len(e) + 1
        BY <4>2, <4>3
      <4> QED
        BY <4>4
    <3> QED
      BY <2>2, <3>1, <3>2
  <2> QED
    BY <2>1, <2>5, AtMostOnce
<1> QED
  BY <1>1, TrailAlways, PTL

(* What there is after a message was added.                                *)
LEMMA AppendElements ==
    ASSUME NEW s \in Seq(Messages), NEW m \in Messages
    PROVE  Elements(Append(s, m)) = Elements(s) \cup {m}
<1> DEFINE e == Append(s, m)
<1>1. /\ Len(s) \in Nat /\ DOMAIN e = 1..(Len(s) + 1) /\ e[Len(s) + 1] = m
      /\ DOMAIN s = 1..Len(s) /\ \A p \in 1..Len(s) : e[p] = s[p]
  OBVIOUS
<1> HIDE DEF e
<1>2. 1..(Len(s) + 1) = 1..Len(s) \cup {Len(s) + 1}
  BY <1>1
<1>3. \A x : x \in Elements(e) => x \in Elements(s) \cup {m}
  BY <1>1, <1>2 DEF Elements
<1>4. \A x : x \in Elements(s) \cup {m} => x \in Elements(e)
  BY <1>1, <1>2 DEF Elements
<1> QED
  BY <1>3, <1>4 DEF e

(* A shorter history holds nothing new but a compression's note, and who   *)
(* keeps a call keeps its results.                                         *)
Shortened(h, e) ==
    /\ \A m \in Elements(e) : m \in Elements(h) \/ m.role = "note"
    /\ \A m \in Elements(e) : m \in Elements(h) /\ m.role = "call" =>
          Unanswered(e, m) \subseteq Unanswered(h, m)

(* The end of a history is a shorter one.                                  *)
LEMMA SuffixShortens ==
    ASSUME NEW h \in Seq(Messages), Placed(h), NEW k \in 1..(Len(h) + 1)
    PROVE  /\ Elements(SubSeq(h, k, Len(h))) \subseteq Elements(h)
           /\ \A m \in Elements(SubSeq(h, k, Len(h))) : m.role = "call" =>
                 Unanswered(SubSeq(h, k, Len(h)), m) \subseteq Unanswered(h, m)
<1> DEFINE e == SubSeq(h, k, Len(h))
<1>1. \A a : a \in Elements(e) => \E p \in k..Len(h) : h[p] = a
  BY SuffixFacts
<1>2. k..Len(h) \subseteq DOMAIN h
  OBVIOUS
<1>3. ASSUME NEW m \in Elements(e), m.role = "call", NEW r \in Unanswered(e, m)
      PROVE  r \in Unanswered(h, m)
  <2>1. r \in Results(m) /\ r \notin Elements(e)
    BY <1>3 DEF Unanswered
  <2>2. r \notin Elements(h)
    BY <1>3, <2>1, SuffixKeepsResults
  <2> QED
    BY <1>3, <2>1, <2>2 DEF Unanswered
<1> HIDE DEF e
<1>4. Elements(e) \subseteq Elements(h)
  BY <1>1, <1>2 DEF Elements
<1> QED
  BY <1>3, <1>4 DEF e

(* A truncation of the history shortens it.                                *)
LEMMA LastOfShortens ==
    ASSUME NEW h \in Seq(Messages), Placed(h), NEW keep \in Nat
    PROVE  Shortened(h, LastOf(h, keep))
BY LastOfFacts, SuffixShortens DEF Shortened

(* A compression of the history shortens it.                               *)
LEMMA CompressedShortens ==
    ASSUME NEW t \in Turns, NEW h \in Seq(Messages), Placed(h)
    PROVE  Shortened(h, Compressed(t, h))
<1>1. PICK k \in 1..(Len(h) + 1) :
         /\ Compressed(t, h) = <<Note(t, k - 1)>> \o SubSeq(h, k, Len(h))
         /\ Note(t, k - 1) \in Messages
  BY CompressedFacts
<1> DEFINE e == SubSeq(h, k, Len(h))
           note == Note(t, k - 1)
<1>2. note.role = "note"
  BY DEF Note, Message
<1>3. /\ e \in Seq(Messages) /\ Elements(e) \subseteq Elements(h)
      /\ \A m \in Elements(e) : m.role = "call" => Unanswered(e, m) \subseteq Unanswered(h, m)
  BY SuffixFacts, SuffixShortens
<1> HIDE DEF e, note
<1>4. Elements(<<note>> \o e) = {note} \cup Elements(e)
  BY <1>1, <1>2, <1>3, NoteFirst DEF note
<1>5. \A m : Unanswered(<<note>> \o e, m) \subseteq Unanswered(e, m)
  BY <1>4 DEF Unanswered
<1> QED
  BY <1>1, <1>2, <1>3, <1>4, <1>5 DEF Shortened, e, note

(* A turn adds a message of its own that nobody has seen.                  *)
AddsNew(t) ==
    \E m \in Messages : /\ history' = Append(history, m)
                        /\ m.turn = t /\ m.role # "note" /\ ~Behind(m, turn[t])

(* Unless it overwrites what it has not read, a turn's step adds such a    *)
(* message, or shortens the history, or leaves it alone.                   *)
LEMMA TurnWrites ==
    ASSUME ShapeInv, TrailInv, NEW t \in Turns, MessageArrives(t) \/ TurnStep(t),
           ~clobbered'
    PROVE  /\ ~clobbered
           /\ UNCHANGED history \/ AddsNew(t) \/ Shortened(history, history')
<1> DEFINE y == turn[t]
           Goal == ~clobbered /\ (UNCHANGED history \/ AddsNew(t) \/ Shortened(history, history'))
<1> SUFFICES Goal
  OBVIOUS
<1>1. /\ y \in TurnRecord /\ TurnFits(y) /\ DOMAIN turn = Turns
      /\ y.iter \in Nat /\ y.again \in BOOLEAN /\ history \in Seq(Messages) /\ Placed(history)
  BY DEF ShapeInv, TypeOK, TurnRecord, TrailInv, GoodSession, Good, Session
<1>2. ASSUME UNCHANGED <<history, clobbered>> PROVE Goal
  BY <1>2
<1>3. ASSUME NEW m \in Messages, history' = Append(history, m), UNCHANGED clobbered,
             m.turn = t, m.role # "note", ~Behind(m, y)
      PROVE  Goal
  BY <1>3 DEF AddsNew
<1> HIDE DEF Goal
<1>4. CASE AddUserMessage(t)
  <2> DEFINE m == User(t)
  <2>1. m \in Messages /\ m.turn = t /\ m.role = "user"
    BY NewMessages DEF User, Message
  <2>2. ~Behind(m, y)
    BY <1>1, <1>4, <2>1 DEF AddUserMessage, Behind, NotAdded, TurnFits
  <2> QED
    BY <1>3, <1>4, <2>1, <2>2 DEF AddUserMessage
<1>5. ASSUME NEW width \in 1..MaxCalls, CallTools(t, width) PROVE Goal
  <2> DEFINE m == Calls(t, y.iter, width)
  <2>1. m \in Messages /\ m.turn = t /\ m.role = "call" /\ m.n = y.iter
    BY <1>1, NewMessages, Bounds DEF Calls, Message
  <2>2. Rank(m) = 2 * y.iter
    BY <2>1, RankFacts
  <2>3. history' = Append(history, m) /\ UNCHANGED clobbered
    BY <1>5 DEF CallTools
  <2> HIDE DEF m
  <2>4. ~Behind(m, y)
    BY <1>1, <1>5, <2>1, <2>2 DEF CallTools, Behind, Asking
  <2> QED
    BY <1>3, <2>1, <2>3, <2>4
<1>6. CASE ToolReturns(t)
  <2> DEFINE m == ToolResult(t, y.iter, Head(y.left))
  <2>1. y.left \in Seq(1..MaxCalls) /\ y.left # << >> /\ y.pc = "tools"
    BY <1>1, <1>6 DEF TurnRecord, TurnFits, ToolReturns
  <2>2. Len(y.left) \in Nat \ {0} /\ DOMAIN y.left = 1..Len(y.left)
    BY <2>1, EmptySeq, LenProperties
  <2>3. 1 \in 1..Len(y.left)
    BY <2>2
  <2>4. y.left[1] \in 1..MaxCalls
    BY <2>1, <2>3, ElementOfSeq
  <2>5. Head(y.left) \in Nat /\ Head(y.left) \in Elements(y.left)
    BY <2>1, <2>2, <2>3, <2>4, Bounds DEF Elements
  <2>6. m \in Messages /\ m.turn = t /\ m.role = "tool" /\ m.n = y.iter /\ m.i = Head(y.left)
    BY <1>1, <2>5, NewMessages DEF ToolResult, Message
  <2>7. history' = Append(history, m) /\ UNCHANGED clobbered
    BY <1>6 DEF ToolReturns
  <2> HIDE DEF m
  <2>8. ~Behind(m, y)
    BY <2>1, <2>5, <2>6 DEF Behind
  <2> QED
    BY <1>3, <2>6, <2>7, <2>8
<1>7. CASE Answer(t)
  <2> DEFINE m == Reply(t, y.iter)
  <2>1. m \in Messages /\ m.turn = t /\ m.role = "assistant" /\ m.n = y.iter
    BY <1>1, NewMessages DEF Reply, Message
  <2>2. Rank(m) = 2 * y.iter + 2
    BY <2>1, RankFacts
  <2>3. history' = Append(history, m) /\ UNCHANGED clobbered
    BY <1>7 DEF Answer
  <2> HIDE DEF m
  <2>4. ~Behind(m, y)
    BY <1>1, <1>7, <2>1, <2>2 DEF Answer, Behind, Asking
  <2> QED
    BY <1>3, <2>1, <2>3, <2>4
<1>8. CASE CompressWrite(t)
  <2>1. ~clobbered /\ history' = Compressed(t, history)
    BY <1>8 DEF CompressWrite
  <2> QED
    BY <1>1, <2>1, CompressedShortens DEF Goal
<1>9. CASE \/ ReadHistory(t) \/ ReadSummary(t) \/ NextIteration(t) \/ EndOnTerminalTools(t)
           \/ ProviderFails(t) \/ RetryWithoutTools(t) \/ ContextError(t)
           \/ CompressRead(t) \/ Snapshot(t)
           \/ \E ok \in BOOLEAN : Rename(t, ok)
           \/ \E toobig \in BOOLEAN : MaybeSummarize(t, toobig)
  BY <1>2, <1>9 DEF ReadHistory, ReadSummary, NextIteration, EndOnTerminalTools, ProviderFails,
     RetryWithoutTools, ContextError, CompressRead, Snapshot, Rename, MaybeSummarize
<1> QED
  BY <1>4, <1>5, <1>6, <1>7, <1>8, <1>9 DEF MessageArrives, TurnStep

(* What a turn found in the summary and not in the history it read before  *)
(* is not in the history any more: it has been summarised.                 *)
NotInHistory ==
    \A t \in Turns : BuildsPrompt(t) /\ ~clobbered =>
        \A m \in turn[t].read.summary \ Elements(turn[t].read.messages) :
            m.role # "note" => m \notin Elements(history)

(* A turn that reads finds it so.                                          *)
LEMMA TurnStepNotInHistory ==
    ASSUME ShapeInv, TrailInv, NotInHistory, NEW u \in Turns,
           MessageArrives(u) \/ TurnStep(u)
    PROVE  NotInHistory'
<1> SUFFICES ASSUME NEW t \in Turns, turn'[t].pc = "summary", ~clobbered',
                    NEW m \in turn'[t].read.summary \ Elements(turn'[t].read.messages),
                    m.role # "note"
             PROVE  m \notin Elements(history')
  BY DEF NotInHistory, BuildsPrompt
<1>1. /\ turn[u] \in TurnRecord /\ DOMAIN turn = Turns /\ history \in Seq(Messages)
      /\ turn[t].read \in Sessions
  BY DEF ShapeInv, TypeOK, TurnRecord
<1>2. CASE ReadHistory(u) /\ t = u
  <2>1. turn'[t].read = Session /\ history' = history
    BY <1>1, <1>2 DEF ReadHistory, TurnRecord
  <2> QED
    BY <2>1 DEF Session
<1>3. CASE ~(ReadHistory(u) /\ t = u)
  <2>1. turn'[t] = turn[t] /\ t # u
    <3>1. \E x : /\ turn' = [turn EXCEPT ![u] = x]
                 /\ ReadHistory(u) \/ x.pc # "summary"
      <4> DEFINE Elsewhere == \E x : turn' = [turn EXCEPT ![u] = x] /\ x.pc # "summary"
      <4>1. CASE ReadHistory(u)
        BY <4>1 DEF ReadHistory
      <4>2. CASE ReadSummary(u) \/ AddUserMessage(u) \/ (\E w \in 1..MaxCalls : CallTools(u, w))
                 \/ ToolReturns(u) \/ NextIteration(u)
        <5>1. Elsewhere
          BY <1>1, <4>2 DEF ReadSummary, AddUserMessage, CallTools, ToolReturns, NextIteration,
             TurnRecord
        <5> QED
          BY <5>1
      <4>3. CASE Answer(u) \/ EndOnTerminalTools(u) \/ ProviderFails(u)
                 \/ (\E toobig \in BOOLEAN : MaybeSummarize(u, toobig))
        <5>1. Elsewhere
          BY <4>3 DEF Answer, EndOnTerminalTools, ProviderFails, MaybeSummarize, Waiting, Ended
        <5> QED
          BY <5>1
      <4>4. CASE RetryWithoutTools(u) \/ ContextError(u) \/ CompressRead(u) \/ CompressWrite(u)
                 \/ Snapshot(u) \/ (\E ok \in BOOLEAN : Rename(u, ok))
        <5>1. Elsewhere
          BY <1>1, <4>4 DEF RetryWithoutTools, ContextError, CompressRead, CompressWrite,
             Snapshot, Rename, TurnRecord
        <5> QED
          BY <5>1
      <4> QED
        BY <4>1, <4>2, <4>3, <4>4 DEF MessageArrives, TurnStep
    <3> QED
      BY <1>1, <1>3, <3>1
  <2>2. m \in turn[t].read.summary \ Elements(turn[t].read.messages) /\ turn[t].pc = "summary"
    BY <2>1
  <2>3. ~clobbered /\ (UNCHANGED history \/ AddsNew(u) \/ Shortened(history, history'))
    BY TurnWrites
  <2>4. m \notin Elements(history)
    BY <2>2, <2>3 DEF NotInHistory, BuildsPrompt
  <2>5. Behind(m, turn[m.turn])
    BY <2>2 DEF TrailInv, GoodSession, Known
  <2>6. CASE AddsNew(u)
    <3>1. PICK a \in Messages : history' = Append(history, a) /\ a.turn = u /\ ~Behind(a, turn[u])
      BY <2>6 DEF AddsNew
    <3>2. Elements(history') = Elements(history) \cup {a}
      BY <1>1, <3>1, AppendElements
    <3> QED
      BY <2>4, <2>5, <3>1, <3>2
  <2> QED
    BY <2>3, <2>4, <2>6 DEF Shortened
<1> QED
  BY <1>2, <1>3

(* So it stays.                                                            *)
LEMMA NotInHistoryNext ==
    ShapeInv /\ TrailInv /\ NotInHistory /\ [Next]_vars => NotInHistory'
<1> SUFFICES ASSUME ShapeInv, TrailInv, NotInHistory, [Next]_vars PROVE NotInHistory'
  OBVIOUS
<1>1. history \in Seq(Messages) /\ Placed(history)
  BY DEF ShapeInv, TypeOK, TrailInv, GoodSession, Good, Session
<1>2. ASSUME NEW t \in Turns, SummarizerStep(t) PROVE NotInHistory'
  <2>1. UNCHANGED <<turn, clobbered>> /\ (UNCHANGED history \/ history' = LastOf(history, KeepLast))
    BY <1>2 DEF SummarizerStep, SummarizerReadsHistory, SummarizerReadsSummary,
       SummarizeAndTruncate, SummaryFails, SummarizerSnapshot, SummarizerRename, Release
  <2>2. UNCHANGED history \/ Shortened(history, history')
    BY <1>1, <2>1, LastOfShortens, Bounds
  <2> QED
    BY <2>1, <2>2 DEF NotInHistory, BuildsPrompt, Shortened
<1>3. CASE CrashAndRestart
  <2>1. \A t \in Turns : turn'[t].pc # "summary"
    BY <1>3 DEF CrashAndRestart, Waiting, Ended
  <2> QED
    BY <2>1 DEF NotInHistory, BuildsPrompt
<1>4. CASE UNCHANGED vars
  BY <1>4 DEF vars, NotInHistory, BuildsPrompt
<1> QED
  BY <1>2, <1>3, <1>4, TurnStepNotInHistory DEF Next

(* A prompt misses nothing that a summariser moves from the history to the *)
(* summary while the prompt is being put together: GetHistory comes before *)
(* GetSummary.  Tool results, the notes of a compression and resurrected   *)
(* histories are left out, as in the property.                             *)
THEOREM PromptsAreComplete == Spec => []PromptCoversMemory
<1>1. Init => NotInHistory
  BY DEF Init, NotInHistory, BuildsPrompt, Waiting
<1>2. ShapeInv /\ TrailInv /\ NotInHistory => PromptCoversMemory
  <2> SUFFICES ASSUME ShapeInv, TrailInv, NotInHistory,
                      NEW t \in Turns, BuildsPrompt(t), ~clobbered,
                      NEW m \in Covered(turn[t].read) \cap Covered(Session),
                      m.role \notin {"tool", "note"}
               PROVE  m \in Covered(Prompt(t))
    BY DEF PromptCoversMemory
  <2> DEFINE h == turn[t].read.messages
             e == StripLeadingTools(h)
             c == CurrentMessage(t)
  <2>1. h \in Seq(Messages) /\ e \in Seq(Messages) /\ c \in Seq(Messages)
    <3>1. turn[t].read \in Sessions
      BY DEF ShapeInv, TypeOK
    <3>2. c \in Seq(Messages)
      BY NewMessages DEF CurrentMessage
    <3> QED
      BY <3>1, <3>2, PromptIsInOrder DEF Sessions
  <2>2. CASE m \in Elements(h)
    <3> HIDE DEF h, c
    <3>1. m \in Elements(e)
      BY <2>1, <2>2, StripFacts
    <3> HIDE DEF e
    <3>2. PICK p \in DOMAIN e : e[p] = m
      BY <3>1 DEF Elements
    <3>3. p \in DOMAIN (e \o c) /\ (e \o c)[p] = m
      BY <2>1, <3>2
    <3>4. m \in Elements(e \o c)
      BY <3>3 DEF Elements
    <3> QED
      BY <3>4 DEF Covered, Prompt, BuildMessages, e, c, h
  <2>3. CASE m \notin Elements(h)
    <3>1. m \in turn[t].read.summary
      BY <2>3 DEF Covered
    <3>2. m \notin Elements(history)
      BY <2>3, <3>1 DEF NotInHistory
    <3> QED
      BY <3>2 DEF Covered, Session, Prompt
  <2> QED
    BY <2>2, <2>3
<1> QED
  BY <1>1, <1>2, NotInHistoryNext, TrailAlways, PTL DEF Spec

(* The calls that have no result yet stay the work of turns that run tools.*)
LEMMA AnswersKept ==
    ASSUME ShapeInv, UnansweredCallIsBeingAnswered, ~clobbered,
           \A u \in Turns : turn[u].pc = "tools" => turn'[u] = turn[u],
           \A m \in Elements(history') : Unanswered(history', m) # {} =>
               /\ m \in Elements(history)
               /\ Unanswered(history', m) \subseteq Unanswered(history, m)
    PROVE  UnansweredCallIsBeingAnswered'
<1> SUFFICES ASSUME NEW m \in Elements(history'), NEW r \in Unanswered(history', m)
             PROVE  /\ turn'[m.turn].pc = "tools" /\ turn'[m.turn].iter = m.n
                    /\ r.i \in Elements(turn'[m.turn].left)
  BY DEF UnansweredCallIsBeingAnswered
<1>1. m \in Elements(history) /\ r \in Unanswered(history, m)
  OBVIOUS
<1>2. m \in Messages
  BY <1>1, ElementsTyped DEF ShapeInv, TypeOK
<1>3. /\ turn[m.turn].pc = "tools" /\ turn[m.turn].iter = m.n
      /\ r.i \in Elements(turn[m.turn].left)
  BY <1>1 DEF UnansweredCallIsBeingAnswered
<1> QED
  BY <1>2, <1>3 DEF Messages

(* Only calls await results.                                               *)
LEMMA OnlyCallsAwait == \A h, m : Unanswered(h, m) # {} => m.role = "call"
BY DEF Unanswered

(* The longer the history, the fewer results are awaited.                  *)
LEMMA LongerAwaitsLess ==
    \A h, e, m : Elements(h) \subseteq Elements(e) =>
        Unanswered(e, m) \subseteq Unanswered(h, m)
BY DEF Unanswered

(* The tools of a turn run, and none of its calls awaited a result.        *)
LEMMA CallToolsAwaits ==
    ASSUME ShapeInv, UnansweredCallIsBeingAnswered, ~clobbered,
           NEW t \in Turns, NEW width \in 1..MaxCalls, CallTools(t, width)
    PROVE  UnansweredCallIsBeingAnswered'
<1> DEFINE y == turn[t]
           c == Calls(t, y.iter, width)
           l == [i \in 1..width |-> i]
<1>1. /\ y \in TurnRecord /\ DOMAIN turn = Turns /\ y.iter \in Nat
      /\ history \in Seq(Messages) /\ y.pc = "ask"
  BY DEF ShapeInv, TypeOK, TurnRecord, CallTools
<1>2. c \in Messages /\ c.turn = t /\ c.n = y.iter /\ c.role = "call" /\ c.i = width
  BY <1>1, NewMessages, Bounds DEF Calls, Message
<1>3. history' = Append(history, c)
  BY DEF CallTools
<1>4. turn'[t].pc = "tools" /\ turn'[t].iter = y.iter /\ turn'[t].left = l
  BY <1>1 DEF CallTools, TurnRecord
<1>5. \A u \in Turns \ {t} : turn'[u] = turn[u]
  BY <1>1 DEF CallTools
<1> HIDE DEF c
<1>6. Elements(history') = Elements(history) \cup {c}
  BY <1>1, <1>2, <1>3, AppendElements
<1> SUFFICES ASSUME NEW m \in Elements(history'), NEW r \in Unanswered(history', m)
             PROVE  /\ turn'[m.turn].pc = "tools" /\ turn'[m.turn].iter = m.n
                    /\ r.i \in Elements(turn'[m.turn].left)
  BY DEF UnansweredCallIsBeingAnswered
<1>7. CASE m = c
  <2>1. r \in Results(c)
    BY <1>7 DEF Unanswered
  <2>2. r.i \in 1..width
    BY <1>2, <2>1 DEF Results, ToolResult, Message
  <2>3. r.i \in DOMAIN l /\ l[r.i] = r.i
    BY <2>2
  <2>4. r.i \in Elements(l)
    BY <2>3 DEF Elements
  <2> QED
    BY <1>2, <1>4, <1>7, <2>4
<1>8. CASE m \in Elements(history)
  <2>1. r \in Unanswered(history, m)
    BY <1>6, LongerAwaitsLess
  <2>2. m \in Messages
    BY <1>1, <1>8, ElementsTyped
  <2>3. /\ turn[m.turn].pc = "tools" /\ turn[m.turn].iter = m.n
        /\ r.i \in Elements(turn[m.turn].left)
    BY <1>8, <2>1 DEF UnansweredCallIsBeingAnswered
  <2>4. m.turn \in Turns \ {t}
    BY <1>1, <2>2, <2>3 DEF Messages
  <2> QED
    BY <1>5, <2>3, <2>4
<1> QED
  BY <1>6, <1>7, <1>8

(* A result comes: its call is not awaited any more, the others are.       *)
LEMMA ToolReturnsAnswers ==
    ASSUME ShapeInv, UnansweredCallIsBeingAnswered, ~clobbered,
           NEW t \in Turns, ToolReturns(t)
    PROVE  UnansweredCallIsBeingAnswered'
<1> DEFINE y == turn[t]
           a == ToolResult(t, y.iter, Head(y.left))
<1>1. /\ y \in TurnRecord /\ DOMAIN turn = Turns /\ y.iter \in Nat
      /\ history \in Seq(Messages) /\ y.pc = "tools"
      /\ y.left \in Seq(1..MaxCalls) /\ y.left # << >>
  BY DEF ShapeInv, TypeOK, TurnRecord, ToolReturns, TurnFits
<1>2. Len(y.left) \in Nat \ {0} /\ DOMAIN y.left = 1..Len(y.left)
  BY <1>1, EmptySeq, LenProperties
<1>3. y.left[1] \in 1..MaxCalls /\ Head(y.left) = y.left[1]
  <2>1. 1 \in 1..Len(y.left)
    BY <1>2
  <2>2. y.left[1] \in 1..MaxCalls
    BY <1>1, <2>1, ElementOfSeq
  <2> QED
    BY <1>1, <1>2, <2>1, <2>2
<1>4. a \in Messages
  BY <1>1, <1>3, NewMessages, Bounds
<1>5. history' = Append(history, a)
  BY DEF ToolReturns
<1>6. /\ turn'[t].pc = IF Len(y.left) = 1 THEN "toolsDone" ELSE "tools"
      /\ turn'[t].iter = y.iter /\ turn'[t].left = Tail(y.left)
  BY <1>1 DEF ToolReturns, TurnRecord
<1>7. \A u \in Turns \ {t} : turn'[u] = turn[u]
  BY <1>1 DEF ToolReturns
<1> HIDE DEF a
<1>8. Elements(history') = Elements(history) \cup {a}
  BY <1>1, <1>4, <1>5, AppendElements
<1>9. a.role # "call"
  BY DEF a, ToolResult, Message
<1> SUFFICES ASSUME NEW m \in Elements(history'), NEW r \in Unanswered(history', m)
             PROVE  /\ turn'[m.turn].pc = "tools" /\ turn'[m.turn].iter = m.n
                    /\ r.i \in Elements(turn'[m.turn].left)
  BY DEF UnansweredCallIsBeingAnswered
<1>10. m \in Elements(history) /\ r \in Unanswered(history, m) /\ m \in Messages
  <2>1. m.role = "call"
    BY OnlyCallsAwait
  <2>2. m \in Elements(history)
    BY <1>8, <1>9, <2>1
  <2> QED
    BY <1>1, <1>8, <2>2, LongerAwaitsLess, ElementsTyped
<1>11. /\ turn[m.turn].pc = "tools" /\ turn[m.turn].iter = m.n
       /\ r.i \in Elements(turn[m.turn].left)
  BY <1>10 DEF UnansweredCallIsBeingAnswered
<1>12. CASE m.turn = t
  <2>1. r \in Results(m) /\ r \notin Elements(history')
    BY DEF Unanswered
  <2>2. r = ToolResult(t, y.iter, r.i)
    BY <1>11, <1>12, <2>1 DEF Results, ToolResult, Message
  <2>3. r.i # Head(y.left)
    BY <1>8, <2>1, <2>2 DEF a
  <2>4. PICK p \in DOMAIN y.left : y.left[p] = r.i
    BY <1>11, <1>12 DEF Elements
  <2>5. p \in 2..Len(y.left)
    BY <1>2, <1>3, <2>3, <2>4
  <2>6. p - 1 \in DOMAIN Tail(y.left) /\ Tail(y.left)[p - 1] = r.i
    BY <1>1, <1>2, <2>4, <2>5, HeadTailProperties
  <2>7. r.i \in Elements(Tail(y.left)) /\ Len(y.left) # 1
    BY <1>2, <2>5, <2>6 DEF Elements
  <2> QED
    BY <1>6, <1>11, <1>12, <2>7
<1>13. CASE m.turn # t
  <2>1. m.turn \in Turns \ {t}
    BY <1>10, <1>13 DEF Messages
  <2> QED
    BY <1>7, <1>11, <2>1
<1> QED
  BY <1>12, <1>13

(* Every step of a turn answers its calls, or leaves them to their turns.  *)
LEMMA TurnStepAnswers ==
    ASSUME ShapeInv, TrailInv, UnansweredCallIsBeingAnswered, NEW t \in Turns,
           MessageArrives(t) \/ TurnStep(t)
    PROVE  UnansweredCallIsBeingAnswered'
<1> SUFFICES ASSUME ~clobbered' PROVE UnansweredCallIsBeingAnswered'
  BY DEF UnansweredCallIsBeingAnswered
<1>1. /\ turn[t] \in TurnRecord /\ TurnFits(turn[t]) /\ DOMAIN turn = Turns
      /\ history \in Seq(Messages) /\ Placed(history)
  BY DEF ShapeInv, TypeOK, TurnRecord, TrailInv, GoodSession, Good, Session
<1>2. ~clobbered
  BY TurnWrites
<1>3. CASE \E width \in 1..MaxCalls : CallTools(t, width)
  BY <1>2, <1>3, CallToolsAwaits
<1>4. CASE ToolReturns(t)
  BY <1>2, <1>4, ToolReturnsAnswers
<1>5. CASE ReadHistory(t) \/ ReadSummary(t) \/ NextIteration(t) \/ EndOnTerminalTools(t)
           \/ ProviderFails(t) \/ RetryWithoutTools(t) \/ ContextError(t)
           \/ CompressRead(t) \/ Snapshot(t)
           \/ (\E ok \in BOOLEAN : Rename(t, ok))
           \/ (\E toobig \in BOOLEAN : MaybeSummarize(t, toobig))
  <2>1. UNCHANGED history
    BY <1>5 DEF ReadHistory, ReadSummary, NextIteration, EndOnTerminalTools, ProviderFails,
       RetryWithoutTools, ContextError, CompressRead, Snapshot, Rename, MaybeSummarize
  <2>2. turn[t].pc # "tools" /\ \E x : turn' = [turn EXCEPT ![t] = x]
    BY <1>1, <1>5 DEF ReadHistory, ReadSummary, BuildsPrompt, NextIteration, EndOnTerminalTools,
       ProviderFails, RetryWithoutTools, ContextError, CompressRead, Snapshot, Rename,
       MaybeSummarize
  <2>3. \A u \in Turns : turn[u].pc = "tools" => turn'[u] = turn[u]
    BY <1>1, <2>2
  <2>4. \A m \in Elements(history') : Unanswered(history', m) # {} =>
           /\ m \in Elements(history)
           /\ Unanswered(history', m) \subseteq Unanswered(history, m)
    BY <2>1
  <2> QED
    BY <1>2, <2>3, <2>4, AnswersKept
<1>6. CASE AddUserMessage(t) \/ Answer(t)
  <2> DEFINE c == IF AddUserMessage(t) THEN User(t) ELSE Reply(t, turn[t].iter)
  <2>1. history' = Append(history, c)
    BY <1>6 DEF AddUserMessage, Answer
  <2>2. turn[t].pc # "tools" /\ \E x : turn' = [turn EXCEPT ![t] = x]
    BY <1>1, <1>6 DEF AddUserMessage, Answer
  <2>3. c \in Messages /\ c.role # "call"
    <3>1. turn[t].iter \in Nat
      BY <1>1 DEF TurnRecord
    <3>2. User(t).role # "call" /\ Reply(t, turn[t].iter).role # "call"
      BY DEF User, Reply, Message
    <3> QED
      BY <3>1, <3>2, NewMessages
  <2> HIDE DEF c
  <2>4. Elements(history') = Elements(history) \cup {c}
    BY <1>1, <2>1, <2>3, AppendElements
  <2>5. \A m \in Elements(history') : Unanswered(history', m) # {} =>
           /\ m \in Elements(history)
           /\ Unanswered(history', m) \subseteq Unanswered(history, m)
    BY <2>3, <2>4, OnlyCallsAwait, LongerAwaitsLess
  <2>6. \A u \in Turns : turn[u].pc = "tools" => turn'[u] = turn[u]
    BY <1>1, <2>2
  <2> QED
    BY <1>2, <2>5, <2>6, AnswersKept
<1>7. CASE CompressWrite(t)
  <2>1. history' = Compressed(t, history)
    BY <1>7 DEF CompressWrite
  <2>2. Shortened(history, history')
    BY <1>1, <2>1, CompressedShortens
  <2>3. \A m \in Elements(history') : Unanswered(history', m) # {} =>
           /\ m \in Elements(history)
           /\ Unanswered(history', m) \subseteq Unanswered(history, m)
    BY <2>2, OnlyCallsAwait DEF Shortened
  <2>4. \A u \in Turns : turn[u].pc = "tools" => turn'[u] = turn[u]
    BY <1>1, <1>7 DEF CompressWrite
  <2> QED
    BY <1>2, <2>3, <2>4, AnswersKept
<1> QED
  BY <1>3, <1>4, <1>5, <1>6, <1>7 DEF MessageArrives, TurnStep

(* A call without a result is the work of a turn that is still running its *)
(* tools: an ended or crashed turn leaves none behind (the order of        *)
(* truncation, and repairOrphanedToolCalls after a crash).                 *)
THEOREM NoCallIsAbandoned == Spec => []UnansweredCallIsBeingAnswered
<1>1. Init => UnansweredCallIsBeingAnswered
  BY DEF Init, UnansweredCallIsBeingAnswered, Elements
<1>2. ShapeInv /\ TrailInv /\ UnansweredCallIsBeingAnswered /\ [Next]_vars
         => UnansweredCallIsBeingAnswered'
  <2> SUFFICES ASSUME ShapeInv, TrailInv, UnansweredCallIsBeingAnswered, [Next]_vars
               PROVE  UnansweredCallIsBeingAnswered'
    OBVIOUS
  <2>1. history \in Seq(Messages) /\ Placed(history)
    BY DEF ShapeInv, TypeOK, TrailInv, GoodSession, Good, Session
  <2>2. ASSUME NEW t \in Turns, SummarizerStep(t) PROVE UnansweredCallIsBeingAnswered'
    <3> SUFFICES ASSUME ~clobbered' PROVE UnansweredCallIsBeingAnswered'
      BY DEF UnansweredCallIsBeingAnswered
    <3>1. UNCHANGED <<turn, clobbered>>
          /\ (UNCHANGED history \/ history' = LastOf(history, KeepLast))
      BY <2>2 DEF SummarizerStep, SummarizerReadsHistory, SummarizerReadsSummary,
         SummarizeAndTruncate, SummaryFails, SummarizerSnapshot, SummarizerRename, Release
    <3>2. UNCHANGED history \/ Shortened(history, history')
      BY <2>1, <3>1, LastOfShortens, Bounds
    <3>3. \A m \in Elements(history') : Unanswered(history', m) # {} =>
             /\ m \in Elements(history)
             /\ Unanswered(history', m) \subseteq Unanswered(history, m)
      BY <3>2, OnlyCallsAwait DEF Shortened
    <3> QED
      BY <3>1, <3>3, AnswersKept
  <2>3. CASE CrashAndRestart
    <3>1. disk.messages \in Seq(Messages) /\ Placed(disk.messages)
      BY DEF ShapeInv, TypeOK, Sessions, TrailInv, GoodSession, Good
    <3>2. \A m \in Elements(history') : Unanswered(history', m) = {}
      BY <2>3, <3>1, RepairFacts DEF CrashAndRestart
    <3> QED
      BY <3>2 DEF UnansweredCallIsBeingAnswered
  <2>4. CASE UNCHANGED vars
    BY <2>4 DEF vars, UnansweredCallIsBeingAnswered
  <2> QED
    BY <2>2, <2>3, <2>4, TurnStepAnswers DEF Next
<1> QED
  BY <1>1, <1>2, TrailAlways, PTL DEF Spec

(* When the session has not changed since the summariser read it and no    *)
(* batch failed, every message that could be summarised and is dropped is  *)
(* covered: what summarizeSession leaves out at the end of the history is  *)
(* what SummarizeAndTruncate keeps.                                        *)
THEOREM QuietTruncationsLoseNothing == Spec => QuietTruncationIsCovered
<1> DEFINE Covers == \A t \in Turns :
              Truncates(t) /\ history = summarizer[t].read
                           /\ Elements(Valid(t)) \subseteq summary' =>
                 \A m \in Elements(history) \ Elements(history') :
                     Summarizable(m, OversizedTurns) => m \in summary'
<1>1. ShapeInv /\ TrailInv /\ [Next]_vars => Covers
  <2> SUFFICES ASSUME ShapeInv, [Next]_vars, NEW t \in Turns, Truncates(t),
                      history = summarizer[t].read, Elements(Valid(t)) \subseteq summary',
                      NEW m \in Elements(history), m \notin Elements(history'),
                      Summarizable(m, OversizedTurns)
               PROVE  m \in summary'
    OBVIOUS
  <2>1. /\ history \in Seq(Messages) /\ DOMAIN summarizer = Turns
        /\ DOMAIN summarizer[t] = Fields
    BY DEF ShapeInv, TypeOK, Fields
  <2>2. history # history'
    OBVIOUS
  <2>3. history' = LastOf(history, KeepLast)
    <3>1. ASSUME NEW u \in Turns, MessageArrives(u) \/ TurnStep(u)
          PROVE  summarizer'[t].pc \in {summarizer[t].pc, "history"}
      BY <2>1, <3>1 DEF MessageArrives, TurnStep, background, ReadHistory, ReadSummary,
         AddUserMessage, CallTools, ToolReturns, NextIteration, Answer, EndOnTerminalTools,
         ProviderFails, RetryWithoutTools, ContextError, CompressRead, CompressWrite, Snapshot,
         Rename, MaybeSummarize, Fields
    <3>2. ~CrashAndRestart
      BY DEF CrashAndRestart, Truncates, NoSummarizer
    <3>3. PICK u \in Turns : SummarizerStep(u)
      BY <2>2, <3>1, <3>2 DEF Next, vars, Truncates
    <3> QED
      BY <2>2, <3>3 DEF SummarizerStep, SummarizerReadsHistory, SummarizerReadsSummary,
         SummarizeAndTruncate, SummaryFails, SummarizerSnapshot, SummarizerRename, Release
  <2>4. Len(history) \in Nat /\ Len(history) > KeepLast
    BY <2>1, <2>2, <2>3 DEF LastOf
  <2>5. PICK p \in DOMAIN history : history[p] = m
    BY DEF Elements
  <2>6. p \in 1..(Len(history) - KeepLast)
    <3> DEFINE k == Len(history) - KeepLast + 1
    <3>1. k \in 1..(Len(history) + 1) /\ p \in 1..Len(history)
      BY <2>1, <2>4, <2>5, Bounds
    <3>2. LastOf(history, KeepLast) = SubSeq(history, k, Len(history))
      BY <2>4 DEF LastOf
    <3>3. m \notin Elements(SubSeq(history, k, Len(history)))
      BY <2>3, <3>2
    <3>4. p \notin k..Len(history)
      BY <2>1, <2>5, <3>1, <3>3, SuffixFacts
    <3> QED
      BY <2>4, <3>1, <3>4, Bounds
  <2>7. m \in Elements(ValidMessages(history, KeepLast, OversizedTurns))
    BY <2>1, <2>5, <2>6, ValidFacts, Bounds
  <2>8. Valid(t) = ValidMessages(history, KeepLast, OversizedTurns)
    BY <2>4, Bounds DEF Valid
  <2> QED
    BY <2>7, <2>8
<1>2. Spec => [][Covers]_vars
  BY <1>1, TrailAlways, PTL DEF Spec
<1> QED
  BY <1>2 DEF QuietTruncationIsCovered
=============================================================================

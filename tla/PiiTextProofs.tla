---------------------------- MODULE PiiTextProofs ----------------------------
(***************************************************************************)
(* Proofs about the texts that pass through the PII filter (PiiText), about  *)
(* the queries the guard lets through (QueryGuard), and about the requests   *)
(* of PiiExchange that send the ones and ask the others, for any values,     *)
(* texts, rules and records.                                                 *)
(*                                                                           *)
(* Induction over sequences comes first, from the library's theorems on      *)
(* well-founded orderings of finite sets.  Then the texts: what each         *)
(* operator does with one atom more, and that the reader of what arrives     *)
(* and a reader of what was written stay side by side (LiteralsKept).  Then  *)
(* the queries: which records the answers are compared on, where the text    *)
(* of a term, of an option and of a nested option stands in what the guard   *)
(* sees, and that what it lets through says nothing of a protected value but *)
(* that it equals one the query names (OnlyEqualityLetThrough).  Last, the   *)
(* error bodies: what replacing forms by tokens one after the other leaves   *)
(* beside each other (FormsStayHidden).                                      *)
(***************************************************************************)
EXTENDS PiiProofs, FiniteSetTheorems, SequenceTheorems, WellFoundedInduction

-----------------------------------------------------------------------------
(* Induction *)

\* Every set of naturals that is not empty has a least one: the sets 0..n are finite,
\* and there is no infinite descent among finite sets.
LEMMA NatMin ==
    ASSUME NEW T, T \subseteq Nat, T # {}
    PROVE  \E n \in T : \A m \in T : n <= m
<1> DEFINE UpTo == {0..n : n \in T}
           R == StrictSubsetOrdering(Nat)
<1>1. UpTo \subseteq FiniteSubsetsOf(Nat)
  <2>1. \A n \in T : 0..n \in SUBSET Nat /\ IsFiniteSet(0..n)
    BY FS_Interval
  <2> QED BY <2>1 DEF FiniteSubsetsOf
<1>2. IsWellFoundedOn(R, FiniteSubsetsOf(Nat))
  BY FS_StrictSubsetOrderingWellFounded
<1>3. UpTo # {}
  OBVIOUS
<1>4. PICK x \in UpTo : \A y \in UpTo : <<y, x>> \notin R
  <2> HIDE DEF UpTo, R
  <2> QED BY <1>1, <1>2, <1>3, WFMin
<1>5. PICK n \in T : x = 0..n
  BY <1>4
<1>6. ASSUME NEW m \in T, m < n PROVE FALSE
  <2>1. 0..m \in SUBSET Nat /\ 0..n \in SUBSET Nat /\ 0..m \subseteq 0..n
    BY <1>6
  <2>2. n \in 0..n /\ n \notin 0..m
    BY <1>6
  <2>3. <<0..m, 0..n>> \in R
    BY <2>1, <2>2 DEF StrictSubsetOrdering
  <2> QED BY <1>4, <1>5, <2>3
<1> QED BY <1>6

\* Induction, of a set of naturals.
LEMMA Induction ==
    ASSUME NEW T, 0 \in T, \A n \in Nat : n \in T => n + 1 \in T
    PROVE  Nat \subseteq T
<1> SUFFICES ASSUME Nat \ T # {} PROVE FALSE
  OBVIOUS
<1>1. PICK n \in Nat \ T : \A m \in Nat \ T : n <= m
  BY NatMin
<1> QED BY <1>1

\* Induction, of a set of sequences.
LEMMA SeqInduction ==
    ASSUME NEW S, NEW T, <<>> \in T,
           \A s \in Seq(S), e \in S : s \in T => Append(s, e) \in T
    PROVE  Seq(S) \subseteq T
<1> DEFINE N == {n \in Nat : \A s \in Seq(S) : Len(s) = n => s \in T}
<1>1. 0 \in N
  <2>1. \A s \in Seq(S) : Len(s) = 0 => s = <<>>
    BY EmptySeq
  <2> QED BY <2>1
<1>2. ASSUME NEW n \in Nat, n \in N PROVE n + 1 \in N
  <2> SUFFICES ASSUME NEW s \in Seq(S), Len(s) = n + 1 PROVE s \in T
    OBVIOUS
  <2>1. PICK t \in Seq(S), e \in S : s = Append(t, e)
    <3>1. s # <<>>
      BY EmptySeq
    <3> QED BY <3>1, SequenceEmptyOrAppend
  <2>2. Len(t) = n
    BY <2>1, AppendProperties, LenProperties
  <2> QED BY <1>2, <2>1, <2>2
<1>3. Nat \subseteq N
  <2> HIDE DEF N
  <2> QED BY <1>1, <1>2, Induction
<1> QED BY <1>3, LenProperties

\* A function that goes from c by F[1], F[2], ..., F[n]; and two that keep together.
Steps(n, S) == [1..n -> [S -> S]]
Runs(n, S) == [0..n -> S]
Goes(f, c, n, F) == f[0] = c /\ \A i \in 1..n : f[i] = F[i][f[i - 1]]
Together(f, g, n) == f[0] = g[0] /\ \A i \in 1..n : f[i - 1] = g[i - 1] => f[i] = g[i]

\* Recursion up to n: there is such a function.
LEMMA Recursion ==
    ASSUME NEW S, NEW c \in S, NEW n \in Nat, NEW F \in Steps(n, S)
    PROVE  \E f \in Runs(n, S) : Goes(f, c, n, F)
<1> USE DEF Steps, Runs
<1> DEFINE T == {k \in Nat : k <= n => \E f \in [0..k -> S] : Goes(f, c, k, F)}
<1>1. 0 \in T
  <2>1. [i \in 0..0 |-> c] \in [0..0 -> S] /\ Goes([i \in 0..0 |-> c], c, 0, F)
    BY DEF Goes
  <2> QED BY <2>1
<1>2. ASSUME NEW k \in Nat, k \in T PROVE k + 1 \in T
  <2> SUFFICES ASSUME k + 1 <= n PROVE \E f \in [0..k + 1 -> S] : Goes(f, c, k + 1, F)
    OBVIOUS
  <2>1. PICK f \in [0..k -> S] : Goes(f, c, k, F)
    BY <1>2
  <2> DEFINE g == [i \in 0..k + 1 |-> IF i = k + 1 THEN F[k + 1][f[k]] ELSE f[i]]
  <2>2. F[k + 1] \in [S -> S] /\ f[k] \in S
    OBVIOUS
  <2>3. g \in [0..k + 1 -> S]
    BY <2>2
  <2>4. \A i \in 0..k : g[i] = f[i]
    OBVIOUS
  <2>5. g[k + 1] = F[k + 1][g[k]]
    OBVIOUS
  <2> HIDE DEF g
  <2>6. Goes(g, c, k + 1, F)
    <3>1. \A i \in 1..k : g[i] = F[i][g[i - 1]]
      BY <2>1, <2>4 DEF Goes
    <3> QED BY <2>1, <2>4, <2>5, <3>1 DEF Goes
  <2> QED BY <2>3, <2>6
<1>3. Nat \subseteq T
  <2> HIDE DEF T
  <2> QED BY <1>1, <1>2, Induction
<1> QED BY <1>3

\* Two functions that keep together are the same.
LEMMA Agree ==
    ASSUME NEW f, NEW g, NEW n \in Nat, Together(f, g, n)
    PROVE  \A i \in 0..n : f[i] = g[i]
<1> USE DEF Together
<1> DEFINE T == {k \in Nat : k <= n => f[k] = g[k]}
<1>1. 0 \in T
  OBVIOUS
<1>2. ASSUME NEW k \in Nat, k \in T PROVE k + 1 \in T
  BY <1>2
<1>3. Nat \subseteq T
  <2> HIDE DEF T
  <2> QED BY <1>1, <1>2, Induction
<1> QED BY <1>3

-----------------------------------------------------------------------------
States == [at : {"out", "in", "end"}, now : Seq(Atoms), done : Seq(Seq(Atoms))]

LEMMA ReadType ==
    ASSUME NEW s \in States, NEW a \in Atoms
    PROVE  Read(s, a) \in States
<1>1. Append(s.now, a) \in Seq(Atoms) /\ Append(s.done, s.now) \in Seq(Seq(Atoms))
      /\ <<>> \in Seq(Atoms)
  BY EmptySeq DEF States
<1> QED BY <1>1 DEF Read, States

LEMMA StartType == Start \in States
  BY EmptySeq DEF Start, States

\* What a reader goes through.
LEMMA ReadingRuns ==
    ASSUME NEW text \in Seq(Atoms)
    PROVE  \E f \in [0..Len(text) -> States] :
              /\ f[0] = Start /\ \A i \in 1..Len(text) : f[i] = Read(f[i - 1], text[i])
              /\ Reading(text) = f[Len(text)]
<1> DEFINE n == Len(text)
           F == [i \in 1..n |-> [s \in States |-> Read(s, text[i])]]
           Def(f) == [i \in 0..n |-> IF i = 0 THEN Start ELSE Read(f[i - 1], text[i])]
           after == CHOOSE f : f = Def(f)
<1>0. n \in Nat /\ \A i \in 1..n : text[i] \in Atoms
  BY LenProperties, ElementOfSeq
<1>1. \A i \in 1..n, s \in States : F[i][s] = Read(s, text[i])
  OBVIOUS
<1>2. F \in Steps(n, States)
  BY <1>0, ReadType DEF Steps
<1> HIDE DEF F
<1>3. PICK f \in Runs(n, States) : Goes(f, Start, n, F)
  <2> HIDE DEF n
  <2> QED BY <1>0, <1>2, StartType, Recursion
<1>4. /\ f \in [0..n -> States] /\ f[0] = Start
      /\ \A i \in 1..n : f[i] = Read(f[i - 1], text[i])
  <2> HIDE DEF n
  <2>1. f \in [0..n -> States]
    BY <1>3 DEF Runs
  <2>2. \A i \in 1..n : i - 1 \in 0..n /\ f[i - 1] \in States
    BY <1>0, <2>1
  <2> QED BY <1>1, <1>3, <2>1, <2>2 DEF Goes
<1>5. f = Def(f)
  <2>1. \A i \in 0..n : f[i] = Def(f)[i]
    BY <1>0, <1>4
  <2> QED BY <1>4, <2>1
<1>6. after = Def(after)
  BY <1>5
<1>7. DOMAIN after = 0..n /\ after = [i \in 0..n |-> after[i]]
  BY <1>6
<1>8. after[0] = Start /\ \A i \in 1..n : after[i] = Read(after[i - 1], text[i])
  <2>1. \A i \in 0..n : after[i] = Def(after)[i]
    BY <1>6
  <2> HIDE DEF after, n
  <2> QED BY <1>0, <2>1
<1> HIDE DEF after
<1>9. \A i \in 0..n : after[i] = f[i]
  <2> HIDE DEF n
  <2>1. Together(after, f, n)
    BY <1>4, <1>8 DEF Together
  <2> QED BY <1>0, <2>1, Agree
<1>10. after \in [0..n -> States]
  BY <1>4, <1>7, <1>9
<1>11. Reading(text) = after[n]
  BY DEF Reading, after
<1> QED BY <1>8, <1>10, <1>11

LEMMA ReadingType ==
    ASSUME NEW text \in Seq(Atoms)
    PROVE  Reading(text) \in States
BY ReadingRuns, LenProperties

LEMMA ReadingNothing == Reading(<<>>) = Start
  BY ReadingRuns, EmptySeq

LEMMA ReadingAppend ==
    ASSUME NEW text \in Seq(Atoms), NEW a \in Atoms
    PROVE  Reading(Append(text, a)) = Read(Reading(text), a)
<1> DEFINE n == Len(text)
           longer == Append(text, a)
<1>1. /\ longer \in Seq(Atoms) /\ Len(longer) = n + 1 /\ n \in Nat
      /\ longer[n + 1] = a /\ \A i \in 1..n : longer[i] = text[i]
  BY AppendProperties, LenProperties
<1>2. PICK f \in [0..n -> States] :
         /\ f[0] = Start /\ \A i \in 1..n : f[i] = Read(f[i - 1], text[i])
         /\ Reading(text) = f[n]
  BY ReadingRuns
<1>3. PICK g \in [0..n + 1 -> States] :
         /\ g[0] = Start /\ \A i \in 1..n + 1 : g[i] = Read(g[i - 1], longer[i])
         /\ Reading(longer) = g[n + 1]
  <2> HIDE DEF longer, n
  <2> QED BY <1>1, ReadingRuns
<1>4. \A i \in 0..n : f[i] = g[i]
  <2> HIDE DEF longer, n
  <2>1. Together(f, g, n)
    BY <1>1, <1>2, <1>3 DEF Together
  <2> QED BY <1>1, <2>1, Agree
<1>5. g[n + 1] = Read(g[n], a)
  <2> HIDE DEF longer, n
  <2> QED BY <1>1, <1>3
<1> QED BY <1>1, <1>2, <1>3, <1>4, <1>5

-----------------------------------------------------------------------------
\* Sequences laid end to end, the first i of them by f[i].
LaidOut(f, ss) == f[0] = <<>> /\ \A i \in 1..Len(ss) : f[i] = f[i - 1] \o ss[i]

LEMMA FlattenRuns ==
    ASSUME NEW S, NEW ss \in Seq(Seq(S))
    PROVE  \E f \in Runs(Len(ss), Seq(S)) : LaidOut(f, ss) /\ FlattenSeq(ss) = f[Len(ss)]
<1> DEFINE n == Len(ss)
           F == [i \in 1..n |-> [s \in Seq(S) |-> s \o ss[i]]]
           Def(f) == [i \in 1..n |-> IF i = 1 THEN ss[i] ELSE f[i - 1] \o ss[i]]
           flatten == CHOOSE f : f = Def(f)
<1>0. n \in Nat /\ \A i \in 1..n : ss[i] \in Seq(S)
  BY LenProperties, ElementOfSeq
<1>1. \A i \in 1..n, s \in Seq(S) : F[i][s] = s \o ss[i]
  OBVIOUS
<1>2. F \in Steps(n, Seq(S))
  BY <1>0, ConcatProperties DEF Steps
<1> HIDE DEF F
<1>3. PICK f \in Runs(n, Seq(S)) : Goes(f, <<>>, n, F)
  <2>1. <<>> \in Seq(S)
    BY EmptySeq
  <2> HIDE DEF n
  <2> QED BY <1>0, <1>2, <2>1, Recursion
<1>4. /\ f \in [0..n -> Seq(S)] /\ f[0] = <<>>
      /\ \A i \in 1..n : f[i] = f[i - 1] \o ss[i]
  <2> HIDE DEF n
  <2>1. f \in [0..n -> Seq(S)]
    BY <1>3 DEF Runs
  <2>2. \A i \in 1..n : i - 1 \in 0..n /\ f[i - 1] \in Seq(S)
    BY <1>0, <2>1
  <2> QED BY <1>1, <1>3, <2>1, <2>2 DEF Goes
<1>5. CASE n = 0
  <2>1. FlattenSeq(ss) = <<>>
    BY <1>5, EmptySeq DEF FlattenSeq
  <2> QED BY <1>3, <1>4, <1>5, <2>1 DEF LaidOut
<1>6. CASE n # 0
  <2>1. f[1] = ss[1]
    <3>1. 1 \in 1..n /\ 1 - 1 = 0
      BY <1>0, <1>6
    <3> HIDE DEF n
    <3>2. f[1] = f[0] \o ss[1]
      BY <1>4, <3>1, Zenon
    <3> QED BY <1>0, <1>4, <3>1, <3>2, ConcatEmptySeq
  <2> DEFINE g == [i \in 1..n |-> f[i]]
  <2>2. g = Def(g)
    <3>1. \A i \in 1..n : g[i] = Def(g)[i]
      <4> HIDE DEF n
      <4>1. ASSUME NEW i \in 1..n, i # 1 PROVE i - 1 \in 1..n
        BY <1>0, <4>1
      <4> QED BY <1>0, <1>4, <2>1, <4>1
    <3> HIDE DEF n
    <3> QED BY <3>1
  <2> HIDE DEF g
  <2>3. flatten = Def(flatten)
    BY <2>2
  <2>4. flatten[1] = ss[1] /\ \A i \in 2..n : flatten[i] = flatten[i - 1] \o ss[i]
    <3>1. \A i \in 1..n : flatten[i] = Def(flatten)[i]
      BY <2>3
    <3> HIDE DEF flatten, n
    <3>2. 1 \in 1..n /\ \A i \in 2..n : i \in 1..n /\ i # 1
      BY <1>0, <1>6
    <3> QED BY <3>1, <3>2
  <2>5. FlattenSeq(ss) = flatten[n]
    BY <1>6 DEF FlattenSeq
  <2> HIDE DEF flatten
  <2> DEFINE h == [i \in 0..n |-> IF i = 0 THEN <<>> ELSE flatten[i]]
  <2>6. h[0] = <<>> /\ \A i \in 1..n : h[i] = flatten[i]
    BY <1>0
  <2> HIDE DEF h, n
  <2>7. ASSUME NEW i \in 1..n, h[i - 1] = f[i - 1] PROVE h[i] = f[i]
    <3>1. CASE i = 1
      BY <1>0, <1>6, <2>1, <2>4, <2>6, <3>1
    <3>2. CASE i # 1
      <4>1. i \in 2..n /\ i - 1 \in 1..n
        BY <1>0, <3>2
      <4>2. flatten[i - 1] = f[i - 1]
        BY <2>6, <2>7, <4>1
      <4> QED BY <1>4, <2>4, <2>6, <4>1, <4>2
    <3> QED BY <3>1, <3>2
  <2>8. Together(h, f, n)
    BY <1>4, <2>6, <2>7 DEF Together
  <2>9. h[n] = f[n] /\ h[n] = flatten[n]
    BY <1>0, <1>6, <2>6, <2>8, Agree
  <2> USE DEF n
  <2> QED BY <1>3, <1>4, <2>5, <2>9 DEF LaidOut
<1> QED BY <1>5, <1>6

LEMMA FlattenType ==
    ASSUME NEW S, NEW ss \in Seq(Seq(S))
    PROVE  FlattenSeq(ss) \in Seq(S)
<1>1. PICK f \in Runs(Len(ss), Seq(S)) : FlattenSeq(ss) = f[Len(ss)]
  BY FlattenRuns
<1>2. Len(ss) \in 0..Len(ss)
  BY LenProperties
<1> QED BY <1>1, <1>2 DEF Runs

LEMMA FlattenNothing == FlattenSeq(<<>>) = <<>>
  BY EmptySeq DEF FlattenSeq

LEMMA FlattenAppend ==
    ASSUME NEW S, NEW ss \in Seq(Seq(S)), NEW s \in Seq(S)
    PROVE  FlattenSeq(Append(ss, s)) = FlattenSeq(ss) \o s
<1> DEFINE n == Len(ss)
           longer == Append(ss, s)
<1>1. /\ longer \in Seq(Seq(S)) /\ Len(longer) = n + 1 /\ n \in Nat
      /\ longer[n + 1] = s /\ \A i \in 1..n : longer[i] = ss[i]
  BY AppendProperties, LenProperties
<1> HIDE DEF longer
<1>2. PICK f \in Runs(Len(ss), Seq(S)) : LaidOut(f, ss) /\ FlattenSeq(ss) = f[Len(ss)]
  BY FlattenRuns
<1>3. PICK g \in Runs(Len(longer), Seq(S)) :
         LaidOut(g, longer) /\ FlattenSeq(longer) = g[Len(longer)]
  BY <1>1, FlattenRuns
<1>4. Together(f, g, n)
  <2> SUFFICES ASSUME NEW i \in 1..n, f[i - 1] = g[i - 1] PROVE f[i] = g[i]
    BY <1>2, <1>3 DEF Together, LaidOut
  <2>1. i \in 1..Len(longer) /\ longer[i] = ss[i]
    BY <1>1
  <2>2. f[i] = f[i - 1] \o ss[i]
    BY <1>2, Zenon DEF LaidOut
  <2>3. g[i] = g[i - 1] \o longer[i]
    BY <1>3, <2>1, Zenon DEF LaidOut
  <2> QED BY <2>1, <2>2, <2>3, Zenon
<1>5. f[n] = g[n]
  <2> HIDE DEF n
  <2> QED BY <1>1, <1>4, Agree
<1>6. g[n + 1] = g[n] \o s
  <2>1. n + 1 \in 1..Len(longer) /\ (n + 1) - 1 = n
    BY <1>1
  <2>2. g[n + 1] = g[(n + 1) - 1] \o longer[n + 1]
    BY <1>3, <2>1, Zenon DEF LaidOut
  <2> QED BY <1>1, <2>1, <2>2, Zenon
<1> QED BY <1>1, <1>2, <1>3, <1>5, <1>6, Zenon DEF longer

LEMMA FlattenLonger ==
    ASSUME NEW S, NEW ss \in Seq(Seq(S)), NEW longer \in Seq(Seq(S)),
           Len(longer) = Len(ss) + 1, \A i \in 1..Len(ss) : longer[i] = ss[i]
    PROVE  FlattenSeq(longer) = FlattenSeq(ss) \o longer[Len(longer)]
<1> DEFINE s == longer[Len(longer)]
<1>1. Len(ss) \in Nat /\ s \in Seq(S)
  BY LenProperties, ElementOfSeq
<1>2. /\ Append(ss, s) \in Seq(Seq(S)) /\ Len(Append(ss, s)) = Len(ss) + 1
      /\ \A i \in 1..Len(ss) : Append(ss, s)[i] = ss[i]
      /\ Append(ss, s)[Len(ss) + 1] = s
  BY <1>1, AppendProperties
<1>3. longer = Append(ss, s)
  BY <1>1, <1>2, SeqEqual
<1> HIDE DEF s
<1>4. FlattenSeq(Append(ss, s)) = FlattenSeq(ss) \o s
  BY <1>1, FlattenAppend
<1> QED BY <1>3, <1>4, Zenon DEF s

LEMMA AppendIs ==
    ASSUME NEW S, NEW s \in Seq(S), NEW e \in S
    PROVE  /\ Append(s, e) \in Seq(S) /\ Len(Append(s, e)) = Len(s) + 1 /\ Len(s) \in Nat
           /\ \A i \in 1..Len(s) : Append(s, e)[i] = s[i]
           /\ Append(s, e)[Len(s) + 1] = e
           /\ DOMAIN s = 1..Len(s) /\ DOMAIN Append(s, e) = 1..Len(s) + 1
<1>1. /\ Append(s, e) \in Seq(S) /\ Len(Append(s, e)) = Len(s) + 1
      /\ \A i \in 1..Len(s) : Append(s, e)[i] = s[i]
      /\ Append(s, e)[Len(s) + 1] = e
  BY AppendProperties
<1>2. Len(s) \in Nat /\ DOMAIN s = 1..Len(s)
  BY LenProperties
<1>3. DOMAIN Append(s, e) = 1..Len(Append(s, e))
  BY <1>1, LenProperties
<1> QED BY <1>1, <1>2, <1>3

\* Concatenation, one element at a time.
LEMMA ConcatAppend ==
    ASSUME NEW S, NEW s \in Seq(S), NEW t \in Seq(S), NEW e \in S
    PROVE  s \o Append(t, e) = Append(s \o t, e)
<1>1. Append(t, e) = t \o <<e>> /\ s \o t \in Seq(S) /\ <<e>> \in Seq(S)
  BY AppendIsConcat, ConcatProperties
<1>2. Append(s \o t, e) = (s \o t) \o <<e>>
  BY <1>1, AppendIsConcat
<1> QED BY <1>1, <1>2, ConcatAssociative

-----------------------------------------------------------------------------
(* What the operators on texts do, atom by atom. *)

LEMMA LetterType ==
    /\ \A x \in Letters, c \in Codes : Letter(x, c) \in Atoms
    /\ \A x \in Letters : Letter(x, "mark") \in Atoms
    /\ \A x, c : ~IsTok(Letter(x, c)) /\ (Ends(Letter(x, "raw")) <=> x = Quote)
  BY DEF Letter, Atoms, IsTok, Ends

LEMMA RawIs ==
    ASSUME NEW letters \in Seq(Letters)
    PROVE  /\ Raw(letters) \in Seq(Atoms) /\ Len(Raw(letters)) = Len(letters)
           /\ \A i \in 1..Len(letters) : Raw(letters)[i] = Letter(letters[i], "raw")
<1>1. Len(letters) \in Nat /\ DOMAIN letters = 1..Len(letters)
      /\ \A i \in 1..Len(letters) : letters[i] \in Letters
  BY LenProperties, ElementOfSeq
<1>2. "raw" \in Codes
  BY DEF Codes
<1>3. \A i \in 1..Len(letters) : Letter(letters[i], "raw") \in Atoms
  BY <1>1, <1>2, LetterType
<1>4. Raw(letters) = [i \in 1..Len(letters) |-> Letter(letters[i], "raw")]
  BY <1>1 DEF Raw
<1> QED BY <1>1, <1>3, <1>4

LEMMA RawAppend ==
    ASSUME NEW letters \in Seq(Letters), NEW x \in Letters
    PROVE  Raw(Append(letters, x)) = Append(Raw(letters), Letter(x, "raw"))
<1>1. Letter(x, "raw") \in Atoms
  BY LetterType DEF Codes
<1>2. /\ Append(letters, x) \in Seq(Letters) /\ Len(Append(letters, x)) = Len(letters) + 1
      /\ \A i \in 1..Len(letters) : Append(letters, x)[i] = letters[i]
      /\ Append(letters, x)[Len(letters) + 1] = x /\ Len(letters) \in Nat
  BY AppendIs
<1>3. /\ Append(Raw(letters), Letter(x, "raw")) \in Seq(Atoms)
      /\ Len(Append(Raw(letters), Letter(x, "raw"))) = Len(letters) + 1
      /\ \A i \in 1..Len(letters) : Append(Raw(letters), Letter(x, "raw"))[i] = Raw(letters)[i]
      /\ Append(Raw(letters), Letter(x, "raw"))[Len(letters) + 1] = Letter(x, "raw")
  <2>1. Raw(letters) \in Seq(Atoms) /\ Len(Raw(letters)) = Len(letters)
    BY RawIs
  <2> QED BY <1>1, <2>1, AppendIs
<1>4. \A i \in 1..Len(letters) + 1 :
         Raw(Append(letters, x))[i] = Append(Raw(letters), Letter(x, "raw"))[i]
  <2> SUFFICES ASSUME NEW i \in 1..Len(letters) + 1
               PROVE  Raw(Append(letters, x))[i] = Append(Raw(letters), Letter(x, "raw"))[i]
    OBVIOUS
  <2>1. Raw(Append(letters, x))[i] = Letter(Append(letters, x)[i], "raw")
    BY <1>2, RawIs
  <2>2. CASE i = Len(letters) + 1
    BY <1>2, <1>3, <2>1, <2>2
  <2>3. CASE i \in 1..Len(letters)
    <3>1. Raw(letters)[i] = Letter(letters[i], "raw")
      BY <2>3, RawIs
    <3> QED BY <1>2, <1>3, <2>1, <2>3, <3>1
  <2>4. i = Len(letters) + 1 \/ i \in 1..Len(letters)
    <3>1. Len(letters) \in Nat
      BY <1>2
    <3> QED BY <3>1
  <2> QED BY <2>2, <2>3, <2>4
<1>5. Raw(Append(letters, x)) \in Seq(Atoms) /\ Len(Raw(Append(letters, x))) = Len(letters) + 1
  BY <1>2, RawIs
<1> QED BY <1>3, <1>4, <1>5, SeqEqual

LEMMA RawNothing == Raw(<<>>) = <<>>
  BY RawIs, EmptySeq

\* One letter as it stands in a literal.
Doubled(x) == IF x = Quote THEN <<Quote, Quote>> ELSE <<x>>

LEMMA EscapedIs ==
    ASSUME NEW letters \in Seq(Letters)
    PROVE  /\ [i \in DOMAIN letters |-> Doubled(letters[i])] \in Seq(Seq(Letters))
           /\ Len([i \in DOMAIN letters |-> Doubled(letters[i])]) = Len(letters)
           /\ Escaped(letters) = FlattenSeq([i \in DOMAIN letters |-> Doubled(letters[i])])
           /\ Escaped(letters) \in Seq(Letters)
<1>1. Len(letters) \in Nat /\ DOMAIN letters = 1..Len(letters)
      /\ \A i \in 1..Len(letters) : letters[i] \in Letters
  BY LenProperties, ElementOfSeq
<1>2. \A i \in 1..Len(letters) : Doubled(letters[i]) \in Seq(Letters)
  <2>1. \A x \in Letters : <<x>> \in Seq(Letters) /\ <<x, x>> \in Seq(Letters)
    OBVIOUS
  <2> QED BY <1>1, <2>1, TextAssumption DEF Doubled
<1>3. [i \in DOMAIN letters |-> Doubled(letters[i])] \in Seq(Seq(Letters))
      /\ Len([i \in DOMAIN letters |-> Doubled(letters[i])]) = Len(letters)
  BY <1>1, <1>2
<1>4. Escaped(letters) = FlattenSeq([i \in DOMAIN letters |-> Doubled(letters[i])])
  BY Zenon DEF Escaped, Doubled
<1> QED BY <1>3, <1>4, FlattenType

\* Doubling quotes adds no other letter.
LEMMA EscapedWithin ==
    ASSUME NEW letters \in Seq(Letters), Range(letters) \intersect Structural = {}
    PROVE  Escaped(letters) \in Seq(Letters \ Structural)
<1> DEFINE S == Letters \ Structural
           ss == [i \in DOMAIN letters |-> Doubled(letters[i])]
<1>1. Len(letters) \in Nat /\ DOMAIN letters = 1..Len(letters)
      /\ \A i \in 1..Len(letters) : letters[i] \in S
  <2>1. Len(letters) \in Nat /\ DOMAIN letters = 1..Len(letters)
        /\ \A i \in 1..Len(letters) : letters[i] \in Letters
    BY LenProperties, ElementOfSeq
  <2> QED BY <2>1 DEF Range
<1> HIDE DEF S
<1>2. \A x \in S : Doubled(x) \in Seq(S)
  <2>1. \A x \in S : <<x>> \in Seq(S) /\ <<x, x>> \in Seq(S)
    OBVIOUS
  <2>2. Quote \in S
    BY TextAssumption DEF S
  <2> QED BY <2>1, <2>2 DEF Doubled
<1>3. ss \in Seq(Seq(S))
  BY <1>1, <1>2
<1>4. Escaped(letters) = FlattenSeq(ss)
  BY Zenon DEF Escaped, Doubled
<1> HIDE DEF ss
<1> QED BY <1>3, <1>4, FlattenType DEF S

LEMMA EscapedAppend ==
    ASSUME NEW letters \in Seq(Letters), NEW x \in Letters
    PROVE  Escaped(Append(letters, x)) = Escaped(letters) \o Doubled(x)
<1> DEFINE ss == [i \in DOMAIN letters |-> Doubled(letters[i])]
           more == Append(letters, x)
           longer == [i \in DOMAIN more |-> Doubled(more[i])]
           n == Len(letters)
<1>1. /\ more \in Seq(Letters) /\ Len(more) = n + 1 /\ n \in Nat
      /\ \A i \in 1..n : more[i] = letters[i]
      /\ more[n + 1] = x /\ DOMAIN letters = 1..n /\ DOMAIN more = 1..n + 1
  BY AppendIs
<1> HIDE DEF more
<1>2. ss \in Seq(Seq(Letters)) /\ Len(ss) = n /\ Escaped(letters) = FlattenSeq(ss)
  BY EscapedIs
<1>3. longer \in Seq(Seq(Letters)) /\ Len(longer) = n + 1 /\ Escaped(more) = FlattenSeq(longer)
  BY <1>1, EscapedIs
<1>4. longer[n + 1] = Doubled(x) /\ \A i \in 1..n : longer[i] = ss[i]
  <2>1. n + 1 \in DOMAIN more /\ \A i \in 1..n : i \in DOMAIN more /\ i \in DOMAIN letters
    BY <1>1
  <2> HIDE DEF n
  <2> QED BY <1>1, <2>1
<1> HIDE DEF longer, ss, n
<1>5. FlattenSeq(longer) = FlattenSeq(ss) \o longer[n + 1]
  BY <1>2, <1>3, <1>4, FlattenLonger
<1> QED BY <1>2, <1>3, <1>4, <1>5, Zenon DEF more

LEMMA EscapedNothing == Escaped(<<>>) = <<>>
<1>1. [i \in DOMAIN <<>> |-> Doubled(<<>>[i])] = <<>>
  BY EscapedIs, EmptySeq
<1> QED BY <1>1, EscapedIs, EmptySeq, FlattenNothing

-----------------------------------------------------------------------------
\* What a literal means, atom by atom.
MeantBy(a) == IF IsTok(a) THEN Raw(Spelling[a.token]) ELSE <<a>>

LEMMA AtomIs ==
    ASSUME NEW a \in Atoms
    PROVE  /\ IsTok(a) => a \in [token : DOMAIN Spelling, code : Codes]
           /\ ~IsTok(a) => a \in [letter : Letters, code : Codes \union {"mark"}]
  BY DEF Atoms, IsTok

LEMMA MeantByType ==
    ASSUME NEW a \in Atoms
    PROVE  MeantBy(a) \in Seq(Atoms)
<1>1. CASE IsTok(a)
  <2>1. Spelling[a.token] \in Seq(Letters)
    BY <1>1, AtomIs, TextAssumption
  <2> QED BY <1>1, <2>1, RawIs DEF MeantBy
<1>2. CASE ~IsTok(a)
  BY <1>2 DEF MeantBy
<1> QED BY <1>1, <1>2

LEMMA MeantIs ==
    ASSUME NEW literal \in Seq(Atoms)
    PROVE  /\ [i \in DOMAIN literal |-> MeantBy(literal[i])] \in Seq(Seq(Atoms))
           /\ Len([i \in DOMAIN literal |-> MeantBy(literal[i])]) = Len(literal)
           /\ Meant(literal) = FlattenSeq([i \in DOMAIN literal |-> MeantBy(literal[i])])
           /\ Meant(literal) \in Seq(Atoms)
<1>1. Len(literal) \in Nat /\ DOMAIN literal = 1..Len(literal)
      /\ \A i \in 1..Len(literal) : literal[i] \in Atoms
  BY LenProperties, ElementOfSeq
<1>2. \A i \in 1..Len(literal) : MeantBy(literal[i]) \in Seq(Atoms)
  BY <1>1, MeantByType
<1>3. [i \in DOMAIN literal |-> MeantBy(literal[i])] \in Seq(Seq(Atoms))
      /\ Len([i \in DOMAIN literal |-> MeantBy(literal[i])]) = Len(literal)
  BY <1>1, <1>2
<1>4. Meant(literal) = FlattenSeq([i \in DOMAIN literal |-> MeantBy(literal[i])])
  BY Zenon DEF Meant, Filled, MeantBy
<1> QED BY <1>3, <1>4, FlattenType

LEMMA MeantAppend ==
    ASSUME NEW literal \in Seq(Atoms), NEW a \in Atoms
    PROVE  Meant(Append(literal, a)) = Meant(literal) \o MeantBy(a)
<1> DEFINE ss == [i \in DOMAIN literal |-> MeantBy(literal[i])]
           more == Append(literal, a)
           longer == [i \in DOMAIN more |-> MeantBy(more[i])]
           n == Len(literal)
<1>1. /\ more \in Seq(Atoms) /\ Len(more) = n + 1 /\ n \in Nat
      /\ \A i \in 1..n : more[i] = literal[i]
      /\ more[n + 1] = a /\ DOMAIN literal = 1..n /\ DOMAIN more = 1..n + 1
  BY AppendIs
<1> HIDE DEF more
<1>2. ss \in Seq(Seq(Atoms)) /\ Len(ss) = n /\ Meant(literal) = FlattenSeq(ss)
  BY MeantIs
<1>3. longer \in Seq(Seq(Atoms)) /\ Len(longer) = n + 1 /\ Meant(more) = FlattenSeq(longer)
  BY <1>1, MeantIs
<1>4. longer[n + 1] = MeantBy(a) /\ \A i \in 1..n : longer[i] = ss[i]
  <2>1. n + 1 \in DOMAIN more /\ \A i \in 1..n : i \in DOMAIN more /\ i \in DOMAIN literal
    BY <1>1
  <2> HIDE DEF n
  <2> QED BY <1>1, <2>1
<1> HIDE DEF longer, ss, n
<1>5. FlattenSeq(longer) = FlattenSeq(ss) \o longer[n + 1]
  BY <1>2, <1>3, <1>4, FlattenLonger
<1> QED BY <1>2, <1>3, <1>4, <1>5, Zenon DEF more

LEMMA MeantNothing == Meant(<<>>) = <<>>
<1>1. [i \in DOMAIN <<>> |-> MeantBy(<<>>[i])] = <<>>
  BY MeantIs, EmptySeq
<1> QED BY <1>1, MeantIs, EmptySeq, FlattenNothing

-----------------------------------------------------------------------------
\* What is sent for a text, atom by atom.
InsertedFor(text, i, encode) ==
    IF IsTok(text[i]) THEN Inserted(text, i, encode) ELSE <<text[i]>>

\* What goes in for a token, in letters.
LettersFor(text, i) ==
    IF InLiteral(text, i) THEN Escaped(Spelling[text[i].token]) ELSE Spelling[text[i].token]

LEMMA CodedIs ==
    ASSUME NEW letters \in Seq(Letters)
    PROVE  /\ Coded(Raw(letters), "pct") \in Seq(Atoms)
           /\ Len(Coded(Raw(letters), "pct")) = Len(letters)
           /\ \A i \in 1..Len(letters) :
                 Coded(Raw(letters), "pct")[i] =
                    Letter(letters[i], IF letters[i] \in Special["pct"] THEN "pct" ELSE "raw")
<1> DEFINE raw == Raw(letters)
           n == Len(letters)
           LetterOf(i) == Letter(letters[i], IF letters[i] \in Special["pct"] THEN "pct" ELSE "raw")
<1>1. /\ raw \in Seq(Atoms) /\ Len(raw) = n /\ n \in Nat /\ DOMAIN raw = 1..n
      /\ \A i \in 1..n : raw[i] = Letter(letters[i], "raw") /\ letters[i] \in Letters
  BY RawIs, LenProperties, ElementOfSeq
<1>2. \A i \in 1..n : LetterOf(i) \in Atoms
  BY <1>1, LetterType DEF Codes
<1>3. \A i \in 1..n : LetterOf(i) =
         IF ~IsTok(raw[i]) /\ raw[i].code = "raw" /\ raw[i].letter \in Special["pct"]
         THEN [raw[i] EXCEPT !.code = "pct"] ELSE raw[i]
  <2> SUFFICES ASSUME NEW i \in 1..n
               PROVE  LetterOf(i) =
                        IF ~IsTok(raw[i]) /\ raw[i].code = "raw" /\ raw[i].letter \in Special["pct"]
                        THEN [raw[i] EXCEPT !.code = "pct"] ELSE raw[i]
    OBVIOUS
  <2>1. raw[i] = [letter |-> letters[i], code |-> "raw"] /\ ~IsTok(raw[i])
    BY <1>1, LetterType DEF Letter
  <2> HIDE DEF raw, n
  <2> QED BY <2>1 DEF Letter
<1> HIDE DEF raw, n
<1>4. Coded(raw, "pct") = [i \in 1..n |-> LetterOf(i)]
  BY <1>1, <1>3 DEF Coded
<1>5. Coded(raw, "pct") \in Seq(Atoms) /\ Len(Coded(raw, "pct")) = n
  BY <1>1, <1>2, <1>4
<1> QED BY <1>4, <1>5 DEF raw, n

LEMMA InsertedIs ==
    ASSUME NEW text \in Seq(Atoms), NEW i \in 1..Len(text), IsTok(text[i]), NEW encode \in BOOLEAN
    PROVE  /\ LettersFor(text, i) \in Seq(Letters)
           /\ Inserted(text, i, encode) \in {Raw(LettersFor(text, i)), Coded(Raw(LettersFor(text, i)), "pct")}
           /\ Inserted(text, i, encode) = IF encode \/ text[i].code # "raw"
                                          THEN Coded(Raw(LettersFor(text, i)), "pct")
                                          ELSE Raw(LettersFor(text, i))
           /\ Inserted(text, i, encode) \in Seq(Atoms)
<1>1. Spelling[text[i].token] \in Seq(Letters)
  <2>1. text[i] \in Atoms
    BY ElementOfSeq
  <2> QED BY <2>1, AtomIs, TextAssumption
<1>2. LettersFor(text, i) \in Seq(Letters)
  BY <1>1, EscapedIs DEF LettersFor
<1>3. Inserted(text, i, encode) = IF encode \/ text[i].code # "raw"
                                  THEN Coded(Raw(LettersFor(text, i)), "pct")
                                  ELSE Raw(LettersFor(text, i))
  BY DEF Inserted, LettersFor
<1> QED BY <1>2, <1>3, CodedIs, RawIs

\* Before the last atom, what is inside a literal is inside it anyhow.
LEMMA InLiteralBefore ==
    ASSUME NEW text \in Seq(Atoms), NEW a \in Atoms, NEW i \in 1..Len(text)
    PROVE  InLiteral(Append(text, a), i) <=> InLiteral(text, i)
<1>1. Len(text) \in Nat /\ \A j \in 1..Len(text) : Append(text, a)[j] = text[j]
  BY AppendIs
<1>2. \A j \in 1..i - 1 : Append(text, a)[j] = text[j]
  BY <1>1
<1>3. {j \in 1..i - 1 : IsQuote(Append(text, a)[j])} = {j \in 1..i - 1 : IsQuote(text[j])}
  BY <1>2
<1> QED BY <1>3 DEF InLiteral

LEMMA InsertedForType ==
    ASSUME NEW text \in Seq(Atoms), NEW i \in 1..Len(text), NEW encode \in BOOLEAN
    PROVE  InsertedFor(text, i, encode) \in Seq(Atoms)
<1>1. text[i] \in Atoms
  BY ElementOfSeq
<1>2. CASE IsTok(text[i])
  BY <1>2, InsertedIs DEF InsertedFor
<1>3. CASE ~IsTok(text[i])
  BY <1>1, <1>3 DEF InsertedFor
<1> QED BY <1>2, <1>3

LEMMA DetokenizedIs ==
    ASSUME NEW text \in Seq(Atoms), NEW encode \in BOOLEAN
    PROVE  /\ [i \in DOMAIN text |-> InsertedFor(text, i, encode)] \in Seq(Seq(Atoms))
           /\ Len([i \in DOMAIN text |-> InsertedFor(text, i, encode)]) = Len(text)
           /\ Detokenized(text, encode) =
                 FlattenSeq([i \in DOMAIN text |-> InsertedFor(text, i, encode)])
           /\ Detokenized(text, encode) \in Seq(Atoms)
<1>1. Len(text) \in Nat /\ DOMAIN text = 1..Len(text)
  BY LenProperties
<1>2. \A i \in 1..Len(text) : InsertedFor(text, i, encode) \in Seq(Atoms)
  BY InsertedForType
<1>3. [i \in DOMAIN text |-> InsertedFor(text, i, encode)] \in Seq(Seq(Atoms))
      /\ Len([i \in DOMAIN text |-> InsertedFor(text, i, encode)]) = Len(text)
  BY <1>1, <1>2
<1>4. Detokenized(text, encode) =
         FlattenSeq([i \in DOMAIN text |-> InsertedFor(text, i, encode)])
  BY Zenon DEF Detokenized, Filled, InsertedFor
<1> QED BY <1>3, <1>4, FlattenType

LEMMA DetokenizedAppend ==
    ASSUME NEW text \in Seq(Atoms), NEW a \in Atoms, NEW encode \in BOOLEAN
    PROVE  Detokenized(Append(text, a), encode) =
              Detokenized(text, encode) \o InsertedFor(Append(text, a), Len(text) + 1, encode)
<1> DEFINE ss == [i \in DOMAIN text |-> InsertedFor(text, i, encode)]
           more == Append(text, a)
           longer == [i \in DOMAIN more |-> InsertedFor(more, i, encode)]
           n == Len(text)
<1>1. /\ more \in Seq(Atoms) /\ Len(more) = n + 1 /\ n \in Nat
      /\ \A i \in 1..n : more[i] = text[i]
      /\ more[n + 1] = a /\ DOMAIN text = 1..n /\ DOMAIN more = 1..n + 1
  BY AppendIs
<1>2. \A i \in 1..n : InLiteral(more, i) <=> InLiteral(text, i)
  BY InLiteralBefore
<1> HIDE DEF more
<1>3. ss \in Seq(Seq(Atoms)) /\ Len(ss) = n /\ Detokenized(text, encode) = FlattenSeq(ss)
  BY DetokenizedIs
<1>4. longer \in Seq(Seq(Atoms)) /\ Len(longer) = n + 1
      /\ Detokenized(more, encode) = FlattenSeq(longer)
  BY <1>1, DetokenizedIs
<1>5. \A i \in 1..n : InsertedFor(more, i, encode) = InsertedFor(text, i, encode)
  <2> SUFFICES ASSUME NEW i \in 1..n
               PROVE  InsertedFor(more, i, encode) = InsertedFor(text, i, encode)
    OBVIOUS
  <2>1. more[i] = text[i] /\ (InLiteral(more, i) <=> InLiteral(text, i))
    BY <1>1, <1>2
  <2>2. Inserted(more, i, encode) = Inserted(text, i, encode)
    BY <2>1 DEF Inserted
  <2> QED BY <2>1, <2>2 DEF InsertedFor
<1>6. longer[n + 1] = InsertedFor(more, n + 1, encode) /\ \A i \in 1..n : longer[i] = ss[i]
  <2>1. n + 1 \in DOMAIN more /\ \A i \in 1..n : i \in DOMAIN more /\ i \in DOMAIN text
    BY <1>1
  <2> HIDE DEF n
  <2> QED BY <1>5, <2>1
<1> HIDE DEF longer, ss
<1>7. FlattenSeq(longer) = FlattenSeq(ss) \o longer[n + 1]
  <2> HIDE DEF n
  <2> QED BY <1>3, <1>4, <1>6, FlattenLonger
<1> QED BY <1>3, <1>4, <1>6, <1>7, Zenon DEF more, n

LEMMA DetokenizedNothing ==
    ASSUME NEW encode \in BOOLEAN
    PROVE  Detokenized(<<>>, encode) = <<>>
<1>0. <<>> \in Seq(Atoms)
  BY EmptySeq
<1>1. [i \in DOMAIN <<>> |-> InsertedFor(<<>>, i, encode)] = <<>>
  BY <1>0, DetokenizedIs, EmptySeq
<1>2. Detokenized(<<>>, encode) = FlattenSeq([i \in DOMAIN <<>> |-> InsertedFor(<<>>, i, encode)])
  BY <1>0, DetokenizedIs, Zenon
<1> QED BY <1>1, <1>2, FlattenNothing, Zenon

-----------------------------------------------------------------------------
\* What is written of a part can be read there: by the letters of Placed.
Suits(a, part) ==
    /\ part = "param" /\ (IsTok(a) \/ IsQuote(a)) => a.code = "raw"
    /\ IsTok(a) /\ part = "head" /\ a.code = "raw" => Range(Spelling[a.token]) \intersect Structural = {}

\* Decoding, atom by atom: a quote that the code counts is one to the reader.
LEMMA DecodedAtomIs ==
    ASSUME NEW a \in Atoms, NEW part
    PROVE  /\ DecodedAtom(a, part) \in Atoms
           /\ IsTok(DecodedAtom(a, part)) <=> IsTok(a)
           /\ IsTok(a) => DecodedAtom(a, part).token = a.token /\ ~Ends(DecodedAtom(a, part))
           /\ Suits(a, part) => (Ends(DecodedAtom(a, part)) <=> IsQuote(a))
<1>0. \A t : Tok(t, "raw") # Letter(Quote, "raw") /\ IsTok(Tok(t, "raw")) /\ Tok(t, "raw").token = t
  BY DEF Tok, Letter, IsTok
<1>1. CASE IsTok(a)
  <2>1. a.token \in DOMAIN Spelling
    BY <1>1, AtomIs
  <2>2. Tok(a.token, "raw") \in Atoms
    BY <2>1 DEF Atoms, Tok, Codes
  <2>3. DecodedAtom(a, part) = Tok(a.token, "raw") /\ ~IsQuote(a)
    BY <1>1 DEF DecodedAtom, IsQuote
  <2> QED BY <1>0, <1>1, <2>2, <2>3 DEF Ends
<1>2. CASE ~IsTok(a)
  <2>1. a.letter \in Letters /\ a = Letter(a.letter, a.code)
    BY <1>2, AtomIs DEF Letter
  <2>2. Blank \in Letters /\ Blank # Quote /\ Plus # Quote /\ Quote \notin Structural
    BY TextAssumption
  <2>3. Letter(Blank, "raw") \in Atoms /\ Letter(a.letter, "raw") \in Atoms
        /\ Letter(a.letter, "mark") \in Atoms
    BY <2>1, <2>2, LetterType DEF Codes
  <2>4. Ends(a) <=> a.letter = Quote /\ a.code = "raw"
    BY <2>1 DEF Ends, Letter
  <2>5. IsQuote(a) <=> a.letter = Quote /\ a.code \in {"raw", "pct"}
    BY <1>2 DEF IsQuote
  <2>6. CASE part # "param" /\ a.code = "pct"
    <3>1. DecodedAtom(a, part) = Letter(a.letter, "raw")
      BY <1>2, <2>6 DEF DecodedAtom
    <3> QED BY <1>2, <2>3, <2>5, <2>6, <3>1, LetterType
  <2>7. CASE ~(part # "param" /\ a.code = "pct") /\ part = "query" /\ a = Letter(Plus, "raw")
    <3>1. DecodedAtom(a, part) = Letter(Blank, "raw") /\ a.letter = Plus
      BY <1>2, <2>7 DEF DecodedAtom, Letter
    <3> QED BY <1>2, <2>2, <2>3, <2>5, <3>1, LetterType
  <2>8. CASE part = "head" /\ a.code = "raw" /\ a.letter \in Structural
    <3>1. DecodedAtom(a, part) = Letter(a.letter, "mark")
      BY <1>2, <2>8 DEF DecodedAtom
    <3>2. Letter(a.letter, "mark") # Letter(Quote, "raw")
      BY DEF Letter
    <3> QED BY <1>2, <2>2, <2>3, <2>5, <2>8, <3>1, <3>2, LetterType DEF Ends
  <2>9. CASE /\ ~(part # "param" /\ a.code = "pct") /\ ~(part = "query" /\ a = Letter(Plus, "raw"))
             /\ ~(part = "head" /\ a.code = "raw" /\ a.letter \in Structural)
    <3>1. DecodedAtom(a, part) = a
      BY <1>2, <2>9 DEF DecodedAtom
    <3>2. Suits(a, part) => (Ends(a) <=> IsQuote(a))
      BY <1>2, <2>4, <2>5, <2>9 DEF Suits
    <3> QED BY <1>2, <3>1, <3>2
  <2> QED BY <2>6, <2>7, <2>8, <2>9
<1> QED BY <1>1, <1>2

LEMMA DecodedIs ==
    ASSUME NEW text \in Seq(Atoms), NEW part
    PROVE  /\ Decoded(text, part) \in Seq(Atoms) /\ Len(Decoded(text, part)) = Len(text)
           /\ \A i \in 1..Len(text) : Decoded(text, part)[i] = DecodedAtom(text[i], part)
<1>1. Len(text) \in Nat /\ DOMAIN text = 1..Len(text)
      /\ \A i \in 1..Len(text) : text[i] \in Atoms
  BY LenProperties, ElementOfSeq
<1>2. \A i \in 1..Len(text) : DecodedAtom(text[i], part) \in Atoms
  BY <1>1, DecodedAtomIs
<1>3. Decoded(text, part) = [i \in 1..Len(text) |-> DecodedAtom(text[i], part)]
  BY <1>1 DEF Decoded
<1> QED BY <1>1, <1>2, <1>3

LEMMA DecodedNothing ==
    ASSUME NEW part
    PROVE  Decoded(<<>>, part) = <<>>
BY DecodedIs, EmptySeq

LEMMA DecodedConcat ==
    ASSUME NEW s \in Seq(Atoms), NEW t \in Seq(Atoms), NEW part
    PROVE  Decoded(s \o t, part) = Decoded(s, part) \o Decoded(t, part)
<1> DEFINE n == Len(s)
           m == Len(t)
           ds == Decoded(s, part)
           dt == Decoded(t, part)
           st == s \o t
<1>1. /\ n \in Nat /\ m \in Nat /\ st \in Seq(Atoms) /\ Len(st) = n + m
      /\ \A i \in 1..n + m : st[i] = IF i <= n THEN s[i] ELSE t[i - n]
  BY LenProperties, ConcatProperties
<1> HIDE DEF st
<1>2. /\ ds \in Seq(Atoms) /\ Len(ds) = n
      /\ \A i \in 1..n : ds[i] = DecodedAtom(s[i], part)
  BY DecodedIs
<1>3. /\ dt \in Seq(Atoms) /\ Len(dt) = m
      /\ \A i \in 1..m : dt[i] = DecodedAtom(t[i], part)
  BY DecodedIs
<1> HIDE DEF ds, dt, n, m
<1>4. /\ Decoded(st, part) \in Seq(Atoms) /\ Len(Decoded(st, part)) = n + m
      /\ \A i \in 1..n + m : Decoded(st, part)[i] = DecodedAtom(st[i], part)
  <2>1. /\ Decoded(st, part) \in Seq(Atoms) /\ Len(Decoded(st, part)) = Len(st)
        /\ \A i \in 1..Len(st) : Decoded(st, part)[i] = DecodedAtom(st[i], part)
    BY <1>1, DecodedIs
  <2> QED BY <1>1, <2>1
<1>5. /\ ds \o dt \in Seq(Atoms) /\ Len(ds \o dt) = n + m
      /\ \A i \in 1..n + m : (ds \o dt)[i] = IF i <= n THEN ds[i] ELSE dt[i - n]
  BY <1>2, <1>3, ConcatProperties
<1>6. ASSUME NEW i \in 1..n + m
      PROVE  Decoded(st, part)[i] = (ds \o dt)[i]
  <2>1. CASE i <= n
    <3>1. i \in 1..n
      BY <1>1, <2>1
    <3> QED BY <1>1, <1>2, <1>4, <1>5, <1>6, <2>1, <3>1
  <2>2. CASE ~(i <= n)
    <3>1. i - n \in 1..m
      BY <1>1, <2>2
    <3> QED BY <1>1, <1>3, <1>4, <1>5, <1>6, <2>2, <3>1
  <2> QED BY <2>1, <2>2
<1>7. Decoded(st, part) = ds \o dt
  BY <1>4, <1>5, <1>6, SeqEqual
<1> QED BY <1>7 DEF ds, dt, st

LEMMA DecodedAppend ==
    ASSUME NEW text \in Seq(Atoms), NEW a \in Atoms, NEW part
    PROVE  Decoded(Append(text, a), part) = Append(Decoded(text, part), DecodedAtom(a, part))
<1>1. Append(text, a) = text \o <<a>> /\ <<a>> \in Seq(Atoms) /\ Len(<<a>>) = 1 /\ <<a>>[1] = a
  BY AppendIsConcat
<1>2. DecodedAtom(a, part) \in Atoms /\ Decoded(text, part) \in Seq(Atoms)
  BY DecodedAtomIs, DecodedIs
<1>3. Decoded(<<a>>, part) = <<DecodedAtom(a, part)>>
  <2>1. /\ Decoded(<<a>>, part) \in Seq(Atoms) /\ Len(Decoded(<<a>>, part)) = 1
        /\ \A i \in 1..1 : Decoded(<<a>>, part)[i] = DecodedAtom(<<a>>[i], part)
    BY <1>1, DecodedIs
  <2>2. /\ <<DecodedAtom(a, part)>> \in Seq(Atoms) /\ Len(<<DecodedAtom(a, part)>>) = 1
        /\ <<DecodedAtom(a, part)>>[1] = DecodedAtom(a, part)
    BY <1>2
  <2>3. \A i \in 1..1 : Decoded(<<a>>, part)[i] = <<DecodedAtom(a, part)>>[i]
    <3>1. \A i \in 1..1 : i = 1
      OBVIOUS
    <3> QED BY <1>1, <2>1, <2>2, <3>1
  <2> QED BY <2>1, <2>2, <2>3, SeqEqual
<1>4. Append(Decoded(text, part), DecodedAtom(a, part))
         = Decoded(text, part) \o <<DecodedAtom(a, part)>>
  BY <1>2, AppendIsConcat
<1>5. Decoded(text \o <<a>>, part) = Decoded(text, part) \o Decoded(<<a>>, part)
  BY <1>1, DecodedConcat
<1> QED BY <1>1, <1>3, <1>4, <1>5

\* What goes in for a token is decoded to its letters.
LEMMA DecodedInserted ==
    ASSUME NEW text \in Seq(Atoms), NEW i \in 1..Len(text), IsTok(text[i]), NEW part,
           Suits(text[i], part)
    PROVE  Decoded(Inserted(text, i, Encodes(part)), part) = Raw(LettersFor(text, i))
<1> DEFINE letters == LettersFor(text, i)
           n == Len(letters)
           put == Inserted(text, i, Encodes(part))
<1>0. Encodes(part) \in BOOLEAN
  BY DEF Encodes
<1>1. /\ letters \in Seq(Letters) /\ put \in Seq(Atoms)
      /\ put \in {Raw(letters), Coded(Raw(letters), "pct")}
      /\ put = IF Encodes(part) \/ text[i].code # "raw"
               THEN Coded(Raw(letters), "pct") ELSE Raw(letters)
  BY <1>0, InsertedIs
<1>10. part = "head" /\ text[i].code = "raw" => letters \in Seq(Letters \ Structural)
  <2> SUFFICES ASSUME part = "head", text[i].code = "raw"
               PROVE  LettersFor(text, i) \in Seq(Letters \ Structural)
    OBVIOUS
  <2> DEFINE spelling == Spelling[text[i].token]
  <2>1. spelling \in Seq(Letters)
    BY AtomIs, TextAssumption, ElementOfSeq
  <2>2. Range(spelling) \intersect Structural = {}
    BY DEF Suits
  <2> HIDE DEF spelling
  <2>3. Escaped(spelling) \in Seq(Letters \ Structural)
    BY <2>1, <2>2, EscapedWithin
  <2>4. \A j \in 1..Len(spelling) : spelling[j] \in Letters \ Structural
    BY <2>1, <2>2, LenProperties, ElementOfSeq DEF Range
  <2>5. spelling = [j \in 1..Len(spelling) |-> spelling[j]] /\ Len(spelling) \in Nat
    BY <2>1, LenProperties
  <2>6. spelling \in Seq(Letters \ Structural)
    BY <2>4, <2>5
  <2> QED BY <2>3, <2>6 DEF LettersFor, spelling
<1> HIDE DEF letters, put
<1>2. n \in Nat /\ \A j \in 1..n : letters[j] \in Letters
  BY <1>1, LenProperties, ElementOfSeq
<1>3. /\ Raw(letters) \in Seq(Atoms) /\ Len(Raw(letters)) = n
      /\ \A j \in 1..n : Raw(letters)[j] = Letter(letters[j], "raw")
  BY <1>1, RawIs
<1>4. /\ Len(Coded(Raw(letters), "pct")) = n
      /\ \A j \in 1..n : Coded(Raw(letters), "pct")[j] =
                            Letter(letters[j], IF letters[j] \in Special["pct"] THEN "pct" ELSE "raw")
  BY <1>1, CodedIs
<1> HIDE DEF n
<1>5. Len(put) = n
  BY <1>1, <1>3, <1>4
<1>6. ASSUME NEW j \in 1..n PROVE DecodedAtom(put[j], part) = Letter(letters[j], "raw")
  <2>1. {Plus} \union Structural \subseteq Special["pct"]
    BY TextAssumption
  <2> DEFINE l == letters[j]
  <2>2. \A c : ~IsTok(Letter(l, c)) /\ Letter(l, c).letter = l /\ Letter(l, c).code = c
    BY DEF Letter, IsTok
  <2>3. CASE Encodes(part) \/ text[i].code # "raw"
    <3>1. put[j] = Letter(l, IF l \in Special["pct"] THEN "pct" ELSE "raw")
      BY <1>1, <1>4, <1>6, <2>3
    <3>2. part # "param"
      BY <2>3 DEF Encodes, Suits
    <3>3. CASE l \in Special["pct"]
      BY <2>2, <3>1, <3>2, <3>3 DEF DecodedAtom
    <3>4. CASE l \notin Special["pct"]
      <4>1. l # Plus /\ l \notin Structural /\ put[j] = Letter(l, "raw")
        BY <2>1, <3>1, <3>4
      <4>2. put[j] # Letter(Plus, "raw")
        BY <4>1 DEF Letter
      <4> QED BY <2>2, <4>1, <4>2 DEF DecodedAtom
    <3> QED BY <3>3, <3>4
  <2>4. CASE ~(Encodes(part) \/ text[i].code # "raw")
    <3>1. put[j] = Letter(l, "raw") /\ part # "query"
      BY <1>1, <1>3, <1>6, <2>4 DEF Encodes
    <3>2. part = "head" => l \notin Structural
      <4>1. SUFFICES ASSUME part = "head" PROVE letters[j] \in Letters \ Structural
        OBVIOUS
      <4>2. letters \in Seq(Letters \ Structural)
        BY <1>10, <2>4, <4>1
      <4> QED BY <1>6, <4>2, ElementOfSeq DEF n
    <3> QED BY <2>2, <3>1, <3>2, Zenon DEF DecodedAtom
  <2> QED BY <2>3, <2>4
<1>7. /\ Decoded(put, part) \in Seq(Atoms) /\ Len(Decoded(put, part)) = n
      /\ \A j \in 1..n : Decoded(put, part)[j] = DecodedAtom(put[j], part)
  BY <1>1, <1>5, DecodedIs
<1>8. Decoded(put, part) = Raw(letters)
  BY <1>3, <1>6, <1>7, SeqEqual
<1> QED BY <1>8 DEF put, letters

\* What a server reads for a text, of what was sent for it.
Arrived(text, part) == Decoded(Detokenized(text, Encodes(part)), part)

LEMMA ArrivedNothing ==
    ASSUME NEW part
    PROVE  Arrived(<<>>, part) = <<>>
<1>1. Encodes(part) \in BOOLEAN
  BY DEF Encodes
<1> QED BY <1>1, DetokenizedNothing, DecodedNothing DEF Arrived

LEMMA ArrivedAppend ==
    ASSUME NEW text \in Seq(Atoms), NEW a \in Atoms, NEW part, Suits(a, part)
    PROVE  /\ Arrived(text, part) \in Seq(Atoms)
           /\ Arrived(Append(text, a), part) =
                 IF IsTok(a)
                 THEN Arrived(text, part) \o Raw(LettersFor(Append(text, a), Len(text) + 1))
                 ELSE Append(Arrived(text, part), DecodedAtom(a, part))
<1> DEFINE more == Append(text, a)
           n == Len(text)
<1>0. Encodes(part) \in BOOLEAN
  BY DEF Encodes
<1>1. more \in Seq(Atoms) /\ Len(more) = n + 1 /\ n \in Nat /\ more[n + 1] = a
  BY AppendIs
<1>2. Detokenized(text, Encodes(part)) \in Seq(Atoms)
  BY <1>0, DetokenizedIs
<1>3. Detokenized(more, Encodes(part)) =
         Detokenized(text, Encodes(part)) \o InsertedFor(more, n + 1, Encodes(part))
  BY <1>0, DetokenizedAppend
<1>4. n + 1 \in 1..Len(more)
  BY <1>1
<1> HIDE DEF more, n
<1>5. InsertedFor(more, n + 1, Encodes(part)) \in Seq(Atoms)
  BY <1>0, <1>1, <1>4, InsertedForType
<1>6. Arrived(more, part) = Arrived(text, part) \o Decoded(InsertedFor(more, n + 1, Encodes(part)), part)
  BY <1>2, <1>3, <1>5, DecodedConcat DEF Arrived
<1>7. Arrived(text, part) \in Seq(Atoms)
  BY <1>2, DecodedIs DEF Arrived
<1>8. CASE IsTok(a)
  <2>1. Decoded(Inserted(more, n + 1, Encodes(part)), part) = Raw(LettersFor(more, n + 1))
    BY <1>1, <1>4, <1>8, DecodedInserted
  <2>2. Arrived(more, part) = Arrived(text, part) \o Raw(LettersFor(more, n + 1))
    BY <1>1, <1>6, <1>8, <2>1, Zenon DEF InsertedFor
  <2> QED BY <1>7, <1>8, <2>2, Zenon DEF more, n
<1>9. CASE ~IsTok(a)
  <2>1. InsertedFor(more, n + 1, Encodes(part)) = <<a>>
    BY <1>1, <1>9, Zenon DEF InsertedFor
  <2>2. <<>> \in Seq(Atoms) /\ Append(<<>>, a) = <<a>>
    BY EmptySeq
  <2>3. Decoded(<<a>>, part) = Append(<<>>, DecodedAtom(a, part))
    BY <2>2, DecodedAppend, DecodedNothing
  <2>4. DecodedAtom(a, part) \in Atoms
    BY DecodedAtomIs
  <2>5. Append(Arrived(text, part), DecodedAtom(a, part))
           = Arrived(text, part) \o <<DecodedAtom(a, part)>>
    BY <1>7, <2>4, AppendIsConcat
  <2>6. Append(<<>>, DecodedAtom(a, part)) = <<DecodedAtom(a, part)>>
    BY <2>4
  <2>7. Arrived(more, part) = Append(Arrived(text, part), DecodedAtom(a, part))
    BY <1>6, <2>1, <2>3, <2>5, <2>6, Zenon
  <2> QED BY <1>7, <1>9, <2>7, Zenon DEF more
<1> QED BY <1>8, <1>9

-----------------------------------------------------------------------------
(* What the reader makes of what it reads. *)

State(at, now, done) == [at |-> at, now |-> now, done |-> done]
\* After an atom that is no quote, outside a literal.
Closed(s) == State("out", s.now, IF s.at = "end" THEN Append(s.done, s.now) ELSE s.done)

\* What comes of a reader r, that is in the state of these three.
Continues(r, a, at, now, done) ==
    /\ at = "out" /\ Ends(a) => Read(r, a) = State("in", <<>>, done)
    /\ at = "in" /\ Ends(a) => Read(r, a) = State("end", now, done)
    /\ at = "in" /\ ~Ends(a) => Read(r, a) = State("in", Append(now, a), done)
    /\ at = "end" /\ Ends(a) => Read(r, a) = State("in", Append(now, a), done)
    /\ at = "end" /\ ~Ends(a) => Read(r, a) = Closed(r)
    /\ at = "out" /\ ~Ends(a) => Read(r, a) = Closed(r)

LEMMA ReadAt ==
    ASSUME NEW a, NEW at, NEW now, NEW done
    PROVE  Continues(State(at, now, done), a, at, now, done)
<1>1. at = "out" /\ Ends(a) => Read(State(at, now, done), a) = State("in", <<>>, done)
  BY DEF Read, State, Ends
<1>2. at = "in" /\ Ends(a) => Read(State(at, now, done), a) = State("end", now, done)
  BY DEF Read, State, Ends
<1>3. at = "in" /\ ~Ends(a) => Read(State(at, now, done), a) = State("in", Append(now, a), done)
  BY DEF Read, State, Ends
<1>4. at = "end" /\ Ends(a) => Read(State(at, now, done), a) = State("in", Append(now, a), done)
  BY DEF Read, State, Ends
<1>5. at = "end" /\ ~Ends(a) => Read(State(at, now, done), a) = Closed(State(at, now, done))
  BY DEF Read, State, Closed, Ends
<1>6. at = "out" /\ ~Ends(a) => Read(State(at, now, done), a) = Closed(State(at, now, done))
  BY DEF Read, State, Closed, Ends
<1> QED BY <1>1, <1>2, <1>3, <1>4, <1>5, <1>6, Zenon DEF Continues

LEMMA ReadIs ==
    ASSUME NEW s \in States, NEW a \in Atoms
    PROVE  /\ s = State(s.at, s.now, s.done) /\ s.at \in {"out", "in", "end"}
           /\ s.now \in Seq(Atoms) /\ s.done \in Seq(Seq(Atoms))
           /\ s.at = "out" /\ Ends(a) => Read(s, a) = State("in", <<>>, s.done)
           /\ s.at = "in" /\ Ends(a) => Read(s, a) = State("end", s.now, s.done)
           /\ s.at = "in" /\ ~Ends(a) => Read(s, a) = State("in", Append(s.now, a), s.done)
           /\ s.at = "end" /\ Ends(a) => Read(s, a) = State("in", Append(s.now, a), s.done)
           /\ s.at # "in" /\ ~Ends(a) => Read(s, a) = Closed(s)
<1>1. /\ s = State(s.at, s.now, s.done) /\ s.at \in {"out", "in", "end"}
      /\ s.now \in Seq(Atoms) /\ s.done \in Seq(Seq(Atoms))
  BY DEF States, State
<1>2. Continues(s, a, s.at, s.now, s.done)
  BY <1>1, ReadAt, Zenon
<1>3. s.at # "in" => s.at = "end" \/ s.at = "out"
  BY <1>1
<1> QED BY <1>1, <1>2, <1>3, Zenon DEF Continues

\* A value goes into a literal with its quotes doubled, and is read as it was.
LEMMA EscapedOne ==
    ASSUME NEW letters \in Seq(Letters), NEW x \in Letters
    PROVE  Escaped(Append(letters, x)) =
              IF x = Quote THEN Append(Append(Escaped(letters), x), x)
              ELSE Append(Escaped(letters), x)
<1>1. Escaped(letters) \in Seq(Letters)
  BY EscapedIs
<1>2. Escaped(Append(letters, x)) = Escaped(letters) \o Doubled(x)
  BY EscapedAppend
<1>3. Append(Escaped(letters), x) = Escaped(letters) \o <<x>>
      /\ Append(<<x>>, x) = <<x, x>> /\ <<x>> \in Seq(Letters)
  <2>1. Append(Escaped(letters), x) = Escaped(letters) \o <<x>>
    BY <1>1, AppendIsConcat
  <2>2. <<x>> \in Seq(Letters) /\ <<x, x>> \in Seq(Letters)
        /\ Len(<<x>>) = 1 /\ Len(<<x, x>>) = 2 /\ <<x>>[1] = x /\ <<x, x>>[1] = x /\ <<x, x>>[2] = x
    OBVIOUS
  <2>3. /\ Append(<<x>>, x) \in Seq(Letters) /\ Len(Append(<<x>>, x)) = 2
        /\ Append(<<x>>, x)[1] = x /\ Append(<<x>>, x)[2] = x
    BY <2>2, AppendProperties
  <2>4. Append(<<x>>, x) = <<x, x>>
    <3>1. \A i \in 1..2 : i = 1 \/ i = 2
      OBVIOUS
    <3>2. \A i \in 1..2 : Append(<<x>>, x)[i] = <<x, x>>[i]
      BY <2>2, <2>3, <3>1
    <3> QED BY <2>2, <2>3, <3>2, SeqEqual
  <2> QED BY <2>1, <2>2, <2>4
<1>4. Escaped(letters) \o Append(<<x>>, x) = Append(Escaped(letters) \o <<x>>, x)
  BY <1>1, <1>3, ConcatAppend
<1> QED BY <1>2, <1>3, <1>4, Zenon DEF Doubled

LEMMA ReadInLiteral ==
    ASSUME NEW text \in Seq(Atoms), NEW letters \in Seq(Letters), Reading(text).at = "in"
    PROVE  Reading(text \o Raw(Escaped(letters))) =
              State("in", Reading(text).now \o Raw(letters), Reading(text).done)
<1> DEFINE r == Reading(text)
           After(l) == State("in", r.now \o Raw(l), r.done)
           T == {l \in Seq(Letters) : Reading(text \o Raw(Escaped(l))) = After(l)}
<1>1. /\ r \in States /\ r.at = "in" /\ r = State(r.at, r.now, r.done)
      /\ r.now \in Seq(Atoms) /\ r.done \in Seq(Seq(Atoms))
  BY ReadingType DEF States, State
<1> HIDE DEF r
<1>2. <<>> \in T
  <2>1. <<>> \in Seq(Letters)
    BY EmptySeq
  <2>2. Raw(Escaped(<<>>)) = <<>> /\ Raw(<<>>) = <<>>
    BY EscapedNothing, RawNothing
  <2>3. text \o <<>> = text /\ r.now \o <<>> = r.now
    BY <1>1, ConcatEmptySeq
  <2>4. Reading(text \o Raw(Escaped(<<>>))) = After(<<>>)
    BY <1>1, <2>2, <2>3, Zenon DEF r
  <2> QED BY <2>1, <2>4
<1>3. ASSUME NEW l \in Seq(Letters), NEW x \in Letters, l \in T
      PROVE  Append(l, x) \in T
  <2> DEFINE held == text \o Raw(Escaped(l))
             a == Letter(x, "raw")
  <2>1. /\ a \in Atoms /\ (Ends(a) <=> x = Quote)
        /\ Escaped(l) \in Seq(Letters) /\ Append(Escaped(l), x) \in Seq(Letters)
        /\ Append(l, x) \in Seq(Letters)
    <3>1. a \in Atoms /\ (Ends(a) <=> x = Quote)
      BY LetterType DEF Codes
    <3>2. Escaped(l) \in Seq(Letters)
      BY EscapedIs
    <3> QED BY <3>1, <3>2, AppendIs
  <2> HIDE DEF a
  <2>2. Raw(Escaped(l)) \in Seq(Atoms) /\ Raw(Append(Escaped(l), x)) \in Seq(Atoms)
        /\ Raw(l) \in Seq(Atoms)
    BY <2>1, RawIs
  <2>3. held \in Seq(Atoms) /\ r.now \o Raw(l) \in Seq(Atoms)
    BY <1>1, <2>2, ConcatProperties
  <2>4. Reading(held) = After(l)
    BY <1>3
  <2>5. r.now \o Raw(Append(l, x)) = Append(r.now \o Raw(l), a)
    <3>1. Raw(Append(l, x)) = Append(Raw(l), a)
      BY RawAppend DEF a
    <3>2. \A s, now \in Seq(Atoms) : now \o Append(s, a) = Append(now \o s, a)
      BY <2>1, ConcatAppend
    <3> QED BY <1>1, <2>2, <3>1, <3>2, Zenon
  <2>6. text \o Raw(Append(Escaped(l), x)) = Append(held, a)
    <3>1. Raw(Append(Escaped(l), x)) = Append(Raw(Escaped(l)), a)
      BY <2>1, RawAppend DEF a
    <3> QED BY <2>1, <2>2, <3>1, ConcatAppend
  <2>7. text \o Raw(Append(Append(Escaped(l), x), x)) = Append(Append(held, a), a)
    <3>1. Raw(Append(Append(Escaped(l), x), x)) = Append(Raw(Append(Escaped(l), x)), a)
      BY <2>1, RawAppend DEF a
    <3>2. text \o Append(Raw(Append(Escaped(l), x)), a)
             = Append(text \o Raw(Append(Escaped(l), x)), a)
      BY <2>1, <2>2, ConcatAppend
    <3> QED BY <2>6, <3>1, <3>2, Zenon
  <2> HIDE DEF held
  <2>8. Reading(Append(held, a)) = Read(Reading(held), a) /\ Append(held, a) \in Seq(Atoms)
    BY <2>1, <2>3, ReadingAppend, AppendIs
  <2>9. After(l) \in States /\ After(l).at = "in" /\ After(l).now = r.now \o Raw(l)
        /\ After(l).done = r.done
    BY <1>1, <2>3 DEF States, State
  <2>10. After(Append(l, x)) = State("in", Append(After(l).now, a), After(l).done)
    BY <2>5, <2>9, Zenon
  <2> HIDE DEF After
  <2>11. CASE x = Quote
    <3>1. Read(After(l), a) = State("end", After(l).now, After(l).done)
      BY <2>1, <2>9, <2>11, ReadIs
    <3>2. Reading(Append(Append(held, a), a)) = Read(Reading(Append(held, a)), a)
      BY <2>1, <2>8, ReadingAppend
    <3> DEFINE e == State("end", After(l).now, After(l).done)
    <3>3. e \in States /\ e.at = "end" /\ e.now = After(l).now /\ e.done = After(l).done
      BY <2>9 DEF States, State
    <3> HIDE DEF e
    <3>4. Read(e, a) = State("in", Append(e.now, a), e.done)
      BY <2>1, <2>11, <3>3, ReadIs
    <3>5. Reading(Append(held, a)) = e
      BY <2>4, <2>8, <3>1, Zenon DEF e
    <3>6. Reading(text \o Raw(Escaped(Append(l, x)))) = Reading(Append(Append(held, a), a))
      BY <2>7, <2>11, EscapedOne
    <3>7. Reading(text \o Raw(Escaped(Append(l, x)))) = After(Append(l, x))
      BY <2>10, <3>2, <3>3, <3>4, <3>5, <3>6, Zenon
    <3> QED BY <2>1, <3>7
  <2>12. CASE x # Quote
    <3>1. Read(After(l), a) = State("in", Append(After(l).now, a), After(l).done)
      BY <2>1, <2>9, <2>12, ReadIs
    <3>2. Reading(text \o Raw(Escaped(Append(l, x)))) = Reading(Append(held, a))
      BY <2>6, <2>12, EscapedOne
    <3>3. Reading(text \o Raw(Escaped(Append(l, x)))) = After(Append(l, x))
      BY <2>4, <2>8, <2>10, <3>1, <3>2, Zenon
    <3> QED BY <2>1, <3>3
  <2> QED BY <2>11, <2>12
<1>4. Seq(Letters) \subseteq T
  <2> HIDE DEF T
  <2> QED BY <1>2, <1>3, SeqInduction
<1> QED BY <1>4 DEF r

\* A value without a quote that stands outside a literal leaves the reader there.
LEMMA ReadOutside ==
    ASSUME NEW text \in Seq(Atoms), NEW letters \in Seq(Letters), Reading(text).at # "in",
           \A i \in 1..Len(letters) : letters[i] # Quote
    PROVE  Reading(text \o Raw(letters)) =
              IF letters = <<>> THEN Reading(text) ELSE Closed(Reading(text))
<1> DEFINE r == Reading(text)
           Quiet(l) == \A i \in 1..Len(l) : l[i] # Quote
           After(l) == IF l = <<>> THEN r ELSE Closed(r)
           T == {l \in Seq(Letters) : Quiet(l) => Reading(text \o Raw(l)) = After(l)}
<1>1. /\ r \in States /\ r.at # "in"
  BY ReadingType
<1> HIDE DEF r
<1>2. <<>> \in T
  <2>1. <<>> \in Seq(Letters)
    BY EmptySeq
  <2>2. text \o <<>> = text
    BY ConcatEmptySeq
  <2>3. Reading(text \o Raw(<<>>)) = After(<<>>)
    BY <2>2, RawNothing, Zenon DEF r
  <2> QED BY <2>1, <2>3
<1>3. ASSUME NEW l \in Seq(Letters), NEW x \in Letters, l \in T
      PROVE  Append(l, x) \in T
  <2> DEFINE held == text \o Raw(l)
             a == Letter(x, "raw")
             more == Append(l, x)
  <2>1. /\ more \in Seq(Letters) /\ Len(more) = Len(l) + 1 /\ Len(l) \in Nat
        /\ \A i \in 1..Len(l) : more[i] = l[i]
        /\ more[Len(l) + 1] = x
    BY AppendIs
  <2> HIDE DEF more
  <2> SUFFICES ASSUME Quiet(more) PROVE Reading(text \o Raw(more)) = After(more)
    BY <2>1 DEF more
  <2>2. Quiet(l) /\ x # Quote
    <3>1. Len(l) + 1 \in 1..Len(more) /\ \A i \in 1..Len(l) : i \in 1..Len(more)
      BY <2>1
    <3> QED BY <2>1, <3>1
  <2>3. Reading(held) = After(l)
    BY <1>3, <2>2
  <2>4. a \in Atoms /\ ~Ends(a)
    BY <2>2, LetterType DEF Codes
  <2>5. Raw(l) \in Seq(Atoms) /\ Raw(more) = Append(Raw(l), a)
    BY RawIs, RawAppend DEF more
  <2>6. text \o Append(Raw(l), a) = Append(held, a) /\ held \in Seq(Atoms)
    <3>1. held \in Seq(Atoms)
      BY <2>5, ConcatProperties
    <3> HIDE DEF a
    <3> QED BY <2>4, <2>5, <3>1, ConcatAppend
  <2> HIDE DEF held, a
  <2>7. Reading(text \o Raw(more)) = Read(After(l), a)
    BY <2>3, <2>4, <2>5, <2>6, ReadingAppend
  <2>8. After(l) \in States /\ After(l).at # "in"
    BY <1>1 DEF Closed, State, States
  <2>9. Read(After(l), a) = Closed(After(l))
    BY <2>4, <2>8, ReadIs
  <2>10. Closed(After(l)) = Closed(r)
    <3>1. Closed(Closed(r)) = Closed(r)
      BY DEF Closed, State
    <3> QED BY <3>1
  <2>11. more # <<>>
    BY <2>1
  <2> QED BY <2>7, <2>9, <2>10, <2>11, Zenon
<1>4. Seq(Letters) \subseteq T
  <2> HIDE DEF T
  <2> QED BY <1>2, <1>3, SeqInduction
<1> QED BY <1>4 DEF r

\* in_literal counts what the reader sees: it is in a literal after an odd number of quotes.
Quotes(text) == {j \in 1..Len(text) : IsQuote(text[j])}

LEMMA Parity ==
    ASSUME NEW text \in Seq(Atoms), NEW part, \A i \in 1..Len(text) : Suits(text[i], part)
    PROVE  Cardinality(Quotes(text)) % 2 = 1 <=> Reading(Decoded(text, part)).at = "in"
<1> DEFINE Fit(t) == \A i \in 1..Len(t) : Suits(t[i], part)
           T == {t \in Seq(Atoms) : Fit(t) =>
                   /\ IsFiniteSet(Quotes(t))
                   /\ Cardinality(Quotes(t)) % 2 = 1 <=> Reading(Decoded(t, part)).at = "in"}
<1>1. <<>> \in T
  <2>1. <<>> \in Seq(Atoms) /\ Quotes(<<>>) = {}
    BY EmptySeq DEF Quotes
  <2>2. IsFiniteSet({}) /\ Cardinality({}) = 0 /\ 0 % 2 # 1
    BY FS_EmptySet
  <2>3. Reading(Decoded(<<>>, part)).at = "out"
    BY DecodedNothing, ReadingNothing DEF Start
  <2> QED BY <2>1, <2>2, <2>3
<1>2. ASSUME NEW t \in Seq(Atoms), NEW a \in Atoms, t \in T
      PROVE  Append(t, a) \in T
  <2> DEFINE more == Append(t, a)
             s == Reading(Decoded(t, part))
             d == DecodedAtom(a, part)
             k == Cardinality(Quotes(t))
  <2>1. /\ more \in Seq(Atoms) /\ Len(more) = Len(t) + 1 /\ Len(t) \in Nat
        /\ \A i \in 1..Len(t) : more[i] = t[i]
        /\ more[Len(t) + 1] = a
    BY AppendIs
  <2> SUFFICES ASSUME Fit(more)
               PROVE  /\ IsFiniteSet(Quotes(more))
                      /\ Cardinality(Quotes(more)) % 2 = 1 <=> Reading(Decoded(more, part)).at = "in"
    BY <2>1
  <2>0. Fit(t) /\ Suits(a, part)
    <3>1. Len(t) + 1 \in 1..Len(more) /\ \A i \in 1..Len(t) : i \in 1..Len(more)
      BY <2>1
    <3> QED BY <2>1, <3>1
  <2>2. d \in Atoms /\ (Ends(d) <=> IsQuote(a)) /\ Decoded(t, part) \in Seq(Atoms)
    BY <2>0, DecodedAtomIs, DecodedIs
  <2>3. Decoded(more, part) = Append(Decoded(t, part), d)
    BY DecodedAppend
  <2> HIDE DEF more, d
  <2>4. Reading(Decoded(more, part)) = Read(s, d) /\ s \in States
    BY <2>2, <2>3, ReadingAppend, ReadingType
  <2>5. IsFiniteSet(Quotes(t)) /\ (k % 2 = 1 <=> s.at = "in") /\ k \in Nat
    BY <1>2, <2>0, FS_CardinalityType
  <2>6. Len(t) + 1 \notin Quotes(t)
    BY <2>1 DEF Quotes
  <2> HIDE DEF s, k
  <2>7. CASE IsQuote(a)
    <3>1. Quotes(more) = Quotes(t) \union {Len(t) + 1}
      BY <2>1, <2>7 DEF Quotes
    <3>2. IsFiniteSet(Quotes(more)) /\ Cardinality(Quotes(more)) = k + 1
      BY <2>5, <2>6, <3>1, FS_AddElement DEF k
    <3>3. (k + 1) % 2 = 1 <=> ~(k % 2 = 1)
      BY <2>5
    <3>4. Read(s, d).at = "in" <=> s.at # "in"
      BY <2>2, <2>4, <2>7, ReadIs DEF State
    <3>5. Cardinality(Quotes(more)) % 2 = 1 <=> Reading(Decoded(more, part)).at = "in"
      BY <2>4, <2>5, <3>2, <3>3, <3>4
    <3> QED BY <3>2, <3>5
  <2>8. CASE ~IsQuote(a)
    <3>1. Quotes(more) = Quotes(t)
      BY <2>1, <2>8 DEF Quotes
    <3>2. Read(s, d).at = "in" <=> s.at = "in"
      BY <2>2, <2>4, <2>8, ReadIs DEF State, Closed
    <3>3. Cardinality(Quotes(more)) % 2 = 1 <=> Reading(Decoded(more, part)).at = "in"
      BY <2>4, <2>5, <3>1, <3>2 DEF k
    <3> QED BY <2>5, <3>1, <3>3
  <2> QED BY <2>7, <2>8
<1>3. Seq(Atoms) \subseteq T
  <2> HIDE DEF T
  <2> QED BY <1>1, <1>2, SeqInduction
<1> QED BY <1>3

\* So a token at the end is in a literal where the reader is in one.
LEMMA InLiteralIs ==
    ASSUME NEW text \in Seq(Atoms), NEW a \in Atoms, NEW part,
           \A i \in 1..Len(text) : Suits(text[i], part)
    PROVE  InLiteral(Append(text, a), Len(text) + 1) <=> Reading(Decoded(text, part)).at = "in"
<1>1. Len(text) \in Nat /\ \A i \in 1..Len(text) : Append(text, a)[i] = text[i]
  BY AppendIs
<1>2. {j \in 1..(Len(text) + 1) - 1 : IsQuote(Append(text, a)[j])} = Quotes(text)
  <2>1. 1..(Len(text) + 1) - 1 = 1..Len(text)
    BY <1>1
  <2> QED BY <1>1, <2>1 DEF Quotes
<1>3. InLiteral(Append(text, a), Len(text) + 1) <=> Cardinality(Quotes(text)) % 2 = 1
  BY <1>2 DEF InLiteral
<1> QED BY <1>3, Parity

-----------------------------------------------------------------------------
(* The reader of what arrives, beside a reader of what was written. *)

MeantAll(done) == [i \in DOMAIN done |-> Meant(done[i])]

LEMMA MeantAllNothing == MeantAll(<<>>) = <<>>
<1>1. DOMAIN MeantAll(<<>>) = 1..0 /\ MeantAll(<<>>) = [i \in 1..0 |-> Meant(<<>>[i])]
  BY DEF MeantAll
<1>2. MeantAll(<<>>) \in Seq({0}) /\ Len(MeantAll(<<>>)) = 0
  <2>1. \A i \in 1..0 : FALSE
    OBVIOUS
  <2>2. [i \in 1..0 |-> Meant(<<>>[i])] = [i \in 1..0 |-> 0]
    BY <2>1
  <2>3. [i \in 1..0 |-> 0] \in Seq({0}) /\ Len([i \in 1..0 |-> 0]) = 0
    OBVIOUS
  <2> QED BY <1>1, <2>2, <2>3
<1> QED BY <1>2, EmptySeq

LEMMA MeantAllAppend ==
    ASSUME NEW S, NEW ss \in Seq(S), NEW s \in S
    PROVE  MeantAll(Append(ss, s)) = Append(MeantAll(ss), Meant(s))
<1> DEFINE M == {Meant(x) : x \in S}
           more == Append(ss, s)
           n == Len(ss)
<1>1. /\ more \in Seq(S) /\ Len(more) = n + 1 /\ n \in Nat
      /\ \A i \in 1..n : more[i] = ss[i]
      /\ more[n + 1] = s /\ DOMAIN ss = 1..n /\ DOMAIN more = 1..n + 1
  BY AppendIs
<1>2. \A x \in S : Meant(x) \in M
  OBVIOUS
<1>3. \A i \in 1..n : ss[i] \in S
  BY ElementOfSeq
<1>4. \A i \in 1..n + 1 : more[i] \in S
  BY <1>1, ElementOfSeq
<1> HIDE DEF M, more, n
<1>5. /\ MeantAll(ss) \in Seq(M) /\ Len(MeantAll(ss)) = n
      /\ \A i \in 1..n : MeantAll(ss)[i] = Meant(ss[i])
  <2>1. MeantAll(ss) = [i \in 1..n |-> Meant(ss[i])]
    BY <1>1 DEF MeantAll
  <2>2. \A i \in 1..n : Meant(ss[i]) \in M
    BY <1>2, <1>3
  <2> QED BY <1>1, <2>1, <2>2
<1>6. /\ MeantAll(more) \in Seq(M) /\ Len(MeantAll(more)) = n + 1
      /\ \A i \in 1..n + 1 : MeantAll(more)[i] = Meant(more[i])
  <2>1. MeantAll(more) = [i \in 1..n + 1 |-> Meant(more[i])]
    BY <1>1 DEF MeantAll
  <2>2. \A i \in 1..n + 1 : Meant(more[i]) \in M
    BY <1>2, <1>4
  <2> QED BY <1>1, <2>1, <2>2
<1>7. /\ Append(MeantAll(ss), Meant(s)) \in Seq(M)
      /\ Len(Append(MeantAll(ss), Meant(s))) = n + 1
      /\ \A i \in 1..n : Append(MeantAll(ss), Meant(s))[i] = MeantAll(ss)[i]
      /\ Append(MeantAll(ss), Meant(s))[n + 1] = Meant(s)
  BY <1>2, <1>5, AppendProperties
<1>8. ASSUME NEW i \in 1..n + 1
      PROVE  MeantAll(more)[i] = Append(MeantAll(ss), Meant(s))[i]
  <2>1. CASE i = n + 1
    BY <1>1, <1>6, <1>7, <2>1
  <2>2. CASE i # n + 1
    <3>1. i \in 1..n
      BY <1>1, <2>2
    <3> QED BY <1>1, <1>5, <1>6, <1>7, <3>1
  <2> QED BY <2>1, <2>2
<1>9. MeantAll(more) = Append(MeantAll(ss), Meant(s))
  BY <1>6, <1>7, <1>8, SeqEqual
<1> QED BY <1>9 DEF more

\* t is where s is, and has the values where s has their tokens.
Mirrors(t, s) == t.at = s.at /\ t.now = Meant(s.now) /\ t.done = MeantAll(s.done)

LEMMA MirrorClosed ==
    ASSUME NEW s \in States, NEW t \in States, Mirrors(t, s)
    PROVE  Mirrors(Closed(t), Closed(s))
<1>1. s.now \in Seq(Atoms) /\ s.done \in Seq(Seq(Atoms))
  BY DEF States
<1>2. MeantAll(Append(s.done, s.now)) = Append(MeantAll(s.done), Meant(s.now))
  BY <1>1, MeantAllAppend
<1> QED BY <1>2 DEF Mirrors, Closed, State

LEMMA MirrorRead ==
    ASSUME NEW s \in States, NEW t \in States, Mirrors(t, s), NEW a \in Atoms, ~IsTok(a)
    PROVE  Mirrors(Read(t, a), Read(s, a))
<1>1. s.now \in Seq(Atoms) /\ s.done \in Seq(Seq(Atoms)) /\ s.at \in {"out", "in", "end"}
      /\ t.at = s.at /\ t.now = Meant(s.now) /\ t.done = MeantAll(s.done)
  BY DEF States, Mirrors
<1>2. Meant(Append(s.now, a)) = Append(Meant(s.now), a)
  <2>1. Meant(s.now) \in Seq(Atoms)
    BY <1>1, MeantIs
  <2>2. Append(Meant(s.now), a) = Meant(s.now) \o <<a>>
    BY <2>1, AppendIsConcat
  <2>3. MeantBy(a) = <<a>>
    BY Zenon DEF MeantBy
  <2>4. Meant(Append(s.now, a)) = Meant(s.now) \o MeantBy(a)
    BY <1>1, MeantAppend
  <2> QED BY <2>2, <2>3, <2>4, Zenon
<1>3. CASE s.at = "out" /\ Ends(a)
  <2>1. Read(s, a) = State("in", <<>>, s.done) /\ Read(t, a) = State("in", <<>>, t.done)
    BY <1>1, <1>3, ReadIs
  <2> QED BY <1>1, <2>1, MeantNothing DEF Mirrors, State
<1>4. CASE s.at = "in" /\ Ends(a)
  <2>1. Read(s, a) = State("end", s.now, s.done) /\ Read(t, a) = State("end", t.now, t.done)
    BY <1>1, <1>4, ReadIs
  <2> QED BY <1>1, <2>1 DEF Mirrors, State
<1>5. CASE s.at = "in" /\ ~Ends(a)
  <2>1. Read(s, a) = State("in", Append(s.now, a), s.done)
        /\ Read(t, a) = State("in", Append(t.now, a), t.done)
    BY <1>1, <1>5, ReadIs
  <2> QED BY <1>1, <1>2, <2>1 DEF Mirrors, State
<1>6. CASE s.at = "end" /\ Ends(a)
  <2>1. Read(s, a) = State("in", Append(s.now, a), s.done)
        /\ Read(t, a) = State("in", Append(t.now, a), t.done)
    BY <1>1, <1>6, ReadIs
  <2> QED BY <1>1, <1>2, <2>1 DEF Mirrors, State
<1>7. CASE s.at # "in" /\ ~Ends(a)
  <2>1. Read(s, a) = Closed(s) /\ Read(t, a) = Closed(t)
    BY <1>1, <1>7, ReadIs
  <2> QED BY <2>1, MirrorClosed
<1>9. s.at = "out" \/ s.at = "end" => s.at # "in"
  OBVIOUS
<1> QED BY <1>1, <1>3, <1>4, <1>5, <1>6, <1>7, <1>9 DEF Ends

\* What stands before an atom.
LEMMA BeforeIs ==
    ASSUME NEW S, NEW s \in Seq(S), NEW e \in S
    PROVE  /\ SubSeq(Append(s, e), 1, (Len(s) + 1) - 1) = s
           /\ \A i \in 1..Len(s) : SubSeq(Append(s, e), 1, i - 1) = SubSeq(s, 1, i - 1)
<1>1. /\ Append(s, e) \in Seq(S) /\ Len(Append(s, e)) = Len(s) + 1 /\ Len(s) \in Nat
      /\ \A i \in 1..Len(s) : Append(s, e)[i] = s[i]
      /\ DOMAIN s = 1..Len(s)
  BY AppendIs
<1>2. SubSeq(Append(s, e), 1, (Len(s) + 1) - 1) = s
  <2>1. SubSeq(Append(s, e), 1, Len(s)) = [i \in 1..Len(s) |-> s[i]]
    BY <1>1
  <2>2. s = [i \in 1..Len(s) |-> s[i]] /\ (Len(s) + 1) - 1 = Len(s)
    BY <1>1
  <2> QED BY <2>1, <2>2
<1>3. ASSUME NEW i \in 1..Len(s)
      PROVE  SubSeq(Append(s, e), 1, i - 1) = SubSeq(s, 1, i - 1)
  <2>1. \A j \in 1..i - 1 : Append(s, e)[j] = s[j]
    BY <1>1
  <2>2. SubSeq(Append(s, e), 1, i - 1) = [j \in 1..i - 1 |-> Append(s, e)[j]]
        /\ SubSeq(s, 1, i - 1) = [j \in 1..i - 1 |-> s[j]]
    BY <1>1
  <2> QED BY <2>1, <2>2
<1> QED BY <1>2, <1>3

\* Where a text is placed, its beginning is.
LEMMA PlacedBefore ==
    ASSUME NEW text \in Seq(Atoms), NEW a \in Atoms, NEW part, Placed(Append(text, a), part)
    PROVE  Placed(text, part)
<1> DEFINE more == Append(text, a)
           Here(u, x, i) ==
              /\ part = "param" /\ (IsTok(x) \/ IsQuote(x)) => x.code = "raw"
              /\ IsTok(x) =>
                    LET letters == Range(Spelling[x.token]) IN
                    /\ part = "head" /\ x.code = "raw" => letters \intersect Structural = {}
                    /\ Reading(Decoded(u, part)).at # "in" =>
                          Spelling[x.token] # <<>> /\ Quote \notin letters
<1>1. \A i \in DOMAIN text : i \in DOMAIN more /\ more[i] = text[i]
                             /\ SubSeq(more, 1, i - 1) = SubSeq(text, 1, i - 1)
  <2>1. /\ Len(text) \in Nat /\ DOMAIN text = 1..Len(text)
        /\ DOMAIN more = 1..Len(text) + 1
        /\ \A i \in 1..Len(text) : more[i] = text[i]
    BY AppendIs
  <2>2. \A i \in 1..Len(text) : SubSeq(more, 1, i - 1) = SubSeq(text, 1, i - 1)
    BY BeforeIs
  <2> HIDE DEF more
  <2> QED BY <2>1, <2>2
<1>2. \A i \in DOMAIN more : Here(SubSeq(more, 1, i - 1), more[i], i)
  BY Zenon DEF Placed
<1>3. \A i \in DOMAIN text : Here(SubSeq(text, 1, i - 1), text[i], i)
  <2> HIDE DEF Here, more
  <2> QED BY <1>1, <1>2
<1> QED BY <1>3, Zenon DEF Placed

LEMMA PlacedSuits ==
    ASSUME NEW text \in Seq(Atoms), NEW a \in Atoms, NEW part, Placed(Append(text, a), part)
    PROVE  Suits(a, part) /\ \A i \in 1..Len(text) : Suits(text[i], part)
<1> DEFINE more == Append(text, a)
<1>1. \A i \in DOMAIN more : Suits(more[i], part)
  BY Zenon DEF Placed, Suits
<1>2. /\ Len(text) \in Nat /\ DOMAIN more = 1..Len(text) + 1 /\ more[Len(text) + 1] = a
      /\ \A i \in 1..Len(text) : more[i] = text[i]
  BY AppendIs
<1> HIDE DEF more
<1>3. Len(text) + 1 \in DOMAIN more /\ \A i \in 1..Len(text) : i \in DOMAIN more
  BY <1>2
<1> QED BY <1>1, <1>2, <1>3

\* A token is read as its value.
LEMMA MirrorToken ==
    ASSUME NEW text \in Seq(Atoms), NEW a \in Atoms, IsTok(a), NEW part,
           Placed(Append(text, a), part),
           Mirrors(Reading(Arrived(text, part)), Reading(Decoded(text, part)))
    PROVE  Mirrors(Reading(Arrived(Append(text, a), part)),
                   Reading(Decoded(Append(text, a), part)))
<1> DEFINE more == Append(text, a)
           n == Len(text)
           letters == Spelling[a.token]
           d == DecodedAtom(a, part)
           came == Arrived(text, part)
           s == Reading(Decoded(text, part))
           t == Reading(came)
<1>1. more[n + 1] = a /\ n + 1 \in DOMAIN more
  <2>1. n \in Nat /\ DOMAIN more = 1..n + 1 /\ more[n + 1] = a
    BY AppendIs
  <2> QED BY <2>1
<1>2. letters \in Seq(Letters)
  BY AtomIs, TextAssumption
<1>0. Suits(a, part) /\ \A i \in 1..Len(text) : Suits(text[i], part)
  BY PlacedSuits
<1>3. came \in Seq(Atoms) /\ Arrived(more, part) = came \o Raw(LettersFor(more, n + 1))
  BY <1>0, ArrivedAppend
<1>4. d \in Atoms /\ IsTok(d) /\ ~Ends(d) /\ d.token = a.token
  BY DecodedAtomIs
<1>5. Decoded(text, part) \in Seq(Atoms)
      /\ Decoded(more, part) = Append(Decoded(text, part), d)
  BY DecodedIs, DecodedAppend
<1>6. Reading(Decoded(more, part)) = Read(s, d)
  <2> HIDE DEF more, d
  <2> QED BY <1>4, <1>5, ReadingAppend
<1>7. s \in States /\ t \in States /\ Mirrors(t, s)
  BY <1>3, <1>5, ReadingType
<1>8. InLiteral(more, n + 1) <=> s.at = "in"
  BY <1>0, InLiteralIs
<1>9. s.now \in Seq(Atoms) /\ s.done \in Seq(Seq(Atoms)) /\ s.at \in {"out", "in", "end"}
      /\ t.at = s.at /\ t.now = Meant(s.now) /\ t.done = MeantAll(s.done)
  BY <1>7 DEF States, Mirrors
<1>10. CASE s.at = "in"
  <2>1. LettersFor(more, n + 1) = Escaped(letters)
    BY <1>1, <1>8, <1>10 DEF LettersFor
  <2>2. Reading(came \o Raw(Escaped(letters))) = State("in", t.now \o Raw(letters), t.done)
    <3> HIDE DEF came, letters
    <3> QED BY <1>2, <1>3, <1>9, <1>10, ReadInLiteral
  <2>3. Read(s, d) = State("in", Append(s.now, d), s.done)
    BY <1>4, <1>7, <1>10, ReadIs
  <2>4. Meant(Append(s.now, d)) = Meant(s.now) \o Raw(letters)
    <3>1. MeantBy(d) = Raw(letters)
      BY <1>4 DEF MeantBy
    <3>2. Meant(Append(s.now, d)) = Meant(s.now) \o MeantBy(d)
      BY <1>4, <1>9, MeantAppend
    <3> QED BY <3>1, <3>2
  <2>5. Reading(Arrived(more, part)) = State("in", t.now \o Raw(letters), t.done)
    BY <1>3, <2>1, <2>2
  <2> HIDE DEF more, s, t, d, letters
  <2> QED BY <1>6, <1>9, <2>3, <2>4, <2>5 DEF Mirrors, State, more
<1>11. CASE s.at # "in"
  <2>1. LettersFor(more, n + 1) = letters
    BY <1>1, <1>8, <1>11 DEF LettersFor
  <2>2. letters # <<>> /\ \A i \in 1..Len(letters) : letters[i] # Quote
    <3>1. letters # <<>> /\ Quote \notin Range(letters)
      <4>1. SubSeq(more, 1, (n + 1) - 1) = text
        BY BeforeIs
      <4>2. IsTok(more[n + 1])
            /\ Reading(Decoded(SubSeq(more, 1, (n + 1) - 1), part)).at # "in"
        BY <1>1, <1>11, <4>1
      <4>3. Spelling[more[n + 1].token] # <<>> /\ Quote \notin Range(Spelling[more[n + 1].token])
        BY <1>1, <4>2, Zenon DEF Placed
      <4> QED BY <1>1, <4>3
    <3>2. DOMAIN letters = 1..Len(letters)
      BY <1>2, LenProperties
    <3> QED BY <3>1, <3>2 DEF Range
  <2>3. Reading(came \o Raw(letters)) = Closed(t)
    <3> HIDE DEF came, letters
    <3> QED BY <1>2, <1>3, <1>9, <1>11, <2>2, ReadOutside
  <2>4. Read(s, d) = Closed(s)
    BY <1>4, <1>7, <1>11, ReadIs
  <2>5. Reading(Arrived(more, part)) = Closed(t)
    BY <1>3, <2>1, <2>3
  <2> HIDE DEF s, t, d
  <2> QED BY <1>6, <1>7, <2>4, <2>5, MirrorClosed DEF more
<1> QED BY <1>10, <1>11

LEMMA Mirrored ==
    ASSUME NEW text \in Seq(Atoms), NEW part, Placed(text, part)
    PROVE  Mirrors(Reading(Arrived(text, part)), Reading(Decoded(text, part)))
<1> DEFINE Ok(u) == Placed(u, part) => Mirrors(Reading(Arrived(u, part)), Reading(Decoded(u, part)))
           T == {u \in Seq(Atoms) : Ok(u)}
<1>1. <<>> \in T
  <2>1. Mirrors(Start, Start)
    BY MeantNothing, MeantAllNothing DEF Mirrors, Start
  <2>2. <<>> \in Seq(Atoms)
    BY EmptySeq
  <2> QED BY <2>1, <2>2, ArrivedNothing, DecodedNothing, ReadingNothing
<1>2. ASSUME NEW u \in Seq(Atoms), NEW a \in Atoms, u \in T
      PROVE  Append(u, a) \in T
  <2> SUFFICES ASSUME Placed(Append(u, a), part)
               PROVE  Mirrors(Reading(Arrived(Append(u, a), part)),
                              Reading(Decoded(Append(u, a), part)))
    BY AppendIs
  <2>1. Mirrors(Reading(Arrived(u, part)), Reading(Decoded(u, part)))
    BY <1>2, PlacedBefore
  <2>2. CASE IsTok(a)
    BY <2>1, <2>2, MirrorToken
  <2>3. CASE ~IsTok(a)
    <3> DEFINE d == DecodedAtom(a, part)
               came == Arrived(u, part)
               read == Decoded(u, part)
    <3>1. d \in Atoms /\ ~IsTok(d)
      BY <2>3, DecodedAtomIs
    <3>2. came \in Seq(Atoms) /\ Arrived(Append(u, a), part) = Append(came, d)
      BY <2>3, PlacedSuits, ArrivedAppend
    <3>3. read \in Seq(Atoms) /\ Decoded(Append(u, a), part) = Append(read, d)
      BY DecodedIs, DecodedAppend
    <3>4. Mirrors(Reading(came), Reading(read))
      BY <2>1
    <3> HIDE DEF d, came, read
    <3>5. Reading(Append(came, d)) = Read(Reading(came), d)
          /\ Reading(Append(read, d)) = Read(Reading(read), d)
          /\ Reading(came) \in States /\ Reading(read) \in States
      BY <3>1, <3>2, <3>3, ReadingAppend, ReadingType
    <3>6. Mirrors(Read(Reading(came), d), Read(Reading(read), d))
      BY <3>1, <3>4, <3>5, MirrorRead
    <3> QED BY <3>2, <3>3, <3>5, <3>6, Zenon
  <2> QED BY <2>2, <2>3
<1>3. Seq(Atoms) \subseteq T
  <2> HIDE DEF T
  <2> QED BY <1>1, <1>2, SeqInduction
<1> QED BY <1>3

\* The string literals that arrive hold the values for the tokens that were written.
LEMMA LiteralsArrive ==
    ASSUME NEW text \in Seq(Atoms), NEW part, Placed(text, part)
    PROVE  LiteralsOf(Decoded(Detokenized(text, Encodes(part)), part))
              = MeantAll(LiteralsOf(Decoded(text, part)))
<1> DEFINE blank == Letter(Blank, "raw")
           open == Letter(Blank, "open")
           s == Reading(Decoded(text, part))
           t == Reading(Arrived(text, part))
           u == Read(s, blank)
           v == Read(t, blank)
<1>1. blank \in Atoms /\ ~IsTok(blank)
  BY TextAssumption, LetterType DEF Codes
<1>2. s \in States /\ t \in States
  <2>1. Encodes(part) \in BOOLEAN
    BY DEF Encodes
  <2> QED BY <2>1, DetokenizedIs, DecodedIs, ReadingType DEF Arrived
<1>3. Mirrors(t, s)
  BY Mirrored
<1>4. Mirrors(v, u) /\ u \in States
  <2> HIDE DEF s, t, blank
  <2> QED BY <1>1, <1>2, <1>3, MirrorRead, ReadType
<1>5. LiteralsOf(Decoded(text, part)) =
         IF u.at = "out" THEN u.done ELSE Append(u.done, <<open>>)
  BY Zenon DEF LiteralsOf
<1>6. LiteralsOf(Decoded(Detokenized(text, Encodes(part)), part)) =
         IF v.at = "out" THEN v.done ELSE Append(v.done, <<open>>)
  BY Zenon DEF LiteralsOf, Arrived
<1> HIDE DEF u, v
<1>7. Meant(<<open>>) = <<open>>
  <2>1. ~IsTok(open)
    BY LetterType
  <2> HIDE DEF open
  <2>2. Meant(<<open>>) = FlattenSeq([i \in DOMAIN <<open>> |-> MeantBy(<<open>>[i])])
    BY Zenon DEF Meant, Filled, MeantBy
  <2>3. [i \in DOMAIN <<open>> |-> MeantBy(<<open>>[i])] = <<MeantBy(open)>>
    OBVIOUS
  <2>4. MeantBy(open) = <<open>>
    BY <2>1, Zenon DEF MeantBy
  <2>5. <<>> \in Seq(Seq({open})) /\ <<open>> \in Seq({open})
    OBVIOUS
  <2>6. FlattenSeq(Append(<<>>, <<open>>)) = FlattenSeq(<<>>) \o <<open>>
    BY <2>5, FlattenAppend
  <2>7. Append(<<>>, <<open>>) = <<<<open>>>> /\ <<>> \o <<open>> = <<open>>
    OBVIOUS
  <2> QED BY <2>2, <2>3, <2>4, <2>6, <2>7, FlattenNothing
<1>8. MeantAll(Append(u.done, <<open>>)) = Append(MeantAll(u.done), <<open>>)
  <2> DEFINE S == Seq(Atoms) \union {<<open>>}
  <2>1. u.done \in Seq(Seq(Atoms))
    BY <1>4 DEF States
  <2>2. u.done \in Seq(S) /\ <<open>> \in S
    <3>1. \A i \in 1..Len(u.done) : u.done[i] \in S
      BY <2>1, ElementOfSeq
    <3> HIDE DEF S, open
    <3>2. u.done = [i \in 1..Len(u.done) |-> u.done[i]] /\ Len(u.done) \in Nat
      BY <2>1
    <3>3. u.done \in Seq(S)
      BY <3>1, <3>2, SeqDef
    <3> QED BY <3>3 DEF S
  <2> HIDE DEF S
  <2>3. MeantAll(Append(u.done, <<open>>)) = Append(MeantAll(u.done), Meant(<<open>>))
    BY <2>2, MeantAllAppend
  <2> QED BY <1>7, <2>3
<1> HIDE DEF open
<1> QED BY <1>4, <1>5, <1>6, <1>8 DEF Mirrors

\* No token is left.
LEMMA NoTokenArrives ==
    ASSUME NEW text \in Seq(Atoms), NEW encode \in BOOLEAN
    PROVE  TokensOf(Detokenized(text, encode)) = {}
<1> DEFINE L == [letter : Letters, code : Codes \union {"mark"}]
           T == {u \in Seq(Atoms) : Detokenized(u, encode) \in Seq(L)}
<1>1. <<>> \in T
  BY EmptySeq, DetokenizedNothing
<1>2. ASSUME NEW u \in Seq(Atoms), NEW a \in Atoms, u \in T
      PROVE  Append(u, a) \in T
  <2> DEFINE more == Append(u, a)
             n == Len(u)
             put == InsertedFor(more, n + 1, encode)
  <2>1. more \in Seq(Atoms) /\ Len(more) = n + 1 /\ n \in Nat /\ more[n + 1] = a
    BY AppendIs
  <2>2. Detokenized(more, encode) = Detokenized(u, encode) \o put
    BY DetokenizedAppend
  <2>3. n + 1 \in 1..Len(more)
    BY <2>1
  <2> HIDE DEF more, n
  <2>4. put \in Seq(L)
    <3>1. CASE IsTok(a)
      <4> DEFINE letters == LettersFor(more, n + 1)
      <4>1. /\ letters \in Seq(Letters)
            /\ Inserted(more, n + 1, encode) \in {Raw(letters), Coded(Raw(letters), "pct")}
        BY <2>1, <2>3, <3>1, InsertedIs
      <4> HIDE DEF letters
      <4>2. Len(letters) \in Nat /\ \A i \in 1..Len(letters) : letters[i] \in Letters
        BY <4>1, LenProperties, ElementOfSeq
      <4>3. \A i \in 1..Len(letters), c \in Codes : Letter(letters[i], c) \in L
        BY <4>2 DEF Letter
      <4>4. "raw" \in Codes /\ "pct" \in Codes
        BY DEF Codes
      <4> HIDE DEF L
      <4>5. Raw(letters) \in Seq(L)
        <5>1. /\ Raw(letters) \in Seq(Atoms) /\ Len(Raw(letters)) = Len(letters)
              /\ \A i \in 1..Len(letters) : Raw(letters)[i] = Letter(letters[i], "raw")
          BY <4>1, RawIs
        <5>2. \A i \in 1..Len(letters) : Raw(letters)[i] \in L
          BY <4>3, <4>4, <5>1
        <5>3. Raw(letters) = [i \in 1..Len(letters) |-> Raw(letters)[i]]
          BY <5>1
        <5> QED BY <4>2, <5>2, <5>3, SeqDef
      <4>6. Coded(Raw(letters), "pct") \in Seq(L)
        <5> DEFINE coded == Coded(Raw(letters), "pct")
        <5>1. /\ coded \in Seq(Atoms) /\ Len(coded) = Len(letters)
              /\ \A i \in 1..Len(letters) :
                    coded[i] = Letter(letters[i], IF letters[i] \in Special["pct"] THEN "pct" ELSE "raw")
          BY <4>1, CodedIs
        <5> HIDE DEF coded
        <5>2. \A i \in 1..Len(letters) : coded[i] \in L
          BY <4>3, <4>4, <5>1
        <5>3. coded = [i \in 1..Len(letters) |-> coded[i]]
          BY <5>1
        <5>4. coded \in Seq(L)
          BY <4>2, <5>2, <5>3, SeqDef
        <5> QED BY <5>4 DEF coded
      <4>7. put = Inserted(more, n + 1, encode)
        BY <2>1, <3>1 DEF InsertedFor
      <4> HIDE DEF put
      <4> QED BY <4>1, <4>5, <4>6, <4>7
    <3>2. CASE ~IsTok(a)
      <4>1. put = <<a>>
        BY <2>1, <3>2, Zenon DEF InsertedFor
      <4>2. a \in L
        BY <3>2, AtomIs
      <4> HIDE DEF L, put
      <4> QED BY <4>1, <4>2
    <3> QED BY <3>1, <3>2
  <2> HIDE DEF L, put
  <2>5. Detokenized(u, encode) \in Seq(L)
    BY <1>2
  <2>6. Detokenized(u, encode) \o put \in Seq(L)
    BY <2>4, <2>5, ConcatProperties
  <2> QED BY <2>1, <2>2, <2>6 DEF more
<1>3. Seq(Atoms) \subseteq T
  <2> HIDE DEF T
  <2> QED BY <1>1, <1>2, SeqInduction
<1>4. Detokenized(text, encode) \in Seq(L)
  BY <1>3
<1>5. \A i \in DOMAIN Detokenized(text, encode) : ~IsTok(Detokenized(text, encode)[i])
  <2>1. \A x \in L : ~IsTok(x)
    BY DEF IsTok
  <2> HIDE DEF L
  <2> QED BY <1>4, <2>1, LenProperties, ElementOfSeq
<1> QED BY <1>5 DEF TokensOf

-----------------------------------------------------------------------------
(* The requests *)

\* What was written is text, and what is sent is made of it.
Sending ==
    /\ step \in {"written", "sent"} => \A part \in Parts : written[part] \in Seq(Atoms)
    /\ step = "sent" /\ Filtered =>
          sent = [part \in Parts |-> Detokenized(written[part], Encodes(part))]

LEMMA SendingStep ==
    ASSUME ExchangeTypeOK, Sending, [ExchangeNext]_exchangeVars
    PROVE  Sending'
<1>1. CASE ReadPage \/ ReadLeaf \/ Fault \/ Detail \/ Done
  <2>1. step' \notin {"written", "sent"}
    BY <1>1 DEF ReadPage, ReadLeaf, Fault, Detail, Done, Show
  <2> QED BY <2>1 DEF Sending
<1>2. CASE Write
  <2>1. vault \union {Foreign} \in SUBSET DOMAIN Spelling
    BY RequestsAssumption DEF ExchangeTypeOK
  <2>2. written' \in Requests(vault \union {Foreign}) /\ step' = "written"
    BY <1>2 DEF Write
  <2>3. {written'.head, written'.query, written'.param} \subseteq Seq(Atoms)
    BY <2>1, <2>2, RequestsAssumption
  <2> QED BY <2>2, <2>3 DEF Sending, Parts
<1>3. CASE PiiRequest
  <2>1. /\ written' = written /\ config' = config /\ step = "written"
        /\ step' = "sent" /\ Filtered =>
              sent' = [part \in Parts |-> Detokenized(written[part], Encodes(part))]
    BY <1>3 DEF PiiRequest
  <2>2. Filtered' <=> Filtered
    BY <2>1 DEF Filtered, Pii
  <2> QED BY <2>1, <2>2 DEF Sending, Encodes
<1>4. CASE UNCHANGED exchangeVars
  BY <1>4 DEF exchangeVars, Sending, Filtered, Pii, Encodes
<1> QED BY <1>1, <1>2, <1>3, <1>4 DEF ExchangeNext

LEMMA SendingMeant ==
    ASSUME Sending
    PROVE  SentAsMeant
<1> SUFFICES ASSUME step = "sent", Filtered, NEW part \in Parts
             PROVE  LET before == LiteralsOf(Decoded(written[part], part))
                    IN  /\ TokensOf(sent[part]) = {}
                        /\ Placed(written[part], part) =>
                              LiteralsOf(Decoded(sent[part], part))
                                 = [i \in DOMAIN before |-> Meant(before[i])]
  BY DEF SentAsMeant
<1>1. written[part] \in Seq(Atoms) /\ Encodes(part) \in BOOLEAN
      /\ sent[part] = Detokenized(written[part], Encodes(part))
  BY DEF Sending, Encodes
<1>2. TokensOf(sent[part]) = {}
  BY <1>1, NoTokenArrives
<1>3. Placed(written[part], part) =>
         LiteralsOf(Decoded(sent[part], part)) = MeantAll(LiteralsOf(Decoded(written[part], part)))
  BY <1>1, LiteralsArrive
<1> QED BY <1>2, <1>3 DEF MeantAll

\* A request means to the server what it meant to its writer (detokenize, its in_literal
\* and its escapes): for any text and any values, the string literals that arrive hold
\* the values for the tokens, and no token goes out; of a path and of parameters, where
\* Placed holds of what was written.
THEOREM LiteralsKept == ExchangeSpec => []SentAsMeant
<1>1. ExchangeInit => Sending
  BY DEF ExchangeInit, Sending
<1>2. ExchangeTypeOK /\ Sending /\ [ExchangeNext]_exchangeVars => Sending'
  BY SendingStep
<1>3. Sending => SentAsMeant
  BY SendingMeant
<1> QED BY <1>1, <1>2, <1>3, ExchangeTypeCorrect, PTL DEF ExchangeSpec

-----------------------------------------------------------------------------
(* A query's answer: the record, with one value exchanged for another *)

\* What a query that is let through asks of, and two values of the record.
Asking(pii, entity, row, v, w) ==
    /\ IsFilter(pii) /\ DOMAIN BuiltIn \subseteq DOMAIN pii.map
    /\ entity \notin {"*", AnyEntity} /\ IsRow(row, entity)
    /\ v \in DOMAIN Spelling /\ w \in DOMAIN Spelling

Other(pii, entity, row, v, w) == Exchanged(row, Visit(pii, row, entity, FALSE, TRUE), v, w)

LEMMA ExchangedCell ==
    ASSUME NEW P, NEW row \in Records(P), NEW out, NEW v, NEW w, NEW p \in P, NEW f \in Fields
    PROVE  LET cell == row.cells[p][f]
               new == Exchanged(row, out, v, w).cells[p][f]
           IN  /\ new.kind = cell.kind
               /\ new # cell => /\ out.cells[p][f].kind \in TokenKinds
                                /\ cell.value = v /\ new = [cell EXCEPT !.value = w]
               /\ cell.kind \in Scalars => cell.value \in DOMAIN Spelling /\ "value" \in DOMAIN cell
<1> DEFINE cell == row.cells[p][f]
           cells == [q \in P |-> [g \in Fields |->
                       IF out.cells[q][g].kind \in TokenKinds /\ row.cells[q][g].value = v
                       THEN [row.cells[q][g] EXCEPT !.value = w] ELSE row.cells[q][g]]]
<1>1. /\ row = [type |-> row.type, cells |-> row.cells] /\ DOMAIN row.type = P
      /\ cell \in Cells
  BY DEF Records
<1>2. Exchanged(row, out, v, w) = [row EXCEPT !.cells = cells]
  BY <1>1 DEF Exchanged, Places, TokenKinds
<1>3. Exchanged(row, out, v, w).cells[p][f]
         = IF out.cells[p][f].kind \in TokenKinds /\ cell.value = v
           THEN [cell EXCEPT !.value = w] ELSE cell
  <2>1. Exchanged(row, out, v, w).cells = cells
    BY <1>1, <1>2
  <2> QED BY <2>1
<1>4. [cell EXCEPT !.value = w].kind = cell.kind
  BY <1>1 DEF Cells, Gone
<1>5. cell.kind \in Scalars => cell.value \in DOMAIN Spelling /\ "value" \in DOMAIN cell
  BY <1>1 DEF Cells, Gone, Scalars
<1> HIDE DEF cells, cell
<1> QED BY <1>3, <1>4, <1>5 DEF cell

LEMMA ExchangedPlaces ==
    ASSUME NEW P, NEW row \in Records(P), NEW out, NEW v, NEW w
    PROVE  Places(Exchanged(row, out, v, w)) = P /\ Places(row) = P
<1>1. row = [type |-> row.type, cells |-> row.cells] /\ DOMAIN row.type = P
  BY DEF Records
<1> QED BY <1>1 DEF Exchanged, Places

\* The place a path leads to.
PlaceOf(at, path) == at \o [i \in 1..Len(path) - 1 |-> Lower[path[i]]]

LEMMA SeqWider ==
    ASSUME NEW S, NEW T, NEW s \in Seq(S), S \subseteq T
    PROVE  s \in Seq(T)
<1>1. Len(s) \in Nat /\ s \in [1..Len(s) -> S]
  BY LenProperties
<1>2. s \in [1..Len(s) -> T]
  BY <1>1
<1> QED BY <1>1, <1>2, SeqDef

LEMMA PlaceIsRoot ==
    ASSUME NEW S, NEW at \in Seq(S), NEW path \in Paths
    PROVE  PlaceOf(at, path) = <<>> <=> at = <<>> /\ Len(path) = 1
<1> DEFINE front == [i \in 1..Len(path) - 1 |-> Lower[path[i]]]
<1>1. path \in Seq(Fields) /\ path # <<>> /\ Len(path) \in Nat /\ Len(path) # 0
  BY LenProperties, EmptySeq DEF Paths
<1>2. front \in Seq(Fields)
  <2>1. \A i \in 1..Len(path) - 1 : path[i] \in Fields /\ Lower[path[i]] \in Fields
    BY <1>1, LowerAssumption, ElementOfSeq
  <2> QED BY <1>1, <2>1, IsASeq
<1>3. Len(front) = Len(path) - 1
  BY <1>1, <1>2, LenProperties
<1> HIDE DEF front
<1>4. at \in Seq(S \union Fields) /\ front \in Seq(S \union Fields)
  BY <1>2, SeqWider
<1>5. at \o front = <<>> <=> at = <<>> /\ front = <<>>
  BY <1>4, ConcatProperties, EmptySeq, LenProperties
<1>6. front = <<>> <=> Len(path) = 1
  <2>1. front = <<>> <=> Len(front) = 0
    BY <1>2, EmptySeq
  <2> QED BY <1>1, <1>3, <2>1
<1> QED BY <1>5, <1>6 DEF PlaceOf, front

LEMMA PathField ==
    ASSUME NEW path \in Paths
    PROVE  Last(path) \in Fields /\ Lower[Last(path)] \in Fields
           /\ Lower[Lower[Last(path)]] = Lower[Last(path)]
<1>1. path \in Seq(Fields) /\ Len(path) \in 1..Len(path)
  BY LenProperties, EmptySeq DEF Paths
<1>2. path[Len(path)] \in Fields
  BY <1>1, ElementOfSeq
<1> QED BY <1>2, LowerAssumption DEF Last

\* Where a path leads, one value or the other: different only if it was exchanged, and
\* then its field is one the guard protects.
LEMMA ValueExchanged ==
    ASSUME NEW pii, NEW entity, NEW row, NEW v, NEW w, Asking(pii, entity, row, v, w),
           NEW S, NEW at \in Seq(S), NEW path \in Paths
    PROVE  LET before == ValueAt(row, at, path)
               after == ValueAt(Other(pii, entity, row, v, w), at, path)
               asked == IF at = <<>> /\ Len(path) = 1 THEN entity ELSE AnyEntity
           IN  before = after \/ (before = v /\ after = w /\ Protects(pii, asked, Last(path)))
<1> DEFINE out == Visit(pii, row, entity, FALSE, TRUE)
           new == Exchanged(row, out, v, w)
           P == Places(row)
           p == PlaceOf(at, path)
           g == Last(path)
           f == Lower[g]
           cell == row.cells[p][f]
           asked == IF at = <<>> /\ Len(path) = 1 THEN entity ELSE AnyEntity
<1>1. row \in Records(P) /\ f \in Fields /\ g \in Fields /\ Lower[f] = f
  BY PathField DEF Asking, IsRow
<1>2. Places(new) = P
  <2> HIDE DEF out, P
  <2> QED BY <1>1, ExchangedPlaces
<1>3. /\ ValueAt(row, at, path) = IF p \in P /\ cell.kind \in Scalars THEN cell.value ELSE Nothing
      /\ ValueAt(new, at, path) = IF p \in P /\ new.cells[p][f].kind \in Scalars
                                  THEN new.cells[p][f].value ELSE Nothing
  BY <1>2 DEF ValueAt, PlaceOf
<1>4. ASSUME p \in P
      PROVE  /\ new.cells[p][f].kind = cell.kind
             /\ new.cells[p][f] # cell => /\ out.cells[p][f].kind \in TokenKinds
                                         /\ cell.value = v
                                         /\ new.cells[p][f] = [cell EXCEPT !.value = w]
             /\ cell.kind \in Scalars => "value" \in DOMAIN cell
  <2> HIDE DEF out, p, f, P, cell, new
  <2>1. row \in Records(P) /\ p \in P /\ f \in Fields
    BY <1>1, <1>4
  <2> QED BY <2>1, ExchangedCell DEF cell, new
<1>5. CASE p \in P /\ cell.kind \in Scalars /\ new.cells[p][f] # cell
  <2>1. /\ out.cells[p][f].kind \in TokenKinds /\ cell.value = v
        /\ new.cells[p][f] = [cell EXCEPT !.value = w] /\ new.cells[p][f].kind = cell.kind
        /\ "value" \in DOMAIN cell
    BY <1>4, <1>5
  <2>2. ValueAt(row, at, path) = v /\ ValueAt(new, at, path) = w
    <3> HIDE DEF new, cell, p, f, P
    <3> QED BY <1>3, <1>5, <2>1
  <2>3. p = <<>> <=> at = <<>> /\ Len(path) = 1
    BY PlaceIsRoot
  <2>4. f # "Value"
    <3>1. row.cells[p]["Value"] = Gone
      BY <1>5 DEF Asking, IsRow
    <3> QED BY <1>5, <3>1 DEF Gone, Scalars
  <2>5. CASE p = <<>> /\ entity = "none"
    <3>1. "none" \notin DOMAIN pii.map /\ "none" # AnyEntity
      BY DEF Asking, IsFilter, IsMap, AnyEntity
    <3> QED BY <2>2, <2>3, <2>5, <3>1 DEF Protects, Other
  <2>6. CASE ~(p = <<>> /\ entity = "none")
    <3>1. IF p = <<>> THEN row.type[p] \in {"none", entity}
                      ELSE row.type[p] \in DOMAIN pii.map \ {"*"}
      BY <1>5, <2>6 DEF Asking, IsRow
    <3>2. IsFilter(pii) /\ entity \notin {"*", AnyEntity}
      BY DEF Asking
    <3>3. Lower[g] = Lower[f] /\ out.cells[p][f].kind \in TokenKinds /\ p \in P
      BY <1>1, <1>5, <2>1
    <3>4. Protects(pii, IF p = <<>> THEN entity ELSE AnyEntity, g)
      <4> HIDE DEF p, f, g, P
      <4> QED BY <1>1, <2>4, <3>1, <3>2, <3>3, GuardCoversWalk DEF out
    <3> QED BY <2>2, <2>3, <3>4 DEF Other
  <2> QED BY <2>5, <2>6
<1>6. CASE p \in P /\ new.cells[p][f] = cell
  <2>1. ValueAt(row, at, path) = ValueAt(new, at, path)
    <3> HIDE DEF new, cell, p, f, P
    <3> QED BY <1>3, <1>6
  <2> QED BY <2>1 DEF Other
<1>7. CASE p \in P /\ cell.kind \notin Scalars
  <2>1. new.cells[p][f].kind = cell.kind
    BY <1>4, <1>7
  <2> QED BY <1>3, <1>7, <2>1 DEF Other
<1>8. CASE p \notin P
  BY <1>3, <1>8 DEF Other
<1> QED BY <1>5, <1>6, <1>7, <1>8

-----------------------------------------------------------------------------
(* Where a text stands in another *)

Occurs(seg, text, k) ==
    k \in Nat /\ k + Len(seg) <= Len(text) /\ \A j \in 1..Len(seg) : text[k + j] = seg[j]

\* What stands at i, if anything does, is one of these.
Followed(text, i, by) == i \in DOMAIN text => text[i] \in by

LEMMA OccursConcat ==
    ASSUME NEW S, NEW s \in Seq(S), NEW t \in Seq(S)
    PROVE  /\ s \o t \in Seq(S) /\ Len(s \o t) = Len(s) + Len(t)
           /\ Occurs(s, s \o t, 0) /\ Occurs(t, s \o t, Len(s))
<1>1. /\ Len(s) \in Nat /\ Len(t) \in Nat /\ s \o t \in Seq(S)
      /\ Len(s \o t) = Len(s) + Len(t)
      /\ \A i \in 1..Len(s) + Len(t) :
            (s \o t)[i] = IF i <= Len(s) THEN s[i] ELSE t[i - Len(s)]
  BY LenProperties, ConcatProperties
<1> DEFINE u == s \o t
<1> HIDE DEF u
<1>2. \A i \in 1..Len(s) : u[0 + i] = s[i]
  BY <1>1 DEF u
<1>3. \A i \in 1..Len(t) : u[Len(s) + i] = t[i]
  BY <1>1 DEF u
<1> QED BY <1>1, <1>2, <1>3 DEF Occurs, u

LEMMA OccursWithin ==
    ASSUME NEW s, NEW t, NEW u, NEW k, NEW m, Occurs(s, t, k), Occurs(t, u, m),
           Len(s) \in Nat, Len(t) \in Nat, Len(u) \in Nat
    PROVE  Occurs(s, u, m + k)
<1>1. \A j \in 1..Len(s) : k + j \in 1..Len(t) /\ (m + k) + j = m + (k + j)
  BY DEF Occurs
<1>2. \A j \in 1..Len(s) : u[(m + k) + j] = s[j]
  BY <1>1 DEF Occurs
<1> QED BY <1>2 DEF Occurs

LEMMA NotEmpty ==
    ASSUME NEW S, NEW s \in Seq(S), Len(s) # 0
    PROVE  s # <<>>
  BY EmptySeq

\* Joined, one more at the end.
LEMMA JoinedMore ==
    ASSUME NEW S, NEW ss \in Seq(Seq(S)), NEW s \in Seq(S), NEW mark \in S
    PROVE  Joined(Append(ss, s), mark)
              = IF ss = <<>> THEN s ELSE Joined(ss, mark) \o (<<mark>> \o s)
<1> DEFINE Pieces(tt) == [i \in DOMAIN tt |-> IF i = 1 THEN tt[i] ELSE <<mark>> \o tt[i]]
           longer == Append(ss, s)
           n == Len(ss)
<1>1. /\ longer \in Seq(Seq(S)) /\ Len(longer) = n + 1 /\ n \in Nat
      /\ \A i \in 1..n : longer[i] = ss[i]
      /\ longer[n + 1] = s
  BY AppendIs
<1> HIDE DEF longer
<1>2. ASSUME NEW tt \in Seq(Seq(S))
      PROVE  Pieces(tt) \in Seq(Seq(S)) /\ Len(Pieces(tt)) = Len(tt)
  <2>1. DOMAIN tt = 1..Len(tt) /\ Len(tt) \in Nat
    BY LenProperties
  <2>2. \A i \in 1..Len(tt) : tt[i] \in Seq(S) /\ <<mark>> \o tt[i] \in Seq(S)
    BY ElementOfSeq, ConcatProperties
  <2>3. Pieces(tt) = [i \in 1..Len(tt) |-> IF i = 1 THEN tt[i] ELSE <<mark>> \o tt[i]]
    BY <2>1
  <2>4. Pieces(tt) \in Seq(Seq(S))
    BY <2>1, <2>2, <2>3, IsASeq
  <2>5. DOMAIN Pieces(tt) = 1..Len(tt)
    BY <2>1
  <2> HIDE DEF Pieces
  <2> QED BY <2>1, <2>4, <2>5, LenProperties
<1>3. DOMAIN ss = 1..n /\ DOMAIN longer = 1..n + 1
  BY <1>1, LenProperties
<1>4. \A i \in 1..n : Pieces(longer)[i] = Pieces(ss)[i]
  <2> HIDE DEF n
  <2> QED BY <1>1, <1>3
<1>5. Pieces(longer)[n + 1] = IF n = 0 THEN s ELSE <<mark>> \o s
  <2> HIDE DEF n
  <2> QED BY <1>1, <1>3
<1>6. FlattenSeq(Pieces(longer)) = FlattenSeq(Pieces(ss)) \o Pieces(longer)[n + 1]
  <2>1. /\ Pieces(ss) \in Seq(Seq(S)) /\ Len(Pieces(ss)) = n
        /\ Pieces(longer) \in Seq(Seq(S)) /\ Len(Pieces(longer)) = n + 1
    BY <1>1, <1>2
  <2> HIDE DEF Pieces, n
  <2> QED BY <1>4, <2>1, FlattenLonger
<1>7. Joined(longer, mark) = Joined(ss, mark) \o Pieces(longer)[n + 1]
  BY <1>6 DEF Joined
<1>8. CASE ss = <<>>
  <2>1. n = 0 /\ Pieces(ss) = <<>>
    BY <1>8, EmptySeq
  <2>2. Joined(ss, mark) = <<>>
    BY <2>1, FlattenNothing DEF Joined
  <2>3. <<>> \o s = s
    BY ConcatEmptySeq
  <2> HIDE DEF Pieces, n
  <2> QED BY <1>5, <1>7, <1>8, <2>1, <2>2, <2>3, Zenon DEF longer
<1>9. CASE ss # <<>>
  <2>1. n # 0
    BY <1>9, EmptySeq
  <2> HIDE DEF Pieces, n
  <2> QED BY <1>5, <1>7, <1>9, <2>1, Zenon DEF longer
<1> QED BY <1>8, <1>9

LEMMA JoinedNothing ==
    ASSUME NEW mark
    PROVE  Joined(<<>>, mark) = <<>>
<1>1. [i \in DOMAIN <<>> |-> IF i = 1 THEN <<>>[i] ELSE <<mark>> \o <<>>[i]] = <<>>
  BY EmptySeq
<1> QED BY <1>1, FlattenNothing DEF Joined

\* Every part stands in the whole, at its end or before the mark.
Part(s, text, mark, k) == Occurs(s, text, k) /\ Followed(text, k + Len(s) + 1, {mark})

LEMMA JoinedAt ==
    ASSUME NEW S, NEW mark \in S, NEW ss \in Seq(Seq(S))
    PROVE  /\ Joined(ss, mark) \in Seq(S)
           /\ \A i \in 1..Len(ss) : \E k \in Nat : Part(ss[i], Joined(ss, mark), mark, k)
<1> DEFINE Ok(tt) == /\ Joined(tt, mark) \in Seq(S)
                     /\ \A i \in 1..Len(tt) : \E k \in Nat : Part(tt[i], Joined(tt, mark), mark, k)
           T == {tt \in Seq(Seq(S)) : Ok(tt)}
<1>1. <<>> \in T
  <2>1. Joined(<<>>, mark) = <<>>
    BY JoinedNothing
  <2>2. <<>> \in Seq(S) /\ <<>> \in Seq(Seq(S)) /\ 1..Len(<<>>) = {}
    OBVIOUS
  <2> QED BY <2>1, <2>2
<1>2. ASSUME NEW tt \in Seq(Seq(S)), NEW s \in Seq(S), tt \in T
      PROVE  Append(tt, s) \in T
  <2> DEFINE longer == Append(tt, s)
             was == Joined(tt, mark)
             put == <<mark>> \o s
             now == Joined(longer, mark)
  <2>1. /\ longer \in Seq(Seq(S)) /\ Len(longer) = Len(tt) + 1 /\ Len(tt) \in Nat
        /\ \A i \in 1..Len(tt) : longer[i] = tt[i]
        /\ longer[Len(tt) + 1] = s
    BY AppendIs
  <2>2. now = IF tt = <<>> THEN s ELSE was \o put
    BY JoinedMore
  <2>3. Len(s) \in Nat /\ DOMAIN s = 1..Len(s)
    BY LenProperties
  <2>4. CASE tt = <<>>
    <3>1. Len(tt) = 0 /\ now = s
      BY <2>2, <2>4, EmptySeq
    <3>2. Part(s, now, mark, 0)
      BY <2>3, <3>1 DEF Part, Occurs, Followed
    <3>3. Len(longer) = 1 /\ longer[1] = s /\ 0 \in Nat
      BY <2>1, <3>1
    <3> HIDE DEF longer
    <3>4. \A i \in 1..Len(longer) : \E k \in Nat : Part(longer[i], now, mark, k)
      <4> HIDE DEF now
      <4>1. \A i \in 1..1 : i = 1
        OBVIOUS
      <4> QED BY <3>2, <3>3, <4>1
    <3>5. now \in Seq(S)
      BY <3>1
    <3> QED BY <2>1, <3>4, <3>5 DEF longer
  <2>5. CASE tt # <<>>
    <3>1. was \in Seq(S) /\ \A i \in 1..Len(tt) : \E k \in Nat : Part(tt[i], was, mark, k)
      BY <1>2
    <3>2. put \in Seq(S) /\ Len(put) = Len(s) + 1 /\ put[1] = mark /\ Occurs(s, put, 1)
      <4>1. <<mark>> \in Seq(S) /\ Len(<<mark>>) = 1 /\ <<mark>>[1] = mark
        OBVIOUS
      <4> HIDE DEF put
      <4>2. put \in Seq(S) /\ Len(put) = 1 + Len(s) /\ Occurs(<<mark>>, put, 0) /\ Occurs(s, put, 1)
        BY <4>1, OccursConcat DEF put
      <4> QED BY <2>3, <4>1, <4>2 DEF Occurs
    <3> HIDE DEF was, put
    <3>3. /\ now \in Seq(S) /\ Len(now) = Len(was) + Len(put)
          /\ Occurs(was, now, 0) /\ Occurs(put, now, Len(was))
      BY <2>2, <2>5, <3>1, <3>2, OccursConcat
    <3> HIDE DEF now, longer
    <3>4. /\ Len(was) \in Nat /\ DOMAIN was = 1..Len(was) /\ Len(now) \in Nat
          /\ DOMAIN now = 1..Len(now) /\ now[Len(was) + 1] = mark
      <4>1. 1 \in 1..Len(put)
        BY <2>3, <3>2
      <4> QED BY <3>1, <3>2, <3>3, <4>1, LenProperties DEF Occurs
    <3>5. ASSUME NEW i \in 1..Len(tt) PROVE \E k \in Nat : Part(longer[i], now, mark, k)
      <4>1. PICK k \in Nat : Part(tt[i], was, mark, k)
        BY <3>1
      <4>2. tt[i] \in Seq(S) /\ Len(tt[i]) \in Nat
        BY ElementOfSeq, LenProperties
      <4>3. Occurs(tt[i], now, 0 + k)
        BY <3>3, <3>4, <4>1, <4>2, OccursWithin DEF Part
      <4> DEFINE q == k + Len(tt[i]) + 1
      <4>4. q \in 1..Len(was) + 1
        <5>1. k + Len(tt[i]) <= Len(was)
          BY <4>1 DEF Part, Occurs
        <5> QED BY <3>4, <4>2, <5>1
      <4>5. q \in 1..Len(was) => now[q] \in {mark}
        <5>1. q \in 1..Len(was) => was[q] \in {mark}
          BY <3>4, <4>1 DEF Part, Followed
        <5> HIDE DEF q
        <5>2. q \in 1..Len(was) => now[0 + q] = was[q] /\ 0 + q = q
          BY <3>3, <3>4 DEF Occurs
        <5> QED BY <5>1, <5>2
      <4> HIDE DEF q
      <4>6. Followed(now, q, {mark})
        BY <3>4, <4>4, <4>5 DEF Followed
      <4>7. 0 + k = k /\ longer[i] = tt[i]
        BY <2>1
      <4>8. Part(tt[i], now, mark, k)
        BY <4>3, <4>6, <4>7 DEF Part, q
      <4> QED BY <4>7, <4>8
    <3>6. Part(s, now, mark, Len(was) + 1)
      <4>1. Occurs(s, now, Len(was) + 1)
        <5>1. Len(put) \in Nat
          BY <2>3, <3>2
        <5> QED BY <2>3, <3>2, <3>3, <3>4, <5>1, OccursWithin
      <4>2. (Len(was) + 1) + Len(s) + 1 \notin 1..Len(now)
        BY <2>3, <3>2, <3>3, <3>4
      <4> QED BY <3>4, <4>1, <4>2 DEF Part, Followed
    <3>7. ASSUME NEW i \in 1..Len(longer) PROVE \E k \in Nat : Part(longer[i], now, mark, k)
      <4>1. CASE i \in 1..Len(tt)
        BY <3>5, <4>1
      <4>2. CASE i = Len(tt) + 1
        BY <2>1, <3>4, <3>6, <4>2
      <4> QED BY <2>1, <4>1, <4>2
    <3> QED BY <2>1, <3>3, <3>7 DEF longer, now
  <2> QED BY <2>4, <2>5
<1>3. Seq(Seq(S)) \subseteq T
  <2> HIDE DEF T
  <2> QED BY <1>1, <1>2, SeqInduction
<1> QED BY <1>3

\* A list of single ones.
List(xs, mark) == Joined([i \in DOMAIN xs |-> <<xs[i]>>], mark)
ListIs(xs, mark, list) ==
    /\ Len(list) = IF xs = <<>> THEN 0 ELSE 2 * Len(xs) - 1
    /\ \A i \in 1..Len(xs) : list[2 * i - 1] = xs[i]
    /\ \A i \in 1..Len(xs) - 1 : list[2 * i] = mark

LEMMA ListAt ==
    ASSUME NEW S, NEW mark \in S, NEW xs \in Seq(S)
    PROVE  List(xs, mark) \in Seq(S) /\ ListIs(xs, mark, List(xs, mark))
<1> DEFINE Singles(ys) == [i \in DOMAIN ys |-> <<ys[i]>>]
           T == {ys \in Seq(S) : List(ys, mark) \in Seq(S) /\ ListIs(ys, mark, List(ys, mark))}
<1>1. <<>> \in T
  <2>1. Singles(<<>>) = <<>>
    OBVIOUS
  <2>2. List(<<>>, mark) = <<>>
    BY <2>1, JoinedNothing DEF List
  <2>3. <<>> \in Seq(S) /\ Len(<<>>) = 0 /\ 1..Len(<<>>) = {} /\ 1..Len(<<>>) - 1 = {}
    OBVIOUS
  <2>4. ListIs(<<>>, mark, <<>>)
    BY <2>3 DEF ListIs
  <2> QED BY <2>2, <2>3, <2>4
<1>2. ASSUME NEW ys \in Seq(S), NEW y \in S, ys \in T
      PROVE  Append(ys, y) \in T
  <2> DEFINE longer == Append(ys, y)
             n == Len(ys)
             was == List(ys, mark)
             now == List(longer, mark)
  <2>1. /\ longer \in Seq(S) /\ Len(longer) = n + 1 /\ n \in Nat
        /\ \A i \in 1..n : longer[i] = ys[i]
        /\ longer[n + 1] = y
        /\ DOMAIN ys = 1..n /\ DOMAIN longer = 1..n + 1
    BY AppendIs
  <2> HIDE DEF longer
  <2>2. ASSUME NEW zs \in Seq(S)
        PROVE  Singles(zs) \in Seq(Seq(S)) /\ Len(Singles(zs)) = Len(zs)
    <3>1. DOMAIN zs = 1..Len(zs) /\ Len(zs) \in Nat
      BY LenProperties
    <3>2. \A i \in 1..Len(zs) : <<zs[i]>> \in Seq(S)
      BY ElementOfSeq
    <3>3. Singles(zs) = [i \in 1..Len(zs) |-> <<zs[i]>>]
      BY <3>1
    <3>4. Singles(zs) \in Seq(Seq(S))
      BY <3>1, <3>2, <3>3, IsASeq
    <3>5. DOMAIN Singles(zs) = 1..Len(zs)
      BY <3>1
    <3> HIDE DEF Singles
    <3> QED BY <3>1, <3>4, <3>5, LenProperties
  <2>3. Singles(longer) = Append(Singles(ys), <<y>>)
    <3>1. \A i \in 1..n : Singles(longer)[i] = Singles(ys)[i]
      <4> HIDE DEF n
      <4> QED BY <2>1
    <3>2. Singles(longer)[n + 1] = <<y>>
      <4> HIDE DEF n
      <4> QED BY <2>1
    <3>3. /\ Singles(ys) \in Seq(Seq(S)) /\ Len(Singles(ys)) = n
          /\ Singles(longer) \in Seq(Seq(S)) /\ Len(Singles(longer)) = n + 1
      BY <2>1, <2>2
    <3> HIDE DEF Singles, n
    <3>4. <<y>> \in Seq(S)
      OBVIOUS
    <3>5. /\ Append(Singles(ys), <<y>>) \in Seq(Seq(S))
          /\ Len(Append(Singles(ys), <<y>>)) = n + 1
          /\ \A i \in 1..n : Append(Singles(ys), <<y>>)[i] = Singles(ys)[i]
          /\ Append(Singles(ys), <<y>>)[n + 1] = <<y>>
      BY <3>3, <3>4, AppendIs
    <3> QED BY <2>1, <3>1, <3>2, <3>3, <3>5, SeqEqual
  <2>4. now = IF ys = <<>> THEN <<y>> ELSE was \o (<<mark>> \o <<y>>)
    <3>1. Singles(ys) \in Seq(Seq(S)) /\ Len(Singles(ys)) = n
      BY <2>2
    <3>2. Singles(ys) = <<>> <=> ys = <<>>
      <4> HIDE DEF Singles
      <4> QED BY <3>1, EmptySeq
    <3>3. now = Joined(Singles(longer), mark) /\ was = Joined(Singles(ys), mark)
      BY DEF List
    <3>4. <<y>> \in Seq(S)
      OBVIOUS
    <3> HIDE DEF Singles, now, was, n
    <3>5. Joined(Append(Singles(ys), <<y>>), mark)
            = IF Singles(ys) = <<>> THEN <<y>> ELSE Joined(Singles(ys), mark) \o (<<mark>> \o <<y>>)
      BY <3>1, <3>4, JoinedMore
    <3> QED BY <2>3, <3>2, <3>3, <3>5
  <2>5. CASE ys = <<>>
    <3>1. n = 0 /\ now = <<y>>
      BY <2>4, <2>5, EmptySeq
    <3> HIDE DEF now
    <3>2. now \in Seq(S) /\ Len(now) = 1 /\ now[1] = y
      BY <3>1
    <3>3. Len(longer) = 1 /\ longer[1] = y /\ longer # <<>>
      <4>1. Len(longer) = 1 /\ longer[1] = y
        BY <2>1, <3>1
      <4> QED BY <2>1, <4>1, NotEmpty
    <3>4. ListIs(longer, mark, now)
      BY <3>2, <3>3 DEF ListIs
    <3> QED BY <2>1, <3>2, <3>4 DEF longer, now
  <2>6. CASE ys # <<>>
    <3>1. n # 0 /\ was \in Seq(S) /\ ListIs(ys, mark, was)
      BY <1>2, <2>6, EmptySeq
    <3> DEFINE put == <<mark>> \o <<y>>
    <3>2. /\ <<mark>> \in Seq(S) /\ Len(<<mark>>) = 1 /\ <<mark>>[1] = mark
          /\ <<y>> \in Seq(S) /\ Len(<<y>>) = 1 /\ <<y>>[1] = y
      OBVIOUS
    <3>3. put \in Seq(S) /\ Len(put) = 2 /\ put[1] = mark /\ put[2] = y
      <4> HIDE DEF put
      <4>1. /\ put \in Seq(S) /\ Len(put) = Len(<<mark>>) + Len(<<y>>)
            /\ Occurs(<<mark>>, put, 0) /\ Occurs(<<y>>, put, Len(<<mark>>))
        BY <3>2, OccursConcat DEF put
      <4> QED BY <3>2, <4>1 DEF Occurs
    <3> HIDE DEF put, was
    <3> HIDE DEF now, n
    <3>4. /\ now \in Seq(S) /\ Len(now) = Len(was) + 2
          /\ Occurs(was, now, 0) /\ Occurs(put, now, Len(was))
      <4>1. now = was \o put
        BY <2>4, <2>6 DEF now, was, put
      <4> QED BY <3>1, <3>3, <4>1, OccursConcat
    <3>5. Len(was) = 2 * n - 1
      BY <2>6, <3>1 DEF ListIs, n
    <3>6. now[2 * n] = mark /\ now[2 * (n + 1) - 1] = y
      <4>1. now[Len(was) + 1] = mark /\ now[Len(was) + 2] = y
        BY <3>3, <3>4 DEF Occurs
      <4>2. Len(was) + 1 = 2 * n /\ Len(was) + 2 = 2 * (n + 1) - 1
        BY <2>1, <3>5
      <4> QED BY <4>1, <4>2
    <3>7. \A i \in 1..Len(was) : now[i] = was[i]
      <4>1. \A i \in 1..Len(was) : now[0 + i] = was[i] /\ 0 + i = i
        BY <3>4 DEF Occurs
      <4> QED BY <4>1
    <3>8. ASSUME NEW i \in 1..n + 1 PROVE now[2 * i - 1] = longer[i]
      <4>1. CASE i = n + 1
        BY <2>1, <3>6, <4>1
      <4>2. CASE i \in 1..n
        <5>1. 2 * i - 1 \in 1..Len(was)
          BY <2>1, <3>5, <4>2
        <5>2. was[2 * i - 1] = ys[i]
          BY <3>1, <4>2 DEF ListIs, n
        <5> QED BY <2>1, <3>7, <4>2, <5>1, <5>2
      <4> QED BY <2>1, <4>1, <4>2
    <3>9. ASSUME NEW i \in 1..n PROVE now[2 * i] = mark
      <4>1. CASE i = n
        BY <3>6, <4>1
      <4>2. CASE i \in 1..n - 1
        <5>1. 2 * i \in 1..Len(was)
          BY <2>1, <3>5, <4>2
        <5>2. was[2 * i] = mark
          BY <3>1, <4>2 DEF ListIs, n
        <5> QED BY <3>7, <5>1, <5>2
      <4> QED BY <2>1, <4>1, <4>2
    <3>10. ListIs(longer, mark, now)
      <4>1. longer # <<>>
        BY <2>1, EmptySeq
      <4>2. Len(now) = 2 * (n + 1) - 1 /\ (n + 1) - 1 = n
        BY <2>1, <3>4, <3>5
      <4> QED BY <2>1, <3>8, <3>9, <4>1, <4>2 DEF ListIs
    <3> QED BY <2>1, <3>4, <3>10 DEF longer, now
  <2> QED BY <2>5, <2>6
<1>3. Seq(S) \subseteq T
  <2> HIDE DEF T
  <2> QED BY <1>1, <1>2, SeqInduction
<1> QED BY <1>3

-----------------------------------------------------------------------------
(* What the guard sees of a query *)

Names == STRING \union Fields
         \union {"null", "eq", "ne", "gt", "in", "and", "or", "any", "nav", "e", "startswith", "aggregate",
                 "with", "max", "as", "uri", "length", "desc", "expand"}
Tokens == [kind : {"id"}, path : Seq(Names)]
          \union [kind : {"str"}, value : DOMAIN Spelling, token : BOOLEAN]
          \union [kind : {"punct"}, char : {"(", ")", ":", "=", Comma, Semicolon}]

LEMMA TokenType ==
    /\ \A p \in Seq(Names) : Id(p) \in Tokens
    /\ \A w \in Names : Word(w) \in Tokens
    /\ \A c \in {"(", ")", ":", "=", Comma, Semicolon} : Mark(c) \in Tokens
<1>1. \A p \in Seq(Names) : Id(p) \in [kind : {"id"}, path : Seq(Names)]
  BY DEF Id
<1>2. \A w \in Names : <<w>> \in Seq(Names)
  OBVIOUS
<1>3. \A c \in {"(", ")", ":", "=", Comma, Semicolon} :
         Mark(c) \in [kind : {"punct"}, char : {"(", ")", ":", "=", Comma, Semicolon}]
  BY DEF Mark
<1> QED BY <1>1, <1>2, <1>3, Zenon DEF Tokens, Word

\* No token is another one.
LEMMA TokensDiffer ==
    /\ \A p, q : Id(p) = Id(q) => p = q
    /\ \A p, c : Id(p) # Mark(c)
    /\ \A a, b : Word(a) = Word(b) => a = b
    /\ \A a, c : Word(a) # Mark(c)
    /\ \A a, b : Mark(a) = Mark(b) => a = b
    /\ \A w : Word(w) = Id(<<w>>)
<1>1. \A p, q : Id(p) = Id(q) => p = q
  <2> SUFFICES ASSUME NEW p, NEW q, Id(p) = Id(q) PROVE p = q
    OBVIOUS
  <2>1. Id(p).path = Id(q).path
    BY Zenon
  <2> QED BY <2>1 DEF Id
<1>2. \A p, c : Id(p) # Mark(c)
  <2> SUFFICES ASSUME NEW p, NEW c, Id(p) = Mark(c) PROVE FALSE
    OBVIOUS
  <2>1. Id(p).kind = Mark(c).kind
    BY Zenon
  <2> QED BY <2>1 DEF Id, Mark
<1>3. \A a, b : Word(a) = Word(b) => a = b
  <2> SUFFICES ASSUME NEW a, NEW b, Word(a) = Word(b) PROVE a = b
    OBVIOUS
  <2>1. <<a>> = <<b>>
    BY <1>1 DEF Word
  <2> QED BY <2>1
<1>4. \A a, b : Mark(a) = Mark(b) => a = b
  <2> SUFFICES ASSUME NEW a, NEW b, Mark(a) = Mark(b) PROVE a = b
    OBVIOUS
  <2>1. Mark(a).char = Mark(b).char
    BY Zenon
  <2> QED BY <2>1 DEF Mark
<1>5. \A w : Word(w) = Id(<<w>>)
  BY DEF Word
<1> QED BY <1>1, <1>2, <1>3, <1>4, <1>5

\* What is compared with.
IsNamed(x) == x.kind = "str" /\ x.token
IsRef(x) == x.kind = "id" /\ x # Null

LEMMA OperandIs ==
    ASSUME NEW x \in Operands
    PROVE  /\ x \in Tokens
           /\ IsRef(x) => x.path \in Paths /\ x = Id(x.path)
           /\ x.kind \in {"id", "str"}
           /\ x.kind = "str" => x.token \in BOOLEAN
           /\ \A c : x # Mark(c)
<1>1. CASE x = Null
  <2>1. <<"null">> \in Seq(Names)
    <3>1. "null" \in Names
      BY DEF Names
    <3> QED BY <3>1
  <2> QED BY <1>1, <2>1, TokensDiffer DEF Null, Word, Id, Tokens, IsRef
<1>2. CASE x \in [kind : {"id"}, path : Paths]
  <2>1. x.path \in Seq(Names)
    BY <1>2, SeqWider DEF Paths, Names
  <2>2. x = Id(x.path)
    BY <1>2 DEF Id
  <2> QED BY <1>2, <2>1, <2>2, TokensDiffer DEF Tokens, IsRef
<1>3. CASE x \in [kind : {"str"}, value : DOMAIN Spelling, token : BOOLEAN]
  <2>1. x.kind = "str" /\ x \in Tokens /\ x.token \in BOOLEAN
    BY <1>3 DEF Tokens
  <2>2. ASSUME NEW c PROVE x # Mark(c)
    <3>1. Mark(c).kind = "punct"
      BY DEF Mark
    <3> QED BY <2>1, <3>1
  <2> QED BY <2>1, <2>2 DEF IsRef
<1> QED BY <1>1, <1>2, <1>3 DEF Operands

\* By which entity the guard judges a reference.
AskedBy(entity, path) == IF Len(path) = 1 THEN entity ELSE AnyEntity

\* In an expression that is let through, what is referred to is no protected field, or
\* is one of a $filter that is compared in no way but for equality.
LEMMA Referred ==
    ASSUME NEW pii, NEW name, NEW tokens, NEW entity,
           ~ExpressionRefused(pii, name, tokens, entity),
           NEW i \in DOMAIN tokens, NEW path, tokens[i] = Id(path),
           Last(path) \notin Keywords(name),
           \A c \in {"(", ":"} : i + 1 \in DOMAIN tokens => tokens[i + 1] # Mark(c)
    PROVE  \/ ~Protects(pii, AskedBy(entity, path), Last(path))
           \/ name = "filter" /\ EqualityOnly(tokens, i)
<1>1. tokens[i].kind = "id" /\ tokens[i].path = path
  BY DEF Id
<1>2. ~At(tokens, i + 1, {"(", ":"})
  BY DEF At
<1>3. i \in Refs(tokens, Keywords(name))
  BY <1>1, <1>2 DEF Refs
<1> QED BY <1>1, <1>3 DEF ExpressionRefused, AskedBy

\* What equality looks like.
LEMMA EqualityIs ==
    ASSUME NEW tokens, NEW i \in Nat, EqualityOnly(tokens, i)
    PROVE  /\ i + 1 \in DOMAIN tokens
           /\ \/ /\ tokens[i + 1] \in {Word("eq"), Word("ne")} /\ i + 2 \in DOMAIN tokens
                 /\ IsNamed(tokens[i + 2]) \/ tokens[i + 2] = Null
              \/ tokens[i + 1] = Word("in")
<1> DEFINE op == IF i + 1 \in DOMAIN tokens THEN tokens[i + 1] ELSE Mark("end")
<1>1. \/ /\ op \in {Word("eq"), Word("ne")}
         /\ IsTokenStr(tokens, i + 2) \/ (i + 2 \in DOMAIN tokens /\ tokens[i + 2] = Null)
      \/ op = Word("in")
  BY DEF EqualityOnly
<1>2. op # Mark("end")
  BY <1>1, TokensDiffer
<1>3. i + 1 \in DOMAIN tokens /\ op = tokens[i + 1]
  BY <1>2
<1> HIDE DEF op
<1> QED BY <1>1, <1>3 DEF IsTokenStr, IsNamed

\* Of a list after "in", with or without parentheses, equality takes every element.
LEMMA EqualityOfList ==
    ASSUME NEW tokens \in Seq(Tokens), NEW i \in Nat, EqualityOnly(tokens, i),
           i + 1 \in DOMAIN tokens, tokens[i + 1] = Word("in"),
           NEW xs \in Seq(Operands), NEW b \in Nat,
           At(tokens, i + 2, {"("}) => b = i + 2, ~At(tokens, i + 2, {"("}) => b = i + 1,
           Occurs(List(xs, Mark(Comma)), tokens, b), NEW m \in 1..Len(xs)
    PROVE  IsNamed(xs[m])
<1> DEFINE IsList(last) ==
               /\ \A n \in b + 1..last : IF (n - (b + 1)) % 2 = 0 THEN IsTokenStr(tokens, n)
                                                                  ELSE At(tokens, n, {Comma})
               /\ ~At(tokens, last + 1, {Comma})
<1>1. PICK last \in b + 1..Len(tokens) : (last - (b + 1)) % 2 = 0 /\ IsList(last)
  <2> DEFINE paren == At(tokens, i + 2, {"("})
             first == IF paren THEN i + 3 ELSE i + 2
  <2>1. first = b + 1
    <3>1. CASE paren
      BY <3>1
    <3>2. CASE ~paren
      BY <3>2
    <3> QED BY <3>1, <3>2
  <2>2. ~(tokens[i + 1] \in {Word("eq"), Word("ne")})
    BY TokensDiffer
  <2>3. \E last \in first..Len(tokens) :
           /\ (last - first) % 2 = 0
           /\ \A n \in first..last : IF (n - first) % 2 = 0 THEN IsTokenStr(tokens, n)
                                                            ELSE At(tokens, n, {Comma})
           /\ ~At(tokens, last + 1, {Comma})
    BY <2>2, Zenon DEF EqualityOnly
  <2> HIDE DEF first
  <2> QED BY <2>1, <2>3
<1> DEFINE list == List(xs, Mark(Comma))
<1>2. ListIs(xs, Mark(Comma), list) /\ list \in Seq(Tokens)
  <2>1. xs \in Seq(Tokens)
    BY OperandIs, SeqWider
  <2>2. Mark(Comma) \in Tokens
    BY TokenType
  <2> QED BY <2>1, <2>2, ListAt DEF list
<1>3. Len(xs) \in Nat /\ Len(tokens) \in Nat /\ DOMAIN tokens = 1..Len(tokens) /\ xs # <<>>
  <2>1. Len(xs) # 0
    BY LenProperties
  <2> QED BY <2>1, LenProperties, NotEmpty
<1> HIDE DEF list
<1>4. /\ Len(list) = 2 * Len(xs) - 1
      /\ \A j \in 1..Len(list) : b + j \in 1..Len(tokens) /\ tokens[b + j] = list[j]
  BY <1>2, <1>3 DEF ListIs, Occurs, list
<1>5. \A l \in 1..Len(xs) : 2 * l - 1 \in 1..Len(list) /\ tokens[b + (2 * l - 1)] = xs[l]
  <2>1. \A l \in 1..Len(xs) : 2 * l - 1 \in 1..Len(list)
    BY <1>3, <1>4
  <2> QED BY <1>2, <1>4, <2>1 DEF ListIs
<1>6. \A l \in 1..Len(xs) - 1 : /\ 2 * l \in 1..Len(list) /\ b + 2 * l \in 1..Len(tokens)
                                /\ tokens[b + 2 * l] = Mark(Comma)
  <2>1. \A l \in 1..Len(xs) - 1 : 2 * l \in 1..Len(list)
    BY <1>3, <1>4
  <2> QED BY <1>2, <1>4, <2>1 DEF ListIs
<1>7. last \in Nat /\ m \in Nat
  BY <1>1, <1>3
<1>8. CASE last >= b + (2 * m - 1)
  <2> DEFINE n == b + (2 * m - 1)
  <2>1. n \in b + 1..last /\ n - (b + 1) = 2 * (m - 1)
    BY <1>3, <1>7, <1>8
  <2>2. \A d \in Nat : (2 * d) % 2 = 0
    OBVIOUS
  <2>3. (n - (b + 1)) % 2 = 0
    <3>1. m - 1 \in Nat
      OBVIOUS
    <3> HIDE DEF n
    <3> QED BY <2>1, <2>2, <3>1
  <2>4. IsTokenStr(tokens, n)
    BY <1>1, <2>1, <2>3
  <2> QED BY <1>5, <2>4 DEF IsTokenStr, IsNamed
<1>9. CASE last < b + (2 * m - 1)
  <2> DEFINE d == last - (b + 1)
             l == d \div 2
  <2>1. d \in Nat /\ d % 2 = 0
    BY <1>1
  <2> HIDE DEF d
  <2>2. l \in Nat /\ d = 2 * l
    BY <2>1
  <2> HIDE DEF l
  <2>3. last = (b + 1) + 2 * l
    BY <1>7, <2>2 DEF d
  <2>4. l + 1 \in 1..Len(xs) - 1 /\ last + 1 = b + 2 * (l + 1)
    BY <1>3, <1>7, <1>9, <2>2, <2>3
  <2>5. At(tokens, last + 1, {Comma})
    BY <1>3, <1>6, <2>4 DEF At
  <2> QED BY <1>1, <2>5
<1> QED BY <1>7, <1>8, <1>9

\* What a comparison may be followed by, and what an element of a list.
Closers == {Word("and"), Word("or"), Mark(")"), Mark(Semicolon)}
Enders == Closers \union {Mark(Comma)}

LEMMA MarksDiffer == Comma \notin {"(", ")", ":", "="} /\ Semicolon \notin {"(", ")", ":", "="}
  BY Zenon DEF Comma, Semicolon

LEMMA EndersAre ==
    ASSUME NEW x \in Enders
    PROVE  /\ x \notin {Word("eq"), Word("ne"), Word("in")}
           /\ x # Mark("(") /\ x # Mark(":")
<1>1. CASE x \in {Word("and"), Word("or")}
  BY <1>1, TokensDiffer
<1>2. CASE x \in {Mark(")"), Mark(Semicolon), Mark(Comma)}
  BY <1>2, TokensDiffer, MarksDiffer
<1> QED BY <1>1, <1>2 DEF Enders, Closers

LEMMA PathIs ==
    ASSUME NEW path \in Paths
    PROVE  /\ path \in Seq(Names) /\ Len(path) \in Nat \ {0}
           /\ Last(path) \notin Keywords("filter") /\ Last(path) \notin {"null"}
           /\ \A name : Last(path) \notin Keywords(name)
<1>1. path \in Seq(Fields) /\ path # <<>> /\ Last(path) \notin Ops \union Agg
  BY DEF Paths
<1>2. path \in Seq(Names)
  BY <1>1, SeqWider DEF Names
<1>3. Len(path) \in Nat \ {0}
  BY <1>1, EmptySeq
<1> QED BY <1>1, <1>2, <1>3 DEF Keywords, Ops

Unders == {<<>>, <<"e">>}

LEMMA UnderIs ==
    ASSUME NEW path \in Paths, NEW under \in Unders
    PROVE  /\ under \o path \in Seq(Names) /\ Last(under \o path) = Last(path)
           /\ Len(under \o path) = Len(under) + Len(path)
           /\ Path(under, path) \in Tokens /\ Path(under, path) = Id(under \o path)
           /\ Path(under, path) # Null
<1>1. path \in Seq(Names) /\ Len(path) \in Nat \ {0} /\ Last(path) # "null"
  BY PathIs
<1>2. under \in Seq(Names) /\ Len(under) \in Nat
  <2>1. CASE under = <<>>
    BY <2>1
  <2>2. CASE under = <<"e">>
    <3>1. "e" \in Names
      BY DEF Names
    <3> QED BY <2>2, <3>1
  <2> QED BY <2>1, <2>2 DEF Unders
<1>3. /\ under \o path \in Seq(Names) /\ Len(under \o path) = Len(under) + Len(path)
      /\ \A i \in 1..Len(under) + Len(path) :
            (under \o path)[i] = IF i <= Len(under) THEN under[i] ELSE path[i - Len(under)]
  BY <1>1, <1>2, ConcatProperties
<1> DEFINE whole == under \o path
<1> HIDE DEF whole
<1>4. Last(whole) = Last(path)
  <2>1. Len(whole) \in 1..Len(under) + Len(path) /\ ~(Len(whole) <= Len(under))
        /\ Len(whole) - Len(under) = Len(path)
    BY <1>1, <1>2, <1>3 DEF whole
  <2> QED BY <1>3, <2>1 DEF Last, whole
<1>5. Path(under, path) = Id(whole) /\ Path(under, path) \in Tokens
  BY <1>3, TokenType DEF Path, whole
<1>6. Id(whole) # Null
  <2>1. Last(<<"null">>) = "null"
    BY DEF Last
  <2>2. whole # <<"null">>
    BY <1>1, <1>4, <2>1
  <2> QED BY <2>2, TokensDiffer DEF Null
<1> QED BY <1>3, <1>4, <1>5, <1>6 DEF whole

LEMMA InParensIs ==
    ASSUME NEW s \in Seq(Tokens)
    PROVE  /\ InParens(s) \in Seq(Tokens) /\ Len(InParens(s)) = Len(s) + 2 /\ Len(s) \in Nat
           /\ InParens(s)[1] = Mark("(") /\ InParens(s)[Len(s) + 2] = Mark(")")
           /\ Occurs(s, InParens(s), 1)
<1> DEFINE left == <<Mark("(")>>
           right == <<Mark(")")>>
           first == left \o s
           whole == first \o right
<1>1. /\ left \in Seq(Tokens) /\ Len(left) = 1 /\ left[1] = Mark("(")
      /\ right \in Seq(Tokens) /\ Len(right) = 1 /\ right[1] = Mark(")")
  BY TokenType
<1>2. Len(s) \in Nat
  BY LenProperties
<1> HIDE DEF left, right
<1>3. /\ first \in Seq(Tokens) /\ Len(first) = 1 + Len(s)
      /\ Occurs(left, first, 0) /\ Occurs(s, first, 1)
  <2>1. /\ first \in Seq(Tokens) /\ Len(first) = Len(left) + Len(s)
        /\ Occurs(left, first, 0) /\ Occurs(s, first, Len(left))
    <3> HIDE DEF first
    <3> QED BY <1>1, OccursConcat, Zenon DEF first
  <2> HIDE DEF first
  <2> QED BY <1>1, <2>1
<1> HIDE DEF first
<1>4. /\ whole \in Seq(Tokens) /\ Len(whole) = Len(first) + 1
      /\ Occurs(first, whole, 0) /\ Occurs(right, whole, Len(first))
  <2>1. /\ whole \in Seq(Tokens) /\ Len(whole) = Len(first) + Len(right)
        /\ Occurs(first, whole, 0) /\ Occurs(right, whole, Len(first))
    <3> HIDE DEF whole
    <3> QED BY <1>1, <1>3, OccursConcat, Zenon DEF whole
  <2> HIDE DEF whole
  <2> QED BY <1>1, <2>1
<1> HIDE DEF whole
<1>5. Occurs(s, whole, 0 + 1) /\ Occurs(left, whole, 0 + 0)
  <2>1. Len(whole) \in Nat /\ Len(first) \in Nat /\ Len(left) \in Nat
    BY <1>1, <1>2, <1>3, <1>4
  <2> QED BY <1>2, <1>3, <1>4, <2>1, OccursWithin
<1>6. whole[1] = Mark("(") /\ whole[Len(s) + 2] = Mark(")")
  <2>1. whole[(0 + 0) + 1] = left[1] /\ whole[Len(first) + 1] = right[1]
    BY <1>1, <1>4, <1>5 DEF Occurs
  <2>2. (0 + 0) + 1 = 1 /\ Len(first) + 1 = Len(s) + 2
    BY <1>2, <1>3
  <2> QED BY <1>1, <2>1, <2>2
<1>7. InParens(s) = whole
  BY DEF InParens, whole, first, left, right
<1>8. Len(whole) = Len(s) + 2 /\ Occurs(s, whole, 1)
  BY <1>2, <1>3, <1>4, <1>5
<1> QED BY <1>2, <1>4, <1>6, <1>7, <1>8

\* The comparison is for equality with what tokens stand for, or with null.
ForEquality(term) ==
    \/ /\ term.form = "compare" /\ term.op \in {"eq", "ne"}
       /\ IsNamed(term.with[1]) \/ term.with[1] = Null
    \/ term.form \in {"in", "in()"} /\ \A i \in 1..Len(term.with) : IsNamed(term.with[i])

\* No protected field is asked for but by equality.
Unasked(pii, entity, path) == ~Protects(pii, AskedBy(entity, path), Last(path))
TermUnasked(pii, entity, term, under) ==
    /\ Unasked(pii, entity, under \o term.path) \/ ForEquality(term)
    /\ \A i \in 1..Len(term.with) :
          IsRef(term.with[i]) => Unasked(pii, entity, term.with[i].path)

\* What a list refers to, that stands in a $filter that is let through.
LEMMA ListUnasked ==
    ASSUME NEW pii, NEW entity, NEW tokens \in Seq(Tokens),
           ~ExpressionRefused(pii, "filter", tokens, entity),
           NEW xs \in Seq(Operands), NEW b \in Nat, Occurs(List(xs, Mark(Comma)), tokens, b),
           Followed(tokens, b + Len(List(xs, Mark(Comma))) + 1, Closers),
           NEW m \in 1..Len(xs), IsRef(xs[m])
    PROVE  Unasked(pii, entity, xs[m].path)
<1> DEFINE list == List(xs, Mark(Comma))
           n == b + (2 * m - 1)
<1>1. ListIs(xs, Mark(Comma), list) /\ list \in Seq(Tokens)
  <2>1. xs \in Seq(Tokens)
    BY OperandIs, SeqWider
  <2> QED BY <2>1, TokenType, ListAt
<1>2. Len(xs) \in Nat /\ Len(tokens) \in Nat /\ DOMAIN tokens = 1..Len(tokens) /\ xs # <<>>
  <2>1. Len(xs) # 0
    BY LenProperties
  <2> QED BY <2>1, LenProperties, NotEmpty
<1>3. xs[m].path \in Paths /\ xs[m] = Id(xs[m].path)
  BY OperandIs, ElementOfSeq
<1>4. Followed(tokens, b + Len(list) + 1, Closers) /\ Occurs(list, tokens, b)
  OBVIOUS
<1> HIDE DEF list
<1>5. /\ Len(list) = 2 * Len(xs) - 1
      /\ \A j \in 1..Len(list) : b + j \in 1..Len(tokens) /\ tokens[b + j] = list[j]
  BY <1>1, <1>2, <1>4 DEF ListIs, Occurs
<1>6. n \in DOMAIN tokens /\ tokens[n] = Id(xs[m].path)
  <2>1. 2 * m - 1 \in 1..Len(list)
    BY <1>2, <1>5
  <2> QED BY <1>1, <1>2, <1>3, <1>5, <2>1 DEF ListIs
<1>7. n + 1 \in DOMAIN tokens => tokens[n + 1] \in Enders
  <2>1. CASE m = Len(xs)
    <3>1. n + 1 = b + Len(list) + 1
      BY <1>2, <1>5, <2>1
    <3> HIDE DEF n
    <3> QED BY <1>4, <3>1 DEF Followed, Enders
  <2>2. CASE m # Len(xs)
    <3>1. m \in 1..Len(xs) - 1 /\ 2 * m \in 1..Len(list) /\ n + 1 = b + 2 * m
      BY <1>2, <1>5, <2>2
    <3> HIDE DEF n
    <3> QED BY <1>1, <1>5, <3>1 DEF ListIs, Enders
  <2> QED BY <2>1, <2>2
<1>8. n \in Nat
  BY <1>2
<1> HIDE DEF n
<1>9. ~EqualityOnly(tokens, n)
  BY <1>7, <1>8, EqualityIs, EndersAre
<1>10. \A c \in {"(", ":"} : n + 1 \in DOMAIN tokens => tokens[n + 1] # Mark(c)
  BY <1>7, EndersAre
<1>11. Last(xs[m].path) \notin Keywords("filter")
  BY <1>3, PathIs
<1> QED BY <1>6, <1>9, <1>10, <1>11, Referred DEF Unasked

\* What a term's text is made of.
ListOf(term) == List(term.with, Mark(Comma))

LEMMA ComparisonIs ==
    ASSUME NEW term \in Comparisons
    PROVE  /\ term.path \in Paths /\ term.op \in {"eq", "ne", "gt", "in"}
           /\ term.form \in {"compare", "reverse", "starts", "in", "in()"}
           /\ term.with \in Seq(Operands) /\ term.with \in Seq(Tokens)
           /\ term.form \notin {"in", "in()"} => term.op # "in" /\ Len(term.with) = 1
           /\ ListOf(term) \in Seq(Tokens) /\ ListIs(term.with, Mark(Comma), ListOf(term))
           /\ Word(term.op) \in Tokens
<1>1. /\ term.path \in Paths /\ term.op \in {"eq", "ne", "gt", "in"}
      /\ term.form \in {"compare", "reverse", "starts", "in", "in()"}
      /\ term.with \in Seq(Operands)
      /\ term.form \notin {"in", "in()"} => term.op # "in" /\ Len(term.with) = 1
  BY DEF Comparisons
<1>2. term.with \in Seq(Tokens)
  BY <1>1, OperandIs, SeqWider
<1>3. Mark(Comma) \in Tokens
  BY TokenType
<1>4. ListOf(term) \in Seq(Tokens) /\ ListIs(term.with, Mark(Comma), ListOf(term))
  BY <1>2, <1>3, ListAt DEF ListOf
<1>5. Word(term.op) \in Tokens
  <2>1. term.op \in Names
    BY <1>1 DEF Names
  <2> QED BY <2>1, TokenType
<1> QED BY <1>1, <1>2, <1>4, <1>5

LEMMA TwoTokens ==
    ASSUME NEW a \in Tokens, NEW b \in Tokens
    PROVE  <<a, b>> \in Seq(Tokens) /\ Len(<<a, b>>) = 2 /\ <<a, b>>[1] = a /\ <<a, b>>[2] = b
  OBVIOUS

\* Two tokens before the rest of a text.
LEMMA TwoBefore ==
    ASSUME NEW a \in Tokens, NEW b \in Tokens, NEW s \in Seq(Tokens)
    PROVE  /\ <<a, b>> \o s \in Seq(Tokens) /\ Len(<<a, b>> \o s) = Len(s) + 2 /\ Len(s) \in Nat
           /\ (<<a, b>> \o s)[1] = a /\ (<<a, b>> \o s)[2] = b
           /\ Occurs(s, <<a, b>> \o s, 2)
<1> DEFINE two == <<a, b>>
           whole == two \o s
<1>1. two \in Seq(Tokens) /\ Len(two) = 2 /\ two[1] = a /\ two[2] = b
  BY TwoTokens
<1> HIDE DEF two
<1>2. /\ whole \in Seq(Tokens) /\ Len(whole) = Len(two) + Len(s)
      /\ Occurs(two, whole, 0) /\ Occurs(s, whole, Len(two))
  <2> HIDE DEF whole
  <2> QED BY <1>1, OccursConcat, Zenon DEF whole
<1> HIDE DEF whole
<1>3. Len(s) \in Nat
  BY LenProperties
<1>4. whole[0 + 1] = a /\ whole[0 + 2] = b /\ 0 + 1 = 1 /\ 0 + 2 = 2
  BY <1>1, <1>2 DEF Occurs
<1>5. Len(whole) = Len(s) + 2 /\ Occurs(s, whole, 2)
  BY <1>1, <1>2, <1>3
<1> QED BY <1>2, <1>3, <1>4, <1>5 DEF whole, two

\* What stands in parentheses, wherever these stand.
LEMMA ParensWithin ==
    ASSUME NEW s \in Seq(Tokens), NEW text \in Seq(Tokens), NEW k, Occurs(InParens(s), text, k)
    PROVE  /\ text[k + 1] = Mark("(") /\ Occurs(s, text, k + 1)
           /\ k + Len(s) + 2 <= Len(text) /\ text[k + Len(s) + 2] = Mark(")")
<1> DEFINE inner == InParens(s)
<1>1. /\ inner \in Seq(Tokens) /\ Len(inner) = Len(s) + 2 /\ Len(s) \in Nat
      /\ inner[1] = Mark("(") /\ inner[Len(s) + 2] = Mark(")") /\ Occurs(s, inner, 1)
  BY InParensIs
<1> HIDE DEF inner
<1>2. Len(inner) \in Nat /\ Len(text) \in Nat /\ k \in Nat /\ Occurs(inner, text, k)
  BY <1>1, LenProperties DEF Occurs, inner
<1>3. Occurs(s, text, k + 1)
  BY <1>1, <1>2, OccursWithin
<1>4. text[k + 1] = inner[1] /\ text[k + (Len(s) + 2)] = inner[Len(s) + 2]
  BY <1>1, <1>2 DEF Occurs
<1>5. k + (Len(s) + 2) = k + Len(s) + 2
  BY <1>1, <1>2
<1> QED BY <1>1, <1>2, <1>3, <1>4, <1>5 DEF Occurs

\* The texts of the forms.
LEMMA TextOfComparison ==
    ASSUME NEW term \in Comparisons, NEW under \in Unders
    PROVE  LET text == TermText(term, under)
               n == Len(ListOf(term))
           IN  /\ text \in Seq(Tokens) /\ n \in Nat
               /\ term.form = "compare" =>
                     text = <<Path(under, term.path), Word(term.op)>> \o ListOf(term)
               /\ term.form = "in" =>
                     text = <<Path(under, term.path), Word("in")>> \o ListOf(term)
               /\ term.form = "in()" =>
                     text = <<Path(under, term.path), Word("in")>> \o InParens(ListOf(term))
               /\ term.form = "reverse" =>
                     text = ListOf(term) \o <<Word(term.op), Path(under, term.path)>>
               /\ term.form = "starts" =>
                     text = <<Word("startswith")>>
                               \o InParens(<<Path(under, term.path), Mark(Comma)>> \o ListOf(term))
<1> DEFINE path == Path(under, term.path)
           list == ListOf(term)
           text == TermText(term, under)
<1>1. /\ term.form \in {"compare", "reverse", "starts", "in", "in()"}
      /\ term.path \in Paths /\ list \in Seq(Tokens) /\ Word(term.op) \in Tokens
  BY ComparisonIs
<1>2. path \in Tokens /\ Mark(Comma) \in Tokens
  BY <1>1, UnderIs, TokenType
<1>3. Word("in") \in Tokens /\ Word("startswith") \in Tokens
  <2>1. "in" \in Names /\ "startswith" \in Names
    BY DEF Names
  <2> QED BY <2>1, TokenType
<1>4. /\ term.form = "compare" => text = <<path, Word(term.op)>> \o list
      /\ term.form = "in" => text = <<path, Word("in")>> \o list
      /\ term.form = "in()" => text = <<path, Word("in")>> \o InParens(list)
      /\ term.form = "reverse" => text = list \o <<Word(term.op), path>>
      /\ term.form = "starts" =>
            text = <<Word("startswith")>> \o InParens(<<path, Mark(Comma)>> \o list)
  BY DEF TermText, ListOf, List
<1> HIDE DEF path, list, text
<1>5. InParens(list) \in Seq(Tokens) /\ Len(list) \in Nat
  BY <1>1, InParensIs
<1>6. <<path, Mark(Comma)>> \o list \in Seq(Tokens)
  BY <1>1, <1>2, TwoBefore
<1>7. text \in Seq(Tokens)
  <2>1. CASE term.form = "compare"
    <3>1. <<path, Word(term.op)>> \o list \in Seq(Tokens)
      BY <1>1, <1>2, TwoBefore
    <3> QED BY <1>4, <2>1, <3>1, Zenon
  <2>2. CASE term.form = "in"
    <3>1. <<path, Word("in")>> \o list \in Seq(Tokens)
      BY <1>1, <1>2, <1>3, TwoBefore
    <3> QED BY <1>4, <2>2, <3>1, Zenon
  <2>3. CASE term.form = "in()"
    <3>1. <<path, Word("in")>> \o InParens(list) \in Seq(Tokens)
      BY <1>2, <1>3, <1>5, TwoBefore
    <3> QED BY <1>4, <2>3, <3>1, Zenon
  <2>4. CASE term.form = "reverse"
    <3>1. <<Word(term.op), path>> \in Seq(Tokens)
      BY <1>1, <1>2
    <3> QED BY <1>1, <1>4, <2>4, <3>1, OccursConcat, Zenon
  <2>5. CASE term.form = "starts"
    <3>1. <<Word("startswith")>> \in Seq(Tokens)
      BY <1>3
    <3>2. InParens(<<path, Mark(Comma)>> \o list) \in Seq(Tokens)
      BY <1>6, InParensIs
    <3> QED BY <1>4, <2>5, <3>1, <3>2, OccursConcat, Zenon
  <2> QED BY <1>1, <2>1, <2>2, <2>3, <2>4, <2>5
<1> QED BY <1>4, <1>5, <1>7 DEF path, list, text

\* A path in a $filter that is let through: unasked for, or compared for equality.
LEMMA PathLetThrough ==
    ASSUME NEW pii, NEW entity, NEW tokens, ~ExpressionRefused(pii, "filter", tokens, entity),
           NEW path \in Paths, NEW under \in Unders,
           NEW i \in DOMAIN tokens, tokens[i] = Path(under, path),
           i + 1 \in DOMAIN tokens => tokens[i + 1] \notin {Mark("("), Mark(":")}
    PROVE  Unasked(pii, entity, under \o path) \/ EqualityOnly(tokens, i)
<1> DEFINE whole == under \o path
<1>1. tokens[i] = Id(whole) /\ Last(whole) \notin Keywords("filter")
  BY UnderIs, PathIs
<1>2. \A c \in {"(", ":"} : i + 1 \in DOMAIN tokens => tokens[i + 1] # Mark(c)
  OBVIOUS
<1> HIDE DEF whole
<1>3. Unasked(pii, entity, whole) \/ EqualityOnly(tokens, i)
  BY <1>1, <1>2, Referred DEF Unasked
<1> QED BY <1>3 DEF whole

\* Where two tokens before the rest of a text stand.
LEMMA TwoWithin ==
    ASSUME NEW a \in Tokens, NEW b \in Tokens, NEW s \in Seq(Tokens), NEW text \in Seq(Tokens),
           NEW k, Occurs(<<a, b>> \o s, text, k)
    PROVE  /\ k \in Nat /\ k + 1 \in DOMAIN text /\ k + 2 \in DOMAIN text
           /\ text[k + 1] = a /\ text[k + 2] = b /\ Occurs(s, text, k + 2)
           /\ k + Len(<<a, b>> \o s) + 1 = (k + 2) + Len(s) + 1
<1> DEFINE whole == <<a, b>> \o s
<1>1. /\ whole \in Seq(Tokens) /\ Len(whole) = Len(s) + 2 /\ Len(s) \in Nat
      /\ whole[1] = a /\ whole[2] = b /\ Occurs(s, whole, 2)
  BY TwoBefore
<1>2. Occurs(whole, text, k)
  OBVIOUS
<1> HIDE DEF whole
<1>3. Len(whole) \in Nat /\ Len(text) \in Nat /\ k \in Nat /\ DOMAIN text = 1..Len(text)
  BY <1>1, <1>2, LenProperties DEF Occurs
<1>4. Occurs(s, text, k + 2)
  BY <1>1, <1>2, <1>3, OccursWithin
<1>5. text[k + 1] = whole[1] /\ text[k + 2] = whole[2] /\ k + 1 \in 1..Len(text) /\ k + 2 \in 1..Len(text)
  BY <1>1, <1>2, <1>3 DEF Occurs
<1>6. k + Len(whole) + 1 = (k + 2) + Len(s) + 1
  BY <1>1, <1>3
<1> QED BY <1>1, <1>3, <1>4, <1>5, <1>6 DEF whole

\* What a $filter that is let through has of a term: the path first, an operator, a list.
LEMMA ComparedLetThrough ==
    ASSUME NEW pii, NEW entity, NEW tokens \in Seq(Tokens),
           ~ExpressionRefused(pii, "filter", tokens, entity),
           NEW term \in Comparisons, NEW under \in Unders, term.form \in {"compare", "in"},
           NEW k, NEW op \in {"eq", "ne", "gt", "in"},
           term.form = "compare" => op = term.op, term.form = "in" => op = "in",
           Occurs(<<Path(under, term.path), Word(op)>> \o ListOf(term), tokens, k),
           Followed(tokens, k + Len(<<Path(under, term.path), Word(op)>> \o ListOf(term)) + 1, Closers)
    PROVE  TermUnasked(pii, entity, term, under)
<1> DEFINE path == Path(under, term.path)
           list == ListOf(term)
           xs == term.with
<1>1. /\ term.path \in Paths /\ xs \in Seq(Operands) /\ list \in Seq(Tokens)
      /\ ListIs(xs, Mark(Comma), list)
      /\ term.form = "compare" => op # "in" /\ Len(xs) = 1
  BY ComparisonIs
<1>2. path \in Tokens /\ path # Null
  BY <1>1, UnderIs
<1>3. Word(op) \in Tokens
  <2>1. op \in Names
    BY DEF Names
  <2> QED BY <2>1, TokenType
<1> HIDE DEF path, list
<1>4. /\ k \in Nat /\ k + 1 \in DOMAIN tokens /\ k + 2 \in DOMAIN tokens
      /\ tokens[k + 1] = path /\ tokens[k + 2] = Word(op) /\ Occurs(list, tokens, k + 2)
      /\ Followed(tokens, (k + 2) + Len(list) + 1, Closers)
  BY <1>1, <1>2, <1>3, TwoWithin DEF path, list
<1>5. \A i \in 1..Len(xs) : IsRef(xs[i]) => Unasked(pii, entity, xs[i].path)
  <2>1. k + 2 \in Nat
    BY <1>4
  <2> QED BY <1>1, <1>4, <2>1, ListUnasked DEF list, ListOf
<1>6. (k + 1) + 1 = k + 2 /\ (k + 1) + 2 = k + 3 /\ (k + 2) + 1 = k + 3
      /\ k + 1 \in Nat /\ k + 2 \in Nat
  BY <1>4
<1>7. Unasked(pii, entity, under \o term.path) \/ EqualityOnly(tokens, k + 1)
  <2>1. Word(op) \notin {Mark("("), Mark(":")}
    BY TokensDiffer
  <2> QED BY <1>1, <1>4, <1>6, <2>1, PathLetThrough DEF path
<1>8. ASSUME EqualityOnly(tokens, k + 1) PROVE ForEquality(term)
  <2>1. CASE term.form = "compare"
    <3>1. Word(op) # Word("in")
      BY <1>1, <2>1, TokensDiffer
    <3>2. /\ Word(op) \in {Word("eq"), Word("ne")} /\ k + 3 \in DOMAIN tokens
          /\ IsNamed(tokens[k + 3]) \/ tokens[k + 3] = Null
      BY <1>4, <1>6, <1>8, <3>1, EqualityIs
    <3>3. op \in {"eq", "ne"}
      BY <3>2, TokensDiffer
    <3>4. tokens[k + 3] = xs[1]
      <4>1. xs # <<>> /\ Len(xs) = 1
        <5>1. Len(xs) = 1
          BY <1>1, <2>1, Zenon
        <5>2. Len(xs) # 0
          BY <5>1
        <5> QED BY <1>1, <5>1, <5>2, NotEmpty
      <4>2. Len(list) = 1 /\ list[1] = xs[1]
        BY <1>1, <4>1 DEF ListIs
      <4>3. tokens[(k + 2) + 1] = list[1]
        BY <1>4, <4>2 DEF Occurs
      <4> QED BY <1>6, <4>2, <4>3
    <3> QED BY <2>1, <3>2, <3>3, <3>4 DEF ForEquality
  <2>2. CASE term.form = "in"
    <3>1. ASSUME NEW m \in 1..Len(xs) PROVE IsNamed(xs[m])
      <4>1. ~At(tokens, (k + 1) + 2, {"("})
        <5>1. xs # <<>> /\ Len(xs) \in Nat /\ Len(xs) # 0
          <6>1. Len(xs) \in Nat /\ Len(xs) # 0
            BY <1>1, LenProperties
          <6> QED BY <1>1, <6>1, NotEmpty
        <5>2. 1 \in 1..Len(list) /\ list[1] = xs[1]
          <6>1. 1 \in 1..Len(list)
            BY <1>1, <5>1 DEF ListIs
          <6>2. 1 \in 1..Len(xs) /\ 2 * 1 - 1 = 1
            BY <5>1
          <6>3. list[2 * 1 - 1] = xs[1]
            BY <1>1, <6>2 DEF ListIs
          <6> QED BY <6>1, <6>2, <6>3
        <5>3. tokens[(k + 2) + 1] = xs[1]
          BY <1>4, <5>2 DEF Occurs
        <5>4. xs[1] \in Operands
          BY <1>1, <5>1, ElementOfSeq
        <5>5. xs[1] # Mark("(")
          BY <5>4, OperandIs
        <5> QED BY <1>6, <5>3, <5>5 DEF At
      <4> DEFINE i == k + 1
                 b == k + 2
      <4>2. /\ i \in Nat /\ b \in Nat /\ EqualityOnly(tokens, i) /\ i + 1 \in DOMAIN tokens
            /\ tokens[i + 1] = Word("in") /\ ~At(tokens, i + 2, {"("}) /\ b = i + 1
            /\ Occurs(list, tokens, b)
        BY <1>4, <1>6, <1>8, <2>2, <4>1
      <4> HIDE DEF i, b
      <4> QED BY <1>1, <4>2, EqualityOfList DEF list, ListOf
    <3> QED BY <2>2, <3>1 DEF ForEquality
  <2> QED BY <2>1, <2>2
<1> QED BY <1>5, <1>7, <1>8 DEF TermUnasked

\* The path first, and the list in parentheses.
LEMMA InLetThrough ==
    ASSUME NEW pii, NEW entity, NEW tokens \in Seq(Tokens),
           ~ExpressionRefused(pii, "filter", tokens, entity),
           NEW term \in Comparisons, NEW under \in Unders, term.form = "in()", NEW k,
           Occurs(<<Path(under, term.path), Word("in")>> \o InParens(ListOf(term)), tokens, k)
    PROVE  TermUnasked(pii, entity, term, under)
<1> DEFINE path == Path(under, term.path)
           list == ListOf(term)
           xs == term.with
<1>1. term.path \in Paths /\ xs \in Seq(Operands) /\ list \in Seq(Tokens)
  BY ComparisonIs
<1>2. path \in Tokens
  BY <1>1, UnderIs
<1>3. Word("in") \in Tokens
  <2>1. "in" \in Names
    BY DEF Names
  <2> QED BY <2>1, TokenType
<1> HIDE DEF path, list
<1>4. InParens(list) \in Seq(Tokens) /\ Len(list) \in Nat
  BY <1>1, InParensIs
<1>5. /\ k \in Nat /\ k + 1 \in DOMAIN tokens /\ k + 2 \in DOMAIN tokens
      /\ tokens[k + 1] = path /\ tokens[k + 2] = Word("in") /\ Occurs(InParens(list), tokens, k + 2)
  BY <1>2, <1>3, <1>4, TwoWithin DEF path, list
<1> DEFINE b == (k + 2) + 1
           i == k + 1
<1>6. /\ tokens[b] = Mark("(") /\ Occurs(list, tokens, b)
      /\ (k + 2) + Len(list) + 2 <= Len(tokens) /\ tokens[(k + 2) + Len(list) + 2] = Mark(")")
  BY <1>1, <1>5, ParensWithin
<1>7. /\ b \in Nat /\ i \in Nat /\ i + 1 = k + 2 /\ b = i + 2 /\ b \in DOMAIN tokens
      /\ (k + 2) + Len(list) + 2 = b + Len(list) + 1
  <2>1. Len(tokens) \in Nat /\ DOMAIN tokens = 1..Len(tokens)
    BY LenProperties
  <2> QED BY <1>4, <1>5, <1>6, <2>1
<1>8. /\ i \in DOMAIN tokens /\ tokens[i] = path /\ i + 1 \in DOMAIN tokens
      /\ tokens[i + 1] = Word("in") /\ At(tokens, i + 2, {"("})
      /\ tokens[b + Len(list) + 1] = Mark(")")
  BY <1>5, <1>6, <1>7 DEF At
<1> HIDE DEF i, b
<1>9. \A m \in 1..Len(xs) : IsRef(xs[m]) => Unasked(pii, entity, xs[m].path)
  <2>1. Followed(tokens, b + Len(list) + 1, Closers)
    BY <1>8 DEF Followed, Closers
  <2> QED BY <1>1, <1>6, <1>7, <2>1, ListUnasked DEF list, ListOf
<1>10. Unasked(pii, entity, under \o term.path) \/ EqualityOnly(tokens, i)
  <2>1. Word("in") \notin {Mark("("), Mark(":")}
    BY TokensDiffer
  <2> QED BY <1>1, <1>8, <2>1, PathLetThrough DEF path
<1>11. EqualityOnly(tokens, i) => ForEquality(term)
  <2>1. ASSUME EqualityOnly(tokens, i), NEW m \in 1..Len(xs) PROVE IsNamed(xs[m])
    BY <1>1, <1>6, <1>7, <1>8, <2>1, EqualityOfList DEF list, ListOf
  <2> QED BY <2>1 DEF ForEquality
<1> QED BY <1>9, <1>10, <1>11 DEF TermUnasked

\* What it is compared with first, and the path last.
LEMMA ReverseLetThrough ==
    ASSUME NEW pii, NEW entity, NEW tokens \in Seq(Tokens),
           ~ExpressionRefused(pii, "filter", tokens, entity),
           NEW term \in Comparisons, NEW under \in Unders, term.form = "reverse", NEW k,
           Occurs(ListOf(term) \o <<Word(term.op), Path(under, term.path)>>, tokens, k),
           Followed(tokens, k + Len(ListOf(term) \o <<Word(term.op), Path(under, term.path)>>) + 1,
                    Closers)
    PROVE  TermUnasked(pii, entity, term, under)
<1> DEFINE path == Path(under, term.path)
           list == ListOf(term)
           two == <<Word(term.op), path>>
           whole == list \o two
           xs == term.with
           x == xs[1]
<1>1. /\ term.path \in Paths /\ xs \in Seq(Operands) /\ list \in Seq(Tokens)
      /\ ListIs(xs, Mark(Comma), list) /\ Len(xs) = 1 /\ Word(term.op) \in Tokens
      /\ term.op # "in"
  BY ComparisonIs
<1>2. path \in Tokens /\ path # Null /\ path.kind = "id"
  BY <1>1, UnderIs DEF Id
<1>3. Len(list) = 1 /\ list[1] = x /\ x \in Operands
  <2>1. xs # <<>>
    <3>1. Len(xs) # 0
      BY <1>1
    <3> QED BY <1>1, <3>1, NotEmpty
  <2>2. Len(list) = 2 * Len(xs) - 1 /\ \A i \in 1..Len(xs) : list[2 * i - 1] = xs[i]
    BY <1>1, <2>1 DEF ListIs
  <2>3. list[2 * 1 - 1] = xs[1] /\ 2 * 1 - 1 = 1
    BY <1>1, <2>2
  <2> QED BY <1>1, <2>2, <2>3, ElementOfSeq
<1>4. Followed(tokens, k + Len(whole) + 1, Closers) /\ Occurs(whole, tokens, k)
  OBVIOUS
<1> HIDE DEF path, list
<1>5. two \in Seq(Tokens) /\ Len(two) = 2 /\ two[1] = Word(term.op) /\ two[2] = path
  BY <1>1, <1>2, TwoTokens
<1> HIDE DEF two
<1>6. /\ whole \in Seq(Tokens) /\ Len(whole) = Len(list) + Len(two)
      /\ Occurs(list, whole, 0) /\ Occurs(two, whole, Len(list))
  <2> HIDE DEF whole
  <2> QED BY <1>1, <1>5, OccursConcat, Zenon DEF whole
<1> HIDE DEF whole
<1>7. /\ whole[1] = x /\ whole[2] = Word(term.op) /\ whole[3] = path /\ Len(whole) = 3
  <2>1. whole[0 + 1] = list[1] /\ whole[1 + 1] = two[1] /\ whole[1 + 2] = two[2]
    BY <1>3, <1>5, <1>6 DEF Occurs
  <2> QED BY <1>3, <1>5, <1>6, <2>1
<1>8. k \in Nat /\ Len(tokens) \in Nat /\ DOMAIN tokens = 1..Len(tokens)
  BY <1>4, LenProperties DEF Occurs
<1>9. /\ k + 1 \in DOMAIN tokens /\ tokens[k + 1] = x
      /\ k + 2 \in DOMAIN tokens /\ tokens[k + 2] = Word(term.op)
      /\ k + 3 \in DOMAIN tokens /\ tokens[k + 3] = path
      /\ Followed(tokens, k + 4, Closers)
  <2>1. k + Len(whole) + 1 = k + 4
    BY <1>7, <1>8
  <2> QED BY <1>4, <1>7, <1>8, <2>1 DEF Occurs
<1>10. Unasked(pii, entity, under \o term.path)
  <2> DEFINE i == k + 3
  <2>1. i \in Nat /\ i + 1 = k + 4
    BY <1>8
  <2>2. i \in DOMAIN tokens /\ tokens[i] = path /\ (i + 1 \in DOMAIN tokens => tokens[i + 1] \in Enders)
    BY <1>9, <2>1 DEF Followed, Enders
  <2> HIDE DEF i
  <2>3. ~EqualityOnly(tokens, i)
    BY <2>1, <2>2, EqualityIs, EndersAre
  <2>4. i + 1 \in DOMAIN tokens => tokens[i + 1] \notin {Mark("("), Mark(":")}
    BY <2>2, EndersAre
  <2> QED BY <1>1, <2>2, <2>3, <2>4, PathLetThrough DEF path
<1>11. ASSUME IsRef(x) PROVE Unasked(pii, entity, x.path)
  <2> DEFINE i == k + 1
  <2>1. i \in Nat /\ i + 1 = k + 2 /\ i + 2 = k + 3
    BY <1>8
  <2>2. /\ i \in DOMAIN tokens /\ tokens[i] = x /\ tokens[i + 1] = Word(term.op)
        /\ tokens[i + 2] = path
    BY <1>9, <2>1
  <2> HIDE DEF i
  <2>3. x.path \in Paths /\ x = Id(x.path)
    BY <1>3, <1>11, OperandIs
  <2>4. ~EqualityOnly(tokens, i)
    <3>1. Word(term.op) # Word("in")
      BY <1>1, TokensDiffer
    <3>2. ~IsNamed(path)
      BY <1>2 DEF IsNamed
    <3> QED BY <1>2, <2>1, <2>2, <3>1, <3>2, EqualityIs
  <2>5. \A c \in {"(", ":"} : i + 1 \in DOMAIN tokens => tokens[i + 1] # Mark(c)
    BY <2>2, TokensDiffer
  <2>6. Last(x.path) \notin Keywords("filter")
    BY <2>3, PathIs
  <2> HIDE DEF x
  <2> QED BY <2>2, <2>3, <2>4, <2>5, <2>6, Referred DEF Unasked
<1>12. \A i \in 1..Len(xs) : IsRef(xs[i]) => Unasked(pii, entity, xs[i].path)
  <2>1. \A i \in 1..Len(xs) : i = 1
    BY <1>1
  <2> QED BY <1>11, <2>1
<1> QED BY <1>10, <1>12 DEF TermUnasked

\* A function of the path and a list.
LEMMA StartsLetThrough ==
    ASSUME NEW pii, NEW entity, NEW tokens \in Seq(Tokens),
           ~ExpressionRefused(pii, "filter", tokens, entity),
           NEW term \in Comparisons, NEW under \in Unders, NEW k,
           Occurs(<<Word("startswith")>> \o InParens(<<Path(under, term.path), Mark(Comma)>> \o ListOf(term)),
                  tokens, k)
    PROVE  TermUnasked(pii, entity, term, under)
<1> DEFINE path == Path(under, term.path)
           list == ListOf(term)
           inner == <<path, Mark(Comma)>> \o list
           name == <<Word("startswith")>>
           parens == InParens(inner)
           whole == name \o parens
           xs == term.with
<1>1. term.path \in Paths /\ xs \in Seq(Operands) /\ list \in Seq(Tokens)
  BY ComparisonIs
<1>2. path \in Tokens /\ Mark(Comma) \in Tokens
  BY <1>1, UnderIs, TokenType
<1>3. name \in Seq(Tokens) /\ Len(name) = 1
  <2>1. "startswith" \in Names
    BY DEF Names
  <2>2. Word("startswith") \in Tokens
    BY <2>1, TokenType
  <2> QED BY <2>2
<1>4. Occurs(whole, tokens, k)
  OBVIOUS
<1> HIDE DEF path, list, name
<1>5. inner \in Seq(Tokens) /\ Len(inner) = Len(list) + 2 /\ Len(list) \in Nat
  BY <1>1, <1>2, TwoBefore
<1> HIDE DEF inner
<1>6. parens \in Seq(Tokens) /\ Len(parens) = Len(inner) + 2
  BY <1>5, InParensIs
<1> HIDE DEF parens
<1>7. whole \in Seq(Tokens) /\ Occurs(parens, whole, 1) /\ Len(whole) = 1 + Len(parens)
  <2>1. /\ whole \in Seq(Tokens) /\ Occurs(parens, whole, Len(name))
        /\ Len(whole) = Len(name) + Len(parens)
    <3> HIDE DEF whole
    <3> QED BY <1>3, <1>6, OccursConcat, Zenon DEF whole
  <2> HIDE DEF whole
  <2> QED BY <1>3, <2>1
<1> HIDE DEF whole
<1>8. k \in Nat /\ Len(tokens) \in Nat /\ DOMAIN tokens = 1..Len(tokens)
  BY <1>4, LenProperties DEF Occurs
<1> DEFINE c == k + 1
<1>9. Occurs(parens, tokens, c) /\ c \in Nat
  <2>1. Len(parens) \in Nat /\ Len(whole) \in Nat
    BY <1>5, <1>6, <1>7
  <2> QED BY <1>4, <1>7, <1>8, <2>1, OccursWithin
<1> HIDE DEF c
<1>10. /\ Occurs(inner, tokens, c + 1) /\ c + Len(inner) + 2 <= Len(tokens)
       /\ tokens[c + Len(inner) + 2] = Mark(")")
  BY <1>5, <1>9, ParensWithin DEF parens
<1> DEFINE d == c + 1
           i == d + 1
           b == d + 2
<1>11. /\ d \in Nat /\ i \in Nat /\ b \in Nat /\ b = i + 1
       /\ c + Len(inner) + 2 = b + Len(list) + 1
  BY <1>5, <1>9
<1>12. /\ i \in DOMAIN tokens /\ tokens[i] = path /\ tokens[i + 1] = Mark(Comma)
       /\ Occurs(list, tokens, b)
  <2>1. Occurs(<<path, Mark(Comma)>> \o list, tokens, d)
    BY <1>10 DEF inner
  <2> HIDE DEF d
  <2> QED BY <1>1, <1>2, <1>11, <2>1, TwoWithin
<1>13. Followed(tokens, b + Len(list) + 1, Closers)
  BY <1>10, <1>11 DEF Followed, Closers
<1> HIDE DEF i, b
<1>14. \A m \in 1..Len(xs) : IsRef(xs[m]) => Unasked(pii, entity, xs[m].path)
  BY <1>1, <1>11, <1>12, <1>13, ListUnasked DEF list, ListOf
<1>15. Mark(Comma) \in Enders
  BY DEF Enders
<1>16. ~EqualityOnly(tokens, i)
  BY <1>11, <1>12, <1>15, EqualityIs, EndersAre
<1>17. Mark(Comma) \notin {Mark("("), Mark(":")}
  BY <1>15, EndersAre
<1>18. Unasked(pii, entity, under \o term.path)
  BY <1>1, <1>12, <1>16, <1>17, PathLetThrough DEF path
<1> QED BY <1>14, <1>18 DEF TermUnasked

\* Whatever its form: a term of a $filter that is let through asks for no protected field
\* but by equality.
LEMMA TermLetThrough ==
    ASSUME NEW pii, NEW entity, NEW tokens \in Seq(Tokens),
           ~ExpressionRefused(pii, "filter", tokens, entity),
           NEW term \in Comparisons, NEW under \in Unders, NEW k,
           Occurs(TermText(term, under), tokens, k),
           Followed(tokens, k + Len(TermText(term, under)) + 1, Closers)
    PROVE  TermUnasked(pii, entity, term, under)
<1>1. /\ term.form \in {"compare", "reverse", "starts", "in", "in()"}
      /\ term.op \in {"eq", "ne", "gt", "in"}
  BY ComparisonIs
<1>2. CASE term.form = "compare"
  <2>1. TermText(term, under) = <<Path(under, term.path), Word(term.op)>> \o ListOf(term)
    BY <1>2, TextOfComparison
  <2> QED BY <1>1, <1>2, <2>1, ComparedLetThrough
<1>3. CASE term.form = "in"
  <2>1. TermText(term, under) = <<Path(under, term.path), Word("in")>> \o ListOf(term)
    BY <1>3, TextOfComparison
  <2> QED BY <1>3, <2>1, ComparedLetThrough
<1>4. CASE term.form = "in()"
  <2>1. TermText(term, under) = <<Path(under, term.path), Word("in")>> \o InParens(ListOf(term))
    BY <1>4, TextOfComparison
  <2> QED BY <1>4, <2>1, InLetThrough
<1>5. CASE term.form = "reverse"
  <2>1. TermText(term, under) = ListOf(term) \o <<Word(term.op), Path(under, term.path)>>
    BY <1>5, TextOfComparison
  <2> QED BY <1>5, <2>1, ReverseLetThrough
<1>6. CASE term.form = "starts"
  <2>1. TermText(term, under) = <<Word("startswith")>>
           \o InParens(<<Path(under, term.path), Mark(Comma)>> \o ListOf(term))
    BY <1>6, TextOfComparison
  <2> QED BY <2>1, StartsLetThrough
<1> QED BY <1>1, <1>2, <1>3, <1>4, <1>5, <1>6

-----------------------------------------------------------------------------
(* What a query that is let through can tell *)

\* The guard judges by e the paths that are read at a place, under a lambda's variable or not.
Fits(e, entity, at, under) ==
    \/ at = <<>> /\ under = <<>> /\ e = entity
    \/ at # <<>> /\ (under # <<>> \/ e = AnyEntity)

Ats == Seq({"nav"})

LEMMA ValueKept ==
    ASSUME NEW pii, NEW entity, NEW row, NEW v, NEW w, Asking(pii, entity, row, v, w),
           NEW at \in Ats, NEW path \in Paths, NEW under \in Unders, NEW e,
           Fits(e, entity, at, under)
    PROVE  LET before == ValueAt(row, at, path)
               after == ValueAt(Other(pii, entity, row, v, w), at, path)
           IN  before = after \/ (before = v /\ after = w /\ ~Unasked(pii, e, under \o path))
<1> DEFINE whole == under \o path
           asked == IF at = <<>> /\ Len(path) = 1 THEN entity ELSE AnyEntity
           before == ValueAt(row, at, path)
           after == ValueAt(Other(pii, entity, row, v, w), at, path)
<1>1. at \in Seq({"nav"})
  BY DEF Ats
<1>2. Last(whole) = Last(path) /\ Len(whole) = Len(under) + Len(path) /\ Len(path) \in Nat \ {0}
  BY UnderIs, PathIs
<1>3. AskedBy(e, whole) = asked
  <2>1. CASE under = <<>>
    <3>1. Len(under) = 0
      BY <2>1
    <3>2. Len(whole) = Len(path)
      BY <1>2, <3>1
    <3> HIDE DEF whole
    <3> QED BY <2>1, <3>2 DEF Fits, AskedBy
  <2>2. CASE under = <<"e">>
    <3>1. Len(under) = 1 /\ under # <<>>
      BY <2>2
    <3>2. Len(whole) # 1
      BY <1>2, <3>1
    <3> HIDE DEF whole
    <3> QED BY <3>1, <3>2 DEF Fits, AskedBy
  <2> QED BY <2>1, <2>2 DEF Unders
<1>4. before = after \/ (before = v /\ after = w /\ Protects(pii, asked, Last(path)))
  <2> HIDE DEF Ats
  <2> QED BY <1>1, ValueExchanged
<1> HIDE DEF whole, asked, before, after
<1>5. before = after \/ (before = v /\ after = w /\ ~Unasked(pii, e, whole))
  BY <1>2, <1>3, <1>4 DEF Unasked
<1> QED BY <1>5 DEF whole, before, after

\* Of what is not asked for nothing changes.
LEMMA UnaskedKept ==
    ASSUME NEW pii, NEW entity, NEW row, NEW v, NEW w, Asking(pii, entity, row, v, w),
           NEW at \in Ats, NEW e, Fits(e, entity, at, <<>>), NEW path \in Paths,
           Unasked(pii, e, path)
    PROVE  ValueAt(row, at, path) = ValueAt(Other(pii, entity, row, v, w), at, path)
<1>1. ASSUME NEW under \in Unders, Fits(e, entity, at, under)
      PROVE  \/ ValueAt(row, at, path) = ValueAt(Other(pii, entity, row, v, w), at, path)
             \/ /\ ValueAt(row, at, path) = v
                /\ ValueAt(Other(pii, entity, row, v, w), at, path) = w
                /\ ~Unasked(pii, e, under \o path)
  BY <1>1, ValueKept
<1>2. PICK under \in Unders : under = <<>> /\ Fits(e, entity, at, under)
  BY DEF Unders
<1>3. under \o path = path
  BY <1>2, ConcatEmptySeq DEF Paths
<1> QED BY <1>1, <1>2, <1>3

LEMMA OtherPlaces ==
    ASSUME NEW pii, NEW entity, NEW row, NEW v, NEW w, Asking(pii, entity, row, v, w)
    PROVE  Places(Other(pii, entity, row, v, w)) = Places(row)
<1> DEFINE P == Places(row)
           out == Visit(pii, row, entity, FALSE, TRUE)
<1>1. row \in Records(P)
  BY DEF Asking, IsRow
<1> HIDE DEF P, out
<1>2. Places(Exchanged(row, out, v, w)) = P
  BY <1>1, ExchangedPlaces
<1> QED BY <1>2 DEF Other, P, out

\* What is compared with stays the same.
LEMMA OperandKept ==
    ASSUME NEW pii, NEW entity, NEW row, NEW v, NEW w, Asking(pii, entity, row, v, w),
           NEW at \in Ats, NEW e, Fits(e, entity, at, <<>>), NEW x \in Operands,
           IsRef(x) => Unasked(pii, e, x.path)
    PROVE  OperandAt(row, at, x) = OperandAt(Other(pii, entity, row, v, w), at, x)
<1>1. CASE x = Null
  BY <1>1 DEF OperandAt
<1>2. CASE x.kind = "id" /\ x # Null
  <2>1. x.path \in Paths /\ Unasked(pii, e, x.path)
    BY <1>2, OperandIs DEF IsRef
  <2>2. ValueAt(row, at, x.path) = ValueAt(Other(pii, entity, row, v, w), at, x.path)
    <3> DEFINE path == x.path
    <3>1. path \in Paths /\ Unasked(pii, e, path)
      BY <2>1
    <3> HIDE DEF path
    <3>2. ValueAt(row, at, path) = ValueAt(Other(pii, entity, row, v, w), at, path)
      BY <3>1, UnaskedKept
    <3> QED BY <3>2 DEF path
  <2> QED BY <1>2, <2>2 DEF OperandAt
<1>3. CASE x.kind # "id" /\ x # Null
  BY <1>3 DEF OperandAt
<1> QED BY <1>1, <1>2, <1>3

\* A term does not name either value.
Spared(term, v, w) ==
    \A i \in 1..Len(term.with) : IsNamed(term.with[i]) => term.with[i].value \notin {v, w}

\* A term tells nothing of the one value or the other.
LEMMA TermKept ==
    ASSUME NEW pii, NEW entity, NEW row, NEW v, NEW w, Asking(pii, entity, row, v, w),
           Nothing \notin DOMAIN Spelling,
           NEW at \in Ats, NEW it \in Ats, NEW under \in Unders, NEW e,
           Fits(e, entity, at, under), Fits(e, entity, it, <<>>),
           NEW term \in Comparisons, TermUnasked(pii, e, term, under), Spared(term, v, w)
    PROVE  TermHolds(term, row, at, it) <=> TermHolds(term, Other(pii, entity, row, v, w), at, it)
<1> DEFINE new == Other(pii, entity, row, v, w)
           xs == term.with
           n == Len(xs)
           before == ValueAt(row, at, term.path)
           after == ValueAt(new, at, term.path)
           With(r) == [i \in DOMAIN xs |-> OperandAt(r, it, xs[i])]
<1>1. /\ term.path \in Paths /\ xs \in Seq(Operands)
      /\ term.form \in {"compare", "reverse", "starts", "in", "in()"}
      /\ term.form \notin {"in", "in()"} => Len(xs) = 1
  BY ComparisonIs
<1>2. n \in Nat /\ DOMAIN xs = 1..n /\ \A i \in 1..n : xs[i] \in Operands
  BY <1>1, LenProperties, ElementOfSeq
<1>3. With(row) = With(new)
  <2>1. \A i \in 1..n : OperandAt(row, it, xs[i]) = OperandAt(new, it, xs[i])
    BY <1>2, OperandKept DEF TermUnasked
  <2> HIDE DEF new, xs, n
  <2> QED BY <1>2, <2>1
<1>4. before = after \/ (before = v /\ after = w /\ ForEquality(term))
  <2>1. before = after \/ (before = v /\ after = w /\ ~Unasked(pii, e, under \o term.path))
    BY <1>1, ValueKept
  <2> HIDE DEF before, after
  <2> QED BY <2>1 DEF TermUnasked
<1> DEFINE Holds(value, with) ==
        CASE term.form \in {"in", "in()"} -> \E i \in DOMAIN with : with[i] = value
          [] term.form = "starts" ->
               /\ value # Nothing /\ with[1] # Nothing
               /\ IsPrefix(Spelling[with[1]], Spelling[value])
          [] term.form = "compare" -> Compares(term.op, value, with[1])
          [] term.form = "reverse" -> Compares(term.op, with[1], value)
<1>5. /\ TermHolds(term, row, at, it) = Holds(before, With(row))
      /\ TermHolds(term, new, at, it) = Holds(after, With(new))
  BY DEF TermHolds
<1>6. CASE before = after
  <2> HIDE DEF before, after, With, Holds, new
  <2> QED BY <1>3, <1>5, <1>6 DEF new
<1>7. CASE before = v /\ after = w /\ ForEquality(term)
  <2>1. v # Nothing /\ w # Nothing
    BY DEF Asking
  <2>2. ASSUME NEW i \in 1..n, IsNamed(xs[i]) PROVE With(row)[i] \notin {v, w}
    <3>1. xs[i] # Null
      BY <2>2 DEF IsNamed, Null, Word, Id
    <3>2. OperandAt(row, it, xs[i]) = xs[i].value
      BY <2>2, <3>1 DEF OperandAt, IsNamed
    <3>3. xs[i].value \notin {v, w}
      BY <2>2 DEF Spared
    <3> HIDE DEF xs, n
    <3> QED BY <1>2, <2>2, <3>2, <3>3
  <2>3. ASSUME NEW i \in 1..n, xs[i] = Null PROVE With(row)[i] \notin {v, w}
    <3>1. OperandAt(row, it, xs[i]) = Nothing
      BY <2>3 DEF OperandAt
    <3> HIDE DEF xs, n
    <3> QED BY <1>2, <2>1, <2>3, <3>1
  <2>4. DOMAIN With(row) = 1..n
    BY <1>2
  <2> HIDE DEF before, after, With, new
  <2>5. CASE term.form \in {"in", "in()"}
    <3>1. \A i \in 1..n : With(row)[i] \notin {v, w}
      <4>1. \A i \in 1..n : IsNamed(xs[i])
        BY <1>7, <2>5, Zenon DEF ForEquality
      <4> HIDE DEF n, xs
      <4> QED BY <2>2, <4>1
    <3>2. ~Holds(v, With(row)) /\ ~Holds(w, With(row))
      <4> HIDE DEF n, xs
      <4> QED BY <2>4, <2>5, <3>1
    <3> HIDE DEF Holds
    <3> QED BY <1>3, <1>5, <1>7, <3>2 DEF new
  <2>6. CASE term.form \notin {"in", "in()"}
    <3>1. /\ term.form = "compare" /\ term.op \in {"eq", "ne"}
          /\ IsNamed(xs[1]) \/ xs[1] = Null
      BY <1>7, <2>6 DEF ForEquality
    <3>2. 1 \in 1..n
      <4>1. n = 1
        BY <1>1, <2>6, Zenon
      <4> HIDE DEF n
      <4> QED BY <4>1
    <3> HIDE DEF xs, n
    <3>3. With(row)[1] \notin {v, w}
      <4>1. CASE IsNamed(xs[1])
        BY <2>2, <3>2, <4>1, Zenon
      <4>2. CASE xs[1] = Null
        BY <2>3, <3>2, <4>2, Zenon
      <4> QED BY <3>1, <4>1, <4>2, Zenon
    <3>4. \A value, with : Holds(value, with) = Compares(term.op, value, with[1])
      BY <3>1
    <3>5. Compares(term.op, v, With(row)[1]) <=> Compares(term.op, w, With(row)[1])
      <4>1. CASE term.op = "eq"
        BY <3>3, <4>1 DEF Compares
      <4>2. CASE term.op = "ne"
        BY <3>3, <4>2 DEF Compares
      <4> QED BY <3>1, <4>1, <4>2
    <3> HIDE DEF Holds
    <3> QED BY <1>3, <1>5, <1>7, <3>4, <3>5 DEF new
  <2> QED BY <2>5, <2>6
<1> QED BY <1>4, <1>6, <1>7

-----------------------------------------------------------------------------
(* Texts whose parentheses match and that hold no ";": where the guard takes a  *)
(* nested option to stop is where it does stop.                                  *)

Deeper(a, h) == IF a = Mark("(") THEN h + 1 ELSE IF a = Mark(")") THEN h - 1 ELSE h
Depths(d, text) ==
    /\ d[0] = 0 /\ d[Len(text)] = 0
    /\ \A j \in 1..Len(text) : text[j] # Mark(Semicolon) /\ d[j] = Deeper(text[j], d[j - 1])
Texts == {text \in Seq(Tokens) : \E d \in Runs(Len(text), Nat) : Depths(d, text)}
Plain == {a \in Tokens : a \notin {Mark("("), Mark(")"), Mark(Semicolon)}}

LEMMA TextEmpty == <<>> \in Texts
<1>1. [i \in 0..0 |-> 0] \in [0..0 -> Nat]
  OBVIOUS
<1>2. <<>> \in Seq(Tokens) /\ Len(<<>>) = 0
  OBVIOUS
<1>3. Depths([i \in 0..0 |-> 0], <<>>)
  BY DEF Depths
<1> QED BY <1>1, <1>2, <1>3 DEF Texts, Runs

LEMMA TextPlain ==
    ASSUME NEW s \in Seq(Plain)
    PROVE  s \in Texts
<1> DEFINE d == [i \in 0..Len(s) |-> 0]
<1>1. Len(s) \in Nat /\ \A j \in 1..Len(s) : s[j] \in Plain
  BY LenProperties, ElementOfSeq
<1>2. s \in Seq(Tokens)
  <2>1. Plain \subseteq Tokens
    BY DEF Plain
  <2> QED BY <2>1, SeqWider
<1>3. d \in [0..Len(s) -> Nat] /\ \A j \in 0..Len(s) : d[j] = 0
  OBVIOUS
<1> HIDE DEF d
<1>4. Depths(d, s)
  <2>1. 0 \in 0..Len(s) /\ Len(s) \in 0..Len(s)
        /\ \A j \in 1..Len(s) : j \in 0..Len(s) /\ j - 1 \in 0..Len(s)
    BY <1>1
  <2> QED BY <1>1, <1>3, <2>1 DEF Depths, Deeper, Plain
<1> QED BY <1>2, <1>3, <1>4 DEF Texts, Runs

LEMMA TextConcat ==
    ASSUME NEW s \in Texts, NEW t \in Texts
    PROVE  s \o t \in Texts
<1> DEFINE whole == s \o t
           m == Len(s)
           n == Len(t)
<1>1. s \in Seq(Tokens) /\ t \in Seq(Tokens) /\ m \in Nat /\ n \in Nat
  BY LenProperties DEF Texts
<1>2. PICK c \in [0..m -> Nat] : Depths(c, s)
  BY DEF Texts, Runs
<1>3. PICK d \in [0..n -> Nat] : Depths(d, t)
  BY DEF Texts, Runs
<1>4. /\ whole \in Seq(Tokens) /\ Len(whole) = m + n
      /\ Occurs(s, whole, 0) /\ Occurs(t, whole, m)
  <2> HIDE DEF whole
  <2> QED BY <1>1, OccursConcat, Zenon DEF whole
<1> HIDE DEF whole
<1> DEFINE e == [j \in 0..m + n |-> IF j <= m THEN c[j] ELSE d[j - m]]
<1>5. e \in [0..m + n -> Nat]
  <2> HIDE DEF m, n
  <2>1. ASSUME NEW j \in 0..m + n PROVE (IF j <= m THEN c[j] ELSE d[j - m]) \in Nat
    <3>1. j <= m => j \in 0..m
      BY <1>1
    <3>2. ~(j <= m) => j - m \in 0..n
      BY <1>1
    <3> QED BY <3>1, <3>2
  <2> QED BY <2>1
<1>6. \A j \in 0..m : e[j] = c[j]
  <2> HIDE DEF m, n
  <2> QED BY <1>1
<1>7. \A j \in 0..n : e[m + j] = d[j]
  <2> HIDE DEF m, n
  <2> SUFFICES ASSUME NEW j \in 0..n PROVE e[m + j] = d[j]
    OBVIOUS
  <2>1. CASE j = 0
    <3>1. c[m] = 0 /\ d[0] = 0
      BY <1>2, <1>3 DEF Depths, m
    <3>2. m + 0 = m /\ m \in 0..m + n
      BY <1>1
    <3> HIDE DEF m, n
    <3> QED BY <2>1, <3>1, <3>2
  <2>2. CASE j # 0
    <3>1. ~(m + j <= m) /\ m + j \in 0..m + n /\ (m + j) - m = j
      BY <1>1, <2>2
    <3> QED BY <3>1
  <2> QED BY <2>1, <2>2
<1> HIDE DEF e
<1>8. e[0] = 0 /\ e[m + n] = 0
  <2>1. c[0] = 0 /\ d[n] = 0
    BY <1>2, <1>3 DEF Depths
  <2>2. 0 \in 0..m /\ n \in 0..n
    BY <1>1
  <2> QED BY <1>6, <1>7, <2>1, <2>2
<1>9. ASSUME NEW j \in 1..m + n
      PROVE  whole[j] # Mark(Semicolon) /\ e[j] = Deeper(whole[j], e[j - 1])
  <2>1. CASE j <= m
    <3>1. j \in 1..m /\ j \in 0..m /\ j - 1 \in 0..m /\ 0 + j = j
      BY <1>1, <2>1
    <3>2. s[j] # Mark(Semicolon) /\ c[j] = Deeper(s[j], c[j - 1])
      BY <1>2, <3>1 DEF Depths
    <3>3. whole[j] = s[j]
      BY <1>4, <3>1 DEF Occurs
    <3> QED BY <1>6, <3>1, <3>2, <3>3
  <2>2. CASE ~(j <= m)
    <3> DEFINE i == j - m
    <3>1. i \in 1..n /\ i \in 0..n /\ i - 1 \in 0..n /\ m + i = j /\ m + (i - 1) = j - 1
      BY <1>1, <2>2
    <3> HIDE DEF i
    <3>2. t[i] # Mark(Semicolon) /\ d[i] = Deeper(t[i], d[i - 1])
      BY <1>3, <3>1 DEF Depths
    <3>3. whole[j] = t[i]
      BY <1>4, <3>1 DEF Occurs
    <3> QED BY <1>7, <3>1, <3>2, <3>3
  <2> QED BY <2>1, <2>2
<1>10. Depths(e, whole)
  BY <1>4, <1>8, <1>9 DEF Depths
<1>11. whole \in Texts
  BY <1>4, <1>5, <1>10 DEF Texts, Runs
<1> QED BY <1>11 DEF whole

LEMMA TextInParens ==
    ASSUME NEW s \in Texts
    PROVE  InParens(s) \in Texts
<1> DEFINE whole == InParens(s)
           n == Len(s)
<1>1. s \in Seq(Tokens) /\ n \in Nat
  BY LenProperties DEF Texts
<1>2. PICK d \in [0..n -> Nat] : Depths(d, s)
  BY DEF Texts, Runs
<1>3. /\ whole \in Seq(Tokens) /\ Len(whole) = n + 2 /\ whole[1] = Mark("(")
      /\ whole[n + 2] = Mark(")") /\ Occurs(s, whole, 1)
  BY <1>1, InParensIs
<1> HIDE DEF whole
<1>4. d[0] = 0 /\ d[n] = 0
      /\ \A j \in 1..n : s[j] # Mark(Semicolon) /\ d[j] = Deeper(s[j], d[j - 1])
  BY <1>2 DEF Depths
<1>5. \A j \in 1..n : whole[1 + j] = s[j]
  BY <1>3 DEF Occurs
<1> HIDE DEF n
<1> DEFINE e == [j \in 0..n + 2 |-> IF j \in {0, n + 2} THEN 0 ELSE d[j - 1] + 1]
<1>6. e \in [0..n + 2 -> Nat]
  <2>1. ASSUME NEW j \in 0..n + 2, j \notin {0, n + 2} PROVE d[j - 1] + 1 \in Nat
    <3>1. j - 1 \in 0..n
      BY <1>1, <2>1
    <3> QED BY <3>1
  <2> QED BY <2>1
<1>7. e[0] = 0 /\ e[n + 2] = 0
  BY <1>1
<1>8. \A j \in 0..n : e[j + 1] = d[j] + 1
  <2> SUFFICES ASSUME NEW j \in 0..n PROVE e[j + 1] = d[j] + 1
    OBVIOUS
  <2>1. j + 1 \in 0..n + 2 /\ j + 1 \notin {0, n + 2} /\ (j + 1) - 1 = j
    BY <1>1
  <2> QED BY <2>1
<1> HIDE DEF e
<1>9. Mark("(") # Mark(Semicolon) /\ Mark(")") # Mark(Semicolon) /\ Mark("(") # Mark(")")
  BY TokensDiffer, MarksDiffer
<1>10. ASSUME NEW j \in 1..n + 2
       PROVE  whole[j] # Mark(Semicolon) /\ e[j] = Deeper(whole[j], e[j - 1])
  <2>1. CASE j = 1
    <3>1. e[0 + 1] = d[0] + 1 /\ 0 + 1 = 1 /\ 1 - 1 = 0
      BY <1>1, <1>8
    <3>2. e[1] = 1 /\ e[1 - 1] = 0
      BY <1>4, <1>7, <3>1
    <3> QED BY <1>3, <1>9, <2>1, <3>2 DEF Deeper
  <2>2. CASE j = n + 2
    <3>1. n \in 0..n /\ (n + 2) - 1 = n + 1
      BY <1>1
    <3>2. e[n + 1] = 1
      BY <1>4, <1>8, <3>1
    <3> QED BY <1>3, <1>7, <1>9, <2>2, <3>1, <3>2 DEF Deeper
  <2>3. CASE j \notin {1, n + 2}
    <3> DEFINE i == j - 1
    <3>1. i \in 1..n /\ i \in 0..n /\ i - 1 \in 0..n /\ i + 1 = j /\ 1 + i = j /\ (i - 1) + 1 = j - 1
      BY <1>1, <2>3
    <3> HIDE DEF i
    <3>2. whole[j] = s[i]
      BY <1>5, <3>1
    <3>3. e[j] = d[i] + 1 /\ e[j - 1] = d[i - 1] + 1
      <4>1. e[i + 1] = d[i] + 1 /\ e[(i - 1) + 1] = d[i - 1] + 1
        BY <1>8, <3>1
      <4> QED BY <3>1, <4>1
    <3>4. s[i] # Mark(Semicolon) /\ d[i] = Deeper(s[i], d[i - 1])
      BY <1>4, <3>1
    <3>5. d[i] \in Nat /\ d[i - 1] \in Nat
      BY <3>1
    <3> QED BY <3>2, <3>3, <3>4, <3>5 DEF Deeper
  <2> QED BY <2>1, <2>2, <2>3
<1>11. Depths(e, whole)
  BY <1>3, <1>7, <1>10 DEF Depths
<1>12. whole \in Texts
  BY <1>3, <1>6, <1>11 DEF Texts, Runs
<1> QED BY <1>12 DEF whole

LEMMA TextJoined ==
    ASSUME NEW mark \in Plain, NEW ss \in Seq(Texts)
    PROVE  Joined(ss, mark) \in Texts
<1> DEFINE T == {tt \in Seq(Texts) : Joined(tt, mark) \in Texts}
<1>1. <<>> \in T
  <2>1. Joined(<<>>, mark) = <<>>
    BY JoinedNothing
  <2>2. <<>> \in Seq(Texts)
    OBVIOUS
  <2> QED BY <2>1, <2>2, TextEmpty
<1>2. ASSUME NEW tt \in Seq(Texts), NEW s \in Texts, tt \in T
      PROVE  Append(tt, s) \in T
  <2>1. mark \in Tokens /\ s \in Seq(Tokens) /\ Texts \subseteq Seq(Tokens)
    BY DEF Plain, Texts
  <2>2. tt \in Seq(Seq(Tokens))
    BY <2>1, SeqWider
  <2>3. Joined(Append(tt, s), mark)
           = IF tt = <<>> THEN s ELSE Joined(tt, mark) \o (<<mark>> \o s)
    BY <2>1, <2>2, JoinedMore
  <2>4. <<mark>> \o s \in Texts
    <3>1. <<mark>> \in Seq(Plain)
      OBVIOUS
    <3> QED BY <3>1, TextPlain, TextConcat
  <2>5. Joined(tt, mark) \in Texts
    BY <1>2
  <2>6. Joined(tt, mark) \o (<<mark>> \o s) \in Texts
    BY <2>4, <2>5, TextConcat
  <2>7. Append(tt, s) \in Seq(Texts)
    BY AppendIs
  <2> QED BY <2>3, <2>6, <2>7, Zenon
<1>3. Seq(Texts) \subseteq T
  <2> HIDE DEF T
  <2> QED BY <1>1, <1>2, SeqInduction
<1> QED BY <1>3

LEMMA TextList ==
    ASSUME NEW xs \in Seq(Plain)
    PROVE  List(xs, Mark(Comma)) \in Texts
<1>1. Mark(Comma) \in Plain
  BY TokenType, TokensDiffer, Zenon DEF Plain, Comma, Semicolon
<1>2. [i \in DOMAIN xs |-> <<xs[i]>>] \in Seq(Texts)
  <2>1. Len(xs) \in Nat /\ DOMAIN xs = 1..Len(xs) /\ \A i \in 1..Len(xs) : xs[i] \in Plain
    BY LenProperties, ElementOfSeq
  <2>2. \A i \in 1..Len(xs) : <<xs[i]>> \in Texts
    <3> SUFFICES ASSUME NEW i \in 1..Len(xs) PROVE <<xs[i]>> \in Texts
      OBVIOUS
    <3>1. <<xs[i]>> \in Seq(Plain)
      BY <2>1
    <3> QED BY <3>1, TextPlain
  <2>3. [i \in DOMAIN xs |-> <<xs[i]>>] = [i \in 1..Len(xs) |-> <<xs[i]>>]
    BY <2>1
  <2> QED BY <2>1, <2>2, <2>3, IsASeq
<1> QED BY <1>1, <1>2, TextJoined DEF List

LEMMA PlainIs ==
    /\ \A p \in Seq(Names) : Id(p) \in Plain
    /\ \A w \in Names : Word(w) \in Plain
    /\ \A x \in Operands : x \in Plain
    /\ {Mark(Comma), Mark(":"), Mark("=")} \subseteq Plain
<1>1. \A p \in Seq(Names) : Id(p) \in Plain
  BY TokenType, TokensDiffer DEF Plain
<1>2. \A w \in Names : Word(w) \in Plain
  BY TokenType, TokensDiffer DEF Plain
<1>3. \A x \in Operands : x \in Plain
  BY OperandIs DEF Plain
<1>4. {Mark(Comma), Mark(":"), Mark("=")} \subseteq Plain
  BY TokenType, TokensDiffer, Zenon DEF Plain, Comma, Semicolon
<1> QED BY <1>1, <1>2, <1>3, <1>4

LEMMA TermTextIs ==
    ASSUME NEW term \in Comparisons, NEW under \in Unders
    PROVE  TermText(term, under) \in Texts
<1> DEFINE path == Path(under, term.path)
           list == ListOf(term)
           text == TermText(term, under)
<1>1. /\ term.form \in {"compare", "reverse", "starts", "in", "in()"}
      /\ term.path \in Paths /\ term.op \in Names /\ term.with \in Seq(Operands)
  BY ComparisonIs DEF Names
<1>2. path \in Plain /\ Word(term.op) \in Plain /\ Mark(Comma) \in Plain
  BY <1>1, UnderIs, PlainIs
<1>3. Word("in") \in Plain /\ Word("startswith") \in Plain
  BY PlainIs DEF Names
<1>4. list \in Texts
  <2>1. term.with \in Seq(Plain)
    BY <1>1, PlainIs, SeqWider
  <2> QED BY <2>1, TextList DEF ListOf
<1>5. /\ term.form = "compare" => text = <<path, Word(term.op)>> \o list
      /\ term.form = "in" => text = <<path, Word("in")>> \o list
      /\ term.form = "in()" => text = <<path, Word("in")>> \o InParens(list)
      /\ term.form = "reverse" => text = list \o <<Word(term.op), path>>
      /\ term.form = "starts" =>
            text = <<Word("startswith")>> \o InParens(<<path, Mark(Comma)>> \o list)
  BY TextOfComparison
<1> HIDE DEF path, list, text
<1>6. /\ <<path, Word(term.op)>> \o list \in Texts
      /\ <<path, Word("in")>> \o list \in Texts
      /\ <<path, Mark(Comma)>> \o list \in Texts
  <2>1. /\ <<path, Word(term.op)>> \in Seq(Plain) /\ <<path, Word("in")>> \in Seq(Plain)
        /\ <<path, Mark(Comma)>> \in Seq(Plain)
    BY <1>2, <1>3
  <2> QED BY <1>4, <2>1, TextPlain, TextConcat
<1>7. <<path, Word("in")>> \o InParens(list) \in Texts
  <2>1. <<path, Word("in")>> \in Seq(Plain)
    BY <1>2, <1>3
  <2> QED BY <1>4, <2>1, TextPlain, TextInParens, TextConcat
<1>8. list \o <<Word(term.op), path>> \in Texts
  <2>1. <<Word(term.op), path>> \in Seq(Plain)
    BY <1>2
  <2> QED BY <1>4, <2>1, TextPlain, TextConcat
<1>9. <<Word("startswith")>> \o InParens(<<path, Mark(Comma)>> \o list) \in Texts
  <2>1. InParens(<<path, Mark(Comma)>> \o list) \in Texts
    BY <1>6, TextInParens
  <2>2. <<Word("startswith")>> \in Seq(Plain)
    BY <1>3
  <2> QED BY <2>1, <2>2, TextPlain, TextConcat
<1>10. text \in Texts
  <2>1. CASE term.form = "compare"
    BY <1>5, <1>6, <2>1, Zenon
  <2>2. CASE term.form = "in"
    BY <1>5, <1>6, <2>2, Zenon
  <2>3. CASE term.form = "in()"
    BY <1>5, <1>7, <2>3, Zenon
  <2>4. CASE term.form = "reverse"
    BY <1>5, <1>8, <2>4, Zenon
  <2>5. CASE term.form = "starts"
    BY <1>5, <1>9, <2>5, Zenon
  <2> QED BY <1>1, <2>1, <2>2, <2>3, <2>4, <2>5
<1> QED BY <1>10 DEF text

\* A $filter's terms, and the paths of another option.
Mid(option) == Word(IF option.join = "or" THEN "or" ELSE "and")
TermTexts(option, under) == [i \in DOMAIN option.terms |-> TermText(option.terms[i], under)]
AllTerms(option, under) == Joined(TermTexts(option, under), Mid(option))
PathsOf(paths) == [i \in DOMAIN paths |-> Id(paths[i])]
PathTexts(paths) == List(PathsOf(paths), Mark(Comma))

LEMMA OptionIs ==
    ASSUME NEW o \in SimpleOptions
    PROVE  /\ o.paths \in Seq(Paths) /\ o.terms \in Seq(Comparisons) /\ o.name # "expand"
           /\ o.join \in {"and", "or", "any"} /\ o.below = <<>>
           /\ Mid(o) \in Closers /\ Mid(o) \in Plain
<1>1. "or" \in Names /\ "and" \in Names
  BY DEF Names
<1>2. Mid(o) \in {Word("or"), Word("and")}
  BY DEF Mid
<1> QED BY <1>1, <1>2, PlainIs DEF SimpleOptions, Closers

LEMMA TermTextsAre ==
    ASSUME NEW o \in SimpleOptions, NEW under \in Unders
    PROVE  /\ TermTexts(o, under) \in Seq(Texts) /\ TermTexts(o, under) \in Seq(Seq(Tokens))
           /\ Len(TermTexts(o, under)) = Len(o.terms) /\ Len(o.terms) \in Nat
           /\ DOMAIN o.terms = 1..Len(o.terms)
           /\ \A i \in 1..Len(o.terms) : /\ o.terms[i] \in Comparisons
                                         /\ TermTexts(o, under)[i] = TermText(o.terms[i], under)
           /\ AllTerms(o, under) \in Texts
<1> DEFINE n == Len(o.terms)
           texts == TermTexts(o, under)
<1>1. o.terms \in Seq(Comparisons) /\ Mid(o) \in Plain
  BY OptionIs
<1>2. n \in Nat /\ DOMAIN o.terms = 1..n /\ \A i \in 1..n : o.terms[i] \in Comparisons
  BY <1>1, LenProperties, ElementOfSeq
<1>3. texts = [i \in 1..n |-> TermText(o.terms[i], under)]
  BY <1>2 DEF TermTexts
<1>4. \A i \in 1..n : TermText(o.terms[i], under) \in Texts
  BY <1>2, TermTextIs
<1> HIDE DEF n, texts
<1>5. texts \in Seq(Texts)
  BY <1>2, <1>3, <1>4, IsASeq
<1>6. texts \in Seq(Seq(Tokens))
  <2>1. Texts \subseteq Seq(Tokens)
    BY DEF Texts
  <2> QED BY <1>5, <2>1, SeqWider
<1>7. Len(texts) = n
  <2>1. DOMAIN texts = 1..n
    BY <1>3
  <2> QED BY <1>2, <1>5, <2>1, LenProperties
<1>8. \A i \in 1..n : texts[i] = TermText(o.terms[i], under)
  BY <1>3
<1>9. AllTerms(o, under) \in Texts
  BY <1>1, <1>5, TextJoined DEF AllTerms, texts
<1> QED BY <1>2, <1>5, <1>6, <1>7, <1>8, <1>9 DEF n, texts

LEMMA PathTextsAre ==
    ASSUME NEW paths \in Seq(Paths)
    PROVE  /\ PathsOf(paths) \in Seq(Plain) /\ PathsOf(paths) \in Seq(Tokens)
           /\ Len(PathsOf(paths)) = Len(paths) /\ Len(paths) \in Nat
           /\ \A i \in 1..Len(paths) : paths[i] \in Paths /\ PathsOf(paths)[i] = Id(paths[i])
           /\ PathTexts(paths) \in Texts
           /\ ListIs(PathsOf(paths), Mark(Comma), PathTexts(paths))
<1> DEFINE n == Len(paths)
           ids == PathsOf(paths)
<1>1. n \in Nat /\ DOMAIN paths = 1..n /\ \A i \in 1..n : paths[i] \in Paths
  BY LenProperties, ElementOfSeq
<1>2. ids = [i \in 1..n |-> Id(paths[i])]
  BY <1>1 DEF PathsOf
<1>3. \A i \in 1..n : Id(paths[i]) \in Plain
  BY <1>1, PathIs, PlainIs
<1> HIDE DEF n, ids
<1>4. ids \in Seq(Plain)
  BY <1>1, <1>2, <1>3, IsASeq
<1>5. ids \in Seq(Tokens)
  <2>1. Plain \subseteq Tokens
    BY DEF Plain
  <2> QED BY <1>4, <2>1, SeqWider
<1>6. Len(ids) = n
  <2>1. DOMAIN ids = 1..n
    BY <1>2
  <2> QED BY <1>1, <1>4, <2>1, LenProperties
<1>7. \A i \in 1..n : ids[i] = Id(paths[i])
  BY <1>2
<1>8. PathTexts(paths) \in Texts
  BY <1>4, TextList DEF PathTexts, ids
<1>9. ListIs(ids, Mark(Comma), PathTexts(paths))
  BY <1>5, TokenType, ListAt DEF PathTexts, ids
<1> QED BY <1>1, <1>4, <1>5, <1>6, <1>7, <1>8, <1>9 DEF n, ids

\* The texts of the options.
LEMMA TextOfOption ==
    ASSUME NEW o \in SimpleOptions
    PROVE  /\ o.name = "filter" /\ o.join = "any" =>
                 TextBelow(o) = <<Id(<<"nav", "any">>)>>
                                  \o InParens(<<Word("e"), Mark(":")>> \o AllTerms(o, <<"e">>))
           /\ o.name = "filter" /\ o.join # "any" => TextBelow(o) = AllTerms(o, <<>>)
           /\ o.name = "orderby" => TextBelow(o) = PathTexts(o.paths) \o <<Word("desc")>>
           /\ o.name = "apply" =>
                 TextBelow(o) = <<Word("aggregate")>>
                    \o InParens(PathTexts(o.paths)
                                  \o <<Word("with"), Word("max"), Word("as"), Word("uri")>>)
           /\ o.name = "compute" =>
                 TextBelow(o) = <<Word("length")>> \o InParens(PathTexts(o.paths))
                                  \o <<Word("as"), Word("uri")>>
           /\ o.name \notin {"filter", "orderby", "apply", "compute"} =>
                 TextBelow(o) = PathTexts(o.paths)
<1> DEFINE joined == Joined([i \in DOMAIN o.paths |-> <<Id(o.paths[i])>>], Mark(Comma))
<1>1. joined = PathTexts(o.paths)
  <2>1. DOMAIN PathsOf(o.paths) = DOMAIN o.paths
        /\ \A i \in DOMAIN o.paths : PathsOf(o.paths)[i] = Id(o.paths[i])
    BY DEF PathsOf
  <2>2. [i \in DOMAIN PathsOf(o.paths) |-> <<PathsOf(o.paths)[i]>>]
           = [i \in DOMAIN o.paths |-> <<Id(o.paths[i])>>]
    BY <2>1
  <2> QED BY <2>2 DEF PathTexts, List
<1>2. \A under : Joined([i \in DOMAIN o.terms |-> TermText(o.terms[i], under)],
                        Word(IF o.join = "or" THEN "or" ELSE "and")) = AllTerms(o, under)
  BY DEF AllTerms, TermTexts, Mid
<1> HIDE DEF joined
<1>3. TextBelow(o) =
        CASE o.name = "filter" /\ o.join = "any" ->
               <<Id(<<"nav", "any">>)>>
                 \o InParens(<<Word("e"), Mark(":")>> \o AllTerms(o, <<"e">>))
          [] o.name = "filter" /\ o.join # "any" -> AllTerms(o, <<>>)
          [] o.name = "orderby" -> joined \o <<Word("desc")>>
          [] o.name = "apply" ->
               <<Word("aggregate")>>
                  \o InParens(joined \o <<Word("with"), Word("max"), Word("as"), Word("uri")>>)
          [] o.name = "compute" ->
               <<Word("length")>> \o InParens(joined) \o <<Word("as"), Word("uri")>>
          [] OTHER -> joined
  BY <1>2 DEF TextBelow, joined
<1> QED BY <1>1, <1>3

LEMMA TextBelowIs ==
    ASSUME NEW o \in SimpleOptions
    PROVE  TextBelow(o) \in Texts
<1>1. o.paths \in Seq(Paths) /\ o.join \in {"and", "or", "any"}
  BY OptionIs
<1>2. PathTexts(o.paths) \in Texts
  BY <1>1, PathTextsAre
<1>3. \A under \in Unders : AllTerms(o, under) \in Texts
  BY TermTextsAre
<1>4. /\ Word("e") \in Plain /\ Word("desc") \in Plain /\ Word("aggregate") \in Plain
      /\ Word("length") \in Plain /\ Word("with") \in Plain /\ Word("max") \in Plain
      /\ Word("as") \in Plain /\ Word("uri") \in Plain /\ Mark(":") \in Plain
  BY PlainIs DEF Names
<1>5. Id(<<"nav", "any">>) \in Plain
  <2>1. "nav" \in Names /\ "any" \in Names
    BY DEF Names
  <2>2. <<"nav", "any">> \in Seq(Names)
    BY <2>1
  <2> QED BY <2>2, PlainIs
<1>6. CASE o.name = "filter" /\ o.join = "any"
  <2>1. AllTerms(o, <<"e">>) \in Texts
    BY <1>3 DEF Unders
  <2>2. <<Word("e"), Mark(":")>> \o AllTerms(o, <<"e">>) \in Texts
    <3>1. <<Word("e"), Mark(":")>> \in Seq(Plain)
      BY <1>4
    <3> QED BY <2>1, <3>1, TextPlain, TextConcat
  <2>3. InParens(<<Word("e"), Mark(":")>> \o AllTerms(o, <<"e">>)) \in Texts
    BY <2>2, TextInParens
  <2>4. <<Id(<<"nav", "any">>)>> \o InParens(<<Word("e"), Mark(":")>> \o AllTerms(o, <<"e">>)) \in Texts
    <3>1. <<Id(<<"nav", "any">>)>> \in Seq(Plain)
      BY <1>5
    <3> QED BY <2>3, <3>1, TextPlain, TextConcat
  <2> QED BY <1>6, <2>4, TextOfOption, Zenon
<1>7. CASE o.name = "filter" /\ o.join # "any"
  <2>1. AllTerms(o, <<>>) \in Texts
    BY <1>3 DEF Unders
  <2> QED BY <1>7, <2>1, TextOfOption, Zenon
<1>8. CASE o.name = "orderby"
  <2>1. PathTexts(o.paths) \o <<Word("desc")>> \in Texts
    <3>1. <<Word("desc")>> \in Seq(Plain)
      BY <1>4
    <3> QED BY <1>2, <3>1, TextPlain, TextConcat
  <2> QED BY <1>8, <2>1, TextOfOption, Zenon
<1>9. CASE o.name = "apply"
  <2> DEFINE four == <<Word("with"), Word("max"), Word("as"), Word("uri")>>
  <2>1. four \in Texts
    <3>1. four \in Seq(Plain)
      BY <1>4
    <3> QED BY <3>1, TextPlain
  <2> HIDE DEF four
  <2>2. InParens(PathTexts(o.paths) \o four) \in Texts
    BY <1>2, <2>1, TextConcat, TextInParens
  <2>3. <<Word("aggregate")>> \o InParens(PathTexts(o.paths) \o four) \in Texts
    <3>1. <<Word("aggregate")>> \in Seq(Plain)
      BY <1>4
    <3> QED BY <2>2, <3>1, TextPlain, TextConcat
  <2> QED BY <1>9, <2>3, TextOfOption, Zenon DEF four
<1>10. CASE o.name = "compute"
  <2>1. InParens(PathTexts(o.paths)) \in Texts /\ <<Word("as"), Word("uri")>> \in Texts
    <3>1. <<Word("as"), Word("uri")>> \in Seq(Plain)
      BY <1>4
    <3> QED BY <1>2, <3>1, TextPlain, TextInParens
  <2>2. <<Word("length")>> \o InParens(PathTexts(o.paths)) \in Texts
    <3>1. <<Word("length")>> \in Seq(Plain)
      BY <1>4
    <3> QED BY <2>1, <3>1, TextPlain, TextConcat
  <2>3. <<Word("length")>> \o InParens(PathTexts(o.paths)) \o <<Word("as"), Word("uri")>> \in Texts
    BY <2>1, <2>2, TextConcat
  <2> QED BY <1>10, <2>3, TextOfOption, Zenon
<1>11. CASE o.name \notin {"filter", "orderby", "apply", "compute"}
  BY <1>2, <1>11, TextOfOption, Zenon
<1> QED BY <1>6, <1>7, <1>8, <1>9, <1>10, <1>11

LEMMA FollowedWithin ==
    ASSUME NEW S, NEW inner \in Seq(S), NEW outer \in Seq(S), NEW m, Occurs(inner, outer, m),
           NEW q \in 1..Len(inner) + 1, NEW A, NEW B, Followed(inner, q, A),
           Followed(outer, m + Len(inner) + 1, B)
    PROVE  Followed(outer, m + q, A \union B)
<1>1. Len(inner) \in Nat /\ DOMAIN inner = 1..Len(inner) /\ m \in Nat
  BY LenProperties DEF Occurs
<1>2. CASE q \in 1..Len(inner)
  <2>1. outer[m + q] = inner[q] /\ inner[q] \in A
    BY <1>1, <1>2 DEF Occurs, Followed
  <2> QED BY <2>1 DEF Followed
<1>3. CASE q = Len(inner) + 1
  <2>1. m + q = m + Len(inner) + 1
    BY <1>1, <1>3
  <2> QED BY <2>1 DEF Followed
<1> QED BY <1>1, <1>2, <1>3

\* The terms of a $filter that is let through.
LEMMA TermsLetThrough ==
    ASSUME NEW pii, NEW e, NEW tokens \in Seq(Tokens), ~ExpressionRefused(pii, "filter", tokens, e),
           NEW o \in SimpleOptions, NEW under \in Unders, NEW m, Occurs(AllTerms(o, under), tokens, m),
           Followed(tokens, m + Len(AllTerms(o, under)) + 1, Closers), NEW i \in 1..Len(o.terms)
    PROVE  TermUnasked(pii, e, o.terms[i], under)
<1> DEFINE term == o.terms[i]
           text == TermText(term, under)
           texts == TermTexts(o, under)
           whole == AllTerms(o, under)
<1>1. /\ term \in Comparisons /\ texts \in Seq(Seq(Tokens)) /\ i \in 1..Len(texts) /\ texts[i] = text
      /\ whole \in Seq(Tokens)
  BY TermTextsAre DEF Texts
<1>2. Mid(o) \in Tokens /\ {Mid(o)} \subseteq Closers
  BY OptionIs DEF Plain
<1>3. text \in Seq(Tokens) /\ Len(text) \in Nat /\ Len(whole) \in Nat /\ Len(tokens) \in Nat
  BY <1>1, TextOfComparison, LenProperties
<1> HIDE DEF term
<1>4. PICK k \in Nat : Part(text, whole, Mid(o), k)
  <2>1. \E k \in Nat : Part(texts[i], whole, Mid(o), k)
    <3> HIDE DEF texts
    <3> QED BY <1>1, <1>2, JoinedAt DEF AllTerms, texts
  <2> HIDE DEF texts, text, whole
  <2> QED BY <1>1, <2>1
<1> HIDE DEF text, texts, whole
<1> DEFINE q == k + Len(text) + 1
<1>5. Occurs(text, whole, k) /\ Followed(whole, q, {Mid(o)}) /\ k + Len(text) <= Len(whole)
  BY <1>4 DEF Part, Occurs
<1>6. q \in 1..Len(whole) + 1
  BY <1>3, <1>5
<1>7. Occurs(whole, tokens, m) /\ Followed(tokens, m + Len(whole) + 1, Closers) /\ m \in Nat
  BY DEF whole, Occurs
<1>8. Occurs(text, tokens, m + k)
  BY <1>3, <1>5, <1>7, OccursWithin
<1>9. Followed(tokens, m + q, {Mid(o)} \union Closers)
  <2> HIDE DEF q
  <2> QED BY <1>1, <1>5, <1>6, <1>7, FollowedWithin
<1>10. Followed(tokens, (m + k) + Len(text) + 1, Closers)
  <2>1. m + q = (m + k) + Len(text) + 1
    BY <1>3, <1>7
  <2>2. {Mid(o)} \union Closers = Closers
    BY <1>2
  <2> HIDE DEF q
  <2> QED BY <1>9, <2>1, <2>2
<1>11. TermUnasked(pii, e, term, under)
  BY <1>1, <1>8, <1>10, TermLetThrough DEF text
<1> QED BY <1>11 DEF term

\* The variable its terms are under.
UnderOf(option) == IF option.join = "any" THEN <<"e">> ELSE <<>>

LEMMA FilterLetThrough ==
    ASSUME NEW pii, NEW e, NEW o \in SimpleOptions, o.name = "filter",
           ~ExpressionRefused(pii, "filter", TextBelow(o), e), NEW i \in 1..Len(o.terms)
    PROVE  TermUnasked(pii, e, o.terms[i], UnderOf(o))
<1> DEFINE tokens == TextBelow(o)
<1>1. tokens \in Seq(Tokens)
  BY TextBelowIs DEF Texts
<1>2. CASE o.join = "any"
  <2> DEFINE whole == AllTerms(o, <<"e">>)
             two == <<Word("e"), Mark(":")>>
             inner == two \o whole
             head == <<Id(<<"nav", "any">>)>>
             parens == InParens(inner)
  <2>1. <<"e">> \in Unders /\ UnderOf(o) = <<"e">>
    BY <1>2 DEF Unders, UnderOf
  <2>2. whole \in Seq(Tokens) /\ Len(whole) \in Nat
    <3>1. whole \in Texts
      BY <2>1, TermTextsAre
    <3> QED BY <3>1, LenProperties DEF Texts
  <2>3. tokens = head \o parens
    BY <1>2, TextOfOption
  <2>4. Word("e") \in Tokens /\ Mark(":") \in Tokens /\ head \in Seq(Tokens) /\ Len(head) = 1
    <3>1. "e" \in Names /\ "nav" \in Names /\ "any" \in Names
      BY DEF Names
    <3>2. <<"nav", "any">> \in Seq(Names)
      BY <3>1
    <3>3. Id(<<"nav", "any">>) \in Tokens /\ Word("e") \in Tokens /\ Mark(":") \in Tokens
      BY <3>1, <3>2, TokenType
    <3> QED BY <3>3
  <2> HIDE DEF tokens, whole, head
  <2>5. inner \in Seq(Tokens) /\ Len(inner) = Len(whole) + 2 /\ Occurs(whole, inner, 2)
    BY <2>2, <2>4, TwoBefore
  <2> HIDE DEF inner
  <2>6. parens \in Seq(Tokens) /\ Len(parens) \in Nat
    BY <2>5, InParensIs, LenProperties
  <2> HIDE DEF parens
  <2>7. Occurs(parens, tokens, 1)
    <3>1. Occurs(parens, tokens, Len(head))
      <4>1. Occurs(parens, head \o parens, Len(head))
        BY <2>4, <2>6, OccursConcat
      <4> QED BY <2>3, <4>1, Zenon
    <3> QED BY <2>4, <3>1
  <2>8. Occurs(inner, tokens, 2) /\ tokens[1 + Len(inner) + 2] = Mark(")")
    <3>1. Occurs(inner, tokens, 1 + 1) /\ tokens[1 + Len(inner) + 2] = Mark(")")
      BY <1>1, <2>5, <2>7, ParensWithin DEF parens
    <3>2. 1 + 1 = 2
      OBVIOUS
    <3> QED BY <3>1, <3>2
  <2>9. Occurs(whole, tokens, 2 + 2)
    <3>1. Len(inner) \in Nat /\ Len(tokens) \in Nat
      BY <1>1, <2>5, LenProperties
    <3> QED BY <2>2, <2>5, <2>8, <3>1, OccursWithin
  <2>10. Followed(tokens, (2 + 2) + Len(whole) + 1, Closers)
    <3>1. 1 + Len(inner) + 2 = (2 + 2) + Len(whole) + 1
      BY <2>2, <2>5
    <3> QED BY <2>8, <3>1 DEF Followed, Closers
  <2>11. ~ExpressionRefused(pii, "filter", tokens, e)
    BY DEF tokens
  <2> QED BY <1>1, <2>1, <2>9, <2>10, <2>11, TermsLetThrough DEF whole
<1>3. CASE o.join # "any"
  <2> DEFINE whole == AllTerms(o, <<>>)
  <2>1. <<>> \in Unders /\ UnderOf(o) = <<>>
    BY <1>3 DEF Unders, UnderOf
  <2>2. tokens = whole
    BY <1>3, TextOfOption
  <2>3. Len(tokens) \in Nat /\ DOMAIN tokens = 1..Len(tokens)
    BY <1>1, LenProperties
  <2>4. ~ExpressionRefused(pii, "filter", tokens, e)
    OBVIOUS
  <2> HIDE DEF tokens
  <2>5. Occurs(tokens, tokens, 0) /\ Followed(tokens, 0 + Len(tokens) + 1, Closers)
    BY <2>3 DEF Occurs, Followed
  <2>6. Occurs(whole, tokens, 0) /\ Followed(tokens, 0 + Len(whole) + 1, Closers)
    BY <2>2, <2>5
  <2> QED BY <1>1, <2>1, <2>4, <2>6, TermsLetThrough DEF whole
<1> QED BY <1>2, <1>3

\* The paths of an option that is let through and is no $filter.
Stops == {Word("desc"), Word("with"), Mark(")")}

LEMMA PathsLetThrough ==
    ASSUME NEW pii, NEW e, NEW name, name # "filter", NEW tokens \in Seq(Tokens),
           ~ExpressionRefused(pii, name, tokens, e),
           NEW paths \in Seq(Paths), NEW b \in Nat, Occurs(PathTexts(paths), tokens, b),
           Followed(tokens, b + Len(PathTexts(paths)) + 1, Stops), NEW m \in 1..Len(paths)
    PROVE  Unasked(pii, e, paths[m])
<1> DEFINE list == PathTexts(paths)
           ids == PathsOf(paths)
           n == b + (2 * m - 1)
           path == paths[m]
<1>1. /\ Len(ids) = Len(paths) /\ Len(paths) \in Nat /\ path \in Paths /\ ids[m] = Id(path)
      /\ ids \in Seq(Tokens) /\ ListIs(ids, Mark(Comma), list)
  BY PathTextsAre
<1>2. Occurs(list, tokens, b) /\ Followed(tokens, b + Len(list) + 1, Stops)
  OBVIOUS
<1> HIDE DEF list, ids, path
<1>3. ids # <<>>
  <2>1. Len(ids) # 0
    BY <1>1
  <2> QED BY <1>1, <2>1, NotEmpty
<1>4. /\ Len(list) = 2 * Len(paths) - 1 /\ list[2 * m - 1] = Id(path)
      /\ m \in 1..Len(paths) - 1 => list[2 * m] = Mark(Comma)
  BY <1>1, <1>3 DEF ListIs
<1>5. \A j \in 1..Len(list) : b + j \in DOMAIN tokens /\ tokens[b + j] = list[j]
  <2>1. Len(tokens) \in Nat /\ DOMAIN tokens = 1..Len(tokens)
    BY LenProperties
  <2> QED BY <1>1, <1>2, <1>4, <2>1 DEF Occurs
<1>6. n \in DOMAIN tokens /\ tokens[n] = Id(path)
  <2>1. 2 * m - 1 \in 1..Len(list)
    BY <1>1, <1>4
  <2> QED BY <1>4, <1>5, <2>1
<1>7. n + 1 \in DOMAIN tokens => tokens[n + 1] \in Stops \union {Mark(Comma)}
  <2>1. CASE m = Len(paths)
    <3>1. n + 1 = b + Len(list) + 1
      BY <1>1, <1>4, <2>1
    <3> HIDE DEF n
    <3> QED BY <1>2, <3>1 DEF Followed
  <2>2. CASE m # Len(paths)
    <3>1. m \in 1..Len(paths) - 1 /\ 2 * m \in 1..Len(list) /\ n + 1 = b + 2 * m
      BY <1>1, <1>4, <2>2
    <3> HIDE DEF n
    <3> QED BY <1>4, <1>5, <3>1
  <2> QED BY <2>1, <2>2
<1> HIDE DEF n
<1>8. \A c \in {"(", ":"} : n + 1 \in DOMAIN tokens => tokens[n + 1] # Mark(c)
  <2>1. \A x \in {Word("desc"), Word("with")} : x # Mark("(") /\ x # Mark(":")
    BY TokensDiffer
  <2>2. \A x \in {Mark(")"), Mark(Comma)} : x # Mark("(") /\ x # Mark(":")
    BY TokensDiffer, MarksDiffer
  <2> QED BY <1>7, <2>1, <2>2 DEF Stops
<1>9. Last(path) \notin Keywords(name)
  BY <1>1, PathIs
<1>10. Unasked(pii, e, path)
  BY <1>6, <1>8, <1>9, Referred DEF Unasked
<1> QED BY <1>10 DEF path

Sorting == {"orderby", "apply", "compute"}

LEMMA SortingLetThrough ==
    ASSUME NEW pii, NEW e, NEW o \in SimpleOptions, o.name \in Sorting,
           ~ExpressionRefused(pii, o.name, TextBelow(o), e), NEW m \in 1..Len(o.paths)
    PROVE  Unasked(pii, e, o.paths[m])
<1> DEFINE tokens == TextBelow(o)
           list == PathTexts(o.paths)
<1>1. tokens \in Seq(Tokens)
  BY TextBelowIs DEF Texts
<1>2. o.paths \in Seq(Paths) /\ o.name # "filter"
  BY OptionIs DEF Sorting
<1>3. list \in Seq(Tokens) /\ Len(list) \in Nat
  <2>1. list \in Texts
    BY <1>2, PathTextsAre
  <2> QED BY <2>1, LenProperties DEF Texts
<1>4. /\ Word("desc") \in Tokens /\ Word("aggregate") \in Tokens /\ Word("length") \in Tokens
      /\ Word("with") \in Tokens /\ Word("max") \in Tokens /\ Word("as") \in Tokens
      /\ Word("uri") \in Tokens
  BY TokenType DEF Names
<1>5. /\ o.name = "orderby" => tokens = list \o <<Word("desc")>>
      /\ o.name = "apply" =>
            tokens = <<Word("aggregate")>>
               \o InParens(list \o <<Word("with"), Word("max"), Word("as"), Word("uri")>>)
      /\ o.name = "compute" =>
            tokens = <<Word("length")>> \o InParens(list) \o <<Word("as"), Word("uri")>>
  BY TextOfOption
<1> HIDE DEF tokens, list
<1>6. Len(tokens) \in Nat /\ DOMAIN tokens = 1..Len(tokens)
  BY <1>1, LenProperties
<1>7. CASE \E b \in Nat : Occurs(list, tokens, b) /\ Followed(tokens, b + Len(list) + 1, Stops)
  BY <1>1, <1>2, <1>7, PathsLetThrough DEF tokens, list
<1>8. CASE o.name = "orderby"
  <2> DEFINE desc == <<Word("desc")>>
  <2>1. desc \in Seq(Tokens) /\ Len(desc) = 1 /\ desc[1] = Word("desc")
    BY <1>4
  <2>2. tokens = list \o desc
    BY <1>5, <1>8
  <2> HIDE DEF desc
  <2>3. Occurs(list, tokens, 0) /\ Occurs(desc, tokens, Len(list))
    <3>1. Occurs(list, list \o desc, 0) /\ Occurs(desc, list \o desc, Len(list))
      BY <1>3, <2>1, OccursConcat
    <3> QED BY <2>2, <3>1, Zenon
  <2>4. tokens[Len(list) + 1] = Word("desc") /\ 0 + Len(list) + 1 = Len(list) + 1
    BY <1>3, <2>1, <2>3 DEF Occurs
  <2>5. Followed(tokens, 0 + Len(list) + 1, Stops)
    BY <2>4 DEF Followed, Stops
  <2> QED BY <1>7, <2>3, <2>5
<1>9. CASE o.name = "apply"
  <2> DEFINE head == <<Word("aggregate")>>
             four == <<Word("with"), Word("max"), Word("as"), Word("uri")>>
             inner == list \o four
             parens == InParens(inner)
  <2>1. head \in Seq(Tokens) /\ Len(head) = 1
    BY <1>4
  <2>2. four \in Seq(Tokens) /\ four[1] = Word("with") /\ Len(four) = 4
    BY <1>4
  <2>3. tokens = head \o parens
    BY <1>5, <1>9
  <2> HIDE DEF head, four
  <2>4. /\ inner \in Seq(Tokens) /\ Len(inner) = Len(list) + Len(four)
        /\ Occurs(list, inner, 0) /\ Occurs(four, inner, Len(list))
    <3> HIDE DEF inner
    <3> QED BY <1>3, <2>2, OccursConcat, Zenon DEF inner
  <2> HIDE DEF inner
  <2>5. inner[Len(list) + 1] = Word("with") /\ Len(inner) = Len(list) + 4
    BY <2>2, <2>4 DEF Occurs
  <2>6. parens \in Seq(Tokens)
    BY <2>4, InParensIs
  <2> HIDE DEF parens
  <2>7. Occurs(parens, tokens, 1)
    <3>1. Occurs(parens, tokens, Len(head))
      <4>1. Occurs(parens, head \o parens, Len(head))
        BY <2>1, <2>6, OccursConcat
      <4> QED BY <2>3, <4>1, Zenon
    <3> QED BY <2>1, <3>1
  <2>8. Occurs(inner, tokens, 2)
    <3>1. Occurs(inner, tokens, 1 + 1)
      BY <1>1, <2>4, <2>7, ParensWithin DEF parens
    <3>2. 1 + 1 = 2
      OBVIOUS
    <3> QED BY <3>1, <3>2
  <2>9. Occurs(list, tokens, 2 + 0)
    <3>1. Len(inner) \in Nat
      BY <1>3, <2>5
    <3> QED BY <1>3, <1>6, <2>4, <2>8, <3>1, OccursWithin
  <2>10. tokens[(2 + 0) + Len(list) + 1] = Word("with")
    <3>1. Len(list) + 1 \in 1..Len(inner) /\ 2 + (Len(list) + 1) = (2 + 0) + Len(list) + 1
      BY <1>3, <2>5
    <3>2. tokens[2 + (Len(list) + 1)] = inner[Len(list) + 1]
      BY <2>8, <3>1 DEF Occurs
    <3> QED BY <2>5, <3>1, <3>2
  <2>11. Followed(tokens, (2 + 0) + Len(list) + 1, Stops)
    BY <2>10 DEF Followed, Stops
  <2> QED BY <1>7, <2>9, <2>11
<1>10. CASE o.name = "compute"
  <2> DEFINE head == <<Word("length")>>
             two == <<Word("as"), Word("uri")>>
             parens == InParens(list)
             first == head \o parens
  <2>1. head \in Seq(Tokens) /\ Len(head) = 1
    BY <1>4
  <2>2. two \in Seq(Tokens)
    BY <1>4
  <2>3. tokens = first \o two
    BY <1>5, <1>10
  <2> HIDE DEF head, two
  <2>4. parens \in Seq(Tokens) /\ Len(parens) \in Nat
    BY <1>3, InParensIs
  <2> HIDE DEF parens
  <2>5. first \in Seq(Tokens) /\ Occurs(parens, first, 1) /\ Len(first) \in Nat
    <3>1. first \in Seq(Tokens) /\ Occurs(parens, first, Len(head)) /\ Len(first) = Len(head) + Len(parens)
      <4> HIDE DEF first
      <4> QED BY <2>1, <2>4, OccursConcat, Zenon DEF first
    <3> HIDE DEF first
    <3> QED BY <2>1, <2>4, <3>1
  <2> HIDE DEF first
  <2>6. Occurs(first, tokens, 0)
    <3>1. Occurs(first, first \o two, 0)
      BY <2>2, <2>5, OccursConcat
    <3> QED BY <2>3, <3>1, Zenon
  <2>7. Occurs(parens, tokens, 0 + 1)
    BY <1>6, <2>4, <2>5, <2>6, OccursWithin
  <2> DEFINE k == 0 + 1
             b == k + 1
  <2>8. Occurs(list, tokens, b) /\ tokens[k + Len(list) + 2] = Mark(")") /\ b \in Nat
    BY <1>1, <1>3, <2>7, ParensWithin DEF parens
  <2>9. k + Len(list) + 2 = b + Len(list) + 1
    BY <1>3
  <2> HIDE DEF k, b
  <2>10. Followed(tokens, b + Len(list) + 1, Stops)
    BY <2>8, <2>9 DEF Followed, Stops
  <2> QED BY <1>7, <2>8, <2>10
<1> QED BY <1>8, <1>9, <1>10 DEF Sorting

\* An option is let through: as a query's own, or as one below.
LetThrough(pii, e, option) ==
    /\ option.name = "search" => TextBelow(option) = <<>>
    /\ option.name \in Nested \ {"search"} =>
          ~ExpressionRefused(pii, option.name, TextBelow(option), e)

\* An option tells nothing of the one value or the other.
LEMMA ToldKept ==
    ASSUME NEW pii, NEW entity, NEW row, NEW v, NEW w, Asking(pii, entity, row, v, w),
           Nothing \notin DOMAIN Spelling,
           NEW at \in Ats, NEW e, Fits(e, entity, at, <<>>),
           NEW o \in SimpleOptions, LetThrough(pii, e, o),
           \A i \in 1..Len(o.terms) : Spared(o.terms[i], v, w)
    PROVE  ToldAt(o, row, at) = ToldAt(o, Other(pii, entity, row, v, w), at)
<1> DEFINE new == Other(pii, entity, row, v, w)
           nav == Append(at, "nav")
           Hold(r, p) == {i \in DOMAIN o.terms : TermHolds(o.terms[i], r, p, at)}
           Holds(r, p) == IF o.join = "or" THEN Hold(r, p) # {} ELSE Hold(r, p) = DOMAIN o.terms
           ReadOf(r) == [i \in DOMAIN o.paths |-> ValueAt(r, at, o.paths[i])]
           Found(r) == [i \in DOMAIN o.paths |->
                          {r.cells[p] : p \in {q \in Places(r) : IsPrefix(at, q)}}]
<1>1. /\ o.paths \in Seq(Paths) /\ o.terms \in Seq(Comparisons) /\ o.name # "expand"
      /\ DOMAIN o.terms = 1..Len(o.terms) /\ DOMAIN o.paths = 1..Len(o.paths)
      /\ \A i \in 1..Len(o.terms) : o.terms[i] \in Comparisons
      /\ \A i \in 1..Len(o.paths) : o.paths[i] \in Paths
  BY OptionIs, LenProperties, ElementOfSeq
<1>2. nav \in Ats /\ nav # <<>>
  <2>1. nav \in Seq({"nav"}) /\ Len(nav) = Len(at) + 1 /\ Len(at) \in Nat
    BY AppendIs DEF Ats
  <2>2. Len(nav) # 0
    BY <2>1
  <2> QED BY <2>1, <2>2, NotEmpty DEF Ats
<1>3. Places(new) = Places(row)
  BY OtherPlaces
<1>4. \A r : /\ o.name = "filter" /\ o.join = "any" =>
                   ToldAt(o, r, at) = <<nav \in Places(r) /\ Holds(r, nav)>>
             /\ o.name = "filter" /\ o.join # "any" => ToldAt(o, r, at) = <<Holds(r, at)>>
             /\ o.name \in Sorting => ToldAt(o, r, at) = ReadOf(r)
             /\ o.name = "search" => ToldAt(o, r, at) = Found(r)
             /\ o.name \notin Sorting \union {"filter", "search"} => ToldAt(o, r, at) = <<>>
  BY DEF ToldAt, Sorting
<1>5. ASSUME o.name = "filter", NEW p \in Ats, Fits(e, entity, p, UnderOf(o))
      PROVE  Hold(row, p) = Hold(new, p)
  <2>1. ~ExpressionRefused(pii, "filter", TextBelow(o), e)
    BY <1>5 DEF LetThrough, Nested
  <2>2. UnderOf(o) \in Unders
    BY DEF UnderOf, Unders
  <2>3. ASSUME NEW i \in 1..Len(o.terms)
        PROVE  TermHolds(o.terms[i], row, p, at) <=> TermHolds(o.terms[i], new, p, at)
    <3>1. TermUnasked(pii, e, o.terms[i], UnderOf(o))
      BY <1>5, <2>1, FilterLetThrough
    <3>2. Spared(o.terms[i], v, w) /\ o.terms[i] \in Comparisons
      BY <1>1
    <3> QED BY <1>5, <2>2, <3>1, <3>2, TermKept
  <2> HIDE DEF new
  <2> QED BY <1>1, <2>3
<1> HIDE DEF new, nav
<1>6. CASE o.name = "filter" /\ o.join = "any"
  <2>1. Fits(e, entity, nav, UnderOf(o))
    <3>1. <<"e">> # <<>>
      OBVIOUS
    <3> QED BY <1>2, <1>6, <3>1 DEF Fits, UnderOf
  <2>2. Hold(row, nav) = Hold(new, nav)
    BY <1>2, <1>5, <1>6, <2>1
  <2>3. Holds(row, nav) <=> Holds(new, nav)
    <3> HIDE DEF Hold
    <3> QED BY <2>2
  <2> HIDE DEF Holds
  <2>4. (nav \in Places(row) /\ Holds(row, nav)) = (nav \in Places(new) /\ Holds(new, nav))
    BY <1>3, <2>3
  <2>5. /\ ToldAt(o, row, at) = <<nav \in Places(row) /\ Holds(row, nav)>>
        /\ ToldAt(o, new, at) = <<nav \in Places(new) /\ Holds(new, nav)>>
    BY <1>4, <1>6
  <2> QED BY <2>4, <2>5, Zenon DEF new
<1>7. CASE o.name = "filter" /\ o.join # "any"
  <2>1. Fits(e, entity, at, UnderOf(o))
    BY <1>7 DEF UnderOf
  <2>2. Hold(row, at) = Hold(new, at)
    BY <1>5, <1>7, <2>1
  <2>3. Holds(row, at) = Holds(new, at)
    <3> HIDE DEF Hold
    <3> QED BY <2>2
  <2> HIDE DEF Holds
  <2>4. ToldAt(o, row, at) = <<Holds(row, at)>> /\ ToldAt(o, new, at) = <<Holds(new, at)>>
    BY <1>4, <1>7
  <2> QED BY <2>3, <2>4, Zenon DEF new
<1>8. CASE o.name \in Sorting
  <2>1. ~ExpressionRefused(pii, o.name, TextBelow(o), e) /\ o.name # "filter"
    BY <1>8 DEF LetThrough, Nested, Sorting
  <2>2. ASSUME NEW i \in 1..Len(o.paths)
        PROVE  ValueAt(row, at, o.paths[i]) = ValueAt(new, at, o.paths[i])
    <3> DEFINE path == o.paths[i]
    <3>1. Unasked(pii, e, path) /\ path \in Paths
      BY <1>1, <1>8, <2>1, SortingLetThrough
    <3> HIDE DEF path
    <3>2. ValueAt(row, at, path) = ValueAt(Other(pii, entity, row, v, w), at, path)
      BY <3>1, UnaskedKept
    <3> QED BY <3>2 DEF path, new
  <2>3. ReadOf(row) = ReadOf(new)
    BY <1>1, <2>2
  <2> HIDE DEF ReadOf
  <2> QED BY <1>4, <1>8, <2>3 DEF new
<1>9. CASE o.name = "search"
  <2>1. TextBelow(o) = <<>>
    BY <1>9 DEF LetThrough
  <2>2. TextBelow(o) = PathTexts(o.paths)
    <3>1. o.name \notin {"filter", "orderby", "apply", "compute"}
      BY <1>9
    <3> QED BY <3>1, TextOfOption
  <2>3. Len(o.paths) = 0
    <3> DEFINE ids == PathsOf(o.paths)
               list == PathTexts(o.paths)
    <3>1. /\ Len(ids) = Len(o.paths) /\ Len(o.paths) \in Nat /\ ids \in Seq(Tokens)
          /\ ListIs(ids, Mark(Comma), list)
      BY <1>1, PathTextsAre
    <3>2. Len(list) = 0
      BY <2>1, <2>2
    <3> HIDE DEF ids, list
    <3>3. Len(list) = IF ids = <<>> THEN 0 ELSE 2 * Len(ids) - 1
      BY <3>1, Zenon DEF ListIs
    <3>4. ids = <<>> => Len(ids) = 0
      OBVIOUS
    <3> QED BY <3>1, <3>2, <3>3, <3>4
  <2>4. DOMAIN o.paths = {}
    BY <1>1, <2>3
  <2>5. Found(row) = Found(new)
    BY <2>4
  <2> HIDE DEF Found
  <2> QED BY <1>4, <1>9, <2>5 DEF new
<1>10. CASE o.name \notin Sorting \union {"filter", "search"}
  BY <1>4, <1>10 DEF new
<1> QED BY <1>6, <1>7, <1>8, <1>9, <1>10

-----------------------------------------------------------------------------
(* What the guard takes for a nested option *)

\* Where a nested option stops, by the depths of what follows.
DepthsFrom(depth, tokens, from) ==
    /\ depth[from] = 0
    /\ \A j \in from + 1..Len(tokens) + 1 : depth[j] = Deeper(tokens[j - 1], depth[j - 1])
StopsAt(depth, tokens, from) ==
    {j \in from..Len(tokens) : At(tokens, j, {")", Semicolon}) /\ depth[j] = 0}

LEMMA StopIs ==
    ASSUME NEW tokens \in Seq(Tokens), NEW from \in 1..Len(tokens) + 1
    PROVE  \E depth : /\ DepthsFrom(depth, tokens, from)
                      /\ StopOf(tokens, from)
                           = IF StopsAt(depth, tokens, from) = {} THEN Len(tokens) + 1
                             ELSE Least(StopsAt(depth, tokens, from))
<1> DEFINE m == Len(tokens)
           n == m + 1 - from
           F == [i \in 1..n |-> [h \in Int |-> Deeper(tokens[from + i - 1], h)]]
           Def(d) == [j \in from..m + 1 |->
                        IF j = from THEN 0
                        ELSE IF tokens[j - 1] = Mark("(") THEN d[j - 1] + 1
                        ELSE IF tokens[j - 1] = Mark(")") THEN d[j - 1] - 1
                        ELSE d[j - 1]]
           depth == CHOOSE d : d = Def(d)
<1>1. m \in Nat /\ n \in Nat /\ from \in Nat /\ from + n = m + 1
  BY LenProperties
<1>2. \A i \in 1..n, h \in Int : F[i][h] = Deeper(tokens[from + i - 1], h)
  OBVIOUS
<1>3. F \in Steps(n, Int)
  BY DEF Steps, Deeper
<1> HIDE DEF F
<1>4. PICK f \in Runs(n, Int) : Goes(f, 0, n, F)
  <2>1. 0 \in Int
    OBVIOUS
  <2> HIDE DEF n
  <2> QED BY <1>1, <1>3, <2>1, Recursion, Zenon
<1>5. /\ f \in [0..n -> Int] /\ f[0] = 0
      /\ \A i \in 1..n : f[i] = Deeper(tokens[from + i - 1], f[i - 1])
  <2> HIDE DEF n
  <2>1. f \in [0..n -> Int]
    BY <1>4 DEF Runs
  <2>2. \A i \in 1..n : i - 1 \in 0..n /\ f[i - 1] \in Int
    BY <1>1, <2>1
  <2> QED BY <1>2, <1>4, <2>1, <2>2 DEF Goes
<1> DEFINE g == [j \in from..m + 1 |-> f[j - from]]
<1>6. \A i \in 0..n : g[from + i] = f[i]
  <2> SUFFICES ASSUME NEW i \in 0..n PROVE g[from + i] = f[i]
    OBVIOUS
  <2>1. from + i \in from..m + 1 /\ (from + i) - from = i
    BY <1>1
  <2> QED BY <2>1
<1>7. g = Def(g)
  <2>1. ASSUME NEW j \in from..m + 1 PROVE g[j] = Def(g)[j]
    <3> DEFINE i == j - from
    <3>1. i \in 0..n /\ j = from + i
      BY <1>1
    <3>2. CASE i = 0
      <4>1. j = from /\ g[j] = 0
        BY <1>5, <1>6, <3>1, <3>2
      <4> HIDE DEF g
      <4> QED BY <4>1
    <3>3. CASE i # 0
      <4>1. /\ i \in 1..n /\ i - 1 \in 0..n /\ j - 1 = from + (i - 1) /\ j - 1 = from + i - 1
            /\ j # from
        BY <1>1, <3>1, <3>3
      <4> HIDE DEF i, g
      <4>2. g[j] = Deeper(tokens[j - 1], f[i - 1]) /\ g[j - 1] = f[i - 1]
        BY <1>5, <1>6, <3>1, <4>1
      <4>3. g[j] = Deeper(tokens[j - 1], g[j - 1])
        BY <4>2
      <4> QED BY <4>1, <4>3 DEF Deeper
    <3> QED BY <3>2, <3>3
  <2> HIDE DEF m
  <2> QED BY <2>1
<1>8. depth = Def(depth)
  <2> HIDE DEF g
  <2> QED BY <1>7
<1> DEFINE stops == StopsAt(depth, tokens, from)
<1>9. StopOf(tokens, from) = IF stops = {} THEN m + 1 ELSE Least(stops)
  BY DEF StopOf, StopsAt
<1> HIDE DEF depth
<1>10. \A j \in from..m + 1 : depth[j] = Def(depth)[j]
  BY <1>8
<1>11. DepthsFrom(depth, tokens, from)
  <2>1. depth[from] = 0
    <3>1. from \in from..m + 1
      BY <1>1
    <3> HIDE DEF m
    <3> QED BY <1>10, <3>1
  <2>2. ASSUME NEW j \in from + 1..m + 1 PROVE depth[j] = Deeper(tokens[j - 1], depth[j - 1])
    <3>1. j \in from..m + 1 /\ j # from
      BY <1>1
    <3> HIDE DEF m
    <3> QED BY <1>10, <3>1 DEF Deeper
  <2> QED BY <2>1, <2>2 DEF DepthsFrom
<1> QED BY <1>9, <1>11

\* A text before a ")" or ";" is what the guard takes for a nested option.
LEMMA NestedIs ==
    ASSUME NEW tokens \in Seq(Tokens), NEW text \in Texts, NEW k, Occurs(text, tokens, k),
           k + Len(text) + 1 \in DOMAIN tokens,
           tokens[k + Len(text) + 1] \in {Mark(")"), Mark(Semicolon)}
    PROVE  SubSeq(tokens, k + 1, StopOf(tokens, k + 1) - 1) = text
<1> DEFINE from == k + 1
           n == Len(text)
           stop == k + n + 1
<1>1. /\ text \in Seq(Tokens) /\ n \in Nat /\ Len(tokens) \in Nat /\ k \in Nat
      /\ DOMAIN tokens = 1..Len(tokens) /\ stop \in 1..Len(tokens) /\ from \in 1..Len(tokens) + 1
      /\ from + n = stop
  BY LenProperties DEF Texts, Occurs
<1>2. PICK d \in [0..n -> Nat] : Depths(d, text)
  BY DEF Texts, Runs
<1>3. PICK depth : /\ DepthsFrom(depth, tokens, from)
                   /\ StopOf(tokens, from)
                        = IF StopsAt(depth, tokens, from) = {} THEN Len(tokens) + 1
                          ELSE Least(StopsAt(depth, tokens, from))
  BY <1>1, StopIs
<1>4. tokens[stop] \in {Mark(")"), Mark(Semicolon)}
  OBVIOUS
<1>5. \A j \in 1..n : tokens[k + j] = text[j]
  BY DEF Occurs
<1>6. d[0] = 0 /\ d[n] = 0
      /\ \A j \in 1..n : text[j] # Mark(Semicolon) /\ d[j] = Deeper(text[j], d[j - 1])
  BY <1>2 DEF Depths
<1> DEFINE f == [i \in 0..n |-> depth[from + i]]
<1>7. \A i \in 0..n : f[i] = d[i]
  <2>1. f[0] = d[0]
    <3>1. 0 \in 0..n /\ from + 0 = from
      BY <1>1
    <3>2. depth[from] = 0
      BY <1>3 DEF DepthsFrom
    <3> HIDE DEF from, n
    <3> QED BY <1>6, <3>1, <3>2
  <2>2. ASSUME NEW i \in 1..n, f[i - 1] = d[i - 1] PROVE f[i] = d[i]
    <3> DEFINE j == from + i
    <3>1. /\ j \in from + 1..Len(tokens) + 1 /\ j - 1 = k + i /\ j - 1 = from + (i - 1)
          /\ i \in 0..n /\ i - 1 \in 0..n
      BY <1>1
    <3>2. depth[j] = Deeper(tokens[j - 1], depth[j - 1])
      <4> HIDE DEF from, j
      <4> QED BY <1>3, <3>1 DEF DepthsFrom
    <3>3. f[i] = depth[j] /\ f[i - 1] = depth[j - 1]
      <4>1. f[i] = depth[from + i] /\ f[i - 1] = depth[from + (i - 1)]
        <5> HIDE DEF from, n
        <5> QED BY <3>1
      <4> HIDE DEF f, from, n
      <4> QED BY <3>1, <4>1 DEF j
    <3>4. tokens[j - 1] = text[i]
      BY <1>5, <3>1
    <3>5. d[i] = Deeper(text[i], d[i - 1])
      BY <1>6
    <3> HIDE DEF f, j, from, n
    <3> QED BY <2>2, <3>2, <3>3, <3>4, <3>5
  <2> HIDE DEF f, n
  <2>3. Together(f, d, n)
    BY <2>1, <2>2 DEF Together
  <2> QED BY <1>1, <2>3, Agree
<1>8. \A i \in 0..n : depth[from + i] = d[i]
  <2> HIDE DEF from, n
  <2> QED BY <1>7
<1> HIDE DEF f
<1> DEFINE stops == StopsAt(depth, tokens, from)
<1>9. stop \in stops
  <2>1. depth[stop] = 0
    <3>1. n \in 0..n
      BY <1>1
    <3>2. depth[from + n] = 0
      <4> HIDE DEF from, n
      <4> QED BY <1>6, <1>8, <3>1
    <3> HIDE DEF from, n, stop
    <3> QED BY <1>1, <3>2
  <2>2. At(tokens, stop, {")", Semicolon})
    BY <1>1, <1>4 DEF At
  <2>3. stop \in from..Len(tokens)
    BY <1>1
  <2> HIDE DEF stop, from
  <2> QED BY <2>1, <2>2, <2>3 DEF StopsAt
<1>10. ASSUME NEW j \in stops PROVE j >= stop
  <2>1. /\ j \in from..Len(tokens) /\ depth[j] = 0
        /\ tokens[j] \in {Mark(")"), Mark(Semicolon)}
    <3> HIDE DEF from
    <3> QED BY DEF StopsAt, At
  <2> SUFFICES ASSUME j < stop PROVE FALSE
    BY <1>1, <2>1
  <2> DEFINE i == j - from
  <2>2. /\ i \in 0..n /\ i + 1 \in 1..n /\ i + 1 \in 0..n /\ (i + 1) - 1 = i
        /\ k + (i + 1) = j /\ from + i = j
    BY <1>1, <2>1
  <2> HIDE DEF i, from, n, stop, stops
  <2>3. d[i] = 0
    BY <1>8, <2>1, <2>2
  <2>4. text[i + 1] = tokens[j]
    BY <1>5, <2>2
  <2>5. text[i + 1] # Mark(Semicolon) /\ d[i + 1] = Deeper(text[i + 1], d[i])
    BY <1>6, <2>2
  <2>6. text[i + 1] = Mark(")") /\ Mark(")") # Mark("(")
    <3>1. Mark(")") # Mark("(")
      BY TokensDiffer
    <3> QED BY <2>1, <2>4, <2>5, <3>1
  <2>7. d[i + 1] = 0 - 1 /\ d[i + 1] \in Nat
    BY <1>2, <2>2, <2>3, <2>5, <2>6 DEF Deeper
  <2> QED BY <2>7
<1>11. StopOf(tokens, from) = stop
  <2>1. stops \subseteq Int
    BY <1>1 DEF StopsAt
  <2> HIDE DEF stops, stop
  <2>2. Least(stops) \in stops /\ \A j \in stops : Least(stops) <= j
    BY <1>9, <1>10 DEF Least
  <2>3. Least(stops) = stop
    BY <1>1, <1>9, <1>10, <2>1, <2>2
  <2> QED BY <1>3, <1>9, <2>3 DEF stops
<1>12. SubSeq(tokens, from, stop - 1) = text
  <2> DEFINE last == stop - 1
             sub == SubSeq(tokens, from, last)
  <2>1. /\ from \in Int /\ last \in Int /\ last - from + 1 = n /\ (IF from <= last THEN n ELSE 0) = n
        /\ \A i \in from..last : tokens[i] \in Tokens
        /\ \A i \in 1..n : from + i - 1 = k + i
    BY <1>1, ElementOfSeq
  <2> HIDE DEF from, last, n
  <2>2. /\ sub \in Seq(Tokens) /\ Len(sub) = n
        /\ \A i \in 1..n : sub[i] = tokens[from + i - 1]
    BY <2>1, SubSeqProperties
  <2> HIDE DEF sub
  <2>3. \A i \in 1..n : sub[i] = text[i]
    BY <1>5, <2>1, <2>2
  <2>4. sub = text
    BY <1>1, <2>2, <2>3, SeqEqual DEF n
  <2> QED BY <2>4 DEF sub, last
<1> HIDE DEF stop
<1> QED BY <1>11, <1>12, Zenon DEF from

\* An option as it is written below.
AskedText(o) == <<Word(o.name), Mark("=")>> \o TextBelow(o)
AskedTexts(option) == [i \in DOMAIN option.below |-> AskedText(option.below[i])]

LEMMA AskedTextIs ==
    ASSUME NEW o \in SimpleOptions
    PROVE  /\ Word(o.name) \in Tokens /\ Mark("=") \in Tokens /\ TextBelow(o) \in Seq(Tokens)
           /\ AskedText(o) \in Seq(Tokens) /\ Len(AskedText(o)) \in Nat
<1>1. o.name \in Names
  BY DEF SimpleOptions, Names
<1>2. Word(o.name) \in Tokens /\ Mark("=") \in Tokens
  BY <1>1, TokenType
<1>3. TextBelow(o) \in Seq(Tokens)
  BY TextBelowIs DEF Texts
<1>4. AskedText(o) \in Seq(Tokens)
  BY <1>2, <1>3, TwoBefore DEF AskedText
<1> QED BY <1>2, <1>3, <1>4, LenProperties

\* What an $expand asks for below, where it is let through, is let through.
LEMMA BelowLetThrough ==
    ASSUME NEW pii, NEW x \in Expansions, ~ExpandRefused(pii, TextOf(x)), NEW i \in 1..Len(x.below)
    PROVE  LetThrough(pii, AnyEntity, x.below[i])
<1> DEFINE o == x.below[i]
           text == AskedText(o)
           nested == TextBelow(o)
           texts == AskedTexts(x)
           mark == Mark(Semicolon)
           whole == Joined(texts, mark)
           head == <<Word("nav")>>
           parens == InParens(whole)
           tokens == TextOf(x)
<1>1. /\ x.below \in Seq(SimpleOptions) /\ x.name = "expand"
      /\ DOMAIN x.below = 1..Len(x.below) /\ Len(x.below) \in Nat
      /\ \A j \in 1..Len(x.below) : x.below[j] \in SimpleOptions
  <2>1. x.below \in Seq(SimpleOptions) /\ x.name = "expand"
    BY DEF Expansions
  <2> QED BY <2>1, LenProperties, ElementOfSeq
<1>2. /\ texts \in Seq(Seq(Tokens)) /\ i \in 1..Len(texts) /\ texts[i] = text
  <2>1. texts = [j \in 1..Len(x.below) |-> AskedText(x.below[j])]
    BY <1>1 DEF AskedTexts
  <2>2. \A j \in 1..Len(x.below) : AskedText(x.below[j]) \in Seq(Tokens)
    BY <1>1, AskedTextIs
  <2>3. texts \in Seq(Seq(Tokens))
    BY <1>1, <2>1, <2>2, IsASeq
  <2>4. DOMAIN texts = 1..Len(x.below)
    BY <2>1
  <2>5. texts[i] = text
    BY <2>1
  <2> HIDE DEF texts, text
  <2> QED BY <2>3, <2>4, <2>5, LenProperties
<1>3. mark \in Tokens
  BY TokenType
<1>4. /\ o \in SimpleOptions /\ text \in Seq(Tokens) /\ Len(text) \in Nat /\ nested \in Texts
      /\ Word(o.name) \in Tokens /\ Mark("=") \in Tokens /\ nested \in Seq(Tokens)
      /\ text = <<Word(o.name), Mark("=")>> \o nested
  BY <1>1, AskedTextIs, TextBelowIs DEF AskedText
<1>5. tokens = head \o parens
  BY <1>1 DEF TextOf, AskedTexts, AskedText
<1>6. head \in Seq(Tokens) /\ Len(head) = 1
  <2>1. "nav" \in Names
    BY DEF Names
  <2>2. Word("nav") \in Tokens
    BY <2>1, TokenType
  <2> QED BY <2>2
<1>7. ~ExpandRefused(pii, tokens)
  OBVIOUS
<1> HIDE DEF o, text, nested, texts, mark, head, tokens
<1>8. whole \in Seq(Tokens) /\ \E k \in Nat : Part(text, whole, mark, k)
  BY <1>2, <1>3, JoinedAt
<1> HIDE DEF whole
<1>9. parens \in Seq(Tokens) /\ Len(parens) = Len(whole) + 2 /\ Len(whole) \in Nat
  BY <1>8, InParensIs
<1> HIDE DEF parens
<1>10. tokens \in Seq(Tokens) /\ Occurs(parens, tokens, 1)
  <2>1. head \o parens \in Seq(Tokens) /\ Occurs(parens, head \o parens, Len(head))
    BY <1>6, <1>9, OccursConcat
  <2>2. tokens \in Seq(Tokens) /\ Occurs(parens, tokens, Len(head))
    BY <1>5, <2>1, Zenon
  <2> QED BY <1>6, <2>2
<1>11. /\ Occurs(whole, tokens, 1 + 1) /\ 1 + Len(whole) + 2 <= Len(tokens)
       /\ tokens[1 + Len(whole) + 2] = Mark(")")
  BY <1>8, <1>10, ParensWithin DEF parens
<1>12. Len(tokens) \in Nat /\ DOMAIN tokens = 1..Len(tokens)
  BY <1>10, LenProperties
<1> DEFINE b == 1 + 1
<1>13. /\ b = 2 /\ Occurs(whole, tokens, b) /\ b + Len(whole) + 1 = 1 + Len(whole) + 2
       /\ b + Len(whole) + 1 \in DOMAIN tokens
       /\ Followed(tokens, b + Len(whole) + 1, {Mark(")")})
  BY <1>9, <1>11, <1>12 DEF Followed
<1> HIDE DEF b
<1>14. PICK k \in Nat : Part(text, whole, mark, k)
  BY <1>8
<1> DEFINE q == k + Len(text) + 1
           m == b + k
<1>15. Occurs(text, whole, k) /\ Followed(whole, q, {mark}) /\ q \in 1..Len(whole) + 1
  <2>1. Occurs(text, whole, k) /\ Followed(whole, q, {mark})
    BY <1>14 DEF Part
  <2>2. k + Len(text) <= Len(whole)
    BY <2>1 DEF Occurs
  <2> QED BY <1>4, <1>9, <2>1, <2>2
<1>16. Occurs(text, tokens, m)
  BY <1>4, <1>9, <1>12, <1>13, <1>15, OccursWithin
<1>17. /\ m + Len(text) + 1 \in DOMAIN tokens
       /\ tokens[m + Len(text) + 1] \in {Mark(")"), Mark(Semicolon)}
  <2>1. Followed(tokens, b + q, {mark} \union {Mark(")")})
    <3> HIDE DEF q
    <3> QED BY <1>8, <1>10, <1>13, <1>15, FollowedWithin
  <2>2. b + q = m + Len(text) + 1 /\ b + q \in 1..Len(tokens)
    BY <1>4, <1>9, <1>12, <1>13, <1>15
  <2> HIDE DEF q, m
  <2> QED BY <1>12, <2>1, <2>2 DEF Followed, mark
<1> HIDE DEF m, q
<1>18. /\ m \in Nat /\ m + 1 \in DOMAIN tokens /\ m + 2 \in DOMAIN tokens
       /\ tokens[m + 1] = Word(o.name) /\ tokens[m + 2] = Mark("=") /\ Occurs(nested, tokens, m + 2)
       /\ m + Len(text) + 1 = (m + 2) + Len(nested) + 1
  BY <1>4, <1>10, <1>16, TwoWithin
<1>19. SubSeq(tokens, (m + 2) + 1, StopOf(tokens, (m + 2) + 1) - 1) = nested
  <2> DEFINE c == m + 2
  <2>1. /\ Occurs(nested, tokens, c) /\ c + Len(nested) + 1 \in DOMAIN tokens
        /\ tokens[c + Len(nested) + 1] \in {Mark(")"), Mark(Semicolon)}
    BY <1>17, <1>18
  <2> HIDE DEF c
  <2>2. SubSeq(tokens, c + 1, StopOf(tokens, c + 1) - 1) = nested
    BY <1>4, <1>10, <2>1, NestedIs
  <2> QED BY <2>2 DEF c
<1> DEFINE n == m + 1
<1>20. n + 1 = m + 2 /\ n + 2 = (m + 2) + 1
  BY <1>18
<1>21. /\ n \in DOMAIN tokens /\ tokens[n] = Word(o.name) /\ At(tokens, n + 1, {"="})
       /\ SubSeq(tokens, n + 2, StopOf(tokens, n + 2) - 1) = nested
  BY <1>18, <1>19, <1>20 DEF At
<1> HIDE DEF n
<1>22. o.name \in Nested => ~(IF o.name = "search" THEN nested # <<>>
                              ELSE ExpressionRefused(pii, o.name, nested, AnyEntity))
  BY <1>7, <1>21, Zenon DEF ExpandRefused
<1>23. LetThrough(pii, AnyEntity, o)
  <2>1. "search" \in Nested
    BY DEF Nested
  <2> QED BY <1>22, <2>1 DEF LetThrough, nested
<1> QED BY <1>23 DEF o

\* What does not name a value spares it.
LEMMA NamedSpares ==
    ASSUME NEW option, NEW v, NEW w, v \notin Named(option), w \notin Named(option),
           NEW o \in {option} \union ToSet(option.below), NEW i \in DOMAIN o.terms,
           DOMAIN o.terms[i].with = 1..Len(o.terms[i].with)
    PROVE  Spared(o.terms[i], v, w)
<1> DEFINE term == o.terms[i]
           terms == UNION {ToSet(p.terms) : p \in {option} \union ToSet(option.below)}
           withs == UNION {ToSet(t.with) : t \in terms}
<1>1. term \in terms
  <2>1. term \in ToSet(o.terms)
    BY DEF ToSet
  <2> QED BY <2>1
<1> HIDE DEF terms
<1>2. ASSUME NEW j \in 1..Len(term.with), IsNamed(term.with[j])
      PROVE  term.with[j].value \in Named(option)
  <2> DEFINE y == term.with[j]
  <2>1. y \in ToSet(term.with)
    BY DEF ToSet
  <2>2. y \in withs
    BY <1>1, <2>1
  <2> HIDE DEF withs, y
  <2>3. y.value \in {x.value : x \in {z \in withs : z.kind = "str" /\ z.token}}
    BY <1>2, <2>2 DEF IsNamed, y
  <2>4. Named(option) = {x.value : x \in {z \in withs : z.kind = "str" /\ z.token}}
    BY DEF Named, withs, terms
  <2> QED BY <2>3, <2>4 DEF y
<1>3. Spared(term, v, w)
  <2> HIDE DEF term
  <2> QED BY <1>2 DEF Spared
<1> QED BY <1>3

LEMMA SimpleLetThrough ==
    ASSUME NEW pii, NEW entity, NEW o \in SimpleOptions,
           ~OptionRefused(pii, o.name, TextOf(o), entity)
    PROVE  LetThrough(pii, entity, o)
<1>1. o.name # "expand" /\ TextOf(o) = TextBelow(o)
  BY OptionIs DEF TextOf
<1>2. ~OptionRefused(pii, o.name, TextBelow(o), entity)
  BY <1>1
<1>3. CASE o.name = "search"
  <2>1. TextBelow(o) = <<>>
    BY <1>2, <1>3 DEF OptionRefused, Nested
  <2> QED BY <1>3, <2>1 DEF LetThrough
<1>4. CASE o.name \in Nested \ {"search"}
  <2>1. ~ExpressionRefused(pii, o.name, TextBelow(o), entity)
    BY <1>1, <1>2, <1>4 DEF OptionRefused
  <2> QED BY <1>4, <2>1 DEF LetThrough
<1>5. CASE o.name \notin Nested
  BY <1>5 DEF LetThrough, Nested
<1> QED BY <1>3, <1>4, <1>5

LEMMA ExpandLetThrough ==
    ASSUME NEW pii, NEW entity, NEW x \in Expansions,
           ~OptionRefused(pii, x.name, TextOf(x), entity)
    PROVE  ~ExpandRefused(pii, TextOf(x))
<1>1. x.name = "expand"
  BY DEF Expansions
<1> QED BY <1>1 DEF OptionRefused, Nested

\* An option that is let through tells nothing of the one value or the other, unless it
\* names one of them.
LEMMA OptionTells ==
    ASSUME NEW pii, NEW entity, NEW row, NEW v, NEW w, Asking(pii, entity, row, v, w),
           Nothing \notin DOMAIN Spelling,
           NEW option \in SimpleOptions \union Expansions,
           ~OptionRefused(pii, option.name, TextOf(option), entity),
           v \notin Named(option), w \notin Named(option)
    PROVE  Told(option, row) = Told(option, Other(pii, entity, row, v, w))
<1>1. ASSUME NEW o \in SimpleOptions, o \in {option} \union ToSet(option.below)
      PROVE  \A i \in 1..Len(o.terms) : Spared(o.terms[i], v, w)
  <2> SUFFICES ASSUME NEW i \in 1..Len(o.terms) PROVE Spared(o.terms[i], v, w)
    OBVIOUS
  <2>1. o.terms \in Seq(Comparisons) /\ i \in DOMAIN o.terms /\ o.terms[i] \in Comparisons
    BY OptionIs, LenProperties, ElementOfSeq
  <2>2. o.terms[i].with \in Seq(Operands)
    BY <2>1, ComparisonIs
  <2>3. DOMAIN o.terms[i].with = 1..Len(o.terms[i].with)
    BY <2>2, LenProperties
  <2> QED BY <1>1, <2>1, <2>3, NamedSpares
<1>2. CASE option \in SimpleOptions
  <2>1. LetThrough(pii, entity, option)
    BY <1>2, SimpleLetThrough
  <2>2. <<>> \in Ats /\ Fits(entity, entity, <<>>, <<>>)
    BY DEF Ats, Fits
  <2>3. \A i \in 1..Len(option.terms) : Spared(option.terms[i], v, w)
    BY <1>1, <1>2
  <2>4. ASSUME NEW at \in Ats, Fits(entity, entity, at, <<>>)
        PROVE  ToldAt(option, row, at) = ToldAt(option, Other(pii, entity, row, v, w), at)
    BY <1>2, <2>1, <2>3, <2>4, ToldKept
  <2>5. ToldAt(option, row, <<>>) = ToldAt(option, Other(pii, entity, row, v, w), <<>>)
    BY <2>2, <2>4
  <2>6. option.name # "expand"
    BY <1>2, OptionIs
  <2> QED BY <2>5, <2>6 DEF Told
<1>3. CASE option \in Expansions
  <2> DEFINE new == Other(pii, entity, row, v, w)
             BelowTold(r) == [i \in DOMAIN option.below |-> ToldAt(option.below[i], r, <<"nav">>)]
  <2>1. /\ option.name = "expand" /\ option.below \in Seq(SimpleOptions)
        /\ DOMAIN option.below = 1..Len(option.below)
    <3>1. option.name = "expand" /\ option.below \in Seq(SimpleOptions)
      BY <1>3 DEF Expansions
    <3> QED BY <3>1, LenProperties
  <2>2. <<"nav">> \in Ats /\ Fits(AnyEntity, entity, <<"nav">>, <<>>)
    <3>1. <<"nav">> # <<>>
      OBVIOUS
    <3> QED BY <3>1 DEF Ats, Fits
  <2>3. ASSUME NEW i \in 1..Len(option.below), NEW at \in Ats, Fits(AnyEntity, entity, at, <<>>)
        PROVE  ToldAt(option.below[i], row, at) = ToldAt(option.below[i], new, at)
    <3> DEFINE o == option.below[i]
    <3>1. o \in SimpleOptions /\ o \in ToSet(option.below)
      BY <2>1, ElementOfSeq DEF ToSet
    <3>2. LetThrough(pii, AnyEntity, o)
      BY <1>3, ExpandLetThrough, BelowLetThrough
    <3> HIDE DEF o
    <3>3. \A j \in 1..Len(o.terms) : Spared(o.terms[j], v, w)
      BY <1>1, <3>1
    <3>4. ToldAt(o, row, at) = ToldAt(o, new, at)
      BY <2>3, <3>1, <3>2, <3>3, ToldKept
    <3> QED BY <3>4 DEF o
  <2> HIDE DEF new
  <2>4. BelowTold(row) = BelowTold(new)
    <3>1. \A i \in DOMAIN option.below :
             ToldAt(option.below[i], row, <<"nav">>) = ToldAt(option.below[i], new, <<"nav">>)
      BY <2>1, <2>2, <2>3
    <3> QED BY <3>1
  <2>5. Places(new) = Places(row)
    BY OtherPlaces DEF new
  <2>6. \A r : Told(option, r) = IF <<"nav">> \notin Places(r) THEN <<>> ELSE FlattenSeq(BelowTold(r))
    BY <2>1 DEF Told
  <2> HIDE DEF BelowTold
  <2> QED BY <2>4, <2>5, <2>6 DEF new
<1> QED BY <1>2, <1>3

-----------------------------------------------------------------------------
\* What was written is a request, and what is sent was let through.
Asked ==
    /\ step \in {"written", "sent"} =>
          \E known \in SUBSET DOMAIN Spelling : written \in Requests(known)
    /\ step = "sent" /\ Filtered => ~Guarded(written)

LEMMA AskedStep ==
    ASSUME ExchangeTypeOK, Asked, [ExchangeNext]_exchangeVars
    PROVE  Asked'
<1>1. CASE ReadPage \/ ReadLeaf \/ Fault \/ Detail \/ Done
  <2>1. step' \notin {"written", "sent"}
    BY <1>1 DEF ReadPage, ReadLeaf, Fault, Detail, Done, Show
  <2> QED BY <2>1 DEF Asked
<1>2. CASE Write
  <2>1. vault \union {Foreign} \in SUBSET DOMAIN Spelling
    BY RequestsAssumption DEF ExchangeTypeOK
  <2>2. written' \in Requests(vault \union {Foreign}) /\ step' = "written"
    BY <1>2 DEF Write
  <2> QED BY <2>1, <2>2 DEF Asked
<1>3. CASE PiiRequest
  <2>1. /\ written' = written /\ config' = config /\ step = "written"
        /\ step' = "sent" /\ Filtered => ~Guarded(written)
    BY <1>3 DEF PiiRequest
  <2>2. (Filtered' <=> Filtered) /\ (Guarded(written)' <=> Guarded(written))
    BY <2>1 DEF Filtered, Guarded, Pii
  <2> QED BY <2>1, <2>2 DEF Asked
<1>4. CASE UNCHANGED exchangeVars
  BY <1>4 DEF exchangeVars, Asked, Filtered, Guarded, Pii
<1> QED BY <1>1, <1>2, <1>3, <1>4 DEF ExchangeNext

LEMMA AskedTold ==
    ASSUME ExchangeTypeOK, Asked
    PROVE  OnlyEqualityTold
<1> DEFINE entity == QueryEntity(written.path)
<1> SUFFICES ASSUME step = "sent", Filtered,
                    NEW option \in ToSet(QueryOptions(written)), NEW row \in Answers(entity),
                    NEW v \in ValuesIn(row) \ Named(option), NEW w \in ValuesIn(row) \ Named(option)
             PROVE  Told(option, Exchanged(row, Visit(Pii, row, entity, FALSE, TRUE), v, w))
                       = Told(option, row)
  BY DEF OnlyEqualityTold
<1>1. PICK known \in SUBSET DOMAIN Spelling : written \in Requests(known)
  BY DEF Asked
<1>2. /\ Nothing \notin DOMAIN Spelling
      /\ option \in SimpleOptions \union Expansions
      /\ entity \notin {"*", AnyEntity} /\ IsRow(row, entity)
  BY <1>1, QueriesAssumption
<1>3. ~OptionRefused(Pii, option.name, TextOf(option), entity)
  BY DEF Asked, Guarded
<1> HIDE DEF entity
<1>4. v \in DOMAIN Spelling /\ w \in DOMAIN Spelling
  <2>1. row.cells[<<>>] \in [Fields -> Cells]
    BY <1>2 DEF IsRow, Records
  <2>2. \A f \in Fields : row.cells[<<>>][f].kind \in Scalars => row.cells[<<>>][f].value \in DOMAIN Spelling
    BY <2>1 DEF Cells, Gone, Scalars
  <2> QED BY <2>2 DEF ValuesIn
<1>5. IsFilter(Pii) /\ DOMAIN BuiltIn \subseteq DOMAIN Pii.map
  <2>1. IsFilter(Pii)
    BY PiiIsFilter DEF Filtered
  <2>2. DOMAIN Pii.map = DOMAIN BuiltIn \union DOMAIN config.extra
    BY DEF Pii, FilterOf, Merged
  <2> QED BY <2>1, <2>2
<1>6. Asking(Pii, entity, row, v, w)
  BY <1>2, <1>4, <1>5 DEF Asking
<1>7. Told(option, row) = Told(option, Other(Pii, entity, row, v, w))
  BY <1>2, <1>3, <1>6, OptionTells
<1> QED BY <1>7 DEF Other, entity

\* The guard and the walk agree (check_query against tokenize_records): in every language
\* of the shapes above, for any map and any records, what an option that is let through
\* tells of a record is the same with another value where the walk shows a token, unless
\* the query names one of the two.
THEOREM OnlyEqualityLetThrough == ExchangeSpec => []OnlyEqualityTold
<1>1. ExchangeInit => Asked
  BY DEF ExchangeInit, Asked
<1>2. ExchangeTypeOK /\ Asked /\ [ExchangeNext]_exchangeVars => Asked'
  BY AskedStep
<1>3. ExchangeTypeOK /\ Asked => OnlyEqualityTold
  BY AskedTold
<1> QED BY <1>1, <1>2, <1>3, ExchangeTypeCorrect, PTL DEF ExchangeSpec

-----------------------------------------------------------------------------
(* Error bodies: values replaced by tokens again *)

LetterAtoms == [letter : Letters, code : Codes \union {"mark"}]

LEMMA LettersAre ==
    /\ LetterAtoms \subseteq Atoms /\ \A a \in LetterAtoms : ~IsTok(a)
    /\ \A a \in Atoms : ~IsTok(a) => a \in LetterAtoms
  BY AtomIs DEF LetterAtoms, Atoms, IsTok

LEMMA CodedLetters ==
    ASSUME NEW s \in Seq(LetterAtoms), NEW c \in Codes
    PROVE  Coded(s, c) \in Seq(LetterAtoms)
<1>1. Len(s) \in Nat /\ DOMAIN s = 1..Len(s) /\ \A i \in 1..Len(s) : s[i] \in LetterAtoms
  BY LenProperties, ElementOfSeq
<1>2. \A a \in LetterAtoms : [a EXCEPT !.code = c] \in LetterAtoms
  BY DEF LetterAtoms
<1> DEFINE CodedAt(i) == IF ~IsTok(s[i]) /\ s[i].code = "raw" /\ s[i].letter \in Special[c]
                         THEN [s[i] EXCEPT !.code = c] ELSE s[i]
<1>3. \A i \in 1..Len(s) : CodedAt(i) \in LetterAtoms
  BY <1>1, <1>2
<1>4. Coded(s, c) = [i \in 1..Len(s) |-> CodedAt(i)]
  BY <1>1 DEF Coded
<1> HIDE DEF CodedAt
<1> QED BY <1>1, <1>3, <1>4

LEMMA RawLetters ==
    ASSUME NEW letters \in Seq(Letters)
    PROVE  Raw(letters) \in Seq(LetterAtoms)
<1>1. Len(letters) \in Nat /\ DOMAIN letters = 1..Len(letters)
      /\ \A i \in 1..Len(letters) : letters[i] \in Letters
  BY LenProperties, ElementOfSeq
<1>2. \A x \in Letters : Letter(x, "raw") \in LetterAtoms
  BY DEF Letter, LetterAtoms, Codes
<1>3. Raw(letters) = [i \in 1..Len(letters) |-> Letter(letters[i], "raw")]
  BY <1>1 DEF Raw
<1> QED BY <1>1, <1>2, <1>3

LEMMA SpellingIs ==
    ASSUME NEW text \in Seq(Atoms), NEW i \in 1..Len(text), IsTok(text[i])
    PROVE  Spelling[text[i].token] \in Seq(Letters) /\ text[i].token \in DOMAIN Spelling
<1>1. text[i] \in Atoms
  BY ElementOfSeq
<1> QED BY <1>1, AtomIs, TextAssumption

LEMMA InsertedLetters ==
    ASSUME NEW text \in Seq(Atoms), NEW i \in 1..Len(text), IsTok(text[i]), NEW encode \in BOOLEAN
    PROVE  Inserted(text, i, encode) \in Seq(LetterAtoms)
<1>1. /\ LettersFor(text, i) \in Seq(Letters)
      /\ Inserted(text, i, encode) \in {Raw(LettersFor(text, i)), Coded(Raw(LettersFor(text, i)), "pct")}
  BY InsertedIs
<1>2. "pct" \in Codes
  BY DEF Codes
<1> QED BY <1>1, <1>2, RawLetters, CodedLetters

-----------------------------------------------------------------------------
(* The substitutions *)

LEMMA ImageFinite ==
    ASSUME NEW S, IsFiniteSet(S), NEW f, DOMAIN f = S
    PROVE  IsFiniteSet({f[x] : x \in S})
<1> DEFINE T == {f[x] : x \in S}
           g == [x \in S |-> f[x]]
<1>1. g \in Surjection(S, T)
  BY DEF Surjection
<1> HIDE DEF T, g
<1>2. IsFiniteSet(T)
  BY <1>1, FS_Surjection
<1> QED BY <1>2 DEF T

LEMMA FormsAre ==
    ASSUME NEW text \in Seq(Atoms), NEW i \in 1..Len(text), IsTok(text[i]), NEW encode \in BOOLEAN
    PROVE  IsFiniteSet(Forms(text, i, encode)) /\ Forms(text, i, encode) \subseteq Seq(LetterAtoms)
<1> DEFINE letters == Spelling[text[i].token]
           few == {Raw(letters), Coded(Raw(letters), "pct"), Coded(Raw(letters), "html"),
                   Inserted(text, i, encode)}
           literal == IF InLiteral(text, i) THEN {Raw(Escaped(letters))} ELSE {}
           plain == few \union literal
           json == [form \in plain |-> Coded(form, "json")]
<1>1. letters \in Seq(Letters)
  BY SpellingIs
<1>2. /\ Raw(letters) \in Seq(LetterAtoms) /\ Raw(Escaped(letters)) \in Seq(LetterAtoms)
      /\ Inserted(text, i, encode) \in Seq(LetterAtoms)
  <2> HIDE DEF letters
  <2>1. Escaped(letters) \in Seq(Letters)
    BY <1>1, EscapedIs
  <2> QED BY <1>1, <2>1, RawLetters, InsertedLetters
<1>3. {"pct", "html", "json"} \subseteq Codes
  BY DEF Codes
<1> HIDE DEF letters
<1>4. plain \subseteq Seq(LetterAtoms)
  BY <1>2, <1>3, CodedLetters
<1>5. IsFiniteSet(plain)
  <2> DEFINE r == Raw(letters)
             p == Coded(r, "pct")
             h == Coded(r, "html")
             s == Inserted(text, i, encode)
  <2>1. IsFiniteSet({r}) /\ IsFiniteSet(literal)
    BY FS_Singleton, FS_EmptySet
  <2> HIDE DEF literal, r, p, h, s
  <2>2. IsFiniteSet({r} \union {p})
    BY <2>1, FS_AddElement
  <2>3. IsFiniteSet(({r} \union {p}) \union {h})
    BY <2>2, FS_AddElement
  <2>4. IsFiniteSet((({r} \union {p}) \union {h}) \union {s})
    BY <2>3, FS_AddElement
  <2>5. few = (({r} \union {p}) \union {h}) \union {s}
    BY DEF r, p, h, s
  <2> HIDE DEF few
  <2> QED BY <2>1, <2>4, <2>5, FS_Union
<1> HIDE DEF plain
<1>6. IsFiniteSet({json[form] : form \in plain})
  <2>1. DOMAIN json = plain
    OBVIOUS
  <2> HIDE DEF json
  <2> QED BY <1>5, <2>1, ImageFinite
<1>7. {json[form] : form \in plain} = {Coded(form, "json") : form \in plain}
  OBVIOUS
<1>8. Forms(text, i, encode) = plain \union {Coded(form, "json") : form \in plain}
  BY DEF Forms, plain, few, literal, letters
<1>9. {Coded(form, "json") : form \in plain} \subseteq Seq(LetterAtoms)
  BY <1>3, <1>4, CodedLetters
<1> HIDE DEF json
<1> DEFINE more == {Coded(form, "json") : form \in plain}
<1>10. IsFiniteSet(more)
  BY <1>6, <1>7, Zenon
<1> HIDE DEF more
<1>11. IsFiniteSet(plain \union more)
  BY <1>5, <1>10, FS_Union
<1>12. Forms(text, i, encode) = plain \union more /\ more \subseteq Seq(LetterAtoms)
  BY <1>8, <1>9, Zenon DEF more
<1> QED BY <1>4, <1>11, <1>12

\* Substitutions of forms, which are letters, by tokens of the texts.
IsSubs(f, forms, tokens) ==
    /\ DOMAIN f = forms /\ IsFiniteSet(forms) /\ forms \subseteq Seq(LetterAtoms)
    /\ \A form \in forms : f[form] \in Atoms /\ IsTok(f[form]) /\ f[form].token \in tokens

FormsIn(text, encode) == UNION {Forms(text, i, encode) : i \in {j \in DOMAIN text : IsTok(text[j])}}

LEMMA SubstitutionsAre ==
    ASSUME NEW text \in Seq(Atoms), NEW encode \in BOOLEAN
    PROVE  IsSubs(Substitutions(text, encode), FormsIn(text, encode), TokensOf(text))
<1> DEFINE n == Len(text)
           toks == {j \in DOMAIN text : IsTok(text[j])}
           With(form) == {i \in DOMAIN text : IsTok(text[i]) /\ form \in Forms(text, i, encode)}
           forms == FormsIn(text, encode)
<1>1. n \in Nat /\ DOMAIN text = 1..n /\ \A i \in 1..n : text[i] \in Atoms
  BY LenProperties, ElementOfSeq
<1>2. Substitutions(text, encode) = [form \in forms |-> text[Max(With(form))]]
  BY DEF Substitutions, FormsIn
<1>3. \A form \in forms : Max(With(form)) \in toks
  <2> SUFFICES ASSUME NEW form \in forms PROVE Max(With(form)) \in toks
    OBVIOUS
  <2> DEFINE W == With(form)
             D == {n - i : i \in W}
  <2>0. PICK i \in toks : form \in Forms(text, i, encode)
    BY Zenon DEF FormsIn
  <2>1. W \subseteq 1..n /\ W # {}
    <3>1. i \in W
      BY <2>0
    <3>2. W \subseteq DOMAIN text
      OBVIOUS
    <3> HIDE DEF W
    <3> QED BY <1>1, <3>1, <3>2
  <2> HIDE DEF W, n
  <2>2. D \subseteq Nat /\ D # {}
    <3>1. \A j \in W : n - j \in Nat
      BY <1>1, <2>1
    <3>2. D # {}
      BY <2>1, Zenon
    <3> QED BY <3>1, <3>2
  <2> HIDE DEF D
  <2>3. PICK d \in D : \A e \in D : d <= e
    BY <2>2, NatMin
  <2> USE DEF D
  <2>4. PICK last \in W : d = n - last
    BY <2>3
  <2>5. \A j \in W : last >= j
    <3> SUFFICES ASSUME NEW j \in W PROVE last >= j
      OBVIOUS
    <3>1. n - j \in D
      OBVIOUS
    <3>2. n - last <= n - j
      BY <2>3, <2>4, <3>1
    <3> QED BY <1>1, <2>1, <3>2
  <2>6. Max(W) \in W
    BY <2>5 DEF Max
  <2> QED BY <2>6 DEF W
<1>4. IsFiniteSet(forms)
  <2> DEFINE f == [i \in toks |-> Forms(text, i, encode)]
  <2>1. IsFiniteSet(toks)
    <3>1. toks \subseteq DOMAIN text
      OBVIOUS
    <3> HIDE DEF n, toks
    <3>2. IsFiniteSet(1..n)
      BY <1>1, FS_Interval
    <3> QED BY <1>1, <3>1, <3>2, FS_Subset
  <2>2. \A i \in toks : IsFiniteSet(f[i])
    BY <1>1, FormsAre
  <2>3. DOMAIN f = toks /\ forms = UNION {f[i] : i \in toks}
    BY DEF FormsIn
  <2> HIDE DEF f, toks, forms
  <2>4. IsFiniteSet({f[i] : i \in toks})
    BY <2>1, <2>3, ImageFinite
  <2> QED BY <2>2, <2>3, <2>4, FS_UNION
<1>5. forms \subseteq Seq(LetterAtoms)
  BY <1>1, FormsAre DEF FormsIn
<1> HIDE DEF With, forms
<1>6. \A form \in forms : text[Max(With(form))] \in Atoms /\ IsTok(text[Max(With(form))])
                          /\ text[Max(With(form))].token \in TokensOf(text)
  BY <1>1, <1>3 DEF TokensOf
<1> QED BY <1>2, <1>4, <1>5, <1>6 DEF IsSubs, forms

LEMMA SubsMerged ==
    ASSUME NEW f, NEW g, NEW F, NEW G, NEW T, NEW U, IsSubs(f, F, T), IsSubs(g, G, U)
    PROVE  IsSubs(Updated(f, g), F \union G, T \union U)
<1>1. IsFiniteSet(F \union G)
  BY FS_Union DEF IsSubs
<1> DEFINE h == Updated(f, g)
<1>2. DOMAIN h = F \union G /\ \A form \in F \union G : h[form] = IF form \in G THEN g[form] ELSE f[form]
  BY DEF IsSubs, Updated
<1> HIDE DEF h
<1>3. \A form \in F \union G : h[form] \in Atoms /\ IsTok(h[form]) /\ h[form].token \in T \union U
  <2> SUFFICES ASSUME NEW form \in F \union G
               PROVE  h[form] \in Atoms /\ IsTok(h[form]) /\ h[form].token \in T \union U
    OBVIOUS
  <2>1. CASE form \in G
    BY <1>2, <2>1 DEF IsSubs
  <2>2. CASE form \notin G
    BY <1>2, <2>2 DEF IsSubs
  <2> QED BY <2>1, <2>2
<1> QED BY <1>1, <1>2, <1>3 DEF IsSubs, h

-----------------------------------------------------------------------------
(* One value replaced *)

\* What follows from position i, by what follows from later ones.
ReplacedFrom(f, text, plain, token, i) ==
    IF i + Len(plain) > Len(text) + 1 THEN SubSeq(text, i, Len(text))
    ELSE IF SubSeq(text, i, i + Len(plain) - 1) = plain THEN <<token>> \o f[i + Len(plain)]
    ELSE <<text[i]>> \o f[i + 1]

LEMMA ConsIs ==
    ASSUME NEW S, NEW x \in S, NEW s \in Seq(S)
    PROVE  /\ <<x>> \o s \in Seq(S) /\ Len(<<x>> \o s) = Len(s) + 1 /\ Len(s) \in Nat
           /\ (<<x>> \o s)[1] = x /\ \A i \in 1..Len(s) : (<<x>> \o s)[i + 1] = s[i]
<1>1. <<x>> \in Seq(S) /\ Len(<<x>>) = 1 /\ <<x>>[1] = x /\ Len(s) \in Nat
  BY LenProperties
<1> DEFINE u == <<x>>
           r == u \o s
<1>2. /\ r \in Seq(S) /\ Len(r) = 1 + Len(s)
      /\ \A i \in 1..1 + Len(s) : r[i] = IF i <= 1 THEN u[i] ELSE s[i - 1]
  <2> HIDE DEF u
  <2>1. u \in Seq(S) /\ Len(u) = 1
    BY <1>1 DEF u
  <2>2. r \in Seq(S) /\ Len(r) = Len(u) + Len(s)
    BY <2>1, ConcatProperties
  <2>3. \A i \in 1..Len(u) + Len(s) : r[i] = IF i <= Len(u) THEN u[i] ELSE s[i - Len(u)]
    BY <2>1, ConcatProperties
  <2> HIDE DEF r
  <2> QED BY <2>1, <2>2, <2>3
<1> HIDE DEF r
<1>3. r[1] = x
  BY <1>1, <1>2
<1>4. \A i \in 1..Len(s) : r[i + 1] = s[i]
  <2> HIDE DEF u
  <2> SUFFICES ASSUME NEW i \in 1..Len(s) PROVE r[i + 1] = s[i]
    OBVIOUS
  <2>1. i + 1 \in 1..1 + Len(s) /\ ~(i + 1 <= 1) /\ (i + 1) - 1 = i
    BY <1>1
  <2> QED BY <1>2, <2>1
<1> QED BY <1>1, <1>2, <1>3, <1>4 DEF r

LEMMA ReplacedRuns ==
    ASSUME NEW text \in Seq(Atoms), NEW plain \in Seq(LetterAtoms), plain # <<>>, NEW token
    PROVE  \E f : /\ \A i \in 1..Len(text) + 1 : f[i] = ReplacedFrom(f, text, plain, token, i)
                  /\ Replaced(text, plain, token) = f[1]
<1> DEFINE L == Len(text)
           n == Len(plain)
           From(f, i) == ReplacedFrom(f, text, plain, token, i)
           Upto(k) == L + 1 - k..L + 1
           T == {k \in Nat : k <= L => \E f : f = [i \in Upto(k) |-> From(f, i)]}
<1>1. L \in Nat /\ n \in Nat \ {0}
  BY LenProperties, EmptySeq
<1>2. ASSUME NEW i \in 1..L + 1, NEW f, NEW g, \A j \in i + 1..L + 1 : f[j] = g[j]
      PROVE  From(f, i) = From(g, i)
  <2> HIDE DEF L, n
  <2>1. ~(i + n > L + 1) => i + n \in i + 1..L + 1 /\ i + 1 \in i + 1..L + 1
    BY <1>1
  <2>2. ~(i + n > L + 1) => f[i + n] = g[i + n] /\ f[i + 1] = g[i + 1]
    BY <1>2, <2>1
  <2> QED BY <2>2 DEF ReplacedFrom, L, n
<1> HIDE DEF From
<1>3. 0 \in T
  <2> DEFINE f == [i \in Upto(0) |-> From(<<>>, i)]
  <2>1. \A i \in Upto(0) : i \in 1..L + 1 /\ i + 1..L + 1 = {}
    BY <1>1
  <2>2. \A i \in Upto(0) : From(<<>>, i) = From(f, i)
    <3> HIDE DEF f, Upto, L
    <3> QED BY <1>2, <2>1
  <2>3. f = [i \in Upto(0) |-> From(f, i)]
    <3> HIDE DEF Upto
    <3>1. f = [i \in Upto(0) |-> From(<<>>, i)]
      OBVIOUS
    <3> HIDE DEF f
    <3> QED BY <2>2, <3>1, Zenon
  <2> HIDE DEF f, Upto
  <2> QED BY <2>3
<1>4. ASSUME NEW k \in Nat, k \in T PROVE k + 1 \in T
  <2> SUFFICES ASSUME k + 1 <= L PROVE \E f : f = [i \in Upto(k + 1) |-> From(f, i)]
    OBVIOUS
  <2>1. PICK f : f = [i \in Upto(k) |-> From(f, i)]
    BY <1>1, <1>4
  <2> DEFINE at == L - k
             g == [i \in Upto(k + 1) |-> IF i = at THEN From(f, at) ELSE f[i]]
  <2>2. /\ Upto(k + 1) = {at} \union Upto(k) /\ at \notin Upto(k)
        /\ \A i \in Upto(k + 1) : i \in 1..L + 1 /\ i + 1..L + 1 \subseteq Upto(k)
    BY <1>1
  <2> HIDE DEF Upto, at
  <2>3. g[at] = From(f, at) /\ \A i \in Upto(k) : g[i] = f[i]
    BY <2>2
  <2>4. \A i \in Upto(k) : f[i] = From(f, i)
    BY <2>1
  <2>5. DOMAIN g = Upto(k + 1) /\ g = [i \in Upto(k + 1) |-> g[i]]
    BY Zenon
  <2> HIDE DEF g, L
  <2>6. \A i \in Upto(k + 1) : From(f, i) = From(g, i)
    <3> SUFFICES ASSUME NEW i \in Upto(k + 1) PROVE From(f, i) = From(g, i)
      OBVIOUS
    <3>1. \A j \in i + 1..L + 1 : f[j] = g[j]
      BY <2>2, <2>3
    <3> QED BY <1>2, <2>2, <3>1
  <2>7. \A i \in Upto(k + 1) : g[i] = From(g, i)
    BY <2>2, <2>3, <2>4, <2>6
  <2>8. g = [i \in Upto(k + 1) |-> From(g, i)]
    BY <2>5, <2>7, Zenon
  <2> QED BY <2>8
<1>5. L \in T
  <2>1. Nat \subseteq T
    <3> HIDE DEF T
    <3> QED BY <1>3, <1>4, Induction
  <2> QED BY <1>1, <2>1
<1> DEFINE Def(g) == [i \in 1..L + 1 |-> From(g, i)]
           from == CHOOSE g : g = Def(g)
<1>6. \E f : f = Def(f)
  <2>1. Upto(L) = 1..L + 1
    BY <1>1
  <2> HIDE DEF Upto, L
  <2> QED BY <1>1, <1>5, <2>1
<1>7. from = Def(from)
  <2> HIDE DEF Def
  <2> QED BY <1>6
<1>8. \A i \in 1..L + 1 : from[i] = From(from, i)
  <2> HIDE DEF from, L
  <2> QED BY <1>7
<1>9. Replaced(text, plain, token) = from[1]
  BY Zenon DEF Replaced, from, Def, From, ReplacedFrom, L
<1> HIDE DEF from
<1> QED BY <1>8, <1>9 DEF From

\* What r has, with the places from i on of the text gone through: it is made of the
\* text and of tokens, its letters stand beside each other as they did in the text, and
\* plain is not among them.
MadeOf(r, text, token) ==
    r \in Seq(Atoms) /\ \A j \in 1..Len(r) : r[j] = token \/ \E i \in 1..Len(text) : r[j] = text[i]
BeginsAs(r, text, i) ==
    \A m \in 0..Len(r) : (\A j \in 1..m : ~IsTok(r[j])) =>
       i - 1 + m <= Len(text) /\ \A j \in 1..m : r[j] = text[i - 1 + j]
RunsAs(r, text) ==
    \A seg \in Seq(LetterAtoms) : \A k : Occurs(seg, r, k) => \E q : Occurs(seg, text, q)
Absent(plain, r) == \A k : ~Occurs(plain, r, k)

LEMMA RunsAsLater ==
    ASSUME NEW x \in Atoms, NEW rest \in Seq(Atoms),
           NEW seg \in Seq(LetterAtoms), NEW k, k # 0, Occurs(seg, <<x>> \o rest, k)
    PROVE  Occurs(seg, rest, k - 1)
<1> DEFINE r == <<x>> \o rest
<1>1. Len(r) = Len(rest) + 1 /\ Len(rest) \in Nat /\ \A i \in 1..Len(rest) : r[i + 1] = rest[i]
  BY ConsIs
<1>2. Len(seg) \in Nat
  BY LenProperties
<1> HIDE DEF r
<1>3. k \in Nat /\ k + Len(seg) <= Len(r) /\ \A j \in 1..Len(seg) : r[k + j] = seg[j]
  BY DEF Occurs, r
<1>4. ASSUME NEW j \in 1..Len(seg) PROVE rest[(k - 1) + j] = seg[j]
  <2>1. (k - 1) + j \in 1..Len(rest) /\ ((k - 1) + j) + 1 = k + j
    BY <1>1, <1>2, <1>3
  <2> QED BY <1>1, <1>3, <2>1
<1> QED BY <1>1, <1>2, <1>3, <1>4 DEF Occurs

Good(r, text, plain, token, i) ==
    MadeOf(r, text, token) /\ BeginsAs(r, text, i) /\ RunsAs(r, text) /\ Absent(plain, r)

LEMMA OccursLetter ==
    ASSUME NEW seg \in Seq(LetterAtoms), NEW r, NEW k, Occurs(seg, r, k), NEW j \in 1..Len(seg)
    PROVE  ~IsTok(r[k + j]) /\ r[k + j] \in LetterAtoms
<1>1. seg[j] \in LetterAtoms /\ r[k + j] = seg[j]
  BY ElementOfSeq DEF Occurs
<1> QED BY <1>1, LettersAre

LEMMA NothingOccurs ==
    ASSUME NEW text \in Seq(Atoms), NEW seg, Len(seg) = 0
    PROVE  Occurs(seg, text, 0)
  BY LenProperties DEF Occurs

LEMMA EndGood ==
    ASSUME NEW text \in Seq(Atoms), NEW plain \in Seq(LetterAtoms), NEW token \in Atoms,
           NEW i \in 1..Len(text) + 1, i + Len(plain) > Len(text) + 1
    PROVE  Good(SubSeq(text, i, Len(text)), text, plain, token, i)
<1> DEFINE L == Len(text)
           r == SubSeq(text, i, L)
<1>1. L \in Nat /\ Len(plain) \in Nat /\ \A j \in 1..L : text[j] \in Atoms
  BY LenProperties, ElementOfSeq
<1>2. r \in Seq(Atoms) /\ Len(r) = L + 1 - i /\ \A j \in 1..L + 1 - i : r[j] = text[i - 1 + j]
  <2>1. \A j \in i..L : text[j] \in Atoms
    BY <1>1
  <2> HIDE DEF L
  <2>2. /\ r \in Seq(Atoms) /\ Len(r) = IF i <= L THEN L - i + 1 ELSE 0
        /\ \A j \in 1..L - i + 1 : r[j] = text[i + j - 1]
    BY <1>1, <2>1, SubSeqProperties
  <2> HIDE DEF r
  <2>3. L - i + 1 = L + 1 - i /\ \A j \in 1..L + 1 - i : i + j - 1 = i - 1 + j
    BY <1>1
  <2>4. Len(r) = L + 1 - i
    BY <1>1, <2>2 DEF L
  <2> QED BY <2>2, <2>3, <2>4
<1> HIDE DEF r
<1>3. MadeOf(r, text, token)
  <2>1. \A j \in 1..Len(r) : i - 1 + j \in 1..Len(text)
    BY <1>1, <1>2
  <2> QED BY <1>2, <2>1 DEF MadeOf
<1>4. BeginsAs(r, text, i)
  BY <1>1, <1>2 DEF BeginsAs
<1>5. RunsAs(r, text)
  <2> SUFFICES ASSUME NEW seg \in Seq(LetterAtoms), NEW k, Occurs(seg, r, k)
               PROVE  Occurs(seg, text, i - 1 + k)
    BY DEF RunsAs
  <2>1. k \in Nat /\ k + Len(seg) <= Len(r) /\ Len(seg) \in Nat
    BY LenProperties DEF Occurs
  <2>2. ASSUME NEW j \in 1..Len(seg) PROVE text[(i - 1 + k) + j] = seg[j]
    <3>1. k + j \in 1..L + 1 - i /\ i - 1 + (k + j) = (i - 1 + k) + j
      BY <1>1, <1>2, <2>1
    <3>2. r[k + j] = text[i - 1 + (k + j)] /\ r[k + j] = seg[j]
      BY <1>2, <3>1 DEF Occurs
    <3> QED BY <3>1, <3>2
  <2> QED BY <1>1, <1>2, <2>1, <2>2 DEF Occurs
<1>6. Absent(plain, r)
  BY <1>1, <1>2 DEF Absent, Occurs
<1> QED BY <1>3, <1>4, <1>5, <1>6 DEF Good, r

LEMMA TokenGood ==
    ASSUME NEW text \in Seq(Atoms), NEW plain \in Seq(LetterAtoms), plain # <<>>, NEW token \in Atoms,
           IsTok(token), NEW i \in 1..Len(text) + 1, NEW rest, NEW n, Good(rest, text, plain, token, n)
    PROVE  Good(<<token>> \o rest, text, plain, token, i)
<1> DEFINE r == <<token>> \o rest
<1>0. rest \in Seq(Atoms) /\ Len(text) \in Nat /\ Len(plain) \in Nat \ {0}
  BY LenProperties, EmptySeq DEF Good, MadeOf
<1>1. /\ r \in Seq(Atoms) /\ Len(r) = Len(rest) + 1 /\ Len(rest) \in Nat
      /\ r[1] = token /\ \A j \in 1..Len(rest) : r[j + 1] = rest[j]
  BY <1>0, ConsIs
<1>2. \A seg \in Seq(LetterAtoms) : \A k : Occurs(seg, r, k) /\ k # 0 => Occurs(seg, rest, k - 1)
  BY <1>0, RunsAsLater
<1> HIDE DEF r
<1>3. \A seg \in Seq(LetterAtoms) : Occurs(seg, r, 0) => Len(seg) = 0
  <2> SUFFICES ASSUME NEW seg \in Seq(LetterAtoms), Occurs(seg, r, 0), Len(seg) # 0 PROVE FALSE
    OBVIOUS
  <2>1. 1 \in 1..Len(seg) /\ 0 + 1 = 1
    BY LenProperties
  <2> QED BY <1>1, <2>1, OccursLetter
<1>4. MadeOf(r, text, token)
  <2>1. \A j \in 1..Len(r) : j = 1 \/ (j - 1 \in 1..Len(rest) /\ (j - 1) + 1 = j)
    BY <1>1
  <2>2. \A j \in 1..Len(rest) : rest[j] = token \/ \E m \in 1..Len(text) : rest[j] = text[m]
    BY DEF Good, MadeOf
  <2>3. \A j \in 1..Len(r) : r[j] = token \/ \E m \in 1..Len(text) : r[j] = text[m]
    <3> SUFFICES ASSUME NEW j \in 1..Len(r), j # 1
                 PROVE  r[j] = token \/ \E m \in 1..Len(text) : r[j] = text[m]
      BY <1>1
    <3>1. r[j] = rest[j - 1] /\ j - 1 \in 1..Len(rest)
      BY <1>1, <2>1
    <3> QED BY <2>2, <3>1
  <2> QED BY <1>1, <2>3 DEF MadeOf
<1>5. BeginsAs(r, text, i)
  <2> SUFFICES ASSUME NEW m \in 0..Len(r), \A j \in 1..m : ~IsTok(r[j])
               PROVE  i - 1 + m <= Len(text) /\ \A j \in 1..m : r[j] = text[i - 1 + j]
    BY DEF BeginsAs
  <2>1. m = 0
    BY <1>1
  <2> QED BY <1>0, <2>1
<1>6. RunsAs(r, text)
  <2> SUFFICES ASSUME NEW seg \in Seq(LetterAtoms), NEW k, Occurs(seg, r, k)
               PROVE  \E q : Occurs(seg, text, q)
    BY DEF RunsAs
  <2>1. CASE k = 0
    BY <1>3, <2>1, NothingOccurs
  <2>2. CASE k # 0
    BY <1>2, <2>2 DEF Good, RunsAs
  <2> QED BY <2>1, <2>2
<1>7. Absent(plain, r)
  <2> SUFFICES ASSUME NEW k, Occurs(plain, r, k) PROVE FALSE
    BY DEF Absent
  <2>1. k # 0
    BY <1>0, <1>3
  <2> QED BY <1>2, <2>1 DEF Good, Absent
<1> QED BY <1>4, <1>5, <1>6, <1>7 DEF Good, r

LEMMA LetterGood ==
    ASSUME NEW text \in Seq(Atoms), NEW plain \in Seq(LetterAtoms), plain # <<>>, NEW token \in Atoms,
           NEW i \in 1..Len(text), i + Len(plain) <= Len(text) + 1,
           SubSeq(text, i, i + Len(plain) - 1) # plain,
           NEW rest, Good(rest, text, plain, token, i + 1)
    PROVE  Good(<<text[i]>> \o rest, text, plain, token, i)
<1> DEFINE r == <<text[i]>> \o rest
           n == Len(plain)
<1>0. /\ rest \in Seq(Atoms) /\ Len(text) \in Nat /\ n \in Nat \ {0}
      /\ \A j \in 1..Len(text) : text[j] \in Atoms
  BY LenProperties, EmptySeq, ElementOfSeq DEF Good, MadeOf
<1>1. /\ r \in Seq(Atoms) /\ Len(r) = Len(rest) + 1 /\ Len(rest) \in Nat
      /\ r[1] = text[i] /\ \A j \in 1..Len(rest) : r[j + 1] = rest[j]
  <2>1. text[i] \in Atoms
    BY <1>0
  <2> QED BY <1>0, <2>1, ConsIs
<1>2. \A seg \in Seq(LetterAtoms) : \A k : Occurs(seg, r, k) /\ k # 0 => Occurs(seg, rest, k - 1)
  BY <1>0, RunsAsLater
<1> HIDE DEF r
<1>3. MadeOf(r, text, token)
  <2>2. \A j \in 1..Len(rest) : rest[j] = token \/ \E m \in 1..Len(text) : rest[j] = text[m]
    BY DEF Good, MadeOf
  <2>3. \A j \in 1..Len(r) : r[j] = token \/ \E m \in 1..Len(text) : r[j] = text[m]
    <3> SUFFICES ASSUME NEW j \in 1..Len(r), j # 1
                 PROVE  r[j] = token \/ \E m \in 1..Len(text) : r[j] = text[m]
      BY <1>1
    <3>1. j - 1 \in 1..Len(rest) /\ (j - 1) + 1 = j
      BY <1>1
    <3>2. r[j] = rest[j - 1]
      BY <1>1, <3>1
    <3> QED BY <2>2, <3>1, <3>2
  <2> QED BY <1>1, <2>3 DEF MadeOf
<1>4. BeginsAs(r, text, i)
  <2> SUFFICES ASSUME NEW m \in 0..Len(r), \A j \in 1..m : ~IsTok(r[j])
               PROVE  i - 1 + m <= Len(text) /\ \A j \in 1..m : r[j] = text[i - 1 + j]
    BY DEF BeginsAs
  <2>1. CASE m = 0
    BY <1>0, <2>1
  <2>2. CASE m # 0
    <3>1. m - 1 \in 0..Len(rest)
      BY <1>1, <2>2
    <3>2. \A j \in 1..m - 1 : j + 1 \in 1..m /\ j \in 1..Len(rest)
      BY <1>1, <2>2
    <3>3. \A j \in 1..m - 1 : ~IsTok(rest[j])
      BY <1>1, <3>2
    <3>4. (i + 1) - 1 + (m - 1) <= Len(text) /\ \A j \in 1..m - 1 : rest[j] = text[(i + 1) - 1 + j]
      BY <3>1, <3>3 DEF Good, BeginsAs
    <3>5. ASSUME NEW j \in 1..m PROVE r[j] = text[i - 1 + j]
      <4>1. CASE j = 1
        <5>1. i - 1 + 1 = i
          OBVIOUS
        <5> QED BY <1>1, <4>1, <5>1
      <4>2. CASE j # 1
        <5>1. j - 1 \in 1..m - 1 /\ (j - 1) + 1 = j /\ (i + 1) - 1 + (j - 1) = i - 1 + j
          BY <2>2, <4>2
        <5>2. r[j] = rest[j - 1]
          BY <1>1, <3>2, <5>1
        <5> QED BY <3>4, <5>1, <5>2
      <4> QED BY <4>1, <4>2
    <3>6. i - 1 + m <= Len(text)
      BY <1>0, <3>4
    <3> QED BY <3>5, <3>6
  <2> QED BY <2>1, <2>2
<1>5. \A seg \in Seq(LetterAtoms) : Occurs(seg, r, 0) => Occurs(seg, text, i - 1)
  <2> SUFFICES ASSUME NEW seg \in Seq(LetterAtoms), Occurs(seg, r, 0)
               PROVE  Occurs(seg, text, i - 1)
    OBVIOUS
  <2>1. Len(seg) \in 0..Len(r) /\ \A j \in 1..Len(seg) : r[j] = seg[j] /\ ~IsTok(r[j])
    <3>1. 0 + Len(seg) <= Len(r) /\ \A j \in 1..Len(seg) : r[0 + j] = seg[j]
      BY Zenon DEF Occurs
    <3>2. \A j \in 1..Len(seg) : ~IsTok(r[0 + j])
      BY OccursLetter
    <3>3. Len(seg) \in Nat
      BY LenProperties
    <3>4. \A j \in 1..Len(seg) : 0 + j = j
      BY <3>3
    <3>5. Len(seg) \in 0..Len(r)
      BY <1>1, <3>1, <3>3
    <3> QED BY <3>1, <3>2, <3>4, <3>5
  <2>2. i - 1 + Len(seg) <= Len(text) /\ \A j \in 1..Len(seg) : r[j] = text[i - 1 + j]
    BY <1>4, <2>1 DEF BeginsAs
  <2>3. \A j \in 1..Len(seg) : text[i - 1 + j] = seg[j]
    BY <2>1, <2>2, Zenon
  <2>4. i - 1 \in Nat
    BY <1>0
  <2> QED BY <2>2, <2>3, <2>4 DEF Occurs
<1>6. RunsAs(r, text)
  BY <1>2, <1>5 DEF Good, RunsAs
<1>7. Absent(plain, r)
  <2> SUFFICES ASSUME NEW k, Occurs(plain, r, k) PROVE FALSE
    BY DEF Absent
  <2>1. CASE k = 0
    <3>1. \A j \in 1..n : text[i - 1 + j] = plain[j]
      BY <1>5, <2>1 DEF Occurs
    <3> DEFINE sub == SubSeq(text, i, i + n - 1)
    <3>2. \A j \in i..i + n - 1 : text[j] \in Atoms
      BY <1>0
    <3> HIDE DEF n
    <3>3. sub \in Seq(Atoms) /\ Len(sub) = n /\ \A j \in 1..n : sub[j] = text[i - 1 + j]
      <4>1. i + n - 1 \in Int /\ i <= i + n - 1 /\ (i + n - 1) - i + 1 = n /\ \A j \in 1..n : i + j - 1 = i - 1 + j
        BY <1>0
      <4> DEFINE last == i + n - 1
      <4>2. last \in Int /\ i \in Int /\ i <= last /\ \A j \in i..last : text[j] \in Atoms
        BY <3>2, <4>1
      <4> HIDE DEF last
      <4>3. /\ SubSeq(text, i, last) \in Seq(Atoms) /\ Len(SubSeq(text, i, last)) = last - i + 1
            /\ \A j \in 1..last - i + 1 : SubSeq(text, i, last)[j] = text[i + j - 1]
        BY <4>2, SubSeqProperties
      <4>4. last - i + 1 = n /\ SubSeq(text, i, last) = sub
        BY <4>1 DEF last
      <4> HIDE DEF sub
      <4> QED BY <4>1, <4>3, <4>4
    <3>4. plain \in Seq(Atoms)
      BY LettersAre, SeqWider
    <3>5. sub = plain
      BY <3>1, <3>3, <3>4, SeqEqual DEF n
    <3> QED BY <3>5 DEF n
  <2>2. CASE k # 0
    BY <1>2, <2>2 DEF Good, Absent
  <2> QED BY <2>1, <2>2
<1> QED BY <1>3, <1>4, <1>6, <1>7 DEF Good, r

\* str.replace leaves nothing of what it replaces, and puts no two letters beside each other.
LEMMA ReplacedIs ==
    ASSUME NEW text \in Seq(Atoms), NEW plain \in Seq(LetterAtoms), plain # <<>>, NEW token \in Atoms,
           IsTok(token)
    PROVE  Good(Replaced(text, plain, token), text, plain, token, 1)
<1> DEFINE L == Len(text)
           n == Len(plain)
<1>0. L \in Nat /\ n \in Nat \ {0}
  BY LenProperties, EmptySeq
<1>1. PICK f :
              /\ \A i \in 1..L + 1 : f[i] = ReplacedFrom(f, text, plain, token, i)
              /\ Replaced(text, plain, token) = f[1]
  BY ReplacedRuns
<1> DEFINE GoodAt(i) == Good(f[i], text, plain, token, i)
           Todo == {i \in 1..L + 1 : ~GoodAt(i)}
<1>2. ASSUME NEW i \in 1..L + 1, \A j \in i + 1..L + 1 : GoodAt(j)
      PROVE  GoodAt(i)
  <2>1. f[i] = ReplacedFrom(f, text, plain, token, i)
    BY <1>1
  <2>2. CASE i + n > L + 1
    <3>1. f[i] = SubSeq(text, i, L)
      BY <2>1, <2>2 DEF ReplacedFrom
    <3> QED BY <2>2, <3>1, EndGood
  <2>3. CASE ~(i + n > L + 1) /\ SubSeq(text, i, i + n - 1) = plain
    <3>1. f[i] = <<token>> \o f[i + n]
      BY <2>1, <2>3 DEF ReplacedFrom
    <3>2. i + n \in i + 1..L + 1
      BY <1>0, <2>3
    <3>3. Good(f[i + n], text, plain, token, i + n)
      BY <1>2, <3>2
    <3> QED BY <3>1, <3>3, TokenGood
  <2>4. CASE ~(i + n > L + 1) /\ SubSeq(text, i, i + n - 1) # plain
    <3>1. f[i] = <<text[i]>> \o f[i + 1]
      BY <2>1, <2>4 DEF ReplacedFrom
    <3>2. i + 1 \in i + 1..L + 1 /\ i \in 1..L /\ i + n <= L + 1
      BY <1>0, <2>4
    <3>3. Good(f[i + 1], text, plain, token, i + 1)
      BY <1>2, <3>2
    <3> QED BY <2>4, <3>1, <3>2, <3>3, LetterGood
  <2> QED BY <2>2, <2>3, <2>4
<1> HIDE DEF GoodAt
<1>3. Todo = {}
  <2> SUFFICES ASSUME Todo # {} PROVE FALSE
    OBVIOUS
  <2> DEFINE Left == {(L + 1) - i : i \in Todo}
  <2>1. Left \subseteq Nat /\ Left # {}
    BY <1>0
  <2> HIDE DEF Left
  <2>2. PICK d \in Left : \A e \in Left : d <= e
    BY <2>1, NatMin
  <2>3. PICK i \in Todo : d = (L + 1) - i
    BY DEF Left
  <2>4. ASSUME NEW j \in i + 1..L + 1, ~GoodAt(j) PROVE FALSE
    <3>1. j \in Todo
      BY <1>0, <2>4
    <3>2. (L + 1) - j \in Left
      BY <3>1 DEF Left
    <3>3. (L + 1) - i <= (L + 1) - j
      BY <2>2, <2>3, <3>2
    <3> QED BY <1>0, <2>4, <3>1, <3>3
  <2>5. i \in 1..L + 1 /\ ~GoodAt(i)
    OBVIOUS
  <2> QED BY <1>2, <2>4, <2>5
<1>4. 1 \in 1..L + 1
  BY <1>0
<1>5. GoodAt(1)
  <2> HIDE DEF L
  <2> QED BY <1>3, <1>4
<1> QED BY <1>1, <1>5 DEF GoodAt

\* What is left once the forms of S have been replaced, the last of them by swaps.
AfterLast(f, text, swaps, S) ==
    IF S = {} THEN text ELSE Replaced(f[S \ {Final(S)}], Final(S), swaps[Final(S)])

ReplacesAll(f, text, swaps, F) ==
    /\ \A S \in SUBSET F : f[S] = AfterLast(f, text, swaps, S)
    /\ Retokenized(text, swaps) = f[F]

LEMMA FinalIs ==
    ASSUME NEW S, S # {}, S \subseteq Seq(LetterAtoms)
    PROVE  Final(S) \in S
<1> DEFINE N == {Len(form) : form \in S}
<1>1. N \subseteq Nat /\ N # {}
  <2>1. \A form \in S : Len(form) \in Nat
    BY LenProperties
  <2> QED BY <2>1
<1> HIDE DEF N
<1>2. PICK n \in N : \A m \in N : n <= m
  BY <1>1, NatMin
<1>3. PICK form \in S : n = Len(form)
  BY DEF N
<1>4. \A other \in S : Len(form) <= Len(other)
  BY <1>2, <1>3 DEF N
<1> QED BY <1>4, Zenon DEF Final

\* Sets with no more than n members, of a finite one.
LEMMA Smaller ==
    ASSUME NEW F, IsFiniteSet(F), NEW S \in SUBSET F
    PROVE  /\ IsFiniteSet(S) /\ Cardinality(S) \in Nat /\ Cardinality(S) <= Cardinality(F)
           /\ Cardinality(S) = 0 <=> S = {}
           /\ \A x \in S : Cardinality(S \ {x}) = Cardinality(S) - 1
<1>1. IsFiniteSet(S) /\ Cardinality(S) <= Cardinality(F)
  BY FS_Subset
<1> QED BY <1>1, FS_CardinalityType, FS_EmptySet, FS_RemoveElement

LEMMA RetokenizedRuns ==
    ASSUME NEW text, NEW swaps, NEW forms, NEW tokens, IsSubs(swaps, forms, tokens)
    PROVE  \E f : ReplacesAll(f, text, swaps, forms \ {<<>>})
<1> DEFINE F == forms \ {<<>>}
           From(f, S) == AfterLast(f, text, swaps, S)
           Small(n) == {S \in SUBSET F : Cardinality(S) <= n}
           T == {n \in Nat : \E f : f = [S \in Small(n) |-> From(f, S)]}
<1>1. IsFiniteSet(F) /\ F \subseteq Seq(LetterAtoms) /\ DOMAIN swaps = forms
  BY FS_Subset DEF IsSubs
<1>2. ASSUME NEW f, NEW g, NEW S, S # {} => f[S \ {Final(S)}] = g[S \ {Final(S)}]
      PROVE  From(f, S) = From(g, S)
  BY <1>2 DEF AfterLast
<1>3. ASSUME NEW n \in Nat, NEW S \in Small(n + 1), S # {}
      PROVE  S \ {Final(S)} \in Small(n)
  <2>1. Final(S) \in S /\ S \in SUBSET F
    BY <1>1, <1>3, FinalIs
  <2> HIDE DEF F
  <2>2. Cardinality(S \ {Final(S)}) = Cardinality(S) - 1 /\ Cardinality(S) \in Nat
    BY <1>1, <2>1, Smaller
  <2> QED BY <1>3, <2>1, <2>2
<1>4. Small(0) = {{}}
  <2> HIDE DEF F
  <2>1. \A S \in SUBSET F : Cardinality(S) <= 0 <=> S = {}
    BY <1>1, Smaller
  <2> QED BY <2>1
<1>5. \A n \in Nat : Small(n) \subseteq Small(n + 1)
  <2> HIDE DEF F
  <2>1. \A S \in SUBSET F : Cardinality(S) \in Nat
    BY <1>1, Smaller
  <2> QED BY <2>1
<1>6. F \in Small(Cardinality(F)) /\ Cardinality(F) \in Nat /\ Small(Cardinality(F)) = SUBSET F
  <2> HIDE DEF F
  <2>1. \A S \in SUBSET F : Cardinality(S) \in Nat /\ Cardinality(S) <= Cardinality(F)
    BY <1>1, Smaller
  <2> QED BY <2>1
<1> HIDE DEF From, Small, F
<1>7. 0 \in T
  <2> DEFINE f == [S \in Small(0) |-> From(<<>>, S)]
  <2>1. \A S \in Small(0) : From(<<>>, S) = From(f, S)
    <3> HIDE DEF f
    <3> QED BY <1>2, <1>4
  <2>2. f = [S \in Small(0) |-> From(<<>>, S)]
    OBVIOUS
  <2> HIDE DEF f
  <2>3. f = [S \in Small(0) |-> From(f, S)]
    BY <2>1, <2>2, Zenon
  <2> QED BY <2>3
<1>8. ASSUME NEW n \in Nat, n \in T PROVE n + 1 \in T
  <2>1. PICK f : f = [S \in Small(n) |-> From(f, S)]
    BY <1>8
  <2> DEFINE g == [S \in Small(n + 1) |-> IF S \in Small(n) THEN f[S] ELSE From(f, S)]
  <2>2. \A S \in Small(n) : g[S] = f[S] /\ f[S] = From(f, S)
    <3>1. \A S \in Small(n) : g[S] = f[S]
      BY <1>5
    <3> HIDE DEF g
    <3> QED BY <2>1, <3>1
  <2>3. \A S \in Small(n + 1) : g[S] = From(f, S)
    <3>1. \A S \in Small(n + 1) : g[S] = IF S \in Small(n) THEN f[S] ELSE From(f, S)
      OBVIOUS
    <3> HIDE DEF g
    <3> QED BY <2>2, <3>1
  <2>4. g = [S \in Small(n + 1) |-> g[S]]
    BY Zenon
  <2> HIDE DEF g
  <2>5. \A S \in Small(n + 1) : From(f, S) = From(g, S)
    <3> SUFFICES ASSUME NEW S \in Small(n + 1) PROVE From(f, S) = From(g, S)
      OBVIOUS
    <3>1. S # {} => f[S \ {Final(S)}] = g[S \ {Final(S)}]
      BY <1>3, <2>2
    <3> QED BY <1>2, <3>1
  <2>6. g = [S \in Small(n + 1) |-> From(g, S)]
    BY <2>3, <2>4, <2>5, Zenon
  <2> QED BY <2>6
<1>9. Cardinality(F) \in T
  <2>1. Nat \subseteq T
    <3> HIDE DEF T
    <3> QED BY <1>7, <1>8, Induction
  <2> HIDE DEF T
  <2> QED BY <1>6, <2>1
<1> DEFINE Def(g) == [S \in SUBSET F |-> From(g, S)]
           after == CHOOSE g : g = Def(g)
<1>10. \E g : g = Def(g)
  BY <1>6, <1>9
<1>11. after = Def(after)
  <2> HIDE DEF Def
  <2> QED BY <1>10
<1>12. \A S \in SUBSET F : after[S] = From(after, S)
  <2> HIDE DEF after
  <2> QED BY <1>11
<1>13. Retokenized(text, swaps) = after[F]
  BY <1>1, Zenon DEF Retokenized, after, Def, From, AfterLast, F
<1> HIDE DEF after
<1> QED BY <1>12, <1>13 DEF From, ReplacesAll, F


\* A text of which some forms have been replaced.
Retold(r, text, forms, tokens) ==
    /\ r \in Seq(Atoms) /\ TokensOf(r) \subseteq TokensOf(text) \union tokens
    /\ \A form \in forms : Absent(form, r)

LEMMA RetoldMore ==
    ASSUME NEW text \in Seq(Atoms), NEW r, NEW forms, NEW tokens, Retold(r, text, forms, tokens),
           NEW plain \in Seq(LetterAtoms), plain # <<>>, forms \subseteq Seq(LetterAtoms),
           NEW token \in Atoms, IsTok(token), token.token \in tokens
    PROVE  Retold(Replaced(r, plain, token), text, forms \union {plain}, tokens)
<1> DEFINE s == Replaced(r, plain, token)
<1>1. r \in Seq(Atoms)
  BY DEF Retold
<1>2. Good(s, r, plain, token, 1)
  BY <1>1, ReplacedIs
<1> HIDE DEF s
<1>3. Len(s) \in Nat /\ DOMAIN s = 1..Len(s) /\ DOMAIN r = 1..Len(r) /\ s \in Seq(Atoms)
  BY <1>1, <1>2, LenProperties DEF Good, MadeOf
<1>4. TokensOf(s) \subseteq TokensOf(text) \union tokens
  <2> SUFFICES ASSUME NEW j \in DOMAIN s, IsTok(s[j])
               PROVE  s[j].token \in TokensOf(text) \union tokens
    BY DEF TokensOf
  <2>1. s[j] = token \/ \E i \in 1..Len(r) : s[j] = r[i]
    BY <1>2, <1>3 DEF Good, MadeOf
  <2>2. CASE s[j] = token
    BY <2>2
  <2>3. ASSUME NEW i \in 1..Len(r), s[j] = r[i] PROVE s[j].token \in TokensOf(text) \union tokens
    <3>1. s[j].token \in TokensOf(r)
      BY <1>3, <2>3 DEF TokensOf
    <3> QED BY <3>1 DEF Retold
  <2> QED BY <2>1, <2>2, <2>3
<1>5. ASSUME NEW form \in forms PROVE Absent(form, s)
  <2> SUFFICES ASSUME NEW k, Occurs(form, s, k) PROVE FALSE
    BY DEF Absent
  <2>1. PICK q : Occurs(form, r, q)
    BY <1>2 DEF Good, RunsAs
  <2> QED BY <2>1 DEF Retold, Absent
<1>6. Absent(plain, s)
  BY <1>2 DEF Good
<1>7. \A form \in forms \union {plain} : Absent(form, s)
  BY <1>5, <1>6
<1> QED BY <1>3, <1>4, <1>7 DEF Retold, s

LEMMA RetokenizedIs ==
    ASSUME NEW text \in Seq(Atoms), NEW swaps, NEW forms, NEW tokens, IsSubs(swaps, forms, tokens)
    PROVE  Retold(Retokenized(text, swaps), text, forms \ {<<>>}, tokens)
<1> DEFINE F == forms \ {<<>>}
<1>1. IsFiniteSet(F) /\ F \subseteq Seq(LetterAtoms) /\ <<>> \notin F
  BY FS_Subset DEF IsSubs
<1>2. \A form \in F : swaps[form] \in Atoms /\ IsTok(swaps[form]) /\ swaps[form].token \in tokens
  BY DEF IsSubs
<1>3. PICK f : /\ \A S \in SUBSET F : f[S] = AfterLast(f, text, swaps, S)
               /\ Retokenized(text, swaps) = f[F]
  <2>1. \E f : ReplacesAll(f, text, swaps, F)
    BY RetokenizedRuns
  <2> QED BY <2>1 DEF ReplacesAll
<1> HIDE DEF F
<1> DEFINE GoodFor(S) == Retold(f[S], text, S, tokens)
           T == {n \in Nat : \A S \in SUBSET F : Cardinality(S) = n => GoodFor(S)}
<1>4. ASSUME NEW S \in SUBSET F, S = {} PROVE GoodFor(S)
  <2>1. f[S] = text
    BY <1>3, <1>4 DEF AfterLast
  <2> QED BY <1>4, <2>1 DEF Retold
<1>5. ASSUME NEW S \in SUBSET F, S # {}, GoodFor(S \ {Final(S)}) PROVE GoodFor(S)
  <2> DEFINE plain == Final(S)
             rest == S \ {plain}
  <2>1. plain \in S /\ plain \in F
    BY <1>1, <1>5, FinalIs
  <2>2. f[S] = Replaced(f[rest], plain, swaps[plain])
    BY <1>3, <1>5 DEF AfterLast
  <2>3. rest \union {plain} = S /\ rest \subseteq Seq(LetterAtoms)
    BY <1>1, <2>1
  <2>4. Retold(f[rest], text, rest, tokens)
    BY <1>5
  <2> HIDE DEF plain, rest
  <2>5. plain \in Seq(LetterAtoms) /\ plain # <<>>
    BY <1>1, <2>1
  <2>6. Retold(Replaced(f[rest], plain, swaps[plain]), text, rest \union {plain}, tokens)
    BY <1>2, <2>1, <2>3, <2>4, <2>5, RetoldMore
  <2> QED BY <2>2, <2>3, <2>6
<1> HIDE DEF GoodFor
<1>6. 0 \in T
  BY <1>1, <1>4, Smaller
<1>7. ASSUME NEW n \in Nat, n \in T PROVE n + 1 \in T
  <2> SUFFICES ASSUME NEW S \in SUBSET F, Cardinality(S) = n + 1 PROVE GoodFor(S)
    OBVIOUS
  <2>1. S # {}
    BY <1>1, Smaller
  <2>2. Final(S) \in S
    BY <1>1, <2>1, FinalIs
  <2>3. Cardinality(S \ {Final(S)}) = n
    <3>1. \A x \in S : Cardinality(S \ {x}) = Cardinality(S) - 1
      BY <1>1, Smaller
    <3> QED BY <2>2, <3>1
  <2>4. GoodFor(S \ {Final(S)})
    BY <1>7, <2>3
  <2> QED BY <1>5, <2>1, <2>4
<1>8. Cardinality(F) \in T
  <2>1. Nat \subseteq T
    <3> HIDE DEF T
    <3> QED BY <1>6, <1>7, Induction
  <2>2. Cardinality(F) \in Nat
    BY <1>1, FS_CardinalityType
  <2> HIDE DEF T
  <2> QED BY <2>1, <2>2
<1>9. GoodFor(F)
  BY <1>8
<1> QED BY <1>3, <1>9 DEF GoodFor, F

-----------------------------------------------------------------------------
(* Error bodies *)

\* What stands in an echo where the text has its place i.
EchoedAt(text, encode, how, code, i) ==
    IF IsTok(text[i]) THEN EchoedAs(text, encode, how, code, i) ELSE <<text[i]>>

LEMMA EchoedLetters ==
    ASSUME NEW text \in Seq(Atoms), NEW encode \in BOOLEAN, NEW how, NEW code \in Codes,
           NEW i \in 1..Len(text)
    PROVE  EchoedAt(text, encode, how, code, i) \in Seq(LetterAtoms)
<1>1. CASE IsTok(text[i])
  <2> DEFINE letters == Spelling[text[i].token]
  <2>1. letters \in Seq(Letters)
    BY <1>1, SpellingIs
  <2>2. Inserted(text, i, encode) \in Seq(LetterAtoms)
    BY <1>1, InsertedLetters
  <2>3. Raw(Escaped(letters)) \in Seq(LetterAtoms) /\ Coded(Raw(letters), code) \in Seq(LetterAtoms)
    <3> HIDE DEF letters
    <3>1. Escaped(letters) \in Seq(Letters)
      BY <2>1, EscapedIs
    <3> QED BY <2>1, <3>1, RawLetters, CodedLetters
  <2>4. EchoedAs(text, encode, how, code, i) \in
           {Inserted(text, i, encode), Raw(Escaped(letters)), Coded(Raw(letters), code)}
    BY DEF EchoedAs
  <2>5. EchoedAt(text, encode, how, code, i) = EchoedAs(text, encode, how, code, i)
    BY <1>1 DEF EchoedAt
  <2> QED BY <2>2, <2>3, <2>4, <2>5
<1>2. CASE ~IsTok(text[i])
  <2>1. text[i] \in LetterAtoms
    BY <1>2, ElementOfSeq, LettersAre
  <2>2. EchoedAt(text, encode, how, code, i) = <<text[i]>>
    BY <1>2 DEF EchoedAt
  <2> QED BY <2>1, <2>2
<1> QED BY <1>1, <1>2

LEMMA EchoesAre ==
    ASSUME NEW part, written[part] \in Seq(Atoms), NEW echo \in Echoes(part)
    PROVE  echo \in Seq(LetterAtoms)
<1> DEFINE text == written[part]
           encode == Encodes(part)
           All(how, code) == [i \in DOMAIN text |-> EchoedAt(text, encode, how, code, i)]
<1>1. PICK how \in {"sent", "literal", "plain"}, code \in Codes \ {"json"}, in \in {"raw", "json"} :
         echo = Coded(FlattenSeq(All(how, code)), in)
  <2>1. Echoes(part) = {Coded(FlattenSeq(All(h, c)), n) :
                           h \in {"sent", "literal", "plain"}, c \in Codes \ {"json"}, n \in {"raw", "json"}}
    BY DEF Echoes, Filled, EchoedAt
  <2> HIDE DEF All
  <2> QED BY <2>1
<1>2. encode \in BOOLEAN /\ in \in Codes /\ code \in Codes
  BY DEF Encodes, Codes
<1>3. DOMAIN text = 1..Len(text) /\ Len(text) \in Nat
  BY LenProperties
<1> HIDE DEF encode
<1>4. \A i \in 1..Len(text) : EchoedAt(text, encode, how, code, i) \in Seq(LetterAtoms)
  BY <1>2, EchoedLetters
<1>5. All(how, code) \in Seq(Seq(LetterAtoms))
  BY <1>3, <1>4
<1> HIDE DEF All
<1>6. FlattenSeq(All(how, code)) \in Seq(LetterAtoms)
  BY <1>5, FlattenType
<1> QED BY <1>1, <1>2, <1>6, CodedLetters

\* What is written stays text, what is substituted is known, and of a body the forms are gone.
OfRequest(request) ==
    LET Of(part) == Substitutions(request[part], Encodes(part))
    IN  Updated(Updated(Of("head"), Of("query")), Of("param"))
Faulting ==
    /\ step \in {"written", "sent", "answered"} => \A part \in Parts : written[part] \in Seq(Atoms)
    /\ step = "sent" /\ Filtered => subs = OfRequest(written)
    /\ FormsHidden

FormsOf(request) == UNION {FormsIn(request[part], Encodes(part)) : part \in Parts}
TokensIn(request) == UNION {TokensOf(request[part]) : part \in Parts}

LEMMA OfRequestIs ==
    ASSUME NEW request, \A part \in Parts : request[part] \in Seq(Atoms)
    PROVE  IsSubs(OfRequest(request), FormsOf(request), TokensIn(request))
<1> DEFINE Of(part) == Substitutions(request[part], Encodes(part))
           F(part) == FormsIn(request[part], Encodes(part))
           T(part) == TokensOf(request[part])
<1>1. \A part \in Parts : IsSubs(Of(part), F(part), T(part))
  BY SubstitutionsAre DEF Encodes
<1>2. Parts = {"head", "query", "param"}
  BY DEF Parts
<1> HIDE DEF Of, F, T
<1>3. IsSubs(Updated(Of("head"), Of("query")), F("head") \union F("query"), T("head") \union T("query"))
  BY <1>1, <1>2, SubsMerged
<1>4. IsSubs(Updated(Updated(Of("head"), Of("query")), Of("param")),
             (F("head") \union F("query")) \union F("param"),
             (T("head") \union T("query")) \union T("param"))
  BY <1>1, <1>2, <1>3, SubsMerged
<1>5. FormsOf(request) = UNION {F(part) : part \in Parts} /\ TokensIn(request) = UNION {T(part) : part \in Parts}
  BY DEF FormsOf, TokensIn, F, T
<1>6. /\ FormsOf(request) = (F("head") \union F("query")) \union F("param")
      /\ TokensIn(request) = (T("head") \union T("query")) \union T("param")
  BY <1>2, <1>5
<1>7. OfRequest(request) = Updated(Updated(Of("head"), Of("query")), Of("param"))
  BY DEF OfRequest, Of
<1> QED BY <1>4, <1>6, <1>7

LEMMA OnlyLetters ==
    ASSUME NEW text \in Seq(LetterAtoms)
    PROVE  text \in Seq(Atoms) /\ TokensOf(text) = {}
<1>1. DOMAIN text = 1..Len(text) /\ \A i \in 1..Len(text) : text[i] \in LetterAtoms
  BY LenProperties, ElementOfSeq
<1>2. \A i \in DOMAIN text : ~IsTok(text[i])
  BY <1>1, LettersAre
<1> QED BY <1>2, LettersAre, SeqWider DEF TokensOf

LEMMA FaultHides ==
    ASSUME Faulting, Fault
    PROVE  FormsHidden'
<1> DEFINE forms == FormsOf(written)
<1>0. PICK part \in Parts : \E echo \in Echoes(part) : body' = Retokenized(echo, subs)
  BY DEF Fault
<1>1. PICK echo \in Echoes(part) : body' = Retokenized(echo, subs)
  BY <1>0
<1>2. (\A p \in Parts : written[p] \in Seq(Atoms)) /\ subs = OfRequest(written) /\ written' = written
  BY DEF Fault, Faulting
<1>3. echo \in Seq(LetterAtoms)
  BY <1>2, EchoesAre
<1>4. Retold(body', echo, forms \ {<<>>}, TokensIn(written))
  <2> HIDE DEF forms
  <2>1. IsSubs(subs, forms, TokensIn(written))
    BY <1>2, OfRequestIs DEF forms
  <2>2. echo \in Seq(Atoms)
    BY <1>3, OnlyLetters
  <2> QED BY <1>1, <2>1, <2>2, RetokenizedIs
<1>5. body' \in Seq(Atoms) /\ TokensOf(body') \subseteq TokensIn(written)
  BY <1>3, <1>4, OnlyLetters DEF Retold
<1>6. ASSUME NEW p \in Parts, NEW i \in DOMAIN written[p], IsTok(written[p][i]),
             NEW form \in Forms(written[p], i, Encodes(p)) \ {<<>>},
             NEW k \in 0..Len(body') - Len(form), SubSeq(body', k + 1, k + Len(form)) = form
      PROVE  FALSE
  <2>1. form \in FormsIn(written[p], Encodes(p))
    BY <1>6, Zenon DEF FormsIn
  <2>2. form \in forms \ {<<>>}
    BY <2>1, Zenon DEF FormsOf
  <2>3. Absent(form, body')
    BY <1>4, <2>2 DEF Retold
  <2>4. form \in Seq(LetterAtoms)
    <3>1. \A q \in DOMAIN written[p] : q \in 1..Len(written[p])
      BY <1>2, LenProperties
    <3>2. Encodes(p) \in BOOLEAN
      BY DEF Encodes
    <3> QED BY <1>2, <1>6, <3>1, <3>2, FormsAre
  <2> DEFINE m == Len(form)
             n == Len(body')
             r == body'
  <2>5. m \in Nat /\ n \in Nat /\ k \in Nat /\ k + m <= n /\ \A j \in 1..n : r[j] \in Atoms
    <3>1. m \in Nat /\ n \in Nat
      BY <1>5, <2>4, LenProperties
    <3>2. \A j \in 1..n : r[j] \in Atoms
      BY <1>5, ElementOfSeq
    <3> HIDE DEF m, n
    <3>3. k \in 0..n - m
      BY DEF m, n
    <3> QED BY <3>1, <3>2, <3>3
  <2>6. r \in Seq(Atoms) /\ SubSeq(r, k + 1, k + m) = form
    BY <1>5, <1>6
  <2> HIDE DEF m, n, r
  <2>7. \A j \in 1..m : r[k + j] = form[j]
    <3>1. \A j \in k + 1..k + m : r[j] \in Atoms
      BY <2>5
    <3>2. \A j \in 1..(k + m) - (k + 1) + 1 : SubSeq(r, k + 1, k + m)[j] = r[(k + 1) + j - 1]
      BY <2>5, <3>1, SubSeqProperties
    <3>3. (k + m) - (k + 1) + 1 = m /\ \A j \in 1..m : (k + 1) + j - 1 = k + j
      BY <2>5
    <3> QED BY <2>6, <3>2, <3>3
  <2>8. Occurs(form, r, k)
    BY <2>5, <2>7 DEF Occurs, m, n, r
  <2> QED BY <2>3, <2>8 DEF Absent, r
<1>7. TokensOf(body') \subseteq UNION {TokensOf(written[p]) : p \in Parts}
  BY <1>5 DEF TokensIn
<1>8. \A p \in Parts : \A i \in DOMAIN written[p] : IsTok(written[p][i]) =>
         \A form \in Forms(written[p], i, Encodes(p)) \ {<<>>} :
            \A k \in 0..Len(body') - Len(form) : SubSeq(body', k + 1, k + Len(form)) # form
  BY <1>6
<1> QED BY <1>2, <1>7, <1>8 DEF FormsHidden

LEMMA FaultingStep ==
    ASSUME ExchangeTypeOK, Faulting, [ExchangeNext]_exchangeVars
    PROVE  Faulting'
<1>1. CASE ReadPage \/ ReadLeaf \/ Detail \/ Done
  <2>1. step' \notin {"written", "sent", "answered"}
    BY <1>1 DEF ReadPage, ReadLeaf, Detail, Done, Show
  <2> QED BY <2>1 DEF Faulting, FormsHidden
<1>2. CASE Write
  <2>1. vault \union {Foreign} \in SUBSET DOMAIN Spelling
    BY RequestsAssumption DEF ExchangeTypeOK
  <2>2. written' \in Requests(vault \union {Foreign}) /\ step' = "written"
    BY <1>2 DEF Write
  <2>3. {written'.head, written'.query, written'.param} \subseteq Seq(Atoms)
    BY <2>1, <2>2, RequestsAssumption
  <2> QED BY <2>2, <2>3 DEF Faulting, FormsHidden, Parts
<1>3. CASE PiiRequest
  <2>1. /\ written' = written /\ config' = config /\ step = "written" /\ step' \in {"sent", "refused"}
        /\ step' = "sent" /\ Filtered => subs' = OfRequest(written)
    BY <1>3 DEF PiiRequest, OfRequest
  <2>2. Filtered' <=> Filtered
    BY <2>1 DEF Filtered, Pii
  <2>3. OfRequest(written)' = OfRequest(written)
    BY <2>1 DEF OfRequest, Encodes
  <2> QED BY <2>1, <2>2, <2>3 DEF Faulting, FormsHidden
<1>4. CASE Fault
  <2>1. step' = "answered" /\ written' = written /\ step = "sent"
    BY <1>4 DEF Fault
  <2>2. FormsHidden'
    BY <1>4, FaultHides
  <2> QED BY <2>1, <2>2 DEF Faulting
<1>5. CASE UNCHANGED exchangeVars
  BY <1>5 DEF exchangeVars, Faulting, FormsHidden, Filtered, Pii, OfRequest, Encodes
<1> QED BY <1>1, <1>2, <1>3, <1>4, <1>5 DEF ExchangeNext

\* Of what retokenize replaces nothing is left in an error body (str.replace, in any order
\* of the forms, in a body that echoes any part of the request): neither a token it puts in
\* nor one form next to another makes up a form again, and no other token is shown.
THEOREM FormsStayHidden == ExchangeSpec => []FormsHidden
<1>1. ExchangeInit => Faulting
  BY DEF ExchangeInit, Faulting, FormsHidden
<1>2. ExchangeTypeOK /\ Faulting /\ [ExchangeNext]_exchangeVars => Faulting'
  BY FaultingStep
<1>3. Faulting => FormsHidden
  BY DEF Faulting
<1> QED BY <1>1, <1>2, <1>3, ExchangeTypeCorrect, PTL DEF ExchangeSpec
=============================================================================

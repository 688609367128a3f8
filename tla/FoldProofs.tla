----------------------------- MODULE FoldProofs -----------------------------
(***************************************************************************)
(* What the proofs need to know of sequences and of the folds of the       *)
(* community modules, in terms of sets and functions.  Induction: a set    *)
(* that holds 0, or <<>>, and is closed under one more holds them all.     *)
(* FoldLeft is a recursive function over the subsets of a sequence's       *)
(* domain: it exists, it is unique, and it takes one step per element.     *)
(***************************************************************************)
EXTENDS SequencesExt, SequenceTheorems, FiniteSetTheorems, WellFoundedInduction, TLAPS

(* A set that holds 0 and, with n, also n + 1, holds every number up to N. *)
LEMMA SetInduction ==
    ASSUME NEW N \in Nat, NEW S, 0 \in S,
           \A n \in 0..(N-1) : n \in S => n + 1 \in S
    PROVE  0..N \subseteq S
<1> DEFINE R == {ss \in Nat \X Nat : ss[1] < ss[2]}
           T == (0..N) \ S
<1> SUFFICES ASSUME T # {} PROVE FALSE
  OBVIOUS
<1>1. IsWellFoundedOn(R, Nat)
  BY NatLessThanWellFounded DEF OpToRel
<1>2. T \subseteq Nat
  OBVIOUS
<1>3. \E x \in T : \A y \in T : ~ (<<y, x>> \in R)
  <2> HIDE DEF R, T
  <2> QED BY <1>1, <1>2, WFMin
<1>4. PICK x \in T : \A y \in T : ~ (<<y, x>> \in R)
  BY <1>3
<1>5. x - 1 \in S
  <2>1. x \in 1..N
    OBVIOUS
  <2>2. x - 1 < x /\ x - 1 \in Nat /\ x \in Nat
    BY <2>1
  <2>3. <<x - 1, x>> \in R
    BY <2>2
  <2> QED
    BY <1>4, <2>1, <2>3
<1> QED
  BY <1>5

(* A set that holds the empty sequence and, with s, s and one more element *)
(* of B holds every sequence over B.                                       *)
LEMMA SeqInduction ==
    ASSUME NEW B, NEW S, <<>> \in S,
           \A s \in Seq(B), e \in B : s \in S => Append(s, e) \in S
    PROVE  Seq(B) \subseteq S
<1> SUFFICES ASSUME NEW t \in Seq(B) PROVE t \in S
  OBVIOUS
<1> DEFINE Upto == {n \in 0..Len(t) : SubSeq(t, 1, n) \in S}
<1>0. Len(t) \in Nat
  BY LenProperties
<1>1. 0 \in Upto
  <2>1. SubSeq(t, 1, 0) = <<>>
    BY SubSeqEmpty
  <2>2. SubSeq(t, 1, 0) \in S
    BY <2>1, Zenon
  <2>3. 0 \in 0..Len(t)
    BY <1>0
  <2> QED
    BY <2>2, <2>3, Zenon
<1>2. ASSUME NEW n \in 0..(Len(t)-1), n \in Upto
      PROVE  n + 1 \in Upto
  <2>0. n \in Nat /\ n <= Len(t) /\ n + 1 \in 0..Len(t) /\ n + 1 \in 1..Len(t)
    BY <1>0
  <2>1. \A i \in 1..n : t[i] \in B
    BY <2>0, ElementOfSeq
  <2>2. SubSeq(t, 1, n) \in Seq(B) /\ t[n+1] \in B
    BY <2>0, <2>1, SubSeqProperties, ElementOfSeq
  <2>3. SubSeq(t, 1, n+1) = SubSeq(t, 1, n) \o <<t[n+1]>>
    BY <2>0, SubSeqRecursiveSecond
  <2>4. SubSeq(t, 1, n+1) = Append(SubSeq(t, 1, n), t[n+1])
    BY <2>2, <2>3, AppendIsConcat
  <2> QED
    BY <1>2, <2>0, <2>2, <2>4
<1>3. 0..Len(t) \subseteq Upto
  <2> HIDE DEF Upto
  <2> QED BY <1>0, <1>1, <1>2, SetInduction
<1>4. Len(t) \in Upto
  BY <1>0, <1>3
<1>5. SubSeq(t, 1, Len(t)) = t
  BY SubSeqFull
<1> QED
  BY <1>4, <1>5

(* Appending to the second of two sequences appends to both.               *)
LEMMA ConcatAppend ==
    ASSUME NEW B, NEW s \in Seq(B), NEW u \in Seq(B), NEW e \in B
    PROVE  s \o Append(u, e) = Append(s \o u, e)
OBVIOUS
-----------------------------------------------------------------------------
(* FoldLeft(op, base, s) is it[DOMAIN s] for the function it that folds    *)
(* every subset of the domain; F stands for op, as a function.             *)

Solves(it, F, base, s) ==
    /\ it[{}] = base
    /\ \A S \in SUBSET (DOMAIN s) : S # {} =>
            Max(S) \in S /\ it[S] = F[<<it[S \ {Max(S)}], s[Max(S)]>>]

Unfolding(A, F, base, s) == \E it \in [SUBSET (DOMAIN s) -> A] : Solves(it, F, base, s)

\* The same for the first n elements.
Unfolds(it, F, base, s, n) ==
    \A S \in SUBSET (1..n) :
        it[S] = IF S = {} THEN base ELSE F[<<it[S \ {Max(S)}], s[Max(S)]>>]

(* The new element is the largest of a set of numbers up to n + 1.         *)
LEMMA MaxOfUpTo ==
    ASSUME NEW n \in Nat, NEW S \in SUBSET (1..(n+1)), n + 1 \in S
    PROVE  Max(S) = n + 1
<1>1. \A x \in S : (\A y \in S : x >= y) <=> x = n + 1
  OBVIOUS
<1>2. \E x \in S : \A y \in S : x >= y
  BY <1>1
<1> DEFINE m == CHOOSE x \in S : \A y \in S : x >= y
<1>3. m \in S /\ \A y \in S : m >= y
  BY <1>2
<1> QED
  BY <1>1, <1>3 DEF Max

(* A set of numbers up to N has a greatest one.                            *)
LEMMA Greatest ==
    ASSUME NEW N \in Nat, NEW S \in SUBSET (1..N), S # {}
    PROVE  \E x \in S : \A y \in S : x >= y
<1> DEFINE Has == {n \in 0..N : \A T \in SUBSET (1..n) : T # {} => \E x \in T : \A y \in T : x >= y}
<1>1. 0 \in Has
  <2>1. 0 \in 0..N /\ \A T \in SUBSET (1..0) : T = {}
    OBVIOUS
  <2> QED
    BY <2>1
<1>2. ASSUME NEW n \in 0..(N-1), n \in Has
      PROVE  n + 1 \in Has
  <2> SUFFICES ASSUME NEW T \in SUBSET (1..(n+1)), T # {}
               PROVE  \E x \in T : \A y \in T : x >= y
    OBVIOUS
  <2>1. CASE n + 1 \in T
    BY <2>1
  <2>2. CASE n + 1 \notin T
    <3>1. T \in SUBSET (1..n)
      BY <2>2
    <3> QED
      BY <1>2, <3>1
  <2> QED
    BY <2>1, <2>2
<1>3. N \in Has
  <2> HIDE DEF Has
  <2> QED BY <1>1, <1>2, SetInduction, N \in 0..N
<1> QED
  BY <1>3

(* Max finds it.                                                           *)
LEMMA MaxIn ==
    ASSUME NEW N \in Nat, NEW S \in SUBSET (1..N), S # {}
    PROVE  Max(S) \in S
<1>1. \E x \in S : \A y \in S : x >= y
  BY Greatest
<1> QED
  BY <1>1 DEF Max

(* Taking the largest element off 1..n leaves 1..n-1.                      *)
LEMMA UpToInDomain ==
    ASSUME NEW N \in Nat, NEW n \in 1..N
    PROVE  /\ Max(1..n) = n
           /\ (1..n) \ {n} = 1..(n-1)
           /\ 1..n # {}
           /\ 1..n \in SUBSET (1..N)
<1>0. n \in Nat /\ n >= 1 /\ n <= N
  OBVIOUS
<1>1. Max(1..n) = n
  <2>1. n - 1 \in Nat /\ (n - 1) + 1 = n /\ n \in 1..n
    BY <1>0
  <2> QED
    BY <2>1, MaxOfUpTo
<1>2. (1..n) \ {n} = 1..(n-1)
  BY <1>0
<1>3. n \in 1..n /\ \A m \in 1..n : m \in 1..N
  BY <1>0
<1> QED
  BY <1>1, <1>2, <1>3

(* There is a function that folds every subset of the domain: one for the  *)
(* first n elements extends to one for n + 1.                              *)
LEMMA FoldExists ==
    ASSUME NEW A, NEW B, NEW F \in [A \X B -> A], NEW base \in A, NEW s \in Seq(B)
    PROVE  Unfolding(A, F, base, s)
<1> DEFINE Good == {n \in 0..Len(s) : \E it \in [SUBSET (1..n) -> A] : Unfolds(it, F, base, s, n)}
<1>1. 0 \in Good
  <2> DEFINE it == [S \in SUBSET (1..0) |-> base]
  <2>1. it \in [SUBSET (1..0) -> A] /\ Unfolds(it, F, base, s, 0)
    BY DEF Unfolds
  <2> QED
    BY <2>1
<1>2. ASSUME NEW n \in 0..(Len(s)-1), n \in Good
      PROVE  n + 1 \in Good
  <2>1. PICK it \in [SUBSET (1..n) -> A] : Unfolds(it, F, base, s, n)
    BY <1>2
  <2> DEFINE more == [S \in SUBSET (1..(n+1)) |->
                        IF n + 1 \in S THEN F[<<it[S \ {n+1}], s[n+1]>>] ELSE it[S]]
  <2>2. ASSUME NEW S \in SUBSET (1..(n+1)), n + 1 \in S
        PROVE  /\ more[S] \in A
               /\ more[S] = F[<<more[S \ {Max(S)}], s[Max(S)]>>]
    <3>1. S \ {n+1} \in SUBSET (1..n) /\ Max(S) = n + 1
      BY <2>2, MaxOfUpTo
    <3>2. more[S \ {n+1}] = it[S \ {n+1}] /\ it[S \ {n+1}] \in A
      BY <3>1
    <3>3. s[n+1] \in B
      BY ElementOfSeq
    <3> QED
      BY <2>2, <3>1, <3>2, <3>3
  <2>3. ASSUME NEW S \in SUBSET (1..(n+1)), n + 1 \notin S
        PROVE  /\ more[S] \in A
               /\ more[S] = IF S = {} THEN base ELSE F[<<more[S \ {Max(S)}], s[Max(S)]>>]
    <3>1. S \in SUBSET (1..n) /\ more[S] = it[S]
      BY <2>3
    <3>2. S \ {Max(S)} \in SUBSET (1..n) /\ n + 1 \notin S \ {Max(S)}
      BY <3>1, <2>3
    <3>3. more[S \ {Max(S)}] = it[S \ {Max(S)}]
      BY <3>2
    <3> QED
      BY <2>1, <3>1, <3>3 DEF Unfolds
  <2>4. more \in [SUBSET (1..(n+1)) -> A]
    BY <2>2, <2>3
  <2>5. Unfolds(more, F, base, s, n+1)
    <3> HIDE DEF more
    <3> QED BY <2>2, <2>3 DEF Unfolds
  <2>6. n + 1 \in 0..Len(s)
    BY LenProperties
  <2> HIDE DEF more
  <2> QED
    BY <2>4, <2>5, <2>6
<1>3. Len(s) \in Good
  <2> HIDE DEF Good
  <2>1. Len(s) \in Nat BY LenProperties
  <2> QED BY <1>1, <1>2, <2>1, SetInduction, Len(s) \in 0..Len(s)
<1>4. PICK it \in [SUBSET (1..Len(s)) -> A] : Unfolds(it, F, base, s, Len(s))
  BY <1>3
<1>5. DOMAIN s = 1..Len(s) /\ Len(s) \in Nat
  BY LenProperties
<1>6. Solves(it, F, base, s)
  BY <1>4, <1>5, MaxIn DEF Unfolds, Solves
<1> QED
  BY <1>5, <1>6 DEF Unfolding

\* A fold whose operation is given as a function.
FoldF(F, base, s) == FoldLeft(LAMBDA a, b : F[<<a, b>>], base, s)

\* Its intermediate results.
Runs(g, F, base, s) ==
    /\ g[0] = base
    /\ \A n \in 1..Len(s) : g[n] = F[<<g[n-1], s[n]>>]

Computed(A, F, base, s) ==
    \E g \in [0..Len(s) -> A] : Runs(g, F, base, s) /\ FoldF(F, base, s) = g[Len(s)]

(* The fold is the last state of a run: the function that FoldLeft chooses *)
(* is such a function, read along 1..1, 1..2 and so on.                    *)
LEMMA FoldFRuns ==
    ASSUME NEW A, NEW B, NEW F \in [A \X B -> A], NEW base \in A, NEW s \in Seq(B)
    PROVE  Computed(A, F, base, s)
<1> DEFINE Body(it) == [S \in SUBSET DOMAIN s |->
                          IF S = {} THEN base ELSE F[<<it[S \ {Max(S)}], s[Max(S)]>>]]
           chosen == CHOOSE it : it = Body(it)
<1>0. Len(s) \in Nat /\ DOMAIN s = 1..Len(s)
  BY LenProperties
<1>1. \E it : it = Body(it)
  <2>1. Unfolding(A, F, base, s)
    BY FoldExists
  <2>2. PICK it \in [SUBSET (DOMAIN s) -> A] : Solves(it, F, base, s)
    BY <2>1 DEF Unfolding
  <2>3. it = Body(it)
    BY <2>2 DEF Solves
  <2> QED
    BY <2>3
<1>2. chosen = Body(chosen)
  BY <1>1
<1>3. FoldF(F, base, s) = chosen[DOMAIN s]
  BY DEF FoldF, FoldLeft, MapThenFoldSet
<1> HIDE DEF chosen
<1>4. chosen[{}] = base
  BY <1>2
<1>5. ASSUME NEW n \in 1..Len(s)
      PROVE  chosen[1..n] = F[<<chosen[1..(n-1)], s[n]>>]
  <2>1. Max(1..n) = n /\ (1..n) \ {n} = 1..(n-1) /\ 1..n # {} /\ 1..n \in SUBSET DOMAIN s
    BY <1>0, UpToInDomain
  <2> QED
    BY <1>2, <2>1
<1> DEFINE Typed == {n \in 0..Len(s) : chosen[1..n] \in A}
<1>6. 0 \in Typed
  BY <1>0, <1>4, 1..0 = {}
<1>7. ASSUME NEW n \in 0..(Len(s)-1), n \in Typed
      PROVE  n + 1 \in Typed
  <2>1. s[n+1] \in B /\ n + 1 \in 1..Len(s) /\ (n + 1) - 1 = n
    BY <1>0, ElementOfSeq
  <2>2. chosen[1..(n+1)] = F[<<chosen[1..n], s[n+1]>>]
    BY <1>5, <2>1
  <2> QED
    BY <1>7, <2>1, <2>2
<1>8. 0..Len(s) \subseteq Typed
  <2> HIDE DEF Typed
  <2> QED BY <1>0, <1>6, <1>7, SetInduction
<1> DEFINE g == [n \in 0..Len(s) |-> chosen[1..n]]
<1>9. g \in [0..Len(s) -> A]
  BY <1>8
<1>10. g[0] = base
  BY <1>0, <1>4, 1..0 = {}
<1>11. \A n \in 1..Len(s) : g[n] = F[<<g[n-1], s[n]>>]
  BY <1>0, <1>5
<1>12. g[Len(s)] = FoldF(F, base, s)
  BY <1>0, <1>3
<1> HIDE DEF g
<1> QED
  BY <1>9, <1>10, <1>11, <1>12 DEF Runs, Computed

\* The same of a function whose type is not known.
RunsIn(h, A, F, base, s) ==
    /\ h[0] = base
    /\ \A n \in 1..Len(s) : h[n-1] \in A => h[n] = F[<<h[n-1], s[n]>>]

Agree(g, h, s) == \A n \in 0..Len(s) : h[n] = g[n]

(* The run is determined, also for a sequence of states that is only known *)
(* to obey F where its state is in A.                                      *)
LEMMA RunsUnique ==
    ASSUME NEW A, NEW B, NEW F \in [A \X B -> A], NEW base \in A, NEW s \in Seq(B),
           NEW g \in [0..Len(s) -> A], Runs(g, F, base, s),
           NEW h, RunsIn(h, A, F, base, s)
    PROVE  Agree(g, h, s)
<1> DEFINE Same == {n \in 0..Len(s) : h[n] = g[n]}
<1>0. Len(s) \in Nat
  BY LenProperties
<1>1. 0 \in Same
  BY <1>0 DEF Runs, RunsIn
<1>2. ASSUME NEW n \in 0..(Len(s)-1), n \in Same
      PROVE  n + 1 \in Same
  <2>1. n + 1 \in 1..Len(s) /\ (n + 1) - 1 = n /\ n \in 0..Len(s) /\ n + 1 \in 0..Len(s)
    BY <1>0
  <2>2. g[n] \in A
    BY <2>1
  <2>3. h[n+1] = F[<<h[n], s[n+1]>>]
    BY <1>2, <2>1, <2>2 DEF RunsIn
  <2>4. g[n+1] = F[<<g[n], s[n+1]>>]
    BY <2>1 DEF Runs
  <2> QED
    BY <1>2, <2>1, <2>3, <2>4
<1>3. 0..Len(s) \subseteq Same
  <2> HIDE DEF Same
  <2> QED BY <1>0, <1>1, <1>2, SetInduction
<1> QED
  BY <1>3 DEF Agree

(* Folding nothing gives the base.                                         *)
LEMMA FoldFEmpty ==
    ASSUME NEW A, NEW B, NEW F \in [A \X B -> A], NEW base \in A
    PROVE  FoldF(F, base, <<>>) = base
<1>1. <<>> \in Seq(B) /\ Len(<<>>) = 0
  BY EmptySeq
<1>2. Computed(A, F, base, <<>>)
  BY <1>1, FoldFRuns
<1> QED
  BY <1>1, <1>2 DEF Computed, Runs

(* A fold stays in the set that F stays in.                                *)
LEMMA FoldFType ==
    ASSUME NEW A, NEW B, NEW F \in [A \X B -> A], NEW base \in A, NEW s \in Seq(B)
    PROVE  FoldF(F, base, s) \in A
<1>1. Computed(A, F, base, s)
  BY FoldFRuns
<1> QED
  BY <1>1, LenProperties, Len(s) \in 0..Len(s) DEF Computed

OneMore(F, base, s, e) == FoldF(F, base, Append(s, e)) = F[<<FoldF(F, base, s), e>>]

(* Folding one element more is one step of F more.                         *)
LEMMA FoldFAppend ==
    ASSUME NEW A, NEW B, NEW F \in [A \X B -> A], NEW base \in A,
           NEW s \in Seq(B), NEW e \in B
    PROVE  OneMore(F, base, s, e)
<1> DEFINE t == Append(s, e)
<1>1. t \in Seq(B) /\ Len(t) = Len(s) + 1 /\ t[Len(s)+1] = e /\ \A n \in 1..Len(s) : t[n] = s[n]
  BY AppendProperties
<1>2. Len(s) \in Nat
  BY LenProperties
<1> HIDE DEF t
<1>3. Computed(A, F, base, s) /\ Computed(A, F, base, t)
  BY <1>1, FoldFRuns
<1>4. PICK g \in [0..Len(s) -> A] : Runs(g, F, base, s) /\ FoldF(F, base, s) = g[Len(s)]
  BY <1>3 DEF Computed
<1>5. PICK h \in [0..Len(t) -> A] : Runs(h, F, base, t) /\ FoldF(F, base, t) = h[Len(t)]
  BY <1>3 DEF Computed
<1>6. h[0] = base /\ \A n \in 1..Len(s) : h[n] = F[<<h[n-1], s[n]>>]
  BY <1>1, <1>2, <1>5 DEF Runs
<1>7. \A n \in 0..Len(s) : h[n] = g[n]
  <2>1. Runs(g, F, base, s)
    BY <1>4
  <2>2. RunsIn(h, A, F, base, s)
    BY <1>6 DEF RunsIn
  <2>3. Agree(g, h, s)
    BY <2>1, <2>2, RunsUnique
  <2> QED
    BY <2>3 DEF Agree
<1>8. h[Len(t)] = F[<<h[Len(s)], e>>]
  <2>1. Len(t) \in 1..Len(t) /\ Len(t) - 1 = Len(s)
    BY <1>1, <1>2
  <2> QED BY <1>1, <1>5, <2>1 DEF Runs
<1>9. h[Len(s)] = g[Len(s)]
  BY <1>2, <1>7
<1> QED
  BY <1>4, <1>5, <1>8, <1>9 DEF t, OneMore

-----------------------------------------------------------------------------
\* A solution whose type is not known, as far as the fold depends on it.
Iterated(it, A, F, base, s) ==
    /\ it[{}] = base
    /\ \A n \in 1..Len(s) : it[1..(n-1)] \in A => it[1..n] = F[<<it[1..(n-1)], s[n]>>]

Folds(it, F, base, s) == it[DOMAIN s] = FoldF(F, base, s)

(* Any function on sets of positions that obeys F as FoldLeft does has the *)
(* value of the fold on the domain.                                        *)
LEMMA FoldFUnique ==
    ASSUME NEW A, NEW B, NEW F \in [A \X B -> A], NEW base \in A, NEW s \in Seq(B),
           NEW it, Iterated(it, A, F, base, s)
    PROVE  Folds(it, F, base, s)
<1>0. Len(s) \in Nat /\ DOMAIN s = 1..Len(s)
  BY LenProperties
<1>1. Computed(A, F, base, s)
  BY FoldFRuns
<1>2. PICK g \in [0..Len(s) -> A] : Runs(g, F, base, s) /\ FoldF(F, base, s) = g[Len(s)]
  BY <1>1 DEF Computed
<1> DEFINE h == [n \in 0..Len(s) |-> it[1..n]]
<1>3. RunsIn(h, A, F, base, s)
  <2>1. h[0] = base
    BY <1>0, 1..0 = {} DEF Iterated
  <2>2. ASSUME NEW n \in 1..Len(s), h[n-1] \in A
        PROVE  h[n] = F[<<h[n-1], s[n]>>]
    <3>1. n \in 0..Len(s) /\ n - 1 \in 0..Len(s)
      BY <1>0
    <3> QED
      BY <2>2, <3>1 DEF Iterated
  <2> HIDE DEF h
  <2> QED
    BY <2>1, <2>2 DEF RunsIn
<1>4. Runs(g, F, base, s)
  BY <1>2
<1>5. h[Len(s)] = it[DOMAIN s] /\ Len(s) \in 0..Len(s)
  BY <1>0
<1> HIDE DEF h
<1>6. Agree(g, h, s)
  BY <1>3, <1>4, RunsUnique
<1> QED
  BY <1>2, <1>5, <1>6 DEF Agree, Folds

-----------------------------------------------------------------------------
(* Concatenating the sequences of a sequence is such a fold.               *)

Cat(B) == [p \in Seq(B) \X Seq(B) |-> p[1] \o p[2]]

(* Concatenation as a function.                                            *)
LEMMA CatType ==
    ASSUME NEW B
    PROVE  /\ Cat(B) \in [Seq(B) \X Seq(B) -> Seq(B)]
           /\ \A s, t \in Seq(B) : Cat(B)[<<s, t>>] = s \o t
<1>1. \A p \in Seq(B) \X Seq(B) : p[1] \o p[2] \in Seq(B)
  BY ConcatProperties
<1>2. Cat(B) \in [Seq(B) \X Seq(B) -> Seq(B)]
  BY <1>1 DEF Cat
<1>3. ASSUME NEW s \in Seq(B), NEW t \in Seq(B)
      PROVE  Cat(B)[<<s, t>>] = s \o t
  BY DEF Cat
<1> QED
  BY <1>2, <1>3

(* FlattenSeq, a recursive function of its own in the community modules,   *)
(* is the fold of concatenation.                                           *)
LEMMA FlattenIsFold ==
    ASSUME NEW B, NEW ss \in Seq(Seq(B))
    PROVE  FlattenSeq(ss) = FoldF(Cat(B), <<>>, ss)
<1> DEFINE Body(f) == [i \in 1..Len(ss) |-> IF i = 1 THEN ss[i] ELSE f[i-1] \o ss[i]]
           chosen == CHOOSE f : f = Body(f)
<1>0. Len(ss) \in Nat /\ <<>> \in Seq(B) /\ (\A n \in 1..Len(ss) : ss[n] \in Seq(B))
  BY LenProperties, ElementOfSeq
<1>1. /\ Cat(B) \in [Seq(B) \X Seq(B) -> Seq(B)]
      /\ \A s, t \in Seq(B) : Cat(B)[<<s, t>>] = s \o t
  BY CatType
<1>2. Computed(Seq(B), Cat(B), <<>>, ss)
  BY <1>0, <1>1, FoldFRuns
<1>3. PICK g \in [0..Len(ss) -> Seq(B)] :
          Runs(g, Cat(B), <<>>, ss) /\ FoldF(Cat(B), <<>>, ss) = g[Len(ss)]
  BY <1>2 DEF Computed
<1>4. CASE ss = <<>>
  BY <1>3, <1>4, EmptySeq DEF Runs, FlattenSeq
<1>5. CASE ss # <<>>
  <2>0. Len(ss) \in 1..Len(ss) /\ Len(ss) # 0
    BY <1>0, <1>5, EmptySeq
  <2>1. ASSUME NEW n \in 1..Len(ss)
        PROVE  g[n] = IF n = 1 THEN ss[n] ELSE g[n-1] \o ss[n]
    <3>0. n - 1 \in 0..Len(ss)
      BY <1>0
    <3>1. g[n] = Cat(B)[<<g[n-1], ss[n]>>] /\ g[n-1] \in Seq(B) /\ ss[n] \in Seq(B)
      BY <1>0, <1>3, <3>0 DEF Runs
    <3>2. g[n] = g[n-1] \o ss[n]
      BY <1>1, <3>1
    <3>3. CASE n = 1
      <4>1. g[n-1] = <<>>
        BY <1>3, <3>3 DEF Runs
      <4> QED
        BY <3>1, <3>2, <3>3, <4>1, ConcatEmptySeq
    <3> QED
      BY <3>2, <3>3
  <2>2. \E f : f = Body(f)
    <3> DEFINE f == [i \in 1..Len(ss) |-> g[i]]
    <3>1. f = Body(f)
      BY <1>0, <2>1
    <3> QED
      BY <3>1
  <2>3. chosen = Body(chosen)
    BY <2>2
  <2>4. FlattenSeq(ss) = chosen[Len(ss)]
    BY <2>0 DEF FlattenSeq
  <2> HIDE DEF chosen
  <2> DEFINE h == [n \in 0..Len(ss) |-> IF n = 0 THEN <<>> ELSE chosen[n]]
  <2>5. RunsIn(h, Seq(B), Cat(B), <<>>, ss)
    <3>1. h[0] = <<>>
      BY <1>0
    <3>2. ASSUME NEW n \in 1..Len(ss), h[n-1] \in Seq(B)
          PROVE  h[n] = Cat(B)[<<h[n-1], ss[n]>>]
      <4>1. h[n] = chosen[n] /\ n # 0
        BY <1>0
      <4>2. Cat(B)[<<h[n-1], ss[n]>>] = h[n-1] \o ss[n]
        BY <1>0, <1>1, <3>2
      <4>3. CASE n = 1
        <5>1. h[n-1] = <<>>
          BY <3>1, <4>3
        <5>2. chosen[n] = ss[n]
          BY <2>3, <4>3
        <5> QED
          BY <1>0, <4>1, <4>2, <5>1, <5>2, ConcatEmptySeq
      <4>4. CASE n # 1
        <5>1. h[n-1] = chosen[n-1]
          BY <1>0, <4>4
        <5>2. chosen[n] = chosen[n-1] \o ss[n]
          BY <2>3, <4>4
        <5> QED
          BY <4>1, <4>2, <5>1, <5>2
      <4> QED
        BY <4>3, <4>4
    <3> HIDE DEF h
    <3> QED
      BY <3>1, <3>2 DEF RunsIn
  <2>6. Runs(g, Cat(B), <<>>, ss)
    BY <1>3
  <2>7. h[Len(ss)] = chosen[Len(ss)] /\ Len(ss) \in 0..Len(ss)
    BY <2>0
  <2> HIDE DEF h
  <2>8. Agree(g, h, ss)
    BY <1>0, <1>1, <2>5, <2>6, RunsUnique
  <2> QED
    BY <1>3, <2>4, <2>7, <2>8 DEF Agree
<1> QED
  BY <1>4, <1>5

(* Flattening nothing gives the empty sequence.                            *)
LEMMA FlattenEmpty == FlattenSeq(<<>>) = <<>>
BY EmptySeq DEF FlattenSeq

(* Flattening sequences over B gives a sequence over B.                    *)
LEMMA FlattenType ==
    ASSUME NEW B, NEW ss \in Seq(Seq(B))
    PROVE  FlattenSeq(ss) \in Seq(B)
<1>1. <<>> \in Seq(B) /\ Cat(B) \in [Seq(B) \X Seq(B) -> Seq(B)]
  BY EmptySeq, CatType
<1>2. FoldF(Cat(B), <<>>, ss) \in Seq(B)
  BY <1>1, FoldFType
<1> QED
  BY <1>2, FlattenIsFold

(* Flattening one sequence more concatenates it.                           *)
LEMMA FlattenAppend ==
    ASSUME NEW B, NEW ss \in Seq(Seq(B)), NEW s \in Seq(B)
    PROVE  FlattenSeq(Append(ss, s)) = FlattenSeq(ss) \o s
<1>0. <<>> \in Seq(B) /\ Cat(B) \in [Seq(B) \X Seq(B) -> Seq(B)]
  BY EmptySeq, CatType
<1>1. Append(ss, s) \in Seq(Seq(B))
  BY AppendProperties
<1>2. FoldF(Cat(B), <<>>, Append(ss, s)) = Cat(B)[<<FoldF(Cat(B), <<>>, ss), s>>]
  <2>1. OneMore(Cat(B), <<>>, ss, s)
    BY <1>0, FoldFAppend
  <2> QED
    BY <2>1 DEF OneMore
<1>3. FoldF(Cat(B), <<>>, ss) = FlattenSeq(ss) /\ FlattenSeq(ss) \in Seq(B)
  BY FlattenIsFold, FlattenType
<1>4. FoldF(Cat(B), <<>>, Append(ss, s)) = FlattenSeq(Append(ss, s))
  BY <1>1, FlattenIsFold
<1> QED
  BY <1>2, <1>3, <1>4, CatType

(* One sequence flattens to itself.                                        *)
LEMMA FlattenOne ==
    ASSUME NEW B, NEW s \in Seq(B)
    PROVE  FlattenSeq(<<s>>) = s
<1>1. <<>> \in Seq(Seq(B)) /\ <<s>> = Append(<<>>, s)
  OBVIOUS
<1>2. FlattenSeq(<<s>>) = FlattenSeq(<<>>) \o s
  BY <1>1, FlattenAppend
<1> QED
  BY <1>2, FlattenEmpty, ConcatEmptySeq

(* Two sequences flatten to their concatenation.                           *)
LEMMA FlattenTwo ==
    ASSUME NEW B, NEW s \in Seq(B), NEW t \in Seq(B)
    PROVE  FlattenSeq(<<s, t>>) = s \o t
<1>1. <<s>> \in Seq(Seq(B)) /\ <<s, t>> = Append(<<s>>, t)
  OBVIOUS
<1> QED
  BY <1>1, FlattenAppend, FlattenOne

-----------------------------------------------------------------------------
(* Stretches of a growing sequence.                                        *)

Extended(s, u, m) ==
    /\ \A n \in 0..Len(s) : SubSeq(s \o u, m, n) = SubSeq(s, m, n)
    /\ SubSeq(s \o u, m, Len(s \o u)) = SubSeq(s, m, Len(s)) \o u

(* A stretch that starts inside s is the same in s followed by u, and one  *)
(* that ran to the end of s has u added to it.                             *)
LEMMA SubSeqOfConcat ==
    ASSUME NEW B, NEW s \in Seq(B), NEW u \in Seq(B), NEW m \in 1..(Len(s) + 1)
    PROVE  Extended(s, u, m)
<1> DEFINE w == s \o u
<1>0. /\ Len(s) \in Nat /\ Len(u) \in Nat /\ w \in Seq(B) /\ Len(w) = Len(s) + Len(u)
      /\ \A i \in 1..Len(s) : w[i] = s[i]
      /\ \A i \in 1..Len(u) : w[Len(s) + i] = u[i]
      /\ (\A i \in 1..Len(s) : s[i] \in B) /\ (\A i \in 1..Len(u) : u[i] \in B)
  BY LenProperties, ConcatProperties, ElementOfSeq
<1>1. ASSUME NEW n \in 0..Len(s)
      PROVE  SubSeq(w, m, n) = SubSeq(s, m, n)
  <2> HIDE DEF w
  <2>1. \A i \in m..n : w[i] = s[i] /\ w[i] \in B /\ s[i] \in B
    BY <1>0
  <2>2. /\ SubSeq(w, m, n) \in Seq(B)
        /\ Len(SubSeq(w, m, n)) = IF m <= n THEN n-m+1 ELSE 0
        /\ \A i \in 1..(n-m+1) : SubSeq(w, m, n)[i] = w[m+i-1]
    BY <1>0, <2>1, SubSeqProperties
  <2>3. /\ SubSeq(s, m, n) \in Seq(B)
        /\ Len(SubSeq(s, m, n)) = IF m <= n THEN n-m+1 ELSE 0
        /\ \A i \in 1..(n-m+1) : SubSeq(s, m, n)[i] = s[m+i-1]
    BY <1>0, <2>1, SubSeqProperties
  <2>4. \A i \in 1..Len(SubSeq(w, m, n)) : SubSeq(w, m, n)[i] = SubSeq(s, m, n)[i]
    BY <1>0, <2>1, <2>2, <2>3
  <2> QED
    BY <2>2, <2>3, <2>4, SeqEqual
<1>2. SubSeq(w, m, Len(w)) = SubSeq(s, m, Len(s)) \o u
  <2> DEFINE x == SubSeq(w, m, Len(w))
             y == SubSeq(s, m, Len(s))
             z == y \o u
  <2> HIDE DEF w
  <2>1. /\ x \in Seq(B) /\ Len(x) = IF m <= Len(w) THEN Len(w)-m+1 ELSE 0
        /\ \A i \in 1..(Len(w)-m+1) : x[i] = w[m+i-1]
    <3>1. \A i \in m..Len(w) : w[i] \in B
      BY <1>0, ElementOfSeq
    <3> QED
      BY <1>0, <3>1, SubSeqProperties
  <2>2. /\ y \in Seq(B) /\ Len(y) = Len(s)-m+1
        /\ \A i \in 1..(Len(s)-m+1) : y[i] = s[m+i-1]
    BY <1>0, SubSeqProperties
  <2>3. /\ z \in Seq(B) /\ Len(z) = Len(y) + Len(u)
        /\ \A i \in 1..(Len(y) + Len(u)) : z[i] = IF i <= Len(y) THEN y[i] ELSE u[i - Len(y)]
    <3> HIDE DEF x, y
    <3> QED
      BY <2>2, ConcatProperties
  <2> HIDE DEF x, y, z
  <2>4. Len(x) = Len(z)
    BY <1>0, <2>1, <2>2, <2>3
  <2>5. ASSUME NEW i \in 1..Len(x) PROVE x[i] = z[i]
    <3>0. /\ m \in Nat /\ m >= 1 /\ m <= Len(s) + 1 /\ i \in Nat /\ i >= 1 /\ i <= Len(w)-m+1
          /\ Len(y) = Len(s)-m+1 /\ Len(y) \in Nat
      BY <1>0, <2>1, <2>2
    <3>1. x[i] = w[m+i-1]
      BY <1>0, <2>1, <3>0
    <3>2. CASE i <= Len(y)
      <4>1. z[i] = y[i]
        <5>1. i \in 1..(Len(y) + Len(u))
          BY <1>0, <3>0, <3>2
        <5> QED
          BY <2>3, <3>2, <5>1
      <4>2. y[i] = s[m+i-1]
        BY <1>0, <2>2, <3>0, <3>2
      <4>3. m+i-1 \in 1..Len(s)
        BY <1>0, <3>0, <3>2
      <4> QED
        BY <1>0, <3>1, <4>1, <4>2, <4>3
    <3>3. CASE i > Len(y)
      <4>1. i - Len(y) \in 1..Len(u) /\ Len(s) + (i - Len(y)) = m+i-1
        BY <1>0, <3>0, <3>3
      <4>2. z[i] = u[i - Len(y)]
        BY <1>0, <2>3, <3>0, <3>3
      <4>3. w[Len(s) + (i - Len(y))] = u[i - Len(y)]
        BY <1>0, <4>1
      <4> QED
        BY <3>1, <4>1, <4>2, <4>3
    <3> QED
      BY <3>0, <3>2, <3>3
  <2>6. x = z
    BY <2>1, <2>3, <2>4, <2>5, SeqEqual
  <2> QED
    BY <2>6 DEF x, y, z
<1> QED
  BY <1>1, <1>2 DEF Extended

-----------------------------------------------------------------------------
(* SetToSeq.                                                               *)

Lists(s, S) ==
    /\ s \in Seq(S) /\ Len(s) = Cardinality(S)
    /\ \A x \in S : \E i \in 1..Len(s) : s[i] = x
    /\ \A i \in 1..Len(s), j \in 1..Len(s) : s[i] = s[j] => i = j

(* A finite set's elements come once each.                                 *)
LEMMA SetToSeqLists ==
    ASSUME NEW S, IsFiniteSet(S)
    PROVE  Lists(SetToSeq(S), S)
<1> DEFINE N == Cardinality(S)
           f == SetToSeq(S)
<1>1. N \in Nat /\ ExistsBijection(1..N, S)
  BY FS_CardinalityType
<1>2. \E g \in [1..N -> S] : IsInjective(g)
  BY <1>1 DEF ExistsBijection, Bijection, Injection
<1>3. f \in [1..N -> S] /\ IsInjective(f)
  BY <1>2 DEF SetToSeq
<1> HIDE DEF f
<1>4. f \in Injection(1..N, S)
  BY <1>3 DEF Injection
<1>5. Cardinality(1..N) = N
  BY <1>1, FS_Interval
<1>6. f \in Surjection(1..N, S)
  BY <1>4, <1>5, FS_Injection
<1>7. f \in Seq(S) /\ Len(f) = N
  BY <1>1, <1>3
<1>8. Lists(f, S)
  BY <1>3, <1>6, <1>7 DEF Lists, Surjection, IsInjective
<1> QED
  BY <1>8 DEF f

=============================================================================

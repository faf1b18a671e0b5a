----------------------------- MODULE LedgerProofs -----------------------------
(***************************************************************************)
(* What replaying a finite log computes, for every log: Replay(S) applies  *)
(* the last event of S to the replay of the others.  All later proofs      *)
(* about the ledger rest on that equation (ReplayStep), and on induction   *)
(* over the number of events, as the choice of a smallest counterexample.  *)
(* And what a fold over a sequence and a division compute, for the proofs  *)
(* about the trading core and the research side.                           *)
(***************************************************************************)
EXTENDS LiveLedger, FiniteSetsExt, FiniteSetTheorems, WellFoundedInduction, NaturalsInduction, TLAPS

(* A set of naturals that is not empty has a least member.                 *)
LEMMA LeastExists ==
  ASSUME NEW T \in SUBSET Nat, T # {}
  PROVE  \E m \in T : \A k \in T : m <= k
<1> DEFINE Less == OpToRel(<, Nat)
<1>1. \A x, y \in Nat : y < x => <<y, x>> \in Less
  BY DEF OpToRel
<1>2. IsWellFoundedOn(Less, Nat)
  BY NatLessThanWellFounded
<1> HIDE DEF Less
<1>3. PICK x \in T : \A y \in T : ~(<<y, x>> \in Less)
  BY <1>2, WFMin
<1>4. \A k \in T : ~(k < x)
  BY <1>1, <1>3
<1>5. \A k \in T : x <= k
  BY <1>4
<1> QED
  BY <1>5

(* Events that can be put in order: their time and the rank of their kind  *)
(* are numbers.                                                            *)
Ordered(S) == \A e \in S : e.ts \in Nat /\ Priority(e.kind) \in Nat

LEMMA BeforeIsTransitive ==
  ASSUME NEW S, Ordered(S), NEW e \in S, NEW f \in S, NEW g \in S
  PROVE  /\ ~Before(e, e)
         /\ Before(e, f) /\ Before(f, g) => Before(e, g)
         /\ Before(e, f) => ~Before(f, e)
BY DEF Ordered, Before

(* A finite set has an event with none after it, the one that LastOf       *)
(* chooses.                                                                *)
LEMMA LastOfIsLast ==
  ASSUME NEW S, IsFiniteSet(S), Ordered(S), S # {}
  PROVE  LastOf(S) \in S /\ \A f \in S : ~Before(LastOf(S), f)
<1> DEFINE HasLast(A) == \E e \in A : \A f \in A : ~Before(e, f)
           Sizes == {n \in Nat : \E A \in SUBSET S :
                       A # {} /\ Cardinality(A) = n /\ ~HasLast(A)}
<1>1. ASSUME Sizes # {} PROVE FALSE
  <2>1. PICK n \in Sizes : \A m \in Sizes : n <= m
    <3>1. Sizes \in SUBSET Nat
      OBVIOUS
    <3> HIDE DEF Sizes
    <3> QED
      BY <1>1, <3>1, LeastExists
  <2>2. PICK A \in SUBSET S : A # {} /\ Cardinality(A) = n /\ ~HasLast(A)
    OBVIOUS
  <2>3. PICK x \in A : TRUE
    BY <2>2
  <2>4. IsFiniteSet(A) /\ Cardinality(A) \in Nat
    BY FS_Subset, FS_CardinalityType
  <2>5. /\ IsFiniteSet(A \ {x})
        /\ Cardinality(A \ {x}) = Cardinality(A) - 1
        /\ Cardinality(A \ {x}) \in Nat
    BY <2>3, <2>4, FS_RemoveElement, FS_CardinalityType
  <2>6. A \ {x} # {}
    <3>1. ASSUME A = {x} PROVE HasLast(A)
      BY <3>1, BeforeIsTransitive
    <3> QED
      BY <2>2, <2>3, <3>1
  <2>7. HasLast(A \ {x})
    <3>1. Cardinality(A \ {x}) \notin Sizes
      BY <2>1, <2>2, <2>4, <2>5
    <3> HIDE DEF HasLast
    <3> QED
      BY <2>5, <2>6, <3>1
  <2>8. PICK m \in A \ {x} : \A f \in A \ {x} : ~Before(m, f)
    BY <2>7
  <2>9. HasLast(A)
    <3>1. CASE Before(m, x)
      <4>1. \A f \in A : ~Before(x, f)
        BY <2>3, <2>8, <3>1, BeforeIsTransitive
      <4> QED
        BY <2>3, <4>1
    <3>2. CASE ~Before(m, x)
      <4>1. \A f \in A : ~Before(m, f)
        BY <2>8, <3>2
      <4> QED
        BY <2>8, <4>1
    <3> QED
      BY <3>1, <3>2
  <2> QED
    BY <2>2, <2>9
<1>2. HasLast(S)
  <2>1. Cardinality(S) \in Nat
    BY FS_CardinalityType
  <2> HIDE DEF HasLast
  <2> QED
    BY <1>1, <2>1
<1> QED
  BY <1>2 DEF LastOf

(* Induction over a log: what holds of the empty log, and of a log when it *)
(* holds of the log without its last event, holds of all of it.            *)
LEMMA LogInduction ==
  ASSUME NEW S, IsFiniteSet(S), Ordered(S), NEW Good, {} \in Good,
         \A A \in SUBSET S : A # {} /\ A \ {LastOf(A)} \in Good => A \in Good
  PROVE  \A A \in SUBSET S : A \in Good
<1> DEFINE Sizes == {n \in Nat : \E A \in SUBSET S : Cardinality(A) = n /\ A \notin Good}
<1>1. ASSUME Sizes # {} PROVE FALSE
  <2>1. PICK n \in Sizes : \A m \in Sizes : n <= m
    <3>1. Sizes \in SUBSET Nat
      OBVIOUS
    <3> HIDE DEF Sizes
    <3> QED
      BY <1>1, <3>1, LeastExists
  <2>2. PICK A \in SUBSET S : Cardinality(A) = n /\ A \notin Good
    OBVIOUS
  <2>3. IsFiniteSet(A) /\ Cardinality(A) \in Nat /\ Ordered(A) /\ A # {}
    BY <2>2, FS_Subset, FS_CardinalityType DEF Ordered
  <2> DEFINE l == LastOf(A)
  <2>4. l \in A
    BY <2>3, LastOfIsLast
  <2>5. Cardinality(A \ {l}) = Cardinality(A) - 1 /\ Cardinality(A \ {l}) \in Nat
    BY <2>3, <2>4, FS_RemoveElement, FS_CardinalityType
  <2>6. Cardinality(A \ {l}) \notin Sizes
    BY <2>1, <2>2, <2>3, <2>5
  <2> QED
    BY <2>2, <2>3, <2>5, <2>6
<1>2. ASSUME NEW A \in SUBSET S PROVE A \in Good
  <2>1. Cardinality(A) \in Nat
    BY FS_Subset, FS_CardinalityType
  <2> QED
    BY <1>1, <2>1
<1> QED
  BY <1>2

-----------------------------------------------------------------------------
(* The function of Replay on the subsets of a log.                         *)
Unfolds(f, log, initial) ==
  f = [S \in SUBSET log |->
         IF S = {} THEN initial
         ELSE LET e == LastOf(S) IN ApplyEvent(f[S \ {e}], e)]

(* Two of them agree wherever both are defined.                            *)
LEMMA UnfoldingsAgree ==
  ASSUME NEW B, IsFiniteSet(B), Ordered(B), NEW A \in SUBSET B, NEW initial,
         NEW f, NEW g, Unfolds(f, A, initial), Unfolds(g, B, initial)
  PROVE  \A S \in SUBSET A : f[S] = g[S]
<1> DEFINE Same == {S \in SUBSET A : f[S] = g[S]}
<1>1. IsFiniteSet(A) /\ Ordered(A)
  BY FS_Subset DEF Ordered
<1>2. {} \in Same
  BY DEF Unfolds
<1>3. ASSUME NEW S \in SUBSET A, S # {}, S \ {LastOf(S)} \in Same
      PROVE  S \in Same
  <2>1. f[S] = ApplyEvent(f[S \ {LastOf(S)}], LastOf(S))
    BY <1>3 DEF Unfolds
  <2>2. g[S] = ApplyEvent(g[S \ {LastOf(S)}], LastOf(S))
    BY <1>3 DEF Unfolds
  <2> QED
    BY <1>3, <2>1, <2>2
<1> HIDE DEF Same
<1>4. \A S \in SUBSET A : S \in Same
  BY <1>1, <1>2, <1>3, LogInduction
<1> QED
  BY <1>4 DEF Same

(* And there is one for every log.                                         *)
LEMMA UnfoldingExists ==
  ASSUME NEW log, IsFiniteSet(log), Ordered(log), NEW initial
  PROVE  \E f : Unfolds(f, log, initial)
<1> DEFINE Exists(A) == \E f : Unfolds(f, A, initial)
           Sizes == {n \in Nat : \E A \in SUBSET log : Cardinality(A) = n /\ ~Exists(A)}
<1>1. ASSUME Sizes # {} PROVE FALSE
  <2>1. PICK n \in Sizes : \A m \in Sizes : n <= m
    <3>1. Sizes \in SUBSET Nat
      OBVIOUS
    <3> HIDE DEF Sizes
    <3> QED
      BY <1>1, <3>1, LeastExists
  <2>2. PICK A \in SUBSET log : Cardinality(A) = n /\ ~Exists(A)
    OBVIOUS
  <2>3. /\ IsFiniteSet(A) /\ Cardinality(A) \in Nat
        /\ \A S \in SUBSET A : IsFiniteSet(S) /\ Ordered(S)
    BY FS_Subset, FS_CardinalityType DEF Ordered
  <2>4. ASSUME NEW S \in SUBSET A, S # A PROVE Exists(S)
    <3>1. PICK x \in A : x \notin S
      BY <2>4
    <3>2. /\ IsFiniteSet(A \ {x}) /\ Cardinality(A \ {x}) = Cardinality(A) - 1
      BY <2>3, FS_RemoveElement
    <3>3. S \in SUBSET (A \ {x})
      BY <3>1
    <3>4. Cardinality(S) <= Cardinality(A \ {x}) /\ Cardinality(S) \in Nat
      BY <3>2, <3>3, FS_Subset, FS_CardinalityType
    <3>5. Cardinality(S) \notin Sizes
      BY <2>1, <2>2, <2>3, <3>2, <3>4
    <3> HIDE DEF Exists
    <3> QED
      BY <3>4, <3>5
  <2> DEFINE G(S) == CHOOSE f : Unfolds(f, S, initial)
             l == LastOf(A)
             f == [S \in SUBSET A |->
                     IF S # A THEN G(S)[S]
                     ELSE IF A = {} THEN initial
                     ELSE ApplyEvent(G(A \ {l})[A \ {l}], l)]
  <2>5. \A S \in SUBSET A : S # A => Unfolds(G(S), S, initial)
    BY <2>4
  <2>6. A # {} => l \in A
    BY <2>3, LastOfIsLast
  <2>7. ASSUME NEW S \in SUBSET A
        PROVE  f[S] = IF S = {} THEN initial
                      ELSE ApplyEvent(f[S \ {LastOf(S)}], LastOf(S))
    <3>1. CASE S = A
      BY <2>6, <3>1
    <3>2. CASE S # A /\ S = {}
      <4>1. f[S] = G(S)[S] /\ Unfolds(G(S), S, initial)
        BY <2>5, <3>2
      <4> HIDE DEF G, f
      <4> QED
        BY <3>2, <4>1 DEF Unfolds
    <3>3. CASE S # A /\ S # {}
      <4> DEFINE k == LastOf(S)
                 R == S \ {k}
      <4>1. k \in S
        BY <2>3, <3>3, LastOfIsLast
      <4>2. R \in SUBSET A /\ R # A /\ R \in SUBSET S
        BY <3>3
      <4>3. f[S] = G(S)[S] /\ Unfolds(G(S), S, initial)
        BY <2>5, <3>3
      <4>4. f[R] = G(R)[R] /\ Unfolds(G(R), R, initial)
        BY <2>5, <4>2
      <4> HIDE DEF G, f, R, l
      <4>5. \A T \in SUBSET R : G(R)[T] = G(S)[T]
        <5>1. IsFiniteSet(S) /\ Ordered(S)
          BY <2>3
        <5>2. PICK gR : gR = G(R)
          OBVIOUS
        <5>3. PICK gS : gS = G(S)
          OBVIOUS
        <5>4. Unfolds(gR, R, initial) /\ Unfolds(gS, S, initial)
          BY <4>3, <4>4, <5>2, <5>3
        <5>5. \A T \in SUBSET R : gR[T] = gS[T]
          BY <4>2, <5>1, <5>4, UnfoldingsAgree
        <5> QED
          BY <5>2, <5>3, <5>5
      <4>6. G(S)[S] = ApplyEvent(G(S)[R], k)
        BY <3>3, <4>3 DEF Unfolds, R
      <4> QED
        BY <3>3, <4>3, <4>4, <4>5, <4>6 DEF R
    <3> QED
      BY <3>1, <3>2, <3>3
  <2>8. Unfolds(f, A, initial)
    <3>1. f = [S \in SUBSET A |-> f[S]]
      OBVIOUS
    <3> HIDE DEF f
    <3> QED
      BY <2>7, <3>1 DEF Unfolds
  <2> HIDE DEF f
  <2> QED
    BY <2>2, <2>8
<1>2. Exists(log)
  <2>1. Cardinality(log) \in Nat
    BY FS_CardinalityType
  <2> HIDE DEF Exists
  <2> QED
    BY <1>1, <2>1
<1> QED
  BY <1>2

LEMMA ReplayUnfolds ==
  ASSUME NEW log, IsFiniteSet(log), Ordered(log), NEW initial
  PROVE  \E f : Unfolds(f, log, initial) /\ Replay(log, initial) = f[log]
<1> DEFINE f == CHOOSE g : g = [S \in SUBSET log |->
                  IF S = {} THEN initial
                  ELSE LET e == LastOf(S) IN ApplyEvent(g[S \ {e}], e)]
<1>1. Unfolds(f, log, initial)
  <2>1. PICK g : Unfolds(g, log, initial)
    BY UnfoldingExists
  <2>2. f = [S \in SUBSET log |->
                  IF S = {} THEN initial
                  ELSE LET e == LastOf(S) IN ApplyEvent(f[S \ {e}], e)]
    BY <2>1 DEF Unfolds
  <2> HIDE DEF f
  <2> QED
    BY <2>2 DEF Unfolds
<1>2. Replay(log, initial) = f[log]
  BY DEF Replay
<1> HIDE DEF f
<1> QED
  BY <1>1, <1>2

(* What Replay computes: the last event applied to the replay of the rest. *)
LEMMA ReplayStep ==
  ASSUME NEW S, IsFiniteSet(S), Ordered(S), NEW initial
  PROVE  /\ S = {} => Replay(S, initial) = initial
         /\ S # {} => Replay(S, initial) =
                        ApplyEvent(Replay(S \ {LastOf(S)}, initial), LastOf(S))
<1>1. PICK f : Unfolds(f, S, initial) /\ Replay(S, initial) = f[S]
  BY ReplayUnfolds
<1>2. CASE S = {}
  BY <1>1, <1>2 DEF Unfolds
<1>3. CASE S # {}
  <2> DEFINE l == LastOf(S)
             R == S \ {l}
  <2>1. IsFiniteSet(R) /\ Ordered(R) /\ R \in SUBSET S
    BY FS_Subset DEF Ordered
  <2> HIDE DEF R
  <2>2. PICK g : Unfolds(g, R, initial) /\ Replay(R, initial) = g[R]
    BY <2>1, ReplayUnfolds
  <2>3. g[R] = f[R]
    BY <1>1, <2>1, <2>2, UnfoldingsAgree
  <2>4. f[S] = ApplyEvent(f[R], l)
    BY <1>1, <1>3 DEF Unfolds, R
  <2> QED
    BY <1>1, <1>3, <2>2, <2>3, <2>4 DEF R
<1> QED
  BY <1>2, <1>3

-----------------------------------------------------------------------------
(* Folds.  FoldLeft recurses over the subsets of the places of a sequence, *)
(* taking the largest place off; what it computes goes through the results *)
(* for the first places.                                                   *)

(* The maximum of a bounded set of numbers is one of them, and none is     *)
(* greater.                                                                *)
LEMMA LargestIn ==
  ASSUME NEW n \in Nat, NEW T \in SUBSET (0..n), T # {}
  PROVE  Max(T) \in T /\ \A t \in T : t <= Max(T)
<1> DEFINE Bounds == {k \in Nat : \A t \in T : t <= k}
<1>1. n \in Bounds /\ Bounds \in SUBSET Nat
  OBVIOUS
<1>2. PICK m \in Bounds : \A k \in Bounds : m <= k
  <2> HIDE DEF Bounds
  <2> QED
    BY <1>1, LeastExists
<1>3. m \in T
  <2>1. SUFFICES ASSUME m \notin T PROVE FALSE
    OBVIOUS
  <2>2. PICK t \in T : TRUE
    OBVIOUS
  <2>3. \A u \in T : u <= m /\ u # m /\ u \in Nat
    BY <2>1
  <2>4. m - 1 \in Bounds
    BY <2>2, <2>3
  <2> QED
    BY <1>2, <2>4
<1>4. \A t \in T : m >= t
  BY <1>2
<1>5. Max(T) \in T /\ \A t \in T : Max(T) >= t
  BY <1>3, <1>4, Zenon DEF Max
<1> QED
  BY <1>5

(* Induction over places: what holds of the first, and of each when it     *)
(* holds of the one before, holds of all.                                  *)
LEMMA PlacesInduction ==
  ASSUME NEW n \in Nat, NEW Held, 0 \in Held,
         \A i \in 1..n : i - 1 \in Held => i \in Held
  PROVE  \A i \in 0..n : i \in Held
<1> DEFINE Bad == {i \in 0..n : i \notin Held}
<1>1. ASSUME Bad # {} PROVE FALSE
  <2>1. Bad \in SUBSET Nat
    OBVIOUS
  <2>2. PICK m \in Bad : \A k \in Bad : m <= k
    <3> HIDE DEF Bad
    <3> QED
      BY <1>1, <2>1, LeastExists
  <2>3. m # 0 /\ m \in 1..n /\ m - 1 \in 0..n
    OBVIOUS
  <2>4. m - 1 \in Held
    BY <2>2, <2>3
  <2> QED
    BY <2>3, <2>4
<1> QED
  BY <1>1

LEMMA MaxIs ==
  ASSUME NEW i \in Nat, NEW A \in SUBSET (1..i), i \in A
  PROVE  Max(A) = i
<1>1. A \in SUBSET (0..i)
  OBVIOUS
<1>2. A # {}
  OBVIOUS
<1>3. Max(A) \in A /\ \A t \in A : t <= Max(A)
  BY <1>1, <1>2, LargestIn
<1>4. \A m \in A : i <= m => m = i
  OBVIOUS
<1> QED
  BY <1>3, <1>4

LEMMA LargestOfFirst ==
  ASSUME NEW n \in Nat, NEW i \in 1..n
  PROVE  /\ 1..i # {} /\ 1..i \in SUBSET (1..n)
         /\ Max(1..i) = i /\ (1..i) \ {Max(1..i)} = 1..(i - 1)
<1>1. i \in Nat /\ i \in 1..i /\ 1..i \in SUBSET (1..n)
  OBVIOUS
<1>2. Max(1..i) = i
  BY <1>1, MaxIs
<1>3. (1..i) \ {i} = 1..(i - 1)
  OBVIOUS
<1>4. 1..i # {}
  BY <1>1
<1> QED
  BY <1>1, <1>2, <1>3, <1>4, Zenon

LEMMA LargestPlace ==
  ASSUME NEW n \in Nat, NEW A \in SUBSET (1..n), A # {}
  PROVE  Max(A) \in 1..n /\ A \ {Max(A)} \in SUBSET (1..n)
<1>1. A \in SUBSET (0..n)
  OBVIOUS
<1> QED
  BY <1>1, LargestIn

(* The recursion, for a step that takes a place and the result before it.  *)
Folds(f, n, base, step) ==
  \A A \in SUBSET (1..n) :
    f[A] = IF A = {} THEN base ELSE step[<<Max(A), f[A \ {Max(A)}]>>]

(* It has a solution for every step.                                       *)
LEMMA FoldingExists ==
  ASSUME NEW n \in Nat, NEW X, NEW base \in X, NEW step \in [(1..n) \X X -> X]
  PROVE  \E f \in [SUBSET (1..n) -> X] : Folds(f, n, base, step)
<1> DEFINE Solves(f, i) == Folds(f, i, base, step)
           Held == {i \in 0..n : \E f \in [SUBSET (1..i) -> X] : Solves(f, i)}
<1>1. 0 \in Held
  <2> DEFINE f == [A \in SUBSET (1..0) |-> base]
  <2>1. \A A \in SUBSET (1..0) : A = {}
    OBVIOUS
  <2>2. f \in [SUBSET (1..0) -> X]
    OBVIOUS
  <2>3. \A A \in SUBSET (1..0) : f[A] = base
    OBVIOUS
  <2> HIDE DEF f
  <2>4. Solves(f, 0)
    BY <2>1, <2>3 DEF Folds
  <2>5. 0 \in 0..n
    OBVIOUS
  <2> HIDE DEF Solves
  <2>6. \E e \in [SUBSET (1..0) -> X] : Solves(e, 0)
    BY <2>2, <2>4
  <2> QED
    BY <2>5, <2>6, Zenon
<1>2. ASSUME NEW i \in 1..n, i - 1 \in Held
      PROVE  i \in Held
  <2>1. PICK f \in [SUBSET (1..(i - 1)) -> X] : Solves(f, i - 1)
    BY <1>2
  <2> DEFINE g == [A \in SUBSET (1..i) |->
                     IF i \in A THEN step[<<i, f[A \ {i}]>>] ELSE f[A]]
  <2>2. \A A \in SUBSET (1..i) : A \ {i} \in SUBSET (1..(i - 1))
    OBVIOUS
  <2>3. \A A \in SUBSET (1..i) : i \notin A => A \in SUBSET (1..(i - 1))
    OBVIOUS
  <2>4. g \in [SUBSET (1..i) -> X]
    <3> SUFFICES ASSUME NEW A \in SUBSET (1..i)
                 PROVE  (IF i \in A THEN step[<<i, f[A \ {i}]>>] ELSE f[A]) \in X
      OBVIOUS
    <3>1. CASE i \in A
      BY <2>2, <3>1
    <3>2. CASE i \notin A
      BY <2>3, <3>2
    <3> QED
      BY <3>1, <3>2
  <2>5. ASSUME NEW A \in SUBSET (1..i)
        PROVE  g[A] = IF A = {} THEN base ELSE step[<<Max(A), g[A \ {Max(A)}]>>]
    <3>1. CASE i \in A
      <4>1. Max(A) = i
        BY <3>1, MaxIs
      <4>2. g[A] = step[<<i, f[A \ {i}]>>]
        BY <3>1
      <4>3. g[A \ {i}] = f[A \ {i}]
        BY <2>2
      <4> QED
        BY <3>1, <4>1, <4>2, <4>3
    <3>2. CASE i \notin A
      <4>1. A \in SUBSET (1..(i - 1))
        BY <3>2
      <4>2. g[A] = f[A]
        BY <3>2
      <4>3. g[A \ {Max(A)}] = f[A \ {Max(A)}]
        BY <3>2
      <4> QED
        BY <2>1, <4>1, <4>2, <4>3 DEF Folds
    <3> QED
      BY <3>1, <3>2
  <2>6. Solves(g, i)
    <3> HIDE DEF g
    <3> QED
      BY <2>5 DEF Folds
  <2> HIDE DEF g, Solves
  <2> QED
    BY <2>4, <2>6
<1> HIDE DEF Held
<1>3. \A i \in 0..n : i \in Held
  BY <1>1, <1>2, PlacesInduction
<1>4. n \in Held
  BY <1>3
<1> QED
  BY <1>4 DEF Held

(* A fold that follows a step as long as the results are of X.            *)
Follows(g, n, X, base, step) ==
  /\ g[{}] = base
  /\ \A A \in SUBSET (1..n) :
       A # {} /\ g[A \ {Max(A)}] \in X => g[A] = step[<<Max(A), g[A \ {Max(A)}]>>]
StepsUp(h, g, n, base, step) ==
  h[0] = base /\ h[n] = g[1..n] /\ \A i \in 1..n : h[i] = step[<<i, h[i - 1]>>]

(* What a fold over a sequence computes, once it is known to follow a step *)
(* on its first places.                                                    *)
LEMMA FoldClimbs ==
  ASSUME NEW n \in Nat, NEW X, NEW base \in X, NEW step \in [(1..n) \X X -> X],
         NEW g, Follows(g, n, X, base, step)
  PROVE  \E h \in [0..n -> X] : StepsUp(h, g, n, base, step)
<1> USE DEF Follows
<1> DEFINE h == [i \in 0..n |-> g[1..i]]
           Held == {i \in 0..n : g[1..i] \in X}
<1>1. 1..0 = {} /\ 0 \in 0..n /\ n \in 0..n
  OBVIOUS
<1>2. ASSUME NEW i \in 1..n, i - 1 \in Held
      PROVE  i \in Held /\ g[1..i] = step[<<i, g[1..(i - 1)]>>]
  <2>1. /\ 1..i # {} /\ 1..i \in SUBSET (1..n) /\ Max(1..i) = i
        /\ (1..i) \ {Max(1..i)} = 1..(i - 1)
    BY LargestOfFirst
  <2>2. g[1..i] = step[<<i, g[1..(i - 1)]>>]
    BY <1>2, <2>1
  <2>3. <<i, g[1..(i - 1)]>> \in (1..n) \X X /\ i \in 0..n
    BY <1>2
  <2> QED
    BY <2>2, <2>3
<1>3. 0 \in Held
  BY <1>1
<1> HIDE DEF Held
<1>4. \A i \in 0..n : i \in Held
  BY <1>2, <1>3, PlacesInduction
<1>5. \A i \in 1..n : i \in 0..n /\ i - 1 \in 0..n
  OBVIOUS
<1>6. \A i \in 1..n : g[1..i] = step[<<i, g[1..(i - 1)]>>]
  BY <1>2, <1>4, <1>5
<1>7. h \in [0..n -> X]
  BY <1>4 DEF Held
<1>8. h[0] = base /\ h[n] = g[1..n]
  BY <1>1
<1>9. \A i \in 1..n : h[i] = step[<<i, h[i - 1]>>]
  BY <1>5, <1>6
<1> HIDE DEF h
<1> QED
  BY <1>7, <1>8, <1>9 DEF StepsUp

-----------------------------------------------------------------------------
(* Division                                                                *)

LEMMA DivBounds ==
  ASSUME NEW a \in Nat, NEW b \in Nat \ {0}
  PROVE  a \div b \in Nat /\ b * (a \div b) <= a /\ a < b * (a \div b) + b
OBVIOUS

LEMMA DivAtLeast ==
  ASSUME NEW a \in Nat, NEW b \in Nat \ {0}, NEW q \in Int, b * q <= a
  PROVE  q <= a \div b
<1> DEFINE d == a \div b
<1>1. d \in Nat /\ a < b * d + b
  BY DivBounds
<1> HIDE DEF d
<1>2. b * q < b * d + b
  BY <1>1, Z3
<1>3. q >= d + 1 => b * q >= b * (d + 1)
  BY <1>1, Z3
<1>4. b * (d + 1) = b * d + b
  BY <1>1, Z3
<1>5. q <= d
  BY <1>1, <1>2, <1>3, <1>4, Z3
<1> QED
  BY <1>5 DEF d

LEMMA DivAtMost ==
  ASSUME NEW a \in Nat, NEW b \in Nat \ {0}, NEW q \in Int, a < b * q + b
  PROVE  a \div b <= q
<1> DEFINE d == a \div b
<1>1. d \in Nat /\ b * d <= a
  BY DivBounds
<1> HIDE DEF d
<1>2. b * d < b * q + b
  BY <1>1, Z3
<1>3. d >= q + 1 => b * d >= b * (q + 1)
  BY <1>1, Z3
<1>4. b * (q + 1) = b * q + b
  BY <1>1, Z3
<1>5. d <= q
  BY <1>1, <1>2, <1>3, <1>4, Z3
<1> QED
  BY <1>5 DEF d
=============================================================================

--------------------------- MODULE TransportProofs ---------------------------
(***************************************************************************)
(* The reliability layer implements ReliableChannel for any number of      *)
(* messages, any mix of reliabilities, any limits and any behaviour of the *)
(* network; its ACKs are truthful, its NAKs ask for what is missing, its   *)
(* byte count is exact, and a reliable message is lost only behind an      *)
(* empty one or to a limit of a buffer, which within the limits is never.  *)
(* With an ordering channel on top it implements OrderedChannel.           *)
(*                                                                         *)
(* ACKs and byte counts are sums and lists that are built by folds: so the *)
(* module begins with what a fold is: a function on sets of indices, the   *)
(* value of a set coming from that of the set without one element.         *)
(***************************************************************************)
EXTENDS OrderedTransport, FiniteSetTheorems, SequenceTheorems, WellFoundedInduction, TLAPS

(* Numbers, and functions defined by folds.                                *)

(* A set of numbers that is not empty has a least one. *)
LEMMA LeastNumber ==
    ASSUME NEW S \in SUBSET Nat, S # {}
    PROVE  Min(S) \in S /\ \A y \in S : Min(S) <= y
  <1>1. PICK x \in S : \A y \in S : <<y, x>> \notin OpToRel(<, Nat)
    BY NatLessThanWellFounded, WFMin
  <1>2. \A y \in S : x <= y
    <2> SUFFICES ASSUME NEW y \in S, ~(x <= y)
                 PROVE  <<y, x>> \in OpToRel(<, Nat)
      BY <1>1
    <2>1. y \in Nat /\ x \in Nat /\ y < x
      OBVIOUS
    <2> QED
      BY <2>1 DEF OpToRel
  <1> QED
    BY <1>2 DEF Min

(* What holds of 0, and of n + 1 when it holds of n, holds of every number. *)
LEMMA EveryNumber ==
    ASSUME NEW P \in SUBSET Nat, 0 \in P, \A n \in P : n + 1 \in P
    PROVE  P = Nat
  <1> SUFFICES ASSUME Nat \ P # {} PROVE FALSE
    OBVIOUS
  <1> DEFINE m == Min(Nat \ P)
  <1>1. m \in Nat \ P /\ \A y \in Nat \ P : m <= y
    BY LeastNumber
  <1> HIDE DEF m
  <1>2. m - 1 \in Nat /\ m - 1 \in P
    BY <1>1
  <1> QED
    BY <1>1, <1>2

(* A way to take the elements of U out one by one, functions of the parts  *)
(* of U that agree as long as they agree with one element less, and one    *)
(* whose value is made in steps from that with one element less.           *)
Picks(U, pick) == \A d \in (SUBSET U) \ {{}} : pick[d] \in d

Agree(U, pick, f, g) ==
    /\ f[{}] = g[{}]
    /\ \A d \in (SUBSET U) \ {{}} :
          f[d \ {pick[d]}] = g[d \ {pick[d]}] => f[d] = g[d]

InSteps(U, pick, base, step, g) ==
    /\ g[{}] = base
    /\ \A d \in (SUBSET U) \ {{}} : g[d] = step[<<d, g[d \ {pick[d]}]>>]

(* Such steps define a value of every part of a finite set ...             *)
LEMMA FoldExists ==
    ASSUME NEW U, IsFiniteSet(U), NEW X, NEW base \in X,
           NEW pick, Picks(U, pick), NEW step \in [((SUBSET U) \ {{}}) \X X -> X]
    PROVE  \E g \in [SUBSET U -> X] : InSteps(U, pick, base, step, g)
  <1> DEFINE Up(n) == {d \in SUBSET U : Cardinality(d) <= n}
             Rec(g, n) == /\ g[{}] = base
                          /\ \A d \in Up(n) \ {{}} : g[d] = step[<<d, g[d \ {pick[d]}]>>]
             Has(n) == \E g \in [Up(n) -> X] : Rec(g, n)
             P == {n \in Nat : Has(n)}
  <1>1. \A d \in SUBSET U : IsFiniteSet(d) /\ Cardinality(d) \in Nat
    BY FS_Subset, FS_CardinalityType
  <1>2. Cardinality({}) = 0 /\ \A d \in SUBSET U : Cardinality(d) = 0 => d = {}
    BY <1>1, FS_EmptySet
  <1>3. \A d \in (SUBSET U) \ {{}} :
           /\ d \ {pick[d]} \in SUBSET U
           /\ Cardinality(d \ {pick[d]}) = Cardinality(d) - 1
    BY <1>1, FS_RemoveElement DEF Picks
  <1>4. 0 \in P
    <2> DEFINE g == [d \in Up(0) |-> base]
    <2>1. {} \in Up(0) /\ \A d \in Up(0) : d = {}
      BY <1>1, <1>2
    <2>2. g \in [Up(0) -> X]
      OBVIOUS
    <2>3. g[{}] = base
      BY <2>1
    <2>4. Rec(g, 0)
      BY <2>1, <2>3
    <2> QED
      BY <2>2, <2>4
  <1>5. ASSUME NEW n \in P PROVE n + 1 \in P
    <2>1. n \in Nat
      OBVIOUS
    <2>2. PICK g \in [Up(n) -> X] : Rec(g, n)
      OBVIOUS
    <2> DEFINE h == [d \in Up(n + 1) |-> IF d \in Up(n) THEN g[d]
                                        ELSE step[<<d, g[d \ {pick[d]}]>>]]
    <2>3. {} \in Up(n) /\ {} \in Up(n + 1)
      BY <1>2, <2>1
    <2>4. \A d \in Up(n + 1) \ {{}} :
             d \ {pick[d]} \in Up(n) /\ d \ {pick[d]} \in Up(n + 1)
      BY <1>1, <1>3, <2>1
    <2>5. \A d \in Up(n + 1) : d \notin Up(n) => d # {} /\ d \in (SUBSET U) \ {{}}
      BY <2>3
    <2>6. ASSUME NEW d \in Up(n + 1) PROVE h[d] \in X
      <3>1. CASE d \in Up(n)
        BY <3>1
      <3>2. CASE d \notin Up(n)
        <4>1. g[d \ {pick[d]}] \in X /\ d \in (SUBSET U) \ {{}}
          BY <3>2, <2>4, <2>5
        <4>2. step[<<d, g[d \ {pick[d]}]>>] \in X
          BY <4>1
        <4> QED
          BY <3>2, <4>2
      <3> QED
        BY <3>1, <3>2
    <2>7. h \in [Up(n + 1) -> X]
      BY <2>6
    <2>8. h[{}] = base
      BY <2>2, <2>3
    <2>9. ASSUME NEW d \in Up(n + 1) \ {{}}
          PROVE  h[d] = step[<<d, h[d \ {pick[d]}]>>]
      <3>1. h[d \ {pick[d]}] = g[d \ {pick[d]}]
        BY <2>4
      <3>2. CASE d \in Up(n)
        BY <3>1, <3>2, <2>2
      <3>3. CASE d \notin Up(n)
        BY <3>1, <3>3
      <3> QED
        BY <3>2, <3>3
    <2>10. Rec(h, n + 1)
      BY <2>8, <2>9
    <2> HIDE DEF h
    <2>11. Has(n + 1)
      BY <2>7, <2>10
    <2> HIDE DEF Has
    <2> QED
      BY <2>1, <2>11
  <1>6. Cardinality(U) \in P
    <2> HIDE DEF P
    <2>1. P \subseteq Nat
      BY DEF P
    <2>2. P = Nat
      BY <1>4, <1>5, <2>1, EveryNumber
    <2> QED
      BY <2>2, FS_CardinalityType
  <1>7. Up(Cardinality(U)) = SUBSET U
    BY <1>1, FS_Subset, FS_CardinalityType
  <1> QED
    BY <1>6, <1>7 DEF InSteps

(* ... and no other value.                                                 *)
LEMMA FoldUnique ==
    ASSUME NEW U, IsFiniteSet(U), NEW f, NEW g, NEW pick,
           Picks(U, pick), Agree(U, pick, f, g)
    PROVE  f[U] = g[U]
  <1> DEFINE P == {n \in Nat : \A d \in SUBSET U : Cardinality(d) = n => f[d] = g[d]}
  <1>1. \A d \in SUBSET U : IsFiniteSet(d) /\ Cardinality(d) \in Nat
    BY FS_Subset, FS_CardinalityType
  <1>2. \A d \in SUBSET U : Cardinality(d) = 0 => d = {}
    BY <1>1, FS_EmptySet
  <1>3. \A d \in (SUBSET U) \ {{}} :
           /\ d \ {pick[d]} \in SUBSET U
           /\ Cardinality(d \ {pick[d]}) = Cardinality(d) - 1
    BY <1>1, FS_RemoveElement DEF Picks
  <1>4. 0 \in P
    BY <1>2 DEF Agree
  <1>5. ASSUME NEW n \in P PROVE n + 1 \in P
    <2>1. n \in Nat /\ n + 1 # 0 /\ (n + 1) - 1 = n
      OBVIOUS
    <2>2. ASSUME NEW d \in SUBSET U, Cardinality(d) = n + 1 PROVE f[d] = g[d]
      <3>1. d # {}
        BY <2>1, <2>2, FS_EmptySet
      <3>2. Cardinality(d \ {pick[d]}) = n /\ d \ {pick[d]} \in SUBSET U
        BY <1>3, <2>1, <2>2, <3>1
      <3>3. f[d \ {pick[d]}] = g[d \ {pick[d]}]
        BY <3>2
      <3> QED
        BY <3>1, <3>3 DEF Agree
    <2> QED
      BY <2>1, <2>2
  <1>6. P = Nat
    <2> HIDE DEF P
    <2>1. P \subseteq Nat
      BY DEF P
    <2> QED
      BY <1>4, <1>5, <2>1, EveryNumber
  <1> QED
    BY <1>1, <1>6, FS_Subset

(* A set of numbers none of which is beyond n has a greatest one.          *)
LEMMA GreatestNumber ==
    ASSUME NEW n \in Nat, NEW S \in SUBSET (0 .. n), S # {}
    PROVE  Max(S) \in S /\ \A y \in S : y <= Max(S)
  <1> DEFINE T == {n - x : x \in S}
  <1>1. T \in SUBSET Nat /\ T # {}
    <2>1. \A x \in S : n - x \in Nat
      OBVIOUS
    <2>2. PICK x \in S : TRUE
      OBVIOUS
    <2>3. n - x \in T
      BY <2>2
    <2> QED
      BY <2>1, <2>3
  <1>2. Min(T) \in T /\ \A y \in T : Min(T) <= y
    BY <1>1, LeastNumber
  <1>3. PICK x \in S : Min(T) = n - x
    BY <1>2
  <1>4. \A y \in S : y <= x
    <2> SUFFICES ASSUME NEW y \in S PROVE y <= x
      OBVIOUS
    <2>1. n - y \in T
      OBVIOUS
    <2>2. n - x <= n - y
      BY <1>2, <1>3, <2>1
    <2>3. x \in Nat /\ y \in Nat
      OBVIOUS
    <2> QED
      BY <2>2, <2>3
  <1>5. \A y \in S : y \in Nat
    OBVIOUS
  <1> HIDE DEF T
  <1>6. \E z \in S : \A y \in S : z >= y
    BY <1>4, <1>5
  <1>7. Max(S) \in S /\ \A y \in S : Max(S) >= y
    BY <1>6 DEF Max
  <1> QED
    BY <1>5, <1>7

(* The greater of two numbers.                                             *)
LEMMA MaxOfTwo ==
    ASSUME NEW a \in Nat, NEW b \in Nat
    PROVE  Max({a, b}) = IF a >= b THEN a ELSE b
  <1> DEFINE n == IF a >= b THEN a ELSE b
  <1>1. n \in Nat /\ {a, b} \in SUBSET (0 .. n) /\ {a, b} # {}
    OBVIOUS
  <1>2. Max({a, b}) \in {a, b} /\ \A y \in {a, b} : y <= Max({a, b})
    BY <1>1, GreatestNumber
  <1> QED
    BY <1>2

(* What a fold from the left goes through, and how FoldLeft, which takes   *)
(* the greatest index of a set of them out, gets there.                    *)
Partial(s, base, op, w) ==
    w[0] = base /\ \A i \in 1 .. Len(s) : w[i] = op[<<w[i - 1], s[i]>>]

ByIndices(s, base, op, g) ==
    /\ g[{}] = base
    /\ \A d \in (SUBSET DOMAIN s) \ {{}} : g[d] = op[<<g[d \ {Max(d)}], s[Max(d)]>>]

MaxPick(s) == [d \in SUBSET DOMAIN s |-> Max(d)]

(* The greatest of the indices of a sequence, as folds take it out.        *)
LEMMA LastIndex ==
    ASSUME NEW E, NEW s \in Seq(E)
    PROVE  /\ IsFiniteSet(DOMAIN s)
           /\ \A d \in (SUBSET DOMAIN s) \ {{}} : Max(d) \in d /\ Max(d) \in DOMAIN s
           /\ \A i \in DOMAIN s : Max(1 .. i) = i /\ (1 .. i) \ {i} = 1 .. i - 1
  <1>1. DOMAIN s = 1 .. Len(s) /\ Len(s) \in Nat
    OBVIOUS
  <1>2. IsFiniteSet(1 .. Len(s))
    BY <1>1, FS_Interval
  <1>3. ASSUME NEW d \in (SUBSET DOMAIN s) \ {{}}
        PROVE  Max(d) \in d /\ Max(d) \in DOMAIN s
    <2>1. d \in SUBSET (0 .. Len(s)) /\ d # {}
      BY <1>1
    <2> QED
      BY <1>1, <2>1, GreatestNumber
  <1>4. ASSUME NEW i \in DOMAIN s
        PROVE  Max(1 .. i) = i /\ (1 .. i) \ {i} = 1 .. i - 1
    <2>1. i \in Nat /\ 1 .. i \in SUBSET (0 .. i) /\ i \in 1 .. i
      BY <1>1
    <2>2. Max(1 .. i) \in 1 .. i /\ i <= Max(1 .. i)
      BY <2>1, GreatestNumber
    <2> QED
      BY <2>1, <2>2
  <1> QED
    BY <1>1, <1>2, <1>3, <1>4

FoldOf(s, X, base, op, w, g) ==
    /\ w \in [0 .. Len(s) -> X] /\ g \in [SUBSET DOMAIN s -> X]
    /\ Partial(s, base, op, w) /\ ByIndices(s, base, op, g)
    /\ \A it : Agree(DOMAIN s, MaxPick(s), it, g) => it[DOMAIN s] = w[Len(s)]

Folds(s, E, X, base, op) == s \in Seq(E) /\ base \in X /\ op \in [X \X E -> X]

(* A fold from the left over a sequence ends where going through it does.  *)
LEMMA FoldLeftExists ==
    ASSUME NEW s, NEW E, NEW X, NEW base, NEW op, Folds(s, E, X, base, op)
    PROVE  \E w, g : FoldOf(s, X, base, op, w, g)
  <1> s \in Seq(E) /\ base \in X /\ op \in [X \X E -> X]
    BY DEF Folds
  <1> DEFINE U == DOMAIN s
             pick == [d \in SUBSET U |-> Max(d)]
             step == [q \in ((SUBSET U) \ {{}}) \X X |-> op[<<q[2], s[pick[q[1]]]>>]]
  <1>1. \A d \in (SUBSET U) \ {{}} : pick[d] = Max(d) /\ pick[d] \in d /\ pick[d] \in U
    BY LastIndex
  <1>2. Picks(U, pick)
    BY <1>1 DEF Picks
  <1>3. step \in [((SUBSET U) \ {{}}) \X X -> X]
    <2> SUFFICES ASSUME NEW q \in ((SUBSET U) \ {{}}) \X X
                 PROVE  op[<<q[2], s[pick[q[1]]]>>] \in X
      OBVIOUS
    <2>1. q[1] \in (SUBSET U) \ {{}} /\ q[2] \in X
      OBVIOUS
    <2>2. pick[q[1]] \in U
      BY <1>1, <2>1
    <2>3. s[pick[q[1]]] \in E
      BY <2>2
    <2> QED
      BY <2>1, <2>3
  <1>4. PICK g \in [SUBSET U -> X] : InSteps(U, pick, base, step, g)
    <2>1. IsFiniteSet(U)
      BY LastIndex
    <2> HIDE DEF U, pick, step
    <2> QED
      BY <1>2, <1>3, <2>1, FoldExists
  <1>5. \A d \in (SUBSET U) \ {{}} : g[d] = op[<<g[d \ {Max(d)}], s[Max(d)]>>]
    <2> SUFFICES ASSUME NEW d \in (SUBSET U) \ {{}}
                 PROVE  g[d] = op[<<g[d \ {pick[d]}], s[pick[d]]>>]
      BY <1>1
    <2>1. g[d] = step[<<d, g[d \ {pick[d]}]>>]
      BY <1>4 DEF InSteps
    <2>2. <<d, g[d \ {pick[d]}]>> \in ((SUBSET U) \ {{}}) \X X
      <3>1. d \ {pick[d]} \in SUBSET U
        OBVIOUS
      <3> QED
        BY <3>1
    <2> QED
      BY <2>1, <2>2
  <1>6. g[{}] = base
    BY <1>4 DEF InSteps
  <1>7. ByIndices(s, base, op, g)
    BY <1>5, <1>6 DEF ByIndices
  <1> DEFINE w == [i \in 0 .. Len(s) |-> g[1 .. i]]
  <1>8. Len(s) \in Nat /\ U = 1 .. Len(s)
    OBVIOUS
  <1>9. w \in [0 .. Len(s) -> X]
    <2> SUFFICES ASSUME NEW i \in 0 .. Len(s) PROVE 1 .. i \in SUBSET U
      OBVIOUS
    <2> QED
      BY <1>8
  <1>10. Partial(s, base, op, w)
    <2>1. w[0] = base
      <3>1. 1 .. 0 = {} /\ 0 \in 0 .. Len(s)
        BY <1>8
      <3> QED
        BY <1>6, <3>1
    <2>2. ASSUME NEW i \in 1 .. Len(s)
          PROVE  w[i] = op[<<w[i - 1], s[i]>>]
      <3>1. /\ i \in U /\ 1 .. i \in (SUBSET U) \ {{}}
            /\ i \in 0 .. Len(s) /\ i - 1 \in 0 .. Len(s)
        <4>1. i \in 1 .. i /\ 1 .. i \subseteq 1 .. Len(s)
          BY <1>8
        <4>2. i \in U /\ i \in 0 .. Len(s) /\ i - 1 \in 0 .. Len(s)
          BY <1>8
        <4> QED
          BY <1>8, <4>1, <4>2
      <3>2. Max(1 .. i) = i /\ (1 .. i) \ {i} = 1 .. i - 1
        BY <3>1, LastIndex
      <3>3. g[1 .. i] = op[<<g[1 .. i - 1], s[i]>>]
        BY <1>5, <3>1, <3>2
      <3> QED
        BY <3>1, <3>3
    <2> QED
      BY <2>1, <2>2 DEF Partial
  <1>11. g[DOMAIN s] = w[Len(s)]
    BY <1>8
  <1>12. ASSUME NEW it, Agree(DOMAIN s, MaxPick(s), it, g)
         PROVE  it[DOMAIN s] = w[Len(s)]
    <2>1. Picks(DOMAIN s, MaxPick(s)) /\ IsFiniteSet(DOMAIN s)
      BY LastIndex DEF Picks, MaxPick
    <2> HIDE DEF w
    <2> QED
      BY <1>11, <1>12, <2>1, FoldUnique
  <1> HIDE DEF w, U
  <1>13. w \in [0 .. Len(s) -> X] /\ g \in [SUBSET DOMAIN s -> X]
    BY <1>9 DEF U
  <1> QED
    BY <1>7, <1>10, <1>12, <1>13 DEF FoldOf

----------------------------------------------------------------------------
(* The bytes of a set of records.                                          *)

(* The sizes of records add up: there are as many bytes as in one of them  *)
(* and the others together.                                                *)
LEMMA SizesOf ==
    ASSUME NEW h, NEW U, IsFiniteSet(U), \A x \in U : h[x].size \in Nat
    PROVE  /\ Sizes(h, U) \in Nat
           /\ U = {} => Sizes(h, U) = 0
           /\ U # {} => \E x \in U : Sizes(h, U) = h[x].size + Sizes(h, U \ {x})
  <1> DEFINE Fold(it, S) ==
                 it = [d \in SUBSET S |->
                          IF d = {} THEN 0
                          ELSE h[CHOOSE x \in d : TRUE].size + it[d \ {CHOOSE x \in d : TRUE}]]
             pick == [d \in SUBSET U |-> CHOOSE x \in d : TRUE]
             step == [q \in ((SUBSET U) \ {{}}) \X Nat |-> h[pick[q[1]]].size + q[2]]
  <1>1. \A d \in (SUBSET U) \ {{}} : pick[d] \in d /\ pick[d] = CHOOSE x \in d : TRUE
    OBVIOUS
  <1>2. step \in [((SUBSET U) \ {{}}) \X Nat -> Nat]
    <2> SUFFICES ASSUME NEW q \in ((SUBSET U) \ {{}}) \X Nat
                 PROVE  h[pick[q[1]]].size + q[2] \in Nat
      OBVIOUS
    <2>1. q[1] \in (SUBSET U) \ {{}} /\ q[2] \in Nat
      OBVIOUS
    <2>2. pick[q[1]] \in U
      BY <1>1, <2>1
    <2> QED
      BY <2>1, <2>2
  <1>3. PICK g \in [SUBSET U -> Nat] :
           InSteps(U, pick, 0, step, g)
    <2>1. 0 \in Nat /\ Picks(U, pick)
      BY <1>1 DEF Picks
    <2> HIDE DEF pick, step
    <2> QED
      BY <1>2, <2>1, FoldExists
  <1>4. \A d \in (SUBSET U) \ {{}} :
           g[d] = h[CHOOSE x \in d : TRUE].size + g[d \ {CHOOSE x \in d : TRUE}]
    <2>0. g[{}] = 0 /\ \A d \in (SUBSET U) \ {{}} : g[d] = step[<<d, g[d \ {pick[d]}]>>]
      BY <1>3 DEF InSteps
    <2> SUFFICES ASSUME NEW d \in (SUBSET U) \ {{}}
                 PROVE  g[d] = h[pick[d]].size + g[d \ {pick[d]}]
      BY <1>1
    <2>1. d \ {pick[d]} \in SUBSET U
      OBVIOUS
    <2>2. <<d, g[d \ {pick[d]}]>> \in ((SUBSET U) \ {{}}) \X Nat
      BY <2>1
    <2> QED
      BY <2>0, <2>2
  <1>5. ASSUME NEW S \in SUBSET U
        PROVE  Sizes(h, S) = g[S]
    <2> DEFINE gS == [d \in SUBSET S |-> g[d]]
    <2>1. Fold(gS, S)
      <3> SUFFICES ASSUME NEW d \in SUBSET S
                   PROVE  g[d] = IF d = {} THEN 0
                                 ELSE h[CHOOSE x \in d : TRUE].size
                                        + gS[d \ {CHOOSE x \in d : TRUE}]
        BY Zenon
      <3>1. d \in SUBSET U /\ \A x : gS[d \ {x}] = g[d \ {x}]
        OBVIOUS
      <3>2. CASE d = {}
        BY <1>3, <3>2 DEF InSteps
      <3>3. CASE d # {}
        BY <1>4, <3>1, <3>3
      <3> QED
        BY <3>2, <3>3
    <2>2. PICK it : Fold(it, S) /\ Sizes(h, S) = it[S]
      <3> HIDE DEF gS
      <3> QED
        BY <2>1, Zenon DEF Sizes, MapThenSumSet, MapThenFoldSet
    <2>3. IsFiniteSet(S)
      BY FS_Subset
    <2>4. \A d \in (SUBSET S) \ {{}} :
             it[d \ {pick[d]}] = gS[d \ {pick[d]}] => it[d] = gS[d]
      <3> SUFFICES ASSUME NEW d \in (SUBSET S) \ {{}},
                          it[d \ {pick[d]}] = gS[d \ {pick[d]}]
                   PROVE  it[d] = gS[d]
        BY <1>1
      <3>1. pick[d] = CHOOSE x \in d : TRUE
        OBVIOUS
      <3>2. it[d] = h[CHOOSE x \in d : TRUE].size + it[d \ {CHOOSE x \in d : TRUE}]
        BY <2>2
      <3>3. gS[d] = h[CHOOSE x \in d : TRUE].size + gS[d \ {CHOOSE x \in d : TRUE}]
        BY <2>1
      <3> QED
        BY <3>1, <3>2, <3>3
    <2>5. it[{}] = gS[{}]
      <3>1. it[{}] = 0
        BY <2>2
      <3> QED
        BY <1>3, <3>1 DEF InSteps
    <2>6. it[S] = gS[S]
      <3>1. Picks(S, pick)
        BY <1>1 DEF Picks
      <3> HIDE DEF gS, pick, Fold
      <3>2. Agree(S, pick, it, gS)
        BY <2>4, <2>5 DEF Agree
      <3> QED
        BY <2>3, <3>1, <3>2, FoldUnique
    <2> QED
      BY <2>2, <2>6
  <1>6. U = {} => Sizes(h, U) = 0
    BY <1>3, <1>5 DEF InSteps
  <1>7. ASSUME U # {}
        PROVE  \E x \in U : Sizes(h, U) = h[x].size + Sizes(h, U \ {x})
    <2> DEFINE x == CHOOSE e \in U : TRUE
    <2>1. x \in U
      BY <1>7
    <2>2. Sizes(h, U) = g[U] /\ Sizes(h, U \ {x}) = g[U \ {x}]
      BY <1>5
    <2>3. g[U] = h[x].size + g[U \ {x}]
      BY <1>4, <1>7
    <2> QED
      BY <2>1, <2>2, <2>3
  <1>8. Sizes(h, U) \in Nat
    BY <1>3, <1>5
  <1> QED
    BY <1>6, <1>7, <1>8

(* Any record may be the one.                                              *)
LEMMA SizesRemove ==
    ASSUME NEW h, NEW U, IsFiniteSet(U), \A x \in U : h[x].size \in Nat, NEW a \in U
    PROVE  Sizes(h, U) = h[a].size + Sizes(h, U \ {a})
  <1> DEFINE Good(n) == \A S \in SUBSET U : Cardinality(S) = n =>
                            \A x \in S : Sizes(h, S) = h[x].size + Sizes(h, S \ {x})
             P == {n \in Nat : Good(n)}
  <1>1. \A S \in SUBSET U : IsFiniteSet(S) /\ Cardinality(S) \in Nat
    BY FS_Subset, FS_CardinalityType
  <1>2. ASSUME NEW S \in SUBSET U
        PROVE  /\ Sizes(h, S) \in Nat
               /\ S # {} => \E x \in S : Sizes(h, S) = h[x].size + Sizes(h, S \ {x})
    BY <1>1, SizesOf
  <1>3. 0 \in P
    <2>1. \A S \in SUBSET U : Cardinality(S) = 0 => S = {}
      BY <1>1, FS_EmptySet
    <2> QED
      BY <2>1
  <1>4. ASSUME NEW n \in P PROVE n + 1 \in P
    <2>1. ASSUME NEW S \in SUBSET U, Cardinality(S) = n + 1, NEW x \in S
          PROVE  Sizes(h, S) = h[x].size + Sizes(h, S \ {x})
      <3>1. PICK y \in S : Sizes(h, S) = h[y].size + Sizes(h, S \ {y})
        BY <1>2
      <3>2. CASE x = y
        BY <3>1, <3>2
      <3>3. CASE x # y
        <4>1. /\ S \ {x} \in SUBSET U /\ S \ {y} \in SUBSET U
              /\ y \in S \ {x} /\ x \in S \ {y}
              /\ (S \ {x}) \ {y} = (S \ {y}) \ {x} /\ (S \ {x}) \ {y} \in SUBSET U
          BY <3>3
        <4>2. Cardinality(S \ {x}) = n /\ Cardinality(S \ {y}) = n
          BY <1>1, <2>1, FS_RemoveElement
        <4>3. /\ Sizes(h, S \ {x}) = h[y].size + Sizes(h, (S \ {x}) \ {y})
              /\ Sizes(h, S \ {y}) = h[x].size + Sizes(h, (S \ {x}) \ {y})
          BY <4>1, <4>2
        <4>4. h[x].size \in Nat /\ h[y].size \in Nat /\ Sizes(h, (S \ {x}) \ {y}) \in Nat
          BY <1>2, <4>1
        <4> QED
          BY <3>1, <4>3, <4>4
      <3> QED
        BY <3>2, <3>3
    <2>2. Good(n + 1)
      BY <2>1
    <2> HIDE DEF Good
    <2> QED
      BY <2>2
  <1>5. Cardinality(U) \in P
    <2>1. P \subseteq Nat
      OBVIOUS
    <2> HIDE DEF P
    <2>2. P = Nat
      BY <1>3, <1>4, <2>1, EveryNumber
    <2> QED
      BY <2>2, FS_CardinalityType
  <1> QED
    BY <1>5

(* Records that are apart are counted apart.                               *)
LEMMA SizesUnion ==
    ASSUME NEW h, NEW A, NEW B, IsFiniteSet(A), IsFiniteSet(B), A \cap B = {},
           \A x \in A \cup B : h[x].size \in Nat
    PROVE  Sizes(h, A \cup B) = Sizes(h, A) + Sizes(h, B)
  <1> DEFINE Good(n) == \A S \in SUBSET B : Cardinality(S) = n =>
                            Sizes(h, A \cup S) = Sizes(h, A) + Sizes(h, S)
             P == {n \in Nat : Good(n)}
  <1>1. \A S \in SUBSET B : /\ IsFiniteSet(S) /\ Cardinality(S) \in Nat
                            /\ IsFiniteSet(A \cup S)
    BY FS_Subset, FS_CardinalityType, FS_Union
  <1>2. Sizes(h, A) \in Nat /\ \A S \in SUBSET B : Sizes(h, S) \in Nat
    <2>1. \A x \in A : h[x].size \in Nat
      OBVIOUS
    <2>2. \A S \in SUBSET B : \A x \in S : h[x].size \in Nat
      OBVIOUS
    <2> QED
      BY <1>1, <2>1, <2>2, SizesOf
  <1>3. 0 \in P
    <2>1. \A S \in SUBSET B : Cardinality(S) = 0 => S = {}
      BY <1>1, FS_EmptySet
    <2>2. Sizes(h, {}) = 0 /\ A \cup {} = A
      BY FS_EmptySet, SizesOf
    <2>3. Good(0)
      <3> SUFFICES ASSUME NEW S \in SUBSET B, Cardinality(S) = 0
                   PROVE  Sizes(h, A \cup S) = Sizes(h, A) + Sizes(h, S)
        OBVIOUS
      <3>1. S = {}
        BY <2>1
      <3> QED
        BY <1>2, <2>2, <3>1
    <2> HIDE DEF Good
    <2> QED
      BY <2>3
  <1>4. ASSUME NEW n \in P PROVE n + 1 \in P
    <2>1. ASSUME NEW S \in SUBSET B, Cardinality(S) = n + 1
          PROVE  Sizes(h, A \cup S) = Sizes(h, A) + Sizes(h, S)
      <3>1. PICK x \in S : TRUE
        <4>1. S # {}
          BY <2>1, FS_EmptySet
        <4> QED
          BY <4>1
      <3>2. S \ {x} \in SUBSET B /\ (A \cup S) \ {x} = A \cup (S \ {x})
        OBVIOUS
      <3>3. Cardinality(S \ {x}) = n
        <4>1. n \in Nat /\ IsFiniteSet(S)
          BY <1>1
        <4>2. Cardinality(S \ {x}) = Cardinality(S) - 1
          BY <3>1, <4>1, FS_RemoveElement
        <4> QED
          BY <2>1, <4>1, <4>2
      <3>4. Sizes(h, A \cup (S \ {x})) = Sizes(h, A) + Sizes(h, S \ {x})
        BY <3>2, <3>3
      <3>5. /\ IsFiniteSet(S) /\ IsFiniteSet(A \cup S)
            /\ x \in S /\ x \in A \cup S /\ h[x].size \in Nat
            /\ \A y \in S : h[y].size \in Nat
            /\ \A y \in A \cup S : h[y].size \in Nat
        BY <1>1, <3>1
      <3> HIDE DEF P
      <3>6. Sizes(h, S) = h[x].size + Sizes(h, S \ {x})
        BY <3>5, SizesRemove
      <3>7. Sizes(h, A \cup S) = h[x].size + Sizes(h, (A \cup S) \ {x})
        BY <3>5, SizesRemove
      <3>8. Sizes(h, (A \cup S) \ {x}) = Sizes(h, A) + Sizes(h, S \ {x})
        BY <3>2, <3>4
      <3>9. Sizes(h, A) \in Nat /\ Sizes(h, S \ {x}) \in Nat
        BY <1>2, <3>2
      <3> QED
        BY <3>5, <3>6, <3>7, <3>8, <3>9
    <2>2. Good(n + 1)
      BY <2>1
    <2> HIDE DEF Good
    <2> QED
      BY <2>2
  <1>5. Cardinality(B) \in P
    <2>1. P \subseteq Nat
      OBVIOUS
    <2> HIDE DEF P
    <2>2. P = Nat
      BY <1>3, <1>4, <2>1, EveryNumber
    <2> QED
      BY <2>2, FS_CardinalityType
  <1> QED
    BY <1>5

(* The sizes depend on nothing but the records.                            *)
SameSizes(h, k, U) == \A x \in U : h[x].size \in Nat /\ k[x].size = h[x].size

(* The sizes of a set of records depend on those records only.             *)
LEMMA SizesSame ==
    ASSUME NEW h, NEW k, NEW U, IsFiniteSet(U), SameSizes(h, k, U)
    PROVE  Sizes(h, U) = Sizes(k, U)
  <1> DEFINE Good(n) == \A S \in SUBSET U : Cardinality(S) = n => Sizes(h, S) = Sizes(k, S)
             P == {n \in Nat : Good(n)}
  <1>1. \A S \in SUBSET U : IsFiniteSet(S) /\ Cardinality(S) \in Nat
    BY FS_Subset, FS_CardinalityType
  <1>2. 0 \in P
    <2>1. \A S \in SUBSET U : Cardinality(S) = 0 => S = {}
      BY <1>1, FS_EmptySet
    <2>2. Sizes(h, {}) = 0 /\ Sizes(k, {}) = 0
      BY FS_EmptySet, SizesOf
    <2> QED
      BY <2>1, <2>2
  <1>3. ASSUME NEW n \in P PROVE n + 1 \in P
    <2>1. ASSUME NEW S \in SUBSET U, Cardinality(S) = n + 1
          PROVE  Sizes(h, S) = Sizes(k, S)
      <3>1. PICK x \in S : TRUE
        <4>1. S # {}
          BY <2>1, FS_EmptySet
        <4> QED
          BY <4>1
      <3>2. S \ {x} \in SUBSET U
        OBVIOUS
      <3>3. Cardinality(S \ {x}) = n
        <4>1. n \in Nat /\ IsFiniteSet(S)
          BY <1>1
        <4>2. Cardinality(S \ {x}) = Cardinality(S) - 1
          BY <3>1, <4>1, FS_RemoveElement
        <4> QED
          BY <2>1, <4>1, <4>2
      <3>4. Sizes(h, S \ {x}) = Sizes(k, S \ {x})
        BY <3>2, <3>3
      <3>5. /\ IsFiniteSet(S) /\ x \in S /\ k[x].size = h[x].size
            /\ \A y \in S : h[y].size \in Nat /\ k[y].size \in Nat
        BY <1>1, <3>1 DEF SameSizes
      <3> HIDE DEF P
      <3>6. Sizes(h, S) = h[x].size + Sizes(h, S \ {x})
        BY <3>5, SizesRemove
      <3>7. Sizes(k, S) = k[x].size + Sizes(k, S \ {x})
        BY <3>5, SizesRemove
      <3> QED
        BY <3>4, <3>5, <3>6, <3>7
    <2>2. Good(n + 1)
      BY <2>1
    <2> HIDE DEF Good
    <2> QED
      BY <2>2
  <1>4. Cardinality(U) \in P
    <2>1. P \subseteq Nat
      OBVIOUS
    <2> HIDE DEF P
    <2>2. P = Nat
      BY <1>2, <1>3, <2>1, EveryNumber
    <2> QED
      BY <2>2, FS_CardinalityType
  <1> QED
    BY <1>4

----------------------------------------------------------------------------
(* Range lists.                                                            *)

Pair == Nat \X Nat

(* The two ends of a range.                                                *)
LEMMA PairFields ==
    ASSUME NEW r \in Pair
    PROVE  r[1] \in Nat /\ r[2] \in Nat
  BY DEF Pair

(* A number is covered by a list when one of its ranges holds it.          *)
LEMMA CoveredBy ==
    ASSUME NEW q \in Seq(Pair), NEW x
    PROVE  x \in Covered(q) <=> \E i \in DOMAIN q : x \in q[i][1] .. q[i][2]
  BY DEF Covered, Range

(* A range merged into a list of ranges gives one.                         *)
LEMMA MergeType ==
    ASSUME NEW q \in Seq(Pair), NEW r \in Pair
    PROVE  Merge(q, r) \in Seq(Pair)
  <1>1. CASE q = << >>
    BY <1>1 DEF Merge
  <1>2. CASE q # << >>
    <2>1. Len(q) \in Nat \ {0} /\ Last(q) = q[Len(q)] /\ Last(q) \in Pair
      BY <1>2 DEF Last
    <2>2. Front(q) \in Seq(Pair)
      BY <2>1 DEF Front
    <2>3. Last(q)[1] \in Nat /\ Last(q)[2] \in Nat /\ r[1] \in Nat /\ r[2] \in Nat
      BY <2>1, PairFields
    <2>4. Max({Last(q)[2], r[2]}) \in Nat
      BY <2>3, MaxOfTwo
    <2>5. <<Last(q)[1], Max({Last(q)[2], r[2]})>> \in Pair
      BY <2>3, <2>4 DEF Pair
    <2> QED
      BY <2>2, <2>5 DEF Merge
  <1> QED
    BY <1>1, <1>2

(* Merging a sequence of ranges, one after the other.                      *)
LEMMA MergeFold ==
    ASSUME NEW s \in Seq(Pair)
    PROVE  \E w \in [0 .. Len(s) -> Seq(Pair)] :
              /\ w[0] = << >> /\ \A i \in 1 .. Len(s) : w[i] = Merge(w[i - 1], s[i])
              /\ FoldLeft(Merge, << >>, s) = w[Len(s)]
  <1> DEFINE X == Seq(Pair)
             op == [x \in X \X Pair |-> Merge(x[1], x[2])]
             U == DOMAIN s
             Fold(it) == it = [d \in SUBSET U |-> IF d = {} THEN << >>
                                 ELSE Merge(it[d \ {Max(d)}], s[Max(d)])]
  <1>1. \A q \in X, r \in Pair : op[<<q, r>>] = Merge(q, r)
    OBVIOUS
  <1>0. PICK w, g : FoldOf(s, X, << >>, op, w, g)
    <2>1. Folds(s, Pair, X, << >>, op)
      BY MergeType DEF Folds
    <2> HIDE DEF op, X
    <2> QED
      BY <2>1, FoldLeftExists
  <1>2. /\ w \in [0 .. Len(s) -> X] /\ g \in [SUBSET U -> X]
        /\ Partial(s, << >>, op, w) /\ ByIndices(s, << >>, op, g)
        /\ \A it : Agree(U, MaxPick(s), it, g) => it[U] = w[Len(s)]
    BY <1>0, Zenon DEF FoldOf
  <1>3. w[0] = << >> /\ \A i \in 1 .. Len(s) : w[i] = Merge(w[i - 1], s[i])
    <2> SUFFICES ASSUME NEW i \in 1 .. Len(s) PROVE w[i] = Merge(w[i - 1], s[i])
      BY <1>2 DEF Partial
    <2>1. i - 1 \in 0 .. Len(s) /\ i \in DOMAIN s
      OBVIOUS
    <2>2. w[i - 1] \in X /\ s[i] \in Pair
      BY <1>2, <2>1
    <2> HIDE DEF op, X
    <2>3. w[i] = op[<<w[i - 1], s[i]>>]
      BY <1>2 DEF Partial
    <2> QED
      BY <1>1, <2>2, <2>3
  <1>4. /\ g[{}] = << >>
        /\ \A d \in (SUBSET U) \ {{}} : g[d] = Merge(g[d \ {Max(d)}], s[Max(d)])
    <2> SUFFICES ASSUME NEW d \in (SUBSET U) \ {{}}
                 PROVE  g[d] = Merge(g[d \ {Max(d)}], s[Max(d)])
      BY <1>2 DEF ByIndices
    <2>1. d \ {Max(d)} \in SUBSET U /\ Max(d) \in U
      BY LastIndex
    <2>2. g[d \ {Max(d)}] \in X /\ s[Max(d)] \in Pair
      BY <1>2, <2>1
    <2> HIDE DEF op, X
    <2>3. g[d] = op[<<g[d \ {Max(d)}], s[Max(d)]>>]
      BY <1>2 DEF ByIndices
    <2> QED
      BY <1>1, <2>2, <2>3
  <1>5. PICK it : Fold(it) /\ FoldLeft(Merge, << >>, s) = it[U]
    <2> HIDE DEF op, X
    <2>1. g = [d \in SUBSET U |-> g[d]]
      BY <1>2
    <2>2. \A d \in SUBSET U : g[d] = IF d = {} THEN << >>
                                     ELSE Merge(g[d \ {Max(d)}], s[Max(d)])
      BY <1>4
    <2>3. Fold(g)
      BY <2>1, <2>2, Zenon
    <2> QED
      BY <2>3, Zenon DEF FoldLeft, MapThenFoldSet
  <1>6. Agree(U, MaxPick(s), it, g)
    <2>1. \A d \in (SUBSET U) \ {{}} : MaxPick(s)[d] = Max(d)
      BY DEF MaxPick
    <2>2. it[{}] = << >> /\ \A d \in (SUBSET U) \ {{}} :
              it[d] = Merge(it[d \ {Max(d)}], s[Max(d)])
      BY <1>5
    <2> HIDE DEF U
    <2> QED
      BY <1>4, <2>1, <2>2 DEF Agree
  <1> QED
    BY <1>2, <1>3, <1>5, <1>6

(* One more range after the others joins the last of them or stands apart. *)
LEMMA MergeStep ==
    ASSUME NEW q \in Seq(Pair), Canonical(q), NEW r \in Pair, r[1] <= r[2],
           q # << >> => Last(q)[1] <= r[1]
    PROVE  /\ Merge(q, r) \in Seq(Pair) /\ Canonical(Merge(q, r))
           /\ Merge(q, r) # << >> /\ Last(Merge(q, r))[1] <= r[1]
           /\ Covered(Merge(q, r)) = Covered(q) \cup (r[1] .. r[2])
  <1> DEFINE m == Merge(q, r)
             L == Len(q)
  <1>1. m \in Seq(Pair)
    BY MergeType
  <1>2. L \in Nat /\ DOMAIN q = 1 .. L /\ \A i \in 1 .. L : q[i] \in Pair
    OBVIOUS
  <1>3. r[1] \in Nat /\ r[2] \in Nat /\ \A i \in 1 .. L : q[i][1] \in Nat /\ q[i][2] \in Nat
    BY <1>2, PairFields
  <1>4. CASE q # << >> /\ r[1] <= Last(q)[2] + 1
    <2> DEFINE hi == IF q[L][2] >= r[2] THEN q[L][2] ELSE r[2]
               n == <<q[L][1], hi>>
    <2>1. L \in Nat \ {0} /\ L \in 1 .. L /\ Last(q) = q[L] /\ Front(q) = SubSeq(q, 1, L - 1)
      BY <1>2, <1>4 DEF Last, Front
    <2>2. m = Append(Front(q), n)
      <3>1. Max({Last(q)[2], r[2]}) = hi
        BY <1>3, <2>1, MaxOfTwo
      <3> QED
        BY <1>4, <2>1, <3>1 DEF Merge
    <2>3. /\ DOMAIN m = 1 .. L /\ Len(m) = L
          /\ \A i \in 1 .. L : m[i] = IF i = L THEN n ELSE q[i]
      <3>1. Front(q) \in Seq(Pair) /\ Len(Front(q)) = L - 1
            /\ \A i \in 1 .. L - 1 : Front(q)[i] = q[i]
        BY <1>2, <2>1
      <3> QED
        BY <2>1, <2>2, <3>1
    <2>4. /\ n[1] = q[L][1] /\ n[2] = hi
          /\ n[1] \in Nat /\ n[2] \in Nat /\ n[1] <= r[1] /\ r[1] <= n[2]
          /\ q[L][2] <= n[2] /\ r[2] <= n[2] /\ r[1] <= q[L][2] + 1
          /\ (n[2] = q[L][2] \/ n[2] = r[2])
      BY <1>3, <1>4, <2>1
    <2>5. Last(m)[1] <= r[1] /\ m # << >>
      BY <2>1, <2>3, <2>4 DEF Last
    <2> HIDE DEF m, n, L
    <2>6. Canonical(m)
      <3>0. /\ \A i \in 1 .. L : q[i][1] <= q[i][2]
            /\ \A i, j \in 1 .. L : i < j => q[i][2] + 1 < q[j][1]
        BY <1>2 DEF Canonical
      <3>1. \A i \in 1 .. L : m[i][1] <= m[i][2]
        <4>1. n[1] <= n[2]
          BY <1>3, <2>4
        <4> QED
          BY <2>3, <3>0, <4>1
      <3>2. ASSUME NEW i \in 1 .. L, NEW j \in 1 .. L, i < j
            PROVE  m[i][2] + 1 < m[j][1]
        <4>1. q[i][2] + 1 < q[j][1]
          BY <3>0, <3>2
        <4>2. i # L /\ m[i] = q[i]
          BY <1>2, <2>3, <3>2
        <4>3. m[j][1] = q[j][1]
          BY <2>3, <2>4
        <4> QED
          BY <4>1, <4>2, <4>3
      <3> QED
        BY <2>3, <3>1, <3>2 DEF Canonical
    <2>7. ASSUME NEW x
          PROVE  x \in Covered(m) <=> x \in Covered(q) \cup (r[1] .. r[2])
      <3>1. x \in Covered(m) <=> \E i \in 1 .. L : x \in m[i][1] .. m[i][2]
        BY <1>1, <2>3, CoveredBy DEF m
      <3>2. x \in Covered(q) <=> \E i \in 1 .. L : x \in q[i][1] .. q[i][2]
        BY <1>2, CoveredBy
      <3>3. x \in n[1] .. n[2] <=> x \in q[L][1] .. q[L][2] \/ x \in r[1] .. r[2]
        BY <1>3, <2>1, <2>4
      <3>4. \A i \in 1 .. L : i # L => m[i] = q[i]
        BY <2>3
      <3>5. m[L] = n /\ L \in 1 .. L
        BY <2>1, <2>3
      <3> QED
        BY <3>1, <3>2, <3>3, <3>4, <3>5
    <2> QED
      BY <1>1, <2>5, <2>6, <2>7 DEF m
  <1>5. CASE ~(q # << >> /\ r[1] <= Last(q)[2] + 1)
    <2>1. m = Append(q, r)
      BY <1>5 DEF Merge
    <2>2. /\ DOMAIN m = 1 .. L + 1 /\ Len(m) = L + 1 /\ m[L + 1] = r
          /\ \A i \in 1 .. L : m[i] = q[i]
      BY <1>2, <2>1
    <2>3. Last(m)[1] <= r[1] /\ m # << >>
      BY <1>2, <1>3, <2>2 DEF Last
    <2>4. \A i \in 1 .. L : q[i][2] + 1 < r[1]
      <3> SUFFICES ASSUME NEW i \in 1 .. L PROVE q[i][2] + 1 < r[1]
        OBVIOUS
      <3>1. L \in 1 .. L /\ Last(q) = q[L] /\ q # << >>
        BY <1>2 DEF Last
      <3>2. q[L][2] + 1 < r[1] /\ q[L][1] <= q[L][2]
        BY <1>2, <1>3, <1>5, <3>1 DEF Canonical
      <3>3. i < L => q[i][2] + 1 < q[L][1]
        BY <1>2, <3>1 DEF Canonical
      <3>4. i \in Nat /\ i <= L
        BY <1>2
      <3> QED
        BY <1>2, <1>3, <3>1, <3>2, <3>3, <3>4
    <2> HIDE DEF m, L
    <2>5. Canonical(m)
      <3>1. \A i \in 1 .. L : q[i][1] <= q[i][2]
        BY <1>2 DEF Canonical
      <3>2. \A i \in 1 .. L + 1 : m[i][1] <= m[i][2]
        BY <1>2, <2>2, <3>1
      <3>3. ASSUME NEW i \in 1 .. L + 1, NEW j \in 1 .. L + 1, i < j
            PROVE  m[i][2] + 1 < m[j][1]
        <4>1. i \in 1 .. L /\ m[i] = q[i]
          BY <1>2, <2>2, <3>3
        <4>2. CASE j = L + 1
          BY <2>2, <2>4, <4>1, <4>2
        <4>3. CASE j # L + 1
          <5>1. j \in 1 .. L /\ m[j] = q[j]
            BY <1>2, <2>2, <4>3
          <5> QED
            BY <1>2, <3>3, <4>1, <5>1 DEF Canonical
        <4> QED
          BY <4>2, <4>3
      <3> QED
        BY <2>2, <3>2, <3>3 DEF Canonical
    <2>6. ASSUME NEW x
          PROVE  x \in Covered(m) <=> x \in Covered(q) \cup (r[1] .. r[2])
      <3>1. x \in Covered(m) <=> \E i \in 1 .. L + 1 : x \in m[i][1] .. m[i][2]
        BY <1>1, <2>2, CoveredBy DEF m
      <3>2. x \in Covered(q) <=> \E i \in 1 .. L : x \in q[i][1] .. q[i][2]
        BY <1>2, CoveredBy
      <3>3. \A i \in 1 .. L + 1 : i = L + 1 \/ i \in 1 .. L
        BY <1>2
      <3>4. L + 1 \in 1 .. L + 1 /\ \A i \in 1 .. L : i \in 1 .. L + 1
        BY <1>2
      <3> QED
        BY <2>2, <3>1, <3>2, <3>3, <3>4
    <2> QED
      BY <1>1, <2>3, <2>5, <2>6 DEF m
  <1> QED
    BY <1>4, <1>5

(* Sorting a list with one more number in it: the same ranges, in order.   *)
LEMMA Sorting ==
    ASSUME NEW q \in Seq(Pair), Canonical(q), NEW n \in Nat
    PROVE  LET s == InOrder(Append(q, <<n, n>>)) IN
           /\ s \in Seq(Pair)
           /\ \A i, j \in DOMAIN s : i < j => s[i][1] <= s[j][1]
           /\ \A i \in DOMAIN s : s[i][1] <= s[i][2]
           /\ \A r : (\E i \in DOMAIN s : s[i] = r)
                        <=> r = <<n, n>> \/ \E i \in DOMAIN q : q[i] = r
  <1> DEFINE a == Append(q, <<n, n>>)
             L == Len(q)
             D == DOMAIN a
             Asc(p) == \A i, j \in D : i < j => ~Lower(a[p[j]], a[p[i]])
  <1>1. /\ L \in Nat /\ DOMAIN q = 1 .. L /\ \A i \in 1 .. L : q[i] \in Pair
        /\ <<n, n>> \in Pair /\ <<n, n>>[1] = n /\ <<n, n>>[2] = n
    BY DEF Pair
  <1>2. /\ a \in Seq(Pair) /\ D = 1 .. L + 1 /\ a[L + 1] = <<n, n>>
        /\ \A i \in 1 .. L : a[i] = q[i]
        /\ \A i \in D : a[i] \in Pair
    BY <1>1
  <1>3. /\ \A i \in 1 .. L : q[i][1] \in Nat /\ q[i][2] \in Nat /\ q[i][1] <= q[i][2]
        /\ \A i, j \in 1 .. L : i < j => q[i][2] + 1 < q[j][1]
    BY <1>1, PairFields DEF Canonical
  <1> HIDE DEF a, L
  <1>4. \E p \in Bijection(D, D) : Asc(p)
    <2> DEFINE K == {i \in D : i = L + 1 \/ n <= q[i][1]}
               k == Min(K)
               p == [i \in D |-> IF i < k THEN i ELSE IF i = k THEN L + 1 ELSE i - 1]
    <2>1. k \in K /\ \A i \in K : k <= i
      <3>1. K \in SUBSET Nat /\ L + 1 \in K
        BY <1>1, <1>2
      <3> HIDE DEF K
      <3> QED
        BY <3>1, LeastNumber
    <2>2. k \in D /\ \A i \in 1 .. L : IF i < k THEN q[i][1] < n ELSE n <= q[i][1]
      <3>1. k \in D /\ k \in Nat
        BY <1>1, <1>2, <2>1
      <3>2. ASSUME NEW i \in 1 .. L, i < k
            PROVE  q[i][1] < n
        <4>1. i \in D /\ i # L + 1
          BY <1>1, <1>2
        <4>2. i \notin K
          <5> HIDE DEF K, k
          <5> QED
            BY <1>1, <2>1, <3>1, <3>2
        <4> QED
          BY <1>3, <4>1, <4>2
      <3>3. ASSUME NEW i \in 1 .. L, ~(i < k)
            PROVE  n <= q[i][1]
        <4>1. k \in 1 .. L /\ n <= q[k][1]
          <5> HIDE DEF k
          <5> QED
            BY <1>1, <1>2, <2>1, <3>1, <3>3
        <4>2. CASE i = k
          BY <4>1, <4>2
        <4>3. CASE i # k
          <5>1. q[k][2] + 1 < q[i][1] /\ q[k][1] <= q[k][2]
            BY <1>3, <3>1, <3>3, <4>1, <4>3
          <5> QED
            BY <1>3, <4>1, <5>1
        <4> QED
          BY <4>2, <4>3
      <3> QED
        BY <3>1, <3>2, <3>3
    <2> HIDE DEF k, K
    <2>3. \A i \in D : /\ i < k => p[i] = i /\ i \in 1 .. L
                       /\ i = k => p[i] = L + 1
                       /\ i > k => p[i] = i - 1 /\ i - 1 \in 1 .. L
      BY <1>1, <1>2, <2>2
    <2>4. p \in [D -> D]
      <3> SUFFICES ASSUME NEW i \in D
                   PROVE  (IF i < k THEN i ELSE IF i = k THEN L + 1 ELSE i - 1) \in D
        OBVIOUS
      <3> QED
        BY <1>1, <1>2, <2>2
    <2> HIDE DEF p
    <2>5. \A i, j \in D : p[i] = p[j] => i = j
      BY <1>1, <1>2, <2>2, <2>3
    <2>6. \A j \in D : \E i \in D : p[i] = j
      <3> SUFFICES ASSUME NEW j \in D PROVE \E i \in D : p[i] = j
        OBVIOUS
      <3>1. CASE j < k
        BY <1>1, <1>2, <2>3, <3>1
      <3>2. CASE j = L + 1
        BY <1>1, <1>2, <2>2, <2>3, <3>2
      <3>3. CASE ~(j < k) /\ j # L + 1
        <4>1. j + 1 \in D /\ j + 1 > k /\ (j + 1) - 1 = j
          BY <1>1, <1>2, <2>2, <3>3
        <4> QED
          BY <2>3, <4>1
      <3> QED
        BY <3>1, <3>2, <3>3
    <2>7. p \in Bijection(D, D)
      BY <2>4, <2>5, <2>6 DEF Bijection, Injection, Surjection, IsInjective
    <2>8. ASSUME NEW i \in D, NEW j \in D, i < j
          PROVE  ~Lower(a[p[j]], a[p[i]])
      <3>1. i \in Nat /\ j \in Nat /\ k \in Nat
        BY <1>1, <1>2, <2>2
      <3>2. CASE i < k /\ j < k
        <4>1. a[p[i]] = q[i] /\ a[p[j]] = q[j] /\ i \in 1 .. L /\ j \in 1 .. L
          BY <1>2, <2>3, <3>2
        <4> QED
          BY <1>3, <2>8, <4>1 DEF Lower
      <3>3. CASE i < k /\ j = k
        <4>1. a[p[i]] = q[i] /\ a[p[j]] = <<n, n>> /\ i \in 1 .. L
          BY <1>2, <2>3, <3>3
        <4>2. q[i][1] < n
          BY <2>2, <3>3, <4>1
        <4> QED
          BY <1>1, <1>3, <4>1, <4>2 DEF Lower
      <3>4. CASE i < k /\ j > k
        <4>1. a[p[i]] = q[i] /\ a[p[j]] = q[j - 1] /\ i \in 1 .. L /\ j - 1 \in 1 .. L
          BY <1>2, <2>3, <3>4
        <4>2. i < j - 1
          BY <3>1, <3>4
        <4> QED
          BY <1>3, <4>1, <4>2 DEF Lower
      <3>5. CASE i = k
        <4>1. a[p[i]] = <<n, n>> /\ a[p[j]] = q[j - 1] /\ j - 1 \in 1 .. L
          BY <1>2, <2>3, <2>8, <3>1, <3>5
        <4>2. n <= q[j - 1][1]
          BY <2>2, <2>8, <3>1, <3>5, <4>1
        <4> QED
          BY <1>1, <1>3, <4>1, <4>2 DEF Lower
      <3>6. CASE i > k
        <4>1. /\ a[p[i]] = q[i - 1] /\ a[p[j]] = q[j - 1]
              /\ i - 1 \in 1 .. L /\ j - 1 \in 1 .. L /\ i - 1 < j - 1
          BY <1>2, <2>3, <2>8, <3>1, <3>6
        <4> QED
          BY <1>3, <4>1 DEF Lower
      <3> QED
        BY <2>8, <3>1, <3>2, <3>3, <3>4, <3>5, <3>6
    <2>9. Asc(p)
      BY <2>8
    <2> HIDE DEF Asc, D
    <2> QED
      BY <2>7, <2>9
  <1> DEFINE place == CHOOSE p \in Bijection(D, D) : Asc(p)
  <1>5. place \in Bijection(D, D) /\ Asc(place)
    <2> HIDE DEF Asc, D
    <2> QED
      BY <1>4
  <1>6. place \in [D -> D] /\ \A j \in D : \E i \in D : place[i] = j
    BY <1>5 DEF Bijection, Injection, Surjection
  <1> DEFINE s == InOrder(a)
  <1>7. s = [i \in D |-> a[place[i]]]
    BY DEF InOrder
  <1> HIDE DEF place, s
  <1>8. /\ s \in Seq(Pair) /\ DOMAIN s = D
        /\ \A i \in D : s[i] = a[place[i]] /\ place[i] \in D /\ s[i] \in Pair
    <2>1. \A i \in D : place[i] \in D /\ a[place[i]] \in Pair
      <3> HIDE DEF D
      <3> QED
        BY <1>2, <1>6
    <2>2. DOMAIN s = D /\ \A i \in D : s[i] = a[place[i]]
      BY <1>7
    <2>3. s \in [1 .. L + 1 -> Pair]
      BY <1>2, <1>7, <2>1
    <2>4. s \in Seq(Pair)
      BY <1>1, <2>3
    <2> QED
      BY <2>1, <2>2, <2>4
  <1>9. \A i \in D : a[i][1] \in Nat /\ a[i][2] \in Nat /\ a[i][1] <= a[i][2]
    <2> SUFFICES ASSUME NEW i \in D
                 PROVE  a[i][1] \in Nat /\ a[i][2] \in Nat /\ a[i][1] <= a[i][2]
      OBVIOUS
    <2>1. i \in 1 .. L \/ i = L + 1
      BY <1>1, <1>2
    <2> QED
      BY <1>1, <1>2, <1>3, <2>1
  <1>10. \A i, j \in D : i < j => s[i][1] <= s[j][1]
    <2> SUFFICES ASSUME NEW i \in D, NEW j \in D, i < j PROVE s[i][1] <= s[j][1]
      OBVIOUS
    <2>1. ~Lower(s[j], s[i])
      BY <1>5, <1>8
    <2>2. s[i][1] \in Nat /\ s[j][1] \in Nat
      BY <1>8, PairFields
    <2> QED
      BY <2>1, <2>2 DEF Lower
  <1>11. \A i \in D : s[i][1] <= s[i][2]
    BY <1>8, <1>9
  <1>12. ASSUME NEW r
         PROVE  (\E i \in D : s[i] = r) <=> r = <<n, n>> \/ \E i \in 1 .. L : q[i] = r
    <2>1. (\E i \in D : s[i] = r) <=> \E i \in D : a[i] = r
      <3> HIDE DEF D
      <3>1. ASSUME NEW i \in D, s[i] = r PROVE \E j \in D : a[j] = r
        BY <1>8, <3>1
      <3>2. ASSUME NEW j \in D, a[j] = r PROVE \E i \in D : s[i] = r
        <4>1. PICK i \in D : place[i] = j
          BY <1>6
        <4> QED
          BY <1>8, <3>2, <4>1
      <3> QED
        BY <3>1, <3>2
    <2>2. \A i \in D : i \in 1 .. L \/ i = L + 1
      BY <1>1, <1>2
    <2>3. L + 1 \in D /\ \A i \in 1 .. L : i \in D
      BY <1>1, <1>2
    <2> QED
      BY <1>2, <2>1, <2>2, <2>3
  <1> QED
    BY <1>1, <1>8, <1>10, <1>11, <1>12 DEF s, a, L

(* A number added to such a list is covered besides what was covered.      *)
LEMMA Added ==
    ASSUME NEW q \in Seq(Pair), Canonical(q), NEW n \in Nat
    PROVE  /\ AddToRanges(q, n) \in Seq(Pair) /\ Canonical(AddToRanges(q, n))
           /\ Covered(AddToRanges(q, n)) = Covered(q) \cup {n}
  <1> DEFINE s == InOrder(Append(q, <<n, n>>))
             N == Len(s)
  <1>1. /\ s \in Seq(Pair)
        /\ \A i, j \in DOMAIN s : i < j => s[i][1] <= s[j][1]
        /\ \A i \in DOMAIN s : s[i][1] <= s[i][2]
        /\ \A r : (\E i \in DOMAIN s : s[i] = r)
                        <=> r = <<n, n>> \/ \E i \in DOMAIN q : q[i] = r
    BY Sorting
  <1> HIDE DEF s
  <1>2. N \in Nat /\ DOMAIN s = 1 .. N /\ \A i \in 1 .. N : s[i] \in Pair
    BY <1>1
  <1>3. PICK w \in [0 .. N -> Seq(Pair)] :
           /\ w[0] = << >> /\ \A i \in 1 .. N : w[i] = Merge(w[i - 1], s[i])
           /\ FoldLeft(Merge, << >>, s) = w[N]
    BY <1>1, MergeFold
  <1> DEFINE Good(i) ==
                 /\ w[i] \in Seq(Pair) /\ Canonical(w[i])
                 /\ w[i] # << >> => i # 0 /\ Last(w[i])[1] <= s[i][1]
                 /\ \A x : x \in Covered(w[i]) <=> \E j \in 1 .. i : x \in s[j][1] .. s[j][2]
             P == {i \in Nat : i <= N => Good(i)}
  <1>4. 0 \in P
    <2>1. Good(0)
      BY <1>2, <1>3, CoveredBy DEF Canonical
    <2> HIDE DEF Good
    <2> QED
      BY <2>1
  <1>5. ASSUME NEW i \in P PROVE i + 1 \in P
    <2>1. i \in Nat /\ (i <= N => Good(i))
      OBVIOUS
    <2>2. ASSUME i + 1 <= N PROVE Good(i + 1)
      <3>1. i + 1 \in 1 .. N /\ i <= N /\ (i + 1) - 1 = i
        BY <1>2, <2>1, <2>2
      <3>2. w[i + 1] = Merge(w[i], s[i + 1]) /\ s[i + 1] \in Pair /\ s[i + 1][1] <= s[i + 1][2]
        BY <1>1, <1>2, <1>3, <3>1
      <3>3. w[i] \in Seq(Pair) /\ Canonical(w[i])
        BY <2>1, <3>1
      <3>4. ASSUME w[i] # << >> PROVE Last(w[i])[1] <= s[i + 1][1]
        <4>1. i # 0 /\ Last(w[i])[1] <= s[i][1]
          BY <2>1, <3>1, <3>4
        <4>2. i \in 1 .. N /\ i < i + 1
          BY <1>2, <2>1, <3>1, <4>1
        <4>3. s[i][1] <= s[i + 1][1]
          BY <1>1, <1>2, <3>1, <4>2
        <4>4. s[i] \in Pair /\ s[i + 1] \in Pair /\ Last(w[i]) \in Pair
          <5>1. Len(w[i]) \in DOMAIN w[i]
            BY <3>3, <3>4
          <5> QED
            BY <1>2, <3>1, <3>3, <4>2, <5>1 DEF Last
        <4> QED
          BY <4>1, <4>3, <4>4, PairFields
      <3>5. /\ Merge(w[i], s[i + 1]) \in Seq(Pair) /\ Canonical(Merge(w[i], s[i + 1]))
            /\ Last(Merge(w[i], s[i + 1]))[1] <= s[i + 1][1]
            /\ Covered(Merge(w[i], s[i + 1])) = Covered(w[i]) \cup (s[i + 1][1] .. s[i + 1][2])
        BY <3>2, <3>3, <3>4, MergeStep
      <3>6. \A x : x \in Covered(w[i + 1])
                      <=> \E j \in 1 .. i + 1 : x \in s[j][1] .. s[j][2]
        <4>1. \A j \in 1 .. i + 1 : j \in 1 .. i \/ j = i + 1
          BY <2>1
        <4>2. i + 1 \in 1 .. i + 1 /\ \A j \in 1 .. i : j \in 1 .. i + 1
          BY <2>1
        <4>3. \A x : x \in Covered(w[i]) <=> \E j \in 1 .. i : x \in s[j][1] .. s[j][2]
          BY <2>1, <3>1
        <4>4. Covered(w[i + 1]) = Covered(w[i]) \cup (s[i + 1][1] .. s[i + 1][2])
          BY <3>2, <3>5
        <4> QED
          BY <4>1, <4>2, <4>3, <4>4
      <3> QED
        BY <2>1, <3>2, <3>5, <3>6
    <2> HIDE DEF Good
    <2> QED
      BY <2>1, <2>2
  <1>6. Good(N)
    <2>1. P \in SUBSET Nat
      OBVIOUS
    <2> HIDE DEF P
    <2>2. P = Nat
      BY <1>4, <1>5, <2>1, EveryNumber
    <2>3. N \in P
      BY <1>2, <2>2
    <2> HIDE DEF Good
    <2> QED
      BY <1>2, <2>3 DEF P
  <1>7. AddToRanges(q, n) = w[N]
    BY <1>3 DEF AddToRanges, s
  <1>8. ASSUME NEW x
        PROVE  x \in Covered(w[N]) <=> x \in Covered(q) \cup {n}
    <2>1. x \in Covered(w[N]) <=> \E j \in DOMAIN s : x \in s[j][1] .. s[j][2]
      BY <1>2, <1>6
    <2>2. x \in Covered(q) <=> \E i \in DOMAIN q : x \in q[i][1] .. q[i][2]
      BY CoveredBy
    <2>3. x \in <<n, n>>[1] .. <<n, n>>[2] <=> x = n
      OBVIOUS
    <2>4. ASSUME x \in Covered(w[N])
          PROVE  x \in Covered(q) \cup {n}
      <3>1. PICK j \in DOMAIN s : x \in s[j][1] .. s[j][2]
        BY <2>1, <2>4
      <3>2. s[j] = <<n, n>> \/ \E i \in DOMAIN q : q[i] = s[j]
        BY <1>1
      <3> QED
        BY <2>2, <2>3, <3>1, <3>2
    <2>5. ASSUME x \in Covered(q) \cup {n}
          PROVE  x \in Covered(w[N])
      <3>1. CASE x = n
        <4>1. PICK j \in DOMAIN s : s[j] = <<n, n>>
          BY <1>1
        <4> QED
          BY <2>1, <2>3, <3>1, <4>1
      <3>2. CASE x \in Covered(q)
        <4>1. PICK i \in DOMAIN q : x \in q[i][1] .. q[i][2]
          BY <2>2, <3>2
        <4>2. PICK j \in DOMAIN s : s[j] = q[i]
          BY <1>1
        <4> QED
          BY <2>1, <4>1, <4>2
      <3> QED
        BY <2>5, <3>1, <3>2
    <2> QED
      BY <2>4, <2>5
  <1> QED
    BY <1>6, <1>7, <1>8

Lists == {q \in Seq(Pair) : Canonical(q)}

(* A list goes into packets range by range.                                *)
Placed(room, packets, r) ==
    IF packets # << >> /\ Size(Last(packets)) + RangeSize(r) <= room
    THEN Append(Front(packets), Append(Last(packets), r))
    ELSE Append(packets, <<r>>)

(* Packets with one more range in them are lists of ranges.                *)
LEMMA PlacedType ==
    ASSUME NEW room, NEW packets \in Seq(Seq(Pair)), NEW r \in Pair
    PROVE  Placed(room, packets, r) \in Seq(Seq(Pair))
  <1>1. <<r>> \in Seq(Pair)
    OBVIOUS
  <1>2. CASE packets # << >>
    <2>1. Len(packets) \in Nat \ {0} /\ Last(packets) = packets[Len(packets)]
          /\ Last(packets) \in Seq(Pair)
      BY <1>2 DEF Last
    <2>2. Front(packets) \in Seq(Seq(Pair))
      BY <2>1 DEF Front
    <2>3. Append(Last(packets), r) \in Seq(Pair)
      BY <2>1
    <2> QED
      BY <1>1, <2>2, <2>3 DEF Placed
  <1>3. CASE packets = << >>
    BY <1>1, <1>3 DEF Placed
  <1> QED
    BY <1>2, <1>3

(* Adding numbers to a list, one after the other.                          *)
LEMMA AddFold ==
    ASSUME NEW s \in Seq(Nat), NEW base \in Lists
    PROVE  \E w \in [0 .. Len(s) -> Lists] :
              /\ w[0] = base /\ \A i \in 1 .. Len(s) : w[i] = AddToRanges(w[i - 1], s[i])
              /\ FoldLeft(AddToRanges, base, s) = w[Len(s)]
  <1> DEFINE X == Lists
             op == [x \in X \X Nat |-> AddToRanges(x[1], x[2])]
             U == DOMAIN s
             Fold(it) == it = [d \in SUBSET U |-> IF d = {} THEN base
                                 ELSE AddToRanges(it[d \ {Max(d)}], s[Max(d)])]
  <1>1. \A q \in X, r \in Nat : op[<<q, r>>] = AddToRanges(q, r)
    OBVIOUS
  <1>0. PICK w, g : FoldOf(s, X, base, op, w, g)
    <2>1. Folds(s, Nat, X, base, op)
      BY Added DEF Folds, Lists
    <2> HIDE DEF op, X
    <2> QED
      BY <2>1, FoldLeftExists
  <1>2. /\ w \in [0 .. Len(s) -> X] /\ g \in [SUBSET U -> X]
        /\ Partial(s, base, op, w) /\ ByIndices(s, base, op, g)
        /\ \A it : Agree(U, MaxPick(s), it, g) => it[U] = w[Len(s)]
    BY <1>0, Zenon DEF FoldOf
  <1>3. w[0] = base /\ \A i \in 1 .. Len(s) : w[i] = AddToRanges(w[i - 1], s[i])
    <2> SUFFICES ASSUME NEW i \in 1 .. Len(s) PROVE w[i] = AddToRanges(w[i - 1], s[i])
      BY <1>2 DEF Partial
    <2>1. i - 1 \in 0 .. Len(s) /\ i \in DOMAIN s
      OBVIOUS
    <2>2. w[i - 1] \in X /\ s[i] \in Nat
      BY <1>2, <2>1
    <2> HIDE DEF op, X
    <2>3. w[i] = op[<<w[i - 1], s[i]>>]
      BY <1>2 DEF Partial
    <2> QED
      BY <1>1, <2>2, <2>3
  <1>4. /\ g[{}] = base
        /\ \A d \in (SUBSET U) \ {{}} : g[d] = AddToRanges(g[d \ {Max(d)}], s[Max(d)])
    <2> SUFFICES ASSUME NEW d \in (SUBSET U) \ {{}}
                 PROVE  g[d] = AddToRanges(g[d \ {Max(d)}], s[Max(d)])
      BY <1>2 DEF ByIndices
    <2>1. d \ {Max(d)} \in SUBSET U /\ Max(d) \in U
      BY LastIndex
    <2>2. g[d \ {Max(d)}] \in X /\ s[Max(d)] \in Nat
      BY <1>2, <2>1
    <2> HIDE DEF op, X
    <2>3. g[d] = op[<<g[d \ {Max(d)}], s[Max(d)]>>]
      BY <1>2 DEF ByIndices
    <2> QED
      BY <1>1, <2>2, <2>3
  <1>5. PICK it : Fold(it) /\ FoldLeft(AddToRanges, base, s) = it[U]
    <2> HIDE DEF op, X
    <2>1. g = [d \in SUBSET U |-> g[d]]
      BY <1>2
    <2>2. \A d \in SUBSET U : g[d] = IF d = {} THEN base
                                     ELSE AddToRanges(g[d \ {Max(d)}], s[Max(d)])
      BY <1>4
    <2>3. Fold(g)
      BY <2>1, <2>2, Zenon
    <2> QED
      BY <2>3, Zenon DEF FoldLeft, MapThenFoldSet
  <1>6. Agree(U, MaxPick(s), it, g)
    <2>1. \A d \in (SUBSET U) \ {{}} : MaxPick(s)[d] = Max(d)
      BY DEF MaxPick
    <2>2. it[{}] = base /\ \A d \in (SUBSET U) \ {{}} :
              it[d] = AddToRanges(it[d \ {Max(d)}], s[Max(d)])
      BY <1>5
    <2> HIDE DEF U
    <2> QED
      BY <1>4, <2>1, <2>2 DEF Agree
  <1> QED
    BY <1>2, <1>3, <1>5, <1>6

(* Placing the ranges of a list, one after the other.                      *)
LEMMA PlaceFold ==
    ASSUME NEW s \in Seq(Pair), NEW room
    PROVE  \E w \in [0 .. Len(s) -> Seq(Seq(Pair))] :
              /\ w[0] = << >> /\ \A i \in 1 .. Len(s) : w[i] = Placed(room, w[i - 1], s[i])
              /\ RangePackets(s, room) = w[Len(s)]
  <1> DEFINE X == Seq(Seq(Pair))
             op == [x \in X \X Pair |-> Placed(room, x[1], x[2])]
             U == DOMAIN s
             Fold(it) == it = [d \in SUBSET U |-> IF d = {} THEN << >>
                                 ELSE Placed(room, it[d \ {Max(d)}], s[Max(d)])]
  <1>1. \A q \in X, r \in Pair : op[<<q, r>>] = Placed(room, q, r)
    OBVIOUS
  <1>0. PICK w, g : FoldOf(s, X, << >>, op, w, g)
    <2>1. Folds(s, Pair, X, << >>, op)
      BY PlacedType DEF Folds
    <2> HIDE DEF op, X
    <2> QED
      BY <2>1, FoldLeftExists
  <1>2. /\ w \in [0 .. Len(s) -> X] /\ g \in [SUBSET U -> X]
        /\ Partial(s, << >>, op, w) /\ ByIndices(s, << >>, op, g)
        /\ \A it : Agree(U, MaxPick(s), it, g) => it[U] = w[Len(s)]
    BY <1>0, Zenon DEF FoldOf
  <1>3. w[0] = << >> /\ \A i \in 1 .. Len(s) : w[i] = Placed(room, w[i - 1], s[i])
    <2> SUFFICES ASSUME NEW i \in 1 .. Len(s) PROVE w[i] = Placed(room, w[i - 1], s[i])
      BY <1>2 DEF Partial
    <2>1. i - 1 \in 0 .. Len(s) /\ i \in DOMAIN s
      OBVIOUS
    <2>2. w[i - 1] \in X /\ s[i] \in Pair
      BY <1>2, <2>1
    <2> HIDE DEF op, X
    <2>3. w[i] = op[<<w[i - 1], s[i]>>]
      BY <1>2 DEF Partial
    <2> QED
      BY <1>1, <2>2, <2>3
  <1>4. /\ g[{}] = << >>
        /\ \A d \in (SUBSET U) \ {{}} : g[d] = Placed(room, g[d \ {Max(d)}], s[Max(d)])
    <2> SUFFICES ASSUME NEW d \in (SUBSET U) \ {{}}
                 PROVE  g[d] = Placed(room, g[d \ {Max(d)}], s[Max(d)])
      BY <1>2 DEF ByIndices
    <2>1. d \ {Max(d)} \in SUBSET U /\ Max(d) \in U
      BY LastIndex
    <2>2. g[d \ {Max(d)}] \in X /\ s[Max(d)] \in Pair
      BY <1>2, <2>1
    <2> HIDE DEF op, X
    <2>3. g[d] = op[<<g[d \ {Max(d)}], s[Max(d)]>>]
      BY <1>2 DEF ByIndices
    <2> QED
      BY <1>1, <2>2, <2>3
  <1>5. PICK it : Fold(it) /\ RangePackets(s, room) = it[U]
    <2> HIDE DEF op, X
    <2>1. g = [d \in SUBSET U |-> g[d]]
      BY <1>2
    <2>2. \A d \in SUBSET U : g[d] = IF d = {} THEN << >>
                                     ELSE Placed(room, g[d \ {Max(d)}], s[Max(d)])
      BY <1>4
    <2>3. Fold(g)
      BY <2>1, <2>2, Zenon
    <2> QED
      BY <2>3, Zenon DEF RangePackets, FoldLeft, MapThenFoldSet, Placed
  <1>6. Agree(U, MaxPick(s), it, g)
    <2>1. \A d \in (SUBSET U) \ {{}} : MaxPick(s)[d] = Max(d)
      BY DEF MaxPick
    <2>2. it[{}] = << >> /\ \A d \in (SUBSET U) \ {{}} :
              it[d] = Placed(room, it[d \ {Max(d)}], s[Max(d)])
      BY <1>5
    <2> HIDE DEF U
    <2> QED
      BY <1>4, <2>1, <2>2 DEF Agree
  <1> QED
    BY <1>2, <1>3, <1>5, <1>6

(* Numbers added one after the other are covered besides what was covered. *)
LEMMA AllAdded ==
    ASSUME NEW q \in Lists, NEW s \in Seq(Nat)
    PROVE  /\ FoldLeft(AddToRanges, q, s) \in Lists
           /\ Covered(FoldLeft(AddToRanges, q, s)) = Covered(q) \cup Range(s)
  <1> DEFINE N == Len(s)
  <1>1. N \in Nat /\ DOMAIN s = 1 .. N /\ \A i \in 1 .. N : s[i] \in Nat
    OBVIOUS
  <1>2. PICK w \in [0 .. N -> Lists] :
           /\ w[0] = q /\ \A i \in 1 .. N : w[i] = AddToRanges(w[i - 1], s[i])
           /\ FoldLeft(AddToRanges, q, s) = w[N]
    BY AddFold
  <1> DEFINE Good(i) == \A x : x \in Covered(w[i])
                                  <=> x \in Covered(q) \/ \E j \in 1 .. i : x = s[j]
             P == {i \in Nat : i <= N => Good(i)}
  <1>3. 0 \in P
    <2>1. Good(0)
      BY <1>2
    <2> HIDE DEF Good
    <2> QED
      BY <2>1
  <1>4. ASSUME NEW i \in P PROVE i + 1 \in P
    <2>1. i \in Nat /\ (i <= N => Good(i))
      OBVIOUS
    <2>2. ASSUME i + 1 <= N PROVE Good(i + 1)
      <3>1. i + 1 \in 1 .. N /\ i \in 0 .. N /\ (i + 1) - 1 = i
        BY <1>1, <2>1, <2>2
      <3>2. w[i + 1] = AddToRanges(w[i], s[i + 1]) /\ s[i + 1] \in Nat
        BY <1>1, <1>2, <3>1
      <3>3. w[i] \in Seq(Pair) /\ Canonical(w[i])
        BY <1>2, <3>1 DEF Lists
      <3>4. Covered(w[i + 1]) = Covered(w[i]) \cup {s[i + 1]}
        BY <3>2, <3>3, Added
      <3>5. \A x : x \in Covered(w[i])
                      <=> x \in Covered(q) \/ \E j \in 1 .. i : x = s[j]
        BY <2>1, <3>1
      <3>6. /\ i + 1 \in 1 .. i + 1 /\ \A j \in 1 .. i : j \in 1 .. i + 1
            /\ \A j \in 1 .. i + 1 : j \in 1 .. i \/ j = i + 1
        BY <2>1
      <3> QED
        BY <3>4, <3>5, <3>6
    <2> HIDE DEF Good
    <2> QED
      BY <2>1, <2>2
  <1>5. Good(N)
    <2>1. P \in SUBSET Nat
      OBVIOUS
    <2> HIDE DEF P
    <2>2. P = Nat
      BY <1>3, <1>4, <2>1, EveryNumber
    <2>3. N \in P
      BY <1>1, <2>2
    <2> HIDE DEF Good
    <2> QED
      BY <1>1, <2>3 DEF P
  <1>6. w[N] \in Lists
    BY <1>1, <1>2
  <1>7. \A x : x \in Covered(w[N]) <=> x \in Covered(q) \cup Range(s)
    BY <1>1, <1>5 DEF Range
  <1> QED
    BY <1>2, <1>6, <1>7

(* A sequence without its last element.                                    *)
LEMMA FrontOf ==
    ASSUME NEW T, NEW v \in Seq(T), v # << >>
    PROVE  /\ Front(v) \in Seq(T) /\ Len(Front(v)) = Len(v) - 1
           /\ \A k \in 1 .. Len(v) - 1 : Front(v)[k] = v[k]
           /\ Len(v) \in Nat \ {0} /\ Last(v) = v[Len(v)] /\ Last(v) \in T
  <1>1. Len(v) \in Nat \ {0} /\ Len(v) - 1 \in Nat /\ v[Len(v)] \in T
    OBVIOUS
  <1> DEFINE n == Len(v) - 1
  <1>2. Front(v) = SubSeq(v, 1, n) /\ n \in Nat /\ n <= Len(v)
    BY <1>1 DEF Front
  <1> HIDE DEF n
  <1>3. \A k \in 1 .. n : k \in DOMAIN v
    BY <1>1, <1>2
  <1>4. SubSeq(v, 1, n) = [k \in 1 .. n |-> v[k]]
    BY <1>2
  <1>5. Front(v) \in Seq(T)
    BY <1>2, <1>3, <1>4
  <1>6. Len(Front(v)) = n /\ \A k \in 1 .. n : Front(v)[k] = v[k]
    BY <1>2, <1>4
  <1> QED
    BY <1>1, <1>5, <1>6 DEF Last, n

(* The packets hold the ranges of the list, in order.                      *)
LEMMA Packeted ==
    ASSUME NEW q \in Lists, NEW room, NEW r \in Range(RangePackets(q, room))
    PROVE  r \in Lists /\ Covered(r) \subseteq Covered(q)
  <1> DEFINE N == Len(q)
  <1>1. /\ q \in Seq(Pair) /\ Canonical(q)
        /\ N \in Nat /\ DOMAIN q = 1 .. N /\ \A i \in 1 .. N : q[i] \in Pair
    BY DEF Lists
  <1>2. PICK w \in [0 .. N -> Seq(Seq(Pair))] :
           /\ w[0] = << >> /\ \A i \in 1 .. N : w[i] = Placed(room, w[i - 1], q[i])
           /\ RangePackets(q, room) = w[N]
    BY <1>1, PlaceFold
  <1>3. /\ \A i \in 1 .. N : q[i][1] <= q[i][2] /\ q[i][1] \in Nat /\ q[i][2] \in Nat
        /\ \A i, j \in 1 .. N : i < j => q[i][2] + 1 < q[j][1]
    BY <1>1, PairFields DEF Canonical
  <1> DEFINE From(p, i) == /\ p \in Seq(Pair) /\ Canonical(p)
                           /\ \A k \in DOMAIN p : \E j \in 1 .. i : p[k] = q[j]
             Good(i) == \A k \in DOMAIN w[i] : From(w[i][k], i)
             P == {i \in Nat : i <= N => Good(i)}
  <1>4. 0 \in P
    <2>1. Good(0)
      BY <1>2
    <2> HIDE DEF Good
    <2> QED
      BY <2>1
  <1>5. ASSUME NEW i \in P PROVE i + 1 \in P
    <2>1. i \in Nat /\ (i <= N => Good(i))
      OBVIOUS
    <2>2. ASSUME i + 1 <= N PROVE Good(i + 1)
      <3>1. i + 1 \in 1 .. N /\ i \in 0 .. N /\ (i + 1) - 1 = i
        BY <1>1, <2>1, <2>2
      <3> DEFINE v == w[i]
                 e == q[i + 1]
      <3>2. w[i + 1] = Placed(room, v, e) /\ v \in Seq(Seq(Pair)) /\ e \in Pair
        BY <1>1, <1>2, <3>1
      <3>3. \A k \in DOMAIN v : From(v[k], i)
        BY <2>1, <3>1
      <3>4. e = q[i + 1] /\ e[1] <= e[2] /\ \A j \in 1 .. i : q[j][2] + 1 < e[1]
        <4>1. \A j \in 1 .. i : j \in 1 .. N /\ j < i + 1
          BY <1>1, <3>1
        <4> QED
          BY <1>3, <3>1, <4>1
      <3> HIDE DEF v, e
      <3>5. \A p : From(p, i) => From(p, i + 1)
        <4>1. \A j \in 1 .. i : j \in 1 .. i + 1
          BY <2>1
        <4> QED
          BY <4>1
      <3>6. From(<<e>>, i + 1)
        <4>1. <<e>> \in Seq(Pair) /\ DOMAIN <<e>> = {1} /\ <<e>>[1] = e
          BY <3>2
        <4>2. Canonical(<<e>>)
          BY <3>4, <4>1 DEF Canonical
        <4>3. i + 1 \in 1 .. i + 1
          BY <2>1
        <4> QED
          BY <3>4, <4>1, <4>2, <4>3
      <3>7. ASSUME NEW p, From(p, i) PROVE From(Append(p, e), i + 1)
        <4> DEFINE a == Append(p, e)
                   L == Len(p)
        <4>1. p \in Seq(Pair) /\ Canonical(p) /\ \A k \in DOMAIN p : \E j \in 1 .. i : p[k] = q[j]
          BY <3>7
        <4>2. /\ a \in Seq(Pair) /\ L \in Nat /\ DOMAIN p = 1 .. L /\ DOMAIN a = 1 .. L + 1
              /\ a[L + 1] = e /\ \A k \in 1 .. L : a[k] = p[k]
          BY <3>2, <4>1
        <4>3. \A k \in 1 .. L + 1 : k \in 1 .. L \/ k = L + 1
          BY <4>2
        <4> HIDE DEF a, L
        <4>4. \A k \in 1 .. L : p[k][2] + 1 < e[1] /\ p[k][1] <= p[k][2]
          BY <3>4, <4>1, <4>2 DEF Canonical
        <4>5. Canonical(a)
          <5>1. \A k \in 1 .. L + 1 : a[k][1] <= a[k][2]
            BY <3>4, <4>2, <4>3, <4>4
          <5>2. ASSUME NEW k \in 1 .. L + 1, NEW l \in 1 .. L + 1, k < l
                PROVE  a[k][2] + 1 < a[l][1]
            <6>1. k \in 1 .. L /\ a[k] = p[k]
              BY <4>2, <5>2
            <6>2. CASE l = L + 1
              BY <4>2, <4>4, <6>1, <6>2
            <6>3. CASE l # L + 1
              <7>1. l \in 1 .. L /\ a[l] = p[l]
                BY <4>2, <4>3, <6>3
              <7> QED
                BY <4>1, <4>2, <5>2, <6>1, <7>1 DEF Canonical
            <6> QED
              BY <6>2, <6>3
          <5> QED
            BY <4>2, <5>1, <5>2 DEF Canonical
        <4>6. \A k \in 1 .. L + 1 : \E j \in 1 .. i + 1 : a[k] = q[j]
          <5>1. i + 1 \in 1 .. i + 1 /\ \A j \in 1 .. i : j \in 1 .. i + 1
            BY <2>1
          <5> QED
            BY <3>4, <4>1, <4>2, <4>3, <5>1
        <4> QED
          BY <4>2, <4>5, <4>6 DEF a
      <3>8. Good(i + 1)
        <4> DEFINE K == Len(v)
                   u == Placed(room, v, e)
        <4>1. K \in Nat /\ DOMAIN v = 1 .. K
          BY <3>2
        <4>2. CASE v # << >> /\ Size(Last(v)) + RangeSize(e) <= room
          <5>1. K \in Nat \ {0} /\ Last(v) = v[K]
            BY <3>2, <4>2, FrontOf
          <5>2. u = Append(Front(v), Append(v[K], e))
            BY <4>2, <5>1 DEF Placed
          <5>3. Front(v) \in Seq(Seq(Pair)) /\ Len(Front(v)) = K - 1
                /\ \A k \in 1 .. K - 1 : Front(v)[k] = v[k]
            BY <3>2, <4>2, FrontOf
          <5>4. /\ DOMAIN u = 1 .. K /\ u[K] = Append(v[K], e)
                /\ \A k \in 1 .. K - 1 : u[k] = v[k]
            BY <5>1, <5>2, <5>3
          <5> HIDE DEF From, u, K
          <5>5. \A k \in 1 .. K : (k = K \/ k \in 1 .. K - 1) /\ k \in DOMAIN v
            BY <4>1
          <5>6. \A k \in 1 .. K : From(u[k], i + 1)
            BY <3>3, <3>5, <3>7, <5>4, <5>5
          <5> QED
            BY <3>2, <5>4, <5>6 DEF u
        <4>3. CASE ~(v # << >> /\ Size(Last(v)) + RangeSize(e) <= room)
          <5>1. u = Append(v, <<e>>)
            BY <4>3 DEF Placed
          <5>2. <<e>> \in Seq(Pair)
            BY <3>2
          <5>3. /\ DOMAIN u = 1 .. K + 1 /\ u[K + 1] = <<e>>
                /\ \A k \in 1 .. K : u[k] = v[k]
            BY <3>2, <4>1, <5>1, <5>2
          <5>4. \A k \in 1 .. K + 1 : k = K + 1 \/ k \in DOMAIN v
            BY <4>1
          <5> HIDE DEF From, u, K
          <5>5. \A k \in 1 .. K + 1 : From(u[k], i + 1)
            BY <3>3, <3>5, <3>6, <4>1, <5>3, <5>4
          <5> QED
            BY <3>2, <5>3, <5>5 DEF u
        <4> QED
          BY <4>2, <4>3
      <3> QED
        BY <3>8
    <2> HIDE DEF Good
    <2> QED
      BY <2>1, <2>2
  <1>6. Good(N)
    <2>1. P \in SUBSET Nat
      OBVIOUS
    <2> HIDE DEF P
    <2>2. P = Nat
      BY <1>4, <1>5, <2>1, EveryNumber
    <2>3. N \in P
      BY <1>1, <2>2
    <2> HIDE DEF Good
    <2> QED
      BY <1>1, <2>3 DEF P
  <1>7. From(r, N)
    BY <1>2, <1>6 DEF Range
  <1>8. Covered(r) \subseteq Covered(q)
    <2> SUFFICES ASSUME NEW x \in Covered(r) PROVE x \in Covered(q)
      OBVIOUS
    <2>1. PICK k \in DOMAIN r : x \in r[k][1] .. r[k][2]
      BY <1>7, CoveredBy
    <2>2. PICK j \in 1 .. N : r[k] = q[j]
      BY <1>7
    <2> QED
      BY <1>1, <2>1, <2>2, CoveredBy
  <1> QED
    BY <1>7, <1>8 DEF Lists

----------------------------------------------------------------------------
(* What is known of messages and their numbers.                            *)

Data == {p \in net : p.type = "data"}

(* The part of TypeOK that the proof needs.                                *)
Typed ==
    /\ sent \in 0 .. MaxMessages /\ queue \in Seq(Messages)
    /\ nextNum \in Nat /\ nextSeq \in Nat
    /\ \A n \in DOMAIN resend : n \in 0 .. nextNum - 1 /\ resend[n].msg \in Messages
    /\ dgBase \in Nat /\ dgBits \subseteq Nat /\ got \subseteq 0 .. nextNum - 1
    /\ delivered \in [Messages -> {0, 1}]
    /\ \A p \in Data : p.seq \in 0 .. nextSeq - 1 /\ p.frames \in Seq(Frame)

(* Every pairing of a message with its number: in flight, or to be sent    *)
(* again.                                                                  *)
Known ==
    (UNION {Range(p.frames) : p \in Data})
        \cup {[msg |-> resend[n].msg, num |-> n] : n \in DOMAIN resend}

(* What waits in the queue has not been anywhere else, and what was not    *)
(* sent has not either.                                                    *)
QueueFresh ==
    /\ \A m \in Messages \ 1 .. sent : delivered[m] = 0
    /\ \A i \in DOMAIN queue :
          /\ queue[i] \in 1 .. sent /\ delivered[queue[i]] = 0
          /\ \A j \in DOMAIN queue : queue[i] = queue[j] => i = j
          /\ \A f \in Known : f.msg # queue[i]

(* Numbers and reliable messages go together one to one.                   *)
Numbered ==
    \A f \in Known :
        /\ f.msg \in 1 .. sent
        /\ IF f.msg \in Unreliable THEN f.num = NoNum ELSE f.num \in 0 .. nextNum - 1
        /\ \A g \in Known :
              f.msg \notin Unreliable /\ g.msg \notin Unreliable =>
                  (f.num = g.num <=> f.msg = g.msg)

(* A reliable message whose number was not let through is not delivered.   *)
DeliveredByNumber ==
    \A f \in Known :
        f.msg \notin Unreliable /\ f.num \notin got => delivered[f.msg] = 0

(* An unreliable one travels in one datagram only.                         *)
OneDatagram ==
    \A p, q \in Data : \A f \in Range(p.frames), g \in Range(q.frames) :
        f.msg = g.msg /\ f.msg \in Unreliable => p.seq = q.seq

(* ... and is not delivered before that datagram has been received.        *)
DeliveredByDatagram ==
    \A p \in Data : \A f \in Range(p.frames) :
        f.msg \in Unreliable /\ ~Received(p.seq) => delivered[f.msg] = 0

IInv ==
    /\ Typed /\ QueueFresh /\ Numbered /\ DeliveredByNumber
    /\ OneDatagram /\ DeliveredByDatagram

(* The two places where a frame is known from, now and after a step. *)
LEMMA KnownFrames ==
    /\ \A f : f \in Known <=>
          \/ \E p \in Data : f \in Range(p.frames)
          \/ \E n \in DOMAIN resend : f = [msg |-> resend[n].msg, num |-> n]
    /\ \A f : f \in Known' <=>
          \/ \E p \in Data' : f \in Range(p.frames)
          \/ \E n \in DOMAIN resend' : f = [msg |-> resend'[n].msg, num |-> n]
  <1> QED
    BY DEF Known

----------------------------------------------------------------------------
(* What the operators on frames do.                                        *)

(* Decoding yields frames of the datagram only. *)
LEMMA DecodedWithin ==
    ASSUME NEW frames \in Seq(Frame)
    PROVE  Range(Decoded(frames)) \subseteq Range(frames)
  <1> DEFINE stops == {i \in DOMAIN frames : frames[i].msg \in Empty}
             last == IF stops = {} THEN Len(frames) ELSE Min(stops) - 1
  <1>1. stops # {} => Min(stops) \in DOMAIN frames
    <2>1. stops \subseteq Nat
      OBVIOUS
    <2>2. stops # {} => Min(stops) \in stops
      BY <2>1, LeastNumber
    <2> QED
      BY <2>2
  <1>2. Decoded(frames) = SubSeq(frames, 1, last)
    BY DEF Decoded
  <1>3. last \in 0 .. Len(frames)
    BY <1>1
  <1> HIDE DEF last
  <1>4. /\ DOMAIN Decoded(frames) = 1 .. last
        /\ \A i \in 1 .. last : Decoded(frames)[i] = frames[i]
    BY <1>2, <1>3
  <1> QED
    BY <1>3, <1>4 DEF Range

(* A chunk is a run of the frames, and runs do not overlap. *)
LEMMA ChunkOf ==
    ASSUME NEW T, NEW s \in Seq(T)
    PROVE  /\ Len(Chunks(s)) \in Nat /\ DOMAIN Chunks(s) = 1 .. Len(Chunks(s))
           /\ \A c \in DOMAIN Chunks(s) :
                 /\ Chunks(s)[c] \in Seq(T)
                 /\ \A f \in Range(Chunks(s)[c]) : \E i \in DOMAIN s :
                       f = s[i] /\ (c - 1) * FramesPerDatagram < i /\ i <= c * FramesPerDatagram
  <1> DEFINE F == FramesPerDatagram
             N == (Len(s) + F - 1) \div F
             run(i) == SubSeq(s, (i - 1) * F + 1, MinOf(i * F, Len(s)))
  <1>1. F \in Nat \ {0} /\ Len(s) \in Nat
    BY TransportAssumption
  <1>2. N \in Nat
    BY <1>1
  <1>3. Chunks(s) = [i \in 1 .. N |-> run(i)]
    BY DEF Chunks
  <1> HIDE DEF N, run
  <1>4. Len(Chunks(s)) = N /\ DOMAIN Chunks(s) = 1 .. N
    BY <1>2, <1>3
  <1>5. ASSUME NEW c \in 1 .. N
        PROVE  /\ run(c) \in Seq(T)
               /\ \A f \in Range(run(c)) : \E i \in DOMAIN s :
                     f = s[i] /\ (c - 1) * F < i /\ i <= c * F
    <2> DEFINE a == (c - 1) * F
               b == MinOf(c * F, Len(s))
    <2>1. a \in Nat /\ c * F \in Nat
      BY <1>1, <1>2
    <2>2. b \in Nat /\ b <= Len(s) /\ b <= c * F
      BY <1>1, <2>1 DEF MinOf
    <2>3. run(c) = SubSeq(s, a + 1, b)
      BY DEF run
    <2> HIDE DEF a, b
    <2>4. /\ run(c) \in Seq(T) /\ DOMAIN run(c) = 1 .. b - a
          /\ \A i \in 1 .. b - a : run(c)[i] = s[a + i] /\ a + i \in DOMAIN s
      BY <1>1, <2>1, <2>2, <2>3
    <2>5. \A i \in 1 .. b - a : a < a + i /\ a + i <= c * F
      BY <2>1, <2>2
    <2> QED
      BY <2>4, <2>5 DEF Range, a
  <1> QED
    BY <1>2, <1>3, <1>4, <1>5

(* A position is in one chunk only. *)
LEMMA OneChunk ==
    ASSUME NEW c \in Nat, NEW d \in Nat, NEW i \in Nat,
           (c - 1) * FramesPerDatagram < i, i <= c * FramesPerDatagram,
           (d - 1) * FramesPerDatagram < i, i <= d * FramesPerDatagram
    PROVE  c = d
  <1> DEFINE F == FramesPerDatagram
  <1>1. F \in Nat
    BY TransportAssumption
  <1>2. \A x, y \in Int : x <= y => x * F <= y * F
    BY <1>1
  <1>3. ~(c <= d - 1) /\ ~(d <= c - 1)
    BY <1>1, <1>2
  <1> QED
    BY <1>3

(* A proper part of a finite set has fewer elements. *)
LEMMA FewerElements ==
    ASSUME NEW S, IsFiniteSet(S), NEW R \in SUBSET S, R # S
    PROVE  /\ IsFiniteSet(R) /\ Cardinality(R) \in Nat /\ Cardinality(S) \in Nat
           /\ Cardinality(R) < Cardinality(S)
  <1>1. /\ IsFiniteSet(R) /\ Cardinality(R) <= Cardinality(S)
        /\ Cardinality(R) # Cardinality(S)
    BY FS_Subset
  <1>2. Cardinality(R) \in Nat /\ Cardinality(S) \in Nat
    BY <1>1, FS_CardinalityType
  <1> QED
    BY <1>1, <1>2

(* Late numbering: the new numbers start at the next one, are as many as   *)
(* the reliable messages, and no two messages get the same.                *)
LEMMA NewNumbers ==
    ASSUME nextNum \in Nat, NEW ms \in Seq(Messages), NEW fs, fs = NewFrames(ms)
    PROVE  /\ fs \in Seq(Frame) /\ DOMAIN fs = DOMAIN ms
           /\ Cardinality(NumsOf(fs)) \in Nat
           /\ \A i \in DOMAIN ms :
                 /\ fs[i].msg = ms[i]
                 /\ IF ms[i] \in Unreliable THEN fs[i].num = NoNum
                    ELSE fs[i].num \in nextNum .. nextNum + Cardinality(NumsOf(fs)) - 1
           /\ \A i, j \in DOMAIN ms :
                 ms[i] \notin Unreliable /\ ms[j] \notin Unreliable /\ fs[i].num = fs[j].num
                    => i = j
  <1> DEFINE before(i) == {j \in 1 .. i - 1 : ms[j] \notin Unreliable}
             reliable == {i \in DOMAIN ms : ms[i] \notin Unreliable}
             newNums == NumsOf(fs)
  <1>1. DOMAIN ms = 1 .. Len(ms) /\ Len(ms) \in Nat
    OBVIOUS
  <1>2. \A i \in DOMAIN ms : IsFiniteSet(before(i)) /\ Cardinality(before(i)) \in Nat
    <2> SUFFICES ASSUME NEW i \in DOMAIN ms
                 PROVE  IsFiniteSet(before(i)) /\ Cardinality(before(i)) \in Nat
      OBVIOUS
    <2>1. IsFiniteSet(1 .. i - 1)
      BY <1>1, FS_Interval
    <2>2. IsFiniteSet(before(i))
      BY <2>1, FS_Subset
    <2> QED
      BY <2>2, FS_CardinalityType
  <1>3. \A i, j \in reliable : i < j => Cardinality(before(i)) < Cardinality(before(j))
    <2> SUFFICES ASSUME NEW i \in reliable, NEW j \in reliable, i < j
                 PROVE  Cardinality(before(i)) < Cardinality(before(j))
      OBVIOUS
    <2>1. before(i) \subseteq before(j) /\ i \in before(j) /\ i \notin before(i)
      BY <1>1
    <2>2. IsFiniteSet(before(j))
      BY <1>2
    <2> HIDE DEF before
    <2> QED
      BY <2>1, <2>2, FewerElements
  <1>4. IsFiniteSet(reliable)
    <2>1. IsFiniteSet(1 .. Len(ms))
      BY <1>1, FS_Interval
    <2> QED
      BY <1>1, <2>1, FS_Subset
  <1>5. \A i \in reliable : Cardinality(before(i)) < Cardinality(reliable)
    <2> SUFFICES ASSUME NEW i \in reliable
                 PROVE  Cardinality(before(i)) < Cardinality(reliable)
      OBVIOUS
    <2>1. before(i) \subseteq reliable /\ i \notin before(i)
      BY <1>1
    <2> HIDE DEF before, reliable
    <2> QED
      BY <1>4, <2>1, FewerElements
  <1>6. Cardinality(reliable) \in Nat
    BY <1>4, FS_CardinalityType
  <1>7. /\ DOMAIN fs = DOMAIN ms
        /\ \A i \in DOMAIN ms :
              fs[i] = [msg |-> ms[i],
                       num |-> IF ms[i] \in Unreliable THEN NoNum
                               ELSE nextNum + Cardinality(before(i))]
    BY <1>1 DEF NewFrames
  <1> HIDE DEF before
  <1>8. \A i \in DOMAIN ms :
            /\ fs[i].msg = ms[i]
            /\ ms[i] \in Unreliable => fs[i].num = NoNum
            /\ i \in reliable => fs[i].num = nextNum + Cardinality(before(i))
    BY <1>7
  <1>9. \A i, j \in reliable : fs[i].num = fs[j].num => i = j
    <2>1. \A i, j \in reliable : i < j => fs[i].num # fs[j].num
      BY <1>2, <1>3, <1>8
    <2> QED
      BY <1>1, <2>1
  <1>10. fs \in Seq(Frame)
    <2>1. \A i \in 1 .. Len(ms) : fs[i] \in Frame
      <3> SUFFICES ASSUME NEW i \in 1 .. Len(ms)
                   PROVE  fs[i] \in Frame
        OBVIOUS
      <3>1. ms[i] \in Messages
        BY <1>1
      <3>2. nextNum + Cardinality(before(i)) \in Nat
        BY <1>1, <1>2
      <3> QED
        BY <1>1, <1>7, <3>1, <3>2 DEF Frame
    <2>2. fs = [i \in 1 .. Len(ms) |-> fs[i]]
      BY <1>1 DEF NewFrames
    <2> QED
      BY <1>1, <2>1, <2>2
  <1>11. Cardinality(newNums) = Cardinality(reliable)
    <2> DEFINE g == [i \in reliable |-> fs[i].num]
    <2>1. newNums = {fs[i].num : i \in reliable}
      <3>1. NumsOf(fs) = {fs[i].num : i \in DOMAIN ms} \ {NoNum}
        BY <1>7 DEF NumsOf, Range
      <3>2. \A i \in reliable : fs[i].num # NoNum
        BY <1>2, <1>8 DEF NoNum
      <3> QED
        BY <1>8, <3>1, <3>2
    <2>2. g \in Surjection(reliable, newNums)
      BY <2>1 DEF Surjection
    <2>3. g \in Injection(reliable, newNums)
      BY <1>9, <2>1 DEF Injection, IsInjective
    <2> HIDE DEF g, reliable
    <2> QED
      BY <1>4, <2>2, <2>3, FS_Surjection
  <1> HIDE DEF newNums
  <1>12. \A i \in reliable : fs[i].num \in nextNum .. nextNum + Cardinality(newNums) - 1
    BY <1>2, <1>5, <1>6, <1>8, <1>11
  <1>13. Cardinality(newNums) \in Nat
    BY <1>6, <1>11
  <1> QED
    BY <1>7, <1>8, <1>9, <1>10, <1>12, <1>13 DEF newNums

----------------------------------------------------------------------------
(* What _pack_datagrams puts on the wire.                                  *)

(* Frame f is the i-th of the new ones, in a datagram with this number;    *)
(* the new ones come after the resent ones.                                *)
FreshIn(fresh, resent, i, seq) ==
    \E c \in Nat :
        /\ seq = nextSeq + Len(Chunks(resent)) + c - 1
        /\ (c - 1) * FramesPerDatagram < i /\ i <= c * FramesPerDatagram

(* A new frame goes into one datagram.                                     *)
LEMMA FreshInOne ==
    ASSUME NEW fresh, NEW resent, Len(Chunks(resent)) \in Nat, nextSeq \in Nat,
           NEW i \in Nat, NEW a, NEW b,
           FreshIn(fresh, resent, i, a), FreshIn(fresh, resent, i, b)
    PROVE  a = b
  <1>1. PICK c \in Nat :
            /\ a = nextSeq + Len(Chunks(resent)) + c - 1
            /\ (c - 1) * FramesPerDatagram < i /\ i <= c * FramesPerDatagram
    BY DEF FreshIn
  <1>2. PICK d \in Nat :
            /\ b = nextSeq + Len(Chunks(resent)) + d - 1
            /\ (d - 1) * FramesPerDatagram < i /\ i <= d * FramesPerDatagram
    BY DEF FreshIn
  <1>3. c = d
    BY <1>1, <1>2, OneChunk
  <1> QED
    BY <1>1, <1>2, <1>3

(* A datagram made of these frames. *)
Made(p, resent, fresh) ==
    /\ p.seq \in nextSeq .. nextSeq' - 1 /\ p.frames \in Seq(Frame)
    /\ \A f \in Range(p.frames) :
          \/ f \in Range(resent)
          \/ \E i \in DOMAIN fresh : f = fresh[i] /\ FreshIn(fresh, resent, i, p.seq)

(* The datagrams an update makes, and no others, are new.                  *)
LEMMA Packed ==
    ASSUME nextSeq \in Nat, NEW resent \in Seq(Frame), NEW fresh \in Seq(Frame), NEW stale,
           Pack(resent, fresh, stale)
    PROVE  /\ nextSeq' \in Nat /\ nextSeq <= nextSeq'
           /\ Data \subseteq Data'
           /\ \A p \in Data' : p \in Data \/ Made(p, resent, fresh)
  <1> DEFINE A == Chunks(resent)
             B == Chunks(fresh)
             packed == A \o B
             datagram(c) == [type |-> "data", seq |-> nextSeq + c - 1, frames |-> packed[c]]
             datagrams == [c \in 1 .. Len(packed) |-> datagram(c)]
  <1>1. /\ net' = net \cup Range(datagrams)
        /\ nextSeq' = nextSeq + Len(packed)
    BY DEF Pack
  <1>2. /\ Len(A) \in Nat /\ DOMAIN A = 1 .. Len(A)
        /\ \A c \in DOMAIN A : A[c] \in Seq(Frame) /\ Range(A[c]) \subseteq Range(resent)
    <2>1. \A c \in DOMAIN A : \A f \in Range(A[c]) : \E i \in DOMAIN resent : f = resent[i]
      BY ChunkOf
    <2>2. \A c \in DOMAIN A : Range(A[c]) \subseteq Range(resent)
      BY <2>1 DEF Range
    <2> QED
      BY <2>2, ChunkOf
  <1>3. /\ Len(B) \in Nat /\ DOMAIN B = 1 .. Len(B)
        /\ \A c \in DOMAIN B :
              /\ B[c] \in Seq(Frame)
              /\ \A f \in Range(B[c]) : \E i \in DOMAIN fresh :
                    f = fresh[i] /\ (c - 1) * FramesPerDatagram < i /\ i <= c * FramesPerDatagram
    BY ChunkOf
  <1> HIDE DEF A, B
  <1>4. /\ Len(packed) = Len(A) + Len(B)
        /\ \A c \in 1 .. Len(A) + Len(B) :
              packed[c] = IF c <= Len(A) THEN A[c] ELSE B[c - Len(A)]
    <2> DEFINE S == Seq(Frame)
    <2>1. A \in Seq(S) /\ B \in Seq(S)
      <3>1. A = [c \in 1 .. Len(A) |-> A[c]] /\ B = [c \in 1 .. Len(B) |-> B[c]]
        BY <1>2, <1>3 DEF A, B, Chunks
      <3>2. /\ \A c \in 1 .. Len(A) : A[c] \in S
            /\ \A c \in 1 .. Len(B) : B[c] \in S
        BY <1>2, <1>3
      <3> HIDE DEF S
      <3>3. A \in [1 .. Len(A) -> S] /\ B \in [1 .. Len(B) -> S]
        BY <3>1, <3>2
      <3>4. \A n \in Nat : \A f \in [1 .. n -> S] : f \in Seq(S)
        BY SeqDef
      <3> QED
        BY <1>2, <1>3, <3>3, <3>4
    <2> QED
      BY <2>1, ConcatProperties
  <1> HIDE DEF packed
  <1>5. \A c \in 1 .. Len(packed) : Made(datagram(c), resent, fresh)
    <2> SUFFICES ASSUME NEW c \in 1 .. Len(packed)
                 PROVE  Made(datagram(c), resent, fresh)
      OBVIOUS
    <2>1. datagram(c).seq \in nextSeq .. nextSeq' - 1
      BY <1>1, <1>2, <1>3, <1>4
    <2>2. CASE c <= Len(A)
      <3>1. packed[c] = A[c] /\ c \in DOMAIN A
        BY <1>2, <1>3, <1>4, <2>2
      <3> QED
        BY <1>2, <2>1, <3>1 DEF Made
    <2>3. CASE ~(c <= Len(A))
      <3> DEFINE d == c - Len(A)
      <3>1. packed[c] = B[d] /\ d \in DOMAIN B /\ d \in Nat
        BY <1>2, <1>3, <1>4, <2>3
      <3>2. datagram(c).seq = nextSeq + Len(A) + d - 1
        BY <1>2, <1>3, <1>4
      <3> HIDE DEF d
      <3>3. \A f \in Range(B[d]) : \E i \in DOMAIN fresh :
                f = fresh[i] /\ FreshIn(fresh, resent, i, datagram(c).seq)
        BY <1>3, <3>1, <3>2 DEF FreshIn, A
      <3>4. B[d] \in Seq(Frame)
        BY <1>3, <3>1
      <3> QED
        BY <2>1, <3>1, <3>3, <3>4 DEF Made
    <2> QED
      BY <2>2, <2>3
  <1>6. nextSeq' \in Nat /\ nextSeq <= nextSeq'
    BY <1>1, <1>2, <1>3, <1>4
  <1>7. Range(datagrams) = {datagram(c) : c \in 1 .. Len(packed)}
    BY DEF Range
  <1> HIDE DEF datagram, datagrams
  <1> QED
    BY <1>1, <1>5, <1>6, <1>7 DEF Data

(* What is kept for retransmission: as before, or a new message. *)
LEMMA Tracked ==
    ASSUME NEW resent, NEW fresh, NEW stale, Pack(resent, fresh, stale)
    PROVE  /\ nextNum' = nextNum + Cardinality(NumsOf(fresh))
           /\ \A n \in DOMAIN resend' :
                 \/ n \in DOMAIN resend /\ resend'[n].msg = resend[n].msg
                 \/ \E f \in Range(fresh) : n = f.num /\ f.num # NoNum /\ resend'[n].msg = f.msg
  <1> DEFINE newNums == NumsOf(fresh)
             tracked == {n \in newNums :
                           Cardinality(DOMAIN resend) + (n - nextNum) < MaxResend}
  <1>1. resend' = [n \in DOMAIN resend \cup tracked |->
                     IF n \in newNums
                     THEN [msg |-> (CHOOSE f \in Range(fresh) : f.num = n).msg,
                           naked |-> FALSE]
                     ELSE [resend[n] EXCEPT !.naked = @ /\ n \notin NumsOf(resent)]]
    BY DEF Pack
  <1>2. \A n \in newNums : \E f \in Range(fresh) : f.num = n /\ n # NoNum
    BY DEF NumsOf
  <1>3. tracked \subseteq newNums
    OBVIOUS
  <1> HIDE DEF newNums, tracked
  <1> SUFFICES ASSUME NEW n \in DOMAIN resend'
               PROVE  \/ n \in DOMAIN resend /\ resend'[n].msg = resend[n].msg
                      \/ \E f \in Range(fresh) :
                            n = f.num /\ f.num # NoNum /\ resend'[n].msg = f.msg
    BY DEF Pack
  <1>4. CASE n \in newNums
    <2> DEFINE f == CHOOSE g \in Range(fresh) : g.num = n
    <2>1. f \in Range(fresh) /\ f.num = n /\ n # NoNum
      BY <1>2, <1>4
    <2>2. resend'[n] = [msg |-> f.msg, naked |-> FALSE]
      BY <1>1, <1>4
    <2> HIDE DEF f
    <2> QED
      BY <2>1, <2>2
  <1>5. CASE n \notin newNums
    <2>1. n \in DOMAIN resend
      BY <1>1, <1>3, <1>5
    <2>2. resend'[n] = [resend[n] EXCEPT !.naked = @ /\ n \notin NumsOf(resent)]
      BY <1>1, <1>5
    <2> QED
      BY <2>1, <2>2
  <1> QED
    BY <1>4, <1>5

----------------------------------------------------------------------------
(* One update of the sender.                                               *)

(* The messages resent keep the numbers they had. *)
LEMMA Resent ==
    ASSUME IInv, NEW due \in SUBSET DOMAIN resend, NEW order \in Ascending(due), NEW resent,
           resent = [i \in DOMAIN order |-> [msg |-> resend[order[i]].msg, num |-> order[i]]]
    PROVE  /\ resent \in Seq(Frame)
           /\ \A f \in Range(resent) : f \in Known /\ f.msg \notin Unreliable
  <1> DEFINE k == Cardinality(due)
  <1>1. k \in Nat
    <2>1. IsFiniteSet(0 .. nextNum - 1) /\ DOMAIN resend \subseteq 0 .. nextNum - 1
      BY FS_Interval DEF IInv, Typed
    <2>2. IsFiniteSet(due)
      BY <2>1, FS_Subset
    <2> QED
      BY <2>2, FS_CardinalityType
  <1>2. DOMAIN order = 1 .. k /\ \A i \in 1 .. k : order[i] \in DOMAIN resend
    BY DEF Ascending
  <1>3. \A n \in DOMAIN resend :
            [msg |-> resend[n].msg, num |-> n] \in Known \cap Frame
    BY DEF IInv, Typed, Known, Frame
  <1> HIDE DEF k
  <1>4. resent = [i \in 1 .. k |-> [msg |-> resend[order[i]].msg, num |-> order[i]]]
    BY <1>2
  <1>5. \A i \in 1 .. k : resent[i] \in Known \cap Frame /\ resent[i].num \in DOMAIN resend
    BY <1>2, <1>3, <1>4
  <1>6. resent \in Seq(Frame)
    <2>1. \A i \in 1 .. k : resent[i] \in Frame
      BY <1>5
    <2> QED
      BY <1>1, <1>4, <2>1
  <1>7. \A n \in DOMAIN resend : n # NoNum
    BY DEF IInv, Typed, NoNum
  <1> QED
    BY <1>4, <1>5, <1>6, <1>7 DEF Range, IInv, Numbered

(* What is left of a sequence behind its first n elements. *)
LEMMA RestOf ==
    ASSUME NEW S, NEW s \in Seq(S), NEW n \in 0 .. Len(s), NEW r,
           r = SubSeq(s, n + 1, Len(s))
    PROVE  /\ r \in Seq(S) /\ DOMAIN r = 1 .. Len(s) - n
           /\ \A i \in DOMAIN r : r[i] = s[n + i]
  <1>1. r \in Seq(S)
    OBVIOUS
  <1>2. Len(r) = Len(s) - n
    OBVIOUS
  <1>3. \A i \in 1 .. Len(s) - n : r[i] = s[n + i]
    OBVIOUS
  <1> QED
    BY <1>1, <1>2, <1>3

(* The first n elements. *)
LEMMA FirstOf ==
    ASSUME NEW S, NEW s \in Seq(S), NEW n \in 0 .. Len(s), NEW r,
           r = SubSeq(s, 1, n)
    PROVE  /\ r \in Seq(S) /\ DOMAIN r = 1 .. n
           /\ \A i \in 1 .. n : r[i] = s[i]
  <1>1. r \in Seq(S)
    OBVIOUS
  <1>2. Len(r) = n
    OBVIOUS
  <1>3. \A i \in 1 .. n : r[i] = s[i]
    OBVIOUS
  <1> QED
    BY <1>1, <1>2, <1>3

(* How many messages of the queue an update takes. *)
LEMMA Taken ==
    ASSUME Typed, NEW chunks \in (IF queue = << >> THEN {0} ELSE 1 .. Len(Chunks(queue))),
           NEW taken, taken = MinOf(chunks * FramesPerDatagram, Len(queue)),
           NEW ms, ms = SubSeq(queue, 1, taken),
           queue' = SubSeq(queue, taken + 1, Len(queue))
    PROVE  /\ taken \in 0 .. Len(queue) /\ Len(queue) \in Nat
           /\ ms \in Seq(Messages) /\ DOMAIN ms = 1 .. taken
           /\ \A i \in 1 .. taken : ms[i] = queue[i] /\ i \in DOMAIN queue
           /\ queue' \in Seq(Messages) /\ DOMAIN queue' = 1 .. Len(queue) - taken
           /\ \A i \in DOMAIN queue' : queue'[i] = queue[taken + i] /\ taken + i \in DOMAIN queue
  <1>1. queue \in Seq(Messages) /\ Len(queue) \in Nat
    BY DEF Typed
  <1>2. chunks \in Nat
    <2>1. Len(Chunks(queue)) \in Nat
      BY <1>1, ChunkOf
    <2> QED
      BY <2>1
  <1>3. chunks * FramesPerDatagram \in Nat
    BY <1>2, TransportAssumption
  <1>4. taken \in 0 .. Len(queue)
    BY <1>1, <1>3 DEF MinOf
  <1> HIDE DEF MinOf
  <1>5. /\ ms \in Seq(Messages) /\ DOMAIN ms = 1 .. taken
        /\ \A i \in 1 .. taken : ms[i] = queue[i]
    BY <1>1, <1>4, FirstOf
  <1>6. /\ queue' \in Seq(Messages) /\ DOMAIN queue' = 1 .. Len(queue) - taken
        /\ \A i \in DOMAIN queue' : queue'[i] = queue[taken + i]
    BY <1>1, <1>4, RestOf
  <1>7. \A i \in 1 .. taken : i \in DOMAIN queue
    BY <1>1, <1>4
  <1>8. \A i \in 1 .. Len(queue) - taken : taken + i \in DOMAIN queue
    BY <1>1, <1>4
  <1> QED
    BY <1>1, <1>4, <1>5, <1>6, <1>7, <1>8

(* An update delivers nothing.                                             *)
LEMMA TickStep ==
    ASSUME IInv, SenderTick
    PROVE  IInv' /\ UNCHANGED <<sent, delivered>>
  <1>1. PICK due \in DueSets, stale \in StaleSets : \E order \in Ascending(due) :
        \E chunks \in (IF queue = << >> THEN {0} ELSE 1 .. Len(Chunks(queue))) :
            /\ LET taken == MinOf(chunks * FramesPerDatagram, Len(queue))
                   resent == [i \in DOMAIN order |->
                                 [msg |-> resend[order[i]].msg, num |-> order[i]]]
               IN  /\ Pack(resent, NewFrames(SubSeq(queue, 1, taken)), stale)
                   /\ queue' = SubSeq(queue, taken + 1, Len(queue))
            /\ UNCHANGED <<sent, receiverVars, faults>>
    BY DEF SenderTick
  <1>2. PICK order \in Ascending(due),
             chunks \in (IF queue = << >> THEN {0} ELSE 1 .. Len(Chunks(queue))) :
            /\ LET taken == MinOf(chunks * FramesPerDatagram, Len(queue))
                   resent == [i \in DOMAIN order |->
                                 [msg |-> resend[order[i]].msg, num |-> order[i]]]
               IN  /\ Pack(resent, NewFrames(SubSeq(queue, 1, taken)), stale)
                   /\ queue' = SubSeq(queue, taken + 1, Len(queue))
            /\ UNCHANGED <<sent, receiverVars, faults>>
    BY <1>1
  <1> DEFINE taken == MinOf(chunks * FramesPerDatagram, Len(queue))
             ms == SubSeq(queue, 1, taken)
             fresh == NewFrames(ms)
             resent == [i \in DOMAIN order |-> [msg |-> resend[order[i]].msg, num |-> order[i]]]
  <1>3. /\ Pack(resent, fresh, stale)
        /\ queue' = SubSeq(queue, taken + 1, Len(queue))
        /\ UNCHANGED <<sent, expected, ackTimer, acks, naks, dgBase, dgBits, got, delivered, faults>>
    BY <1>2 DEF receiverVars
  <1>4. due \subseteq DOMAIN resend
    BY DEF DueSets
  <1>5. /\ resent \in Seq(Frame)
        /\ \A f \in Range(resent) : f \in Known /\ f.msg \notin Unreliable
    BY <1>4, Resent
  <1>6. /\ taken \in 0 .. Len(queue) /\ Len(queue) \in Nat
        /\ ms \in Seq(Messages) /\ DOMAIN ms = 1 .. taken
        /\ \A i \in 1 .. taken : ms[i] = queue[i] /\ i \in DOMAIN queue
        /\ queue' \in Seq(Messages) /\ DOMAIN queue' = 1 .. Len(queue) - taken
        /\ \A i \in DOMAIN queue' : queue'[i] = queue[taken + i] /\ taken + i \in DOMAIN queue
    BY <1>3, Taken DEF IInv
  <1>7. nextNum \in Nat /\ nextSeq \in Nat
    BY DEF IInv, Typed
  <1> HIDE DEF taken, ms, resent
  <1>20. fresh = NewFrames(ms) /\ ms \in Seq(Messages)
    BY <1>6
  <1> HIDE DEF fresh
  <1> DEFINE number == Cardinality(NumsOf(fresh))
  <1>8. /\ fresh \in Seq(Frame) /\ DOMAIN fresh = DOMAIN ms /\ number \in Nat
        /\ \A i \in DOMAIN ms :
              /\ fresh[i].msg = ms[i]
              /\ IF ms[i] \in Unreliable THEN fresh[i].num = NoNum
                 ELSE fresh[i].num \in nextNum .. nextNum + number - 1
        /\ \A i, j \in DOMAIN ms :
              ms[i] \notin Unreliable /\ ms[j] \notin Unreliable /\ fresh[i].num = fresh[j].num
                 => i = j
    BY <1>7, <1>20, NewNumbers
  <1>9. /\ nextSeq' \in Nat /\ nextSeq <= nextSeq'
        /\ \A p \in Data' : p \in Data \/ Made(p, resent, fresh)
    BY <1>3, <1>5, <1>7, <1>8, Packed
  <1>10. /\ nextNum' = nextNum + number
         /\ \A n \in DOMAIN resend' :
               \/ n \in DOMAIN resend /\ resend'[n].msg = resend[n].msg
               \/ \E f \in Range(fresh) : n = f.num /\ f.num # NoNum /\ resend'[n].msg = f.msg
    BY <1>3, Tracked
  <1> HIDE DEF number
  (* The i-th new frame carries the i-th message of the queue. *)
  <1>11. \A i \in DOMAIN fresh :
            /\ i \in DOMAIN queue /\ fresh[i].msg = queue[i] /\ fresh[i] \in Frame
            /\ IF queue[i] \in Unreliable THEN fresh[i].num = NoNum
               ELSE fresh[i].num \in nextNum .. nextNum' - 1
    <2>1. \A i \in DOMAIN fresh : fresh[i] \in Frame
      BY <1>8
    <2>2. \A i \in DOMAIN fresh : i \in DOMAIN queue /\ ms[i] = queue[i]
      BY <1>6, <1>8
    <2> SUFFICES ASSUME NEW i \in DOMAIN fresh
                 PROVE  /\ fresh[i].msg = queue[i]
                        /\ IF queue[i] \in Unreliable THEN fresh[i].num = NoNum
                           ELSE fresh[i].num \in nextNum .. nextNum' - 1
      BY <2>1, <2>2
    <2>3. i \in DOMAIN ms /\ ms[i] = queue[i]
      BY <1>8, <2>2
    <2>4. /\ fresh[i].msg = ms[i]
          /\ IF ms[i] \in Unreliable THEN fresh[i].num = NoNum
             ELSE fresh[i].num \in nextNum .. nextNum + number - 1
      BY <1>8, <2>3
    <2>5. nextNum' - 1 = nextNum + number - 1
      BY <1>7, <1>8, <1>10
    <2> QED
      BY <2>3, <2>4, <2>5
  <1>12. \A i, j \in DOMAIN fresh :
            queue[i] \notin Unreliable /\ queue[j] \notin Unreliable /\ fresh[i].num = fresh[j].num
               => i = j
    BY <1>6, <1>8
  <1>13. \A f \in Known' : f \in Known \/ \E i \in DOMAIN fresh : f = fresh[i]
    <2> SUFFICES ASSUME NEW f \in Known', f \notin Known
                 PROVE  \E i \in DOMAIN fresh : f = fresh[i]
      OBVIOUS
    <2>1. CASE \E p \in Data' : f \in Range(p.frames)
      <3>1. PICK p \in Data' : f \in Range(p.frames)
        BY <2>1
      <3>2. p \notin Data
        BY <3>1 DEF Known
      <3> QED
        BY <1>5, <1>9, <3>1, <3>2 DEF Made
    <2>2. CASE \E n \in DOMAIN resend' : f = [msg |-> resend'[n].msg, num |-> n]
      <3>1. PICK n \in DOMAIN resend' : f = [msg |-> resend'[n].msg, num |-> n]
        BY <2>2
      <3>2. ~(n \in DOMAIN resend /\ resend'[n].msg = resend[n].msg)
        <4> SUFFICES ASSUME n \in DOMAIN resend, resend'[n].msg = resend[n].msg
                     PROVE  FALSE
          OBVIOUS
        <4>1. f = [msg |-> resend[n].msg, num |-> n]
          BY <3>1
        <4> QED
          BY <4>1, KnownFrames
      <3>3. PICK g \in Range(fresh) : n = g.num /\ resend'[n].msg = g.msg
        BY <1>10, <3>2
      <3>4. PICK i \in DOMAIN fresh : g = fresh[i]
        BY <3>3 DEF Range
      <3>5. g = [msg |-> g.msg, num |-> g.num]
        BY <1>11, <3>4 DEF Frame
      <3>6. f = g
        BY <3>1, <3>3, <3>5
      <3> QED
        BY <3>4, <3>6
    <2>3. \/ \E p \in Data' : f \in Range(p.frames)
          \/ \E n \in DOMAIN resend' : f = [msg |-> resend'[n].msg, num |-> n]
      BY KnownFrames
    <2> QED
      BY <2>1, <2>2, <2>3
  <1>14. Typed'
    <2>1. \A n \in DOMAIN resend' : n \in 0 .. nextNum' - 1 /\ resend'[n].msg \in Messages
      <3> SUFFICES ASSUME NEW n \in DOMAIN resend'
                   PROVE  n \in 0 .. nextNum' - 1 /\ resend'[n].msg \in Messages
        OBVIOUS
      <3>1. CASE n \in DOMAIN resend /\ resend'[n].msg = resend[n].msg
        BY <1>8, <1>10, <3>1 DEF IInv, Typed
      <3>2. CASE \E f \in Range(fresh) : n = f.num /\ f.num # NoNum /\ resend'[n].msg = f.msg
        <4>1. PICK i \in DOMAIN fresh :
                n = fresh[i].num /\ n # NoNum /\ resend'[n].msg = fresh[i].msg
          BY <3>2 DEF Range
        <4>2. fresh[i].msg \in Messages
          BY <1>11 DEF Frame
        <4> QED
          BY <1>7, <1>11, <4>1, <4>2
      <3> QED
        BY <1>10, <3>1, <3>2
    <2>2. \A p \in Data' : p.seq \in 0 .. nextSeq' - 1 /\ p.frames \in Seq(Frame)
      <3>1. \A p \in Data : p.seq \in 0 .. nextSeq' - 1 /\ p.frames \in Seq(Frame)
        BY <1>7, <1>9 DEF IInv, Typed
      <3>2. \A p : Made(p, resent, fresh) => p.seq \in 0 .. nextSeq' - 1 /\ p.frames \in Seq(Frame)
        BY <1>7, <1>9 DEF Made
      <3> QED
        BY <1>9, <3>1, <3>2
    <2>3. nextNum' \in Nat /\ got \subseteq 0 .. nextNum' - 1
      BY <1>7, <1>8, <1>10 DEF IInv, Typed
    <2> QED
      BY <1>3, <1>6, <1>9, <2>1, <2>2, <2>3 DEF IInv, Typed
  <1>15. QueueFresh'
    <2>1. \A i \in DOMAIN queue' : \A f \in Known' : f.msg # queue'[i]
      <3> SUFFICES ASSUME NEW i \in DOMAIN queue', NEW f \in Known'
                   PROVE  f.msg # queue'[i]
        OBVIOUS
      <3> DEFINE k == taken + i
      <3>1. k \in DOMAIN queue /\ queue'[i] = queue[k]
        BY <1>6
      <3>2. CASE f \in Known
        BY <3>1, <3>2 DEF IInv, QueueFresh
      <3>3. CASE \E j \in DOMAIN fresh : f = fresh[j]
        <4>1. PICK j \in DOMAIN fresh : f = fresh[j]
          BY <3>3
        <4>2. f.msg = queue[j] /\ j \in DOMAIN queue
          BY <1>11, <4>1
        <4>3. j # k
          BY <1>6, <1>8
        <4> QED
          BY <3>1, <4>2, <4>3 DEF IInv, QueueFresh
      <3> QED
        BY <1>13, <3>2, <3>3
    <2>2. \A i \in DOMAIN queue' : queue'[i] \in 1 .. sent /\ delivered[queue'[i]] = 0
      BY <1>6 DEF IInv, QueueFresh
    <2>3. \A i, j \in DOMAIN queue' : queue'[i] = queue'[j] => i = j
      <3> SUFFICES ASSUME NEW i \in DOMAIN queue', NEW j \in DOMAIN queue', queue'[i] = queue'[j]
                   PROVE  i = j
        OBVIOUS
      <3>1. taken + i = taken + j
        BY <1>6 DEF IInv, QueueFresh
      <3> QED
        BY <1>6, <3>1
    <2> QED
      BY <1>3, <2>1, <2>2, <2>3 DEF IInv, QueueFresh
  (* A frame that was known before is not one of the new ones. *)
  <1>16. \A f \in Known, i \in DOMAIN fresh :
            /\ f.msg # fresh[i].msg
            /\ f.msg \notin Unreliable /\ fresh[i].msg \notin Unreliable => f.num # fresh[i].num
    <2> SUFFICES ASSUME NEW f \in Known, NEW i \in DOMAIN fresh
                 PROVE  /\ f.msg # fresh[i].msg
                        /\ f.msg \notin Unreliable /\ fresh[i].msg \notin Unreliable
                              => f.num # fresh[i].num
      OBVIOUS
    <2>1. f.msg # fresh[i].msg
      BY <1>11 DEF IInv, QueueFresh
    <2>2. f.msg \notin Unreliable => f.num \in 0 .. nextNum - 1
      BY DEF IInv, Numbered
    <2>3. fresh[i].msg \notin Unreliable => fresh[i].num \in nextNum .. nextNum' - 1
      BY <1>11
    <2> QED
      BY <1>7, <2>1, <2>2, <2>3
  <1>17. Numbered'
    <2> SUFFICES ASSUME NEW f \in Known'
                 PROVE  /\ f.msg \in 1 .. sent
                        /\ IF f.msg \in Unreliable THEN f.num = NoNum
                           ELSE f.num \in 0 .. nextNum' - 1
                        /\ \A g \in Known' :
                              f.msg \notin Unreliable /\ g.msg \notin Unreliable =>
                                  (f.num = g.num <=> f.msg = g.msg)
      BY <1>3 DEF Numbered
    <2>1. CASE f \in Known
      <3>1. /\ f.msg \in 1 .. sent
            /\ IF f.msg \in Unreliable THEN f.num = NoNum ELSE f.num \in 0 .. nextNum - 1
        BY <2>1 DEF IInv, Numbered
      <3>2. f.num \in 0 .. nextNum - 1 => f.num \in 0 .. nextNum' - 1
        BY <1>7, <1>8, <1>10
      <3>3. \A g \in Known : f.msg \notin Unreliable /\ g.msg \notin Unreliable =>
                                  (f.num = g.num <=> f.msg = g.msg)
        BY <2>1 DEF IInv, Numbered
      <3> QED
        BY <1>13, <1>16, <2>1, <3>1, <3>2, <3>3
    <2>2. CASE \E i \in DOMAIN fresh : f = fresh[i]
      <3>1. PICK i \in DOMAIN fresh : f = fresh[i]
        BY <2>2
      <3>2. /\ f.msg \in 1 .. sent
            /\ IF f.msg \in Unreliable THEN f.num = NoNum ELSE f.num \in 0 .. nextNum' - 1
        BY <1>7, <1>11, <3>1 DEF IInv, QueueFresh
      <3>3. \A j \in DOMAIN fresh :
                f.msg \notin Unreliable /\ fresh[j].msg \notin Unreliable =>
                    (f.num = fresh[j].num <=> f.msg = fresh[j].msg)
        BY <1>11, <1>12, <3>1 DEF IInv, QueueFresh
      <3> QED
        BY <1>13, <1>16, <3>1, <3>2, <3>3
    <2> QED
      BY <1>13, <2>1, <2>2
  <1>18. DeliveredByNumber'
    BY <1>3, <1>11, <1>13 DEF IInv, DeliveredByNumber, QueueFresh
  <1>19. \A q \in Data' : q \notin Data =>
            \A f \in Known, g \in Range(q.frames) : f.msg \in Unreliable => f.msg # g.msg
    <2> SUFFICES ASSUME NEW q \in Data', q \notin Data, NEW f \in Known,
                        NEW g \in Range(q.frames), f.msg \in Unreliable
                 PROVE  f.msg # g.msg
      OBVIOUS
    <2>1. Made(q, resent, fresh)
      BY <1>9
    <2>2. g \in Range(resent) \/ \E i \in DOMAIN fresh : g = fresh[i]
      BY <2>1 DEF Made
    <2> QED
      BY <1>5, <1>16, <2>2
  <1>21. OneDatagram'
    <2> SUFFICES ASSUME NEW p \in Data', NEW q \in Data', NEW f \in Range(p.frames),
                        NEW g \in Range(q.frames), f.msg = g.msg, f.msg \in Unreliable
                 PROVE  p.seq = q.seq
      BY DEF OneDatagram
    <2>1. (p \in Data => f \in Known) /\ (q \in Data => g \in Known)
      BY KnownFrames
    <2>2. CASE p \in Data /\ q \in Data
      BY <2>2 DEF IInv, OneDatagram
    <2>3. CASE p \notin Data /\ q \notin Data
      <3>1. Made(p, resent, fresh) /\ Made(q, resent, fresh)
        BY <1>9, <2>3
      <3>2. f \notin Range(resent) /\ g \notin Range(resent)
        BY <1>5
      <3>3. PICK i \in DOMAIN fresh : f = fresh[i] /\ FreshIn(fresh, resent, i, p.seq)
        BY <3>1, <3>2 DEF Made
      <3>4. PICK j \in DOMAIN fresh : g = fresh[j] /\ FreshIn(fresh, resent, j, q.seq)
        BY <3>1, <3>2 DEF Made
      <3>5. i = j
        BY <1>11, <3>3, <3>4 DEF IInv, QueueFresh
      <3>6. Len(Chunks(resent)) \in Nat
        BY <1>5, ChunkOf
      <3>7. i \in Nat
        BY <1>6, <1>8
      <3> QED
        BY <1>7, <3>3, <3>4, <3>5, <3>6, <3>7, FreshInOne
    <2> QED
      BY <1>19, <2>1, <2>2, <2>3
  <1>22. DeliveredByDatagram'
    <2> SUFFICES ASSUME NEW p \in Data', NEW f \in Range(p.frames),
                        f.msg \in Unreliable, ~Received(p.seq)
                 PROVE  delivered[f.msg] = 0
      BY <1>3 DEF DeliveredByDatagram, Received
    <2>1. CASE p \in Data
      BY <2>1 DEF IInv, DeliveredByDatagram
    <2>2. CASE Made(p, resent, fresh)
      <3>1. PICK i \in DOMAIN fresh : f = fresh[i]
        BY <1>5, <2>2 DEF Made
      <3> QED
        BY <1>11, <3>1 DEF IInv, QueueFresh
    <2> QED
      BY <1>9, <2>1, <2>2
  <1> QED
    BY <1>3, <1>14, <1>15, <1>17, <1>18, <1>21, <1>22 DEF IInv

----------------------------------------------------------------------------
(* The other steps.                                                        *)

(* A step that only takes frames away, and changes nothing else here. *)
LEMMA FewerFrames ==
    ASSUME IInv, Known' \subseteq Known, Data' \subseteq Data,
           DOMAIN resend' \subseteq DOMAIN resend,
           \A n \in DOMAIN resend' : resend'[n].msg = resend[n].msg,
           UNCHANGED <<sent, queue, nextNum, nextSeq, dgBase, dgBits, got, delivered>>
    PROVE  IInv'
  <1>1. Typed'
    BY DEF IInv, Typed
  <1>2. QueueFresh'
    BY DEF IInv, QueueFresh
  <1>3. Numbered'
    BY DEF IInv, Numbered
  <1>4. DeliveredByNumber'
    BY DEF IInv, DeliveredByNumber
  <1>5. OneDatagram'
    BY DEF IInv, OneDatagram
  <1>6. DeliveredByDatagram'
    BY DEF IInv, DeliveredByDatagram, Received
  <1> QED
    BY <1>1, <1>2, <1>3, <1>4, <1>5, <1>6 DEF IInv

(* With fewer datagrams and tracked messages, fewer frames are known.      *)
LEMMA SubsetKnown ==
    ASSUME Data' \subseteq Data, DOMAIN resend' \subseteq DOMAIN resend,
           \A n \in DOMAIN resend' : resend'[n].msg = resend[n].msg
    PROVE  Known' \subseteq Known
  <1> SUFFICES ASSUME NEW f \in Known'
               PROVE  f \in Known
    OBVIOUS
  <1>1. CASE \E p \in Data' : f \in Range(p.frames)
    BY <1>1, KnownFrames
  <1>2. CASE \E n \in DOMAIN resend' : f = [msg |-> resend'[n].msg, num |-> n]
    <2>1. PICK n \in DOMAIN resend' : f = [msg |-> resend'[n].msg, num |-> n]
      BY <1>2
    <2>2. f = [msg |-> resend[n].msg, num |-> n]
      BY <2>1
    <2> QED
      BY <2>1, <2>2, KnownFrames
  <1> QED
    BY <1>1, <1>2, KnownFrames

(* What handling a datagram does apart from AcceptData. *)
LEMMA HandledQuietly ==
    ASSUME IInv, NEW p \in net,
           HandleAck(p) \/ HandleNak(p) \/ RejectData(p) \/ SkipData(p),
           net' \subseteq net
    PROVE  IInv' /\ UNCHANGED <<sent, delivered>>
  <1>1. UNCHANGED <<sent, queue, nextNum, nextSeq, dgBase, dgBits, got, delivered>>
    BY DEF HandleAck, HandleNak, RejectData, SkipData, senderVars, receiverVars
  <1>2. /\ DOMAIN resend' \subseteq DOMAIN resend
        /\ \A n \in DOMAIN resend' : resend'[n].msg = resend[n].msg
    <2>1. CASE HandleAck(p)
      <3> DEFINE found == Considered(Covered(p.ranges)) \cap DOMAIN history
                 left == DOMAIN resend \ UNION {history[s].nums : s \in found}
      <3>1. resend' = Restrict(resend, left)
        BY <2>1 DEF HandleAck
      <3>2. left \subseteq DOMAIN resend
        OBVIOUS
      <3> HIDE DEF left
      <3> QED
        BY <3>1, <3>2 DEF Restrict
    <2>2. CASE HandleNak(p)
      <3> DEFINE missed == UNION {history[s].nums :
                                    s \in Considered(Covered(p.ranges)) \cap DOMAIN history}
      <3>1. resend' = [n \in DOMAIN resend |->
                         [resend[n] EXCEPT !.naked = @ \/ n \in missed]]
        BY <2>2 DEF HandleNak
      <3> HIDE DEF missed
      <3>2. DOMAIN resend' = DOMAIN resend
        BY <3>1
      <3>3. ASSUME NEW n \in DOMAIN resend
            PROVE  resend'[n].msg = resend[n].msg
        <4>1. resend'[n] = [resend[n] EXCEPT !.naked = @ \/ n \in missed]
          BY <3>1
        <4> QED
          BY <4>1
      <3> QED
        BY <3>2, <3>3
    <2>3. CASE RejectData(p) \/ SkipData(p)
      <3>1. resend' = resend
        BY <2>3 DEF RejectData, SkipData, senderVars
      <3> QED
        BY <3>1
    <2> QED
      BY <2>1, <2>2, <2>3
  <1>3. Data' \subseteq Data
    BY DEF Data
  <1> QED
    BY <1>1, <1>2, <1>3, SubsetKnown, FewerFrames

(* AcceptData delivers what was sent and not delivered before. *)
LEMMA Accepted ==
    ASSUME IInv, NEW p \in net, AcceptData(p), net' \subseteq net
    PROVE  IInv' /\ \E M \in SUBSET (1 .. MaxMessages) : Channel!Deliver(M)
  <1> DEFINE frames == Range(Decoded(p.frames))
             fresh == Fresh(NumsOf(Decoded(p.frames)))
             handed == {f.msg : f \in {g \in frames : g.num = NoNum \/ g.num \in fresh}}
             base == WindowBase(p.seq)
  <1>1. /\ p \in Data /\ ~Received(p.seq)
        /\ dgBase' = base /\ dgBits' = {s \in dgBits : s >= base} \cup {p.seq}
        /\ got' = got \cup fresh
        /\ delivered' = [m \in Messages |-> delivered[m] + IF m \in handed THEN 1 ELSE 0]
        /\ UNCHANGED senderVars
    BY DEF AcceptData, Data
  <1>2. /\ p.frames \in Seq(Frame) /\ p.seq \in Nat /\ dgBase \in Nat /\ dgBits \subseteq Nat
    BY <1>1 DEF IInv, Typed
  <1>3. frames \subseteq Range(p.frames) /\ Range(p.frames) \subseteq Known
    BY <1>1, <1>2, DecodedWithin, KnownFrames
  <1>4. Data' \subseteq Data /\ Known' \subseteq Known
    <2>1. Data' \subseteq Data
      BY DEF Data
    <2> QED
      BY <1>1, <2>1, SubsetKnown DEF senderVars
  <1>5. fresh \subseteq NumsOf(Decoded(p.frames)) /\ fresh \cap got = {}
    BY DEF Fresh
  <1>6. fresh \subseteq {f.num : f \in frames} \ {NoNum}
    BY <1>5 DEF NumsOf
  <1> HIDE DEF fresh
  <1>7. \A m \in handed : \E f \in frames :
            /\ f.msg = m
            /\ f.msg \in Unreliable \/ f.num \in fresh
    BY <1>3 DEF IInv, Numbered, NoNum
  <1>8. handed \subseteq 1 .. sent /\ \A m \in handed : delivered[m] = 0
    <2> SUFFICES ASSUME NEW m \in handed
                 PROVE  m \in 1 .. sent /\ delivered[m] = 0
      OBVIOUS
    <2>1. PICK f \in frames : f.msg = m /\ (f.msg \in Unreliable \/ f.num \in fresh)
      BY <1>7
    <2>2. f \in Known /\ f \in Range(p.frames)
      BY <1>3, <2>1
    <2>3. CASE f.msg \in Unreliable
      BY <1>1, <2>1, <2>2, <2>3 DEF IInv, Numbered, DeliveredByDatagram
    <2>4. CASE f.msg \notin Unreliable
      BY <1>5, <2>1, <2>2, <2>4 DEF IInv, Numbered, DeliveredByNumber
    <2> QED
      BY <2>3, <2>4
  <1> HIDE DEF handed
  <1>9. /\ 1 .. sent \subseteq Messages /\ Messages = 1 .. MaxMessages
        /\ handed \subseteq Messages /\ delivered \in [Messages -> {0, 1}]
    BY <1>8, TransportAssumption DEF IInv, Typed, Messages
  <1>10. \A m \in Messages : delivered'[m] = IF m \in handed THEN 1 ELSE delivered[m]
    BY <1>1, <1>8, <1>9
  <1>11. delivered' = [m \in Messages |-> IF m \in handed THEN 1 ELSE delivered[m]]
    BY <1>1, <1>10
  <1>12. Channel!Deliver(handed) /\ handed \in SUBSET (1 .. MaxMessages)
    <2>1. \A m \in handed : m <= sent /\ delivered[m] = 0
      BY <1>8 DEF IInv, Typed
    <2> QED
      BY <1>1, <1>9, <1>11, <2>1 DEF Channel!Deliver, senderVars
  <1>13. delivered' \in [Messages -> {0, 1}]
    BY <1>9, <1>11
  (* A datagram that was received stays so, and p is received now. *)
  <1>14. /\ base \in Nat /\ Received(p.seq)'
         /\ \A s \in Nat : Received(s) => Received(s)'
    <2>1. /\ base \in Nat /\ dgBase <= base /\ p.seq < base + RecvWindowSize
      BY <1>2, TransportAssumption DEF WindowBase
    <2> HIDE DEF base
    <2>2. Received(p.seq)'
      BY <1>1, <1>2, <2>1 DEF Received
    <2>3. ASSUME NEW s \in Nat, Received(s)
          PROVE  Received(s)'
      BY <1>1, <1>2, <2>1, <2>3, TransportAssumption DEF Received
    <2> QED
      BY <2>1, <2>2, <2>3
  <1>15. UNCHANGED <<sent, queue, nextNum, resend, nextSeq>>
    BY <1>1 DEF senderVars
  <1> HIDE DEF base
  <1>16. Typed'
    <2>1. got' \subseteq 0 .. nextNum - 1
      <3>1. \A f \in frames : f.num # NoNum => f.num \in 0 .. nextNum - 1
        BY <1>3 DEF IInv, Numbered
      <3> QED
        BY <1>1, <1>6, <3>1 DEF IInv, Typed
    <2>2. dgBase' \in Nat /\ dgBits' \subseteq Nat
      BY <1>1, <1>2, <1>14
    <2> QED
      BY <1>4, <1>13, <1>15, <2>1, <2>2 DEF IInv, Typed
  <1>17. QueueFresh'
    <2>1. \A i \in DOMAIN queue : queue[i] \notin handed /\ queue[i] \in Messages
      BY <1>3, <1>7, <1>9 DEF IInv, QueueFresh
    <2>2. \A m \in Messages \ 1 .. sent : m \notin handed
      BY <1>8
    <2> QED
      BY <1>4, <1>10, <1>15, <2>1, <2>2 DEF IInv, QueueFresh
  <1>18. Numbered'
    BY <1>4, <1>15 DEF IInv, Numbered
  <1>19. DeliveredByNumber'
    <2> SUFFICES ASSUME NEW f \in Known', f.msg \notin Unreliable, f.num \notin got'
                 PROVE  delivered'[f.msg] = 0
      BY DEF DeliveredByNumber
    <2>1. f \in Known /\ f.msg \in Messages /\ delivered[f.msg] = 0
      BY <1>1, <1>4, <1>9 DEF IInv, Numbered, DeliveredByNumber
    <2>2. f.msg \notin handed
      <3> SUFFICES ASSUME f.msg \in handed
                   PROVE  FALSE
        OBVIOUS
      <3>1. PICK g \in frames : g.msg = f.msg /\ g.num \in fresh
        BY <1>7
      <3>2. g.num = f.num
        BY <1>3, <2>1, <3>1 DEF IInv, Numbered
      <3> QED
        BY <1>1, <3>1, <3>2
    <2> QED
      BY <1>10, <2>1, <2>2
  <1>20. OneDatagram'
    BY <1>4 DEF IInv, OneDatagram
  <1>21. DeliveredByDatagram'
    <2> SUFFICES ASSUME NEW q \in Data', NEW f \in Range(q.frames),
                        f.msg \in Unreliable, ~Received(q.seq)'
                 PROVE  delivered'[f.msg] = 0
      BY DEF DeliveredByDatagram
    <2>1. q \in Data /\ q.seq \in Nat
      BY <1>4 DEF IInv, Typed
    <2>2. f \in Known /\ f.msg \in Messages
      BY <1>9, <2>1, KnownFrames DEF IInv, Numbered
    <2>3. delivered[f.msg] = 0
      BY <1>14, <2>1 DEF IInv, DeliveredByDatagram
    <2>4. f.msg \notin handed
      <3> SUFFICES ASSUME f.msg \in handed
                   PROVE  FALSE
        OBVIOUS
      <3>1. PICK g \in frames : g.msg = f.msg
        BY <1>7
      <3>2. p.seq = q.seq
        BY <1>1, <1>3, <2>1, <3>1 DEF IInv, OneDatagram
      <3> QED
        BY <1>14, <3>2
    <2> QED
      BY <1>10, <2>2, <2>3, <2>4
  <1> QED
    BY <1>12, <1>16, <1>17, <1>18, <1>19, <1>20, <1>21 DEF IInv

(* Handling a datagram delivers as the channel may, or not at all.         *)
LEMMA HandleStep ==
    ASSUME IInv, NEW p \in net, Handle(p), net' \subseteq net
    PROVE  IInv' /\ [Channel!Next]_<<sent, delivered>>
  <1>1. CASE AcceptData(p)
    BY <1>1, Accepted DEF Channel!Next
  <1>2. CASE HandleAck(p) \/ HandleNak(p) \/ RejectData(p) \/ SkipData(p)
    BY <1>2, HandledQuietly
  <1> QED
    BY <1>1, <1>2 DEF Handle

(* A call of send() is one of the channel.                                 *)
LEMMA SendStep ==
    ASSUME IInv, Send
    PROVE  IInv' /\ Channel!Send
  <1>1. /\ sent < MaxMessages /\ sent' = sent + 1 /\ queue' = Append(queue, sent + 1)
        /\ UNCHANGED <<nextNum, resend, nextSeq, dgBase, dgBits, got, delivered, net>>
    BY DEF Send, receiverVars
  <1>2. Channel!Send
    BY <1>1 DEF Channel!Send
  <1>3. /\ sent \in Nat /\ sent' \in 1 .. MaxMessages /\ sent + 1 \in Messages
        /\ 1 .. sent \subseteq 1 .. sent' /\ sent + 1 \notin 1 .. sent /\ sent + 1 \in 1 .. sent'
    BY <1>1, TransportAssumption DEF IInv, Typed, Messages
  <1>4. queue \in Seq(Messages)
    BY DEF IInv, Typed
  <1>5. /\ queue' \in Seq(Messages) /\ DOMAIN queue' = DOMAIN queue \cup {Len(queue) + 1}
        /\ \A i \in DOMAIN queue : queue'[i] = queue[i]
        /\ queue'[Len(queue) + 1] = sent + 1
    BY <1>1, <1>3, <1>4, AppendProperties
  <1>6. Data' = Data /\ Known' = Known
    BY <1>1 DEF Data, Known
  <1>7. Typed'
    BY <1>1, <1>3, <1>5, <1>6 DEF IInv, Typed
  <1>8. \A f \in Known : f.msg \in 1 .. sent
    BY DEF IInv, Numbered
  <1>9. QueueFresh'
    <2>1. \A m \in Messages \ 1 .. sent' : delivered'[m] = 0
      BY <1>1, <1>3 DEF IInv, QueueFresh
    <2>2. \A i \in DOMAIN queue' : queue'[i] \in 1 .. sent' /\ delivered'[queue'[i]] = 0
      BY <1>1, <1>3, <1>5 DEF IInv, QueueFresh
    <2>3. \A i, j \in DOMAIN queue' : queue'[i] = queue'[j] => i = j
      BY <1>3, <1>5 DEF IInv, QueueFresh
    <2>4. \A i \in DOMAIN queue' : \A f \in Known' : f.msg # queue'[i]
      BY <1>3, <1>5, <1>6, <1>8 DEF IInv, QueueFresh
    <2> QED
      BY <2>1, <2>2, <2>3, <2>4 DEF QueueFresh
  <1>10. Numbered'
    BY <1>1, <1>3, <1>6 DEF IInv, Numbered
  <1>11. DeliveredByNumber' /\ OneDatagram'
    BY <1>1, <1>6 DEF IInv, DeliveredByNumber, OneDatagram
  <1>12. DeliveredByDatagram'
    BY <1>1, <1>6 DEF IInv, DeliveredByDatagram, Received
  <1> QED
    BY <1>2, <1>7, <1>9, <1>10, <1>11, <1>12 DEF IInv

(* Sending ACKs and NAKs delivers nothing.                                 *)
LEMMA ReceiverTickStep ==
    ASSUME IInv, ReceiverTick
    PROVE  IInv' /\ UNCHANGED <<sent, delivered>>
  <1>1. UNCHANGED <<sent, queue, nextNum, resend, nextSeq, dgBase, dgBits, got, delivered>>
    BY DEF ReceiverTick, senderVars
  <1>2. Data' \subseteq Data
    <2>1. PICK flush \in BOOLEAN :
            net' = net \cup (IF flush THEN Packets("ack", acks) ELSE {}) \cup Packets("nak", naks)
      BY DEF ReceiverTick
    <2>2. /\ \A p \in Packets("ack", acks) : p.type = "ack"
          /\ \A p \in Packets("nak", naks) : p.type = "nak"
      BY DEF Packets
    <2> QED
      BY <2>1, <2>2 DEF Data
  <1> QED
    BY <1>1, <1>2, SubsetKnown, FewerFrames

(* Nor does losing a datagram.                                             *)
LEMMA LoseStep ==
    ASSUME IInv, Lose
    PROVE  IInv' /\ UNCHANGED <<sent, delivered>>
  <1>1. /\ UNCHANGED <<sent, queue, nextNum, resend, nextSeq, dgBase, dgBits, got, delivered>>
        /\ net' \subseteq net
    BY DEF Lose, senderVars, receiverVars
  <1>2. Data' \subseteq Data
    BY <1>1 DEF Data
  <1> QED
    BY <1>1, <1>2, SubsetKnown, FewerFrames

----------------------------------------------------------------------------
(* The theorem.                                                            *)

(* The channel's first state.                                              *)
LEMMA Initially == Init => IInv /\ Channel!Init
  <1> SUFFICES ASSUME Init
               PROVE  IInv /\ Channel!Init
    OBVIOUS
  <1>1. Data = {} /\ Known = {} /\ DOMAIN queue = {} /\ DOMAIN resend = {}
    BY DEF Init, Data, Known
  <1>2. Typed
    BY <1>1, TransportAssumption DEF Init, Typed, Messages
  <1>3. Channel!Init
    BY DEF Init, Channel!Init, Messages
  <1>4. \A m \in Messages : delivered[m] = 0
    BY DEF Init
  <1> QED
    BY <1>1, <1>2, <1>3, <1>4 DEF IInv, QueueFresh, Numbered, DeliveredByNumber, OneDatagram,
                            DeliveredByDatagram

(* Every step is one of the channel or none.                               *)
LEMMA NextStep ==
    ASSUME IInv, [Next]_vars
    PROVE  IInv' /\ [Channel!Next]_<<sent, delivered>>
  <1>1. CASE Send
    BY <1>1, SendStep DEF Channel!Next
  <1>2. CASE SenderTick
    BY <1>2, TickStep
  <1>3. CASE ReceiverTick
    BY <1>3, ReceiverTickStep
  <1>4. CASE Receive
    <2>1. PICK p \in net : Handle(p) /\ net' = net \ {p}
      BY <1>4 DEF Receive
    <2> QED
      BY <2>1, HandleStep
  <1>5. CASE Duplicate
    <2>1. PICK p \in net : Handle(p) /\ net' = net
      BY <1>5 DEF Duplicate
    <2> QED
      BY <2>1, HandleStep
  <1>6. CASE Lose
    BY <1>6, LoseStep
  <1>7. CASE UNCHANGED vars
    <2>1. UNCHANGED <<sent, queue, nextNum, resend, nextSeq, dgBase, dgBits, got, delivered, net>>
      BY <1>7 DEF vars, senderVars, receiverVars
    <2>2. Data' = Data
      BY <2>1 DEF Data
    <2> QED
      BY <2>1, <2>2, SubsetKnown, FewerFrames
  <1> QED
    BY <1>1, <1>2, <1>3, <1>4, <1>5, <1>6, <1>7 DEF Next

(* Whatever the network loses, repeats or reorders, whatever is sent again *)
(* and whichever records are dropped: a message is handed over only if it  *)
(* was sent, and at most once, whichever its reliability.                  *)
THEOREM TransportImplementsChannel == Spec => ImplementsChannel
  <1>1. Init => IInv /\ Channel!Init
    BY Initially
  <1>2. IInv /\ [Next]_vars => IInv' /\ [Channel!Next]_<<sent, delivered>>
    BY NextStep
  <1> QED
    BY <1>1, <1>2, PTL DEF Spec, ImplementsChannel, Channel!Spec, Channel!vars

----------------------------------------------------------------------------
(* The books: what the sender records and what ACKs and NAKs list.         *)

(* An ACK or NAK, or what is noted for the next, lists used numbers only.  *)
Lawful(q) == q \in Lists /\ Covered(q) \subseteq 0 .. nextSeq - 1

Listed ==
    /\ Lawful(acks) /\ Lawful(naks)
    /\ \A p \in net : \/ p.type = "data"
                      \/ p.type \in {"ack", "nak"} /\ Lawful(p.ranges)

Truthful ==
    /\ Covered(acks) \subseteq arrived
    /\ \A p \in net : p.type = "ack" => Covered(p.ranges) \subseteq arrived

Records ==
    /\ IsFiniteSet(DOMAIN history)
    /\ \A s \in DOMAIN history :
          /\ s \in 0 .. nextSeq - 1
          /\ history[s].nums \subseteq 0 .. nextNum - 1 /\ history[s].size \in Nat
    /\ unacked = Sizes(history, DOMAIN history)

(* The messages that the sender or the receiver gave up.                   *)
Given == obscured \cup untracked \cup refused

Shapes ==
    /\ \A n \in DOMAIN resend : resend[n] \in [msg : Messages, naked : BOOLEAN]
    /\ expected \in Nat /\ ackTimer \in BOOLEAN /\ faults \in 0 .. MaxFaults
    /\ Given \subseteq 1 .. sent /\ dgBits \subseteq 0 .. nextSeq - 1
    /\ arrived \subseteq 0 .. nextSeq - 1 /\ \A s \in arrived : s < expected

Books == Listed /\ Truthful /\ Records /\ Shapes

(* The books are what the properties ask for.                              *)
LEMMA BooksSay ==
    ASSUME IInv, Books
    PROVE  TypeOK /\ AcksTruthful /\ UnackedAccounting
  <1>1. unacked \in Nat
    BY SizesOf DEF Books, Records
  <1>2. \A q : Lawful(q) => Canonical(q) /\ Covered(q) \subseteq 0 .. nextSeq - 1
    BY DEF Lawful, Lists
  <1>3. /\ sent \in 0 .. MaxMessages /\ queue \in Seq(Messages)
        /\ nextNum \in Nat /\ nextSeq \in Nat
        /\ \A n \in DOMAIN resend :
              n \in 0 .. nextNum - 1 /\ resend[n] \in [msg : Messages, naked : BOOLEAN]
    BY DEF IInv, Typed, Books, Shapes
  <1>4. /\ \A s \in DOMAIN history :
              /\ s \in 0 .. nextSeq - 1
              /\ history[s].nums \subseteq 0 .. nextNum - 1 /\ history[s].size \in Nat
        /\ expected \in Nat /\ ackTimer \in BOOLEAN /\ faults \in 0 .. MaxFaults
        /\ obscured \cup untracked \cup refused \subseteq 1 .. sent
        /\ dgBits \subseteq 0 .. nextSeq - 1 /\ arrived \subseteq 0 .. nextSeq - 1
    BY DEF Books, Records, Shapes, Given
  <1>5. Covered(acks) \cup Covered(naks) \subseteq 0 .. nextSeq - 1
    BY <1>2 DEF Books, Listed
  <1>6. \A p \in net :
          \/ p.type = "data" /\ p.seq \in 0 .. nextSeq - 1 /\ p.frames \in Seq(Frame)
          \/ p.type \in {"ack", "nak"} /\ Covered(p.ranges) \subseteq 0 .. nextSeq - 1
    <2> SUFFICES ASSUME NEW p \in net
                 PROVE  \/ p.type = "data" /\ p.seq \in 0 .. nextSeq - 1 /\ p.frames \in Seq(Frame)
                        \/ p.type \in {"ack", "nak"} /\ Covered(p.ranges) \subseteq 0 .. nextSeq - 1
      OBVIOUS
    <2>1. CASE p.type = "data"
      BY <2>1 DEF IInv, Typed, Data
    <2>2. CASE p.type \in {"ack", "nak"} /\ Lawful(p.ranges)
      BY <1>2, <2>2
    <2> QED
      BY <2>1, <2>2 DEF Books, Listed
  <1>7. dgBase \in Nat /\ got \subseteq 0 .. nextNum - 1
    BY DEF IInv, Typed
  <1>8. delivered \in [Messages -> Nat]
    <2>1. delivered \in [Messages -> {0, 1}]
      BY DEF IInv, Typed
    <2> QED
      BY <2>1
  <1>9. TypeOK
    BY <1>1, <1>3, <1>4, <1>5, <1>6, <1>7, <1>8 DEF TypeOK
  <1>10. AcksTruthful
    <2>1. \A p \in net : p.type \in {"ack", "nak"} => Lawful(p.ranges)
      BY DEF Books, Listed
    <2> QED
      BY <1>2, <2>1 DEF AcksTruthful, Books, Listed, Truthful
  <1> QED
    BY <1>9, <1>10 DEF UnackedAccounting, Books, Records

(* Used numbers stay used when more are.                                   *)
LEMMA FirstNumbers ==
    ASSUME NEW a \in Nat, NEW b \in Nat, a <= b
    PROVE  0 .. a - 1 \subseteq 0 .. b - 1
  OBVIOUS

(* What a used number is stays one.                                        *)
LEMMA LawfulStays ==
    ASSUME nextSeq \in Nat, nextSeq' \in Nat, nextSeq <= nextSeq'
    PROVE  \A q : Lawful(q) => q \in Lists /\ Covered(q) \subseteq 0 .. nextSeq' - 1
  BY DEF Lawful

----------------------------------------------------------------------------
(* The sender's books.                                                     *)

(* Records that are taken out of the history, and their bytes.             *)
LEMMA RecordsLess ==
    ASSUME Records, NEW S \in SUBSET DOMAIN history,
           history' = Restrict(history, DOMAIN history \ S),
           unacked' = unacked - Sizes(history, S),
           nextSeq' = nextSeq, nextNum' = nextNum
    PROVE  Records'
  <1> DEFINE D == DOMAIN history \ S
  <1>1. history' = [s \in D |-> history[s]]
    BY DEF Restrict
  <1>2. IsFiniteSet(S) /\ IsFiniteSet(D) /\ S \cup D = DOMAIN history /\ S \cap D = {}
    BY FS_Subset, FS_Difference DEF Records
  <1>3. DOMAIN history' = D /\ \A s \in D : history'[s] = history[s]
    BY <1>1
  <1>4. \A s \in S \cup D : history[s].size \in Nat
    BY <1>2 DEF Records
  <1> HIDE DEF D
  <1>5. Sizes(history, S \cup D) = Sizes(history, S) + Sizes(history, D)
    BY <1>2, <1>4, SizesUnion
  <1>6. Sizes(history, D) = Sizes(history', D)
    <2>1. SameSizes(history, history', D)
      BY <1>3, <1>4 DEF SameSizes
    <2> QED
      BY <1>2, <2>1, SizesSame
  <1>7. Sizes(history, S) \in Nat /\ Sizes(history, D) \in Nat
    BY <1>2, <1>4, SizesOf
  <1>8. unacked' = Sizes(history', DOMAIN history')
    <2>1. unacked = Sizes(history, S \cup D)
      BY <1>2 DEF Records
    <2> QED
      BY <1>3, <1>5, <1>6, <1>7, <2>1
  <1>9. \A s \in D : /\ s \in 0 .. nextSeq - 1
                     /\ history[s].nums \subseteq 0 .. nextNum - 1 /\ history[s].size \in Nat
    BY <1>2 DEF Records
  <1> QED
    BY <1>2, <1>3, <1>8, <1>9 DEF Records

(* Old records, without stale ones, and new ones; of these the newest are  *)
(* kept.                                                                   *)
LEMMA RecordsMore ==
    ASSUME Records, NEW stale \in SUBSET DOMAIN history, NEW K \in Nat, NEW made, NEW recorded,
           nextSeq \in Nat, nextNum \in Nat, nextSeq' = nextSeq + K, nextNum' \in Nat,
           nextNum <= nextNum',
           recorded = [s \in (DOMAIN history \ stale) \cup (nextSeq .. nextSeq + K - 1) |->
                          IF s < nextSeq THEN history[s] ELSE made[s - nextSeq + 1]],
           \A i \in 1 .. K : made[i].nums \subseteq 0 .. nextNum' - 1 /\ made[i].size \in Nat,
           NEW kept \in SUBSET DOMAIN recorded,
           history' = Restrict(recorded, kept),
           unacked' = unacked - Sizes(history, stale)
                        + Sizes(recorded, nextSeq .. nextSeq + K - 1)
                        - Sizes(recorded, DOMAIN recorded \ kept)
    PROVE  Records'
  <1> DEFINE O == DOMAIN history \ stale
             N == nextSeq .. nextSeq + K - 1
             out == DOMAIN recorded \ kept
  <1>1. /\ IsFiniteSet(DOMAIN history) /\ unacked = Sizes(history, DOMAIN history)
        /\ \A s \in DOMAIN history :
              /\ s \in 0 .. nextSeq - 1
              /\ history[s].nums \subseteq 0 .. nextNum - 1 /\ history[s].size \in Nat
    BY DEF Records
  <1>2. DOMAIN recorded = O \cup N
    OBVIOUS
  <1>3. \A s \in O : recorded[s] = history[s] /\ s < nextSeq /\ s \in 0 .. nextSeq - 1
    BY <1>1
  <1>4. \A s \in N : recorded[s] = made[s - nextSeq + 1] /\ s - nextSeq + 1 \in 1 .. K
    <2>1. \A s \in N : ~(s < nextSeq) /\ s - nextSeq + 1 \in 1 .. K
      OBVIOUS
    <2> QED
      BY <2>1
  <1>5. \A s \in O \cup N :
           /\ s \in 0 .. nextSeq' - 1
           /\ recorded[s].nums \subseteq 0 .. nextNum' - 1 /\ recorded[s].size \in Nat
    <2>1. ASSUME NEW s \in O
          PROVE  /\ s \in 0 .. nextSeq' - 1
                 /\ recorded[s].nums \subseteq 0 .. nextNum' - 1 /\ recorded[s].size \in Nat
      <3>1. 0 .. nextNum - 1 \subseteq 0 .. nextNum' - 1 /\ 0 .. nextSeq - 1 \subseteq 0 .. nextSeq' - 1
        <4>1. nextSeq' \in Nat /\ nextSeq <= nextSeq'
          OBVIOUS
        <4>2. 0 .. nextSeq - 1 \subseteq 0 .. nextSeq' - 1
          BY <4>1, FirstNumbers
        <4>3. 0 .. nextNum - 1 \subseteq 0 .. nextNum' - 1
          BY FirstNumbers
        <4> QED
          BY <4>2, <4>3
      <3>2. history[s].nums \subseteq 0 .. nextNum - 1 /\ history[s].size \in Nat
        BY <1>1
      <3> QED
        BY <1>3, <3>1, <3>2
    <2>2. ASSUME NEW s \in N
          PROVE  /\ s \in 0 .. nextSeq' - 1
                 /\ recorded[s].nums \subseteq 0 .. nextNum' - 1 /\ recorded[s].size \in Nat
      <3>1. s \in 0 .. nextSeq' - 1
        OBVIOUS
      <3> QED
        BY <1>4, <3>1
    <2> QED
      BY <2>1, <2>2
  <1>6. /\ IsFiniteSet(stale) /\ IsFiniteSet(O) /\ IsFiniteSet(N)
        /\ stale \cup O = DOMAIN history /\ stale \cap O = {} /\ O \cap N = {}
    <2>1. \A s \in N : ~(s < nextSeq)
      OBVIOUS
    <2>2. O \cap N = {}
      BY <1>3, <2>1
    <2>3. IsFiniteSet(stale) /\ IsFiniteSet(O)
      BY <1>1, FS_Subset, FS_Difference
    <2>4. IsFiniteSet(N)
      BY FS_Interval
    <2>5. stale \cup O = DOMAIN history /\ stale \cap O = {}
      OBVIOUS
    <2> HIDE DEF O, N
    <2> QED
      BY <2>2, <2>3, <2>4, <2>5
  <1>7. IsFiniteSet(O \cup N) /\ kept \subseteq O \cup N
    BY <1>2, <1>6, FS_Union
  <1>8. /\ IsFiniteSet(kept) /\ IsFiniteSet(out)
        /\ kept \cup out = O \cup N /\ kept \cap out = {}
    BY <1>2, <1>7, FS_Subset, FS_Difference
  <1> HIDE DEF O, N, out
  <1>9. Sizes(history, stale \cup O) = Sizes(history, stale) + Sizes(history, O)
    <2>1. \A s \in stale \cup O : history[s].size \in Nat
      BY <1>1, <1>6
    <2> QED
      BY <1>6, <2>1, SizesUnion
  <1>10. Sizes(history, O) = Sizes(recorded, O)
    <2>1. SameSizes(history, recorded, O)
      BY <1>1, <1>3, <1>6 DEF SameSizes
    <2> QED
      BY <1>6, <2>1, SizesSame
  <1>11. Sizes(recorded, O \cup N) = Sizes(recorded, O) + Sizes(recorded, N)
    BY <1>5, <1>6, SizesUnion
  <1>12. Sizes(recorded, kept \cup out) = Sizes(recorded, kept) + Sizes(recorded, out)
    <2>1. \A s \in kept \cup out : recorded[s].size \in Nat
      BY <1>5, <1>8
    <2> QED
      BY <1>8, <2>1, SizesUnion
  <1>13. DOMAIN history' = kept /\ \A s \in kept : history'[s] = recorded[s]
    BY DEF Restrict
  <1>14. Sizes(recorded, kept) = Sizes(history', kept)
    <2>1. SameSizes(recorded, history', kept)
      BY <1>5, <1>7, <1>13 DEF SameSizes
    <2> QED
      BY <1>8, <2>1, SizesSame
  <1>15. /\ Sizes(history, stale) \in Nat /\ Sizes(history, O) \in Nat
         /\ Sizes(recorded, N) \in Nat /\ Sizes(recorded, kept) \in Nat
         /\ Sizes(recorded, out) \in Nat
    <2>1. \A s \in stale : history[s].size \in Nat
      BY <1>1
    <2>2. \A s \in O : history[s].size \in Nat
      BY <1>1, <1>6
    <2>3. \A s \in N : recorded[s].size \in Nat
      BY <1>5
    <2>4. \A s \in kept \cup out : recorded[s].size \in Nat
      BY <1>5, <1>8
    <2> QED
      BY <1>6, <1>8, <2>1, <2>2, <2>3, <2>4, SizesOf
  <1>16. unacked' = Sizes(history', DOMAIN history')
    <2>1. unacked = Sizes(history, stale \cup O)
      BY <1>1, <1>6
    <2>2. unacked' = unacked - Sizes(history, stale) + Sizes(recorded, N) - Sizes(recorded, out)
      BY DEF N, out
    <2>3. Sizes(recorded, kept \cup out) = Sizes(recorded, O \cup N)
      BY <1>8
    <2> QED
      BY <1>9, <1>10, <1>11, <1>12, <1>13, <1>14, <1>15, <2>1, <2>2, <2>3
  <1>17. \A s \in kept : /\ s \in 0 .. nextSeq' - 1
                         /\ history'[s].nums \subseteq 0 .. nextNum' - 1 /\ history'[s].size \in Nat
    BY <1>5, <1>7, <1>13
  <1> QED
    BY <1>8, <1>13, <1>16, <1>17 DEF Records

(* What an update packs, as far as the books go.                           *)
LEMMA PackedBooks ==
    ASSUME IInv, IInv', Records, NEW resent \in Seq(Frame), NEW fresh \in Seq(Frame),
           NEW stale \in StaleSets, Pack(resent, fresh, stale), nextNum <= nextNum'
    PROVE  /\ Records' /\ nextSeq <= nextSeq'
           /\ obscured \subseteq 1 .. sent' => obscured' \subseteq 1 .. sent'
           /\ \A p \in net' : p \in net \/ p.type = "data"
           /\ net \subseteq net'
  <1> DEFINE packed == Chunks(resent) \o Chunks(fresh)
             K == Len(packed)
             datagrams == [i \in 1 .. K |-> [type |-> "data", seq |-> nextSeq + i - 1,
                                             frames |-> packed[i]]]
             recorded == [s \in (DOMAIN history \ stale) \cup (nextSeq .. nextSeq + K - 1) |->
                             IF s < nextSeq THEN history[s]
                             ELSE [nums |-> NumsOf(packed[s - nextSeq + 1]),
                                   size |-> Len(packed[s - nextSeq + 1])]]
             kept == Newest(DOMAIN recorded)
  <1>1. /\ net' = net \cup Range(datagrams)
        /\ nextSeq' = nextSeq + K
        /\ history' = Restrict(recorded, kept)
        /\ unacked' = unacked - Sizes(history, stale)
                        + Sizes(recorded, nextSeq .. nextSeq + K - 1)
                        - Sizes(recorded, DOMAIN recorded \ kept)
        /\ obscured' = obscured \cup
              {f.msg : f \in UNION {Range(d) \ Range(Decoded(d)) : d \in Range(packed)}}
    BY DEF Pack
  <1>2. /\ Chunks(resent) \in Seq(Seq(Frame)) /\ Chunks(fresh) \in Seq(Seq(Frame))
    <2>1. ASSUME NEW s \in Seq(Frame) PROVE Chunks(s) \in Seq(Seq(Frame))
      <3>1. /\ Len(Chunks(s)) \in Nat /\ DOMAIN Chunks(s) = 1 .. Len(Chunks(s))
            /\ \A c \in DOMAIN Chunks(s) : Chunks(s)[c] \in Seq(Frame)
        BY ChunkOf
      <3>2. Chunks(s) = [c \in 1 .. Len(Chunks(s)) |-> Chunks(s)[c]]
        BY <3>1 DEF Chunks
      <3> QED
        BY <3>1, <3>2
    <2> QED
      BY <2>1
  <1>3. packed \in Seq(Seq(Frame)) /\ K \in Nat /\ DOMAIN packed = 1 .. K
    BY <1>2, ConcatProperties
  <1>4. /\ nextSeq \in Nat /\ nextNum \in Nat /\ nextNum' \in Nat
    BY DEF IInv, Typed
  <1>5. \A c \in 1 .. K : packed[c] \in Seq(Frame) /\ Len(packed[c]) \in Nat
    BY <1>3
  <1> HIDE DEF packed, K
  <1>6. ASSUME NEW c \in 1 .. K, NEW f \in Range(packed[c])
        PROVE  f.msg \in 1 .. sent' /\ (f.num # NoNum => f.num \in 0 .. nextNum' - 1)
    <2>1. datagrams[c] \in net' /\ datagrams[c].type = "data" /\ datagrams[c].frames = packed[c]
      BY <1>1 DEF Range
    <2>2. f \in Known'
      <3> HIDE DEF datagrams
      <3> QED
        BY <2>1, KnownFrames DEF Data
    <2> QED
      BY <2>2 DEF IInv, Numbered
  <1>7. Records'
    <2> DEFINE made == [c \in 1 .. K |-> [nums |-> NumsOf(packed[c]), size |-> Len(packed[c])]]
    <2>1. \A c \in 1 .. K : made[c].nums \subseteq 0 .. nextNum' - 1 /\ made[c].size \in Nat
      BY <1>5, <1>6 DEF NumsOf
    <2>2. recorded = [s \in (DOMAIN history \ stale) \cup (nextSeq .. nextSeq + K - 1) |->
                         IF s < nextSeq THEN history[s] ELSE made[s - nextSeq + 1]]
      <3> SUFFICES ASSUME NEW s \in (DOMAIN history \ stale) \cup (nextSeq .. nextSeq + K - 1),
                          ~(s < nextSeq)
                   PROVE  s - nextSeq + 1 \in 1 .. K
        OBVIOUS
      <3> QED
        BY <1>3, <1>4 DEF Records
    <2>3. stale \in SUBSET DOMAIN history
      BY DEF StaleSets
    <2>4. kept \in SUBSET DOMAIN recorded
      BY DEF Newest
    <2> HIDE DEF recorded, kept, made
    <2> QED
      BY <1>1, <1>3, <1>4, <2>1, <2>2, <2>3, <2>4, RecordsMore
  <1>8. ASSUME obscured \subseteq 1 .. sent'
        PROVE  obscured' \subseteq 1 .. sent'
    <2>1. \A d \in Range(packed) : \A f \in Range(d) : f.msg \in 1 .. sent'
      BY <1>3, <1>6 DEF Range
    <2> QED
      BY <1>1, <1>8, <2>1
  <1>9. \A p \in Range(datagrams) : p.type = "data"
    BY DEF Range
  <1> HIDE DEF datagrams
  <1> QED
    BY <1>1, <1>3, <1>4, <1>7, <1>8, <1>9

(* What an update takes from the queue: the first messages, whose frames   *)
(* get the next numbers; it resends only what is known.                    *)
Takes(resent, fresh, stale, taken) ==
    /\ Pack(resent, fresh, stale)
    /\ \A f \in Range(resent) : f \in Known
    /\ DOMAIN fresh = 1 .. taken
    /\ \A i \in 1 .. taken :
          /\ i \in DOMAIN queue /\ fresh[i].msg = queue[i]
          /\ IF queue[i] \in Unreliable THEN fresh[i].num = NoNum
             ELSE fresh[i].num \in nextNum .. nextNum' - 1
    /\ \A i, j \in 1 .. taken :
          fresh[i].num # NoNum /\ fresh[i].num = fresh[j].num => i = j
    /\ nextNum <= nextNum' /\ nextNum' <= nextNum + taken
    /\ Len(queue') = Len(queue) - taken
    /\ \A i \in DOMAIN queue : i > taken =>
          i - taken \in DOMAIN queue' /\ queue'[i - taken] = queue[i]
    /\ UNCHANGED <<sent, receiverVars, faults>>

(* Not more numbers than messages. *)
LEMMA NumbersFew ==
    ASSUME NEW k \in Nat, NEW fs, DOMAIN fs = 1 .. k
    PROVE  IsFiniteSet(NumsOf(fs)) /\ Cardinality(NumsOf(fs)) <= k
  <1> DEFINE g == [i \in 1 .. k |-> fs[i].num]
             R == {fs[i].num : i \in 1 .. k}
  <1>1. IsFiniteSet(1 .. k) /\ Cardinality(1 .. k) = k
    BY FS_Interval
  <1>2. g \in Surjection(1 .. k, R)
    BY DEF Surjection
  <1>3. IsFiniteSet(R) /\ Cardinality(R) <= k
    <2> HIDE DEF g, R
    <2> QED
      BY <1>1, <1>2, FS_Surjection
  <1>4. NumsOf(fs) \subseteq R
    BY DEF NumsOf, Range
  <1> HIDE DEF R
  <1>5. IsFiniteSet(NumsOf(fs)) /\ Cardinality(NumsOf(fs)) <= Cardinality(R)
    BY <1>3, <1>4, FS_Subset
  <1>6. Cardinality(NumsOf(fs)) \in Nat /\ Cardinality(R) \in Nat
    BY <1>3, <1>5, FS_CardinalityType
  <1> QED
    BY <1>3, <1>5, <1>6

(* So does every update.                                                   *)
LEMMA TickTakes ==
    ASSUME IInv, SenderTick
    PROVE  \E resent \in Seq(Frame), fresh \in Seq(Frame), stale \in StaleSets,
              taken \in 0 .. Len(queue) : Takes(resent, fresh, stale, taken)
  <1>1. PICK due \in DueSets, stale \in StaleSets : \E order \in Ascending(due) :
        \E chunks \in (IF queue = << >> THEN {0} ELSE 1 .. Len(Chunks(queue))) :
            /\ LET taken == MinOf(chunks * FramesPerDatagram, Len(queue))
                   resent == [i \in DOMAIN order |->
                                 [msg |-> resend[order[i]].msg, num |-> order[i]]]
               IN  /\ Pack(resent, NewFrames(SubSeq(queue, 1, taken)), stale)
                   /\ queue' = SubSeq(queue, taken + 1, Len(queue))
            /\ UNCHANGED <<sent, receiverVars, faults>>
    BY DEF SenderTick
  <1>2. PICK order \in Ascending(due),
             chunks \in (IF queue = << >> THEN {0} ELSE 1 .. Len(Chunks(queue))) :
            /\ LET taken == MinOf(chunks * FramesPerDatagram, Len(queue))
                   resent == [i \in DOMAIN order |->
                                 [msg |-> resend[order[i]].msg, num |-> order[i]]]
               IN  /\ Pack(resent, NewFrames(SubSeq(queue, 1, taken)), stale)
                   /\ queue' = SubSeq(queue, taken + 1, Len(queue))
            /\ UNCHANGED <<sent, receiverVars, faults>>
    BY <1>1
  <1> DEFINE taken == MinOf(chunks * FramesPerDatagram, Len(queue))
             ms == SubSeq(queue, 1, taken)
             resent == [i \in DOMAIN order |-> [msg |-> resend[order[i]].msg, num |-> order[i]]]
  <1>3. /\ Pack(resent, NewFrames(ms), stale)
        /\ queue' = SubSeq(queue, taken + 1, Len(queue))
        /\ UNCHANGED <<sent, receiverVars, faults>>
    BY <1>2
  <1>4. due \subseteq DOMAIN resend
    BY DEF DueSets
  <1>5. resent \in Seq(Frame) /\ \A f \in Range(resent) : f \in Known
    BY <1>4, Resent
  <1>6. /\ taken \in 0 .. Len(queue) /\ Len(queue) \in Nat
        /\ ms \in Seq(Messages) /\ DOMAIN ms = 1 .. taken
        /\ \A i \in 1 .. taken : ms[i] = queue[i] /\ i \in DOMAIN queue
        /\ queue' \in Seq(Messages) /\ DOMAIN queue' = 1 .. Len(queue) - taken
        /\ \A i \in DOMAIN queue' : queue'[i] = queue[taken + i] /\ taken + i \in DOMAIN queue
    BY <1>3, Taken DEF IInv
  <1>7. nextNum \in Nat /\ queue \in Seq(Messages)
    BY DEF IInv, Typed
  <1> HIDE DEF taken, ms, resent
  <1> DEFINE fresh == NewFrames(ms)
  <1>8. Pack(resent, fresh, stale)
    BY <1>3
  <1>20. fresh = NewFrames(ms) /\ ms \in Seq(Messages) /\ nextNum \in Nat
    BY <1>6, <1>7
  <1> HIDE DEF fresh
  <1> DEFINE number == Cardinality(NumsOf(fresh))
  <1>9. /\ fresh \in Seq(Frame) /\ DOMAIN fresh = DOMAIN ms /\ number \in Nat
        /\ \A i \in DOMAIN ms :
              /\ fresh[i].msg = ms[i]
              /\ IF ms[i] \in Unreliable THEN fresh[i].num = NoNum
                 ELSE fresh[i].num \in nextNum .. nextNum + number - 1
        /\ \A i, j \in DOMAIN ms :
              ms[i] \notin Unreliable /\ ms[j] \notin Unreliable /\ fresh[i].num = fresh[j].num
                 => i = j
    BY <1>20, NewNumbers
  <1>10. nextNum' = nextNum + number
    BY <1>8 DEF Pack
  <1>11. number <= taken
    BY <1>6, <1>9, NumbersFew
  <1> HIDE DEF number
  <1>12. \A i \in 1 .. taken :
            /\ i \in DOMAIN queue /\ fresh[i].msg = queue[i]
            /\ IF queue[i] \in Unreliable THEN fresh[i].num = NoNum
               ELSE fresh[i].num \in nextNum .. nextNum' - 1
    <2>1. DOMAIN ms = 1 .. taken /\ \A i \in 1 .. taken : ms[i] = queue[i] /\ i \in DOMAIN queue
      BY <1>6
    <2> SUFFICES ASSUME NEW i \in 1 .. taken
                 PROVE  /\ fresh[i].msg = queue[i]
                        /\ IF queue[i] \in Unreliable THEN fresh[i].num = NoNum
                           ELSE fresh[i].num \in nextNum .. nextNum' - 1
      BY <2>1
    <2>2. /\ fresh[i].msg = ms[i]
          /\ IF ms[i] \in Unreliable THEN fresh[i].num = NoNum
             ELSE fresh[i].num \in nextNum .. nextNum + number - 1
      BY <1>9, <2>1
    <2>3. ms[i] = queue[i]
      BY <2>1
    <2>4. nextNum' - 1 = nextNum + number - 1
      BY <1>7, <1>9, <1>10
    <2> QED
      BY <2>2, <2>3, <2>4
  <1>13. \A i, j \in 1 .. taken :
            fresh[i].num # NoNum /\ fresh[i].num = fresh[j].num => i = j
    BY <1>6, <1>9
  <1>14. Len(queue') = Len(queue) - taken
    BY <1>6
  <1>15. ASSUME NEW i \in DOMAIN queue, i > taken
         PROVE  i - taken \in DOMAIN queue' /\ queue'[i - taken] = queue[i]
    <2>1. i \in 1 .. Len(queue)
      BY <1>7
    <2>2. i - taken \in 1 .. Len(queue) - taken /\ taken + (i - taken) = i
      BY <1>6, <1>15, <2>1
    <2> QED
      BY <1>6, <2>2
  <1>16. nextNum <= nextNum' /\ nextNum' <= nextNum + taken
    BY <1>6, <1>7, <1>9, <1>10, <1>11
  <1>17. Takes(resent, fresh, stale, taken)
    BY <1>3, <1>5, <1>6, <1>8, <1>9, <1>12, <1>13, <1>14, <1>15, <1>16 DEF Takes
  <1> QED
    BY <1>5, <1>6, <1>9, <1>17

(* The resend buffer keeps its shape: what it held may no longer be naked. *)
LEMMA PackedShape ==
    ASSUME IInv, IInv', Shapes, NEW resent, NEW fresh, NEW stale, Pack(resent, fresh, stale)
    PROVE  \A n \in DOMAIN resend' : resend'[n] \in [msg : Messages, naked : BOOLEAN]
  <1> DEFINE newNums == NumsOf(fresh)
             tracked == {n \in newNums :
                           Cardinality(DOMAIN resend) + (n - nextNum) < MaxResend}
             new(n) == [msg |-> (CHOOSE f \in Range(fresh) : f.num = n).msg, naked |-> FALSE]
             old(n) == [resend[n] EXCEPT !.naked = @ /\ n \notin NumsOf(resent)]
  <1>1. resend' = [n \in DOMAIN resend \cup tracked |-> IF n \in newNums THEN new(n) ELSE old(n)]
    BY DEF Pack
  <1> SUFFICES ASSUME NEW n \in DOMAIN resend'
               PROVE  resend'[n] \in [msg : Messages, naked : BOOLEAN]
    OBVIOUS
  <1>2. resend'[n].msg \in Messages
    BY DEF IInv, Typed
  <1>3. CASE n \in newNums
    <2>1. resend'[n] = new(n)
      BY <1>1, <1>3
    <2> QED
      BY <1>2, <2>1
  <1>4. CASE n \notin newNums
    <2>1. n \in DOMAIN resend /\ resend'[n] = old(n)
      BY <1>1, <1>4
    <2>2. resend[n] \in [msg : Messages, naked : BOOLEAN]
      BY <2>1 DEF Shapes
    <2> QED
      BY <2>1, <2>2
  <1> QED
    BY <1>3, <1>4

(* An update records what it packs.                                        *)
LEMMA TickBooks ==
    ASSUME IInv, IInv', Books, SenderTick
    PROVE  Books'
  <1>1. PICK resent \in Seq(Frame), fresh \in Seq(Frame), stale \in StaleSets,
             taken \in 0 .. Len(queue) :
            /\ Pack(resent, fresh, stale) /\ nextNum <= nextNum'
            /\ DOMAIN fresh = 1 .. taken
            /\ \A i \in 1 .. taken : i \in DOMAIN queue /\ fresh[i].msg = queue[i]
            /\ UNCHANGED <<sent, receiverVars, faults>>
    BY TickTakes DEF Takes
  <1>2. UNCHANGED <<sent, expected, ackTimer, acks, naks, dgBits, arrived, refused, faults>>
    BY <1>1 DEF receiverVars
  <1>9. Given' \subseteq 1 .. sent'
    <2>1. obscured' \subseteq 1 .. sent'
      BY <1>1, <1>2, PackedBooks DEF Books, Shapes, Given
    <2>2. \A m \in untracked' : m \in untracked \/ \E f \in Range(fresh) : m = f.msg
      BY <1>1 DEF Pack
    <2>3. \A f \in Range(fresh) : f.msg \in 1 .. sent
      BY <1>1 DEF Range, IInv, QueueFresh
    <2>4. untracked \subseteq 1 .. sent /\ refused \subseteq 1 .. sent
      BY DEF Books, Shapes, Given
    <2>5. untracked' \subseteq 1 .. sent
      BY <2>2, <2>3, <2>4
    <2> QED
      BY <1>2, <2>1, <2>4, <2>5 DEF Given
  <1>3. /\ Records' /\ nextSeq <= nextSeq'
        /\ \A p \in net' : p \in net \/ p.type = "data"
    BY <1>1, <1>2, PackedBooks DEF Books
  <1>4. nextSeq \in Nat /\ nextSeq' \in Nat
    BY DEF IInv, Typed
  <1>5. \A q : Lawful(q) => q \in Lists /\ Covered(q) \subseteq 0 .. nextSeq' - 1
    BY <1>3, <1>4, LawfulStays
  <1>6. Listed'
    <2>1. \A p \in net' :
            \/ p.type = "data"
            \/ /\ p.type \in {"ack", "nak"} /\ p.ranges \in Lists
               /\ Covered(p.ranges) \subseteq 0 .. nextSeq' - 1
      BY <1>3, <1>5 DEF Books, Listed
    <2> QED
      BY <1>2, <1>5, <2>1 DEF Books, Listed, Lawful
  <1>7. Truthful'
    BY <1>2, <1>3 DEF Books, Truthful
  <1>8. Shapes'
    <2>1. \A n \in DOMAIN resend' : resend'[n] \in [msg : Messages, naked : BOOLEAN]
      BY <1>1, PackedShape DEF Books
    <2>2. 0 .. nextSeq - 1 \subseteq 0 .. nextSeq' - 1
      BY <1>3, <1>4, FirstNumbers
    <2> QED
      BY <1>2, <1>9, <2>1, <2>2 DEF Books, Shapes
  <1> QED
    BY <1>3, <1>6, <1>7, <1>8 DEF Books

(* What the receiver of an ACK or NAK does to the books: no new packet and *)
(* nothing noted.                                                          *)
LEMMA QuietNet ==
    ASSUME Books, net' \subseteq net, UNCHANGED <<acks, naks, nextSeq, arrived>>
    PROVE  Listed' /\ Truthful'
  <1>1. \A p \in net' : \/ p.type = "data"
                        \/ p.type \in {"ack", "nak"} /\ Lawful(p.ranges)
    BY DEF Books, Listed
  <1>2. Listed'
    BY <1>1 DEF Books, Listed, Lawful
  <1>3. \A p \in net' : p.type = "ack" => Covered(p.ranges) \subseteq arrived
    BY DEF Books, Truthful
  <1>4. Truthful'
    BY <1>3 DEF Books, Truthful
  <1> QED
    BY <1>2, <1>4

(* An ACK takes the records of its datagrams, and their bytes, out.        *)
LEMMA HandleAckBooks ==
    ASSUME IInv, Books, NEW p, HandleAck(p), net' \subseteq net, faults' \in 0 .. MaxFaults
    PROVE  Books'
  <1> DEFINE found == Considered(Covered(p.ranges)) \cap DOMAIN history
             left == DOMAIN resend \ UNION {history[s].nums : s \in found}
  <1>1. /\ history' = Restrict(history, DOMAIN history \ found)
        /\ unacked' = unacked - Sizes(history, found)
        /\ resend' = Restrict(resend, left)
        /\ UNCHANGED <<sent, nextNum, nextSeq, obscured, untracked, refused, expected, ackTimer,
                       acks, naks, dgBits, arrived>>
    BY DEF HandleAck, receiverVars
  <1>2. Listed' /\ Truthful'
    BY <1>1, QuietNet
  <1>3. found \in SUBSET DOMAIN history /\ left \subseteq DOMAIN resend
    OBVIOUS
  <1> HIDE DEF found, left
  <1>4. Records'
    BY <1>1, <1>3, RecordsLess DEF Books
  <1>5. \A n \in DOMAIN resend' : n \in DOMAIN resend /\ resend'[n] = resend[n]
    BY <1>1, <1>3 DEF Restrict
  <1>6. Shapes'
    BY <1>1, <1>5 DEF Books, Shapes, Given
  <1> QED
    BY <1>2, <1>4, <1>6 DEF Books

(* A NAK marks messages only.                                              *)
LEMMA HandleNakBooks ==
    ASSUME IInv, Books, NEW p, HandleNak(p), net' \subseteq net, faults' \in 0 .. MaxFaults
    PROVE  Books'
  <1> DEFINE missed == UNION {history[s].nums :
                                s \in Considered(Covered(p.ranges)) \cap DOMAIN history}
  <1>1. /\ resend' = [n \in DOMAIN resend |-> [resend[n] EXCEPT !.naked = @ \/ n \in missed]]
        /\ UNCHANGED <<sent, nextNum, nextSeq, history, unacked, obscured, untracked, refused,
                       expected, ackTimer, acks, naks, dgBits, arrived>>
    BY DEF HandleNak, receiverVars
  <1>2. Listed' /\ Truthful'
    BY <1>1, QuietNet
  <1>3. Records'
    BY <1>1 DEF Books, Records
  <1> HIDE DEF missed
  <1>4. ASSUME NEW n \in DOMAIN resend'
        PROVE  resend'[n] \in [msg : Messages, naked : BOOLEAN]
    <2>1. /\ n \in DOMAIN resend
          /\ resend'[n] = [resend[n] EXCEPT !.naked = @ \/ n \in missed]
      BY <1>1
    <2>2. resend[n] \in [msg : Messages, naked : BOOLEAN]
      BY <2>1 DEF Books, Shapes
    <2> QED
      BY <2>1, <2>2
  <1>5. Shapes'
    BY <1>1, <1>4 DEF Books, Shapes, Given
  <1> QED
    BY <1>2, <1>3, <1>5 DEF Books

(* What is noted when a datagram is acknowledged: its number for the ACK,  *)
(* and for the NAK only numbers below it.                                  *)
LEMMA AcknowledgeNotes ==
    ASSUME IInv, Books, NEW s \in 0 .. nextSeq - 1, Acknowledge(s)
    PROVE  /\ acks' \in Lists /\ Covered(acks') = Covered(acks) \cup {s}
           /\ naks' \in Lists /\ Covered(naks') \subseteq 0 .. nextSeq - 1
           /\ Covered(acks') \subseteq 0 .. nextSeq - 1
           /\ Covered(naks') \subseteq Covered(naks) \cup Missed(s)
           /\ arrived' = arrived \cup {s} /\ arrived' \subseteq 0 .. nextSeq - 1
           /\ \A t \in arrived' : t < expected'
           /\ expected' \in Nat /\ ackTimer'
  <1>1. /\ acks \in Lists /\ Covered(acks) \subseteq 0 .. nextSeq - 1
        /\ naks \in Lists /\ Covered(naks) \subseteq 0 .. nextSeq - 1
        /\ expected \in Nat /\ nextSeq \in Nat /\ s \in Nat
        /\ arrived \subseteq 0 .. nextSeq - 1 /\ \A t \in arrived : t < expected
    BY DEF Books, Listed, Lawful, Shapes, IInv, Typed
  <1>2. acks' = AddToRanges(acks, s) /\ ackTimer'
    BY DEF Acknowledge
  <1>3. acks' \in Lists /\ Covered(acks') = Covered(acks) \cup {s}
    <2>1. acks \in Seq(Pair) /\ Canonical(acks)
      BY <1>1 DEF Lists
    <2> QED
      BY <1>1, <1>2, <2>1, Added DEF Lists
  <1>4. PICK missed \in Ascending(Missed(s)) : naks' = FoldLeft(AddToRanges, naks, missed)
    BY DEF Acknowledge
  <1>5. Missed(s) \subseteq 0 .. nextSeq - 1
    BY <1>1 DEF Missed
  <1>6. /\ missed \in Seq(Nat) /\ Range(missed) \subseteq 0 .. nextSeq - 1
        /\ Range(missed) \subseteq Missed(s)
    <2>1. IsFiniteSet(Missed(s))
      <3>1. IsFiniteSet(0 .. nextSeq - 1)
        BY <1>1, FS_Interval
      <3> QED
        BY <1>5, <3>1, FS_Subset
    <2>2. Cardinality(Missed(s)) \in Nat
      BY <2>1, FS_CardinalityType
    <2>3. missed \in [1 .. Cardinality(Missed(s)) -> Missed(s)]
      BY DEF Ascending
    <2> HIDE DEF Missed
    <2> QED
      BY <1>5, <2>2, <2>3 DEF Range
  <1>7. naks' \in Lists /\ Covered(naks') = Covered(naks) \cup Range(missed)
    BY <1>1, <1>4, <1>6, AllAdded
  <1>8. expected' \in Nat
    <2>1. expected' = IF s >= expected THEN s + 1 ELSE expected
      BY DEF Acknowledge
    <2> QED
      BY <1>1, <2>1
  <1>9. arrived' = arrived \cup {s}
    BY DEF Acknowledge
  <1>10. \A t \in arrived' : t < expected'
    <2>1. expected' = IF s >= expected THEN s + 1 ELSE expected
      BY DEF Acknowledge
    <2>2. \A t \in arrived : t \in Nat /\ t < expected
      BY <1>1
    <2> QED
      BY <1>1, <1>9, <2>1, <2>2
  <1> QED
    BY <1>1, <1>2, <1>3, <1>6, <1>7, <1>8, <1>9, <1>10

(* Records and the resend buffer when the sender does nothing.             *)
LEMMA QuietSender ==
    ASSUME Books, UNCHANGED senderVars
    PROVE  /\ Records'
           /\ \A n \in DOMAIN resend' : resend'[n] \in [msg : Messages, naked : BOOLEAN]
           /\ refused' \subseteq 1 .. sent' => Given' \subseteq 1 .. sent'
           /\ nextSeq' = nextSeq /\ sent' = sent
  <1>1. UNCHANGED <<sent, nextNum, resend, nextSeq, history, unacked, obscured, untracked>>
    BY DEF senderVars
  <1> QED
    BY <1>1 DEF Books, Records, Shapes, Given

(* The window holds used numbers only.                                     *)
LEMMA BitsStay ==
    ASSUME IInv, Books, NEW p \in net, AcceptData(p)
    PROVE  p.seq \in 0 .. nextSeq - 1 /\ dgBits' \subseteq 0 .. nextSeq - 1
  <1>1. /\ p \in Data /\ dgBits' \subseteq dgBits \cup {p.seq}
    BY DEF AcceptData, Data
  <1>2. p.seq \in 0 .. nextSeq - 1
    BY <1>1 DEF IInv, Typed
  <1> QED
    BY <1>1, <1>2 DEF Books, Shapes

(* What is refused was sent.                                               *)
LEMMA RefusedSent ==
    ASSUME IInv, Books, NEW p \in net, p.type = "data", NEW passed,
           refused' = refused \cup Refused(p, passed), sent' = sent
    PROVE  refused' \subseteq 1 .. sent'
  <1>1. p \in Data /\ p.frames \in Seq(Frame)
    BY DEF Data, IInv, Typed
  <1>2. Range(Decoded(p.frames)) \subseteq Range(p.frames)
    BY <1>1, DecodedWithin
  <1>3. \A f \in Range(p.frames) : f.msg \in 1 .. sent
    BY <1>1, KnownFrames DEF IInv, Numbered
  <1> QED
    BY <1>2, <1>3 DEF Refused, Books, Shapes, Given

(* What the receiver does with a data datagram, as far as the books go.    *)
LEMMA ReceiverBooks ==
    ASSUME IInv, Books, UNCHANGED senderVars, net' \subseteq net,
           faults' \in 0 .. MaxFaults, expected' \in Nat, ackTimer' \in BOOLEAN,
           acks' \in Lists, Covered(acks') \subseteq 0 .. nextSeq - 1,
           naks' \in Lists, Covered(naks') \subseteq 0 .. nextSeq - 1,
           dgBits' \subseteq 0 .. nextSeq - 1, arrived' \subseteq 0 .. nextSeq - 1,
           \A s \in arrived' : s < expected', refused' \subseteq 1 .. sent',
           arrived \subseteq arrived', Covered(acks') \subseteq arrived'
    PROVE  Books'
  <1>1. /\ Records' /\ Given' \subseteq 1 .. sent' /\ nextSeq' = nextSeq
        /\ \A n \in DOMAIN resend' : resend'[n] \in [msg : Messages, naked : BOOLEAN]
    BY QuietSender
  <1>2. nextSeq \in Nat
    BY DEF IInv, Typed
  <1>3. Listed'
    <2>1. \A p \in net' : \/ p.type = "data"
                          \/ p.type \in {"ack", "nak"} /\ Lawful(p.ranges)
      BY DEF Books, Listed
    <2> QED
      BY <1>1, <2>1 DEF Listed, Lawful
  <1>4. \A p \in net' : p.type = "ack" => Covered(p.ranges) \subseteq arrived'
    BY DEF Books, Truthful
  <1>5. Truthful'
    BY <1>4 DEF Truthful
  <1>7. Shapes'
    BY <1>1 DEF Shapes
  <1> QED
    BY <1>1, <1>3, <1>5, <1>7 DEF Books

(* Whatever arrives, the books are kept.                                   *)
LEMMA HandleBooks ==
    ASSUME IInv, Books, NEW p \in net, Handle(p), net' \subseteq net, faults' \in 0 .. MaxFaults
    PROVE  Books'
  <1>1. CASE HandleAck(p)
    BY <1>1, HandleAckBooks
  <1>2. CASE HandleNak(p)
    BY <1>2, HandleNakBooks
  <1>3. /\ acks \in Lists /\ Covered(acks) \subseteq 0 .. nextSeq - 1
        /\ naks \in Lists /\ Covered(naks) \subseteq 0 .. nextSeq - 1
        /\ dgBits \subseteq 0 .. nextSeq - 1 /\ expected \in Nat
        /\ arrived \subseteq 0 .. nextSeq - 1 /\ \A s \in arrived : s < expected
        /\ refused \subseteq 1 .. sent /\ Covered(acks) \subseteq arrived
    BY DEF Books, Listed, Lawful, Shapes, Given, Truthful
  <1>4. CASE RejectData(p)
    <2>1. /\ ackTimer'
          /\ UNCHANGED <<expected, acks, naks, dgBits, arrived, refused, senderVars>>
      BY <1>4 DEF RejectData
    <2>2. refused' \subseteq 1 .. sent'
      BY <1>3, <2>1, QuietSender
    <2> QED
      BY <1>3, <2>1, <2>2, ReceiverBooks
  <1>5. ASSUME p.type = "data", Acknowledge(p.seq), UNCHANGED senderVars,
               dgBits' \subseteq 0 .. nextSeq - 1,
               NEW passed, refused' = refused \cup Refused(p, passed)
        PROVE  Books'
    <2>1. p.seq \in 0 .. nextSeq - 1
      BY <1>5 DEF IInv, Typed, Data
    <2>2. /\ acks' \in Lists /\ Covered(acks') = Covered(acks) \cup {p.seq}
          /\ naks' \in Lists /\ Covered(naks') \subseteq 0 .. nextSeq - 1
          /\ Covered(acks') \subseteq 0 .. nextSeq - 1
          /\ arrived' = arrived \cup {p.seq} /\ arrived' \subseteq 0 .. nextSeq - 1
          /\ \A t \in arrived' : t < expected'
          /\ expected' \in Nat
      BY <1>5, <2>1, AcknowledgeNotes
    <2>3. ackTimer' \in BOOLEAN
      BY <1>5 DEF Acknowledge
    <2>4. refused' \subseteq 1 .. sent'
      BY <1>5, QuietSender, RefusedSent
    <2>5. arrived \subseteq arrived' /\ Covered(acks') \subseteq arrived'
      BY <1>3, <2>2
    <2> QED
      BY <1>5, <2>2, <2>3, <2>4, <2>5, ReceiverBooks
  <1>6. CASE SkipData(p)
    <2>1. /\ p.type = "data" /\ Acknowledge(p.seq) /\ UNCHANGED <<dgBits, senderVars>>
          /\ refused' = refused \cup Refused(p, got)
      BY <1>6 DEF SkipData
    <2> QED
      BY <1>3, <1>5, <2>1
  <1>7. CASE AcceptData(p)
    <2>1. /\ p.type = "data" /\ Acknowledge(p.seq) /\ UNCHANGED senderVars
          /\ \E passed : refused' = refused \cup Refused(p, passed)
      BY <1>7 DEF AcceptData
    <2>2. dgBits' \subseteq 0 .. nextSeq - 1
      BY <1>7, BitsStay
    <2> QED
      BY <1>5, <2>1, <2>2
  <1> QED
    BY <1>1, <1>2, <1>4, <1>6, <1>7 DEF Handle

(* An empty list covers nothing.                                           *)
LEMMA EmptyList == << >> \in Lists /\ Covered(<< >>) = {}
  BY DEF Lists, Canonical, Covered, Range

(* An ACK or NAK lists used numbers, and none that was not noted.          *)
LEMMA PacketsListed ==
    ASSUME NEW type, NEW q, Lawful(q), NEW p \in Packets(type, q)
    PROVE  p.type = type /\ Lawful(p.ranges) /\ Covered(p.ranges) \subseteq Covered(q)
  <1>1. PICK r \in Range(RangePackets(q, AckRoom)) : p = [type |-> type, ranges |-> r]
    BY DEF Packets
  <1>2. r \in Lists /\ Covered(r) \subseteq Covered(q)
    BY <1>1, Packeted DEF Lawful
  <1> QED
    BY <1>1, <1>2 DEF Lawful

(* ACKs and NAKs that go out say what was noted for them.                  *)
LEMMA ReceiverTickBooks ==
    ASSUME IInv, Books, ReceiverTick
    PROVE  Books'
  <1>1. PICK flush \in BOOLEAN :
            /\ acks' = IF flush THEN << >> ELSE acks
            /\ net' = net \cup (IF flush THEN Packets("ack", acks) ELSE {})
                          \cup Packets("nak", naks)
            /\ ackTimer' = (ackTimer /\ ~flush)
            /\ naks' = << >>
            /\ UNCHANGED <<expected, dgBits, arrived, refused, senderVars, faults>>
    BY DEF ReceiverTick
  <1>2. Lawful(acks) /\ Lawful(naks) /\ nextSeq' = nextSeq
    BY <1>1 DEF Books, Listed, senderVars
  <1>3. Lawful(<< >>)
    BY EmptyList DEF Lawful
  <1>4. \A p \in net' : \/ p \in net
                        \/ p.type \in {"ack", "nak"} /\ Lawful(p.ranges)
    BY <1>1, <1>2, PacketsListed
  <1>5. Listed'
    <2>1. \A p \in net' : \/ p.type = "data"
                          \/ p.type \in {"ack", "nak"} /\ Lawful(p.ranges)
      BY <1>4 DEF Books, Listed
    <2>2. Lawful(acks') /\ Lawful(naks')
      BY <1>1, <1>2, <1>3
    <2> QED
      BY <1>2, <2>1, <2>2 DEF Listed, Lawful
  <1>6. \A p \in net' : p.type = "ack" => \/ p \in net
                                          \/ Covered(p.ranges) \subseteq Covered(acks)
    BY <1>1, <1>2, PacketsListed
  <1>7. Covered(acks') \subseteq Covered(acks)
    BY <1>1, EmptyList
  <1>8. Truthful'
    <2>1. Covered(acks') \subseteq arrived
      BY <1>7 DEF Books, Truthful
    <2>2. \A p \in net' : p.type = "ack" => Covered(p.ranges) \subseteq arrived
      BY <1>6 DEF Books, Truthful
    <2> QED
      BY <1>1, <2>1, <2>2 DEF Truthful
  <1>9. /\ Records' /\ Given' \subseteq 1 .. sent'
        /\ \A n \in DOMAIN resend' : resend'[n] \in [msg : Messages, naked : BOOLEAN]
    <2>1. refused' \subseteq 1 .. sent'
      BY <1>1, QuietSender DEF Books, Shapes, Given
    <2> QED
      BY <1>1, <2>1, QuietSender
  <1>10. ackTimer' \in BOOLEAN
    BY <1>1
  <1>11. Shapes'
    BY <1>1, <1>2, <1>9, <1>10 DEF Books, Shapes
  <1> QED
    BY <1>5, <1>8, <1>9, <1>11 DEF Books

(* A call of send() concerns no datagram.                                  *)
LEMMA SendBooks ==
    ASSUME IInv, Books, Send
    PROVE  Books'
  <1>1. /\ sent' = sent + 1 /\ sent \in Nat
        /\ UNCHANGED <<nextNum, resend, nextSeq, history, unacked, obscured, untracked>>
        /\ UNCHANGED <<expected, ackTimer, acks, naks, dgBits, arrived, refused, net, faults>>
    BY TransportAssumption DEF Send, receiverVars, IInv, Typed
  <1>2. Listed' /\ Truthful'
    BY <1>1, QuietNet
  <1>3. Records'
    BY <1>1 DEF Books, Records
  <1>4. 1 .. sent \subseteq 1 .. sent'
    BY <1>1
  <1>5. Shapes'
    BY <1>1, <1>4 DEF Books, Shapes, Given
  <1> QED
    BY <1>2, <1>3, <1>5 DEF Books

(* Nothing but datagrams are lost.                                         *)
LEMMA LoseBooks ==
    ASSUME Books, net' \subseteq net, UNCHANGED <<senderVars, receiverVars>>,
           faults' \in 0 .. MaxFaults
    PROVE  Books'
  <1>1. /\ UNCHANGED <<sent, nextNum, resend, nextSeq, history, unacked, obscured, untracked>>
        /\ UNCHANGED <<expected, ackTimer, acks, naks, dgBits, arrived, refused>>
    BY DEF senderVars, receiverVars
  <1>2. Listed' /\ Truthful'
    BY <1>1, QuietNet
  <1>3. Records'
    BY <1>1 DEF Books, Records
  <1>4. Shapes'
    BY <1>1 DEF Books, Shapes, Given
  <1> QED
    BY <1>2, <1>3, <1>4 DEF Books

(* The books are kept at first,                                            *)
LEMMA BooksFirst == Init => Books
  <1> SUFFICES ASSUME Init
               PROVE  Books
    OBVIOUS
  <1>1. /\ nextSeq = 0 /\ history = << >> /\ unacked = 0 /\ Given = {} /\ resend = << >>
        /\ arrived = {} /\ expected = 0 /\ ackTimer = FALSE /\ acks = << >> /\ naks = << >> /\ dgBits = {}
        /\ net = {} /\ faults = 0
    BY DEF Init, Given
  <1>2. DOMAIN history = {} /\ DOMAIN resend = {}
    BY <1>1
  <1>3. Listed /\ Truthful
    BY <1>1, EmptyList DEF Listed, Truthful, Lawful
  <1>4. Records
    <2>1. Sizes(history, {}) = 0
      BY FS_EmptySet, SizesOf
    <2> QED
      BY <1>1, <1>2, <2>1, FS_EmptySet DEF Records
  <1>5. Shapes
    <2>1. 0 \in 0 .. MaxFaults
      BY TransportAssumption
    <2> QED
      BY <1>1, <1>2, <2>1 DEF Shapes
  <1> QED
    BY <1>3, <1>4, <1>5 DEF Books

(* and by every step.                                                      *)
LEMMA BooksNext ==
    ASSUME IInv, Books, [Next]_vars
    PROVE  IInv' /\ Books'
  <1>1. IInv'
    BY NextStep
  <1>2. faults \in 0 .. MaxFaults /\ MaxFaults \in Nat
    BY TransportAssumption DEF Books, Shapes
  <1>3. CASE Send
    BY <1>1, <1>3, SendBooks
  <1>4. CASE SenderTick
    BY <1>1, <1>4, TickBooks
  <1>5. CASE ReceiverTick
    BY <1>1, <1>5, ReceiverTickBooks
  <1>6. CASE Receive
    <2>1. PICK p \in net : Handle(p) /\ net' = net \ {p} /\ faults' = faults
      BY <1>6 DEF Receive
    <2> QED
      BY <1>1, <1>2, <2>1, HandleBooks
  <1>7. CASE Duplicate
    <2>1. PICK p \in net : Handle(p) /\ net' = net /\ faults < MaxFaults /\ faults' = faults + 1
      BY <1>7 DEF Duplicate
    <2>2. faults' \in 0 .. MaxFaults
      BY <1>2, <2>1
    <2> QED
      BY <1>1, <2>1, <2>2, HandleBooks
  <1>8. CASE Lose
    <2>1. /\ faults < MaxFaults /\ faults' = faults + 1 /\ net' \subseteq net
          /\ UNCHANGED <<senderVars, receiverVars>>
      BY <1>8 DEF Lose
    <2>2. faults' \in 0 .. MaxFaults
      BY <1>2, <2>1
    <2> QED
      BY <1>1, <2>1, <2>2, LoseBooks
  <1>9. CASE UNCHANGED vars
    <2>1. UNCHANGED <<senderVars, receiverVars, net, faults>>
      BY <1>9 DEF vars
    <2> QED
      BY <1>1, <1>2, <2>1, LoseBooks
  <1> QED
    BY <1>1, <1>3, <1>4, <1>5, <1>6, <1>7, <1>8, <1>9 DEF Next

(* The invariant that the three theorems below come from.                  *)
LEMMA BooksAlwaysKept == Spec => [](IInv /\ Books)
  <1>1. Init => IInv /\ Books
    BY Initially, BooksFirst
  <1>2. (IInv /\ Books) /\ [Next]_vars => (IInv /\ Books)'
    BY BooksNext
  <1> QED
    BY <1>1, <1>2, PTL DEF Spec

(* Both ends and the network are always of their types: among other things *)
(* no ACK or NAK ever names a datagram that was not sent.                  *)
THEOREM TypeCorrect == Spec => []TypeOK
  <1>1. IInv /\ Books => TypeOK
    BY BooksSay
  <1> QED
    BY <1>1, BooksAlwaysKept, PTL

(* An ACK, noted or on its way, and merged in whatever order the datagrams *)
(* came, names only datagrams that were received.                          *)
LEMMA AcksAlwaysTruthful == Spec => []AcksTruthful
  <1>1. IInv /\ Books => AcksTruthful
    BY BooksSay
  <1> QED
    BY <1>1, BooksAlwaysKept, PTL

(* Whether an ACK, the timeout or the cap removes a record, the bytes it   *)
(* stands for leave _unacked_bytes with it, and no others do.              *)
THEOREM UnackedAlwaysAccounted == Spec => []UnackedAccounting
  <1>1. IInv /\ Books => UnackedAccounting
    BY BooksSay
  <1> QED
    BY <1>1, BooksAlwaysKept, PTL
----------------------------------------------------------------------------
(* No silent loss.                                                         *)

(* A message that is delivered, or that was given up.                      *)
Settled(m) == delivered[m] > 0 \/ m \in Given

(* What a recorded datagram carried is settled once it has been noted for  *)
(* an ACK.                                                                 *)
AckedSettled ==
    \A s \in DOMAIN history \cap arrived :
        \A n \in history[s].nums \cap DOMAIN resend : Settled(resend[n].msg)

(* The record of a datagram lists no number that is not in it, and what is *)
(* hidden in it is noted.                                                  *)
Recorded ==
    \A p \in Data :
        /\ p.seq \in DOMAIN history => history[p.seq].nums \subseteq NumsOf(p.frames)
        /\ \A f \in Range(p.frames) \ Range(Decoded(p.frames)) : f.msg \in obscured

(* A message whose number was let through is delivered.                    *)
GotDelivered ==
    \A f \in Known : f.msg \notin Unreliable /\ f.num \in got => delivered[f.msg] > 0

(* The inductive invariant: a message leaves the resend buffer only for an *)
(* ACK, and what an ACK names has arrived and is settled.                  *)
Kept == AckedSettled /\ Recorded /\ GotDelivered /\ NoSilentLoss

----------------------------------------------------------------------------
(* What an update does to records, datagrams and what is hidden.           *)
LEMMA PackedRecords ==
    ASSUME IInv, Records, NEW resent \in Seq(Frame), NEW fresh \in Seq(Frame),
           NEW stale \in StaleSets, Pack(resent, fresh, stale)
    PROVE  /\ obscured \subseteq obscured'
           /\ \A s \in DOMAIN history' :
                 s < nextSeq => s \in DOMAIN history /\ history'[s] = history[s]
           /\ \A p \in net' : p.type # "data" => p \in net
           /\ \A p \in Data' : p \in Data \/
                 /\ p.seq >= nextSeq
                 /\ p.seq \in DOMAIN history' => history'[p.seq].nums = NumsOf(p.frames)
                 /\ \A f \in Range(p.frames) \ Range(Decoded(p.frames)) : f.msg \in obscured'
           /\ \A p, q \in Data' \ Data : p.seq = q.seq => p = q
  <1> DEFINE packed == Chunks(resent) \o Chunks(fresh)
             K == Len(packed)
             datagram(c) == [type |-> "data", seq |-> nextSeq + c - 1, frames |-> packed[c]]
             datagrams == [i \in 1 .. K |-> [type |-> "data", seq |-> nextSeq + i - 1,
                                             frames |-> packed[i]]]
             recorded == [s \in (DOMAIN history \ stale) \cup (nextSeq .. nextSeq + K - 1) |->
                             IF s < nextSeq THEN history[s]
                             ELSE [nums |-> NumsOf(packed[s - nextSeq + 1]),
                                   size |-> Len(packed[s - nextSeq + 1])]]
             kept == Newest(DOMAIN recorded)
  <1>1. /\ net' = net \cup Range(datagrams)
        /\ history' = Restrict(recorded, kept)
        /\ obscured' = obscured \cup
              {f.msg : f \in UNION {Range(d) \ Range(Decoded(d)) : d \in Range(packed)}}
    BY DEF Pack
  <1>2. Chunks(resent) \in Seq(Seq(Frame)) /\ Chunks(fresh) \in Seq(Seq(Frame))
    <2>1. ASSUME NEW s \in Seq(Frame) PROVE Chunks(s) \in Seq(Seq(Frame))
      <3>1. /\ Len(Chunks(s)) \in Nat /\ DOMAIN Chunks(s) = 1 .. Len(Chunks(s))
            /\ \A c \in DOMAIN Chunks(s) : Chunks(s)[c] \in Seq(Frame)
        BY ChunkOf
      <3>2. Chunks(s) = [c \in 1 .. Len(Chunks(s)) |-> Chunks(s)[c]]
        BY <3>1 DEF Chunks
      <3> QED
        BY <3>1, <3>2
    <2> QED
      BY <2>1
  <1>3. K \in Nat /\ DOMAIN packed = 1 .. K
    BY <1>2, ConcatProperties
  <1>4. nextSeq \in Nat /\ \A s \in DOMAIN history : s \in 0 .. nextSeq - 1
    BY DEF IInv, Typed, Records
  <1> HIDE DEF packed, K
  <1>5. Range(datagrams) = {datagram(c) : c \in 1 .. K}
    BY DEF Range
  <1>6. kept \subseteq DOMAIN recorded
    BY DEF Newest
  <1> HIDE DEF kept
  <1>7. /\ DOMAIN history' \subseteq DOMAIN recorded
        /\ \A s \in DOMAIN history' : history'[s] = recorded[s]
    BY <1>1, <1>6 DEF Restrict
  <1>14. \A s \in DOMAIN recorded :
            /\ s < nextSeq => s \in DOMAIN history /\ recorded[s] = history[s]
            /\ s >= nextSeq => recorded[s].nums = NumsOf(packed[s - nextSeq + 1])
    <2> SUFFICES ASSUME NEW s \in (DOMAIN history \ stale) \cup (nextSeq .. nextSeq + K - 1)
                 PROVE  /\ s < nextSeq => s \in DOMAIN history /\ recorded[s] = history[s]
                        /\ s >= nextSeq => recorded[s].nums = NumsOf(packed[s - nextSeq + 1])
      OBVIOUS
    <2>1. s \in DOMAIN history => s < nextSeq
      BY <1>4
    <2>2. s \notin DOMAIN history => s >= nextSeq
      BY <1>3, <1>4
    <2>3. s \in Nat
      BY <1>3, <1>4
    <2> QED
      BY <1>4, <2>1, <2>2, <2>3
  <1> HIDE DEF recorded
  <1>8. ASSUME NEW s \in DOMAIN history', s < nextSeq
        PROVE  s \in DOMAIN history /\ history'[s] = history[s]
    BY <1>7, <1>8, <1>14
  <1>9. ASSUME NEW c \in 1 .. K
        PROVE  /\ nextSeq + c - 1 >= nextSeq
               /\ nextSeq + c - 1 \in DOMAIN history' =>
                     history'[nextSeq + c - 1].nums = NumsOf(packed[c])
               /\ \A f \in Range(packed[c]) \ Range(Decoded(packed[c])) : f.msg \in obscured'
    <2>1. nextSeq + c - 1 >= nextSeq /\ (nextSeq + c - 1) - nextSeq + 1 = c
      BY <1>3, <1>4
    <2>2. \A s \in DOMAIN history' :
              s >= nextSeq => history'[s].nums = NumsOf(packed[s - nextSeq + 1])
      BY <1>7, <1>14
    <2>3. packed[c] \in Range(packed)
      BY <1>3 DEF Range
    <2> QED
      BY <1>1, <2>1, <2>2, <2>3
  <1> HIDE DEF datagrams
  <1>10. \A p \in Data' : p \in Data \/ \E c \in 1 .. K : p = datagram(c)
    BY <1>1, <1>5 DEF Data
  <1>11. ASSUME NEW p \in Data', p \notin Data
         PROVE  /\ p.seq >= nextSeq
                /\ p.seq \in DOMAIN history' => history'[p.seq].nums = NumsOf(p.frames)
                /\ \A f \in Range(p.frames) \ Range(Decoded(p.frames)) : f.msg \in obscured'
    <2>1. PICK c \in 1 .. K : p = datagram(c)
      BY <1>10, <1>11
    <2>2. p.seq = nextSeq + c - 1 /\ p.frames = packed[c]
      BY <2>1
    <2> HIDE DEF datagram
    <2> QED
      BY <1>9, <2>2
  <1>15. ASSUME NEW p \in Data' \ Data, NEW q \in Data' \ Data, p.seq = q.seq
         PROVE  p = q
    <2>1. PICK c \in 1 .. K : p = datagram(c)
      BY <1>10
    <2>2. PICK d \in 1 .. K : q = datagram(d)
      BY <1>10
    <2>3. c = d
      <3>1. nextSeq + c - 1 = nextSeq + d - 1
        BY <1>15, <2>1, <2>2
      <3>2. nextSeq \in Int /\ c \in Int /\ d \in Int
        BY <1>3, <1>4
      <3> HIDE DEF datagram
      <3> QED
        BY <3>1, <3>2
    <2> HIDE DEF datagram
    <2> QED
      BY <2>1, <2>2, <2>3
  <1>12. \A p \in net' : p.type # "data" => p \in net
    BY <1>1, <1>5
  <1>13. obscured \subseteq obscured'
    BY <1>1
  <1> HIDE DEF datagram
  <1> QED
    BY <1>8, <1>11, <1>12, <1>13, <1>15

(* A step after which less is recorded and known.                          *)
LEMMA LessKept ==
    ASSUME AckedSettled, Recorded, GotDelivered,
           Data' \subseteq Data, DOMAIN resend' \subseteq DOMAIN resend,
           \A n \in DOMAIN resend' : resend'[n].msg = resend[n].msg,
           DOMAIN history' \subseteq DOMAIN history,
           \A s \in DOMAIN history' : history'[s] = history[s],
           UNCHANGED <<obscured, arrived, got, delivered>>, Given \subseteq Given'
    PROVE  AckedSettled' /\ Recorded' /\ GotDelivered'
  <1>1. AckedSettled'
    <2> SUFFICES ASSUME NEW s \in DOMAIN history' \cap arrived',
                        NEW n \in history'[s].nums \cap DOMAIN resend'
                 PROVE  Settled(resend[n].msg)'
      BY DEF AckedSettled
    <2>1. Settled(resend[n].msg)
      BY DEF AckedSettled
    <2> QED
      BY <2>1 DEF Settled
  <1>2. Recorded'
    BY DEF Recorded
  <1>3. GotDelivered'
    <2>1. Known' \subseteq Known
      BY SubsetKnown
    <2> QED
      BY <2>1 DEF GotDelivered
  <1> QED
    BY <1>1, <1>2, <1>3

(* Nothing is lost by a step that takes nothing from the sender.           *)
LEMMA NothingLost ==
    ASSUME NoSilentLoss, UNCHANGED <<sent, queue>>, Given \subseteq Given',
           \A n \in DOMAIN resend : n \in DOMAIN resend' /\ resend'[n].msg = resend[n].msg,
           \A m \in Messages : delivered[m] > 0 => delivered'[m] > 0,
           1 .. sent \subseteq Messages
    PROVE  NoSilentLoss'
  <1> SUFFICES ASSUME NEW m \in 1 .. sent' \ (Unreliable \cup Given')
               PROVE  \/ \E i \in DOMAIN queue' : queue'[i] = m
                      \/ \E n \in DOMAIN resend' : resend'[n].msg = m
                      \/ delivered'[m] > 0
    BY DEF NoSilentLoss, Given
  <1>1. m \in 1 .. sent \ (Unreliable \cup Given) /\ m \in Messages
    OBVIOUS
  <1>2. CASE \E i \in DOMAIN queue : queue[i] = m
    BY <1>2
  <1>3. CASE \E n \in DOMAIN resend : resend[n].msg = m
    BY <1>3
  <1>4. CASE delivered[m] > 0
    BY <1>1, <1>4
  <1> QED
    BY <1>1, <1>2, <1>3, <1>4 DEF NoSilentLoss, Given

(* An ACK takes from the resend buffer what is settled.                    *)
LEMMA HandleAckKept ==
    ASSUME IInv, Books, Kept, NEW p \in net, HandleAck(p), net' \subseteq net
    PROVE  Kept'
  <1> DEFINE found == Considered(Covered(p.ranges)) \cap DOMAIN history
             gone == UNION {history[s].nums : s \in found}
  <1>1. /\ p.type = "ack"
        /\ history' = Restrict(history, DOMAIN history \ found)
        /\ resend' = Restrict(resend, DOMAIN resend \ gone)
        /\ UNCHANGED <<sent, queue, obscured, untracked, refused, arrived, got, delivered>>
    BY DEF HandleAck, receiverVars
  <1>2. \A s \in found : s \in DOMAIN history \cap arrived
    BY <1>1 DEF Considered, Books, Truthful
  <1> HIDE DEF found
  <1>3. /\ DOMAIN history' \subseteq DOMAIN history
        /\ \A s \in DOMAIN history' : history'[s] = history[s]
    BY <1>1 DEF Restrict
  <1>4. \A n \in gone \cap DOMAIN resend : Settled(resend[n].msg)
    BY <1>2 DEF Kept, AckedSettled
  <1> HIDE DEF gone
  <1>5. /\ DOMAIN resend' = DOMAIN resend \ gone
        /\ \A n \in DOMAIN resend' : resend'[n].msg = resend[n].msg
    BY <1>1 DEF Restrict
  <1>6. Data' \subseteq Data /\ Given' = Given
    BY <1>1 DEF Data, Given
  <1>7. AckedSettled' /\ Recorded' /\ GotDelivered'
    BY <1>1, <1>3, <1>5, <1>6, LessKept DEF Kept
  <1>8. NoSilentLoss'
    <2> SUFFICES ASSUME NEW m \in 1 .. sent' \ (Unreliable \cup Given')
                 PROVE  \/ \E i \in DOMAIN queue' : queue'[i] = m
                        \/ \E n \in DOMAIN resend' : resend'[n].msg = m
                        \/ delivered'[m] > 0
      BY DEF NoSilentLoss, Given
    <2>1. m \in 1 .. sent \ (Unreliable \cup Given)
      BY <1>1, <1>6
    <2>2. CASE \E i \in DOMAIN queue : queue[i] = m
      BY <1>1, <2>2
    <2>3. CASE \E n \in DOMAIN resend : resend[n].msg = m
      <3>1. PICK n \in DOMAIN resend : resend[n].msg = m
        BY <2>3
      <3>2. CASE n \in gone
        <4>1. Settled(m)
          BY <1>4, <3>1, <3>2
        <4> QED
          BY <1>1, <2>1, <4>1 DEF Settled
      <3>3. CASE n \notin gone
        BY <1>5, <3>1, <3>3
      <3> QED
        BY <3>2, <3>3
    <2>4. CASE delivered[m] > 0
      BY <1>1, <2>4
    <2> QED
      BY <2>1, <2>2, <2>3, <2>4 DEF Kept, NoSilentLoss, Given
  <1> QED
    BY <1>7, <1>8 DEF Kept

(* What was sent are messages. *)
LEMMA SentMessages ==
    ASSUME IInv
    PROVE  1 .. sent \subseteq Messages /\ sent \in Nat /\ Messages = 1 .. MaxMessages
  BY TransportAssumption DEF IInv, Typed, Messages

(* A NAK takes nothing.                                                    *)
LEMMA HandleNakKept ==
    ASSUME IInv, Kept, NEW p \in net, HandleNak(p), net' \subseteq net
    PROVE  Kept'
  <1> DEFINE missed == UNION {history[s].nums :
                                s \in Considered(Covered(p.ranges)) \cap DOMAIN history}
  <1>1. /\ resend' = [n \in DOMAIN resend |->
                        [resend[n] EXCEPT !.naked = @ \/ n \in missed]]
        /\ UNCHANGED <<sent, queue, history, obscured, untracked, refused, arrived, got,
                       delivered>>
    BY DEF HandleNak, receiverVars
  <1> HIDE DEF missed
  <1>2. DOMAIN resend' = DOMAIN resend
    BY <1>1
  <1>3. ASSUME NEW n \in DOMAIN resend
        PROVE  resend'[n].msg = resend[n].msg
    <2>1. resend'[n] = [resend[n] EXCEPT !.naked = @ \/ n \in missed]
      BY <1>1
    <2> QED
      BY <2>1
  <1>4. Data' \subseteq Data /\ Given' = Given
    BY <1>1 DEF Data, Given
  <1>5. AckedSettled' /\ Recorded' /\ GotDelivered'
    BY <1>1, <1>2, <1>3, <1>4, LessKept DEF Kept
  <1>6. NoSilentLoss'
    BY <1>1, <1>2, <1>3, <1>4, SentMessages, NothingLost DEF Kept
  <1> QED
    BY <1>5, <1>6 DEF Kept

(* A step that leaves the sender and what was received alone.              *)
LEMMA QuietKept ==
    ASSUME IInv, Kept, UNCHANGED <<senderVars, arrived, refused, got, delivered>>,
           Data' \subseteq Data
    PROVE  Kept'
  <1>1. UNCHANGED <<sent, queue, resend, history, obscured, untracked>>
    BY DEF senderVars
  <1>2. Given' = Given
    BY <1>1 DEF Given
  <1>3. AckedSettled' /\ Recorded' /\ GotDelivered'
    BY <1>1, <1>2, LessKept DEF Kept
  <1>4. NoSilentLoss'
    BY <1>1, <1>2, SentMessages, NothingLost DEF Kept
  <1> QED
    BY <1>3, <1>4 DEF Kept

(* Nor does a datagram that is turned away.                                *)
LEMMA RejectDataKept ==
    ASSUME IInv, Kept, NEW p \in net, RejectData(p), net' \subseteq net
    PROVE  Kept'
  <1>1. UNCHANGED <<arrived, refused, got, delivered, senderVars>>
    BY DEF RejectData
  <1>2. Data' \subseteq Data
    BY DEF Data
  <1> QED
    BY <1>1, <1>2, QuietKept

(* ACKs and NAKs that go out carry no messages.                            *)
LEMMA TickNoData ==
    ASSUME ReceiverTick
    PROVE  Data' \subseteq Data
  <1>1. PICK flush \in BOOLEAN :
            net' = net \cup (IF flush THEN Packets("ack", acks) ELSE {})
                       \cup Packets("nak", naks)
    BY DEF ReceiverTick
  <1>2. /\ \A p \in Packets("ack", acks) : p.type = "ack"
        /\ \A p \in Packets("nak", naks) : p.type = "nak"
    BY DEF Packets
  <1> QED
    BY <1>1, <1>2 DEF Data

(* Nor does a lost datagram tell anybody anything.                         *)
LEMMA LoseKept ==
    ASSUME IInv, Kept, net' \subseteq net, UNCHANGED <<senderVars, receiverVars>>
    PROVE  Kept'
  <1>1. UNCHANGED <<arrived, refused, got, delivered>>
    BY DEF receiverVars
  <1>2. Data' \subseteq Data
    BY DEF Data
  <1> QED
    BY <1>1, <1>2, QuietKept

(* A new message waits in the queue.                                       *)
LEMMA SendKept ==
    ASSUME IInv, Kept, Send
    PROVE  Kept'
  <1>1. /\ sent' = sent + 1 /\ queue' = Append(queue, sent + 1) /\ sent < MaxMessages
        /\ UNCHANGED <<resend, history, obscured, untracked, refused, arrived, got, delivered,
                       net>>
    BY DEF Send, receiverVars
  <1>2. Data' \subseteq Data /\ Given' = Given
    BY <1>1 DEF Data, Given
  <1>3. AckedSettled' /\ Recorded' /\ GotDelivered'
    BY <1>1, <1>2, LessKept DEF Kept
  <1>4. queue \in Seq(Messages) /\ sent \in Nat /\ sent + 1 \in Messages
    BY <1>1, SentMessages, TransportAssumption DEF IInv, Typed
  <1>5. /\ DOMAIN queue' = DOMAIN queue \cup {Len(queue) + 1}
        /\ \A i \in DOMAIN queue : queue'[i] = queue[i]
        /\ queue'[Len(queue) + 1] = sent + 1
    BY <1>1, <1>4, AppendProperties
  <1>6. NoSilentLoss'
    <2> SUFFICES ASSUME NEW m \in 1 .. sent' \ (Unreliable \cup Given')
                 PROVE  \/ \E i \in DOMAIN queue' : queue'[i] = m
                        \/ \E n \in DOMAIN resend' : resend'[n].msg = m
                        \/ delivered'[m] > 0
      BY DEF NoSilentLoss, Given
    <2>1. CASE m = sent + 1
      BY <1>5, <2>1
    <2>2. CASE m # sent + 1
      <3>1. m \in 1 .. sent \ (Unreliable \cup Given)
        BY <1>1, <1>2, <1>4, <2>2
      <3>2. \/ \E i \in DOMAIN queue : queue[i] = m
            \/ \E n \in DOMAIN resend : resend[n].msg = m
            \/ delivered[m] > 0
        BY <3>1 DEF Kept, NoSilentLoss, Given
      <3> QED
        BY <1>1, <1>5, <3>2
    <2> QED
      BY <2>1, <2>2
  <1> QED
    BY <1>3, <1>6 DEF Kept

(* A frame with a number is the reliable message's that is resent under it. *)
LEMMA SameNumber ==
    ASSUME IInv, NEW f \in Known, f.num # NoNum
    PROVE  /\ f.msg \notin Unreliable /\ f.msg \in 1 .. sent /\ f.num \in 0 .. nextNum - 1
           /\ \A g \in Known : g.num = f.num => g.msg = f.msg
           /\ f.num \in DOMAIN resend => resend[f.num].msg = f.msg
  <1>1. /\ f.msg \notin Unreliable /\ f.msg \in 1 .. sent /\ f.num \in 0 .. nextNum - 1
    BY DEF IInv, Numbered
  <1>2. ASSUME NEW g \in Known, g.num = f.num
        PROVE  g.msg = f.msg
    <2>1. g.msg \notin Unreliable
      BY <1>2 DEF IInv, Numbered
    <2> QED
      BY <1>1, <1>2, <2>1 DEF IInv, Numbered
  <1>3. ASSUME f.num \in DOMAIN resend
        PROVE  resend[f.num].msg = f.msg
    <2> DEFINE g == [msg |-> resend[f.num].msg, num |-> f.num]
    <2>1. g \in Known
      BY <1>3, KnownFrames
    <2>2. g.num = f.num /\ g.msg = resend[f.num].msg
      OBVIOUS
    <2> QED
      BY <1>2, <2>1, <2>2
  <1> QED
    BY <1>1, <1>2, <1>3

(* What is acknowledged is settled: delivered, hidden, or refused.         *)
LEMMA ArrivedKept ==
    ASSUME IInv, Kept, NEW p \in Data, Data' \subseteq Data,
           UNCHANGED <<sent, queue, resend, history, obscured, untracked>>,
           arrived' = arrived \cup {p.seq}, refused' = refused \cup Refused(p, got'),
           \A m \in Messages : delivered[m] > 0 => delivered'[m] > 0, GotDelivered'
    PROVE  Kept'
  <1>1. p.frames \in Seq(Frame) /\ Range(p.frames) \subseteq Known
    BY KnownFrames DEF IInv, Typed
  <1>2. Given \subseteq Given' /\ refused' \subseteq Given' /\ obscured \subseteq Given'
    BY DEF Given
  <1>3. AckedSettled'
    <2> SUFFICES ASSUME NEW s \in DOMAIN history' \cap arrived',
                        NEW n \in history'[s].nums \cap DOMAIN resend'
                 PROVE  Settled(resend[n].msg)'
      BY DEF AckedSettled
    <2>1. s \in DOMAIN history /\ n \in history[s].nums /\ n \in DOMAIN resend
      OBVIOUS
    <2>2. resend[n].msg \in Messages /\ n # NoNum
      BY <2>1 DEF IInv, Typed, NoNum
    <2>3. CASE s = p.seq
      <3>1. n \in NumsOf(p.frames)
        BY <2>1, <2>3 DEF Kept, Recorded
      <3>2. PICK f \in Range(p.frames) : f.num = n
        BY <3>1 DEF NumsOf
      <3>3. f \in Known /\ resend[n].msg = f.msg /\ f.msg \notin Unreliable
        BY <1>1, <2>1, <2>2, <3>2, SameNumber
      <3>4. CASE f \in Range(Decoded(p.frames)) /\ f.num \in got'
        <4> DEFINE g == [msg |-> resend'[n].msg, num |-> n]
        <4>1. g \in Known' /\ g.num = n /\ g.msg = f.msg
          BY <2>1, <3>3, KnownFrames
        <4>2. delivered'[f.msg] > 0
          BY <3>2, <3>3, <3>4, <4>1 DEF GotDelivered
        <4> QED
          BY <3>3, <4>2 DEF Settled
      <3>5. CASE f \in Range(Decoded(p.frames)) /\ f.num \notin got'
        <4>1. f.msg \in Refused(p, got')
          BY <2>2, <3>2, <3>5 DEF Refused
        <4> QED
          BY <1>2, <3>3, <4>1 DEF Settled
      <3>6. CASE f \notin Range(Decoded(p.frames))
        <4>1. f.msg \in obscured
          BY <3>2, <3>6 DEF Kept, Recorded
        <4> QED
          BY <1>2, <3>3, <4>1 DEF Settled
      <3> QED
        BY <3>4, <3>5, <3>6
    <2>4. CASE s # p.seq
      <3>1. Settled(resend[n].msg)
        BY <2>1, <2>4 DEF Kept, AckedSettled
      <3> QED
        BY <1>2, <2>2, <3>1 DEF Settled
    <2> QED
      BY <2>3, <2>4
  <1>4. Recorded'
    BY DEF Kept, Recorded
  <1>5. NoSilentLoss'
    BY <1>2, SentMessages, NothingLost DEF Kept
  <1> QED
    BY <1>3, <1>4, <1>5 DEF Kept

(* A datagram that is taken for a duplicate, or is one: what was let       *)
(* through is delivered, and the rest is refused.                          *)
LEMMA SkipDataKept ==
    ASSUME IInv, Kept, NEW p \in net, SkipData(p), net' \subseteq net
    PROVE  Kept'
  <1>1. /\ p \in Data /\ arrived' = arrived \cup {p.seq}
        /\ refused' = refused \cup Refused(p, got')
        /\ UNCHANGED <<sent, queue, resend, history, obscured, untracked, got, delivered>>
    BY DEF SkipData, senderVars, Data, Acknowledge
  <1>2. Data' \subseteq Data
    BY DEF Data
  <1>3. GotDelivered'
    <2>1. Known' \subseteq Known
      BY <1>1, <1>2, SubsetKnown
    <2> QED
      BY <1>1, <2>1 DEF Kept, GotDelivered
  <1> QED
    BY <1>1, <1>2, <1>3, ArrivedKept

(* A datagram that is accepted: the numbers that are let through belong to *)
(* messages that are handed on.                                            *)
LEMMA AcceptDataKept ==
    ASSUME IInv, Kept, NEW p \in net, AcceptData(p), net' \subseteq net
    PROVE  Kept'
  <1> DEFINE frames == Range(Decoded(p.frames))
             fresh == Fresh(NumsOf(Decoded(p.frames)))
             handed == {f.msg : f \in {g \in frames : g.num = NoNum \/ g.num \in fresh}}
  <1>1. /\ p \in Data /\ arrived' = arrived \cup {p.seq}
        /\ got' = got \cup fresh /\ refused' = refused \cup Refused(p, got')
        /\ delivered' = [m \in Messages |-> delivered[m] + IF m \in handed THEN 1 ELSE 0]
        /\ UNCHANGED <<sent, queue, resend, nextNum, history, obscured, untracked>>
    BY DEF AcceptData, Data, senderVars, Acknowledge
  <1>2. p.frames \in Seq(Frame) /\ delivered \in [Messages -> {0, 1}]
    BY <1>1 DEF IInv, Typed
  <1>3. frames \subseteq Range(p.frames) /\ Range(p.frames) \subseteq Known
    BY <1>1, <1>2, DecodedWithin, KnownFrames
  <1>4. Data' \subseteq Data /\ Known' \subseteq Known
    <2>1. Data' \subseteq Data
      BY DEF Data
    <2> QED
      BY <1>1, <2>1, SubsetKnown
  <1>5. \A n \in fresh : \E g \in frames : g.num = n /\ n # NoNum
    BY DEF Fresh, NumsOf
  <1> HIDE DEF fresh
  (* What was delivered stays so, and what is handed on is delivered. *)
  <1>6. \A m \in Messages : /\ delivered[m] > 0 => delivered'[m] > 0
                            /\ m \in handed => delivered'[m] > 0
    <2> SUFFICES ASSUME NEW m \in Messages
                 PROVE  /\ delivered[m] > 0 => delivered'[m] > 0
                        /\ m \in handed => delivered'[m] > 0
      OBVIOUS
    <2>1. delivered[m] \in {0, 1} /\ delivered'[m] = delivered[m] + IF m \in handed THEN 1 ELSE 0
      BY <1>1, <1>2
    <2> HIDE DEF handed
    <2> QED
      BY <2>1
  <1>7. GotDelivered'
    <2> SUFFICES ASSUME NEW f \in Known', f.msg \notin Unreliable, f.num \in got'
                 PROVE  delivered'[f.msg] > 0
      BY DEF GotDelivered
    <2>1. f \in Known /\ f.msg \in Messages
      BY <1>4, SentMessages DEF IInv, Numbered
    <2>2. CASE f.num \in got
      BY <1>6, <2>1, <2>2 DEF Kept, GotDelivered
    <2>3. CASE f.num \in fresh
      <3>1. PICK g \in frames : g.num = f.num /\ g.num # NoNum
        BY <1>5, <2>3
      <3>2. g \in Known /\ f.num # NoNum
        BY <1>3, <3>1
      <3>3. g.msg = f.msg /\ g.msg \in handed
        BY <2>1, <2>3, <3>1, <3>2, SameNumber
      <3> HIDE DEF handed
      <3> QED
        BY <1>6, <2>1, <3>3
    <2> QED
      BY <1>1, <2>2, <2>3
  <1> HIDE DEF handed
  <1> QED
    BY <1>1, <1>4, <1>6, <1>7, ArrivedKept

(* What the resend buffer holds stays there in an update, and every new    *)
(* reliable message joins it or is noted as untracked.                     *)
LEMMA Retained ==
    ASSUME IInv, NEW resent, NEW fresh, NEW stale, NEW taken \in Nat,
           Takes(resent, fresh, stale, taken)
    PROVE  /\ \A n \in DOMAIN resend : n \in DOMAIN resend' /\ resend'[n].msg = resend[n].msg
           /\ \A n \in DOMAIN resend' : n < nextNum => n \in DOMAIN resend
           /\ \A i \in 1 .. taken : queue[i] \notin Unreliable =>
                 \/ \E n \in DOMAIN resend' : resend'[n].msg = queue[i]
                 \/ queue[i] \in untracked'
           /\ untracked \subseteq untracked'
  <1> DEFINE newNums == NumsOf(fresh)
             tracked == {n \in newNums :
                           Cardinality(DOMAIN resend) + (n - nextNum) < MaxResend}
             old(n) == [resend[n] EXCEPT !.naked = @ /\ n \notin NumsOf(resent)]
             carrier(n) == CHOOSE f \in Range(fresh) : f.num = n
  <1>1. resend' = [n \in DOMAIN resend \cup tracked |->
                     IF n \in newNums THEN [msg |-> carrier(n).msg, naked |-> FALSE]
                     ELSE old(n)]
    BY DEF Takes, Pack
  <1>2. /\ DOMAIN fresh = 1 .. taken
        /\ \A i \in 1 .. taken :
              /\ fresh[i].msg = queue[i]
              /\ IF queue[i] \in Unreliable THEN fresh[i].num = NoNum
                 ELSE fresh[i].num \in nextNum .. nextNum' - 1
        /\ \A i, j \in 1 .. taken :
              fresh[i].num # NoNum /\ fresh[i].num = fresh[j].num => i = j
        /\ nextNum <= nextNum'
    BY DEF Takes
  <1>3. nextNum \in Nat /\ \A n \in DOMAIN resend : n \in 0 .. nextNum - 1
    BY DEF IInv, Typed
  <1>4. newNums = {fresh[i].num : i \in 1 .. taken} \ {NoNum}
    BY <1>2 DEF NumsOf, Range
  <1>5. \A n \in newNums : n \in nextNum .. nextNum' - 1
    BY <1>2, <1>4
  <1>6. \A n \in DOMAIN resend : n \notin newNums
    BY <1>3, <1>5
  <1>7. tracked \subseteq newNums
    OBVIOUS
  <1>8. untracked' = untracked \cup
            {f.msg : f \in {g \in Range(fresh) : g.num \in newNums \ tracked}}
    BY DEF Takes, Pack
  <1> HIDE DEF newNums, tracked
  <1>9. ASSUME NEW n \in DOMAIN resend
        PROVE  n \in DOMAIN resend' /\ resend'[n].msg = resend[n].msg
    <2>1. n \in DOMAIN resend' /\ resend'[n] = old(n)
      BY <1>1, <1>6
    <2> QED
      BY <2>1
  <1>10. ASSUME NEW n \in DOMAIN resend', n < nextNum
         PROVE  n \in DOMAIN resend
    <2>1. n \notin newNums
      <3> SUFFICES ASSUME n \in newNums PROVE FALSE
        OBVIOUS
      <3>1. n \in nextNum .. nextNum' - 1
        BY <1>5
      <3> QED
        BY <1>3, <1>10, <3>1
    <2> QED
      BY <1>1, <1>7, <2>1
  <1>11. ASSUME NEW i \in 1 .. taken, queue[i] \notin Unreliable,
                queue[i] \notin untracked'
         PROVE  \E n \in DOMAIN resend' : resend'[n].msg = queue[i]
    <2> DEFINE n == fresh[i].num
    <2>1. n \in nextNum .. nextNum' - 1 /\ n # NoNum
      BY <1>2, <1>3, <1>11 DEF NoNum
    <2>2. n \in newNums
      BY <1>4, <2>1
    <2>4. fresh[i] \in Range(fresh) /\ fresh[i].num = n /\ fresh[i].msg = queue[i]
      BY <1>2 DEF Range
    <2>9. n \in tracked
      BY <1>8, <1>11, <2>2, <2>4
    <2>3. resend'[n] = [msg |-> carrier(n).msg, naked |-> FALSE] /\ n \in DOMAIN resend'
      BY <1>1, <2>2, <2>9
    <2>5. carrier(n) \in Range(fresh) /\ carrier(n).num = n
      BY <2>4
    <2> HIDE DEF carrier
    <2>6. PICK j \in 1 .. taken : carrier(n) = fresh[j]
      BY <1>2, <2>5 DEF Range
    <2>7. j = i
      BY <1>2, <2>1, <2>5, <2>6
    <2>8. resend'[n].msg = queue[i]
      BY <1>2, <2>3, <2>6, <2>7
    <2> HIDE DEF n
    <2> QED
      BY <2>3, <2>8
  <1> QED
    BY <1>8, <1>9, <1>10, <1>11

(* A number known after an update was known, or is not let through yet.    *)
LEMMA NumbersKnown ==
    ASSUME IInv, IInv', NEW resent \in Seq(Frame), NEW fresh \in Seq(Frame), NEW stale, NEW taken,
           Takes(resent, fresh, stale, taken), NEW f \in Known', f.num # NoNum, f.num \in got
    PROVE  f \in Known
  <1>1. nextSeq \in Nat /\ nextNum \in Nat /\ got \subseteq 0 .. nextNum - 1
    BY DEF IInv, Typed
  <1>2. \A g \in Range(fresh) : g.num # NoNum => g.num \in nextNum .. nextNum' - 1
    BY DEF Takes, Range
  <1>3. f.num \in 0 .. nextNum - 1
    BY <1>1
  <1>4. \A g \in Range(fresh) : g.num # f.num
    BY <1>1, <1>2, <1>3
  <1>5. CASE \E p \in Data' : f \in Range(p.frames)
    <2>1. PICK p \in Data' : f \in Range(p.frames)
      BY <1>5
    <2>2. p \in Data \/ Made(p, resent, fresh)
      BY <1>1, Packed DEF Takes
    <2>3. CASE p \in Data
      BY <2>1, <2>3, KnownFrames
    <2>4. CASE Made(p, resent, fresh)
      <3>1. f \in Range(resent) \/ \E i \in DOMAIN fresh : f = fresh[i]
        BY <2>1, <2>4 DEF Made
      <3>2. ~ \E i \in DOMAIN fresh : f = fresh[i]
        BY <1>4 DEF Range
      <3> QED
        BY <3>1, <3>2 DEF Takes
    <2> QED
      BY <2>2, <2>3, <2>4
  <1>6. CASE \E n \in DOMAIN resend' : f = [msg |-> resend'[n].msg, num |-> n]
    <2>1. PICK n \in DOMAIN resend' : f = [msg |-> resend'[n].msg, num |-> n]
      BY <1>6
    <2>2. f.num = n
      BY <2>1
    <2>3. n \in DOMAIN resend /\ resend'[n].msg = resend[n].msg
      BY <1>4, <2>1, <2>2, Tracked DEF Takes
    <2> QED
      BY <2>1, <2>3, KnownFrames
  <1> QED
    BY <1>5, <1>6, KnownFrames

(* What an update takes from the queue it keeps for retransmission.        *)
LEMMA SenderTickKept ==
    ASSUME IInv, IInv', Books, Kept, SenderTick
    PROVE  Kept'
  <1>1. PICK resent \in Seq(Frame), fresh \in Seq(Frame), stale \in StaleSets,
             taken \in 0 .. Len(queue) : Takes(resent, fresh, stale, taken)
    BY TickTakes
  <1>2. UNCHANGED <<sent, arrived, refused, got, delivered>>
    BY <1>1 DEF Takes, receiverVars
  <1>3. /\ obscured \subseteq obscured'
        /\ \A s \in DOMAIN history' :
              s < nextSeq => s \in DOMAIN history /\ history'[s] = history[s]
        /\ \A p \in net' : p.type # "data" => p \in net
        /\ \A p \in Data' : p \in Data \/
              /\ p.seq >= nextSeq
              /\ p.seq \in DOMAIN history' => history'[p.seq].nums = NumsOf(p.frames)
              /\ \A f \in Range(p.frames) \ Range(Decoded(p.frames)) : f.msg \in obscured'
    BY <1>1, PackedRecords DEF Takes, Books
  <1>4. /\ \A n \in DOMAIN resend : n \in DOMAIN resend' /\ resend'[n].msg = resend[n].msg
        /\ \A n \in DOMAIN resend' : n < nextNum => n \in DOMAIN resend
        /\ \A i \in 1 .. taken : queue[i] \notin Unreliable =>
              \/ \E n \in DOMAIN resend' : resend'[n].msg = queue[i]
              \/ queue[i] \in untracked'
        /\ untracked \subseteq untracked'
    <2>1. taken \in Nat
      BY DEF IInv, Typed
    <2> QED
      BY <1>1, <2>1, Retained
  <1>5. /\ nextSeq \in Nat /\ nextNum \in Nat /\ queue \in Seq(Messages)
        /\ \A p \in Data : p.seq \in 0 .. nextSeq - 1
    BY DEF IInv, Typed
  <1>11. Given \subseteq Given' /\ untracked' \subseteq Given'
    BY <1>2, <1>3, <1>4 DEF Given
  <1>6. AckedSettled'
    <2> SUFFICES ASSUME NEW s \in DOMAIN history' \cap arrived',
                        NEW n \in history'[s].nums \cap DOMAIN resend'
                 PROVE  Settled(resend[n].msg)'
      BY DEF AckedSettled
    <2>2. s \in 0 .. nextSeq - 1 /\ s \in arrived
      BY <1>2 DEF Books, Shapes
    <2>3. s \in DOMAIN history /\ history'[s] = history[s]
      BY <1>3, <1>5, <2>2
    <2>4. n \in 0 .. nextNum - 1
      BY <2>3 DEF Books, Records
    <2>5. n \in DOMAIN resend /\ resend'[n].msg = resend[n].msg
      BY <1>4, <1>5, <2>4
    <2>6. Settled(resend[n].msg)
      BY <2>2, <2>3, <2>5 DEF Kept, AckedSettled
    <2> QED
      BY <1>2, <1>11, <2>5, <2>6 DEF Settled
  <1>7. Recorded'
    <2> SUFFICES ASSUME NEW p \in Data'
                 PROVE  /\ p.seq \in DOMAIN history' =>
                              history'[p.seq].nums \subseteq NumsOf(p.frames)
                        /\ \A f \in Range(p.frames) \ Range(Decoded(p.frames)) :
                              f.msg \in obscured'
      BY DEF Recorded
    <2>1. CASE p \in Data
      <3>1. p.seq \in DOMAIN history' =>
               p.seq \in DOMAIN history /\ history'[p.seq] = history[p.seq]
        BY <1>3, <1>5, <2>1
      <3> QED
        BY <1>3, <2>1, <3>1 DEF Kept, Recorded
    <2>2. CASE p \notin Data
      BY <1>3, <2>2
    <2> QED
      BY <2>1, <2>2
  <1>8. GotDelivered'
    <2> SUFFICES ASSUME NEW f \in Known', f.msg \notin Unreliable, f.num \in got'
                 PROVE  delivered'[f.msg] > 0
      BY DEF GotDelivered
    <2>1. f.num # NoNum
      <3>1. got \subseteq 0 .. nextNum - 1
        BY DEF IInv, Typed
      <3> QED
        BY <1>2, <1>5, <3>1 DEF NoNum
    <2>2. f \in Known
      BY <1>1, <1>2, <2>1, NumbersKnown
    <2> QED
      BY <1>2, <2>2 DEF Kept, GotDelivered
  <1>10. NoSilentLoss'
    <2> SUFFICES ASSUME NEW m \in 1 .. sent' \ (Unreliable \cup Given')
                 PROVE  \/ \E i \in DOMAIN queue' : queue'[i] = m
                        \/ \E n \in DOMAIN resend' : resend'[n].msg = m
                        \/ delivered'[m] > 0
      BY DEF NoSilentLoss, Given
    <2>1. m \in 1 .. sent \ (Unreliable \cup Given)
      BY <1>2, <1>11
    <2>2. CASE \E i \in DOMAIN queue : queue[i] = m
      <3>1. PICK i \in DOMAIN queue : queue[i] = m
        BY <2>2
      <3>2. CASE i > taken
        <4>1. i - taken \in DOMAIN queue' /\ queue'[i - taken] = queue[i]
          BY <1>1, <3>2 DEF Takes
        <4> QED
          BY <3>1, <4>1
      <3>3. CASE ~(i > taken)
        <4>1. i \in 1 .. taken
          BY <1>5, <3>3
        <4> QED
          BY <1>4, <1>11, <2>1, <3>1, <4>1
      <3> QED
        BY <3>2, <3>3
    <2>3. CASE \E n \in DOMAIN resend : resend[n].msg = m
      BY <1>4, <2>3
    <2>4. CASE delivered[m] > 0
      BY <1>2, <2>4
    <2> QED
      BY <2>1, <2>2, <2>3, <2>4 DEF Kept, NoSilentLoss, Given
  <1> QED
    BY <1>6, <1>7, <1>8, <1>10 DEF Kept

(* Whatever arrives.                                                       *)
LEMMA HandleKept ==
    ASSUME IInv, Books, Kept, NEW p \in net, Handle(p), net' \subseteq net
    PROVE  Kept'
  BY HandleAckKept, HandleNakKept, RejectDataKept, SkipDataKept, AcceptDataKept DEF Handle

(* Nothing is sent at first,                                               *)
LEMMA KeptFirst == Init => Kept
  <1> SUFFICES ASSUME Init
               PROVE  Kept
    OBVIOUS
  <1>1. sent = 0 /\ DOMAIN history = {} /\ Data = {} /\ Known = {}
    BY DEF Init, Data, Known
  <1> QED
    BY <1>1 DEF Kept, AckedSettled, Recorded, GotDelivered, NoSilentLoss

(* and every step keeps what it has to.                                    *)
LEMMA KeptNext ==
    ASSUME IInv, Books, Kept, [Next]_vars
    PROVE  Kept'
  <1>1. CASE Send
    BY <1>1, SendKept
  <1>2. CASE SenderTick
    <2>1. IInv'
      BY BooksNext
    <2> QED
      BY <1>2, <2>1, SenderTickKept
  <1>3. CASE ReceiverTick
    <2>1. UNCHANGED <<senderVars, arrived, refused, got, delivered>>
      BY <1>3 DEF ReceiverTick
    <2> QED
      BY <1>3, <2>1, TickNoData, QuietKept
  <1>4. CASE Receive
    <2>1. PICK p \in net : Handle(p) /\ net' = net \ {p}
      BY <1>4 DEF Receive
    <2> QED
      BY <2>1, HandleKept
  <1>5. CASE Duplicate
    <2>1. PICK p \in net : Handle(p) /\ net' = net
      BY <1>5 DEF Duplicate
    <2> QED
      BY <2>1, HandleKept
  <1>6. CASE Lose
    <2>1. net' \subseteq net /\ UNCHANGED <<senderVars, receiverVars>>
      BY <1>6 DEF Lose
    <2> QED
      BY <2>1, LoseKept
  <1>7. CASE UNCHANGED vars
    BY <1>7, LoseKept DEF vars
  <1> QED
    BY <1>1, <1>2, <1>3, <1>4, <1>5, <1>6, <1>7 DEF Next

(* A message that was sent reliable is queued, tracked for retransmission  *)
(* or delivered, whatever the network loses, repeats or reorders, and      *)
(* whichever record is dropped or evicted: unless it was given up in one   *)
(* of the three ways that the formula names.                               *)
THEOREM NothingSilentlyLost == Spec => []NoSilentLoss
  <1>1. Init => Kept
    BY KeptFirst
  <1>2. (IInv /\ Books) /\ Kept /\ [Next]_vars => Kept'
    BY KeptNext
  <1>3. Kept => NoSilentLoss
    BY DEF Kept
  <1> QED
    BY <1>1, <1>2, <1>3, BooksAlwaysKept, PTL DEF Spec

----------------------------------------------------------------------------
(* What a NAK asks for.                                                    *)

(* A datagram that has arrived is below the awaited one, and the numbers a *)
(* later one shows to be missing are not.                                  *)
LEMMA MissedNotArrived ==
    ASSUME IInv, Books, NEW p \in net, p.type = "data", Acknowledge(p.seq)
    PROVE  (Covered(naks') \ Covered(naks)) \cap arrived = {}
  <1>1. p.seq \in 0 .. nextSeq - 1
    BY DEF IInv, Typed, Data
  <1>2. Covered(naks') \subseteq Covered(naks) \cup Missed(p.seq)
    BY <1>1, AcknowledgeNotes
  <1>3. expected \in Nat /\ p.seq \in Nat /\ \A t \in arrived : t \in Nat /\ t < expected
    BY <1>1 DEF Books, Shapes
  <1>4. \A t \in Missed(p.seq) : t \in Nat /\ t >= expected
    BY <1>3 DEF Missed
  <1>5. Missed(p.seq) \cap arrived = {}
    <2> SUFFICES ASSUME NEW t \in Missed(p.seq), t \in arrived PROVE FALSE
      OBVIOUS
    <2> QED
      BY <1>3, <1>4
  <1> QED
    BY <1>2, <1>5

(* Every step adds to the NAK only what has not arrived, and sends no NAK  *)
(* for anything else.                                                      *)
LEMMA NaksNext ==
    ASSUME IInv, Books, Next
    PROVE  /\ (Covered(naks') \ Covered(naks)) \cap arrived = {}
           /\ \A p \in net' \ net : p.type = "nak" => Covered(p.ranges) \subseteq Covered(naks)
  <1>1. CASE Send \/ Lose
    <2>1. naks' = naks /\ net' \subseteq net
      BY <1>1 DEF Send, Lose, receiverVars
    <2> QED
      BY <2>1
  <1>2. CASE SenderTick
    <2>1. PICK resent \in Seq(Frame), fresh \in Seq(Frame), stale \in StaleSets,
               taken \in 0 .. Len(queue) : Takes(resent, fresh, stale, taken)
      BY <1>2, TickTakes
    <2>2. naks' = naks
      BY <2>1 DEF Takes, receiverVars
    <2>3. \A p \in net' : p.type # "data" => p \in net
      BY <2>1, PackedRecords DEF Takes, Books
    <2> QED
      BY <2>2, <2>3
  <1>3. CASE ReceiverTick
    <2>1. PICK flush \in BOOLEAN :
              /\ net' = net \cup (IF flush THEN Packets("ack", acks) ELSE {})
                            \cup Packets("nak", naks)
              /\ naks' = << >>
      BY <1>3 DEF ReceiverTick
    <2>2. /\ \A p \in Packets("ack", acks) : p.type = "ack"
          /\ \A p \in Packets("nak", naks) : Covered(p.ranges) \subseteq Covered(naks)
      BY PacketsListed DEF Books, Listed
    <2> QED
      BY <2>1, <2>2, EmptyList
  <1>4. CASE Receive \/ Duplicate
    <2>1. PICK p \in net : Handle(p) /\ net' \subseteq net
      BY <1>4 DEF Receive, Duplicate
    <2>2. CASE HandleAck(p) \/ HandleNak(p) \/ RejectData(p)
      <3>1. naks' = naks
        BY <2>2 DEF HandleAck, HandleNak, RejectData, receiverVars
      <3> QED
        BY <2>1, <3>1
    <2>3. CASE SkipData(p) \/ AcceptData(p)
      <3>1. p.type = "data" /\ Acknowledge(p.seq)
        BY <2>3 DEF SkipData, AcceptData
      <3> QED
        BY <2>1, <3>1, MissedNotArrived
    <2> QED
      BY <2>1, <2>2, <2>3 DEF Handle
  <1> QED
    BY <1>1, <1>2, <1>3, <1>4 DEF Next

(* A NAK never asks for a datagram that had arrived when it was noted as   *)
(* missing, however late and in whatever order the datagrams come.         *)
LEMMA NaksAlwaysForMissing == Spec => NaksAskForMissing
  <1>1. (IInv /\ Books) /\ [Next]_vars =>
            [/\ (Covered(naks') \ Covered(naks)) \cap arrived = {}
             /\ \A p \in net' \ net :
                    p.type = "nak" => Covered(p.ranges) \subseteq Covered(naks)]_vars
    BY NaksNext
  <1> QED
    BY <1>1, BooksAlwaysKept, PTL DEF Spec, NaksAskForMissing

(* The receiver's reports to the sender are true, whatever the order in    *)
(* which datagrams come and however its lists are cut into packets: an ACK *)
(* covers only what arrived, a NAK only what had not.                      *)
THEOREM ReportsAlwaysTruthful == Spec => ReportsTruthful
  BY AcksAlwaysTruthful, NaksAlwaysForMissing, PTL DEF ReportsTruthful

----------------------------------------------------------------------------
(* Within the limits nothing is given up.                                  *)

(* Every number more than MaxGap behind the newest was let through.        *)
GapClosed == \A m \in 0 .. nextNum - MaxGap - 2 : m \in got

(* A step numbers no more messages than the resend buffer has room for.    *)
RoomLeft == nextNum' - nextNum <= MaxResend - Cardinality(DOMAIN resend)

(* The messages that get a number.                                         *)
Reliable == Messages \ Unreliable

(* The reliable messages that were sent and have left the queue; there are *)
(* at least as many as there are numbers.                                  *)
OutOfQueue == {m \in 1 .. sent : m \notin Unreliable /\ \A i \in DOMAIN queue : queue[i] # m}
NumbersSent == nextNum <= Cardinality(OutOfQueue)

(* They are messages, now and after a step, so they can be counted. *)
LEMMA ReliableSize ==
    /\ IsFiniteSet(Reliable)
    /\ \A S \in SUBSET Reliable :
          /\ IsFiniteSet(S) /\ Cardinality(S) \in Nat /\ Cardinality(Reliable) \in Nat
          /\ Cardinality(S) <= Cardinality(Reliable)
  <1>1. IsFiniteSet(Messages)
    BY TransportAssumption, FS_Interval DEF Messages
  <1>2. IsFiniteSet(Reliable)
    BY <1>1, FS_Subset DEF Reliable
  <1>3. \A S \in SUBSET Reliable : IsFiniteSet(S) /\ Cardinality(S) <= Cardinality(Reliable)
    BY <1>2, FS_Subset
  <1> QED
    BY <1>2, <1>3, FS_CardinalityType

(* Only reliable messages are numbered, before a step and after it.        *)
LEMMA OutOfQueueReliable ==
    /\ IInv => OutOfQueue \in SUBSET Reliable
    /\ IInv' => OutOfQueue' \in SUBSET Reliable
  <1>1. IInv => sent \in 0 .. MaxMessages
    BY DEF IInv, Typed
  <1>2. IInv' => sent' \in 0 .. MaxMessages
    BY DEF IInv, Typed
  <1>3. \A k \in 0 .. MaxMessages : 1 .. k \subseteq Messages
    BY TransportAssumption DEF Messages
  <1> QED
    BY <1>1, <1>2, <1>3 DEF OutOfQueue, Reliable

(* An update gives numbers to no more than the reliable messages it takes. *)
LEMMA NumbersOfTaken ==
    ASSUME IInv, NEW resent, NEW fresh, NEW stale, NEW taken \in 0 .. Len(queue),
           Takes(resent, fresh, stale, taken), NEW B,
           B = {queue[i] : i \in {j \in 1 .. taken : queue[j] \notin Unreliable}}
    PROVE  IsFiniteSet(B) /\ Cardinality(B) \in Nat /\ nextNum' <= nextNum + Cardinality(B)
  <1> DEFINE nums == NumsOf(fresh)
             carrier(m) == CHOOSE i \in 1 .. taken : queue[i] = m
             h == [m \in B |-> fresh[carrier(m)].num]
  <1>1. /\ DOMAIN fresh = 1 .. taken
        /\ \A i \in 1 .. taken :
              /\ i \in DOMAIN queue
              /\ IF queue[i] \in Unreliable THEN fresh[i].num = NoNum
                 ELSE fresh[i].num \in nextNum .. nextNum' - 1
    BY DEF Takes
  <1>2. nextNum \in Nat /\ queue \in Seq(Messages)
    BY DEF IInv, Typed
  <1>3. nums = {fresh[i].num : i \in 1 .. taken} \ {NoNum}
    BY <1>1 DEF NumsOf, Range
  <1>4. \A i \in 1 .. taken : fresh[i].num # NoNum <=> queue[i] \notin Unreliable
    BY <1>1, <1>2 DEF NoNum
  <1>5. \A i \in 1 .. taken : carrier(queue[i]) = i
    <2> SUFFICES ASSUME NEW i \in 1 .. taken
                 PROVE  carrier(queue[i]) = i
      OBVIOUS
    <2>1. carrier(queue[i]) \in 1 .. taken /\ queue[carrier(queue[i])] = queue[i]
      OBVIOUS
    <2> HIDE DEF carrier
    <2> QED
      BY <1>1, <2>1 DEF IInv, QueueFresh
  <1> HIDE DEF carrier, nums
  <1>6. h \in Surjection(B, nums)
    <2>1. \A m \in B : h[m] \in nums
      <3> SUFFICES ASSUME NEW i \in 1 .. taken, queue[i] \notin Unreliable
                   PROVE  fresh[carrier(queue[i])].num \in nums
        OBVIOUS
      <3> QED
        BY <1>3, <1>4, <1>5
    <2>2. \A n \in nums : \E m \in B : h[m] = n
      <3> SUFFICES ASSUME NEW n \in nums
                   PROVE  \E m \in B : h[m] = n
        OBVIOUS
      <3>1. PICK i \in 1 .. taken : fresh[i].num = n /\ n # NoNum
        BY <1>3
      <3>2. queue[i] \in B
        BY <1>4, <3>1
      <3>3. h[queue[i]] = n
        BY <1>5, <3>1, <3>2
      <3> QED
        BY <3>2, <3>3
    <2> QED
      BY <2>1, <2>2 DEF Surjection
  <1>7. IsFiniteSet(B)
    <2>1. \A m \in B : m \in Messages
      BY <1>1, <1>2
    <2>2. IsFiniteSet(1 .. MaxMessages)
      BY TransportAssumption, FS_Interval
    <2> QED
      BY <2>1, <2>2, SentMessages, FS_Subset
  <1>8. Cardinality(nums) <= Cardinality(B) /\ IsFiniteSet(nums)
    <2> HIDE DEF h
    <2> QED
      BY <1>6, <1>7, FS_Surjection
  <1>9. Cardinality(nums) \in Nat /\ Cardinality(B) \in Nat
    BY <1>7, <1>8, FS_CardinalityType
  <1>10. nextNum' = nextNum + Cardinality(nums)
    BY DEF Takes, Pack, nums
  <1> QED
    BY <1>2, <1>7, <1>8, <1>9, <1>10

(* Numbers go to messages that leave the queue.                            *)
LEMMA NumbersSentNext ==
    ASSUME IInv, NumbersSent, [Next]_vars
    PROVE  NumbersSent'
  <1>1. nextNum \in Nat /\ sent \in Nat /\ queue \in Seq(Messages) /\ Len(queue) \in Nat
    BY SentMessages DEF IInv, Typed
  <1>2. CASE Send
    <2>1. sent' = sent + 1 /\ queue' = Append(queue, sent + 1) /\ nextNum' = nextNum
          /\ sent + 1 \in Messages
      BY <1>2, SentMessages, TransportAssumption DEF Send
    <2>2. /\ DOMAIN queue' = DOMAIN queue \cup {Len(queue) + 1}
          /\ \A i \in DOMAIN queue : queue'[i] = queue[i]
          /\ queue'[Len(queue) + 1] = sent + 1
      BY <1>1, <2>1, AppendProperties
    <2>3. \A m \in 1 .. sent : m # sent + 1
      BY <1>1
    <2>4. 1 .. sent' = 1 .. sent \cup {sent + 1}
      BY <1>1, <2>1
    <2>5. OutOfQueue' = OutOfQueue
      BY <2>2, <2>3, <2>4 DEF OutOfQueue
    <2> QED
      BY <2>1, <2>5 DEF NumbersSent
  <1>3. CASE SenderTick
    <2>1. PICK resent \in Seq(Frame), fresh \in Seq(Frame), stale \in StaleSets,
               taken \in 0 .. Len(queue) : Takes(resent, fresh, stale, taken)
      BY <1>3, TickTakes
    <2> DEFINE B == {queue[i] : i \in {j \in 1 .. taken : queue[j] \notin Unreliable}}
    <2>2. IsFiniteSet(B) /\ Cardinality(B) \in Nat /\ nextNum' <= nextNum + Cardinality(B)
      BY <2>1, NumbersOfTaken
    <2>3. /\ sent' = sent /\ \A i \in 1 .. taken : i \in DOMAIN queue
          /\ \A i \in DOMAIN queue : i > taken =>
                i - taken \in DOMAIN queue' /\ queue'[i - taken] = queue[i]
          /\ Len(queue') = Len(queue) - taken
      BY <2>1 DEF Takes
    <2>4. IInv' /\ queue' \in Seq(Messages)
      <3>1. IInv'
        BY NextStep
      <3> QED
        BY <3>1 DEF IInv, Typed
    <2>5. \A j \in DOMAIN queue' : j + taken \in DOMAIN queue /\ j + taken > taken
                                   /\ queue'[j] = queue[j + taken]
      <3> SUFFICES ASSUME NEW j \in DOMAIN queue'
                   PROVE  j + taken \in DOMAIN queue /\ j + taken > taken
                          /\ queue'[j] = queue[j + taken]
        OBVIOUS
      <3>1. j \in 1 .. Len(queue') /\ Len(queue') \in Nat
        BY <2>4
      <3>2. j + taken \in 1 .. Len(queue) /\ j + taken > taken /\ (j + taken) - taken = j
        BY <1>1, <2>3, <3>1
      <3>3. j + taken \in DOMAIN queue
        BY <1>1, <3>2
      <3> QED
        BY <2>3, <3>2, <3>3
    <2>6. \A i, j \in DOMAIN queue : queue[i] = queue[j] => i = j
      BY DEF IInv, QueueFresh
    <2>7. \A m \in OutOfQueue : m \in OutOfQueue' /\ m \notin B
      BY <2>3, <2>5 DEF OutOfQueue
    <2>8. \A m \in B : m \in OutOfQueue'
      <3> SUFFICES ASSUME NEW i \in 1 .. taken, queue[i] \notin Unreliable
                   PROVE  queue[i] \in OutOfQueue'
        OBVIOUS
      <3>1. queue[i] \in 1 .. sent'
        BY <2>3 DEF IInv, QueueFresh
      <3>2. \A j \in DOMAIN queue' : queue'[j] # queue[i]
        BY <2>3, <2>5, <2>6
      <3> QED
        BY <3>1, <3>2 DEF OutOfQueue
    <2> HIDE DEF B
    <2>9. OutOfQueue \cap B = {} /\ OutOfQueue \cup B \subseteq OutOfQueue'
      BY <2>7, <2>8
    <2>10. IsFiniteSet(OutOfQueue) /\ Cardinality(OutOfQueue) \in Nat
      BY OutOfQueueReliable, ReliableSize
    <2>11. Cardinality(OutOfQueue \cup B) = Cardinality(OutOfQueue) + Cardinality(B)
           /\ IsFiniteSet(OutOfQueue \cup B)
      <3>1. /\ IsFiniteSet(OutOfQueue \cup B)
            /\ Cardinality(OutOfQueue \cup B) =
                 Cardinality(OutOfQueue) + Cardinality(B) - Cardinality(OutOfQueue \cap B)
        BY <2>2, <2>10, FS_Union
      <3>2. Cardinality(OutOfQueue \cap B) = 0
        BY <2>9, FS_EmptySet
      <3> QED
        BY <2>2, <2>10, <3>1, <3>2
    <2>12. IsFiniteSet(OutOfQueue') /\ Cardinality(OutOfQueue') \in Nat
      BY <2>4, OutOfQueueReliable, ReliableSize
    <2>13. Cardinality(OutOfQueue \cup B) <= Cardinality(OutOfQueue')
      BY <2>9, <2>12, FS_Subset
    <2>14. nextNum' \in Nat
      BY <2>4 DEF IInv, Typed
    <2> QED
      BY <1>1, <2>2, <2>10, <2>11, <2>12, <2>13, <2>14 DEF NumbersSent
  <1>4. CASE UNCHANGED <<sent, queue, nextNum>>
    <2>1. OutOfQueue' = OutOfQueue
      BY <1>4 DEF OutOfQueue
    <2> QED
      BY <1>4, <2>1 DEF NumbersSent
  <1>5. CASE ReceiverTick \/ Lose \/ UNCHANGED vars
    BY <1>4, <1>5 DEF ReceiverTick, Lose, vars, senderVars
  <1>6. CASE Receive \/ Duplicate
    <2>1. PICK p \in net : Handle(p)
      BY <1>6 DEF Receive, Duplicate
    <2> QED
      BY <1>4, <2>1 DEF Handle, HandleAck, HandleNak, RejectData, SkipData, AcceptData, senderVars
  <1> QED
    BY <1>2, <1>3, <1>5, <1>6 DEF Next

(* If all reliable messages fit the resend buffer, and their numbers the   *)
(* reach of check_and_mark, neither limit is met.                          *)
LEMMA RoomForAll ==
    ASSUME Cardinality(Reliable) <= MaxResend, Cardinality(Reliable) <= MaxGap + 1,
           IInv, IInv', NumbersSent, NumbersSent'
    PROVE  GapClosed /\ RoomLeft
  <1>1. nextNum \in Nat /\ nextNum' \in Nat
    BY DEF IInv, Typed
  <1>2. /\ Cardinality(Reliable) \in Nat
        /\ nextNum <= Cardinality(Reliable) /\ nextNum' <= Cardinality(Reliable)
    <2>1. /\ Cardinality(OutOfQueue) \in Nat /\ Cardinality(Reliable) \in Nat
          /\ Cardinality(OutOfQueue) <= Cardinality(Reliable)
      BY OutOfQueueReliable, ReliableSize
    <2>2. /\ Cardinality(OutOfQueue') \in Nat
          /\ Cardinality(OutOfQueue') <= Cardinality(Reliable)
      BY OutOfQueueReliable, ReliableSize
    <2> QED
      BY <1>1, <2>1, <2>2 DEF NumbersSent
  <1>3. GapClosed
    BY <1>1, <1>2, TransportAssumption DEF GapClosed
  <1>4. Cardinality(DOMAIN resend) \in Nat /\ Cardinality(DOMAIN resend) <= nextNum
    <2>1. 0 \in Int /\ nextNum - 1 \in Int
      BY <1>1
    <2>2. /\ IsFiniteSet(0 .. nextNum - 1)
          /\ Cardinality(0 .. nextNum - 1) = IF 0 > nextNum - 1 THEN 0 ELSE (nextNum - 1) - 0 + 1
      BY <2>1, FS_Interval
    <2>3. Cardinality(0 .. nextNum - 1) = nextNum
      BY <1>1, <2>2
    <2>4. DOMAIN resend \subseteq 0 .. nextNum - 1
      BY DEF IInv, Typed
    <2>5. IsFiniteSet(DOMAIN resend) /\ Cardinality(DOMAIN resend) <= nextNum
      BY <2>2, <2>3, <2>4, FS_Subset
    <2> QED
      BY <2>5, FS_CardinalityType
  <1>5. RoomLeft
    BY <1>1, <1>2, <1>4, TransportAssumption DEF RoomLeft
  <1> QED
    BY <1>3, <1>5

(* The receive window ends behind the awaited datagram.                    *)
WindowBehind == dgBase = 0 \/ dgBase + RecvWindowSize <= expected

(* A datagram is known by its number: copies carry the same.               *)
OneEach == \A p, q \in Data : p.seq = q.seq => p = q

(* What a datagram that arrived had to say was let through.                *)
AllPassed == \A p \in Data : p.seq \in arrived => NumsOf(Decoded(p.frames)) \subseteq got

(* The inductive invariant: what the window holds has arrived, so that a   *)
(* datagram is skipped only if it has nothing new.                         *)
Fitting == WindowBehind /\ OneEach /\ AllPassed /\ dgBits \subseteq arrived /\ NothingGivenUp

(* A datagram that arrives and is taken for a duplicate has its bit: it is *)
(* not older than the window, which ends behind the awaited datagram.      *)
LEMMA DuplicateInWindow ==
    ASSUME IInv, WindowBehind, expected \in Nat, MaxReorder < RecvWindowSize,
           NEW p \in Data, Arrives(p), Received(p.seq)
    PROVE  p.seq \in dgBits
  <1>1. p.seq \in Nat /\ dgBase \in Nat /\ p.type = "data"
    BY DEF IInv, Typed, Data
  <1>2. expected - 1 - p.seq <= MaxReorder
    BY <1>1 DEF Arrives
  <1>3. ~(p.seq < dgBase)
    BY <1>1, <1>2, TransportAssumption DEF WindowBehind
  <1> QED
    BY <1>3 DEF Received

(* What becomes of the awaited datagram. *)
LEMMA Awaited ==
    ASSUME IInv, Books, NEW p \in Data, Acknowledge(p.seq)
    PROVE  /\ expected \in Nat /\ expected' \in Nat /\ p.seq \in Nat
           /\ expected <= expected' /\ p.seq < expected'
           /\ Covered(acks') = Covered(acks) \cup {p.seq}
  <1>1. p.seq \in 0 .. nextSeq - 1 /\ p.seq \in Nat
    BY DEF IInv, Typed
  <1>2. Covered(acks') = Covered(acks) \cup {p.seq}
    BY <1>1, AcknowledgeNotes
  <1>3. expected \in Nat /\ expected' = IF p.seq >= expected THEN p.seq + 1 ELSE expected
    BY DEF Books, Shapes, Acknowledge
  <1> QED
    BY <1>1, <1>2, <1>3

(* While no number is out of check_and_mark's reach, it lets through every *)
(* one it has not seen.                                                    *)
LEMMA AllFresh ==
    ASSUME IInv, GapClosed, NEW nums \in SUBSET (0 .. nextNum - 1)
    PROVE  Fresh(nums) = nums \ got
  <1> SUFFICES ASSUME NEW n \in nums \ got, NEW m \in 0 .. n - MaxGap - 1
               PROVE  m \in got
    BY DEF Fresh
  <1>1. n \in 0 .. nextNum - 1 /\ nextNum \in Nat /\ MaxGap \in Nat
    BY TransportAssumption DEF IInv, Typed
  <1>2. m \in 0 .. nextNum - MaxGap - 2
    BY <1>1
  <1> QED
    BY <1>2 DEF GapClosed

(* A step that leaves the receiver and what is given up alone.             *)
LEMMA QuietFitting ==
    ASSUME Fitting, Data' \subseteq Data, untracked' = untracked,
           UNCHANGED <<expected, dgBase, dgBits, got, arrived, refused>>
    PROVE  Fitting'
  BY DEF Fitting, WindowBehind, OneEach, AllPassed, NothingGivenUp

(* A duplicate brings nothing new.                                         *)
LEMMA SkipDataFitting ==
    ASSUME IInv, Books, Fitting, MaxReorder < RecvWindowSize,
           NEW p \in net, Arrives(p), SkipData(p), net' \subseteq net
    PROVE  Fitting'
  <1>1. /\ p \in Data /\ Acknowledge(p.seq) /\ Received(p.seq)
        /\ refused' = refused \cup Refused(p, got) /\ arrived' = arrived \cup {p.seq}
        /\ UNCHANGED <<dgBase, dgBits, got, untracked>>
    BY DEF SkipData, senderVars, Data, Acknowledge
  <1>2. expected \in Nat /\ expected' \in Nat /\ expected <= expected'
    BY <1>1, Awaited
  <1>3. p.seq \in arrived
    BY <1>1, <1>2, DuplicateInWindow DEF Fitting
  <1>4. Refused(p, got) = {}
    <2>1. \A f \in Range(Decoded(p.frames)) : f.num \in got \cup {NoNum}
      BY <1>1, <1>3 DEF Fitting, AllPassed, NumsOf
    <2> QED
      BY <2>1 DEF Refused
  <1>5. WindowBehind'
    <2>1. dgBase \in Nat /\ RecvWindowSize \in Nat
      BY TransportAssumption DEF IInv, Typed
    <2> QED
      BY <1>1, <1>2, <2>1 DEF Fitting, WindowBehind
  <1>6. Data' \subseteq Data /\ arrived' = arrived
    BY <1>1, <1>3 DEF Data
  <1> QED
    BY <1>1, <1>4, <1>5, <1>6 DEF Fitting, OneEach, AllPassed, NothingGivenUp

(* A datagram that is accepted has all its new numbers let through.        *)
LEMMA AcceptDataFitting ==
    ASSUME IInv, Books, Fitting, GapClosed, NEW p \in net, AcceptData(p), net' \subseteq net
    PROVE  Fitting'
  <1> DEFINE nums == NumsOf(Decoded(p.frames))
             base == WindowBase(p.seq)
  <1>1. /\ p \in Data /\ Acknowledge(p.seq)
        /\ dgBase' = base /\ dgBits' = {s \in dgBits : s >= base} \cup {p.seq}
        /\ got' = got \cup Fresh(nums) /\ refused' = refused \cup Refused(p, got \cup Fresh(nums))
        /\ arrived' = arrived \cup {p.seq} /\ untracked' = untracked
    BY DEF AcceptData, Data, senderVars, Acknowledge
  <1>2. /\ expected \in Nat /\ expected' \in Nat /\ p.seq \in Nat
        /\ expected <= expected' /\ p.seq < expected'
    BY <1>1, Awaited
  <1>3. dgBase \in Nat /\ p.frames \in Seq(Frame)
    BY <1>1 DEF IInv, Typed
  <1>4. nums \in SUBSET (0 .. nextNum - 1)
    <2>1. Range(Decoded(p.frames)) \subseteq Known
      BY <1>1, <1>3, DecodedWithin, KnownFrames
    <2> QED
      BY <2>1, SameNumber DEF NumsOf
  <1>5. got' = got \cup nums
    <2>1. Fresh(nums) = nums \ got
      BY <1>4, AllFresh
    <2> QED
      BY <1>1, <2>1
  <1>6. Refused(p, got \cup Fresh(nums)) = {}
    <2>1. \A f \in Range(Decoded(p.frames)) : f.num \in got' \cup {NoNum}
      BY <1>5 DEF NumsOf
    <2> QED
      BY <1>1, <2>1 DEF Refused
  <1>7. Data' \subseteq Data
    BY DEF Data
  <1>8. AllPassed'
    <2> SUFFICES ASSUME NEW q \in Data', q.seq \in arrived'
                 PROVE  NumsOf(Decoded(q.frames)) \subseteq got'
      BY DEF AllPassed
    <2>1. CASE q.seq = p.seq
      <3>1. q = p
        BY <1>1, <1>7, <2>1 DEF Fitting, OneEach
      <3> QED
        BY <1>5, <3>1
    <2>2. CASE q.seq # p.seq
      BY <1>1, <1>5, <1>7, <2>2 DEF Fitting, AllPassed
    <2> QED
      BY <2>1, <2>2
  <1>9. WindowBehind'
    <2>1. RecvWindowSize \in Nat
      BY TransportAssumption
    <2>2. dgBase = 0 \/ dgBase + RecvWindowSize <= expected
      BY DEF Fitting, WindowBehind
    <2>3. dgBase' = 0 \/ dgBase' + RecvWindowSize <= expected'
      BY <1>1, <1>2, <1>3, <2>1, <2>2 DEF WindowBase
    <2> QED
      BY <2>3 DEF WindowBehind
  <1> HIDE DEF nums, base
  <1>10. dgBits' \subseteq arrived'
    BY <1>1 DEF Fitting
  <1>11. NothingGivenUp'
    BY <1>1, <1>6 DEF Fitting, NothingGivenUp
  <1>12. OneEach'
    BY <1>7 DEF Fitting, OneEach
  <1> QED
    BY <1>8, <1>9, <1>10, <1>11, <1>12 DEF Fitting

(* A number of those that there is room for. *)
LEMMA BelowRoom ==
    ASSUME NEW a \in Int, NEW b \in Int, NEW c \in Int, NEW m \in Int, b - a <= m - c,
           NEW n \in a .. b - 1
    PROVE  c + (n - a) < m
  OBVIOUS

(* While there is room every new message is tracked.                       *)
LEMMA AllTracked ==
    ASSUME IInv, RoomLeft, NEW resent, NEW fresh, NEW stale, NEW taken \in Nat,
           Takes(resent, fresh, stale, taken)
    PROVE  untracked' = untracked
  <1> DEFINE newNums == NumsOf(fresh)
             tracked == {n \in newNums :
                           Cardinality(DOMAIN resend) + (n - nextNum) < MaxResend}
  <1>1. untracked' = untracked \cup
            {f.msg : f \in {g \in Range(fresh) : g.num \in newNums \ tracked}}
    BY DEF Takes, Pack
  <1>2. /\ DOMAIN fresh = 1 .. taken
        /\ \A i \in 1 .. taken : fresh[i].num \in (nextNum .. nextNum' - 1) \cup {NoNum}
    BY DEF Takes
  <1>3. nextNum \in Nat /\ \A n \in DOMAIN resend : n \in 0 .. nextNum - 1
    BY DEF IInv, Typed
  <1>4. \A n \in newNums : n \in nextNum .. nextNum' - 1
    BY <1>2 DEF NumsOf, Range
  <1>5. nextNum' - nextNum <= MaxResend - Cardinality(DOMAIN resend)
    BY DEF RoomLeft
  <1>6. nextNum' \in Int /\ MaxResend \in Int /\ Cardinality(DOMAIN resend) \in Int
    <2>1. nextNum' = nextNum + Cardinality(newNums)
      BY DEF Takes, Pack
    <2>2. IsFiniteSet(DOMAIN resend)
      <3>1. IsFiniteSet(0 .. nextNum - 1)
        BY <1>3, FS_Interval
      <3> QED
        BY <1>3, <3>1, FS_Subset
    <2>3. IsFiniteSet(newNums)
      BY <1>2, NumbersFew
    <2>4. Cardinality(newNums) \in Nat
      BY <2>3, FS_CardinalityType
    <2> QED
      BY <1>3, <2>1, <2>2, <2>4, FS_CardinalityType, TransportAssumption
  <1>7. ASSUME NEW n \in newNums
        PROVE  Cardinality(DOMAIN resend) + (n - nextNum) < MaxResend
    <2>1. n \in nextNum .. nextNum' - 1
      BY <1>4
    <2>2. nextNum \in Int
      BY <1>3
    <2> QED
      BY <1>5, <1>6, <2>1, <2>2, BelowRoom
  <1>8. newNums \ tracked = {}
    BY <1>7
  <1> HIDE DEF newNums, tracked
  <1> QED
    BY <1>1, <1>8

(* New datagrams have new numbers, which have not arrived.                 *)
LEMMA SenderTickFitting ==
    ASSUME IInv, Books, Fitting, RoomLeft, SenderTick
    PROVE  Fitting'
  <1>1. PICK resent \in Seq(Frame), fresh \in Seq(Frame), stale \in StaleSets,
             taken \in 0 .. Len(queue) : Takes(resent, fresh, stale, taken)
    BY TickTakes
  <1>2. UNCHANGED <<expected, dgBase, dgBits, got, arrived, refused>>
    BY <1>1 DEF Takes, receiverVars
  <1>3. untracked' = untracked
    <2>1. taken \in Nat
      BY DEF IInv, Typed
    <2> QED
      BY <1>1, <2>1, AllTracked
  <1>4. /\ \A p \in Data' : p \in Data \/ p.seq >= nextSeq
        /\ \A p, q \in Data' \ Data : p.seq = q.seq => p = q
    BY <1>1, PackedRecords DEF Takes, Books
  <1>5. /\ nextSeq \in Nat /\ \A p \in Data : p.seq \in Nat /\ p.seq < nextSeq
        /\ \A s \in arrived : s \in Nat /\ s < nextSeq
    BY DEF IInv, Typed, Books, Shapes
  <1>6. OneEach'
    <2> SUFFICES ASSUME NEW p \in Data', NEW q \in Data', p.seq = q.seq
                 PROVE  p = q
      BY DEF OneEach
    <2>1. p \in Data <=> q \in Data
      BY <1>4, <1>5
    <2> QED
      BY <1>4, <2>1 DEF Fitting, OneEach
  <1>7. AllPassed'
    <2> SUFFICES ASSUME NEW p \in Data', p.seq \in arrived
                 PROVE  NumsOf(Decoded(p.frames)) \subseteq got
      BY <1>2 DEF AllPassed
    <2>1. p \in Data
      BY <1>4, <1>5
    <2> QED
      BY <2>1 DEF Fitting, AllPassed
  <1> QED
    BY <1>2, <1>3, <1>6, <1>7 DEF Fitting, WindowBehind, NothingGivenUp

(* So does every step that stays within the limits.                        *)
LEMMA FittingNext ==
    ASSUME IInv, Books, Fitting, GapClosed, RoomLeft, MaxReorder < RecvWindowSize, [Next]_vars
    PROVE  Fitting'
  <1>1. CASE Send \/ Lose \/ ReceiverTick \/ UNCHANGED vars
    <2>1. UNCHANGED <<untracked, expected, dgBase, dgBits, got, arrived, refused>>
      BY <1>1 DEF Send, Lose, ReceiverTick, vars, senderVars, receiverVars
    <2>2. Data' \subseteq Data
      BY <1>1, TickNoData DEF Data, Send, Lose, vars
    <2> QED
      BY <2>1, <2>2, QuietFitting
  <1>2. CASE SenderTick
    BY <1>2, SenderTickFitting
  <1>3. CASE Receive \/ Duplicate
    <2>1. PICK p \in net : Arrives(p) /\ Handle(p) /\ net' \subseteq net
      BY <1>3 DEF Receive, Duplicate
    <2>2. CASE HandleAck(p) \/ HandleNak(p) \/ RejectData(p)
      <3>1. UNCHANGED <<untracked, expected, dgBase, dgBits, got, arrived, refused>>
        BY <2>2 DEF HandleAck, HandleNak, RejectData, senderVars, receiverVars
      <3>2. Data' \subseteq Data
        BY <2>1 DEF Data
      <3> QED
        BY <3>1, <3>2, QuietFitting
    <2> QED
      BY <2>1, <2>2, SkipDataFitting, AcceptDataFitting DEF Handle
  <1> QED
    BY <1>1, <1>2, <1>3 DEF Next

(* If the reliable messages are no more than the resend buffer holds and   *)
(* check_and_mark reaches, and no datagram comes too late for the receive  *)
(* window, none is given up: NothingSilentlyLost then leaves only what an  *)
(* empty message hides.                                                    *)
THEOREM NothingGivenUpWithinLimits ==
    ASSUME MaxReorder < RecvWindowSize,
           Cardinality(Reliable) <= MaxResend, Cardinality(Reliable) <= MaxGap + 1
    PROVE  Spec => []NothingGivenUp
  <1>1. Init => NumbersSent /\ Fitting
    <2> SUFFICES ASSUME Init PROVE NumbersSent /\ Fitting
      OBVIOUS
    <2>1. nextNum = 0 /\ Cardinality(OutOfQueue) \in Nat
      BY Initially, OutOfQueueReliable, ReliableSize DEF Init
    <2>2. Fitting
      BY DEF Init, Fitting, WindowBehind, OneEach, AllPassed, NothingGivenUp, Data
    <2> QED
      BY <2>1, <2>2 DEF NumbersSent
  <1>2. (IInv /\ Books) /\ NumbersSent /\ [Next]_vars => NumbersSent'
    BY NumbersSentNext
  <1>3. (IInv /\ Books) /\ (IInv /\ Books)' /\ NumbersSent /\ NumbersSent' /\ Fitting /\ [Next]_vars
            => Fitting'
    BY RoomForAll, FittingNext
  <1>4. Fitting => NothingGivenUp
    BY DEF Fitting
  <1> QED
    BY <1>1, <1>2, <1>3, <1>4, BooksAlwaysKept, PTL DEF Spec

----------------------------------------------------------------------------
(* The stack of OrderedTransport.                                          *)

(* The channel of the stack, with what is proved about one.                *)
Ord == INSTANCE OrderingProofs
    WITH FirstIndex <- 0, MaxAhead <- MaxMessages, HeapCap <- MaxMessages,
         arrived <- Arrived, expected <- expectedOrd

(* send() orders the messages that are not sequenced.                      *)
Tagged ==
    /\ Len(msgs) = sent
    /\ \A k \in 1 .. sent : msgs[k].ordered <=> k \notin Unreliable

(* The constants are what Ordering asks of them.                           *)
LEMMA ChannelConstants ==
    /\ HalfSeq \in Nat /\ HalfSeq >= 2
    /\ 0 \in Ord!SeqNum /\ MaxMessages \in Nat /\ MaxMessages < HalfSeq
    /\ OrderedSubKey \in Nat /\ OrderedSubKey < HalfSeq
    /\ 0 + MaxMessages < Ord!SeqCount
  BY TransportAssumption, OrderedTransportAssumption DEF Ord!SeqNum, Ord!SeqCount

(* The steps of the stack are steps of Transport.                          *)
LEMMA StackTransport == SpecAll => Spec
  <1>1. InitAll => Init
    BY DEF InitAll
  <1>2. [NextAll]_allVars => [Next]_vars
    BY DEF NextAll, allVars, SendStamped, SenderTicks, ReceiverTicks, ReceiveAndRoute, Next
  <1> QED
    BY <1>1, <1>2, PTL DEF SpecAll, Spec

(* Deliveries are never taken back.                                        *)
LEMMA DeliveredRises ==
    ASSUME TypeOK, Receive \/ Duplicate, HandedOn = {}
    PROVE  Arrived' = Arrived
  <1>1. PICK p \in net : Handle(p)
    BY DEF Receive, Duplicate
  <1>2. CASE delivered' = delivered
    BY <1>2 DEF Arrived
  <1>3. CASE AcceptData(p)
    <2>1. \A m \in Messages : delivered[m] \in Nat
      BY DEF TypeOK
    <2>2. PICK H : delivered' = [m \in Messages |-> delivered[m] + IF m \in H THEN 1 ELSE 0]
      BY <1>3 DEF AcceptData
    <2>3. \A m \in Messages : ~(delivered'[m] > delivered[m])
      BY DEF HandedOn
    <2>4. \A m \in Messages : delivered'[m] = delivered[m]
      BY <2>1, <2>2, <2>3
    <2> QED
      BY <2>4 DEF Arrived
  <1>4. HandleAck(p) \/ HandleNak(p) \/ RejectData(p) \/ SkipData(p) => delivered' = delivered
    BY DEF HandleAck, HandleNak, RejectData, SkipData, receiverVars
  <1> QED
    BY <1>1, <1>2, <1>3, <1>4 DEF Handle

(* What the channel of the stack does is what a channel does.              *)
LEMMA SameArrive ==
    ASSUME NEW m, Channel0!Arrive(m)
    PROVE  Ord!Arrive(m)
  BY DEF Channel0!Arrive, Ord!Arrive, Channel0!InReach, Ord!InReach,
         Channel0!Slot, Ord!Slot, Channel0!OrderedBefore, Ord!OrderedBefore,
         Channel0!OrderedDelivered, Ord!OrderedDelivered,
         Channel0!SequencedFrame, Ord!SequencedFrame,
         Channel0!OrderedFrame, Ord!OrderedFrame, Channel0!Current, Ord!Current,
         Channel0!Future, Ord!Future, Channel0!Drop, Ord!Drop,
         Channel0!Buffer, Ord!Buffer, Channel0!DropFull, Ord!DropFull,
         Channel0!DeliverAndFlush, Ord!DeliverAndFlush,
         Channel0!Sorted, Ord!Sorted, Channel0!Precedes, Ord!Precedes,
         Channel0!Flushes, Ord!Flushes, Channel0!Wire, Ord!Wire,
         Channel0!SeqGreaterThan, Ord!SeqGreaterThan, Channel0!SeqSub, Ord!SeqSub,
         Channel0!SeqCount, Ord!SeqCount, Channel0!None, Ord!None,
         Channel0!Cardinality, Ord!Cardinality, Channel0!Bijection, Ord!Bijection,
         Channel0!Injection, Ord!Injection, Channel0!Surjection, Ord!Surjection,
         Channel0!IsInjective, Ord!IsInjective,
         Channel0!receiverVars, Ord!receiverVars

(* The same of a send.                                                     *)
LEMMA SameSend ==
    Channel0!SendSequenced \/ Channel0!SendOrdered => Ord!SendSequenced \/ Ord!SendOrdered
  BY DEF Channel0!SendSequenced, Channel0!SendOrdered, Ord!SendSequenced, Ord!SendOrdered,
         Channel0!SeqNext, Ord!SeqNext, Channel0!SeqCount, Ord!SeqCount,
         Channel0!receiverVars, Ord!receiverVars

(* A step of the stack is a step of the channel or leaves it alone.        *)
LEMMA ChannelStep ==
    ASSUME TypeOK, [NextAll]_allVars
    PROVE  [Ord!Next]_(Ord!vars)
  <1>1. CASE SendStamped
    <2>1. Ord!SendSequenced \/ Ord!SendOrdered
      BY <1>1, SameSend DEF SendStamped
    <2> QED
      BY <2>1 DEF Ord!Next
  <1>2. ASSUME NEW m \in HandedOn, Channel0!Arrive(m)
        PROVE  Ord!Next
    <2>1. m \in 1 .. MaxMessages
      BY DEF HandedOn, Messages
    <2> QED
      BY <1>2, <2>1, SameArrive DEF Ord!Next
  <1>3. CASE channelVars' = channelVars /\ Arrived' = Arrived
    BY <1>3 DEF channelVars, Ord!vars, Ord!receiverVars
  <1>4. CASE SenderTicks \/ ReceiverTicks \/ (Lose /\ UNCHANGED channelVars) \/ UNCHANGED allVars
    <2>1. delivered' = delivered /\ channelVars' = channelVars
      BY <1>4 DEF SenderTicks, ReceiverTicks, SenderTick, ReceiverTick, Lose, allVars, vars,
                  receiverVars
    <2>2. Arrived' = Arrived
      BY <2>1 DEF Arrived
    <2> QED
      BY <1>3, <2>1, <2>2
  <1>5. CASE (Receive \/ Duplicate) /\ Route
    <2>1. CASE \E m \in HandedOn : Channel0!Arrive(m)
      BY <1>2, <2>1
    <2>2. CASE HandedOn = {} /\ UNCHANGED channelVars
      BY <1>3, <1>5, <2>2, DeliveredRises
    <2> QED
      BY <1>5, <2>1, <2>2 DEF Route
  <1> QED
    BY <1>1, <1>4, <1>5 DEF NextAll, ReceiveAndRoute

(* So the stack behaves as a channel does, and keeps what a channel keeps. *)
LEMMA StackChannel == SpecAll => Ord!Spec
  <1>1. InitAll => Ord!Init
    BY DEF InitAll, Channel0!Init, Ord!Init, Channel0!None, Ord!None
  <1>2. TypeOK /\ [NextAll]_allVars => [Ord!Next]_(Ord!vars)
    BY ChannelStep
  <1> QED
    BY <1>1, <1>2, StackTransport, TypeCorrect, PTL DEF SpecAll, Ord!Spec

(* What the channel of the stack is proved to keep.                        *)
ChannelKept ==
    Ord!TypeOK /\ Ord!DeliveredInSendOrder /\ Ord!NoOrderedMessageSkipped

(* That holds as long as the sub-keys suffice.                             *)
LEMMA ChannelAlwaysKept ==
    ASSUME MaxMessages <= OrderedSubKey
    PROVE  SpecAll => []ChannelKept
  <1>1. Ord!Spec => []Ord!TypeOK
    BY ChannelConstants, Ord!TypeCorrect
  <1>2. Ord!Spec => [](/\ Ord!DeliveredInSendOrder /\ Ord!NoOrderedMessageSkipped
                       /\ Ord!NothingStranded /\ Ord!LostOnlyToFullHeap)
    BY ChannelConstants, Ord!EarlyChannelCorrect
  <1> QED
    BY <1>1, <1>2, StackChannel, PTL DEF ChannelKept

(* What was handed to the application stays handed to it.                  *)
LEMMA ChannelLogGrows ==
    SpecAll => [][\E new \in Seq(Nat) : log' = log \o new]_(Ord!vars)
  <1>1. Ord!Spec => [][\E new \in Seq(Nat) : log' = log \o new]_(Ord!vars)
    BY ChannelConstants, Ord!LogOnlyGrows
  <1> QED
    BY <1>1, StackChannel, PTL

(* Only send() adds to what was sent, in both halves.                      *)
LEMMA SentStays ==
    ASSUME [NextAll]_allVars, ~SendStamped
    PROVE  sent' = sent /\ msgs' = msgs
  <1>1. CASE SenderTicks \/ ReceiverTicks \/ (Lose /\ UNCHANGED channelVars) \/ UNCHANGED allVars
    <2>1. SenderTick => sent' = sent
      BY DEF SenderTick
    <2> QED
      BY <1>1, <2>1 DEF SenderTicks, ReceiverTicks, ReceiverTick, Lose, allVars, vars,
                        senderVars, channelVars
  <1>2. CASE (Receive \/ Duplicate) /\ Route
    <2>1. PICK p \in net : Handle(p)
      BY <1>2 DEF Receive, Duplicate
    <2>2. sent' = sent
      BY <2>1 DEF Handle, HandleAck, HandleNak, RejectData, SkipData, AcceptData, senderVars
    <2>3. msgs' = msgs
      BY <1>2 DEF Route, channelVars, Channel0!Arrive
    <2> QED
      BY <2>2, <2>3
  <1> QED
    BY <1>1, <1>2 DEF NextAll, ReceiveAndRoute

(* The two halves always agree on what was sent.                           *)
LEMMA TaggedAlways ==
    ASSUME MaxMessages <= OrderedSubKey
    PROVE  SpecAll => []Tagged
  <1>1. InitAll => Tagged
    BY DEF InitAll, Init, Channel0!Init, Tagged
  <1>2. TypeOK /\ ChannelKept /\ Tagged /\ [NextAll]_allVars => Tagged'
    <2> SUFFICES ASSUME TypeOK, ChannelKept, Tagged, [NextAll]_allVars PROVE Tagged'
      OBVIOUS
    <2>1. CASE SendStamped
      <3> DEFINE R == [ordered : BOOLEAN, ord : Ord!SeqNum, sub : Ord!SeqNum]
      <3>1. msgs \in Seq(R) /\ sent \in Nat
        BY DEF ChannelKept, Ord!TypeOK, TypeOK
      <3>2. sent' = sent + 1
        BY <2>1 DEF SendStamped, Send
      <3>3. PICK e : /\ msgs' = Append(msgs, e)
                     /\ e.ordered <=> sent + 1 \notin Unreliable
        <4>1. CASE sent + 1 \in Unreliable
          BY <2>1, <4>1 DEF SendStamped, Channel0!SendSequenced
        <4>2. CASE sent + 1 \notin Unreliable
          BY <2>1, <4>2 DEF SendStamped, Channel0!SendOrdered
        <4> QED
          BY <4>1, <4>2
      <3> HIDE DEF R
      <3>4. /\ Len(msgs') = sent + 1 /\ msgs'[sent + 1] = e
            /\ \A k \in 1 .. sent : msgs'[k] = msgs[k]
        BY <3>1, <3>3 DEF Tagged
      <3> QED
        BY <3>1, <3>2, <3>3, <3>4 DEF Tagged
    <2>2. CASE ~SendStamped
      BY <2>2, SentStays DEF Tagged
    <2> QED
      BY <2>1, <2>2
  <1> QED
    BY <1>1, <1>2, StackTransport, TypeCorrect, ChannelAlwaysKept, PTL DEF SpecAll

(* What is handed to the application at once is in the order of sending,   *)
(* comes after what it has, and leaves out no ordered message.             *)
LEMMA Delivery ==
    ASSUME NEW new \in Seq(Nat), log' = log \o new, log \in Seq(Nat),
           sent \in Nat, sent' = sent, ChannelKept', Tagged'
    PROVE  \E M \in SUBSET (1 .. sent) : Promise!Deliver(M)
  <1> DEFINE M == Range(new)
             base == Len(log)
             len == Len(new)
  <1>1. /\ base \in Nat /\ len \in Nat /\ DOMAIN new = 1 .. len
        /\ DOMAIN log = 1 .. base /\ DOMAIN log' = 1 .. base + len
        /\ \A i \in 1 .. base : log'[i] = log[i]
        /\ \A i \in 1 .. len : base + i \in DOMAIN log' /\ log'[base + i] = new[i]
        /\ \A i \in 1 .. len : new[i] \in Nat
    BY ConcatProperties
  <1>2. M = {new[i] : i \in 1 .. len} /\ Range(log) = {log[i] : i \in 1 .. base}
    BY <1>1 DEF Range
  <1>3. \A i, j \in DOMAIN log' : i < j => log'[i] < log'[j]
    BY DEF ChannelKept, Ord!DeliveredInSendOrder
  <1>4. M \in SUBSET (1 .. sent)
    <2>1. log' \in Seq(Arrived') /\ Arrived' \subseteq DOMAIN msgs'
      BY DEF ChannelKept, Ord!TypeOK
    <2>2. DOMAIN msgs' = 1 .. sent
      BY DEF Tagged, ChannelKept, Ord!TypeOK
    <2>3. \A i \in DOMAIN log' : log'[i] \in 1 .. sent
      BY <2>1, <2>2
    <2> QED
      BY <1>1, <1>2, <2>3
  <1> HIDE DEF M, base, len
  <1>5. \A i, j \in 1 .. len : i < j => new[i] < new[j]
    <2> SUFFICES ASSUME NEW i \in 1 .. len, NEW j \in 1 .. len, i < j PROVE new[i] < new[j]
      OBVIOUS
    <2>1. base + i < base + j /\ base + i \in DOMAIN log' /\ base + j \in DOMAIN log'
      BY <1>1
    <2> QED
      BY <1>1, <1>3, <2>1
  <1>6. \A m \in M : \A k \in Range(log) : k < m
    <2> SUFFICES ASSUME NEW i \in 1 .. len, NEW h \in 1 .. base PROVE log[h] < new[i]
      BY <1>2
    <2>1. h < base + i /\ h \in DOMAIN log' /\ base + i \in DOMAIN log'
      BY <1>1
    <2> QED
      BY <1>1, <1>3, <2>1
  <1>7. \A i \in DOMAIN log' : \A k \in 1 .. log'[i] - 1 :
            msgs'[k].ordered => \E j \in 1 .. i - 1 : log'[j] = k
    <2>1. Ord!NoOrderedMessageSkipped'
      BY DEF ChannelKept
    <2> QED
      BY <2>1 DEF Ord!NoOrderedMessageSkipped, Ord!OrderedBefore
  <1>8. \A m \in M : \A k \in 1 .. m \ Unreliable : k \in Range(log) \cup M
    <2> SUFFICES ASSUME NEW i \in 1 .. len, NEW k \in 1 .. new[i], k \notin Unreliable
                 PROVE  k \in Range(log) \cup M
      BY <1>2
    <2>1. CASE k = new[i]
      BY <1>2, <2>1
    <2>2. CASE k # new[i]
      <3>1. k \in 1 .. new[i] - 1 /\ new[i] \in 1 .. sent /\ k \in 1 .. sent
        BY <1>1, <1>2, <1>4, <2>2
      <3>2. msgs'[k].ordered
        BY <3>1 DEF Tagged
      <3>3. base + i \in DOMAIN log' /\ k \in 1 .. log'[base + i] - 1
        BY <1>1, <3>1
      <3>4. PICK j \in 1 .. (base + i) - 1 : log'[j] = k
        BY <1>7, <3>2, <3>3, Zenon
      <3>5. CASE j \in 1 .. base
        BY <1>1, <1>2, <3>4, <3>5
      <3>6. CASE j - base \in 1 .. len
        <4>1. base + (j - base) = j
          BY <1>1
        <4>2. new[j - base] = k
          BY <1>1, <3>4, <3>6, <4>1
        <4> QED
          BY <1>2, <3>6, <4>2
      <3> QED
        BY <1>1, <3>5, <3>6
    <2> QED
      BY <2>1, <2>2
  <1>9. new \in Promise!InSendOrder(M)
    <2>1. \A i, j \in 1 .. len : new[i] = new[j] => i = j
      <3> SUFFICES ASSUME NEW i \in 1 .. len, NEW j \in 1 .. len, new[i] = new[j], i # j
                   PROVE  FALSE
        OBVIOUS
      <3>1. i \in Int /\ j \in Int /\ new[i] \in Int /\ new[j] \in Int
        BY <1>1
      <3>2. i < j \/ j < i
        BY <3>1
      <3> QED
        BY <1>5, <3>1, <3>2
    <2>2. new \in [1 .. len -> M] /\ \A m \in M : \E i \in 1 .. len : new[i] = m
      BY <1>1, <1>2
    <2>3. Cardinality(M) = len
      <3>1. new \in Injection(1 .. len, M) /\ new \in Surjection(1 .. len, M)
        BY <2>1, <2>2 DEF Injection, Surjection, IsInjective
      <3>2. new \in Bijection(1 .. len, M)
        BY <3>1 DEF Bijection
      <3>3. IsFiniteSet(1 .. len) /\ Cardinality(1 .. len) = len
        BY <1>1, FS_Interval
      <3> QED
        BY <3>2, <3>3, FS_Bijection DEF ExistsBijection
    <2>4. Promise!Cardinality(M) = len
      BY <2>3 DEF Promise!Cardinality, Cardinality
    <2>5. new \in Promise!Injection(1 .. len, M) /\ new \in Promise!Surjection(1 .. len, M)
      BY <2>1, <2>2 DEF Promise!Injection, Promise!Surjection, Promise!IsInjective
    <2>6. new \in Promise!Bijection(1 .. len, M)
      BY <2>5 DEF Promise!Bijection
    <2> QED
      BY <1>1, <1>5, <2>4, <2>6 DEF Promise!InSendOrder
  <1>10. Promise!Range(log) = Range(log)
    BY DEF Promise!Range, Range
  <1> QED
    BY <1>4, <1>6, <1>8, <1>9, <1>10 DEF Promise!Deliver

(* What the two halves do in a step is a step of the promised channel.     *)
LEMMA StackStep ==
    ASSUME TypeOK, ChannelKept, ChannelKept', Tagged', [NextAll]_allVars,
           [\E new \in Seq(Nat) : log' = log \o new]_(Ord!vars)
    PROVE  [Promise!Next]_(Promise!vars)
  <1>1. sent \in Nat /\ log \in Seq(Nat)
    <2>1. log \in Seq(Arrived)
      BY DEF ChannelKept, Ord!TypeOK
    <2>2. Arrived \subseteq Nat
      BY TransportAssumption DEF Arrived, Messages
    <2>3. log \in Seq(Nat)
      BY <2>1, <2>2, SeqMonotonic
    <2>4. sent \in Nat
      BY TransportAssumption DEF TypeOK
    <2> QED
      BY <2>3, <2>4
  <1>2. CASE SendStamped
    <2>1. sent < MaxMessages /\ sent' = sent + 1
      BY <1>2 DEF SendStamped, Send
    <2>2. log' = log
      BY <1>2 DEF SendStamped, Channel0!SendSequenced, Channel0!SendOrdered, Channel0!receiverVars
    <2> QED
      BY <2>1, <2>2 DEF Promise!Next, Promise!Send
  <1>3. CASE ~SendStamped
    <2>1. sent' = sent
      BY <1>3, SentStays
    <2>2. CASE log' = log
      BY <2>1, <2>2 DEF Promise!vars
    <2>3. CASE \E new \in Seq(Nat) : log' = log \o new
      <3>1. PICK new \in Seq(Nat) : log' = log \o new
        BY <2>3
      <3>2. \E M \in SUBSET (1 .. sent) : Promise!Deliver(M)
        BY <1>1, <2>1, <3>1, Delivery
      <3> QED
        BY <3>2 DEF Promise!Next
    <2> QED
      BY <2>2, <2>3 DEF Ord!vars, Ord!receiverVars
  <1> QED
    BY <1>2, <1>3

(* An application that sends RELIABLE_ORDERED and UNRELIABLE_SEQUENCED     *)
(* messages through ReliabilityLayer gets them in the order of the send()  *)
(* calls, each once and no ordered one passed over, whatever the network   *)
(* loses, repeats or reorders and whichever limits the buffers below the   *)
(* channel have, up to the first wrap-around and while sub-keys suffice.   *)
THEOREM StackImplementsOrderedChannel ==
    ASSUME MaxMessages <= OrderedSubKey
    PROVE  SpecAll => ImplementsOrderedChannel
  <1>1. InitAll => Promise!Init
    BY DEF InitAll, Init, Channel0!Init, Promise!Init
  <1>2. TypeOK /\ ChannelKept /\ ChannelKept' /\ Tagged' /\ [NextAll]_allVars
           /\ [\E new \in Seq(Nat) : log' = log \o new]_(Ord!vars)
        => [Promise!Next]_(Promise!vars)
    BY StackStep
  <1> QED
    BY <1>1, <1>2, StackTransport, TypeCorrect, ChannelAlwaysKept, ChannelLogGrows, TaggedAlways, PTL
       DEF SpecAll, ImplementsOrderedChannel, Promise!Spec
=============================================================================

---------------------------- MODULE GroupsProofs ----------------------------
(***************************************************************************)
(* Each picture is on one tile of the library and none that looks like     *)
(* another is left out, for any number of images, looks, dismissals, bands *)
(* and any threshold; and the lemmas on orders, sequences and functions    *)
(* defined by recursion that this takes.                                   *)
(***************************************************************************)
EXTENDS Groups, TLAPS, FiniteSetTheorems, SequenceTheorems, WellFoundedInduction

-----------------------------------------------------------------------------
(* Sets of naturals.                                                       *)

(* A set of naturals that is not empty has a least element.                *)
LEMMA LeastOfSome ==
  ASSUME NEW S \in SUBSET Nat, S # {}
  PROVE  Min(S) \in S /\ \A x \in S : Min(S) <= x
<1> DEFINE R == OpToRel(<, Nat)
<1>1. PICK b \in S : \A c \in S : <<c, b>> \notin R
  <2>1. IsWellFoundedOn(R, Nat)
    BY NatLessThanWellFounded
  <2>2. QED
    BY <2>1, WFMin
<1>2. \A c \in S : ~(c < b)
  BY <1>1 DEF OpToRel
<1>3. \A c \in S : b <= c
  BY <1>2
<1>4. QED
  BY <1>3, Zenon DEF Min

(* A set of naturals with a bound has a greatest element: the least of its *)
(* bounds.                                                                 *)
LEMMA GreatestOfBounded ==
  ASSUME NEW n \in Nat, NEW S \in SUBSET (0 .. n), S # {}
  PROVE  Max(S) \in S /\ \A x \in S : x <= Max(S)
<1> DEFINE Bounds == {b \in Nat : \A x \in S : x <= b}
<1>1. n \in Bounds
  OBVIOUS
<1>2. Min(Bounds) \in Bounds /\ \A c \in Bounds : Min(Bounds) <= c
  BY <1>1, LeastOfSome
<1> DEFINE b == Min(Bounds)
<1>3. b \in Nat /\ \A x \in S : x <= b
  BY <1>2
<1>4. b \in S
  <2>1. SUFFICES ASSUME b \notin S PROVE FALSE
    OBVIOUS
  <2>2. \A x \in S : x \in Nat /\ x < b
    BY <1>3, <2>1
  <2>3. PICK x \in S : x \in Nat /\ x < b
    BY <2>2
  <2>4. b - 1 \in Nat /\ \A y \in S : y <= b - 1
    BY <1>3, <2>2, <2>3
  <2>5. b - 1 \in Bounds /\ ~(b <= b - 1)
    BY <1>3, <2>4
  <2>6. QED
    BY <1>2, <2>5
<1>5. \A x \in S : b >= x
  BY <1>3
<1>6. Max(S) \in S /\ \A x \in S : Max(S) >= x
  <2>1. \E x \in S : \A y \in S : x >= y
    BY <1>4, <1>5
  <2>2. QED
    BY <2>1, Zenon DEF Max
<1>7. QED
  BY <1>6

(* So has a finite set of integers: the one with the most others below it. *)
LEMMA GreatestOfFinite ==
  ASSUME NEW S \in SUBSET Int, IsFiniteSet(S), S # {}
  PROVE  Max(S) \in S /\ \A x \in S : x <= Max(S)
<1> DEFINE Lower(x) == {y \in S : y < x}
           n == Cardinality(S)
           counts == {Cardinality(Lower(x)) : x \in S}
<1>1. \A x \in S : IsFiniteSet(Lower(x)) /\ Cardinality(Lower(x)) \in 0 .. n
  <2>1. ASSUME NEW x \in S PROVE IsFiniteSet(Lower(x)) /\ Cardinality(Lower(x)) \in 0 .. n
    <3>1. Lower(x) \in SUBSET S
      OBVIOUS
    <3> HIDE DEF Lower
    <3>2. IsFiniteSet(Lower(x)) /\ Cardinality(Lower(x)) <= n
      BY <3>1, FS_Subset
    <3>3. Cardinality(Lower(x)) \in Nat /\ n \in Nat
      BY <3>2, FS_CardinalityType
    <3>4. QED
      BY <3>2, <3>3
  <2>2. QED
    BY <2>1
<1>2. n \in Nat
  BY FS_CardinalityType
<1>3. Max(counts) \in counts /\ \A c \in counts : c <= Max(counts)
  <2>1. counts \in SUBSET (0 .. n) /\ counts # {}
    BY <1>1
  <2> HIDE DEF counts, n
  <2>2. QED
    BY <1>2, <2>1, GreatestOfBounded
<1>4. PICK b \in S : Max(counts) = Cardinality(Lower(b))
  BY <1>3
<1>5. \A x \in S : Cardinality(Lower(x)) <= Cardinality(Lower(b))
  BY <1>3, <1>4
<1>6. ASSUME NEW x \in S PROVE x <= b
  <2>1. SUFFICES ASSUME b < x PROVE FALSE
    OBVIOUS
  <2>2. Lower(b) \cup {b} \in SUBSET Lower(x) /\ b \notin Lower(b)
    <3>1. x \in Int /\ b \in Int
      OBVIOUS
    <3>2. \A y \in Int : y < b => y < x
      BY <2>1, <3>1
    <3> HIDE DEF n, counts
    <3>3. \A y \in Lower(b) : y \in Lower(x)
      BY <3>2
    <3>4. b \in Lower(x) /\ b \notin Lower(b)
      BY <2>1, <3>1
    <3> HIDE DEF Lower
    <3>5. QED
      BY <3>3, <3>4
  <2> HIDE DEF Lower
  <2>3. /\ IsFiniteSet(Lower(b) \cup {b})
        /\ Cardinality(Lower(b) \cup {b}) = Cardinality(Lower(b)) + 1
    BY <1>1, <2>2, FS_AddElement
  <2>4. Cardinality(Lower(b) \cup {b}) <= Cardinality(Lower(x))
    BY <1>1, <2>2, FS_Subset
  <2>5. QED
    BY <1>1, <1>5, <2>3, <2>4
<1>7. Max(S) \in S /\ \A x \in S : Max(S) >= x
  <2>1. \E x \in S : \A y \in S : x >= y
    BY <1>6
  <2>2. QED
    BY <2>1, Zenon DEF Max
<1>8. QED
  BY <1>7

(* What holds at 0 and passes from each number to the next holds up to n.  *)
LEMMA Reaches ==
  ASSUME NEW n \in Nat, NEW S, 0 \in S, \A k \in 0 .. n : k < n /\ k \in S => k + 1 \in S
  PROVE  \A k \in 0 .. n : k \in S
<1> DEFINE Missed == {k \in 0 .. n : k \notin S}
<1>1. SUFFICES ASSUME Missed # {} PROVE FALSE
  OBVIOUS
<1>2. Min(Missed) \in Missed /\ \A c \in Missed : Min(Missed) <= c
  BY <1>1, LeastOfSome
<1> DEFINE m == Min(Missed)
<1>3. m \in 0 .. n /\ m \notin S /\ m # 0
  BY <1>2
<1>4. m - 1 \in 0 .. n /\ m - 1 < n /\ m - 1 \notin Missed
  BY <1>2, <1>3
<1> HIDE DEF m
<1>5. QED
  BY <1>3, <1>4

(* A function defined by recursion on 0 .. n exists, and stays in its type.*)
Unfolds(f, n, a, step) == f[0] = a /\ \A k \in 1 .. n : f[k] = step[<<k, f[k - 1]>>]

LEMMA Recursion ==
  ASSUME NEW n \in Nat, NEW T, NEW a \in T, NEW step \in [(1 .. n) \X T -> T]
  PROVE  \E f \in [0 .. n -> T] : Unfolds(f, n, a, step)
<1> DEFINE Upto(k, f) == f[0] = a /\ \A j \in 1 .. k : f[j] = step[<<j, f[j - 1]>>]
           S == {k \in 0 .. n : \E f \in [0 .. k -> T] : Upto(k, f)}
<1>1. 0 \in S
  <2>1. [k \in 0 .. 0 |-> a] \in [0 .. 0 -> T] /\ Upto(0, [k \in 0 .. 0 |-> a])
    OBVIOUS
  <2> HIDE DEF Upto
  <2>2. QED
    BY <2>1
<1>2. ASSUME NEW k \in 0 .. n, k < n, k \in S PROVE k + 1 \in S
  <2>1. PICK f \in [0 .. k -> T] : Upto(k, f)
    BY <1>2
  <2> DEFINE g == [j \in 0 .. k + 1 |-> IF j = k + 1 THEN step[<<k + 1, f[k]>>] ELSE f[j]]
  <2>2. step[<<k + 1, f[k]>>] \in T
    <3>1. f[k] \in T /\ k + 1 \in 1 .. n
      BY <1>2
    <3>2. QED
      BY <3>1
  <2>3. g \in [0 .. k + 1 -> T]
    BY <2>2
  <2>4. Upto(k + 1, g)
    <3>1. g[0] = a
      BY <2>1
    <3>2. ASSUME NEW j \in 1 .. k + 1 PROVE g[j] = step[<<j, g[j - 1]>>]
      <4>1. CASE j = k + 1
        <5>1. j - 1 = k /\ j # k /\ k \in 0 .. k + 1 /\ k # k + 1
          BY <4>1
        <5>2. g[j] = step[<<k + 1, f[k]>>] /\ g[k] = f[k]
          BY <4>1, <5>1
        <5>3. QED
          BY <4>1, <5>1, <5>2
      <4>2. CASE j \in 1 .. k
        <5>1. g[j] = f[j] /\ g[j - 1] = f[j - 1]
          BY <4>2
        <5>2. QED
          BY <2>1, <4>2, <5>1
      <4>3. QED
        BY <4>1, <4>2
    <3>3. QED
      BY <3>1, <3>2
  <2> HIDE DEF g, Upto
  <2>5. k + 1 \in 0 .. n /\ \E h \in [0 .. k + 1 -> T] : Upto(k + 1, h)
    BY <1>2, <2>3, <2>4
  <2>6. QED
    BY <2>5
<1>3. n \in S
  <2> HIDE DEF S
  <2>1. \A k \in 0 .. n : k \in S
    BY <1>1, <1>2, Reaches
  <2>2. QED
    BY <2>1
<1>4. PICK f \in [0 .. n -> T] : Upto(n, f)
  BY <1>3
<1>5. QED
  BY <1>4 DEF Unfolds

-----------------------------------------------------------------------------
(* Sets in order.                                                          *)

StrictOrder(R, S) ==
  /\ \A x \in S : <<x, x>> \notin R
  /\ \A x, y, z \in S : <<x, y>> \in R /\ <<y, z>> \in R => <<x, z>> \in R
  /\ \A x, y \in S : x # y => <<x, y>> \in R \/ <<y, x>> \in R
Below(x, S, R) == {y \in S : <<y, x>> \in R}

(* Each member of a finite set has a rank of its own.                      *)
LEMMA RankInjective ==
  ASSUME NEW S, IsFiniteSet(S), NEW R, StrictOrder(R, S)
  PROVE  /\ Cardinality(S) \in Nat
         /\ \A x \in S : Cardinality(Below(x, S, R)) + 1 \in 1 .. Cardinality(S)
         /\ \A x, y \in S : Cardinality(Below(x, S, R)) = Cardinality(Below(y, S, R)) => x = y
<1>1. Cardinality(S) \in Nat
  BY FS_CardinalityType
<1>2. \A x \in S : IsFiniteSet(Below(x, S, R)) /\ Cardinality(Below(x, S, R)) \in Nat
  BY FS_Subset, FS_CardinalityType DEF Below
<1>3. ASSUME NEW x \in S PROVE Cardinality(Below(x, S, R)) + 1 \in 1 .. Cardinality(S)
  <2>1. Below(x, S, R) \in SUBSET S /\ Below(x, S, R) # S
    BY DEF Below, StrictOrder
  <2>2. Cardinality(Below(x, S, R)) <= Cardinality(S) /\ Cardinality(Below(x, S, R)) # Cardinality(S)
    BY <2>1, FS_Subset
  <2>3. QED
    BY <1>1, <1>2, <2>2
<1>4. ASSUME NEW x \in S, NEW y \in S, <<x, y>> \in R
      PROVE  Cardinality(Below(x, S, R)) # Cardinality(Below(y, S, R))
  <2>1. Below(x, S, R) \subseteq Below(y, S, R)
    BY <1>4 DEF Below, StrictOrder
  <2>2. x \in Below(y, S, R) /\ x \notin Below(x, S, R)
    BY <1>4 DEF Below, StrictOrder
  <2>3. QED
    BY <1>2, <2>1, <2>2, FS_Subset
<1>5. ASSUME NEW x \in S, NEW y \in S, Cardinality(Below(x, S, R)) = Cardinality(Below(y, S, R))
      PROVE  x = y
  <2>1. <<x, y>> \notin R /\ <<y, x>> \notin R
    BY <1>4, <1>5
  <2>2. QED
    BY <2>1 DEF StrictOrder
<1>6. QED
  BY <1>1, <1>3, <1>5

(* ... so a finite set in order lists each of its members once.            *)
LEMMA OrderedFacts ==
  ASSUME NEW S, IsFiniteSet(S), NEW R, StrictOrder(R, S)
  PROVE  /\ Ordered(S, R) \in Seq(S) /\ Len(Ordered(S, R)) = Cardinality(S)
         /\ DOMAIN Ordered(S, R) = 1 .. Cardinality(S)
         /\ \A x \in S : \E i \in DOMAIN Ordered(S, R) : Ordered(S, R)[i] = x
         /\ \A i, j \in DOMAIN Ordered(S, R) : Ordered(S, R)[i] = Ordered(S, R)[j] => i = j
<1> DEFINE n == Cardinality(S)
           rank == [x \in S |-> Cardinality(Below(x, S, R)) + 1]
           ord == Ordered(S, R)
<1>1. /\ n \in Nat
      /\ \A x \in S : Cardinality(Below(x, S, R)) \in Nat /\ Cardinality(Below(x, S, R)) + 1 \in 1 .. n
      /\ \A x, y \in S : Cardinality(Below(x, S, R)) = Cardinality(Below(y, S, R)) => x = y
  <2>1. \A x \in S : Cardinality(Below(x, S, R)) \in Nat
    BY FS_Subset, FS_CardinalityType DEF Below
  <2>2. QED
    BY <2>1, RankInjective
<1>2. rank \in Injection(S, 1 .. n)
  BY <1>1 DEF Injection, IsInjective
<1>3. rank \in Surjection(S, 1 .. n)
  <2>1. IsFiniteSet(1 .. n) /\ Cardinality(1 .. n) = n
    BY <1>1, FS_Interval
  <2>2. QED
    BY <1>2, <2>1, FS_Injection
<1>4. \A i \in 1 .. n : \E x \in S : Cardinality({y \in S : <<y, x>> \in R}) = i - 1
  <2>1. ASSUME NEW i \in 1 .. n PROVE \E x \in S : Cardinality(Below(x, S, R)) = i - 1
    <3>1. PICK x \in S : rank[x] = i
      BY <1>3 DEF Surjection
    <3>2. Cardinality(Below(x, S, R)) + 1 = i
      BY <3>1
    <3>3. QED
      BY <1>1, <3>2
  <2>2. QED
    BY <2>1 DEF Below
<1>5. \A i \in 1 .. n : ord[i] \in S /\ Cardinality(Below(ord[i], S, R)) = i - 1
  <2>1. ASSUME NEW i \in 1 .. n
        PROVE  LET x == CHOOSE x \in S : Cardinality({y \in S : <<y, x>> \in R}) = i - 1
               IN x \in S /\ Cardinality({y \in S : <<y, x>> \in R}) = i - 1
    BY <1>4, Zenon
  <2>2. \A i \in 1 .. n : After(i - 1, S, R) \in S /\ Cardinality(Below(After(i - 1, S, R), S, R)) = i - 1
    BY <2>1, Zenon DEF After, Below
  <2>3. \A i \in 1 .. n : ord[i] = After(i - 1, S, R)
    BY DEF Ordered
  <2>4. QED
    BY <2>2, <2>3
<1>6. ord = [i \in 1 .. n |-> After(i - 1, S, R)]
  BY DEF Ordered
<1>7. ord \in Seq(S) /\ Len(ord) = n /\ DOMAIN ord = 1 .. n
  <2> HIDE DEF n, rank, ord
  <2>1. ord \in [1 .. n -> S]
    BY <1>5, <1>6
  <2>2. QED
    BY <1>1, <2>1
<1> HIDE DEF n, rank, ord
<1>8. \A x \in S : \E i \in 1 .. n : ord[i] = x
  <2>1. ASSUME NEW x \in S PROVE \E i \in 1 .. n : ord[i] = x
    <3> DEFINE i == Cardinality(Below(x, S, R)) + 1
    <3>1. i \in 1 .. n /\ i - 1 = Cardinality(Below(x, S, R))
      BY <1>1
    <3> HIDE DEF i
    <3>2. ord[i] \in S /\ Cardinality(Below(ord[i], S, R)) = Cardinality(Below(x, S, R))
      BY <1>5, <3>1
    <3>3. QED
      BY <1>1, <3>1, <3>2
  <2>2. QED
    BY <2>1
<1>9. \A i, j \in 1 .. n : ord[i] = ord[j] => i = j
  <2>1. ASSUME NEW i \in 1 .. n, NEW j \in 1 .. n, ord[i] = ord[j] PROVE i = j
    <3>1. i - 1 = j - 1
      BY <1>5, <2>1
    <3>2. QED
      BY <1>1, <3>1
  <2>2. QED
    BY <2>1
<1>10. QED
  BY <1>7, <1>8, <1>9 DEF n, ord

LEMMA ByIdFacts ==
  ASSUME NEW ids \in SUBSET Nat, IsFiniteSet(ids)
  PROVE  /\ ById(ids) \in Seq(ids) /\ Len(ById(ids)) = Cardinality(ids)
         /\ DOMAIN ById(ids) = 1 .. Cardinality(ids)
         /\ \A x \in ids : \E i \in DOMAIN ById(ids) : ById(ids)[i] = x
         /\ \A i, j \in DOMAIN ById(ids) : ById(ids)[i] = ById(ids)[j] => i = j
<1> DEFINE R == {p \in ids \X ids : p[1] < p[2]}
<1>1. \A x, y \in ids : <<x, y>> \in R <=> x < y
  OBVIOUS
<1> HIDE DEF R
<1>2. StrictOrder(R, ids)
  BY <1>1 DEF StrictOrder
<1>3. ById(ids) = Ordered(ids, R)
  BY DEF ById, R
<1>4. QED
  BY <1>2, <1>3, OrderedFacts

(* The members of a sequence at some of its places.                        *)
LEMMA AtPlacesFacts ==
  ASSUME NEW T, NEW s \in Seq(T), NEW places \in SUBSET (DOMAIN s)
  PROVE  /\ AtPlaces(s, places) \in Seq(T)
         /\ \A i \in DOMAIN AtPlaces(s, places) : \E j \in places : AtPlaces(s, places)[i] = s[j]
         /\ \A j \in places : \E i \in DOMAIN AtPlaces(s, places) : AtPlaces(s, places)[i] = s[j]
         /\ \A i, j \in DOMAIN AtPlaces(s, places) : i # j =>
              \E k, l \in places : k # l /\ AtPlaces(s, places)[i] = s[k] /\ AtPlaces(s, places)[j] = s[l]
<1> DEFINE at == ById(places)
           sub == AtPlaces(s, places)
<1>1. DOMAIN s = 1 .. Len(s) /\ Len(s) \in Nat /\ \A i \in 1 .. Len(s) : s[i] \in T
  OBVIOUS
<1>2. IsFiniteSet(places) /\ places \in SUBSET Nat
  <2>1. IsFiniteSet(1 .. Len(s)) /\ places \in SUBSET (1 .. Len(s))
    BY <1>1, FS_Interval
  <2>2. QED
    BY <2>1, FS_Subset
<1>3. /\ at \in Seq(places) /\ DOMAIN at = 1 .. Len(at) /\ Len(at) \in Nat
      /\ \A i \in DOMAIN at : at[i] \in places
      /\ \A x \in places : \E i \in DOMAIN at : at[i] = x
      /\ \A i, j \in DOMAIN at : at[i] = at[j] => i = j
  <2>1. /\ at \in Seq(places)
        /\ \A x \in places : \E i \in DOMAIN at : at[i] = x
        /\ \A i, j \in DOMAIN at : at[i] = at[j] => i = j
    BY <1>2, ByIdFacts
  <2> HIDE DEF at
  <2>2. QED
    BY <2>1
<1>4. sub = [i \in DOMAIN at |-> s[at[i]]]
  BY DEF AtPlaces
<1> HIDE DEF at, sub
<1>5. DOMAIN sub = DOMAIN at /\ \A i \in DOMAIN at : sub[i] = s[at[i]]
  BY <1>4
<1>6. sub \in Seq(T)
  <2>1. \A i \in DOMAIN at : s[at[i]] \in T
    BY <1>1, <1>3
  <2>2. sub \in [1 .. Len(at) -> T]
    BY <1>3, <1>4, <2>1
  <2>3. Len(at) \in Nat
    BY <1>3
  <2>4. QED
    BY <2>2, <2>3, SeqDef
<1>7. \A i \in DOMAIN sub : \E j \in places : sub[i] = s[j]
  BY <1>3, <1>5
<1>8. \A j \in places : \E i \in DOMAIN sub : sub[i] = s[j]
  BY <1>3, <1>5
<1>9. \A i, j \in DOMAIN sub : i # j => \E k, l \in places : k # l /\ sub[i] = s[k] /\ sub[j] = s[l]
  BY <1>3, <1>5
<1>10. QED
  BY <1>6, <1>7, <1>8, <1>9 DEF sub

-----------------------------------------------------------------------------
(* Sequences of sequences.                                                 *)

LEMMA FlattenType ==
  ASSUME NEW T, NEW seqs \in Seq(Seq(T))
  PROVE  FlattenSeq(seqs) \in Seq(T)
<1>1. CASE Len(seqs) = 0
  <2>1. seqs = <<>>
    BY <1>1
  <2>2. FlattenSeq(seqs) = <<>>
    BY <1>1, <2>1 DEF FlattenSeq
  <2>3. QED
    BY <2>2
<1>2. CASE Len(seqs) # 0
  <2> DEFINE n == Len(seqs) - 1
             step == [p \in (1 .. n) \X Seq(T) |-> p[2] \o seqs[p[1] + 1]]
             Body(f) == [i \in 1 .. Len(seqs) |-> IF i = 1 THEN seqs[i] ELSE f[i - 1] \o seqs[i]]
             flatten == CHOOSE f : f = Body(f)
  <2>1. n \in Nat /\ n + 1 = Len(seqs) /\ \A i \in 1 .. Len(seqs) : seqs[i] \in Seq(T)
    BY <1>2
  <2>2. step \in [(1 .. n) \X Seq(T) -> Seq(T)]
    BY <2>1
  <2>3. PICK g \in [0 .. n -> Seq(T)] :
          g[0] = seqs[1] /\ \A k \in 1 .. n : g[k] = step[<<k, g[k - 1]>>]
    <3> DEFINE TT == Seq(T)
               a == seqs[1]
    <3>1. n \in Nat /\ a \in TT
      BY <2>1, <1>2
    <3>2. step \in [(1 .. n) \X TT -> TT]
      BY <2>2
    <3> HIDE DEF n, step, TT, a
    <3>3. \E g \in [0 .. n -> TT] : Unfolds(g, n, a, step)
      BY <3>1, <3>2, Recursion
    <3>4. QED
      BY <3>3 DEF TT, a, Unfolds
  <2> DEFINE h == [i \in 1 .. Len(seqs) |-> g[i - 1]]
  <2>4. h = Body(h)
    <3>1. ASSUME NEW i \in 1 .. Len(seqs)
          PROVE  g[i - 1] = IF i = 1 THEN seqs[i] ELSE h[i - 1] \o seqs[i]
      <4>1. CASE i = 1
        BY <2>1, <2>3, <4>1
      <4>2. CASE i # 1
        <5>1. i - 1 \in 1 .. n /\ i - 1 \in 0 .. n /\ i - 1 # 0 /\ (i - 1) - 1 \in 0 .. n /\ i - 1 \in 1 .. Len(seqs)
          BY <2>1, <4>2
        <5>2. g[i - 1] = step[<<i - 1, g[(i - 1) - 1]>>]
          BY <2>3, <5>1
        <5>3. step[<<i - 1, g[(i - 1) - 1]>>] = g[(i - 1) - 1] \o seqs[(i - 1) + 1]
          BY <2>3, <5>1
        <5>4. (i - 1) + 1 = i /\ h[i - 1] = g[(i - 1) - 1]
          BY <2>1, <5>1
        <5>5. QED
          BY <4>2, <5>2, <5>3, <5>4
      <4>3. QED
        BY <4>1, <4>2
    <3>2. QED
      BY <3>1
  <2>5. flatten = Body(flatten)
    <3> HIDE DEF Body, h
    <3>1. \E f : f = Body(f)
      BY <2>4
    <3>2. QED
      BY <3>1, Zenon
  <2>6. FlattenSeq(seqs) = flatten[Len(seqs)]
    BY <1>2, Zenon DEF FlattenSeq
  <2> HIDE DEF flatten
  <2>7. \A i \in 1 .. Len(seqs) : flatten[i] = IF i = 1 THEN seqs[i] ELSE flatten[i - 1] \o seqs[i]
    BY <2>5
  <2> DEFINE S == {k \in 0 .. n : flatten[k + 1] \in Seq(T)}
  <2>8. 0 \in S
    BY <2>1, <2>7
  <2>9. ASSUME NEW k \in 0 .. n, k < n, k \in S PROVE k + 1 \in S
    <3>1. k + 1 \in 0 .. n /\ (k + 1) + 1 \in 1 .. Len(seqs) /\ (k + 1) + 1 # 1 /\ ((k + 1) + 1) - 1 = k + 1
      BY <2>1, <2>9
    <3>2. flatten[(k + 1) + 1] = flatten[k + 1] \o seqs[(k + 1) + 1]
      BY <2>7, <3>1
    <3>3. flatten[k + 1] \in Seq(T) /\ seqs[(k + 1) + 1] \in Seq(T)
      BY <2>1, <2>9, <3>1
    <3>4. flatten[(k + 1) + 1] \in Seq(T)
      BY <3>2, <3>3, ConcatProperties
    <3>5. QED
      BY <3>1, <3>4
  <2>10. n \in S
    <3> HIDE DEF S, n
    <3>1. \A k \in 0 .. n : k \in S
      BY <2>1, <2>8, <2>9, Reaches
    <3>2. QED
      BY <2>1, <3>1
  <2>11. QED
    BY <2>1, <2>6, <2>10
<1>3. QED
  BY <1>1, <1>2

-----------------------------------------------------------------------------
(* What is kept of a group holds no dismissed pair.                        *)

KeptOf(kept, ids) ==
  \A id \in ids : id \in kept <=> \A other \in kept : other < id => {id, other} \notin apart

LEMMA KeptExists ==
  ASSUME NEW n \in Nat, NEW ids \in SUBSET (0 .. n)
  PROVE  \E kept \in SUBSET ids : KeptOf(kept, ids)
<1> DEFINE Upto(k, kept) ==
             /\ \A x \in kept : x < k
             /\ \A id \in ids : id < k =>
                  (id \in kept <=> \A other \in kept : other < id => {id, other} \notin apart)
           S == {k \in 0 .. n + 1 : \E kept \in SUBSET ids : Upto(k, kept)}
<1>1. 0 \in S
  <2>1. Upto(0, {})
    OBVIOUS
  <2> HIDE DEF Upto
  <2>2. QED
    BY <2>1
<1>2. ASSUME NEW k \in 0 .. n + 1, k < n + 1, k \in S PROVE k + 1 \in S
  <2>1. PICK kept \in SUBSET ids : Upto(k, kept)
    BY <1>2
  <2>2. CASE k \in ids /\ \A other \in kept : {k, other} \notin apart
    <3>1. Upto(k + 1, kept \cup {k})
      <4>1. \A x \in kept \cup {k} : x < k + 1
        BY <2>1
      <4>2. ASSUME NEW id \in ids, id < k + 1
            PROVE  id \in kept \cup {k} <=>
                     \A other \in kept \cup {k} : other < id => {id, other} \notin apart
        <5>1. CASE id = k
          BY <2>2, <5>1
        <5>2. CASE id < k
          <6>1. id \in kept \cup {k} <=> id \in kept
            BY <5>2
          <6>2. \A other \in kept \cup {k} : other < id => other \in kept
            BY <5>2
          <6>3. QED
            BY <2>1, <5>2, <6>1, <6>2
        <5>3. QED
          BY <4>2, <5>1, <5>2
      <4>3. QED
        BY <4>1, <4>2
    <3>2. kept \cup {k} \in SUBSET ids /\ k + 1 \in 0 .. n + 1
      BY <1>2, <2>2
    <3> HIDE DEF Upto
    <3>3. QED
      BY <3>1, <3>2
  <2>3. CASE ~(k \in ids /\ \A other \in kept : {k, other} \notin apart)
    <3>1. Upto(k + 1, kept)
      <4>1. \A x \in kept : x < k + 1
        BY <2>1
      <4>2. ASSUME NEW id \in ids, id < k + 1
            PROVE  id \in kept <=> \A other \in kept : other < id => {id, other} \notin apart
        <5>1. CASE id = k
          <6>1. id \notin kept
            BY <2>1, <5>1
          <6>2. PICK other \in kept : {k, other} \in apart
            BY <2>3, <5>1
          <6>3. QED
            BY <2>1, <5>1, <6>1, <6>2
        <5>2. CASE id < k
          BY <2>1, <5>2
        <5>3. QED
          BY <4>2, <5>1, <5>2
      <4>3. QED
        BY <4>1, <4>2
    <3>2. k + 1 \in 0 .. n + 1
      BY <1>2
    <3> HIDE DEF Upto
    <3>3. QED
      BY <3>1, <3>2
  <2>4. QED
    BY <2>2, <2>3
<1>3. n + 1 \in S
  <2> HIDE DEF S
  <2>1. n + 1 \in Nat
    OBVIOUS
  <2>2. \A k \in 0 .. n + 1 : k \in S
    BY <1>1, <1>2, <2>1, Reaches
  <2>3. QED
    BY <2>2
<1>4. PICK kept \in SUBSET ids : Upto(n + 1, kept)
  BY <1>3
<1>5. \A id \in ids : id < n + 1
  OBVIOUS
<1>6. KeptOf(kept, ids)
  BY <1>4, <1>5 DEF KeptOf
<1>7. QED
  BY <1>6

LEMMA KeptHolds ==
  ASSUME NEW n \in Nat, NEW ids \in SUBSET (0 .. n), \A pair \in apart : Cardinality(pair) = 2
  PROVE  Kept(ids) \in SUBSET ids /\ ~Torn(Kept(ids))
<1>1. Kept(ids) \in SUBSET ids /\ KeptOf(Kept(ids), ids)
  <2>1. \E kept \in SUBSET ids : KeptOf(kept, ids)
    BY KeptExists
  <2>2. QED
    BY <2>1, Zenon DEF Kept, KeptOf
<1> DEFINE kept == Kept(ids)
<1> HIDE DEF kept
<1>2. SUFFICES ASSUME NEW pair \in apart, pair \subseteq kept PROVE FALSE
  BY <1>1 DEF Torn, kept
<1>3. PICK a \in pair, b \in pair : a # b
  <2>1. SUFFICES ASSUME \A x, y \in pair : x = y PROVE FALSE
    OBVIOUS
  <2>2. CASE pair = {}
    BY <2>2, FS_EmptySet
  <2>3. CASE pair # {}
    <3>1. PICK x \in pair : TRUE
      BY <2>3
    <3>2. pair = {x}
      BY <2>1
    <3>3. Cardinality({x}) = 1
      BY FS_Singleton
    <3>4. Cardinality(pair) = 1 /\ Cardinality(pair) = 2
      BY <3>2, <3>3
    <3>5. QED
      BY <3>4
  <2>4. QED
    BY <2>2, <2>3
<1>4. pair = {a, b}
  <2>1. IsFiniteSet(pair)
    <3>1. pair \in SUBSET (0 .. n)
      BY <1>1, <1>2 DEF kept
    <3>2. IsFiniteSet(0 .. n)
      BY FS_Interval
    <3>3. QED
      BY <3>1, <3>2, FS_Subset
  <2>2. IsFiniteSet({a, b}) /\ Cardinality({a, b}) = 2
    <3>1. {a, b} = {a} \cup {b} /\ b \notin {a}
      BY <1>3
    <3>2. IsFiniteSet({a}) /\ Cardinality({a}) = 1
      BY FS_Singleton
    <3>3. QED
      BY <3>1, <3>2, FS_AddElement
  <2>3. {a, b} \in SUBSET pair /\ Cardinality(pair) = 2
    BY <1>3
  <2>4. QED
    BY <2>1, <2>2, <2>3, FS_Subset
<1>5. a \in kept /\ b \in kept /\ a \in ids /\ b \in ids /\ a \in 0 .. n /\ b \in 0 .. n
  BY <1>1, <1>2, <1>3 DEF kept
<1>6. \A id, other \in kept : other < id => {id, other} \notin apart
  BY <1>1 DEF KeptOf, kept
<1>7. CASE a < b
  BY <1>4, <1>5, <1>6, <1>7
<1>8. CASE b < a
  BY <1>4, <1>5, <1>6, <1>8
<1>9. QED
  BY <1>3, <1>5, <1>7, <1>8

-----------------------------------------------------------------------------
(* The exact groups: at least two pictures, none dismissed.                *)

Stacks(ids) == [members : SUBSET ids, certain : BOOLEAN]
Wholes(ids) == {ms \in SUBSET ids : Cardinality(ms) >= 2 /\ ~Torn(ms)}
WholeStacks(ids) == {g \in Stacks(ids) : Cardinality(g.members) >= 2 /\ ~Torn(g.members)}

LEMMA IdsFinite ==
  ASSUME GroupsTypeOK
  PROVE  /\ MaxRows \in Nat /\ Ids \in SUBSET (0 .. MaxRows) /\ IsFiniteSet(Ids)
         /\ \A ids \in SUBSET Ids : IsFiniteSet(ids) /\ ids \in SUBSET Nat /\ Cardinality(ids) \in Nat
         /\ \A pair \in apart : Cardinality(pair) = 2
<1>1. MaxRows \in Nat
  BY GroupsAssumption
<1>2. Ids \in SUBSET (0 .. MaxRows) /\ \A pair \in apart : Cardinality(pair) = 2
  BY <1>1 DEF GroupsTypeOK
<1>3. IsFiniteSet(0 .. MaxRows)
  BY <1>1, FS_Interval
<1>4. IsFiniteSet(Ids)
  BY <1>2, <1>3, FS_Subset
<1>5. ASSUME NEW ids \in SUBSET Ids PROVE IsFiniteSet(ids) /\ ids \in SUBSET Nat
  <2>1. IsFiniteSet(ids)
    BY <1>4, FS_Subset
  <2>2. QED
    BY <1>2, <2>1
<1>6. QED
  BY <1>1, <1>2, <1>4, <1>5, FS_CardinalityType

LEMMA SplitFacts ==
  ASSUME GroupsTypeOK, NEW ids \in SUBSET Ids
  PROVE  Split(ids) \in Seq(Wholes(ids))
<1> DEFINE anchors == ById(Anchors(ids))
<1>1. IsFiniteSet(Anchors(ids)) /\ Anchors(ids) \in SUBSET Nat
  <2>1. Anchors(ids) \in SUBSET Ids
    BY DEF Anchors
  <2>2. QED
    BY <2>1, IdsFinite
<1>2. anchors \in Seq(Anchors(ids))
  BY <1>1, ByIdFacts
<1> HIDE DEF anchors
<1>3. /\ Len(anchors) \in Nat /\ DOMAIN anchors = 1 .. Len(anchors)
      /\ \A i \in 1 .. Len(anchors) : anchors[i] \in Anchors(ids)
  BY <1>2
<1>4. ASSUME NEW id \in Anchors(ids) PROVE Kept(From(ids, id)) \in Wholes(ids)
  <2>1. From(ids, id) \in SUBSET ids /\ From(ids, id) \in SUBSET (0 .. MaxRows)
    BY IdsFinite DEF From
  <2>2. Kept(From(ids, id)) \in SUBSET From(ids, id) /\ ~Torn(Kept(From(ids, id)))
    BY <2>1, IdsFinite, KeptHolds
  <2>3. Cardinality(Kept(From(ids, id))) >= 2
    BY DEF Anchors
  <2>4. QED
    BY <2>1, <2>2, <2>3 DEF Wholes
<1>5. Split(ids) = [i \in 1 .. Len(anchors) |-> Kept(From(ids, anchors[i]))]
  BY <1>3 DEF Split, anchors
<1>6. Split(ids) \in [1 .. Len(anchors) -> Wholes(ids)]
  BY <1>3, <1>4, <1>5
<1>7. Len(anchors) \in Nat
  BY <1>3
<1>8. QED
  BY <1>6, <1>7, SeqDef

LEMMA GroupedType ==
  ASSUME NEW ms, NEW first
  PROVE  /\ Grouped(ms, first).members = ms
         /\ \A ids : ms \in SUBSET ids => Grouped(ms, first) \in Stacks(ids)
<1>1. Confident(ms, first) \in BOOLEAN
  BY DEF Confident
<1> DEFINE c == Confident(ms, first)
<1>2. Grouped(ms, first) = [members |-> ms, certain |-> c]
  BY DEF Grouped
<1>3. c \in BOOLEAN
  BY <1>1
<1> HIDE DEF c
<1>4. QED
  BY <1>2, <1>3 DEF Stacks

(* The order in which exact_groups takes the classes of a digest.          *)
LEMMA ClassesFacts ==
  ASSUME GroupsTypeOK, NEW ids \in SUBSET Ids, NEW digest \in [Ids -> Nat]
  PROVE  Classes(ids, digest) \in Seq(WholeStacks(ids))
<1> DEFINE digests == {digest[id] : id \in ids}
           class == [d \in digests |-> {id \in ids : digest[id] = d}]
           larger == {p \in digests \X digests :
                        LET n == Cardinality(class[p[1]])
                            k == Cardinality(class[p[2]])
                        IN n > k \/ (n = k /\ p[1] < p[2])}
           order == Ordered(digests, larger)
           parts == [i \in DOMAIN order |-> Split(class[order[i]])]
           split == FlattenSeq(parts)
           W == Wholes(ids)
<1>1. IsFiniteSet(digests) /\ digests \in SUBSET Nat
  <2>1. [id \in ids |-> digest[id]] \in Surjection(ids, digests)
    BY DEF Surjection
  <2>2. IsFiniteSet(ids)
    BY IdsFinite
  <2>3. QED
    BY <2>1, <2>2, FS_Surjection
<1>2. \A d \in digests : class[d] \in SUBSET ids /\ Cardinality(class[d]) \in Nat
  BY IdsFinite
<1>3. StrictOrder(larger, digests)
  <2> DEFINE size == [d \in digests |-> Cardinality(class[d])]
  <2>1. size \in [digests -> Nat]
    BY <1>2
  <2>2. \A d, e \in digests : <<d, e>> \in larger <=>
          size[d] > size[e] \/ (size[d] = size[e] /\ d < e)
    OBVIOUS
  <2> HIDE DEF larger, size, class, digests
  <2>3. QED
    BY <1>1, <2>1, <2>2 DEF StrictOrder
<1>4. /\ Len(order) \in Nat /\ DOMAIN order = 1 .. Len(order)
      /\ \A i \in 1 .. Len(order) : order[i] \in digests
  <2>1. order \in Seq(digests)
    BY <1>1, <1>3, OrderedFacts
  <2> HIDE DEF order
  <2>2. QED
    BY <2>1
<1>5. parts \in Seq(Seq(W))
  <2> HIDE DEF order, class, digests, W
  <2>1. \A i \in 1 .. Len(order) : Split(class[order[i]]) \in Seq(W)
    <3>1. \A d \in digests : Split(class[d]) \in Seq(W)
      <4>1. ASSUME NEW d \in digests PROVE Split(class[d]) \in Seq(W)
        <5>1. class[d] \in SUBSET ids /\ class[d] \in SUBSET Ids
          BY <1>2
        <5>2. Split(class[d]) \in Seq(Wholes(class[d])) /\ Wholes(class[d]) \subseteq W
          BY <5>1, SplitFacts DEF Wholes, W
        <5>3. QED
          BY <5>2, SeqMonotonic
      <4>2. QED
        BY <4>1
    <3>2. QED
      BY <1>4, <3>1
  <2>2. parts \in [1 .. Len(order) -> Seq(W)]
    BY <1>4, <2>1
  <2>3. Len(order) \in Nat
    BY <1>4
  <2> HIDE DEF parts
  <2>4. QED
    BY <2>2, <2>3, SeqDef
<1>6. split \in Seq(W)
  <2> HIDE DEF parts, W
  <2>1. QED
    BY <1>5, FlattenType
<1>7. Classes(ids, digest) = [i \in DOMAIN split |-> Grouped(split[i], Min(split[i]))]
  BY DEF Classes
<1> HIDE DEF split
<1>8. /\ Len(split) \in Nat /\ DOMAIN split = 1 .. Len(split)
      /\ \A i \in 1 .. Len(split) : split[i] \in W
  BY <1>6
<1>9. ASSUME NEW ms \in W, NEW first PROVE Grouped(ms, first) \in WholeStacks(ids)
  BY GroupedType DEF Wholes, WholeStacks
<1> HIDE DEF W
<1>10. Classes(ids, digest) \in [1 .. Len(split) -> WholeStacks(ids)]
  BY <1>7, <1>8, <1>9
<1>11. Len(split) \in Nat
  BY <1>8
<1>12. QED
  BY <1>10, <1>11, SeqDef

LEMMA ExactFacts ==
  ASSUME GroupsTypeOK, NEW ids \in SUBSET Ids
  PROVE  Exact(ids) \in Seq(WholeStacks(ids))
<1> DEFINE bytes == Classes(ids, Sha)
           news == AtPlaces(bytes, {i \in DOMAIN bytes :
                                      ~ bytes[i].members \subseteq UNION MembersOf(Classes(ids, Pixels))})
<1>1. Pixels \in [Ids -> Nat] /\ Sha \in [Ids -> Nat]
  BY GroupsAssumption DEF GroupsTypeOK, Pixels, Sha
<1>2. Classes(ids, Pixels) \in Seq(WholeStacks(ids)) /\ bytes \in Seq(WholeStacks(ids))
  BY <1>1, ClassesFacts
<1>3. news \in Seq(WholeStacks(ids))
  <2> DEFINE places == {i \in DOMAIN bytes :
                          ~ bytes[i].members \subseteq UNION MembersOf(Classes(ids, Pixels))}
  <2>1. places \in SUBSET (DOMAIN bytes)
    OBVIOUS
  <2> HIDE DEF places, bytes
  <2>2. AtPlaces(bytes, places) \in Seq(WholeStacks(ids))
    BY <1>2, <2>1, AtPlacesFacts
  <2>3. QED
    BY <2>2 DEF places
<1>4. Exact(ids) = Classes(ids, Pixels) \o news
  BY DEF Exact
<1> HIDE DEF news
<1>5. QED
  BY <1>2, <1>3, <1>4, ConcatProperties

-----------------------------------------------------------------------------
(* The components: what joins with a picture is in its class, classes that *)
(* meet are one, and all of a class are of one kind.                       *)

Pairing(pairs, ids) ==
  /\ \A p \in pairs : p \in ids \X ids
  /\ \A a, b \in ids : <<a, b>> \in pairs => <<b, a>> \in pairs

LEMMA ComponentHolds ==
  ASSUME NEW ids, NEW pairs, Pairing(pairs, ids), NEW id \in ids
  PROVE  /\ id \in Component(id, ids, pairs) /\ Component(id, ids, pairs) \in SUBSET ids
         /\ Closed(Component(id, ids, pairs), pairs)
         /\ \A class \in SUBSET ids : id \in class /\ Closed(class, pairs) =>
              Component(id, ids, pairs) \subseteq class
<1> DEFINE comp == Component(id, ids, pairs)
<1>1. \A x : x \in comp <=>
        x \in ids /\ \A class \in SUBSET ids : id \in class /\ Closed(class, pairs) => x \in class
  BY DEF Component
<1> HIDE DEF comp
<1>2. ASSUME NEW p \in pairs, Joins(p[1], p[2]), p[1] \in comp PROVE p[2] \in comp
  <2>1. p[2] \in ids
    BY DEF Pairing
  <2>2. ASSUME NEW class \in SUBSET ids, id \in class, Closed(class, pairs) PROVE p[2] \in class
    BY <1>1, <1>2, <2>2 DEF Closed
  <2>3. QED
    BY <1>1, <2>1, <2>2
<1>3. Closed(comp, pairs)
  BY <1>2 DEF Closed
<1>4. id \in comp /\ comp \in SUBSET ids
  BY <1>1
<1>5. \A class \in SUBSET ids : id \in class /\ Closed(class, pairs) => comp \subseteq class
  BY <1>1
<1>6. QED
  BY <1>3, <1>4, <1>5 DEF comp

LEMMA JoinsIsSame ==
  /\ \A a, b : Joins(a, b) => Joins(b, a)
  /\ \A a, b, c : Joins(a, b) /\ Joins(b, c) => Joins(a, c)
  /\ \A a : Joins(a, a)
  BY DEF Joins

LEMMA ComponentsMeet ==
  ASSUME NEW ids, NEW pairs, Pairing(pairs, ids), NEW a \in ids, NEW b \in Component(a, ids, pairs)
  PROVE  Component(a, ids, pairs) = Component(b, ids, pairs)
<1> DEFINE ca == Component(a, ids, pairs)
           cb == Component(b, ids, pairs)
<1>1. a \in ca /\ ca \in SUBSET ids /\ Closed(ca, pairs) /\ b \in ids
  BY ComponentHolds
<1>2. /\ b \in cb /\ cb \in SUBSET ids /\ Closed(cb, pairs)
      /\ \A class \in SUBSET ids : b \in class /\ Closed(class, pairs) => cb \subseteq class
  BY <1>1, ComponentHolds
<1>3. \A class \in SUBSET ids : a \in class /\ Closed(class, pairs) => ca \subseteq class
  BY ComponentHolds
<1> HIDE DEF ca, cb
<1>4. cb \subseteq ca
  BY <1>1, <1>2 DEF ca
<1>5. a \in cb
  <2>1. SUFFICES ASSUME a \notin cb PROVE FALSE
    OBVIOUS
  <2> DEFINE out == ids \ cb
  <2>2. ASSUME NEW p \in pairs, Joins(p[1], p[2]), p[1] \in out PROVE p[2] \in out
    <3>1. p[1] \in ids /\ p[2] \in ids /\ p = <<p[1], p[2]>>
      BY DEF Pairing
    <3>2. <<p[2], p[1]>> \in pairs /\ Joins(p[2], p[1])
      BY <2>2, <3>1, JoinsIsSame DEF Pairing
    <3>3. p[2] \in cb => p[1] \in cb
      <4> DEFINE q == <<p[2], p[1]>>
      <4>1. q \in pairs /\ q[1] = p[2] /\ q[2] = p[1]
        BY <3>2
      <4> HIDE DEF q
      <4>2. QED
        BY <1>2, <3>2, <4>1 DEF Closed
    <3>4. QED
      BY <2>2, <3>1, <3>3
  <2>3. Closed(out, pairs) /\ out \in SUBSET ids /\ a \in out
    BY <2>1, <2>2 DEF Closed
  <2>4. ca \subseteq out
    BY <1>3, <2>3
  <2>5. QED
    BY <1>2, <2>4 DEF ca
<1>6. ca \subseteq cb
  BY <1>2, <1>3, <1>5
<1>7. QED
  BY <1>4, <1>6 DEF ca, cb

LEMMA ComponentKind ==
  ASSUME NEW ids, NEW pairs, Pairing(pairs, ids), NEW a \in ids, NEW b \in Component(a, ids, pairs)
  PROVE  Known(a) <=> Known(b)
<1> DEFINE kind == {x \in ids : Known(a) <=> Known(x)}
<1>1. ASSUME NEW p \in pairs, Joins(p[1], p[2]), p[1] \in kind PROVE p[2] \in kind
  <2>1. p[2] \in ids
    BY DEF Pairing
  <2>2. Known(p[1]) <=> Known(p[2])
    BY <1>1 DEF Joins, Known
  <2>3. QED
    BY <1>1, <2>1, <2>2
<1>2. Closed(kind, pairs) /\ kind \in SUBSET ids /\ a \in kind
  BY <1>1 DEF Closed
<1> HIDE DEF kind
<1>3. Component(a, ids, pairs) \subseteq kind
  BY <1>2, ComponentHolds
<1>4. QED
  BY <1>3 DEF kind

LEMMA ByFirstFacts ==
  ASSUME NEW sets, IsFiniteSet(sets), \A c \in sets : c \in SUBSET Nat /\ c # {},
         \A c, d \in sets : Min(c) = Min(d) => c = d
  PROVE  /\ ByFirst(sets) \in Seq(sets)
         /\ \A c \in sets : \E i \in DOMAIN ByFirst(sets) : ByFirst(sets)[i] = c
<1> DEFINE R == {p \in sets \X sets : Min(p[1]) < Min(p[2])}
<1>1. \A c \in sets : Min(c) \in Nat
  BY LeastOfSome
<1>2. \A c, d \in sets : <<c, d>> \in R <=> Min(c) < Min(d)
  OBVIOUS
<1>3. ByFirst(sets) = Ordered(sets, R)
  BY DEF ByFirst
<1> HIDE DEF R
<1>4. StrictOrder(R, sets)
  BY <1>1, <1>2 DEF StrictOrder
<1>5. QED
  BY <1>3, <1>4, OrderedFacts

LEMMA ComponentsFacts ==
  ASSUME GroupsTypeOK, NEW ids \in SUBSET Ids, NEW pairs, Pairing(pairs, ids)
  PROVE  /\ IsFiniteSet(Components(ids, pairs))
         /\ \A c \in Components(ids, pairs) : c \in SUBSET ids /\ c \in SUBSET Nat /\ c # {}
         /\ \A c \in Components(ids, pairs) : \A x \in c : c = Component(x, ids, pairs)
         /\ \A c, d \in Components(ids, pairs) : Min(c) = Min(d) => c = d
<1> DEFINE comps == Components(ids, pairs)
<1>1. \A c \in comps : \E x \in ids : c = Component(x, ids, pairs)
  BY DEF Components
<1> HIDE DEF comps
<1>2. \A c \in comps : c \in SUBSET ids /\ c # {}
  <2>1. \A x \in ids : Component(x, ids, pairs) \in SUBSET ids /\ x \in Component(x, ids, pairs)
    BY ComponentHolds
  <2>2. QED
    BY <1>1, <2>1
<1>3. \A c \in comps : c \in SUBSET Nat
  BY <1>2, IdsFinite
<1>4. \A c \in comps : \A x \in c : c = Component(x, ids, pairs)
  BY <1>1, ComponentsMeet
<1>5. \A c, d \in comps : Min(c) = Min(d) => c = d
  <2>1. \A c \in comps : c = Component(Min(c), ids, pairs)
    <3>1. \A c \in comps : Min(c) \in c
      BY <1>2, <1>3, LeastOfSome
    <3>2. QED
      BY <1>4, <3>1
  <2>2. QED
    BY <2>1
<1>6. IsFiniteSet(comps)
  <2>1. IsFiniteSet(SUBSET ids)
    BY IdsFinite, FS_SUBSET
  <2>2. comps \in SUBSET (SUBSET ids)
    BY <1>2
  <2>3. QED
    BY <2>1, <2>2, FS_Subset
<1>7. QED
  BY <1>2, <1>3, <1>4, <1>5, <1>6 DEF comps

(* The lookalikes are sets of the candidates; each component with a shape  *)
(* is among them as it has grown, and each without that attaches nowhere.  *)
LEMMA LookalikesFacts ==
  ASSUME GroupsTypeOK, NEW ids \in SUBSET Ids, NEW pairs, Pairing(pairs, ids)
  PROVE  /\ Lookalikes(ids, pairs) \in Seq(SUBSET ids)
         /\ \A c \in Shaped(Components(ids, pairs)) : \E i \in DOMAIN Lookalikes(ids, pairs) :
              Lookalikes(ids, pairs)[i] = Grown(c, Components(ids, pairs), pairs)
         /\ \A u \in Loose(Components(ids, pairs), pairs) : \E i \in DOMAIN Lookalikes(ids, pairs) :
              Lookalikes(ids, pairs)[i] = u
<1> DEFINE comps == Components(ids, pairs)
           shaped == ByFirst(Shaped(comps))
           grown == [i \in DOMAIN shaped |-> Grown(shaped[i], comps, pairs)]
           loose == ByFirst(Loose(comps, pairs))
           all == Lookalikes(ids, pairs)
<1>1. /\ IsFiniteSet(comps)
      /\ \A c \in comps : c \in SUBSET ids /\ c \in SUBSET Nat /\ c # {}
      /\ \A c, d \in comps : Min(c) = Min(d) => c = d
  BY ComponentsFacts
<1>2. all = grown \o loose
  BY DEF Lookalikes
<1> HIDE DEF comps
<1>3. ASSUME NEW sets \in SUBSET comps
      PROVE  /\ ByFirst(sets) \in Seq(sets)
             /\ \A c \in sets : \E i \in DOMAIN ByFirst(sets) : ByFirst(sets)[i] = c
  <2>1. IsFiniteSet(sets)
    BY <1>1, FS_Subset
  <2>2. \A c \in sets : c \in SUBSET Nat /\ c # {}
    BY <1>1
  <2>3. \A c, d \in sets : Min(c) = Min(d) => c = d
    BY <1>1
  <2>4. QED
    BY <2>1, <2>2, <2>3, ByFirstFacts
<1>4. Shaped(comps) \in SUBSET comps /\ Loose(comps, pairs) \in SUBSET comps
  BY DEF Shaped, Loose, Shapeless
<1>5. /\ shaped \in Seq(Shaped(comps))
      /\ \A c \in Shaped(comps) : \E i \in DOMAIN shaped : shaped[i] = c
  BY <1>3, <1>4
<1>6. /\ loose \in Seq(Loose(comps, pairs))
      /\ \A c \in Loose(comps, pairs) : \E i \in DOMAIN loose : loose[i] = c
  BY <1>3, <1>4
<1> HIDE DEF shaped, loose
<1>7. \A c \in comps : Grown(c, comps, pairs) \in SUBSET ids
  BY <1>1 DEF Grown, Shapeless
<1>8. DOMAIN shaped = 1 .. Len(shaped) /\ Len(shaped) \in Nat /\ \A i \in 1 .. Len(shaped) : shaped[i] \in comps
  BY <1>4, <1>5
<1>9. grown \in Seq(SUBSET ids) /\ Len(grown) = Len(shaped)
  <2>1. grown \in [1 .. Len(shaped) -> SUBSET ids]
    BY <1>7, <1>8
  <2>2. Len(shaped) \in Nat
    BY <1>8
  <2> HIDE DEF grown
  <2>3. QED
    BY <2>1, <2>2
<1>10. loose \in Seq(SUBSET ids)
  <2>1. Loose(comps, pairs) \subseteq SUBSET ids
    BY <1>1, <1>4
  <2>2. QED
    BY <1>6, <2>1, SeqMonotonic
<1>11. \A i \in DOMAIN shaped : grown[i] = Grown(shaped[i], comps, pairs)
  OBVIOUS
<1> HIDE DEF grown, all
<1>12. /\ all \in Seq(SUBSET ids) /\ DOMAIN all = 1 .. Len(grown) + Len(loose)
       /\ \A i \in 1 .. Len(grown) + Len(loose) :
            all[i] = IF i <= Len(grown) THEN grown[i] ELSE loose[i - Len(grown)]
  <2> DEFINE TT == SUBSET ids
  <2>1. grown \in Seq(TT) /\ loose \in Seq(TT)
    BY <1>9, <1>10
  <2> HIDE DEF TT
  <2>2. /\ all \in Seq(TT) /\ Len(all) = Len(grown) + Len(loose)
        /\ \A i \in 1 .. Len(grown) + Len(loose) :
             all[i] = IF i <= Len(grown) THEN grown[i] ELSE loose[i - Len(grown)]
    BY <1>2, <2>1, ConcatProperties
  <2>3. DOMAIN all = 1 .. Len(all)
    BY <2>2
  <2>4. QED
    BY <2>2, <2>3 DEF TT
<1>13. \A c \in Shaped(comps) : \E i \in DOMAIN all : all[i] = Grown(c, comps, pairs)
  <2>1. ASSUME NEW c \in Shaped(comps) PROVE \E i \in DOMAIN all : all[i] = Grown(c, comps, pairs)
    <3>1. PICK i \in 1 .. Len(shaped) : shaped[i] = c
      BY <1>5, <1>8
    <3>2. i \in 1 .. Len(grown) + Len(loose) /\ i <= Len(grown) /\ grown[i] = Grown(c, comps, pairs)
      BY <1>8, <1>9, <1>10, <1>11, <3>1
    <3>3. QED
      BY <1>12, <3>2
  <2>2. QED
    BY <2>1
<1>14. \A u \in Loose(comps, pairs) : \E i \in DOMAIN all : all[i] = u
  <2>1. ASSUME NEW u \in Loose(comps, pairs) PROVE \E i \in DOMAIN all : all[i] = u
    <3>1. PICK j \in 1 .. Len(loose) : loose[j] = u
      BY <1>6, <1>10
    <3> DEFINE i == j + Len(grown)
    <3>2. /\ i \in 1 .. Len(grown) + Len(loose) /\ ~(i <= Len(grown)) /\ i - Len(grown) = j
      BY <1>9, <1>10, <3>1
    <3> HIDE DEF i
    <3>3. QED
      BY <1>12, <3>1, <3>2
  <2>2. QED
    BY <2>1
<1>15. QED
  BY <1>12, <1>13, <1>14 DEF all, comps

LEMMA AdmissiblePairing ==
  ASSUME NEW ids
  PROVE  Pairing(Admissible(ids), ids)
<1>1. \A a, b \in ids : <<a, b>> \in Admissible(ids) <=>
        b \in CandidatesFor(a, ids) \ {a} /\ Alike(a, b)
  BY DEF Admissible
<1>2. \A p \in Admissible(ids) : p \in ids \X ids
  BY DEF Admissible
<1>3. \A a, b : Differ(a, b) = Differ(b, a)
  BY DEF Differ
<1>4. \A a, b : Comparable(a, b) => Comparable(b, a)
  <2>1. \A a, b : {shown[a].ratio, shown[b].ratio} = {shown[b].ratio, shown[a].ratio}
    OBVIOUS
  <2>2. QED
    BY <2>1, Zenon DEF Comparable
<1>5. \A a, b : Alike(a, b) => Alike(b, a)
  <2>1. \A a, b : {a, b} = {b, a}
    OBVIOUS
  <2>2. QED
    BY <1>3, <1>4, <2>1, Zenon DEF Alike
<1>6. \A a, b \in ids : b \in CandidatesFor(a, ids) => a \in CandidatesFor(b, ids)
  BY <1>3 DEF CandidatesFor
<1>7. QED
  BY <1>1, <1>2, <1>5, <1>6 DEF Pairing

-----------------------------------------------------------------------------
(* The groups of lookalikes.                                               *)

LEMMA SimilarFacts ==
  ASSUME GroupsTypeOK, NEW exact, NEW ids \in SUBSET Ids, NEW candidates, NEW pairs,
         candidates = ids \ Collapsed(exact), pairs = Admissible(candidates)
  PROVE  /\ candidates \in SUBSET Ids /\ Pairing(pairs, candidates)
         /\ Similar(ids, exact) \in Seq(Stacks(ids))
         /\ \A i \in DOMAIN Lookalikes(candidates, pairs) :
              Cardinality(Lookalikes(candidates, pairs)[i]) >= 2 =>
                Lookalikes(candidates, pairs)[i] \in MembersOf(Similar(ids, exact))
<1> DEFINE all == Lookalikes(candidates, pairs)
           places == {i \in DOMAIN all : Cardinality(all[i]) >= 2}
           many == AtPlaces(all, places)
           sim == Similar(ids, exact)
           TT == SUBSET ids
<1>1. candidates \in SUBSET Ids /\ candidates \subseteq ids /\ Pairing(pairs, candidates)
  BY AdmissiblePairing
<1>2. all \in Seq(TT)
  <2> DEFINE CC == SUBSET candidates
  <2>1. all \in Seq(CC)
    BY <1>1, LookalikesFacts
  <2>2. CC \subseteq TT
    BY <1>1
  <2> HIDE DEF CC, TT, all
  <2>3. QED
    BY <2>1, <2>2, SeqMonotonic
<1>3. sim = [i \in DOMAIN many |-> Grouped(many[i], Min(many[i]))]
  BY DEF Similar
<1>4. places \in SUBSET (DOMAIN all) /\ \A i \in DOMAIN all : Cardinality(all[i]) >= 2 => i \in places
  OBVIOUS
<1> HIDE DEF all, places
<1>5. /\ many \in Seq(TT)
      /\ \A j \in places : \E i \in DOMAIN many : many[i] = all[j]
  <2> HIDE DEF TT
  <2>1. QED
    BY <1>2, <1>4, AtPlacesFacts
<1> HIDE DEF many, sim
<1>6. DOMAIN many = 1 .. Len(many) /\ Len(many) \in Nat /\ \A i \in 1 .. Len(many) : many[i] \in TT
  BY <1>5
<1>7. ASSUME NEW i \in DOMAIN many
      PROVE  Grouped(many[i], Min(many[i])) \in Stacks(ids) /\ sim[i].members = many[i]
  <2>1. many[i] \in TT
    BY <1>6
  <2>2. Grouped(many[i], Min(many[i])) \in Stacks(ids) /\ Grouped(many[i], Min(many[i])).members = many[i]
    BY <2>1, GroupedType
  <2>3. sim[i] = Grouped(many[i], Min(many[i]))
    BY <1>3
  <2>4. QED
    BY <2>2, <2>3
<1>8. sim \in Seq(Stacks(ids)) /\ DOMAIN sim = DOMAIN many
  <2>1. sim \in [1 .. Len(many) -> Stacks(ids)]
    BY <1>3, <1>6, <1>7
  <2>2. Len(many) \in Nat
    BY <1>6
  <2>3. DOMAIN sim = DOMAIN many
    BY <1>3
  <2>4. QED
    BY <2>1, <2>2, <2>3, SeqDef
<1>9. ASSUME NEW j \in DOMAIN all, Cardinality(all[j]) >= 2 PROVE all[j] \in MembersOf(sim)
  <2>1. PICK i \in DOMAIN many : many[i] = all[j]
    BY <1>4, <1>5, <1>9
  <2>2. sim[i] \in Range(sim) /\ sim[i].members = all[j]
    BY <1>7, <1>8, <2>1 DEF Range
  <2>3. QED
    BY <2>2 DEF MembersOf
<1>10. QED
  BY <1>1, <1>8, <1>9 DEF all, sim

(* Who has two members has a cardinality of two or more.                   *)
LEMMA TwoMembers ==
  ASSUME NEW S, IsFiniteSet(S), NEW a \in S, NEW b \in S, a # b
  PROVE  Cardinality(S) >= 2
<1>1. IsFiniteSet({a}) /\ Cardinality({a}) = 1
  BY FS_Singleton
<1>2. {a, b} = {a} \cup {b} /\ b \notin {a}
  OBVIOUS
<1>3. Cardinality({a, b}) = 2
  BY <1>1, <1>2, FS_AddElement
<1>4. {a, b} \in SUBSET S
  OBVIOUS
<1>5. Cardinality({a, b}) <= Cardinality(S) /\ Cardinality(S) \in Nat
  BY <1>4, FS_Subset, FS_CardinalityType
<1>6. QED
  BY <1>3, <1>5

(* The bands miss no pair: if two hashes differ in every band, they differ *)
(* in at least as many bits as there are bands.                            *)
LEMMA BandsMissNone ==
  ASSUME GroupsTypeOK, NEW ids \in SUBSET Ids, NEW a \in ids, NEW b \in ids,
         Cardinality(Differ(a, b)) <= threshold
  PROVE  b \in CandidatesFor(a, ids)
<1> DEFINE bits == Differ(a, b)
<1>1. CASE threshold >= Cardinality(HashBands)
  BY <1>1 DEF CandidatesFor
<1>2. CASE ~(threshold >= Cardinality(HashBands))
  <2>1. IsFiniteSet(bits)
    <3>1. shown[a] \in Looks /\ shown[b] \in Looks
      BY DEF GroupsTypeOK
    <3>2. IsFiniteSet(shown[a].hash \ shown[b].hash) /\ IsFiniteSet(shown[b].hash \ shown[a].hash)
      BY <3>1, GroupsAssumption, FS_Difference
    <3>3. QED
      BY <3>2, FS_Union DEF Differ
  <2>2. IsFiniteSet(HashBands) /\ Cardinality(HashBands) \in Nat /\ Cardinality(bits) \in Nat /\ threshold \in Nat
    BY <2>1, GroupsAssumption, FS_CardinalityType DEF GroupsTypeOK
  <2>3. SUFFICES ASSUME \A band \in HashBands : band \cap bits # {} PROVE FALSE
    BY <1>2 DEF CandidatesFor
  <2> DEFINE hit == [band \in HashBands |-> CHOOSE bit \in bits : bit \in band]
  <2>4. \A band \in HashBands : hit[band] \in bits /\ hit[band] \in band
    <3>1. \A band \in HashBands : \E bit \in bits : bit \in band
      BY <2>3
    <3>2. QED
      BY <3>1
  <2>5. hit \in [HashBands -> bits] /\ Cardinality(bits) < Cardinality(HashBands)
    BY <1>2, <2>2, <2>4
  <2> HIDE DEF hit, bits
  <2>6. PICK c, d \in HashBands : c # d /\ hit[c] = hit[d]
    BY <2>1, <2>2, <2>5, FS_PigeonHole
  <2>7. c \cap d = {}
    BY <2>6, GroupsAssumption
  <2>8. QED
    BY <2>4, <2>6, <2>7
<1>3. QED
  BY <1>1, <1>2

(* An image without a shape that may attach somewhere attaches to one      *)
(* component with a shape.                                                 *)
LEMMA AttachedSome ==
  ASSUME NEW unknown, NEW shaped, NEW pairs, \A c \in shaped : c \in SUBSET Nat /\ c # {},
         Attached(unknown, shaped, pairs) # {}
  PROVE  \E c \in shaped : Attached(unknown, shaped, pairs) = {c}
<1> DEFINE targets == {ids \in shaped : \E u \in unknown, k \in ids : <<u, k>> \in pairs}
           firsts == {Min(ids) : ids \in targets}
<1>1. targets # {}
  BY DEF Attached
<1>2. firsts \in SUBSET Nat /\ firsts # {}
  BY <1>1, LeastOfSome
<1>3. \E ids \in targets : \A other \in targets : Min(ids) <= Min(other)
  <2>1. Min(firsts) \in firsts /\ \A x \in firsts : Min(firsts) <= x
    BY <1>2, LeastOfSome
  <2>2. PICK ids \in targets : Min(ids) = Min(firsts)
    BY <2>1
  <2>3. \A other \in targets : Min(other) \in firsts
    OBVIOUS
  <2> HIDE DEF firsts, targets
  <2>4. QED
    BY <2>1, <2>2, <2>3
<1> DEFINE c == CHOOSE ids \in targets : \A other \in targets : Min(ids) <= Min(other)
<1>4. c \in targets
  BY <1>3
<1>5. Attached(unknown, shaped, pairs) = {c}
  BY <1>1 DEF Attached
<1> HIDE DEF c
<1>6. QED
  BY <1>4, <1>5

LEMMA NoneIsLeftOut ==
  ASSUME GroupsTypeOK
  PROVE  NoneLeftOut
<1> DEFINE exact == Exact(Ids)
           candidates == Ids \ Collapsed(exact)
           pairs == Admissible(candidates)
           comps == Components(candidates, pairs)
           all == Lookalikes(candidates, pairs)
           groups == MembersOf(Similar(Ids, exact))
<1>1. SUFFICES ASSUME NEW a \in candidates, NEW b \in candidates, a # b, Alike(a, b),
                      Known(a) => Known(b)
               PROVE  a \in UNION groups
  BY DEF NoneLeftOut
<1>2. /\ candidates \in SUBSET Ids /\ Pairing(pairs, candidates)
      /\ \A i \in DOMAIN all : Cardinality(all[i]) >= 2 => all[i] \in groups
  BY SimilarFacts
<1>3. <<a, b>> \in pairs
  <2>1. b \in CandidatesFor(a, candidates)
    BY <1>1, <1>2, BandsMissNone DEF Alike
  <2>2. QED
    BY <1>1, <2>1 DEF Admissible
<1> HIDE DEF exact, candidates, pairs, groups
<1>4. /\ \A c \in comps : c \in SUBSET candidates /\ c \in SUBSET Nat /\ c # {}
      /\ \A c \in comps : \A x \in c : c = Component(x, candidates, pairs)
  BY <1>2, ComponentsFacts
<1>5. \A x \in candidates : x \in Component(x, candidates, pairs) /\ Component(x, candidates, pairs) \in comps
  BY <1>2, ComponentHolds DEF Components
<1>6. /\ \A c \in Shaped(comps) : \E i \in DOMAIN all : all[i] = Grown(c, comps, pairs)
      /\ \A u \in Loose(comps, pairs) : \E i \in DOMAIN all : all[i] = u
  BY <1>2, LookalikesFacts
<1> HIDE DEF comps, all
<1>7. \A c \in comps : Grown(c, comps, pairs) \in SUBSET candidates /\ c \subseteq Grown(c, comps, pairs)
  BY <1>4 DEF Grown, Shapeless
<1>8. \A S \in SUBSET candidates : IsFiniteSet(S)
  BY <1>2, IdsFinite
<1>9. ASSUME NEW c \in Shaped(comps), NEW x \in Grown(c, comps, pairs), NEW y \in Grown(c, comps, pairs),
             x # y
      PROVE  x \in UNION groups
  <2>1. PICK i \in DOMAIN all : all[i] = Grown(c, comps, pairs)
    BY <1>6
  <2>2. IsFiniteSet(Grown(c, comps, pairs))
    BY <1>7, <1>8 DEF Shaped
  <2>3. Cardinality(all[i]) >= 2
    BY <1>9, <2>1, <2>2, TwoMembers
  <2>4. QED
    BY <1>2, <2>1, <2>3
<1> DEFINE u == Component(a, candidates, pairs)
           kb == Component(b, candidates, pairs)
<1>10. u \in comps /\ a \in u /\ kb \in comps /\ b \in kb
  BY <1>5
<1>11. \A c \in Shaped(comps) : c \in comps /\ c \in SUBSET Nat /\ c # {}
  BY <1>4 DEF Shaped
<1>12. CASE Known(a)
  <2>1. u \in Shaped(comps)
    BY <1>10, <1>12 DEF Shaped
  <2>2. b \in u
    <3>1. Joins(a, b)
      BY <1>1, <1>12 DEF Joins, Known
    <3>2. Closed(u, pairs)
      BY <1>2, ComponentHolds
    <3> DEFINE p == <<a, b>>
    <3>3. p \in pairs /\ p[1] = a /\ p[2] = b
      BY <1>3
    <3> HIDE DEF p, u
    <3>4. QED
      BY <1>10, <3>1, <3>2, <3>3 DEF Closed
  <2> HIDE DEF u
  <2>3. a \in Grown(u, comps, pairs) /\ b \in Grown(u, comps, pairs)
    BY <1>7, <1>10, <2>2
  <2>4. QED
    BY <1>1, <1>9, <2>1, <2>3
<1>13. CASE ~Known(a)
  <2>1. u \in Shapeless(comps)
    <3>1. \A x \in u : ~Known(x)
      BY <1>2, <1>13, ComponentKind
    <3> HIDE DEF u
    <3>2. QED
      BY <1>10, <3>1 DEF Shapeless, Shaped
  <2> DEFINE where == Attached(u, Shaped(comps), pairs)
  <2>2. CASE where # {}
    <3>1. PICK c \in Shaped(comps) : where = {c}
      BY <1>11, <2>2, AttachedSome
    <3>2. u \subseteq Grown(c, comps, pairs)
      BY <2>1, <3>1 DEF Grown
    <3>3. PICK y \in c : Known(y)
      BY DEF Shaped
    <3>4. a \in Grown(c, comps, pairs) /\ y \in Grown(c, comps, pairs) /\ y # a
      BY <1>7, <1>10, <1>11, <1>13, <3>2, <3>3
    <3>5. QED
      BY <1>9, <3>4
  <2>3. CASE where = {}
    <3>1. u \in Loose(comps, pairs)
      BY <2>1, <2>3 DEF Loose
    <3>2. ~Known(b)
      <4>1. SUFFICES ASSUME Known(b) PROVE FALSE
        OBVIOUS
      <4>2. kb \in Shaped(comps)
        BY <1>10, <4>1 DEF Shaped
      <4> HIDE DEF u, kb, where
      <4>3. \E x \in u, k \in kb : <<x, k>> \in pairs
        BY <1>3, <1>10
      <4>4. {ids \in Shaped(comps) : \E x \in u, k \in ids : <<x, k>> \in pairs} # {}
        BY <4>2, <4>3
      <4>5. where # {}
        BY <4>4 DEF where, Attached
      <4>6. QED
        BY <2>3, <4>5
    <3>3. b \in u
      <4>1. Joins(a, b)
        BY <1>13, <3>2 DEF Joins, Known
      <4>2. Closed(u, pairs)
        BY <1>2, ComponentHolds
      <4> DEFINE p == <<a, b>>
      <4>3. p \in pairs /\ p[1] = a /\ p[2] = b
        BY <1>3
      <4> HIDE DEF p, u
      <4>4. QED
        BY <1>10, <4>1, <4>2, <4>3 DEF Closed
    <3> HIDE DEF u
    <3>4. IsFiniteSet(u)
      BY <1>4, <1>8, <1>10
    <3>5. PICK i \in DOMAIN all : all[i] = u
      BY <1>6, <3>1
    <3>6. Cardinality(all[i]) >= 2
      BY <1>1, <1>10, <3>3, <3>4, <3>5, TwoMembers
    <3>7. QED
      BY <1>2, <1>10, <3>5, <3>6
  <2>4. QED
    BY <2>2, <2>3
<1>14. QED
  BY <1>12, <1>13

-----------------------------------------------------------------------------
(* The library's stacks.                                                   *)

Separate(stacks) ==
  \A i, j \in DOMAIN stacks : i # j => stacks[i].members \cap stacks[j].members = {}
Excused(ms, sets) == Torn(ms) => \E s \in sets : ms \subseteq s
Sound(stacks, sets) ==
  \A i \in DOMAIN stacks : Cardinality(stacks[i].members) >= 2 /\ Excused(stacks[i].members, sets)
Libraries(ids, sets) == {s \in Seq(Stacks(ids)) : Separate(s) /\ Sound(s, sets)}
Incoming(ids, sets) == {g \in Stacks(ids) : Excused(g.members, sets)}

(* What the group has met when it has seen the first k stacks.             *)
HasMet(s, k, merged, group) ==
  /\ s.own \subseteq group.members /\ s.own \subseteq s.all
  /\ \A i \in s.over : i \in 1 .. k /\ merged[i].members \subseteq s.all
  /\ s.over # {} => ~Torn(s.all)
  /\ \A i \in 1 .. k : i \notin s.over => s.own \cap merged[i].members = {}

Meetings(ids, n) == [own : SUBSET ids, all : SUBSET ids, over : SUBSET (1 .. n)]

LEMMA TornGrows == \A a, b : a \subseteq b /\ Torn(a) => Torn(b)
  BY DEF Torn

LEMMA MeetsFacts ==
  ASSUME NEW ids, NEW merged \in Seq(Stacks(ids)), Separate(merged), NEW group \in Stacks(ids),
         NEW k \in Nat, k + 1 \in 1 .. Len(merged),
         NEW s \in Meetings(ids, Len(merged)), HasMet(s, k, merged, group)
  PROVE  HasMet(Meets(s, merged[k + 1].members, k + 1), k + 1, merged, group)
<1> DEFINE ms == merged[k + 1].members
           shared == s.own \cap ms
           t == Meets(s, ms, k + 1)
<1>1. /\ \A i \in 1 .. k + 1 : i \in 1 .. Len(merged) /\ i \in DOMAIN merged
      /\ \A i \in 1 .. k : i # k + 1 /\ i \in 1 .. k + 1
      /\ \A i \in 1 .. k + 1 : i \in 1 .. k \/ i = k + 1
      /\ k + 1 \in 1 .. k + 1
  OBVIOUS
<1>2. \A i \in 1 .. k : merged[i].members \cap ms = {}
  BY <1>1 DEF Separate
<1> HIDE DEF ms
<1>3. CASE shared = {}
  <2>1. t = s
    BY <1>3 DEF Meets
  <2>2. QED
    BY <1>1, <1>3, <2>1 DEF HasMet, ms
<1>4. CASE shared # {} /\ Torn(s.all \cup ms)
  <2>1. t = [s EXCEPT !.own = @ \ shared, !.all = @ \ shared]
    BY <1>4 DEF Meets, Clashes, Loses
  <2>2. t.own = s.own \ shared /\ t.all = s.all \ shared /\ t.over = s.over
    BY <2>1 DEF Meetings
  <2> HIDE DEF t
  <2>3. \A i \in t.over : i \in 1 .. k + 1 /\ merged[i].members \subseteq t.all
    BY <1>1, <1>2, <2>2 DEF HasMet
  <2>4. t.over # {} => ~Torn(t.all)
    <3>1. t.all \subseteq s.all
      BY <2>2
    <3>2. QED
      BY <2>2, <3>1, TornGrows DEF HasMet
  <2>5. \A i \in 1 .. k + 1 : i \notin t.over => t.own \cap merged[i].members = {}
    BY <1>1, <2>2 DEF HasMet, ms
  <2>6. t.own \subseteq group.members /\ t.own \subseteq t.all
    BY <2>2 DEF HasMet
  <2>7. QED
    BY <2>3, <2>4, <2>5, <2>6 DEF HasMet, t, ms
<1>5. CASE shared # {} /\ ~Torn(s.all \cup ms)
  <2>1. t = [s EXCEPT !.all = @ \cup ms, !.over = @ \cup {k + 1}]
    BY <1>5 DEF Meets, Clashes
  <2>2. t.own = s.own /\ t.all = s.all \cup ms /\ t.over = s.over \cup {k + 1}
    BY <2>1 DEF Meetings
  <2> HIDE DEF t
  <2>3. \A i \in t.over : i \in 1 .. k + 1 /\ merged[i].members \subseteq t.all
    BY <1>1, <2>2 DEF HasMet, ms
  <2>4. ~Torn(t.all)
    BY <1>5, <2>2
  <2>5. \A i \in 1 .. k + 1 : i \notin t.over => t.own \cap merged[i].members = {}
    BY <1>1, <2>2 DEF HasMet
  <2>6. t.own \subseteq group.members /\ t.own \subseteq t.all
    BY <2>2 DEF HasMet
  <2>7. QED
    BY <2>3, <2>4, <2>5, <2>6 DEF HasMet, t, ms
<1>6. QED
  BY <1>3, <1>4, <1>5

LEMMA MeetsType ==
  ASSUME NEW ids, NEW n, NEW i \in 1 .. n, NEW ms \in SUBSET ids, NEW s \in Meetings(ids, n)
  PROVE  Meets(s, ms, i) \in Meetings(ids, n)
  BY DEF Meets, Loses, Meetings

LEMMA MetFacts ==
  ASSUME NEW ids, NEW merged \in Seq(Stacks(ids)), Separate(merged), NEW group \in Stacks(ids)
  PROVE  /\ Met(merged, group) \in Meetings(ids, Len(merged))
         /\ HasMet(Met(merged, group), Len(merged), merged, group)
<1> DEFINE n == Len(merged)
           T == Meetings(ids, n)
           a == [own |-> group.members, all |-> group.members, over |-> {}]
           step == [p \in (1 .. n) \X T |-> Meets(p[2], merged[p[1]].members, p[1])]
           Body(f) == [i \in 0 .. n |-> IF i = 0 THEN a ELSE Meets(f[i - 1], merged[i].members, i)]
           met == CHOOSE f : f = Body(f)
<1>1. n \in Nat /\ DOMAIN merged = 1 .. n /\ \A i \in 1 .. n : merged[i].members \in SUBSET ids
  <2>1. n \in Nat /\ DOMAIN merged = 1 .. n /\ \A i \in 1 .. n : merged[i] \in Stacks(ids)
    OBVIOUS
  <2>2. \A g \in Stacks(ids) : g.members \in SUBSET ids
    BY DEF Stacks
  <2> HIDE DEF n
  <2>3. QED
    BY <2>1, <2>2
<1>2. a \in T /\ HasMet(a, 0, merged, group)
  BY DEF Meetings, HasMet, Stacks
<1>3. step \in [(1 .. n) \X T -> T]
  <2>1. \A i \in 1 .. n : \A s \in T : Meets(s, merged[i].members, i) \in T
    <3> HIDE DEF n
    <3>1. QED
      BY <1>1, MeetsType
  <2> HIDE DEF T
  <2>2. QED
    BY <2>1
<1>4. \A i \in 1 .. n : \A s \in T : step[<<i, s>>] = Meets(s, merged[i].members, i)
  <2> HIDE DEF T
  <2>1. QED
    OBVIOUS
<1> HIDE DEF n, T, a, step
<1>5. PICK f \in [0 .. n -> T] : Unfolds(f, n, a, step)
  BY <1>1, <1>2, <1>3, Recursion
<1>6. \A i \in 1 .. n : i - 1 \in 0 .. n /\ i \in 0 .. n /\ i # 0
  BY <1>1
<1>7. f = Body(f)
  <2>1. \A i \in 1 .. n : f[i] = Meets(f[i - 1], merged[i].members, i)
    BY <1>4, <1>5, <1>6 DEF Unfolds
  <2>2. f[0] = a
    BY <1>5 DEF Unfolds
  <2>3. \A i \in 0 .. n : i = 0 \/ i \in 1 .. n
    BY <1>1
  <2>4. QED
    BY <1>6, <2>1, <2>2, <2>3
<1>8. met = Body(met)
  <2> HIDE DEF Body
  <2>1. \E g : g = Body(g)
    BY <1>7
  <2>2. QED
    BY <2>1, Zenon
<1>9. Met(merged, group) = met[n]
  BY Zenon DEF Met, n, a
<1> HIDE DEF met
<1>10. met[0] = a /\ \A i \in 1 .. n : met[i] = Meets(met[i - 1], merged[i].members, i)
  BY <1>1, <1>6, <1>8
<1> DEFINE S == {k \in 0 .. n : met[k] \in T /\ HasMet(met[k], k, merged, group)}
<1>11. 0 \in S
  BY <1>1, <1>2, <1>10
<1>12. ASSUME NEW k \in 0 .. n, k < n, k \in S PROVE k + 1 \in S
  <2>1. k \in Nat /\ k + 1 \in 1 .. n /\ k + 1 \in 0 .. n /\ (k + 1) - 1 = k
    BY <1>1, <1>12
  <2>2. met[k] \in T /\ HasMet(met[k], k, merged, group)
    BY <1>12
  <2>3. met[k + 1] = Meets(met[k], merged[k + 1].members, k + 1)
    BY <1>10, <2>1
  <2>4. met[k + 1] \in T
    BY <1>1, <2>1, <2>2, <2>3, MeetsType DEF T
  <2>5. HasMet(met[k + 1], k + 1, merged, group)
    BY <2>1, <2>2, <2>3, MeetsFacts DEF T, n
  <2>6. QED
    BY <2>1, <2>4, <2>5
<1>13. n \in S
  <2> HIDE DEF S
  <2>1. \A k \in 0 .. n : k \in S
    BY <1>1, <1>11, <1>12, Reaches
  <2>2. QED
    BY <1>1, <2>1
<1>14. QED
  BY <1>9, <1>13 DEF T, n

LEMMA JoinedType ==
  ASSUME NEW ids, NEW merged \in Seq(Stacks(ids)), NEW group \in Stacks(ids),
         NEW met \in Meetings(ids, Len(merged))
  PROVE  /\ Joined(merged, group, met) \in Stacks(ids)
         /\ Joined(merged, group, met).members = met.own \cup UNION {merged[i].members : i \in met.over}
<1> DEFINE ms == met.own \cup UNION {merged[i].members : i \in met.over}
           c == group.certain /\ \A i \in met.over : merged[i].certain
<1>1. Joined(merged, group, met) = [members |-> ms, certain |-> c]
  BY DEF Joined
<1>2. ms \in SUBSET ids
  <2>1. met.own \in SUBSET ids /\ met.over \in SUBSET (1 .. Len(merged))
    BY DEF Meetings
  <2>2. \A i \in 1 .. Len(merged) : merged[i].members \in SUBSET ids
    <3>1. \A i \in 1 .. Len(merged) : merged[i] \in Stacks(ids)
      OBVIOUS
    <3>2. \A g \in Stacks(ids) : g.members \in SUBSET ids
      BY DEF Stacks
    <3>3. QED
      BY <3>1, <3>2
  <2>3. QED
    BY <2>1, <2>2
<1>3. c \in BOOLEAN
  OBVIOUS
<1> HIDE DEF ms, c
<1>4. QED
  BY <1>1, <1>2, <1>3 DEF Stacks, ms

LEMMA MergeFacts ==
  ASSUME NEW ids \in SUBSET Nat, IsFiniteSet(ids), NEW sets,
         NEW merged \in Libraries(ids, sets), NEW group \in Incoming(ids, sets)
  PROVE  Merge(merged, group) \in Libraries(ids, sets)
<1> DEFINE n == Len(merged)
           met == Met(merged, group)
           into == Min(met.over)
           places == DOMAIN merged \ (met.over \ {into})
           rest == ById(places)
           one == Joined(merged, group, met)
           joining == [i \in DOMAIN rest |-> IF rest[i] = into THEN one ELSE merged[rest[i]]]
           adding == Append(merged, [group EXCEPT !.members = met.own])
<1>1. merged \in Seq(Stacks(ids)) /\ Separate(merged) /\ Sound(merged, sets) /\ group \in Stacks(ids)
  BY DEF Libraries, Incoming
<1>2. met \in Meetings(ids, n) /\ HasMet(met, n, merged, group)
  BY <1>1, MetFacts
<1>3. /\ n \in Nat /\ DOMAIN merged = 1 .. n /\ \A i \in 1 .. n : merged[i] \in Stacks(ids)
  BY <1>1
<1>4. Merge(merged, group) = CASE Cardinality(met.own) < 2 -> merged
                               [] Cardinality(met.own) >= 2 /\ met.over = {} -> adding
                               [] OTHER -> joining
  BY DEF Merge
<1> HIDE DEF met, n
<1>5. met.own \in SUBSET ids /\ met.over \in SUBSET (1 .. n)
  BY <1>2 DEF Meetings
<1>6. \A ms \in SUBSET ids : IsFiniteSet(ms) /\ Cardinality(ms) \in Nat
  BY FS_Subset, FS_CardinalityType
<1>7. CASE Cardinality(met.own) < 2
  <2> HIDE DEF joining, adding
  <2>1. ~(Cardinality(met.own) >= 2)
    BY <1>5, <1>6, <1>7
  <2>2. Merge(merged, group) = merged
    BY <1>4, <1>7, <2>1
  <2>3. QED
    BY <2>2
<1>8. CASE Cardinality(met.own) >= 2 /\ met.over = {}
  <2> DEFINE g == [group EXCEPT !.members = met.own]
  <2>1. Merge(merged, group) = Append(merged, g)
    <3>1. ~(Cardinality(met.own) < 2)
      BY <1>5, <1>6, <1>8
    <3>2. QED
      BY <1>4, <1>8, <3>1
  <2>2. g \in Stacks(ids) /\ g.members = met.own
    BY <1>1, <1>5 DEF Stacks
  <2>3. Excused(met.own, sets)
    <3>1. met.own \subseteq group.members /\ Excused(group.members, sets)
      BY <1>2 DEF HasMet, Incoming
    <3>2. Torn(met.own) => Torn(group.members)
      BY <3>1, TornGrows
    <3>3. QED
      BY <3>1, <3>2 DEF Excused
  <2> HIDE DEF g
  <2> DEFINE s == Append(merged, g)
  <2>4. /\ s \in Seq(Stacks(ids)) /\ DOMAIN s = 1 .. n + 1 /\ s[n + 1] = g
        /\ \A i \in 1 .. n : s[i] = merged[i]
    BY <1>1, <2>2 DEF n
  <2> HIDE DEF s
  <2>5. \A i \in 1 .. n : met.own \cap merged[i].members = {}
    BY <1>2, <1>8 DEF HasMet
  <2>6. \A i \in 1 .. n + 1 : i \in 1 .. n \/ i = n + 1
    BY <1>3
  <2>7. Separate(s)
    BY <1>1, <1>3, <2>2, <2>4, <2>5, <2>6 DEF Separate
  <2>8. Sound(s, sets)
    BY <1>1, <1>3, <1>8, <2>2, <2>3, <2>4, <2>6 DEF Sound
  <2>9. QED
    BY <2>1, <2>4, <2>7, <2>8 DEF Libraries, s
<1>9. CASE ~(Cardinality(met.own) < 2) /\ ~(Cardinality(met.own) >= 2 /\ met.over = {})
  <2>1. Merge(merged, group) = joining
    BY <1>4, <1>9
  <2>2. met.over # {} /\ Cardinality(met.own) >= 2
    BY <1>5, <1>6, <1>9
  <2>3. into \in met.over
    <3>1. met.over \in SUBSET Nat
      BY <1>5
    <3>2. QED
      BY <2>2, <3>1, LeastOfSome
  <2>4. /\ one \in Stacks(ids)
        /\ one.members = met.own \cup UNION {merged[i].members : i \in met.over}
    BY <1>1, <1>2, JoinedType DEF n
  <2>5. Cardinality(one.members) >= 2 /\ ~Torn(one.members)
    <3>1. one.members \in SUBSET ids /\ met.own \in SUBSET one.members
      BY <2>4 DEF Stacks
    <3>2. Cardinality(met.own) <= Cardinality(one.members)
      BY <1>6, <3>1, FS_Subset
    <3>3. Cardinality(one.members) >= 2
      BY <1>5, <1>6, <2>2, <3>1, <3>2
    <3>4. one.members \subseteq met.all /\ ~Torn(met.all)
      BY <1>2, <2>2, <2>4 DEF HasMet
    <3>5. QED
      BY <3>3, <3>4, TornGrows
  <2> HIDE DEF one, into, places
  <2>6. /\ places \in SUBSET (1 .. n) /\ places \in SUBSET Nat
        /\ \A k \in places : k = into \/ k \notin met.over
    BY <1>3 DEF places
  <2>7. /\ rest \in Seq(places)
        /\ \A i, j \in DOMAIN rest : rest[i] = rest[j] => i = j
    <3>1. IsFiniteSet(1 .. n)
      BY <1>3, FS_Interval
    <3>2. IsFiniteSet(places)
      BY <2>6, <3>1, FS_Subset
    <3>3. QED
      BY <2>6, <3>2, ByIdFacts
  <2> HIDE DEF rest
  <2>8. DOMAIN rest = 1 .. Len(rest) /\ Len(rest) \in Nat /\ \A i \in 1 .. Len(rest) : rest[i] \in places
    BY <2>7
  <2>9. /\ DOMAIN joining = 1 .. Len(rest)
        /\ \A i \in 1 .. Len(rest) : joining[i] = IF rest[i] = into THEN one ELSE merged[rest[i]]
    BY <2>8
  <2>10. \A i \in 1 .. Len(rest) : joining[i] \in Stacks(ids)
    BY <1>3, <2>4, <2>6, <2>8, <2>9
  <2>11. joining \in Seq(Stacks(ids))
    <3>1. joining \in [1 .. Len(rest) -> Stacks(ids)]
      BY <2>8, <2>10
    <3>2. Len(rest) \in Nat
      BY <2>8
    <3>3. QED
      BY <3>1, <3>2, SeqDef
  <2>12. Sound(joining, sets)
    <3>1. ASSUME NEW i \in 1 .. Len(rest)
          PROVE  Cardinality(joining[i].members) >= 2 /\ Excused(joining[i].members, sets)
      <4>1. CASE rest[i] = into
        BY <2>5, <2>9, <4>1 DEF Excused
      <4>2. CASE rest[i] # into
        BY <1>1, <1>3, <2>6, <2>8, <2>9, <4>2 DEF Sound
      <4>3. QED
        BY <4>1, <4>2
    <3>2. QED
      BY <2>9, <3>1 DEF Sound
  <2>13. \A k \in 1 .. n : k \notin met.over => merged[k].members \cap one.members = {}
    <3>1. ASSUME NEW k \in 1 .. n, k \notin met.over PROVE merged[k].members \cap one.members = {}
      <4>1. met.own \cap merged[k].members = {}
        BY <1>2, <3>1 DEF HasMet
      <4>2. \A i \in met.over : merged[k].members \cap merged[i].members = {}
        BY <1>1, <1>3, <1>5, <3>1 DEF Separate
      <4>3. QED
        BY <2>4, <4>1, <4>2
    <3>2. QED
      BY <3>1
  <2>14. Separate(joining)
    <3>1. ASSUME NEW i \in 1 .. Len(rest), NEW j \in 1 .. Len(rest), i # j
          PROVE  joining[i].members \cap joining[j].members = {}
      <4>1. rest[i] # rest[j] /\ rest[i] \in 1 .. n /\ rest[j] \in 1 .. n
        BY <2>6, <2>7, <2>8, <3>1
      <4>2. CASE rest[i] = into
        <5>1. joining[i] = one /\ joining[j] = merged[rest[j]] /\ rest[j] \notin met.over
          BY <2>6, <2>8, <2>9, <4>1, <4>2
        <5>2. QED
          BY <2>13, <4>1, <5>1
      <4>3. CASE rest[j] = into
        <5>1. joining[j] = one /\ joining[i] = merged[rest[i]] /\ rest[i] \notin met.over
          BY <2>6, <2>8, <2>9, <4>1, <4>3
        <5>2. QED
          BY <2>13, <4>1, <5>1
      <4>4. CASE rest[i] # into /\ rest[j] # into
        <5>1. joining[j] = merged[rest[j]] /\ joining[i] = merged[rest[i]]
          BY <2>9, <4>4
        <5>2. QED
          BY <1>1, <1>3, <4>1, <5>1 DEF Separate
      <4>5. QED
        BY <4>2, <4>3, <4>4
    <3>2. QED
      BY <2>9, <3>1 DEF Separate
  <2>15. QED
    BY <2>1, <2>11, <2>12, <2>14 DEF Libraries
<1>10. QED
  BY <1>7, <1>8, <1>9

(* The report's groups: an exact group holds no dismissed pair, any other  *)
(* is one of the groups of lookalikes.                                     *)
LEMMA ReportedFacts ==
  ASSUME GroupsTypeOK, NEW ids \in SUBSET Ids
  PROVE  Reported(ids) \in Seq(Incoming(ids, MembersOf(Similar(ids, Exact(ids)))))
<1> DEFINE sim == Similar(ids, Exact(ids))
           I == Incoming(ids, MembersOf(sim))
<1>1. Exact(ids) \in Seq(I)
  <2>1. WholeStacks(ids) \subseteq I
    BY DEF WholeStacks, Incoming, Excused
  <2> HIDE DEF I
  <2>2. QED
    BY <2>1, ExactFacts, SeqMonotonic
<1>2. sim \in Seq(I)
  <2>1. sim \in Seq(Stacks(ids))
    BY SimilarFacts
  <2> HIDE DEF sim
  <2>2. DOMAIN sim = 1 .. Len(sim) /\ Len(sim) \in Nat /\ \A i \in 1 .. Len(sim) : sim[i] \in Stacks(ids)
    BY <2>1
  <2>3. ASSUME NEW i \in 1 .. Len(sim) PROVE sim[i] \in I
    <3>1. sim[i] \in Range(sim)
      BY <2>2 DEF Range
    <3>2. sim[i].members \in MembersOf(sim)
      BY <3>1 DEF MembersOf
    <3>3. QED
      BY <2>2, <3>2 DEF Incoming, Excused
  <2>4. QED
    BY <2>1, <2>2, <2>3
<1>3. Reported(ids) = Exact(ids) \o sim
  BY DEF Reported, WithSimilar
<1> HIDE DEF I, sim
<1>4. Reported(ids) \in Seq(I)
  BY <1>1, <1>2, <1>3, ConcatProperties
<1>5. QED
  BY <1>4 DEF I, sim

LEMMA LibraryFacts ==
  ASSUME GroupsTypeOK, NEW ids \in SUBSET Ids
  PROVE  Library(ids) \in Libraries(ids, MembersOf(Similar(ids, Exact(ids))))
<1> DEFINE sets == MembersOf(Similar(ids, Exact(ids)))
           groups == Reported(ids)
           n == Len(groups)
           T == Libraries(ids, sets)
           step == [p \in (1 .. n) \X T |-> Merge(p[2], groups[p[1]])]
           Body(f) == [i \in 0 .. n |-> IF i = 0 THEN <<>> ELSE Merge(f[i - 1], groups[i])]
           merged == CHOOSE f : f = Body(f)
<1>1. n \in Nat /\ \A i \in 1 .. n : groups[i] \in Incoming(ids, sets)
  <2>1. groups \in Seq(Incoming(ids, sets))
    BY ReportedFacts
  <2> HIDE DEF groups, sets
  <2>2. QED
    BY <2>1
<1>2. Library(ids) = merged[n]
  BY Zenon DEF Library, Stacked, n, groups
<1> HIDE DEF sets, groups, n
<1>3. <<>> \in T
  BY DEF Libraries, Separate, Sound
<1>4. \A i \in 1 .. n : \A s \in T : Merge(s, groups[i]) \in T
  BY <1>1, IdsFinite, MergeFacts
<1> HIDE DEF T
<1>5. step \in [(1 .. n) \X T -> T] /\ \A i \in 1 .. n : \A s \in T : step[<<i, s>>] = Merge(s, groups[i])
  BY <1>4
<1> HIDE DEF step
<1>6. PICK f \in [0 .. n -> T] : Unfolds(f, n, <<>>, step)
  BY <1>1, <1>3, <1>5, Recursion
<1>7. \A i \in 1 .. n : i - 1 \in 0 .. n /\ i \in 0 .. n /\ i # 0
  BY <1>1
<1>8. f = Body(f)
  <2>1. \A i \in 1 .. n : f[i] = Merge(f[i - 1], groups[i])
    BY <1>5, <1>6, <1>7 DEF Unfolds
  <2>2. f[0] = <<>>
    BY <1>6 DEF Unfolds
  <2>3. \A i \in 0 .. n : i = 0 \/ i \in 1 .. n
    BY <1>1
  <2>4. QED
    BY <1>7, <2>1, <2>2, <2>3
<1>9. merged = Body(merged)
  <2> HIDE DEF Body
  <2>1. \E g : g = Body(g)
    BY <1>8
  <2>2. QED
    BY <2>1, Zenon
<1> HIDE DEF merged
<1>10. merged[0] = <<>> /\ \A i \in 1 .. n : merged[i] = Merge(merged[i - 1], groups[i])
  BY <1>1, <1>7, <1>9
<1> DEFINE S == {k \in 0 .. n : merged[k] \in T}
<1>11. 0 \in S
  BY <1>1, <1>3, <1>10
<1>12. ASSUME NEW k \in 0 .. n, k < n, k \in S PROVE k + 1 \in S
  <2>1. k + 1 \in 1 .. n /\ k + 1 \in 0 .. n /\ (k + 1) - 1 = k /\ merged[k] \in T
    BY <1>1, <1>12
  <2>2. merged[k + 1] = Merge(merged[k], groups[k + 1])
    BY <1>10, <2>1
  <2>3. QED
    BY <1>4, <2>1, <2>2
<1>13. n \in S
  <2> HIDE DEF S
  <2>1. \A k \in 0 .. n : k \in S
    BY <1>1, <1>11, <1>12, Reaches
  <2>2. QED
    BY <1>1, <2>1
<1>14. QED
  BY <1>2, <1>13 DEF T, sets

-----------------------------------------------------------------------------
(* The groups of a search as they are shown later.                         *)

LEMMA FilteredFacts ==
  ASSUME GroupsTypeOK, NEW groups \in Seq(Group)
  PROVE  Filtered(groups) \in Seq(WholeStacks(Ids))
<1> DEFINE W == WholeStacks(Ids)
           Split2(g) == Split(g.members \cap Ids)
           part == [i \in DOMAIN groups |->
                      LET split == Split(groups[i].members \cap Ids)
                      IN [j \in DOMAIN split |-> [groups[i] EXCEPT !.members = split[j]]]]
<1>1. ASSUME NEW g \in Group
      PROVE  [j \in DOMAIN Split2(g) |-> [g EXCEPT !.members = Split2(g)[j]]] \in Seq(W)
  <2> DEFINE split == Split2(g)
             V == Wholes(g.members \cap Ids)
  <2>1. split \in Seq(V)
    BY SplitFacts
  <2> HIDE DEF split
  <2>2. DOMAIN split = 1 .. Len(split) /\ Len(split) \in Nat /\ \A j \in 1 .. Len(split) : split[j] \in V
    <3> HIDE DEF V
    <3>1. QED
      BY <2>1
  <2>3. \A ms \in V : [g EXCEPT !.members = ms] \in W
    <3>1. ASSUME NEW ms \in V PROVE [g EXCEPT !.members = ms] \in W
      <4> DEFINE h == [g EXCEPT !.members = ms]
      <4>1. ms \in SUBSET Ids /\ Cardinality(ms) >= 2 /\ ~Torn(ms)
        BY DEF Wholes
      <4>2. h \in Stacks(Ids) /\ h.members = ms
        BY <4>1 DEF Group, Stacks
      <4> HIDE DEF h
      <4>3. h \in W
        BY <4>1, <4>2 DEF WholeStacks
      <4>4. QED
        BY <4>3 DEF h
    <3>2. QED
      BY <3>1
  <2> HIDE DEF V, W
  <2> DEFINE r == [j \in DOMAIN split |-> [g EXCEPT !.members = split[j]]]
  <2>4. r \in [1 .. Len(split) -> W]
    BY <2>2, <2>3
  <2>5. Len(split) \in Nat
    BY <2>2
  <2> HIDE DEF r
  <2>6. r \in Seq(W)
    BY <2>4, <2>5, SeqDef
  <2>7. QED
    BY <2>6 DEF r, split
<1>2. DOMAIN groups = 1 .. Len(groups) /\ Len(groups) \in Nat /\ \A i \in 1 .. Len(groups) : groups[i] \in Group
  <2> DEFINE GG == Group
  <2>1. groups \in Seq(GG)
    OBVIOUS
  <2> HIDE DEF GG
  <2>2. QED
    BY <2>1 DEF GG
<1>3. part \in Seq(Seq(W))
  <2> DEFINE One(g) == [j \in DOMAIN Split2(g) |-> [g EXCEPT !.members = Split2(g)[j]]]
  <2>1. part = [i \in 1 .. Len(groups) |-> One(groups[i])]
    BY <1>2
  <2>2. \A i \in 1 .. Len(groups) : One(groups[i]) \in Seq(W)
    BY <1>1, <1>2
  <2> HIDE DEF One, W, part
  <2>3. part \in [1 .. Len(groups) -> Seq(W)]
    BY <2>1, <2>2
  <2>4. Len(groups) \in Nat
    BY <1>2
  <2>5. QED
    BY <2>3, <2>4, SeqDef
<1>4. Filtered(groups) = FlattenSeq(part)
  BY Zenon DEF Filtered
<1> HIDE DEF part, W
<1>5. QED
  BY <1>3, <1>4, FlattenType DEF W

LEMMA OneTileEachHolds ==
  ASSUME GroupsTypeOK
  PROVE  OneTileEach
<1> DEFINE stacks == Library(Ids)
           sets == MembersOf(Similar(Ids, Exact(Ids)))
           W == WholeStacks(Ids)
<1>1. stacks \in Libraries(Ids, sets)
  BY LibraryFacts
<1>2. CurrentGroups \in Seq(W)
  <2>1. report \in Seq(Group)
    BY DEF GroupsTypeOK
  <2>2. QED
    BY <2>1, FilteredFacts DEF CurrentGroups
<1> HIDE DEF stacks, sets, W
<1>3. Separate(stacks) /\ Sound(stacks, sets)
  BY <1>1 DEF Libraries
<1>4. \A i \in DOMAIN CurrentGroups : CurrentGroups[i] \in W
  BY <1>2
<1>5. \A i \in DOMAIN CurrentGroups :
        CurrentGroups[i].members \subseteq Ids /\ ~Torn(CurrentGroups[i].members)
  BY <1>4 DEF W, WholeStacks, Stacks
<1>6. QED
  BY <1>3, <1>5 DEF OneTileEach, OneTile, StillApart, Separate, Sound, Excused, stacks, sets

-----------------------------------------------------------------------------
(* The types.                                                              *)

LEMMA GroupsTypeStart == GroupsInit => GroupsTypeOK
<1> SUFFICES ASSUME GroupsInit PROVE GroupsTypeOK
  OBVIOUS
<1>1. shown = <<>> /\ apart = {} /\ report = <<>> /\ threshold \in Thresholds
  BY DEF GroupsInit
<1>2. Ids = {}
  BY <1>1 DEF Ids
<1>3. shown \in [Ids -> Looks]
  BY <1>1, <1>2
<1>4. report \in Seq(Group)
  BY <1>1
<1>5. QED
  BY <1>1, <1>2, <1>3, <1>4 DEF GroupsTypeOK

LEMMA GroupsTypeStep ==
  ASSUME GroupsTypeOK, [GroupsNext]_groupsVars
  PROVE  GroupsTypeOK'
<1>1. /\ MaxRows \in Nat /\ Ids \in SUBSET (1 .. MaxRows) /\ shown \in [Ids -> Looks]
      /\ \A pair \in apart : Cardinality(pair) = 2 /\ pair \subseteq Ids
      /\ report \in Seq(Group) /\ threshold \in Thresholds
  BY GroupsAssumption DEF GroupsTypeOK
<1>2. CASE Search
  <2>1. report' = Reported(Ids) /\ UNCHANGED <<shown, apart, threshold>>
    BY <1>2 DEF Search
  <2>2. Reported(Ids) \in Seq(Group)
    <3> DEFINE I == Incoming(Ids, MembersOf(Similar(Ids, Exact(Ids))))
               G == Group
    <3>1. I \subseteq G
      BY <1>1 DEF Incoming, Stacks, Group
    <3>2. Reported(Ids) \in Seq(I)
      BY ReportedFacts
    <3> HIDE DEF I, G
    <3>3. Reported(Ids) \in Seq(G)
      BY <3>1, <3>2, SeqMonotonic
    <3>4. QED
      BY <3>3 DEF G
  <2>3. Ids' = Ids
    BY <2>1 DEF Ids
  <2>4. QED
    BY <1>1, <2>1, <2>2, <2>3 DEF GroupsTypeOK
<1>3. ASSUME NEW look \in Looks, Rescanned(look) PROVE GroupsTypeOK'
  <2> DEFINE id == Max(Ids \cup {0}) + 1
  <2>1. /\ id <= IF report = <<>> THEN MaxRows ELSE MaxReported
        /\ shown' = [i \in Ids \cup {id} |-> IF i = id THEN look ELSE shown[i]]
        /\ UNCHANGED <<apart, threshold, report>>
    BY <1>3 DEF Rescanned
  <2>2. Max(Ids \cup {0}) \in 0 .. MaxRows
    <3> DEFINE S == Ids \cup {0}
    <3>1. S \in SUBSET (0 .. MaxRows) /\ S # {}
      BY <1>1
    <3> HIDE DEF S
    <3>2. Max(S) \in S
      BY <1>1, <3>1, GreatestOfBounded
    <3>3. Max(S) \in 0 .. MaxRows
      BY <3>1, <3>2
    <3>4. QED
      BY <3>3 DEF S
  <2>3. id \in 1 .. MaxRows
    BY <1>1, <2>1, <2>2, GroupsAssumption
  <2> HIDE DEF id
  <2>4. Ids' = Ids \cup {id}
    BY <2>1 DEF Ids
  <2>5. shown' \in [Ids' -> Looks]
    BY <1>1, <2>1, <2>4
  <2>6. QED
    BY <1>1, <2>1, <2>3, <2>4, <2>5 DEF GroupsTypeOK
<1>4. ASSUME NEW ids \in SUBSET Ids, Dismiss(ids) PROVE GroupsTypeOK'
  <2>1. apart' = apart \cup Pairs(ids) /\ UNCHANGED <<shown, threshold, report>>
    BY <1>4 DEF Dismiss
  <2>2. ASSUME NEW pair \in Pairs(ids) PROVE Cardinality(pair) = 2 /\ pair \subseteq Ids
    <3>1. PICK p \in ids \X ids : p[1] < p[2] /\ pair = {p[1], p[2]}
      BY DEF Pairs
    <3>2. p[1] # p[2] /\ p[1] \in Ids /\ p[2] \in Ids
      <4>1. p[1] \in ids /\ p[2] \in ids
        BY <3>1
      <4>2. p[1] \in 1 .. MaxRows /\ p[2] \in 1 .. MaxRows /\ MaxRows \in Nat
        BY <1>1, <4>1, GroupsAssumption
      <4>3. QED
        BY <3>1, <4>1, <4>2
    <3>3. IsFiniteSet({p[1]}) /\ Cardinality({p[1]}) = 1
      BY FS_Singleton
    <3>4. pair = {p[1]} \cup {p[2]} /\ p[2] \notin {p[1]}
      BY <3>1, <3>2
    <3>5. QED
      BY <3>2, <3>3, <3>4, FS_AddElement
  <2>3. Ids' = Ids
    BY <2>1 DEF Ids
  <2>4. \A pair \in apart' : Cardinality(pair) = 2 /\ pair \subseteq Ids'
    BY <1>1, <2>1, <2>2, <2>3
  <2>5. QED
    BY <1>1, <2>1, <2>3, <2>4 DEF GroupsTypeOK
<1>5. ASSUME NEW id \in Ids, Gone(id) PROVE GroupsTypeOK'
  <2>1. /\ shown' = [i \in Ids \ {id} |-> shown[i]]
        /\ apart' = {pair \in apart : id \notin pair} /\ UNCHANGED <<threshold, report>>
    BY <1>5 DEF Gone
  <2>2. Ids' = Ids \ {id}
    BY <2>1 DEF Ids
  <2>3. shown' \in [Ids' -> Looks]
    BY <1>1, <2>1, <2>2
  <2>4. \A pair \in apart' : Cardinality(pair) = 2 /\ pair \subseteq Ids'
    BY <1>1, <2>1, <2>2
  <2>5. QED
    BY <1>1, <2>1, <2>2, <2>3, <2>4 DEF GroupsTypeOK
<1>6. CASE UNCHANGED groupsVars
  <2>1. UNCHANGED <<shown, apart, threshold, report>>
    BY <1>6 DEF groupsVars
  <2>2. Ids' = Ids
    BY <2>1 DEF Ids
  <2>3. QED
    BY <1>1, <2>1, <2>2 DEF GroupsTypeOK
<1>7. QED
  BY <1>2, <1>3, <1>4, <1>5, <1>6 DEF GroupsNext

(* What is known of the images, the dismissals and the report is of its    *)
(* type: store/images.py, duplicates.py.                                   *)
THEOREM GroupsTypeInvariant == GroupsSpec => []GroupsTypeOK
<1>1. GroupsTypeOK /\ [GroupsNext]_groupsVars => GroupsTypeOK'
  BY GroupsTypeStep
<1>2. QED
  BY <1>1, GroupsTypeStart, PTL DEF GroupsSpec

(* Whatever groups overlap and in whatever order they are merged, each     *)
(* picture is on one tile and merging brings no dismissed pair together    *)
(* (duplicates.py, library_groups); the filtered report holds none.        *)
THEOREM PicturesHaveOneTile == GroupsSpec => []OneTileEach
<1>1. GroupsTypeOK => OneTileEach
  BY OneTileEachHolds
<1>2. QED
  BY <1>1, GroupsTypeInvariant, PTL

(* However the bands cut the hash and whatever the threshold, a picture    *)
(* that looks like another is in a group (duplicates.py, similar_groups).  *)
THEOREM NoPictureLeftOut == GroupsSpec => []NoneLeftOut
<1>1. GroupsTypeOK => NoneLeftOut
  BY NoneIsLeftOut
<1>2. QED
  BY <1>1, GroupsTypeInvariant, PTL
=============================================================================

----------------------------- MODULE CardsProofs -----------------------------
(***************************************************************************)
(* The documents of the cards with any number of writes on top of them,    *)
(* and what the screens promise about the primary card and the list.       *)
(***************************************************************************)
EXTENDS Cards, FiniteSetTheorems, SequenceTheorems, TLAPS

-----------------------------------------------------------------------------
(* Numbers and finite sets                                                  *)

\* A set of numbers that is not empty has a least one.
LEMMA LeastNumber ==
    ASSUME NEW Bad \in SUBSET Nat, Bad # {}
    PROVE  \E n \in Bad : \A m \in Bad : n <= m
<1> DEFINE R == OpToRel(<, Nat)
<1>1. \A x, y \in Nat : x < y => <<x, y>> \in R
    BY DEF OpToRel
<1>2. IsWellFoundedOn(R, Nat)
    BY NatLessThanWellFounded
<1> HIDE DEF R
<1>3. PICK n \in Bad : \A m \in Bad : ~ (<<m, n>> \in R)
    BY <1>2, WFMin
<1>4. \A m \in Bad : ~ (m < n)
    BY <1>1, <1>3
<1> QED
    BY <1>3, <1>4

\* Every number is in a set that has 0 and with each number the next one.
LEMMA AllNumbers ==
    ASSUME NEW Good \in SUBSET Nat, 0 \in Good, \A n \in Good : n + 1 \in Good
    PROVE  Good = Nat
<1> DEFINE Bad == Nat \ Good
<1> SUFFICES ASSUME Bad # {} PROVE FALSE
    OBVIOUS
<1>1. Bad \in SUBSET Nat
    OBVIOUS
<1>2. PICK n \in Bad : \A m \in Bad : n <= m
    <2> HIDE DEF Bad
    <2> QED
        BY <1>1, LeastNumber
<1>3. n \in Nat /\ n \notin Good
    BY <1>2
<1>4. n # 0 /\ n - 1 \in Nat /\ (n - 1) + 1 = n
    BY <1>3
<1>5. n - 1 \in Bad
    BY <1>3, <1>4
<1> QED
    BY <1>2, <1>3, <1>4, <1>5

LEMMA LargestIsIn ==
    ASSUME NEW n \in Nat, NEW s \in SUBSET (1 .. n), s # {}
    PROVE  /\ Max(s) \in s
           /\ \A x \in s : x <= Max(s)
<1> DEFINE bounds == {b \in Nat : \A x \in s : x <= b}
<1>1. bounds \in SUBSET Nat /\ n \in bounds
    OBVIOUS
<1>2. PICK b \in bounds : \A m \in bounds : b <= m
    <2> HIDE DEF bounds
    <2> QED
        BY <1>1, LeastNumber
<1>3. b \in s
    <2> SUFFICES ASSUME b \notin s PROVE FALSE
        OBVIOUS
    <2>1. \A x \in s : x < b /\ x >= 1
        BY <1>2
    <2>2. b \in Nat /\ b - 1 \in Nat /\ \A x \in s : x <= b - 1
        <3>0. PICK x : x \in s
            OBVIOUS
        <3>1. x < b /\ x >= 1 /\ x \in Nat
            BY <2>1, <3>0
        <3>2. b \in Nat
            BY <1>2
        <3> QED
            BY <2>1, <3>1, <3>2
    <2> QED
        BY <1>2, <2>2
<1>4. \E x \in s : \A y \in s : x >= y
    BY <1>2, <1>3
<1> QED
    BY <1>4 DEF Max

LEMMA SmallestIsIn ==
    ASSUME NEW s \in SUBSET Nat, s # {}
    PROVE  Min(s) \in s
<1>1. \E x \in s : \A y \in s : x <= y
    BY LeastNumber
<1> QED
    BY <1>1 DEF Min

\* Among the subsets of a finite set that are in Bad one has no smaller subset in Bad.
LEMMA LeastSubset ==
    ASSUME NEW S, IsFiniteSet(S), NEW Bad \in SUBSET (SUBSET S), Bad # {}
    PROVE  \E s \in Bad : \A t \in SUBSET s : t # s => t \notin Bad
<1>1. FiniteSubsetsOf(S) = SUBSET S
    BY FS_FiniteSubsetsOfFinite
<1>2. IsWellFoundedOn(StrictSubsetOrdering(S), SUBSET S)
    BY <1>1, FS_StrictSubsetOrderingWellFounded
<1>3. PICK s \in Bad : \A t \in Bad : <<t, s>> \notin StrictSubsetOrdering(S)
    BY <1>2, WFMin
<1>4. ASSUME NEW t \in SUBSET s, t # s, t \in Bad PROVE FALSE
    BY <1>3, <1>4 DEF StrictSubsetOrdering
<1> QED
    BY <1>4

-----------------------------------------------------------------------------
(* Documents after writes                                                   *)

\* f applies the writes ws to d, those at the positions of each set in their order.
Applies(f, d, ws) ==
    f = [s \in SUBSET (DOMAIN ws) |->
            IF s = {} THEN d ELSE Written(f[s \ {Max(s)}], ws[Max(s)])]

LEMMA AppliesExists ==
    ASSUME NEW W, NEW ws \in Seq(W), NEW d
    PROVE  \E f : Applies(f, d, ws)
<1> DEFINE S == 1 .. Len(ws)
           Upto(n) == {s \in SUBSET S : Cardinality(s) <= n}
           Rest(s) == s \ {Max(s)}
           AppliesUpto(f, n) == f = [s \in Upto(n) |->
                        IF s = {} THEN d ELSE Written(f[Rest(s)], ws[Max(s)])]
           Good == {n \in Nat : \E f : AppliesUpto(f, n)}
<1>a. Len(ws) \in Nat /\ DOMAIN ws = S /\ IsFiniteSet(S) /\ Cardinality(S) \in Nat
    BY FS_Interval, FS_CardinalityType
<1>c. \A s \in SUBSET S : /\ IsFiniteSet(s) /\ Cardinality(s) \in Nat
                          /\ Cardinality(s) <= Cardinality(S)
                          /\ s # {} => /\ Rest(s) \in SUBSET S
                                       /\ Cardinality(Rest(s)) = Cardinality(s) - 1
                          /\ Cardinality(s) = 0 <=> s = {}
    <2> SUFFICES ASSUME NEW s \in SUBSET S
                 PROVE  /\ IsFiniteSet(s) /\ Cardinality(s) \in Nat
                        /\ Cardinality(s) <= Cardinality(S)
                        /\ s # {} => /\ Rest(s) \in SUBSET S
                                     /\ Cardinality(Rest(s)) = Cardinality(s) - 1
                        /\ Cardinality(s) = 0 <=> s = {}
        OBVIOUS
    <2>1. IsFiniteSet(s) /\ Cardinality(s) <= Cardinality(S)
        BY <1>a, FS_Subset
    <2>2. Cardinality(s) \in Nat
        BY <2>1, FS_CardinalityType
    <2>3. s # {} => Cardinality(Rest(s)) = Cardinality(s) - 1
        <3>1. s # {} => Max(s) \in s
            BY <1>a, LargestIsIn
        <3> QED
            BY <2>1, <3>1, FS_RemoveElement
    <2>4. Cardinality(s) = 0 <=> s = {}
        BY <2>1, FS_EmptySet
    <2> QED
        BY <2>1, <2>2, <2>3, <2>4
<1>1. 0 \in Good
    <2> DEFINE f == [s \in Upto(0) |-> d]
    <2>1. ASSUME NEW s \in Upto(0) PROVE s = {}
        <3>1. s \in SUBSET S /\ Cardinality(s) <= 0
            OBVIOUS
        <3>2. Cardinality(s) \in Nat
            BY <1>c, <3>1
        <3>3. Cardinality(s) = 0
            BY <3>1, <3>2
        <3> QED
            BY <1>c, <3>1, <3>3
    <2>2. AppliesUpto(f, 0)
        BY <2>1
    <2> QED
        BY <2>2
<1>2. ASSUME NEW n \in Good PROVE n + 1 \in Good
    <2>0. n \in Nat /\ n + 1 \in Nat
        OBVIOUS
    <2>1. PICK f : AppliesUpto(f, n)
        OBVIOUS
    <2> DEFINE g == [s \in Upto(n + 1) |-> IF s = {} THEN d ELSE Written(f[Rest(s)], ws[Max(s)])]
    <2>2. ASSUME NEW s \in Upto(n + 1), s # {}
          PROVE  Rest(s) \in Upto(n) /\ Rest(s) \in Upto(n + 1)
        <3>1. s \in SUBSET S /\ Cardinality(s) <= n + 1
            OBVIOUS
        <3>2. Cardinality(s) \in Nat /\ Rest(s) \in SUBSET S /\ Cardinality(Rest(s)) = Cardinality(s) - 1
            BY <1>c, <2>2, <3>1
        <3>3. Cardinality(Rest(s)) <= n /\ Cardinality(Rest(s)) <= n + 1
            BY <2>0, <3>1, <3>2
        <3> HIDE DEF Rest
        <3> QED
            BY <3>2, <3>3
    <2>3. ASSUME NEW s \in Upto(n) PROVE s \in Upto(n + 1)
        <3>1. s \in SUBSET S /\ Cardinality(s) <= n
            OBVIOUS
        <3>2. Cardinality(s) \in Nat
            BY <1>c, <3>1
        <3>3. Cardinality(s) <= n + 1
            BY <2>0, <3>1, <3>2
        <3> QED
            BY <3>1, <3>3
    <2>4. \A s \in Upto(n) : g[s] = f[s]
        BY <2>1, <2>3
    <2>5. AppliesUpto(g, n + 1)
        BY <2>2, <2>4
    <2> HIDE DEF g, AppliesUpto
    <2> QED
        BY <2>0, <2>5
<1>3. Good = Nat
    <2> HIDE DEF Good
    <2>1. Good \in SUBSET Nat
        BY DEF Good
    <2> QED
        BY <1>1, <1>2, <2>1, AllNumbers
<1>4. PICK f : AppliesUpto(f, Cardinality(S))
    <2>1. Cardinality(S) \in Good
        BY <1>3, <1>a
    <2> HIDE DEF AppliesUpto
    <2> QED
        BY <2>1
<1>5. Upto(Cardinality(S)) = SUBSET S
    BY <1>c
<1> QED
    BY <1>4, <1>5, <1>a DEF Applies

LEMMA AppliedApplies ==
    ASSUME NEW W, NEW ws \in Seq(W), NEW d
    PROVE  \E f : Applies(f, d, ws) /\ Applied(d, ws) = f[DOMAIN ws]
<1> DEFINE f == CHOOSE f : Applies(f, d, ws)
<1>1. Applies(f, d, ws)
    BY AppliesExists
<1>2. Applied(d, ws) = f[DOMAIN ws]
    BY DEF Applied, FoldLeft, MapThenFoldSet, Applies
<1> QED
    BY <1>1, <1>2

LEMMA AppliesAgree ==
    ASSUME NEW W, NEW ws \in Seq(W), NEW us \in Seq(W), NEW n \in Nat,
           n <= Len(ws), n <= Len(us), \A i \in 1 .. n : ws[i] = us[i],
           NEW d, NEW f, NEW g, Applies(f, d, ws), Applies(g, d, us)
    PROVE  f[1 .. n] = g[1 .. n]
<1> DEFINE Bad == {s \in SUBSET (1 .. n) : f[s] # g[s]}
<1> SUFFICES ASSUME Bad # {} PROVE FALSE
    OBVIOUS
<1>0. Bad \in SUBSET (SUBSET (1 .. n)) /\ IsFiniteSet(1 .. n)
    BY FS_Interval
<1>1. PICK s \in Bad : \A t \in SUBSET s : t # s => t \notin Bad
    <2> HIDE DEF Bad
    <2> QED
        BY <1>0, LeastSubset
<1>2. s \in SUBSET (1 .. n) /\ s \in SUBSET (DOMAIN ws) /\ s \in SUBSET (DOMAIN us) /\ f[s] # g[s]
    BY <1>1
<1>3. s # {}
    BY <1>2 DEF Applies
<1>4. Max(s) \in s /\ ws[Max(s)] = us[Max(s)]
    BY <1>2, <1>3, LargestIsIn
<1>5. f[s \ {Max(s)}] = g[s \ {Max(s)}]
    BY <1>1, <1>2, <1>4
<1>6. /\ f[s] = Written(f[s \ {Max(s)}], ws[Max(s)])
      /\ g[s] = Written(g[s \ {Max(s)}], us[Max(s)])
    BY <1>2, <1>3 DEF Applies
<1> QED
    BY <1>2, <1>4, <1>5, <1>6

\* The documents after the first k writes.
After(d, ws, k) == Applied(d, SubSeq(ws, 1, k))

LEMMA FirstWrites ==
    ASSUME NEW W, NEW ws \in Seq(W), NEW k \in 0 .. Len(ws)
    PROVE  /\ SubSeq(ws, 1, k) \in Seq(W)
           /\ Len(SubSeq(ws, 1, k)) = k
           /\ \A i \in 1 .. k : SubSeq(ws, 1, k)[i] = ws[i]
BY SubSeqProperties

\* They come about write by write.
LEMMA AfterSteps ==
    ASSUME NEW W, NEW ws \in Seq(W), NEW d
    PROVE  /\ After(d, ws, 0) = d
           /\ \A k \in 1 .. Len(ws) : After(d, ws, k) = Written(After(d, ws, k - 1), ws[k])
           /\ Applied(d, ws) = After(d, ws, Len(ws))
<1>1. PICK f : Applies(f, d, ws) /\ Applied(d, ws) = f[DOMAIN ws]
    BY AppliedApplies
<1>2. DOMAIN ws = 1 .. Len(ws) /\ Len(ws) \in Nat
    OBVIOUS
<1>3. ASSUME NEW k \in 0 .. Len(ws) PROVE After(d, ws, k) = f[1 .. k]
    <2> DEFINE us == SubSeq(ws, 1, k)
    <2>1. us \in Seq(W) /\ Len(us) = k /\ \A i \in 1 .. k : us[i] = ws[i]
        BY FirstWrites
    <2> HIDE DEF us
    <2>2. PICK g : Applies(g, d, us) /\ Applied(d, us) = g[DOMAIN us]
        BY <2>1, AppliedApplies
    <2>3. g[1 .. k] = f[1 .. k] /\ DOMAIN us = 1 .. k
        BY <1>1, <1>2, <2>1, <2>2, AppliesAgree
    <2> QED
        BY <2>2, <2>3 DEF After, us
<1>4. f[1 .. 0] = d
    BY <1>1 DEF Applies
<1>5. ASSUME NEW k \in 1 .. Len(ws) PROVE f[1 .. k] = Written(f[1 .. (k - 1)], ws[k])
    <2>1. 1 .. k \in SUBSET (DOMAIN ws) /\ k \in 1 .. k /\ k \in Nat
        BY <1>2
    <2>2. Max(1 .. k) = k
        <3>1. Max(1 .. k) \in 1 .. k /\ \A x \in 1 .. k : x <= Max(1 .. k)
            BY <2>1, LargestIsIn
        <3> QED
            BY <2>1, <3>1
    <2>3. (1 .. k) \ {k} = 1 .. (k - 1)
        OBVIOUS
    <2> QED
        BY <1>1, <2>1, <2>2, <2>3 DEF Applies
<1>6. \A k \in 1 .. Len(ws) : After(d, ws, k) = Written(After(d, ws, k - 1), ws[k])
    <2> TAKE k \in 1 .. Len(ws)
    <2>1. k - 1 \in 0 .. Len(ws) /\ k \in 0 .. Len(ws)
        BY <1>2
    <2> QED
        BY <2>1, <1>3, <1>5
<1> QED
    BY <1>1, <1>2, <1>3, <1>4, <1>6

\* Documents that start as d and take the writes one by one are those.
LEMMA AfterIs ==
    ASSUME NEW W, NEW ws \in Seq(W), NEW d, NEW h,
           h[0] = d, \A k \in 1 .. Len(ws) : h[k] = Written(h[k - 1], ws[k])
    PROVE  \A k \in 0 .. Len(ws) : After(d, ws, k) = h[k]
<1> DEFINE Bad == {k \in 0 .. Len(ws) : After(d, ws, k) # h[k]}
<1> SUFFICES ASSUME Bad # {} PROVE FALSE
    OBVIOUS
<1>1. Bad \in SUBSET Nat
    OBVIOUS
<1>2. PICK k \in Bad : \A m \in Bad : k <= m
    <2> HIDE DEF Bad
    <2> QED
        BY <1>1, LeastNumber
<1>3. k # 0
    BY <1>2, AfterSteps
<1>4. k \in 1 .. Len(ws) /\ k - 1 \in 0 .. Len(ws) /\ k - 1 \notin Bad
    BY <1>2, <1>3
<1>5. After(d, ws, k - 1) = h[k - 1]
    BY <1>4
<1> QED
    BY <1>2, <1>4, <1>5, AfterSteps

Docs == [Card -> Doc]

LEMMA WrittenTyped ==
    ASSUME NEW d \in Docs, NEW w \in Write
    PROVE  Written(d, w) \in Docs
<1>1. NoDoc \in Doc
    BY DEF NoDoc, Doc
<1>2. w.id \in Card /\ w.op \in {"unset", "set", "delete", "create", "edit"}
    BY DEF Write
<1> QED
    BY <1>1, <1>2 DEF Written, Docs, Doc

LEMMA AfterTyped ==
    ASSUME NEW d \in Docs, NEW ws \in Seq(Write)
    PROVE  /\ \A k \in 0 .. Len(ws) : After(d, ws, k) \in Docs
           /\ Applied(d, ws) \in Docs
<1> DEFINE Bad == {k \in 0 .. Len(ws) : After(d, ws, k) \notin Docs}
<1>1. Bad = {}
    <2> SUFFICES ASSUME Bad # {} PROVE FALSE
        OBVIOUS
    <2>1. Bad \in SUBSET Nat
        OBVIOUS
    <2>2. PICK k \in Bad : \A m \in Bad : k <= m
        <3> HIDE DEF Bad
        <3> QED
            BY <2>1, LeastNumber
    <2>3. k # 0
        BY <2>2, AfterSteps
    <2>4. k \in 1 .. Len(ws) /\ k - 1 \in 0 .. Len(ws) /\ k - 1 \notin Bad
        BY <2>2, <2>3
    <2>5. After(d, ws, k - 1) \in Docs /\ ws[k] \in Write
        BY <2>4
    <2> QED
        BY <2>2, <2>4, <2>5, AfterSteps, WrittenTyped
<1> QED
    BY <1>1, AfterSteps

\* Only what a write does and to which card counts.
Alike(us, ws) == /\ Len(us) = Len(ws)
                 /\ \A i \in 1 .. Len(ws) : us[i].op = ws[i].op /\ us[i].id = ws[i].id

LEMMA AfterAlike ==
    ASSUME NEW us \in Seq(Write), NEW ws \in Seq(Write), Alike(us, ws), NEW d
    PROVE  /\ \A k \in 0 .. Len(ws) : After(d, us, k) = After(d, ws, k)
           /\ Applied(d, us) = Applied(d, ws)
<1> DEFINE h == [k \in 0 .. Len(ws) |-> After(d, ws, k)]
<1>1. h[0] = d
    BY AfterSteps
<1>2. \A k \in 1 .. Len(us) : h[k] = Written(h[k - 1], us[k])
    <2> TAKE k \in 1 .. Len(us)
    <2>1. k \in 1 .. Len(ws) /\ k - 1 \in 0 .. Len(ws) /\ k \in 0 .. Len(ws)
        BY DEF Alike
    <2>2. h[k] = Written(h[k - 1], ws[k])
        BY <2>1, AfterSteps
    <2>3. us[k].op = ws[k].op /\ us[k].id = ws[k].id
        BY <2>1 DEF Alike
    <2> HIDE DEF h
    <2> QED
        BY <2>2, <2>3 DEF Written
<1>3. \A k \in 0 .. Len(us) : After(d, us, k) = h[k]
    <2> HIDE DEF h
    <2> QED
        BY <1>1, <1>2, AfterIs
<1>4. Len(us) = Len(ws)
    BY DEF Alike
<1> QED
    BY <1>3, <1>4, AfterSteps

\* New writes come after the ones before.
LEMMA AfterJoin ==
    ASSUME NEW W, NEW ws \in Seq(W), NEW us \in Seq(W), NEW d
    PROVE  /\ \A k \in 0 .. Len(ws) : After(d, ws \o us, k) = After(d, ws, k)
           /\ \A k \in 0 .. Len(us) :
                After(d, ws \o us, Len(ws) + k) = After(Applied(d, ws), us, k)
           /\ Applied(d, ws \o us) = Applied(Applied(d, ws), us)
<1> DEFINE all == ws \o us
           h == [k \in 0 .. Len(ws) |-> After(d, all, k)]
           g == [k \in 0 .. Len(us) |-> After(d, all, Len(ws) + k)]
<1>1. /\ all \in Seq(W) /\ Len(all) = Len(ws) + Len(us) /\ Len(ws) \in Nat /\ Len(us) \in Nat
      /\ \A k \in 1 .. Len(ws) : all[k] = ws[k]
      /\ \A k \in 1 .. Len(us) : all[Len(ws) + k] = us[k]
    BY ConcatProperties
<1> HIDE DEF all
<1>2. h[0] = d
    BY <1>1, AfterSteps
<1>3. \A k \in 1 .. Len(ws) : h[k] = Written(h[k - 1], ws[k])
    <2> TAKE k \in 1 .. Len(ws)
    <2>1. k - 1 \in 0 .. Len(ws) /\ k \in 0 .. Len(ws) /\ k \in 1 .. Len(all)
        BY <1>1
    <2>2. all \in Seq(W) /\ all[k] = ws[k]
        BY <1>1
    <2>3. After(d, all, k) = Written(After(d, all, k - 1), all[k])
        BY <2>1, <2>2, AfterSteps
    <2> QED
        BY <2>1, <2>2, <2>3
<1>4. \A k \in 0 .. Len(ws) : After(d, ws, k) = h[k]
    <2> HIDE DEF h
    <2> QED
        BY <1>2, <1>3, AfterIs
<1>5. g[0] = Applied(d, ws)
    <2>1. Len(ws) + 0 = Len(ws) /\ Len(ws) \in 0 .. Len(ws) /\ 0 \in 0 .. Len(us)
        BY <1>1
    <2> QED
        BY <1>4, <2>1, AfterSteps
<1>6. \A k \in 1 .. Len(us) : g[k] = Written(g[k - 1], us[k])
    <2> TAKE k \in 1 .. Len(us)
    <2>1. /\ k - 1 \in 0 .. Len(us) /\ k \in 0 .. Len(us) /\ Len(ws) + k \in 1 .. Len(all)
          /\ (Len(ws) + k) - 1 = Len(ws) + (k - 1)
        BY <1>1
    <2>2. all \in Seq(W) /\ all[Len(ws) + k] = us[k]
        BY <1>1
    <2>3. After(d, all, Len(ws) + k) = Written(After(d, all, (Len(ws) + k) - 1), all[Len(ws) + k])
        BY <2>1, <2>2, AfterSteps
    <2> QED
        BY <2>1, <2>2, <2>3
<1>7. \A k \in 0 .. Len(us) : After(Applied(d, ws), us, k) = g[k]
    <2> HIDE DEF g
    <2> QED
        BY <1>5, <1>6, AfterIs
<1>8. Applied(d, all) = Applied(Applied(d, ws), us)
    <2>1. Applied(Applied(d, ws), us) = After(Applied(d, ws), us, Len(us))
        BY AfterSteps
    <2>2. Applied(d, all) = After(d, all, Len(ws) + Len(us))
        BY <1>1, AfterSteps
    <2>3. Len(us) \in 0 .. Len(us)
        BY <1>1
    <2> QED
        BY <1>7, <2>1, <2>2, <2>3
<1> QED
    BY <1>4, <1>7, <1>8 DEF all

\* The oldest write may be done first.
LEMMA AfterTail ==
    ASSUME NEW W, NEW ws \in Seq(W), ws # <<>>, NEW d
    PROVE  /\ \A k \in 0 .. Len(Tail(ws)) :
                /\ After(Written(d, Head(ws)), Tail(ws), k) = After(d, ws, k + 1)
                /\ k + 1 \in 0 .. Len(ws)
           /\ Applied(Written(d, Head(ws)), Tail(ws)) = Applied(d, ws)
<1> DEFINE h == [k \in 0 .. Len(Tail(ws)) |-> After(d, ws, k + 1)]
<1>1. /\ Tail(ws) \in Seq(W) /\ Len(Tail(ws)) = Len(ws) - 1 /\ Len(ws) \in Nat /\ Len(ws) >= 1
      /\ \A k \in 1 .. Len(Tail(ws)) : Tail(ws)[k] = ws[k + 1]
      /\ Head(ws) = ws[1]
    BY EmptySeq
<1>2. h[0] = Written(d, Head(ws))
    <2>1. 1 \in 1 .. Len(ws) /\ 0 \in 0 .. Len(Tail(ws)) /\ 1 - 1 = 0 /\ 0 + 1 = 1
        BY <1>1
    <2>2. After(d, ws, 1) = Written(After(d, ws, 1 - 1), ws[1]) /\ After(d, ws, 0) = d
        BY <2>1, AfterSteps
    <2> QED
        BY <1>1, <2>1, <2>2
<1>3. \A k \in 1 .. Len(Tail(ws)) : h[k] = Written(h[k - 1], Tail(ws)[k])
    <2> TAKE k \in 1 .. Len(Tail(ws))
    <2>1. /\ k + 1 \in 1 .. Len(ws) /\ k - 1 \in 0 .. Len(Tail(ws)) /\ k \in 0 .. Len(Tail(ws))
          /\ (k + 1) - 1 = (k - 1) + 1
        BY <1>1
    <2>2. Tail(ws)[k] = ws[k + 1]
        BY <1>1
    <2>3. After(d, ws, k + 1) = Written(After(d, ws, (k + 1) - 1), ws[k + 1])
        BY <2>1, AfterSteps
    <2> QED
        BY <2>1, <2>2, <2>3
<1>4. \A k \in 0 .. Len(Tail(ws)) : After(Written(d, Head(ws)), Tail(ws), k) = h[k]
    <2>1. Tail(ws) \in Seq(W)
        BY <1>1
    <2> HIDE DEF h
    <2> QED
        BY <1>2, <1>3, <2>1, AfterIs
<1>5. Applied(Written(d, Head(ws)), Tail(ws)) = Applied(d, ws)
    <2>1. Len(Tail(ws)) \in 0 .. Len(Tail(ws)) /\ Len(Tail(ws)) + 1 = Len(ws)
        BY <1>1
    <2>2. Applied(Written(d, Head(ws)), Tail(ws)) =
              After(Written(d, Head(ws)), Tail(ws), Len(Tail(ws)))
        BY <1>1, AfterSteps
    <2>3. Applied(d, ws) = After(d, ws, Len(ws))
        BY AfterSteps
    <2> QED
        BY <1>4, <2>1, <2>2, <2>3
<1> QED
    BY <1>1, <1>4, <1>5

\* One write, and two, after the ones before.
LEMMA AfterOne ==
    ASSUME NEW W, NEW ws \in Seq(W), NEW w \in W, NEW d
    PROVE  /\ Applied(d, ws \o <<w>>) = Written(Applied(d, ws), w)
           /\ \A k \in 0 .. Len(ws \o <<w>>) :
                \/ /\ k \in 0 .. Len(ws)
                   /\ After(d, ws \o <<w>>, k) = After(d, ws, k)
                \/ After(d, ws \o <<w>>, k) = Written(Applied(d, ws), w)
<1> DEFINE us == <<w>>
           e == Applied(d, ws)
<1>1. us \in Seq(W) /\ Len(us) = 1 /\ us[1] = w
    OBVIOUS
<1>4. Len(ws \o us) = Len(ws) + 1 /\ Len(ws) \in Nat
    BY <1>1, ConcatProperties
<1> HIDE DEF us, e
<1>2. After(e, us, 1) = Written(e, w) /\ Applied(e, us) = Written(e, w)
    <2>0. 1 \in 1 .. Len(us) /\ 1 - 1 = 0
        BY <1>1
    <2>1. /\ After(e, us, 0) = e /\ Applied(e, us) = After(e, us, Len(us))
          /\ After(e, us, 1) = Written(After(e, us, 1 - 1), us[1])
        BY <1>1, <2>0, AfterSteps
    <2> QED
        BY <1>1, <2>0, <2>1
<1>3. /\ \A k \in 0 .. Len(ws) : After(d, ws \o us, k) = After(d, ws, k)
      /\ \A k \in 0 .. Len(us) : After(d, ws \o us, Len(ws) + k) = After(e, us, k)
      /\ Applied(d, ws \o us) = Applied(e, us)
    BY <1>1, AfterJoin DEF e
<1>5. After(d, ws \o us, Len(ws) + 1) = Written(e, w)
    <2>1. 1 \in 0 .. Len(us)
        BY <1>1
    <2> QED
        BY <1>2, <1>3, <2>1
<1>7. \A k \in 0 .. Len(ws \o us) : k \in 0 .. Len(ws) \/ k = Len(ws) + 1
    BY <1>4
<1> QED
    BY <1>2, <1>3, <1>5, <1>7 DEF us, e

LEMMA TwoWrites ==
    ASSUME NEW ws \in Seq(Write), NEW u \in Write, NEW w \in Write
    PROVE  ws \o <<u, w>> = (ws \o <<u>>) \o <<w>> /\ ws \o <<u>> \in Seq(Write)
<1>1. <<u>> \in Seq(Write) /\ <<w>> \in Seq(Write) /\ <<u, w>> = <<u>> \o <<w>>
    <2>1. /\ <<u>> \in Seq(Write) /\ <<w>> \in Seq(Write) /\ <<u, w>> \in Seq(Write)
          /\ Len(<<u>>) = 1 /\ Len(<<w>>) = 1 /\ Len(<<u, w>>) = 2
          /\ <<u>>[1] = u /\ <<w>>[1] = w /\ <<u, w>>[1] = u /\ <<u, w>>[2] = w
        OBVIOUS
    <2>2. Len(<<u>> \o <<w>>) = 2 /\ <<u>> \o <<w>> \in Seq(Write)
        BY <2>1, ConcatProperties
    <2>3. (<<u>> \o <<w>>)[1] = u /\ (<<u>> \o <<w>>)[2] = w
        BY <2>1
    <2>4. \A i \in 1 .. 2 : <<u, w>>[i] = (<<u>> \o <<w>>)[i]
        BY <2>1, <2>3
    <2> QED
        BY <2>1, <2>2, <2>4, SeqEqual
<1> QED
    BY <1>1, ConcatAssociative, ConcatProperties

LEMMA AppliedTwo ==
    ASSUME NEW ws \in Seq(Write), NEW u \in Write, NEW w \in Write, NEW d
    PROVE  Applied(d, ws \o <<u, w>>) = Written(Written(Applied(d, ws), u), w)
<1> DEFINE vs == ws \o <<u>>
<1>1. vs \in Seq(Write) /\ ws \o <<u, w>> = vs \o <<w>>
    BY TwoWrites
<1>2. Applied(d, vs) = Written(Applied(d, ws), u)
    BY AfterOne
<1> HIDE DEF vs
<1>3. Applied(d, vs \o <<w>>) = Written(Applied(d, vs), w)
    BY <1>1, AfterOne
<1> QED
    BY <1>1, <1>2, <1>3

LEMMA AfterTwo ==
    ASSUME NEW ws \in Seq(Write), NEW u \in Write, NEW w \in Write, NEW d,
           NEW k \in 0 .. Len(ws \o <<u, w>>)
    PROVE  \/ k \in 0 .. Len(ws) /\ After(d, ws \o <<u, w>>, k) = After(d, ws, k)
           \/ After(d, ws \o <<u, w>>, k) = Written(Applied(d, ws), u)
           \/ After(d, ws \o <<u, w>>, k) = Written(Written(Applied(d, ws), u), w)
<1> DEFINE vs == ws \o <<u>>
<1>0. vs \in Seq(Write) /\ ws \o <<u, w>> = vs \o <<w>>
    BY TwoWrites
<1>1. k \in 0 .. Len(vs \o <<w>>)
    BY <1>0
<1>2. \/ k \in 0 .. Len(vs) /\ After(d, vs \o <<w>>, k) = After(d, vs, k)
      \/ After(d, vs \o <<w>>, k) = Written(Applied(d, vs), w)
    <2> HIDE DEF vs
    <2> QED
        BY <1>0, <1>1, AfterOne
<1>3. k \in 0 .. Len(vs) => \/ k \in 0 .. Len(ws) /\ (After(d, vs, k) = After(d, ws, k))
                            \/ After(d, vs, k) = Written(Applied(d, ws), u)
    BY AfterOne
<1>4. Applied(d, vs) = Written(Applied(d, ws), u)
    BY AfterOne
<1> HIDE DEF vs
<1> QED
    BY <1>0, <1>2, <1>3, <1>4

\* What a write does to which cards are there and which are primary.
PrimaryIsThere(d) == \A c \in Card : d[c].primary = "yes" => d[c].there

LEMMA WriteEffect ==
    ASSUME NEW d \in Docs, NEW w \in Write
    PROVE  /\ w.op = "unset" => /\ Exists(Written(d, w)) = Exists(d)
                                /\ Primary(Written(d, w)) \subseteq Primary(d)
                                /\ Primary(d) \ {w.id} \subseteq Primary(Written(d, w))
                                /\ PrimaryIsThere(d) => w.id \notin Primary(Written(d, w))
           /\ w.op = "set" => /\ Exists(Written(d, w)) = Exists(d) \cup {w.id}
                              /\ Primary(Written(d, w)) = Primary(d) \cup {w.id}
           /\ w.op = "create" => /\ Exists(Written(d, w)) = Exists(d) \cup {w.id}
                                 /\ Primary(Written(d, w)) = Primary(d)
           /\ w.op = "delete" => /\ Exists(Written(d, w)) = Exists(d) \ {w.id}
                                 /\ Primary(Written(d, w)) = Primary(d) \ {w.id}
           /\ w.op = "edit" => Written(d, w) = d
           /\ PrimaryIsThere(d) => PrimaryIsThere(Written(d, w))
           /\ (w.op \in {"unset", "edit"} /\ ~d[w.id].there) => Written(d, w) = d
<1> DEFINE c == w.id
           e == Written(d, w)
<1>1. c \in Card /\ w.op \in {"unset", "set", "delete", "create", "edit"}
    BY DEF Write
<1>2. \A b \in Card : d[b] \in Doc
    BY DEF Docs
<1>3. CASE w.op = "unset" /\ d[c].there
    <2>1. e = [d EXCEPT ![c].primary = "no"]
        BY <1>3 DEF Written
    <2>2. /\ \A b \in Card : b # c => e[b] = d[b]
          /\ e[c].there = d[c].there /\ e[c].primary = "no"
        BY <1>1, <1>2, <2>1 DEF Docs, Doc
    <2> HIDE DEF e, c
    <2> QED
        BY <1>1, <1>3, <2>2 DEF Exists, Primary, PrimaryIsThere, e, c
<1>4. CASE w.op = "edit" \/ (w.op = "unset" /\ ~d[c].there)
    <2>1. e = d
        BY <1>4 DEF Written
    <2> QED
        BY <1>1, <1>4, <2>1 DEF Primary, PrimaryIsThere
<1>5. CASE w.op = "set"
    <2>1. e = [d EXCEPT ![c].there = TRUE, ![c].primary = "yes"]
        BY <1>5 DEF Written
    <2>2. /\ \A b \in Card : b # c => e[b] = d[b]
          /\ e[c].there /\ e[c].primary = "yes"
        BY <1>1, <1>2, <2>1 DEF Docs, Doc
    <2> HIDE DEF e, c
    <2> QED
        BY <1>1, <1>5, <2>2 DEF Exists, Primary, PrimaryIsThere, e, c
<1>6. CASE w.op = "create"
    <2>1. e = [d EXCEPT ![c].there = TRUE]
        BY <1>6 DEF Written
    <2>2. /\ \A b \in Card : b # c => e[b] = d[b]
          /\ e[c].there /\ e[c].primary = d[c].primary
        BY <1>1, <1>2, <2>1 DEF Docs, Doc
    <2> HIDE DEF e, c
    <2> QED
        BY <1>1, <1>6, <2>2 DEF Exists, Primary, PrimaryIsThere, e, c
<1>7. CASE w.op = "delete"
    <2>1. e = [d EXCEPT ![c] = NoDoc]
        BY <1>7 DEF Written
    <2>2. /\ \A b \in Card : b # c => e[b] = d[b]
          /\ ~e[c].there /\ e[c].primary # "yes"
        BY <1>1, <1>2, <2>1 DEF Docs, NoDoc
    <2> HIDE DEF e, c
    <2> QED
        BY <1>1, <1>7, <2>2 DEF Exists, Primary, PrimaryIsThere, e, c
<1>8. w.op = "unset" \/ w.op = "edit" \/ w.op = "set" \/ w.op = "create" \/ w.op = "delete"
    BY <1>1
<1> HIDE DEF e, c
<1> QED
    BY <1>3, <1>4, <1>5, <1>6, <1>7, <1>8 DEF e, c

-----------------------------------------------------------------------------
(* The order of the ids                                                     *)

\* LastFirst lists every member of a finite set of numbers once: how many are larger
\* tells the members apart, so there is one for every place.
LEMMA LastFirstLists ==
    ASSUME NEW S \in SUBSET Nat, IsFiniteSet(S)
    PROVE  /\ Cardinality(S) \in Nat
           /\ LastFirst(S) \in [1 .. Cardinality(S) -> S]
           /\ \A i, j \in 1 .. Cardinality(S) : LastFirst(S)[i] = LastFirst(S)[j] => i = j
           /\ \A c \in S : \E i \in 1 .. Cardinality(S) : LastFirst(S)[i] = c
<1> DEFINE n == Cardinality(S)
           Above(c) == {e \in S : e > c}
           place == [c \in S |-> Cardinality(Above(c)) + 1]
           ids == LastFirst(S)
<1>1. n \in Nat
    BY FS_CardinalityType
<1>2. ASSUME NEW c \in S
      PROVE  IsFiniteSet(Above(c)) /\ Cardinality(Above(c)) \in Nat /\ Cardinality(Above(c)) < n
    <2>1. Above(c) \in SUBSET S /\ Above(c) # S
        <3>1. c \notin Above(c)
            OBVIOUS
        <3> QED
            BY <3>1
    <2> HIDE DEF Above
    <2>2. IsFiniteSet(Above(c)) /\ Cardinality(Above(c)) <= n /\ Cardinality(Above(c)) # n
        BY <2>1, FS_Subset
    <2>3. Cardinality(Above(c)) \in Nat
        BY <2>2, FS_CardinalityType
    <2> QED
        BY <1>1, <2>2, <2>3
<1>3. ASSUME NEW b \in S, NEW c \in S, b < c
      PROVE  Cardinality(Above(c)) < Cardinality(Above(b))
    <2>1. Above(c) \in SUBSET Above(b) /\ c \in Above(b) /\ c \notin Above(c)
        <3>1. \A e \in S : e > c => e > b
            <4>1. b \in Nat /\ c \in Nat /\ \A e \in S : e \in Nat
                OBVIOUS
            <4> QED
                BY <1>3, <4>1
        <3>2. c > b /\ ~(c > c)
            <4>1. b \in Nat /\ c \in Nat
                OBVIOUS
            <4> QED
                BY <1>3, <4>1
        <3> QED
            BY <3>1, <3>2
    <2>2. Above(c) # Above(b)
        BY <2>1
    <2> HIDE DEF Above
    <2>3. /\ Cardinality(Above(c)) <= Cardinality(Above(b))
          /\ Cardinality(Above(c)) # Cardinality(Above(b))
        BY <1>2, <2>1, <2>2, FS_Subset
    <2> QED
        BY <1>2, <2>3
<1>4. place \in Injection(S, 1 .. n)
    <2>1. ASSUME NEW c \in S PROVE place[c] \in 1 .. n
        <3> HIDE DEF Above, n
        <3>1. place[c] = Cardinality(Above(c)) + 1
            OBVIOUS
        <3> QED
            BY <1>1, <1>2, <3>1 DEF n
    <2>2. ASSUME NEW b \in S, NEW c \in S, place[b] = place[c] PROVE b = c
        <3>1. Cardinality(Above(b)) = Cardinality(Above(c))
            <4> HIDE DEF Above, n
            <4> QED
                BY <1>2, <2>2
        <3>2. b \in Nat /\ c \in Nat
            OBVIOUS
        <3> HIDE DEF Above, n
        <3> QED
            BY <1>2, <1>3, <3>1, <3>2
    <2>3. place \in [S -> 1 .. n]
        BY <2>1
    <2> HIDE DEF place, n
    <2> QED
        BY <2>2, <2>3 DEF Injection, IsInjective
<1>5. place \in Surjection(S, 1 .. n)
    <2>1. IsFiniteSet(1 .. n) /\ Cardinality(1 .. n) = n
        BY <1>1, FS_Interval
    <2> HIDE DEF place
    <2> QED
        BY <1>4, <2>1, FS_Injection
<1>6. ASSUME NEW i \in 1 .. n PROVE ids[i] \in S /\ Cardinality(Above(ids[i])) = i - 1
    <2>1. PICK c \in S : place[c] = i
        <3> HIDE DEF place, n
        <3> QED
            BY <1>5 DEF Surjection
    <2>2. Cardinality(Above(c)) = i - 1
        <3> HIDE DEF Above, n
        <3>1. place[c] = Cardinality(Above(c)) + 1 /\ i \in Int
            OBVIOUS
        <3> QED
            BY <1>2, <2>1, <3>1
    <2>3. ids[i] = CHOOSE x \in S : Cardinality(Above(x)) = i - 1
        BY DEF LastFirst
    <2> HIDE DEF Above, ids, n
    <2> QED
        BY <2>2, <2>3
<1>7. ids \in [1 .. n -> S]
    <2> DEFINE F(i) == CHOOSE c \in S : Cardinality({e \in S : e > c}) = i - 1
    <2>1. ids = [i \in 1 .. n |-> F(i)]
        BY DEF LastFirst
    <2> HIDE DEF ids, n, Above, F
    <2> QED
        BY <1>6, <2>1
<1>8. ASSUME NEW i \in 1 .. n, NEW j \in 1 .. n, ids[i] = ids[j] PROVE i = j
    <2>1. i - 1 = j - 1
        <3> HIDE DEF Above, ids
        <3> QED
            BY <1>6, <1>8
    <2> QED
        BY <1>1, <2>1
<1>9. ASSUME NEW c \in S PROVE \E i \in 1 .. n : ids[i] = c
    <2> DEFINE i == place[c]
    <2>1. i \in 1 .. n /\ i = Cardinality(Above(c)) + 1
        <3>1. i = Cardinality(Above(c)) + 1
            OBVIOUS
        <3>2. i \in 1 .. n
            <4> HIDE DEF place, n
            <4> QED
                BY <1>4 DEF Injection
        <3> QED
            BY <3>1, <3>2
    <2>2. ids[i] \in S /\ Cardinality(Above(ids[i])) = i - 1
        <3> HIDE DEF place, Above, ids, n
        <3> QED
            BY <1>6, <2>1
    <2>3. Cardinality(Above(ids[i])) = Cardinality(Above(c))
        <3> HIDE DEF Above, ids, i, n
        <3> QED
            BY <1>2, <2>1, <2>2
    <2>4. ids[i] = c
        <3> HIDE DEF Above, ids, i, n
        <3>1. ids[i] \in Nat /\ c \in Nat
            BY <2>2
        <3> QED
            BY <1>2, <1>3, <2>2, <2>3, <3>1
    <2> QED
        BY <2>1, <2>4
<1> QED
    BY <1>1, <1>7, <1>8, <1>9

-----------------------------------------------------------------------------
(* The types of the screens                                                 *)

\* A sheet is that of a row of a list that is open, and a form edits a card.
ScreenInv ==
    /\ TypeOK
    /\ sheet # NoSheet => sheet.row > 0 /\ sheet.id \in Card /\ list.mode # "closed"
    /\ form.kind = "edit" => form.id \in Card

FormState == [kind : {"none", "new", "edit"}, id : Card \cup {NoCard},
              primaryCard : Card \cup {NoCard}, button : {"enabled", "loading"},
              ignored : BOOLEAN]
SaveState == [pc : {"none", "stripe", "create", "unset", "edit", "shown"},
              id : Card \cup {NoCard}, primaryCard : Card \cup {NoCard}, here : BOOLEAN]

IdsOf(cards) == [i \in DOMAIN cards |-> cards[i].id]

LEMMA IdsTyped ==
    ASSUME NEW cards \in Seq(Row)
    PROVE  /\ IdsOf(cards) \in Seq(Card) /\ Len(IdsOf(cards)) = Len(cards)
           /\ DOMAIN IdsOf(cards) = 1 .. Len(cards)
           /\ \A i \in 1 .. Len(cards) : IdsOf(cards)[i] = cards[i].id /\ cards[i].id \in Card
<1>1. Len(cards) \in Nat /\ DOMAIN cards = 1 .. Len(cards)
    OBVIOUS
<1>2. ASSUME NEW i \in 1 .. Len(cards) PROVE cards[i] \in Row /\ cards[i].id \in Card
    <2>1. cards[i] \in Row
        BY ElementOfSeq
    <2> QED
        BY <2>1 DEF Row
<1> QED
    BY <1>1, <1>2 DEF IdsOf

\* Drawing leaves all but the rows and the selection as it is.
LEMMA DrawTyped ==
    ASSUME NEW l \in ListState
    PROVE  /\ Draw(l) \in ListState
           /\ Draw(l).mode = l.mode /\ Draw(l).cards = l.cards /\ Draw(l).loads = l.loads
           /\ Draw(l).fresh = l.fresh /\ Draw(l).drawn = IdsOf(l.cards)
<1> DEFINE primaries == {i \in DOMAIN l.cards : l.cards[i].primary}
           selected == IF l.mode = "choose" /\ primaries # {} THEN Max(primaries) ELSE l.selected
<1>1. Draw(l) = [l EXCEPT !.drawn = IdsOf(l.cards), !.selected = selected]
    BY DEF Draw, IdsOf
<1>2. l.cards \in Seq(Row) /\ IdsOf(l.cards) \in Seq(Card)
    BY IdsTyped DEF ListState
<1>3. selected \in Nat
    <2>1. Len(l.cards) \in Nat /\ primaries \in SUBSET (1 .. Len(l.cards))
        BY <1>2
    <2>2. primaries # {} => Max(primaries) \in Nat
        <3> HIDE DEF primaries
        <3>1. primaries # {} => Max(primaries) \in primaries
            BY <2>1, LargestIsIn
        <3>2. ASSUME NEW x \in primaries PROVE x \in Nat
            <4>1. x \in 1 .. Len(l.cards)
                BY <2>1
            <4> QED
                BY <4>1
        <3> QED
            BY <3>1, <3>2
    <2>3. l.selected \in Nat
        BY DEF ListState
    <2> QED
        BY <2>2, <2>3
<1> HIDE DEF selected
<1> QED
    BY <1>1, <1>2, <1>3 DEF ListState

LEMMA LoadCardsTyped ==
    ASSUME NEW l \in ListState, l.loads < MaxLoads
    PROVE  LoadCards(l) \in ListState /\ LoadCards(l).mode = l.mode /\ ~LoadCards(l).fresh
<1>1. l.loads \in 0 .. MaxLoads /\ l.loads + 1 \in 0 .. MaxLoads
    BY CardBounds DEF ListState
<1>2. <<>> \in Seq(Row)
    BY EmptySeq
<1> QED
    BY <1>1, <1>2 DEF LoadCards, ListState

LEMMA ClosedTyped == /\ Closed \in ListState /\ Closed.mode = "closed" /\ ~Closed.fresh
                     /\ \A mode \in {"choose", "manage"} :
                           /\ [Closed EXCEPT !.mode = mode] \in ListState
                           /\ [Closed EXCEPT !.mode = mode].loads = 0
<1>1. <<>> \in Seq(Row) /\ <<>> \in Seq(Card) /\ 0 \in 0 .. MaxLoads
    BY EmptySeq, CardBounds
<1> QED
    BY <1>1 DEF Closed, ListState

LEMMA DropRowTyped ==
    ASSUME NEW l \in ListState, NEW r \in 1 .. Len(l.cards)
    PROVE  /\ DropRow(l, r) \in ListState
           /\ DropRow(l, r).mode = l.mode /\ DropRow(l, r).cards = RemoveAt(l.cards, r)
           /\ DropRow(l, r).loads = l.loads /\ DropRow(l, r).fresh = l.fresh
           /\ DropRow(l, r).drawn = IdsOf(RemoveAt(l.cards, r))
           /\ RemoveAt(l.cards, r) \in Seq(Row) /\ Len(RemoveAt(l.cards, r)) = Len(l.cards) - 1
           /\ \A i \in 1 .. (Len(l.cards) - 1) :
                 RemoveAt(l.cards, r)[i] = IF i < r THEN l.cards[i] ELSE l.cards[i + 1]
<1> DEFINE s == l.cards
           left == SubSeq(s, 1, r - 1)
           right == SubSeq(s, r + 1, Len(s))
<1>1. s \in Seq(Row) /\ Len(s) \in Nat /\ r \in Nat /\ \A i \in 1 .. Len(s) : s[i] \in Row
    BY DEF ListState
<1> HIDE DEF s
<1>2. left \in Seq(Row) /\ Len(left) = r - 1 /\ \A i \in 1 .. (r - 1) : left[i] = s[i]
    <2>1. r - 1 \in Int /\ \A i \in 1 .. (r - 1) : s[i] \in Row
        BY <1>1 DEF s
    <2> QED
        BY <1>1, <2>1, SubSeqProperties
<1>3. /\ right \in Seq(Row) /\ Len(right) = Len(s) - r
      /\ \A i \in 1 .. (Len(s) - r) : right[i] = s[i + r]
    <2>1. r + 1 \in Int /\ Len(s) \in Int /\ \A i \in (r + 1) .. Len(s) : s[i] \in Row
        BY <1>1 DEF s
    <2>2. right \in Seq(Row) /\ Len(right) = IF r + 1 <= Len(s) THEN Len(s) - (r + 1) + 1 ELSE 0
        BY <2>1, SubSeqProperties
    <2>3. Len(right) = Len(s) - r
        BY <1>1, <2>2 DEF s
    <2>4. ASSUME NEW i \in 1 .. (Len(s) - r) PROVE right[i] = s[i + r]
        BY <1>1, <2>1, SubSeqProperties
    <2> QED
        BY <2>2, <2>3, <2>4
<1>4. RemoveAt(s, r) = left \o right
    BY DEF RemoveAt
<1> HIDE DEF left, right
<1>5. /\ RemoveAt(s, r) \in Seq(Row) /\ Len(RemoveAt(s, r)) = Len(s) - 1
      /\ \A i \in 1 .. (Len(s) - 1) : RemoveAt(s, r)[i] = IF i < r THEN s[i] ELSE s[i + 1]
    <2>1. /\ left \o right \in Seq(Row) /\ Len(left \o right) = Len(s) - 1
          /\ \A i \in 1 .. (Len(s) - 1) :
                (left \o right)[i] = IF i <= r - 1 THEN left[i] ELSE right[i - (r - 1)]
        <3>1. Len(left) + Len(right) = Len(s) - 1
            BY <1>1, <1>2, <1>3 DEF s
        <3>2. /\ left \o right \in Seq(Row) /\ Len(left \o right) = Len(left) + Len(right)
              /\ \A i \in 1 .. Len(left) + Len(right) :
                    (left \o right)[i] = IF i <= Len(left) THEN left[i] ELSE right[i - Len(left)]
            BY <1>2, <1>3, ConcatProperties
        <3> QED
            BY <1>2, <3>1, <3>2
    <2>2. ASSUME NEW i \in 1 .. (Len(s) - 1)
          PROVE  (left \o right)[i] = IF i < r THEN s[i] ELSE s[i + 1]
        <3>1. CASE i < r
            BY <1>1, <1>2, <2>1, <3>1
        <3>2. CASE ~(i < r)
            <4>1. i - (r - 1) \in 1 .. (Len(s) - r) /\ (i - (r - 1)) + r = i + 1
                BY <1>1, <3>2
            <4> QED
                BY <1>1, <1>3, <2>1, <3>2, <4>1
        <3> QED
            BY <3>1, <3>2
    <2> QED
        BY <1>4, <2>1, <2>2
<1>6. DropRow(l, r) = Draw([l EXCEPT !.cards = RemoveAt(s, r)])
    BY DEF DropRow, s
<1>7. [l EXCEPT !.cards = RemoveAt(s, r)] \in ListState
    BY <1>5 DEF ListState
<1> QED
    BY <1>5, <1>6, <1>7, DrawTyped DEF ListState, s

LEMMA WriteTyped ==
    ASSUME NEW op \in {"unset", "set", "delete", "create", "edit"}, NEW c \in Card
    PROVE  /\ WriteOf(op, c) \in Write
           /\ WriteOf(op, c).op = op /\ WriteOf(op, c).id = c /\ WriteOf(op, c).row = 0
           /\ [WriteOf(op, c) EXCEPT !.saves = TRUE] \in Write
           /\ [WriteOf(op, c) EXCEPT !.saves = TRUE].op = op
           /\ [WriteOf(op, c) EXCEPT !.saves = TRUE].id = c
           /\ [WriteOf(op, c) EXCEPT !.saves = TRUE].row = 0
           /\ \A r \in Nat : /\ [WriteOf(op, c) EXCEPT !.row = r] \in Write
                             /\ [WriteOf(op, c) EXCEPT !.row = r].op = op
                             /\ [WriteOf(op, c) EXCEPT !.row = r].id = c
                             /\ [WriteOf(op, c) EXCEPT !.row = r].row = r
BY DEF WriteOf, Write

\* The callbacks go, what is written stays.
LEMMA ForgetTyped ==
    ASSUME NEW ws \in Seq(Write), NEW us, us = Forget(ws) \/ (ws = writes /\ us = Kept)
    PROVE  /\ us \in Seq(Write) /\ Alike(us, ws) /\ Len(us) = Len(ws)
           /\ \A i \in DOMAIN us : us[i].row = 0
<1>1. Len(ws) \in Nat /\ DOMAIN ws = 1 .. Len(ws) /\ \A i \in 1 .. Len(ws) : ws[i] \in Write
    OBVIOUS
<1>2. /\ \A i \in 1 .. Len(ws) : us[i] \in Write /\ us[i].op = ws[i].op /\ us[i].id = ws[i].id
                                 /\ us[i].row = 0
      /\ us \in [1 .. Len(ws) -> Write]
    <2>1. CASE us = Forget(ws)
        BY <1>1, <2>1 DEF Forget, Write
    <2>2. CASE ws = writes /\ us = Kept
        BY <1>1, <2>2 DEF Kept, Write
    <2> QED
        BY <2>1, <2>2
<1>3. us \in Seq(Write)
    BY <1>1, <1>2, SeqDef
<1>4. Len(us) = Len(ws) /\ DOMAIN us = 1 .. Len(ws)
    BY <1>1, <1>2
<1> QED
    BY <1>2, <1>3, <1>4 DEF Alike

\* What is where after sending.
LEMMA SentTyped ==
    ASSUME NEW ws \in Seq(Write), NEW us \in Seq(Write)
    PROVE  /\ ws \o us \in Seq(Write) /\ Len(ws \o us) = Len(ws) + Len(us)
           /\ DOMAIN (ws \o us) = 1 .. (Len(ws) + Len(us))
           /\ \A i \in 1 .. Len(ws) : (ws \o us)[i] = ws[i]
           /\ \A i \in 1 .. Len(us) : (ws \o us)[Len(ws) + i] = us[i]
           /\ \A i \in DOMAIN (ws \o us) :
                i \in 1 .. Len(ws) \/ \E j \in 1 .. Len(us) : i = Len(ws) + j
<1>1. Len(ws) \in Nat /\ Len(us) \in Nat
    OBVIOUS
<1>2. /\ ws \o us \in Seq(Write) /\ Len(ws \o us) = Len(ws) + Len(us)
      /\ \A i \in 1 .. Len(ws) + Len(us) :
            (ws \o us)[i] = IF i <= Len(ws) THEN ws[i] ELSE us[i - Len(ws)]
    BY ConcatProperties
<1>3. DOMAIN (ws \o us) = 1 .. (Len(ws) + Len(us))
    BY <1>2
<1>4. ASSUME NEW i \in 1 .. Len(us) PROVE (ws \o us)[Len(ws) + i] = us[i]
    <2>1. Len(ws) + i \in 1 .. Len(ws) + Len(us) /\ ~(Len(ws) + i <= Len(ws))
          /\ (Len(ws) + i) - Len(ws) = i
        BY <1>1
    <2> QED
        BY <1>2, <2>1
<1>5. ASSUME NEW i \in DOMAIN (ws \o us)
      PROVE  i \in 1 .. Len(ws) \/ \E j \in 1 .. Len(us) : i = Len(ws) + j
    <2>1. i \in 1 .. (Len(ws) + Len(us))
        BY <1>3
    <2>2. i \notin 1 .. Len(ws) => i - Len(ws) \in 1 .. Len(us) /\ i = Len(ws) + (i - Len(ws))
        BY <1>1, <2>1
    <2> QED
        BY <2>2
<1>6. \A i \in 1 .. Len(ws) : (ws \o us)[i] = ws[i]
    BY <1>1, <1>2
<1> QED
    BY <1>2, <1>3, <1>4, <1>5, <1>6

LEMMA TailTyped ==
    ASSUME NEW ws \in Seq(Write), ws # <<>>
    PROVE  /\ Head(ws) \in Write /\ Tail(ws) \in Seq(Write) /\ Len(Tail(ws)) = Len(ws) - 1
           /\ Head(ws) = ws[1] /\ 1 \in DOMAIN ws /\ DOMAIN ws = 1 .. Len(ws)
           /\ Len(ws) \in Nat /\ DOMAIN Tail(ws) = 1 .. (Len(ws) - 1)
           /\ \A i \in 1 .. (Len(ws) - 1) : Tail(ws)[i] = ws[i + 1] /\ i + 1 \in DOMAIN ws
<1>1. Len(ws) \in Nat \ {0} /\ DOMAIN ws = 1 .. Len(ws)
    BY EmptySeq
<1>2. Head(ws) = ws[1] /\ Tail(ws) \in Seq(Write) /\ Len(Tail(ws)) = Len(ws) - 1
    BY <1>1
<1>3. \A i \in 1 .. (Len(ws) - 1) : Tail(ws)[i] = ws[i + 1] /\ i + 1 \in DOMAIN ws
    BY <1>1
<1>4. ws[1] \in Write /\ DOMAIN Tail(ws) = 1 .. (Len(ws) - 1)
    BY <1>1, <1>2
<1> QED
    BY <1>1, <1>2, <1>3, <1>4

\* Writes that take no row out may be sent whatever the list does.
LEMMA SendKeeps ==
    ASSUME ScreenInv, NEW us \in Seq(Write), Send(us),
           \A i \in 1 .. Len(us) : us[i].row = 0
    PROVE  /\ writes' \in Seq(Write) /\ Len(writes') <= MaxWrites
           /\ (list.mode = "closed" => \A i \in DOMAIN writes' : writes'[i].row = 0)
           /\ {i \in DOMAIN writes' : writes'[i].row # 0} = Removing
<1>1. writes \in Seq(Write) /\ writes' = writes \o us
    BY DEF ScreenInv, TypeOK, Send
<1>2. writes' \in Seq(Write) /\ Len(writes') <= MaxWrites
    BY <1>1, SentTyped DEF Send
<1>3. DOMAIN writes = 1 .. Len(writes) /\ Len(writes) \in Nat /\ Len(us) \in Nat
    BY <1>1
<1>4. list.mode = "closed" => \A i \in DOMAIN writes' : writes'[i].row = 0
    BY <1>1, <1>3, SentTyped DEF ScreenInv, TypeOK
<1>5. ASSUME NEW i
      PROVE  i \in DOMAIN writes' /\ writes'[i].row # 0 <=> i \in DOMAIN writes /\ writes[i].row # 0
    <2>1. CASE i \in DOMAIN writes
        <3>1. i \in DOMAIN writes' /\ writes'[i] = writes[i]
            BY <1>1, <1>3, <2>1, SentTyped
        <3> QED
            BY <2>1, <3>1
    <2>2. CASE i \notin DOMAIN writes
        <3>1. i \in DOMAIN writes' => \E j \in 1 .. Len(us) : i = Len(writes) + j
            BY <1>1, <1>3, <2>2, SentTyped
        <3>2. i \in DOMAIN writes' => writes'[i].row = 0
            BY <1>1, <3>1, SentTyped
        <3> QED
            BY <2>2, <3>2
    <2> QED
        BY <2>1, <2>2
<1> QED
    BY <1>2, <1>4, <1>5 DEF Removing

LEMMA ScreenStarts == CardsInit => ScreenInv
<1> SUFFICES ASSUME CardsInit PROVE ScreenInv
    OBVIOUS
<1>1. docs \in [Card -> Doc]
    BY DEF CardsInit, Doc, NoDoc
<1>2. writes \in Seq(Write) /\ Len(writes) <= MaxWrites /\ DOMAIN writes = {}
    BY EmptySeq, CardBounds DEF CardsInit
<1>3. list \in ListState /\ sheet \in [row : Nat, id : Card \cup {NoCard}] /\ sheet = NoSheet
    BY ClosedTyped DEF CardsInit, NoSheet
<1>4. form \in FormState /\ save \in SaveState /\ form.kind = "none"
    BY DEF CardsInit, NoForm, NoSave, FormState, SaveState
<1>5. /\ minted \in SUBSET New /\ chosen \in Card \cup {NoCard}
      /\ down \in {"up", "row", "expiry"} /\ crashes \in 0 .. MaxCrashes
      /\ past \in SUBSET {"stale", "rejected", "elsewhere"}
    BY CardBounds DEF CardsInit
<1> QED
    BY <1>1, <1>2, <1>3, <1>4, <1>5 DEF ScreenInv, TypeOK, FormState, SaveState

\* The taps.
LEMMA TapTyped ==
    ASSUME ScreenInv, Taps
    PROVE  ScreenInv'
<1>1. /\ list \in ListState /\ writes \in Seq(Write) /\ form \in FormState /\ save \in SaveState
      /\ sheet \in [row : Nat, id : Card \cup {NoCard}] /\ list.cards \in Seq(Row)
      /\ past \in SUBSET {"stale", "rejected", "elsewhere"}
    BY DEF ScreenInv, TypeOK, ListState, FormState, SaveState
<1>2. CASE OpenList
    <2>1. /\ list' \in ListState /\ list'.mode # "closed"
          /\ sheet' = sheet /\ (sheet # NoSheet => list.mode # "closed")
        <3>1. PICK mode \in {"choose", "manage"} : list' = LoadCards([Closed EXCEPT !.mode = mode])
            BY <1>2 DEF OpenList
        <3>2. /\ [Closed EXCEPT !.mode = mode] \in ListState
              /\ [Closed EXCEPT !.mode = mode].loads = 0
              /\ [Closed EXCEPT !.mode = mode].mode = mode
            BY ClosedTyped DEF Closed
        <3>3. 0 < MaxLoads
            BY <1>2, CardBounds DEF OpenList
        <3> QED
            BY <1>2, <3>1, <3>2, <3>3, LoadCardsTyped DEF OpenList, ScreenInv
    <2> QED
        BY <1>2, <2>1 DEF OpenList, ScreenInv, TypeOK
<1>3. CASE CloseList
    <2>1. /\ writes' \in Seq(Write) /\ Len(writes') = Len(writes)
          /\ \A i \in DOMAIN writes' : writes'[i].row = 0
        BY <1>1, <1>3, ForgetTyped DEF CloseList
    <2>2. list' \in ListState /\ sheet = NoSheet
        BY <1>3, ClosedTyped DEF CloseList, ListSeen
    <2> QED
        BY <1>3, <2>1, <2>2 DEF CloseList, ScreenInv, TypeOK
<1>4. CASE TapNoCard \/ SaveNoDate
    <2>1. /\ crashes' \in 0 .. MaxCrashes /\ down' \in {"up", "row", "expiry"}
          /\ UNCHANGED <<docs, writes, list, sheet, form, save, minted, chosen, past>>
        BY <1>4, CardBounds DEF TapNoCard, SaveNoDate, GoDown, ScreenInv, TypeOK
    <2> QED
        BY <2>1 DEF ScreenInv, TypeOK
<1>5. CASE ChooseCard
    <2>1. PICK r \in DOMAIN list.cards :
            /\ Send(PrimaryWrites(list.cards[list.selected].id, list.cards[r].id))
            /\ chosen' = list.cards[r].id
        BY <1>5 DEF ChooseCard
    <2> DEFINE old == list.cards[list.selected].id
               c == list.cards[r].id
    <2>2. old \in Card /\ c \in Card
        <3>1. list.selected \in DOMAIN list.cards
            BY <1>5 DEF ChooseCard
        <3>2. \A i \in DOMAIN list.cards : list.cards[i] \in Row
            BY <1>1
        <3> QED
            BY <2>1, <3>1, <3>2 DEF Row
    <2> HIDE DEF old, c
    <2>3. /\ PrimaryWrites(old, c) \in Seq(Write)
          /\ \A i \in 1 .. Len(PrimaryWrites(old, c)) : PrimaryWrites(old, c)[i].row = 0
        <3>1. /\ WriteOf("unset", old) \in Write /\ WriteOf("set", c) \in Write
              /\ WriteOf("unset", old).row = 0 /\ WriteOf("set", c).row = 0
            BY <2>2, WriteTyped
        <3> QED
            BY <3>1 DEF PrimaryWrites
    <2>4. /\ writes' \in Seq(Write) /\ Len(writes') <= MaxWrites
          /\ (list.mode = "closed" => \A i \in DOMAIN writes' : writes'[i].row = 0)
        BY <2>1, <2>3, SendKeeps DEF old, c
    <2>5. chosen' \in Card /\ past' \in SUBSET {"stale", "rejected", "elsewhere"}
        BY <1>1, <1>5, <2>1, <2>2 DEF ChooseCard, c
    <2>6. list' \in ListState /\ list'.mode = list.mode
        <3>1. PICK x \in BOOLEAN : list' = [list EXCEPT !.fresh = x]
            <4>1. list.fresh \in BOOLEAN
                BY <1>1 DEF ListState
            <4> QED
                BY <1>5, <4>1 DEF ChooseCard
        <3> QED
            BY <1>1, <3>1 DEF ListState
    <2> QED
        BY <1>5, <2>4, <2>5, <2>6 DEF ChooseCard, ScreenInv, TypeOK
<1>6. CASE OpenSheet
    <2>1. PICK r \in DOMAIN list.cards : sheet' = [row |-> r, id |-> list.cards[r].id]
        BY <1>6 DEF OpenSheet
    <2>2. r \in Nat /\ r > 0 /\ list.cards[r].id \in Card
        <3>1. r \in 1 .. Len(list.cards) /\ list.cards[r] \in Row
            BY <1>1
        <3> QED
            BY <3>1 DEF Row
    <2>3. list.mode # "closed"
        BY <1>6 DEF OpenSheet, ListSeen
    <2> QED
        BY <1>6, <2>1, <2>2, <2>3 DEF OpenSheet, ScreenInv, TypeOK
<1>7. CASE CancelSheet
    BY <1>7 DEF CancelSheet, NoSheet, ScreenInv, TypeOK
<1>8. CASE RemoveCard
    <2> DEFINE w == [WriteOf("delete", sheet.id) EXCEPT !.row = sheet.row]
    <2>1. sheet.id \in Card /\ sheet.row \in Nat /\ list.mode # "closed"
        BY <1>1, <1>8 DEF RemoveCard, ScreenInv
    <2>2. w \in Write
        BY <2>1 DEF WriteOf, Write
    <2> HIDE DEF w
    <2>3. writes' = writes \o <<w>> /\ Len(writes) + Len(<<w>>) <= MaxWrites
        BY <1>8 DEF RemoveCard, Send, w
    <2>4. writes' \in Seq(Write) /\ Len(writes') <= MaxWrites
        <3>1. <<w>> \in Seq(Write)
            BY <2>2
        <3> QED
            BY <1>1, <2>3, <3>1, SentTyped
    <2>5. list' \in ListState /\ list'.mode = list.mode
        <3>1. PICK x \in BOOLEAN : list' = [list EXCEPT !.fresh = x]
            <4>1. list.fresh \in BOOLEAN
                BY <1>1 DEF ListState
            <4> QED
                BY <1>8, <4>1 DEF RemoveCard
        <3> QED
            BY <1>1, <3>1 DEF ListState
    <2> QED
        BY <1>8, <2>1, <2>4, <2>5 DEF RemoveCard, NoSheet, ScreenInv, TypeOK
<1>9. CASE EditCard
    <2>1. sheet.id \in Card
        BY <1>9 DEF EditCard, ScreenInv
    <2>2. form' \in FormState /\ form'.id \in Card
        BY <1>9, <2>1 DEF EditCard, NoForm, FormState
    <2> QED
        BY <1>9, <2>2 DEF EditCard, NoSheet, ScreenInv, TypeOK, FormState
<1>10. CASE AddNewCard
    <2> DEFINE primaries == {i \in DOMAIN list.cards : list.cards[i].primary}
               first == IF primaries = {} THEN NoCard ELSE list.cards[Min(primaries)].id
    <2>1. first \in Card \cup {NoCard}
        <3>1. primaries # {} => Min(primaries) \in primaries
            <4>1. primaries \in SUBSET Nat
                BY <1>1
            <4> HIDE DEF primaries
            <4> QED
                BY <4>1, SmallestIsIn
        <3>2. \A i \in DOMAIN list.cards : list.cards[i] \in Row
            BY <1>1
        <3> QED
            BY <3>1, <3>2 DEF Row
    <2>2. /\ \/ form' = [NoForm EXCEPT !.kind = "new", !.primaryCard = first]
             \/ form' = [NoForm EXCEPT !.kind = "new"]
          /\ \/ list' = [list EXCEPT !.canAdd = primaries = {}]
             \/ list' = list
        BY <1>10 DEF AddNewCard
    <2> HIDE DEF first, primaries
    <2>3. form' \in FormState /\ form'.kind = "new"
        BY <2>1, <2>2 DEF NoForm, FormState
    <2>4. list' \in ListState /\ list'.mode = list.mode
        BY <1>1, <2>2 DEF ListState
    <2> QED
        BY <1>10, <2>3, <2>4 DEF AddNewCard, ScreenInv, TypeOK, FormState
<1>11. CASE LeaveForm
    <2>1. form' \in FormState /\ form'.kind = "none" /\ save' \in SaveState
        BY <1>1, <1>11 DEF LeaveForm, NoForm, FormState, SaveState
    <2>2. list' \in ListState /\ list'.mode = list.mode
        BY <1>1, <1>11, LoadCardsTyped DEF LeaveForm
    <2> QED
        BY <1>11, <2>1, <2>2 DEF LeaveForm, ScreenInv, TypeOK, FormState, SaveState
<1>12. CASE SaveReturns
    <2>1. form' \in FormState /\ form'.kind = form.kind /\ form'.id = form.id
        BY <1>1, <1>12 DEF SaveReturns, FormState
    <2> QED
        BY <1>12, <2>1 DEF SaveReturns, ScreenInv, TypeOK, FormState
<1>13. CASE SaveCard
    <2>1. form' \in FormState /\ form'.kind = form.kind /\ form'.id = form.id
        BY <1>1, <1>13 DEF SaveCard, FormState
    <2>2. /\ save' \in SaveState /\ writes' \in Seq(Write) /\ Len(writes') <= MaxWrites
          /\ list.mode = "closed" => \A i \in DOMAIN writes' : writes'[i].row = 0
        <3>1. CASE form.kind = "edit"
            <4> DEFINE w == [WriteOf("edit", form.id) EXCEPT !.saves = TRUE]
            <4>1. form.id \in Card
                BY <3>1 DEF ScreenInv
            <4>2. w \in Write /\ w.row = 0
                BY <4>1, WriteTyped
            <4>3. Send(<<w>>) /\ save' = [NoSave EXCEPT !.pc = "edit", !.id = form.id, !.here = TRUE]
                BY <1>13, <3>1 DEF SaveCard
            <4> HIDE DEF w
            <4>4. <<w>> \in Seq(Write) /\ \A i \in 1 .. Len(<<w>>) : <<w>>[i].row = 0
                BY <4>2
            <4> QED
                BY <4>1, <4>3, <4>4, SendKeeps DEF NoSave, SaveState
        <3>2. CASE form.kind # "edit"
            <4>1. /\ writes' = writes
                  /\ save' = [NoSave EXCEPT !.pc = "stripe", !.primaryCard = form.primaryCard,
                                            !.here = TRUE]
                BY <1>13, <3>2 DEF SaveCard
            <4>2. save' \in SaveState
                BY <1>1, <4>1 DEF NoSave, SaveState, FormState
            <4> QED
                BY <4>1, <4>2 DEF ScreenInv, TypeOK
        <3> QED
            BY <3>1, <3>2
    <2> QED
        BY <1>13, <2>1, <2>2 DEF SaveCard, ScreenInv, TypeOK, FormState, SaveState
<1> QED
    BY <1>2, <1>3, <1>4, <1>5, <1>6, <1>7, <1>8, <1>9, <1>10, <1>11, <1>12, <1>13 DEF Taps

\* An answered write is done at the server; one for a new card beside a primary one is
\* followed by an unset of that one, which is then not the chosen card any more.
LEMMA AnswerEffect ==
    ASSUME ScreenInv, WriteAnswered
    PROVE  LET w == Head(writes) IN
           /\ docs' = Written(docs, w)
           /\ save' \in SaveState /\ form' \in FormState
           /\ form'.kind = form.kind /\ form'.id = form.id
           /\ \/ writes' = Tail(writes) /\ chosen' \in {chosen, NoCard}
              \/ \E c \in Card, u \in Write :
                    /\ u.op = "unset" /\ u.id = c /\ u.row = 0
                    /\ writes' = Tail(writes) \o <<u>>
                    /\ chosen' = IF chosen = c THEN NoCard ELSE chosen
<1> DEFINE w == Head(writes)
<1>1. form \in FormState /\ save \in SaveState /\ writes \in Seq(Write) /\ writes # <<>>
    BY DEF ScreenInv, TypeOK, FormState, SaveState, WriteAnswered
<1>2. /\ docs' = Written(docs, w)
      /\ (w.saves => Saved(w)) /\ (~w.saves => UNCHANGED <<save, form, chosen>>)
      /\ writes' = Tail(writes) \o UnsetOld
    BY DEF WriteAnswered
<1>3. w \in Write /\ Tail(writes) \in Seq(Write)
    BY <1>1, TailTyped
<1> HIDE DEF w
<1>4. CASE w.saves /\ w.op = "create" /\ save.primaryCard # NoCard
    <2> DEFINE c == save.primaryCard
               u == [WriteOf("unset", c) EXCEPT !.saves = TRUE]
    <2>1. /\ save' = [save EXCEPT !.pc = "unset"] /\ form' = form
          /\ chosen' = IF chosen = c THEN NoCard ELSE chosen
        BY <1>2, <1>4 DEF Saved
    <2>2. c \in Card
        BY <1>1, <1>4 DEF SaveState
    <2>3. save' \in SaveState /\ form' \in FormState
        BY <1>1, <2>1 DEF SaveState
    <2>4. u \in Write /\ u.op = "unset" /\ u.id = c /\ u.row = 0
        BY <2>2, WriteTyped
    <2>5. UnsetOld = <<u>> \/ UnsetOld = <<>>
        BY DEF UnsetOld
    <2>6. CASE UnsetOld = <<u>>
        <3> HIDE DEF c, u
        <3> QED
            BY <1>2, <2>1, <2>2, <2>3, <2>4, <2>6 DEF w
    <2>7. CASE UnsetOld # <<u>>
        <3>1. writes' = Tail(writes)
            BY <1>2, <1>3, <2>5, <2>7, ConcatEmptySeq
        <3> QED
            BY <1>2, <2>1, <2>3, <3>1 DEF w
    <2> QED
        BY <2>6, <2>7
<1>5. CASE w.saves /\ ~(w.op = "create" /\ save.primaryCard # NoCard)
    <2>1. CASE w.op = "edit"
        <3>1. /\ save' = NoSave /\ chosen' = chosen
              /\ form' \in {form, [form EXCEPT !.button = "enabled"]}
            BY <1>2, <1>5, <2>1 DEF Saved, Finish
        <3>2. save' \in SaveState /\ form' \in FormState /\ form'.kind = form.kind /\ form'.id = form.id
            BY <1>1, <3>1 DEF NoSave, SaveState, FormState
        <3>3. UnsetOld = <<>>
            BY <3>1 DEF UnsetOld, NoSave
        <3>4. writes' = Tail(writes)
            BY <1>2, <1>3, <3>3, ConcatEmptySeq
        <3> QED
            BY <1>2, <3>1, <3>2, <3>4 DEF w
    <2>2. CASE w.op # "edit"
        <3>1. save' = [save EXCEPT !.pc = "shown"] /\ form' = form /\ chosen' = chosen
            BY <1>2, <1>5, <2>2 DEF Saved
        <3>2. save' \in SaveState /\ save'.pc = "shown"
            BY <1>1, <3>1 DEF SaveState
        <3>3. UnsetOld = <<>>
            BY <3>2 DEF UnsetOld
        <3>4. writes' = Tail(writes)
            BY <1>2, <1>3, <3>3, ConcatEmptySeq
        <3> QED
            BY <1>1, <1>2, <3>1, <3>2, <3>4 DEF w
    <2> QED
        BY <2>1, <2>2
<1>6. CASE ~w.saves
    <2>1. UNCHANGED <<save, form, chosen>>
        BY <1>2, <1>6
    <2>2. UnsetOld = <<>>
        BY <2>1 DEF UnsetOld
    <2>3. writes' = Tail(writes)
        BY <1>2, <1>3, <2>2, ConcatEmptySeq
    <2> QED
        BY <1>1, <1>2, <2>1, <2>3 DEF w
<1> QED
    BY <1>4, <1>5, <1>6

LEMMA AnswerTyped ==
    ASSUME ScreenInv, Answers
    PROVE  ScreenInv'
<1>1. /\ list \in ListState /\ writes \in Seq(Write) /\ form \in FormState /\ save \in SaveState
      /\ list.cards \in Seq(Row) /\ docs \in Docs
      /\ past \in SUBSET {"stale", "rejected", "elsewhere"} /\ Len(writes) <= MaxWrites
    BY DEF ScreenInv, TypeOK, ListState, FormState, SaveState, Docs
<1>2. CASE LoadAnswer
    <2>1. list' \in ListState /\ list'.mode = list.mode
        <3> DEFINE ids == LastFirst(Exists(View))
                   found == [i \in DOMAIN ids |-> RowOf(View, ids[i])]
                   answered == [list EXCEPT !.loads = @ - 1, !.cards = found \o @,
                                   !.fresh = /\ list.loads = 1 /\ list.cards = <<>>
                                             /\ list.selected = 0 /\ Removing = {}]
        <3>1. list.loads > 0 /\ list.loads - 1 \in 0 .. MaxLoads
            BY <1>1, <1>2, CardBounds DEF LoadAnswer, ListState
        <3>2. found \in Seq(Row)
            <4>1. View \in Docs
                BY <1>1, AfterTyped DEF View
            <4>2. Exists(View) \in SUBSET Nat /\ Exists(View) \in SUBSET Card
                BY CardsType DEF Exists
            <4>3. IsFiniteSet(Exists(View))
                BY <4>2, CardsFinite, FS_Subset
            <4>4. /\ Cardinality(Exists(View)) \in Nat
                  /\ ids \in [1 .. Cardinality(Exists(View)) -> Exists(View)]
                BY <4>2, <4>3, LastFirstLists
            <4> HIDE DEF ids
            <4>5. DOMAIN ids = 1 .. Cardinality(Exists(View)) /\ \A i \in DOMAIN ids : ids[i] \in Card
                BY <4>2, <4>4
            <4>6. \A c \in Card : RowOf(View, c) \in Row
                BY <4>1 DEF RowOf, Row, Docs, Doc
            <4>7. found \in [1 .. Cardinality(Exists(View)) -> Row]
                BY <4>5, <4>6
            <4> HIDE DEF found
            <4> QED
                BY <4>4, <4>7, SeqDef
        <3> HIDE DEF found
        <3>3. found \o list.cards \in Seq(Row)
            BY <1>1, <3>2, ConcatProperties
        <3>4. answered \in ListState /\ answered.mode = list.mode
            BY <1>1, <3>1, <3>3 DEF ListState
        <3>5. \/ list' = [answered EXCEPT !.fresh = FALSE]
              \/ list' = Draw(answered)
              \/ list' = [list EXCEPT !.loads = @ - 1]
            BY <1>2 DEF LoadAnswer, found
        <3> HIDE DEF answered
        <3>6. CASE list' = [answered EXCEPT !.fresh = FALSE]
            BY <3>4, <3>6 DEF ListState
        <3>7. CASE list' = Draw(answered)
            BY <3>4, <3>7, DrawTyped
        <3>8. CASE list' = [list EXCEPT !.loads = @ - 1]
            BY <1>1, <3>1, <3>8 DEF ListState
        <3> QED
            BY <3>5, <3>6, <3>7, <3>8
    <2> QED
        BY <1>2, <2>1 DEF LoadAnswer, ScreenInv, TypeOK
<1>3. CASE StripeAnswers
    <2>1. CASE \E c \in New \ minted :
                 /\ Send(<<[WriteOf("create", c) EXCEPT !.saves = TRUE]>>)
                 /\ minted' = minted \cup {c}
                 /\ save' = [save EXCEPT !.pc = "create", !.id = c]
                 /\ list' = [list EXCEPT !.fresh = FALSE]
                 /\ UNCHANGED form
        <3>1. PICK c \in New \ minted :
                 /\ Send(<<[WriteOf("create", c) EXCEPT !.saves = TRUE]>>)
                 /\ minted' = minted \cup {c}
                 /\ save' = [save EXCEPT !.pc = "create", !.id = c]
                 /\ list' = [list EXCEPT !.fresh = FALSE]
                 /\ UNCHANGED form
            BY <2>1
        <3> DEFINE w == [WriteOf("create", c) EXCEPT !.saves = TRUE]
        <3>2. c \in Card
            BY CardsType
        <3>3. w \in Write /\ w.row = 0
            BY <3>2, WriteTyped
        <3>4. Send(<<w>>)
            BY <3>1
        <3> HIDE DEF w
        <3>5. <<w>> \in Seq(Write) /\ \A i \in 1 .. Len(<<w>>) : <<w>>[i].row = 0
            BY <3>3
        <3>6. /\ writes' \in Seq(Write) /\ Len(writes') <= MaxWrites
              /\ (list.mode = "closed" => \A i \in DOMAIN writes' : writes'[i].row = 0)
            BY <3>4, <3>5, SendKeeps
        <3>7. list' \in ListState /\ list'.mode = list.mode /\ save' \in SaveState
            BY <1>1, <3>1, <3>2 DEF ListState, SaveState
        <3>8. minted' \in SUBSET New
            BY <3>1 DEF ScreenInv, TypeOK
        <3>9. UNCHANGED <<docs, sheet, form, chosen, down, crashes, past>>
            BY <1>3, <3>1 DEF StripeAnswers
        <3> QED
            BY <3>6, <3>7, <3>8, <3>9 DEF ScreenInv, TypeOK, SaveState
    <2>2. CASE Finish /\ UNCHANGED <<writes, minted, list>>
        <3>1. save' \in SaveState /\ form' \in FormState /\ form'.kind = form.kind /\ form'.id = form.id
            BY <1>1, <2>2 DEF Finish, NoSave, SaveState, FormState
        <3> QED
            BY <1>3, <2>2, <3>1 DEF StripeAnswers, ScreenInv, TypeOK, SaveState, FormState
    <2> QED
        BY <1>3, <2>1, <2>2 DEF StripeAnswers
<1>4. CASE SaveShown
    <2>1. save' \in SaveState /\ form' \in FormState /\ form'.kind = form.kind /\ form'.id = form.id
        BY <1>1, <1>4 DEF SaveShown, Finish, NoSave, SaveState, FormState
    <2> QED
        BY <1>4, <2>1 DEF SaveShown, ScreenInv, TypeOK, SaveState, FormState
<1>5. CASE WriteAnswered
    <2> DEFINE w == Head(writes)
    <2>1. /\ w \in Write /\ Tail(writes) \in Seq(Write) /\ Len(Tail(writes)) = Len(writes) - 1
          /\ w = writes[1] /\ 1 \in DOMAIN writes /\ Len(writes) \in Nat
          /\ DOMAIN Tail(writes) = 1 .. (Len(writes) - 1)
          /\ \A i \in 1 .. (Len(writes) - 1) : Tail(writes)[i] = writes[i + 1] /\ i + 1 \in DOMAIN writes
        BY <1>1, <1>5, TailTyped DEF WriteAnswered
    <2>2. docs' \in Docs
        BY <1>1, <1>5, <2>1, WrittenTyped DEF WriteAnswered
    <2>3. list' \in ListState /\ list'.mode = list.mode
        <3>1. CASE w.row = 0
            BY <1>1, <1>5, <3>1 DEF WriteAnswered
        <3>2. CASE w.row # 0
            <4>1. w.row \in 1 .. Len(list.cards) /\ list' = DropRow(list, w.row)
                BY <1>1, <1>5, <2>1, <3>2 DEF WriteAnswered, Write
            <4> HIDE DEF w
            <4> QED
                BY <1>1, <4>1, DropRowTyped
        <3> QED
            BY <3>1, <3>2
    <2>4. list.mode = "closed" => \A i \in DOMAIN Tail(writes) : Tail(writes)[i].row = 0
        BY <2>1 DEF ScreenInv, TypeOK
    <2>5. /\ writes' \in Seq(Write) /\ Len(writes') <= MaxWrites
          /\ (list.mode = "closed" => \A i \in DOMAIN writes' : writes'[i].row = 0)
          /\ chosen' \in {chosen, NoCard}
        <3>1. CASE writes' = Tail(writes) /\ chosen' \in {chosen, NoCard}
            <4>1. Len(writes) - 1 <= MaxWrites
                BY <1>1, <2>1, CardBounds
            <4> QED
                BY <2>1, <2>4, <3>1, <4>1
        <3>2. CASE \E c \in Card, u \in Write :
                    /\ u.op = "unset" /\ u.id = c /\ u.row = 0
                    /\ writes' = Tail(writes) \o <<u>>
                    /\ chosen' = IF chosen = c THEN NoCard ELSE chosen
            <4>1. PICK u \in Write : u.row = 0 /\ writes' = Tail(writes) \o <<u>>
                BY <3>2
            <4> DEFINE us == <<u>>
                       ws == Tail(writes)
            <4>2. us \in Seq(Write) /\ Len(us) = 1 /\ us[1] = u
                OBVIOUS
            <4> HIDE DEF us, ws
            <4>3. ws \in Seq(Write) /\ writes' = ws \o us /\ Len(ws) = Len(writes) - 1
                BY <2>1, <4>1 DEF us, ws
            <4>4. writes' \in Seq(Write) /\ Len(writes') = Len(writes)
                <5>1. ws \o us \in Seq(Write) /\ Len(ws \o us) = Len(ws) + Len(us)
                    BY <4>2, <4>3, SentTyped
                <5>2. Len(ws) + Len(us) = Len(writes)
                    BY <2>1, <4>2, <4>3
                <5> QED
                    BY <4>3, <5>1, <5>2
            <4>5. ASSUME list.mode = "closed", NEW i \in DOMAIN writes' PROVE writes'[i].row = 0
                <5>1. CASE i \in 1 .. Len(ws)
                    <6>1. writes'[i] = ws[i] /\ i \in DOMAIN ws
                        BY <4>2, <4>3, <5>1, SentTyped
                    <6> QED
                        BY <2>4, <4>5, <6>1 DEF ws
                <5>2. CASE \E j \in 1 .. Len(us) : i = Len(ws) + j
                    <6>1. writes'[i] = us[1]
                        BY <4>2, <4>3, <5>2, SentTyped
                    <6> QED
                        BY <4>1, <4>2, <6>1
                <5> QED
                    BY <4>2, <4>3, <5>1, <5>2, SentTyped
            <4> QED
                BY <1>1, <3>2, <4>4, <4>5
        <3> QED
            BY <1>5, <3>1, <3>2, AnswerEffect
    <2>6. save' \in SaveState /\ form' \in FormState /\ form'.kind = form.kind /\ form'.id = form.id
        BY <1>5, AnswerEffect
    <2> QED
        BY <1>5, <2>2, <2>3, <2>5, <2>6
           DEF WriteAnswered, ScreenInv, TypeOK, SaveState, FormState, Docs
<1>6. CASE WriteAnsweredTooLate \/ WriteRejected
    <2> DEFINE w == Head(writes)
    <2>1. /\ w \in Write /\ writes' = Tail(writes) /\ Tail(writes) \in Seq(Write)
          /\ Len(Tail(writes)) = Len(writes) - 1 /\ Len(writes) \in Nat
          /\ DOMAIN Tail(writes) = 1 .. (Len(writes) - 1)
          /\ \A i \in 1 .. (Len(writes) - 1) : Tail(writes)[i] = writes[i + 1] /\ i + 1 \in DOMAIN writes
        BY <1>1, <1>6, TailTyped DEF WriteAnsweredTooLate, WriteRejected
    <2>2. docs' \in Docs
        BY <1>1, <1>6, <2>1, WrittenTyped DEF WriteAnsweredTooLate, WriteRejected
    <2>3. list' \in ListState /\ list'.mode = list.mode
        BY <1>1, <1>6 DEF WriteAnsweredTooLate, WriteRejected, ListState
    <2>4. /\ writes' \in Seq(Write) /\ Len(writes') <= MaxWrites
          /\ list.mode = "closed" => \A i \in DOMAIN writes' : writes'[i].row = 0
        <3>1. Len(writes) - 1 <= MaxWrites
            BY <1>1, <2>1, CardBounds
        <3> QED
            BY <2>1, <3>1 DEF ScreenInv, TypeOK
    <2>5. /\ save' \in SaveState /\ form' \in FormState /\ form'.kind = form.kind /\ form'.id = form.id
          /\ chosen' = chosen
        <3>1. /\ save' \in {save, NoSave} /\ chosen' = chosen
              /\ form' \in {form, [form EXCEPT !.button = "enabled"]}
            BY <1>6 DEF WriteAnsweredTooLate, WriteRejected, Finish
        <3>2. NoSave \in SaveState
            BY DEF NoSave, SaveState
        <3>3. /\ [form EXCEPT !.button = "enabled"] \in FormState
              /\ [form EXCEPT !.button = "enabled"].kind = form.kind
              /\ [form EXCEPT !.button = "enabled"].id = form.id
            BY <1>1 DEF FormState
        <3> QED
            BY <1>1, <3>1, <3>2, <3>3
    <2>6. /\ past' \in SUBSET {"stale", "rejected", "elsewhere"} /\ down' \in {"up", "row", "expiry"}
          /\ UNCHANGED <<sheet, minted, crashes>>
        BY <1>1, <1>6 DEF WriteAnsweredTooLate, WriteRejected, ScreenInv, TypeOK
    <2> QED
        BY <2>2, <2>3, <2>4, <2>5, <2>6 DEF ScreenInv, TypeOK, SaveState, FormState, Docs
<1> QED
    BY <1>2, <1>3, <1>4, <1>5, <1>6 DEF Answers

LEMMA ScreenStep ==
    ASSUME ScreenInv, [CardsNext]_cardsVars
    PROVE  ScreenInv'
<1>1. CASE Taps
    BY <1>1, TapTyped
<1>2. CASE Answers
    BY <1>2, AnswerTyped
<1>3. CASE Restart
    <2>1. /\ writes' \in Seq(Write) /\ Len(writes') = Len(writes)
          /\ \A i \in DOMAIN writes' : writes'[i].row = 0
        <3>1. writes \in Seq(Write) /\ writes' = Kept
            BY <1>3 DEF Restart, ScreenInv, TypeOK
        <3> QED
            BY <3>1, ForgetTyped
    <2>2. list' \in ListState /\ sheet' \in [row : Nat, id : Card \cup {NoCard}] /\ sheet' = NoSheet
        BY <1>3, ClosedTyped DEF Restart, NoSheet
    <2>3. form' \in FormState /\ save' \in SaveState /\ form'.kind = "none"
        BY <1>3 DEF Restart, NoForm, NoSave, FormState, SaveState
    <2> QED
        BY <1>3, <2>1, <2>2, <2>3 DEF Restart, ScreenInv, TypeOK, FormState, SaveState
<1>4. CASE Elsewhere
    <2>1. docs \in Docs /\ list \in ListState
        BY DEF ScreenInv, TypeOK, Docs
    <2>2. docs' \in Docs
        <3>1. PICK c \in Exists(docs) :
                 docs' = IF docs[c].details /\ docs[c].primary # "yes"
                         THEN [d \in Card |-> IF d = c THEN [docs[d] EXCEPT !.primary = "yes"]
                                              ELSE IF docs[d].primary = "yes"
                                                   THEN [docs[d] EXCEPT !.primary = "no"] ELSE docs[d]]
                         ELSE [docs EXCEPT ![c] = NoDoc]
            BY <1>4 DEF Elsewhere
        <3>2. /\ \A d \in Card : /\ docs[d] \in Doc
                                 /\ [docs[d] EXCEPT !.primary = "yes"] \in Doc
                                 /\ [docs[d] EXCEPT !.primary = "no"] \in Doc
              /\ NoDoc \in Doc
            BY <2>1 DEF Docs, Doc, NoDoc
        <3> QED
            BY <2>1, <3>1, <3>2 DEF Docs
    <2>3. list' \in ListState /\ list'.mode = list.mode
        BY <1>4, <2>1 DEF Elsewhere, ListState
    <2> QED
        BY <1>4, <2>2, <2>3 DEF Elsewhere, ScreenInv, TypeOK, Docs
<1>5. CASE UNCHANGED cardsVars
    BY <1>5 DEF cardsVars, ScreenInv, TypeOK
<1> QED
    BY <1>1, <1>2, <1>3, <1>4, <1>5 DEF CardsNext

-----------------------------------------------------------------------------
(* What a step does to the documents and to what the device sees            *)

\* The ways a step writes.
Quiet == UNCHANGED <<docs, chosen, past>> /\ (writes' = writes \/ writes' = Forget(writes) \/ writes' = Kept)
Sends(w) == w \in Write /\ docs' = docs /\ writes' = writes \o <<w>>
Done == writes # <<>> /\ docs' = Written(docs, Head(writes))

LEMMA ViewIs ==
    ASSUME ScreenInv
    PROVE  /\ docs \in Docs /\ writes \in Seq(Write) /\ View \in Docs
           /\ View = Applied(docs, writes) /\ View' = Applied(docs', writes')
BY AfterTyped DEF ScreenInv, TypeOK, Docs, View

LEMMA QuietSteps ==
    ASSUME ScreenInv, Quiet
    PROVE  /\ View' = View /\ Len(writes') = Len(writes)
           /\ \A k \in 0 .. Len(writes) : After(docs', writes', k) = After(docs, writes, k)
<1>1. writes \in Seq(Write) /\ docs' = docs
    BY ViewIs DEF Quiet
<1>2. CASE writes' = writes
    BY <1>1, <1>2, ViewIs
<1>3. CASE writes' = Forget(writes) \/ writes' = Kept
    <2>1. writes' \in Seq(Write) /\ Alike(writes', writes) /\ Len(writes') = Len(writes)
        BY <1>1, <1>3, ForgetTyped
    <2> QED
        BY <1>1, <2>1, AfterAlike, ViewIs
<1> QED
    BY <1>2, <1>3 DEF Quiet

\* The steps that write nothing new, and the others.
LEMMA StepsWrite ==
    ASSUME ScreenInv, [CardsNext]_cardsVars
    PROVE  \/ Quiet
           \/ \E i, j \in 1 .. Len(list.cards) :
                LET old == list.cards[i].id  c == list.cards[j].id IN
                /\ old \in Card /\ c \in Card
                /\ docs' = docs /\ writes' = writes \o PrimaryWrites(old, c)
                /\ chosen' = c
                /\ past' = IF Primary(View) \subseteq {old} THEN past ELSE past \cup {"stale"}
           \/ \E w \in Write : /\ w.op = "delete" /\ Sends(w) /\ past' = past
                               /\ chosen' = IF chosen = w.id THEN NoCard ELSE chosen
           \/ \E w \in Write : /\ w.op \in {"create", "edit"} /\ Sends(w)
                               /\ past' = past /\ chosen' = chosen
           \/ Done /\ past' = past /\ writes' = Tail(writes) /\ chosen' \in {chosen, NoCard}
           \/ /\ Done /\ past' = past
              /\ \E c \in Card, u \in Write :
                    /\ u.op = "unset" /\ u.id = c
                    /\ writes' = Tail(writes) \o <<u>>
                    /\ chosen' = IF chosen = c THEN NoCard ELSE chosen
           \/ WriteRejected
           \/ Elsewhere
<1>1. writes \in Seq(Write) /\ list.cards \in Seq(Row)
    BY DEF ScreenInv, TypeOK, ListState
<1>2. CASE \/ OpenList \/ CloseList \/ TapNoCard \/ OpenSheet \/ CancelSheet \/ EditCard
           \/ AddNewCard \/ LeaveForm \/ SaveNoDate \/ SaveReturns
           \/ LoadAnswer \/ SaveShown \/ Restart \/ UNCHANGED cardsVars
    BY <1>2 DEF OpenList, CloseList, TapNoCard, OpenSheet, CancelSheet, EditCard, AddNewCard,
                LeaveForm, SaveNoDate, SaveReturns, LoadAnswer, SaveShown, Restart, cardsVars, Quiet
<1>3. CASE ChooseCard
    <2>1. PICK r \in DOMAIN list.cards :
            /\ Send(PrimaryWrites(list.cards[list.selected].id, list.cards[r].id))
            /\ chosen' = list.cards[r].id
            /\ past' = IF Primary(View) \subseteq {list.cards[list.selected].id}
                       THEN past ELSE past \cup {"stale"}
        BY <1>3 DEF ChooseCard
    <2>2. list.selected \in DOMAIN list.cards /\ docs' = docs
        BY <1>3 DEF ChooseCard
    <2>3. \A i \in DOMAIN list.cards : i \in 1 .. Len(list.cards) /\ list.cards[i].id \in Card
        <3>1. \A i \in DOMAIN list.cards : i \in 1 .. Len(list.cards) /\ list.cards[i] \in Row
            BY <1>1
        <3> QED
            BY <3>1 DEF Row
    <2>4. writes' = writes \o PrimaryWrites(list.cards[list.selected].id, list.cards[r].id)
        BY <2>1 DEF Send
    <2> QED
        BY <2>1, <2>2, <2>3, <2>4
<1>4. CASE RemoveCard
    <2> DEFINE w == [WriteOf("delete", sheet.id) EXCEPT !.row = sheet.row]
    <2>1. sheet.id \in Card /\ sheet.row \in Nat
        BY <1>4 DEF RemoveCard, ScreenInv, TypeOK
    <2>2. w \in Write /\ w.op = "delete" /\ w.id = sheet.id
        BY <2>1 DEF WriteOf, Write
    <2>3. docs' = docs /\ writes' = writes \o <<w>> /\ past' = past
          /\ chosen' = IF chosen = sheet.id THEN NoCard ELSE chosen
        BY <1>4 DEF RemoveCard, Send
    <2> HIDE DEF w
    <2> QED
        BY <2>2, <2>3 DEF Sends
<1>5. CASE SaveCard
    <2>1. CASE form.kind = "edit"
        <3> DEFINE w == [WriteOf("edit", form.id) EXCEPT !.saves = TRUE]
        <3>1. form.id \in Card
            BY <2>1 DEF ScreenInv
        <3>2. w \in Write /\ w.op = "edit"
            BY <3>1, WriteTyped
        <3>3. docs' = docs /\ writes' = writes \o <<w>> /\ past' = past /\ chosen' = chosen
            BY <1>5, <2>1 DEF SaveCard, Send
        <3> HIDE DEF w
        <3> QED
            BY <3>2, <3>3 DEF Sends
    <2>2. CASE form.kind # "edit"
        BY <1>5, <2>2 DEF SaveCard, Quiet
    <2> QED
        BY <2>1, <2>2
<1>6. CASE StripeAnswers
    <2>1. CASE UNCHANGED writes
        BY <1>6, <2>1 DEF StripeAnswers, Quiet
    <2>2. CASE \E c \in New \ minted : Send(<<[WriteOf("create", c) EXCEPT !.saves = TRUE]>>)
        <3>1. PICK c \in New \ minted : Send(<<[WriteOf("create", c) EXCEPT !.saves = TRUE]>>)
            BY <2>2
        <3> DEFINE w == [WriteOf("create", c) EXCEPT !.saves = TRUE]
        <3>2. c \in Card
            BY CardsType
        <3>3. w \in Write /\ w.op = "create"
            BY <3>2, WriteTyped
        <3>4. writes' = writes \o <<w>>
            BY <3>1 DEF Send
        <3>5. docs' = docs /\ past' = past /\ chosen' = chosen
            BY <1>6 DEF StripeAnswers
        <3> HIDE DEF w
        <3> QED
            BY <3>3, <3>4, <3>5 DEF Sends
    <2> QED
        BY <1>6, <2>1, <2>2 DEF StripeAnswers
<1>7. CASE WriteAnswered
    <2>1. writes # <<>> /\ past' = past /\ docs' = Written(docs, Head(writes))
        BY <1>7 DEF WriteAnswered
    <2>2. \/ writes' = Tail(writes) /\ chosen' \in {chosen, NoCard}
          \/ \E c \in Card, u \in Write :
                /\ u.op = "unset" /\ u.id = c /\ u.row = 0
                /\ writes' = Tail(writes) \o <<u>>
                /\ chosen' = IF chosen = c THEN NoCard ELSE chosen
        BY <1>7, AnswerEffect
    <2> QED
        BY <2>1, <2>2 DEF Done
<1>8. CASE WriteAnsweredTooLate
    BY <1>8 DEF WriteAnsweredTooLate, Done
<1> QED
    BY <1>2, <1>3, <1>4, <1>5, <1>6, <1>7, <1>8 DEF CardsNext, Taps, Answers

\* A refused write that was of no use to anybody changes nothing by not being done.
LEMMA Refused ==
    ASSUME ScreenInv, WriteRejected, "rejected" \notin past'
    PROVE  Done /\ writes' = Tail(writes) /\ docs' = docs /\ past' = past /\ chosen' = chosen
<1> DEFINE w == Head(writes)
<1>1. writes \in Seq(Write) /\ writes # <<>> /\ docs \in Docs
    BY ViewIs DEF WriteRejected
<1>2. w \in Write
    BY <1>1, TailTyped
<1>3. past' = past /\ w.op # "set" /\ ~Accepted(w)
    BY DEF WriteRejected
<1>4. Written(docs, w) = docs
    <2>1. w.op \in {"unset", "edit"} /\ ~docs[w.id].there
        BY <1>3 DEF Accepted
    <2> HIDE DEF w
    <2> QED
        BY <1>1, <1>2, <2>1, WriteEffect
<1>5. writes' = Tail(writes) /\ docs' = docs /\ chosen' = chosen
    BY DEF WriteRejected
<1> QED
    BY <1>1, <1>3, <1>4, <1>5 DEF Done

\* Doing the oldest write leaves what the device sees as it is.
LEMMA DoneSteps ==
    ASSUME ScreenInv, Done
    PROVE  /\ Tail(writes) \in Seq(Write) /\ docs' \in Docs /\ Head(writes) \in Write
           /\ Applied(docs', Tail(writes)) = View
           /\ \A k \in 0 .. Len(Tail(writes)) :
                 /\ After(docs', Tail(writes), k) = After(docs, writes, k + 1)
                 /\ k + 1 \in 0 .. Len(writes)
<1>1. writes \in Seq(Write) /\ writes # <<>> /\ docs \in Docs /\ docs' = Written(docs, Head(writes))
    BY ViewIs DEF Done
<1>2. Head(writes) \in Write /\ Tail(writes) \in Seq(Write)
    BY <1>1, TailTyped
<1> QED
    BY <1>1, <1>2, WrittenTyped, AfterTail, ViewIs

-----------------------------------------------------------------------------
(* The card chosen last                                                     *)

\* Once the writes are done the chosen card is primary, so it is in what the device
\* sees.
ChosenInv ==
    chosen # NoCard /\ past \cap {"rejected", "elsewhere"} = {} => chosen \in Primary(View)

LEMMA ChosenStep ==
    ASSUME ScreenInv, ChosenInv, [CardsNext]_cardsVars
    PROVE  ChosenInv'
<1>1. docs \in Docs /\ writes \in Seq(Write) /\ View \in Docs /\ View' = Applied(docs', writes')
    BY ViewIs
<1> SUFFICES ASSUME chosen' # NoCard, past' \cap {"rejected", "elsewhere"} = {}
             PROVE  chosen' \in Primary(View)'
    BY DEF ChosenInv
<1>2. Primary(View)' = Primary(View')
    BY DEF Primary
<1>3. CASE Quiet
    BY <1>2, <1>3, QuietSteps DEF ChosenInv, Quiet
<1>4. ASSUME NEW old \in Card, NEW c \in Card, docs' = docs,
             writes' = writes \o PrimaryWrites(old, c), chosen' = c
      PROVE  chosen' \in Primary(View')
    <2> DEFINE u == WriteOf("unset", old)
               w == WriteOf("set", c)
    <2>1. u \in Write /\ w \in Write /\ w.op = "set" /\ w.id = c
        BY DEF WriteOf, Write
    <2>2. writes' = writes \o <<u, w>>
        BY <1>4 DEF PrimaryWrites
    <2> HIDE DEF u, w
    <2>3. View' = Written(Written(View, u), w)
        <3>1. Applied(docs, writes \o <<u, w>>) = Written(Written(Applied(docs, writes), u), w)
            BY <1>1, <2>1, AppliedTwo
        <3> QED
            BY <1>1, <1>4, <2>2, <3>1, ViewIs
    <2>4. Written(View, u) \in Docs
        BY <1>1, <2>1, WrittenTyped
    <2>5. Primary(View') = Primary(Written(View, u)) \cup {c}
        BY <2>1, <2>3, <2>4, WriteEffect
    <2> QED
        BY <1>4, <2>5
<1>5. ASSUME NEW w \in Write, Sends(w), past' = past,
             \/ w.op = "delete" /\ chosen' = IF chosen = w.id THEN NoCard ELSE chosen
             \/ w.op \in {"create", "edit"} /\ chosen' = chosen
      PROVE  chosen' \in Primary(View')
    <2>1. View' = Written(View, w)
        BY <1>1, <1>5, AfterOne, ViewIs DEF Sends
    <2>2. chosen' = chosen /\ chosen \in Primary(View)
        BY <1>5 DEF ChosenInv
    <2>3. w.op = "delete" => chosen # w.id
        BY <1>5
    <2> QED
        BY <1>1, <1>5, <2>1, <2>2, <2>3, WriteEffect
<1>6. ASSUME Done, past' = past, writes' = Tail(writes), chosen' \in {chosen, NoCard}
      PROVE  chosen' \in Primary(View')
    BY <1>1, <1>6, DoneSteps DEF ChosenInv
<1>7. ASSUME Done, past' = past, NEW c \in Card, NEW u \in Write, u.op = "unset", u.id = c,
             writes' = Tail(writes) \o <<u>>, chosen' = IF chosen = c THEN NoCard ELSE chosen
      PROVE  chosen' \in Primary(View')
    <2>1. View' = Written(View, u)
        BY <1>1, <1>7, DoneSteps, AfterOne
    <2>2. chosen' = chosen /\ chosen # c /\ chosen \in Primary(View)
        BY <1>7 DEF ChosenInv
    <2> QED
        BY <1>1, <1>7, <2>1, <2>2, WriteEffect
<1>8. CASE WriteRejected
    BY <1>2, <1>6, <1>8, Refused
<1>9. CASE Elsewhere
    BY <1>9 DEF Elsewhere
<1> QED
    BY <1>2, <1>3, <1>4, <1>5, <1>6, <1>7, <1>8, <1>9, StepsWrite

\* Writes that make no card primary and none not primary remove at most some.
LEMMA NothingChosen ==
    ASSUME NEW d \in Docs, NEW ws \in Seq(Write),
           \A i \in DOMAIN ws : ws[i].op \notin {"set", "unset"}
    PROVE  Primary(Applied(d, ws)) \subseteq Primary(d)
<1> DEFINE Bad == {k \in 0 .. Len(ws) : ~ (Primary(After(d, ws, k)) \subseteq Primary(d))}
<1>1. Bad = {}
    <2> SUFFICES ASSUME Bad # {} PROVE FALSE
        OBVIOUS
    <2>1. Bad \in SUBSET Nat
        OBVIOUS
    <2>2. PICK k \in Bad : \A m \in Bad : k <= m
        <3> HIDE DEF Bad
        <3> QED
            BY <2>1, LeastNumber
    <2>3. k # 0
        BY <2>2, AfterSteps
    <2>4. k \in 1 .. Len(ws) /\ k - 1 \in 0 .. Len(ws) /\ k - 1 \notin Bad
        BY <2>2, <2>3
    <2>5. /\ After(d, ws, k - 1) \in Docs /\ ws[k] \in Write
          /\ ws[k].op \in {"create", "edit", "delete"}
          /\ Primary(After(d, ws, k - 1)) \subseteq Primary(d)
          /\ After(d, ws, k) = Written(After(d, ws, k - 1), ws[k])
        <3>1. ws[k] \in Write /\ k \in DOMAIN ws
            BY <2>4
        <3> QED
            BY <2>4, <3>1, AfterTyped, AfterSteps DEF Write
    <2>6. Primary(After(d, ws, k)) \subseteq Primary(After(d, ws, k - 1))
        BY <2>5, WriteEffect
    <2> QED
        BY <2>2, <2>5, <2>6
<1>2. Len(ws) \in 0 .. Len(ws)
    OBVIOUS
<1> QED
    BY <1>1, <1>2, AfterSteps

LEMMA ChosenIs ==
    ASSUME ScreenInv, ChosenInv
    PROVE  ChosenIsPrimary
<1> SUFFICES ASSUME chosen # NoCard, past \cap {"rejected", "elsewhere"} = {},
                    ~ \E i \in DOMAIN writes : writes[i].op \in {"set", "unset"}
             PROVE  chosen \in Primary(docs)
    BY DEF ChosenIsPrimary
<1> QED
    BY ViewIs, NothingChosen DEF ChosenInv

\* Every variable keeps its type.
THEOREM CardsTypeCorrect == CardsSpec => []TypeOK
<1>1. CardsInit => ScreenInv
    BY ScreenStarts
<1>2. ScreenInv /\ [CardsNext]_cardsVars => ScreenInv'
    BY ScreenStep
<1>3. ScreenInv => TypeOK
    BY DEF ScreenInv
<1> QED
    BY <1>1, <1>2, <1>3, PTL DEF CardsSpec

\* The card chosen last is the primary one once the writes are sent
\* (DataService.swift, setPrimaryPaymentMethod).
THEOREM ChosenBecomesPrimary == CardsSpec => []ChosenIsPrimary
<1>1. CardsInit => ScreenInv /\ ChosenInv
    BY ScreenStarts DEF CardsInit, ChosenInv
<1>2. ScreenInv /\ ChosenInv /\ [CardsNext]_cardsVars => (ScreenInv /\ ChosenInv)'
    BY ScreenStep, ChosenStep
<1>3. ScreenInv /\ ChosenInv => ChosenIsPrimary
    BY ChosenIs
<1> QED
    BY <1>1, <1>2, <1>3, PTL DEF CardsSpec

-----------------------------------------------------------------------------
(* One primary card                                                         *)

AtMostOne(d) == \A a, b \in Primary(d) : a = b

\* Not only now: whichever of the writes on their way are done.
OneInv ==
    /\ PrimaryIsThere(docs)
    /\ past = {} => \A k \in 0 .. Len(writes) : AtMostOne(After(docs, writes, k))

LEMMA PrimariesAreThere ==
    ASSUME NEW d \in Docs, PrimaryIsThere(d), NEW ws \in Seq(Write)
    PROVE  PrimaryIsThere(Applied(d, ws))
<1> DEFINE Bad == {k \in 0 .. Len(ws) : ~ PrimaryIsThere(After(d, ws, k))}
<1>1. Bad = {}
    <2> SUFFICES ASSUME Bad # {} PROVE FALSE
        OBVIOUS
    <2>1. Bad \in SUBSET Nat
        OBVIOUS
    <2>2. PICK k \in Bad : \A m \in Bad : k <= m
        <3> HIDE DEF Bad
        <3> QED
            BY <2>1, LeastNumber
    <2>3. k # 0
        BY <2>2, AfterSteps
    <2>4. k \in 1 .. Len(ws) /\ k - 1 \in 0 .. Len(ws) /\ k - 1 \notin Bad
        BY <2>2, <2>3
    <2>5. /\ After(d, ws, k - 1) \in Docs /\ ws[k] \in Write
          /\ PrimaryIsThere(After(d, ws, k - 1))
          /\ After(d, ws, k) = Written(After(d, ws, k - 1), ws[k])
        <3>1. ws[k] \in Write
            BY <2>4
        <3> QED
            BY <2>4, <3>1, AfterTyped, AfterSteps
    <2>6. PrimaryIsThere(After(d, ws, k))
        BY <2>5, WriteEffect
    <2> QED
        BY <2>2, <2>6
<1>2. Len(ws) \in 0 .. Len(ws)
    OBVIOUS
<1> QED
    BY <1>1, <1>2, AfterSteps

LEMMA OneStarts == CardsInit => OneInv
<1> SUFFICES ASSUME CardsInit PROVE OneInv
    OBVIOUS
<1>1. PrimaryIsThere(docs) /\ AtMostOne(docs)
    <2>1. PICK known, first :
             docs = [c \in Card |->
                       IF c \in known
                       THEN [there |-> TRUE, details |-> TRUE,
                             primary |-> IF c = first THEN "yes" ELSE "no"]
                       ELSE NoDoc]
        BY DEF CardsInit
    <2>2. ASSUME NEW c \in Card, docs[c].primary = "yes" PROVE docs[c].there /\ c = first
        <3>1. CASE c \in known
            BY <2>1, <2>2, <3>1
        <3>2. CASE c \notin known
            BY <2>1, <2>2, <3>2 DEF NoDoc
        <3> QED
            BY <3>1, <3>2
    <2> QED
        BY <2>2 DEF PrimaryIsThere, AtMostOne, Primary
<1>2. writes = <<>> /\ writes \in Seq(Write) /\ Len(writes) = 0
    BY EmptySeq DEF CardsInit
<1>3. \A k \in 0 .. Len(writes) : k = 0
    BY <1>2
<1>4. After(docs, writes, 0) = docs
    BY <1>2, AfterSteps
<1> QED
    BY <1>1, <1>3, <1>4 DEF OneInv

LEMMA OneStep ==
    ASSUME ScreenInv, OneInv, [CardsNext]_cardsVars
    PROVE  OneInv'
<1>1. /\ docs \in Docs /\ writes \in Seq(Write) /\ View \in Docs /\ View = Applied(docs, writes)
      /\ PrimaryIsThere(docs) /\ PrimaryIsThere(View)
    BY ViewIs, PrimariesAreThere DEF OneInv
<1>2. past = {} => /\ \A k \in 0 .. Len(writes) : AtMostOne(After(docs, writes, k))
                   /\ AtMostOne(View)
    <2>1. Len(writes) \in 0 .. Len(writes) /\ View = After(docs, writes, Len(writes))
        BY <1>1, AfterSteps
    <2> QED
        BY <2>1 DEF OneInv
<1> DEFINE One == past' = {} => \A k \in 0 .. Len(writes') : AtMostOne(After(docs', writes', k))
<1>3. OneInv' <=> PrimaryIsThere(docs') /\ One
    BY DEF OneInv, PrimaryIsThere, AtMostOne, Primary, After
<1>4. CASE Quiet
    <2>1. docs' = docs /\ past' = past /\ Len(writes') = Len(writes)
        BY <1>4, QuietSteps DEF Quiet
    <2> QED
        BY <1>1, <1>2, <1>3, <1>4, <2>1, QuietSteps
<1>5. ASSUME NEW old \in Card, NEW c \in Card, docs' = docs,
             writes' = writes \o PrimaryWrites(old, c),
             past' = IF Primary(View) \subseteq {old} THEN past ELSE past \cup {"stale"}
      PROVE  OneInv'
    <2> SUFFICES ASSUME past' = {}, NEW k \in 0 .. Len(writes')
                 PROVE  AtMostOne(After(docs', writes', k))
        BY <1>1, <1>3, <1>5
    <2> DEFINE u == WriteOf("unset", old)
               w == WriteOf("set", c)
    <2>1. /\ u \in Write /\ u.op = "unset" /\ u.id = old
          /\ w \in Write /\ w.op = "set" /\ w.id = c
        BY DEF WriteOf, Write
    <2>2. writes' = writes \o <<u, w>>
        BY <1>5 DEF PrimaryWrites
    <2>3. past = {} /\ Primary(View) \subseteq {old}
        BY <1>5
    <2> HIDE DEF u, w
    <2>4. /\ Written(View, u) \in Docs
          /\ Primary(Written(View, u)) = {}
        BY <1>1, <2>1, <2>3, WriteEffect, WrittenTyped
    <2>5. Primary(Written(Written(View, u), w)) = {c}
        BY <2>1, <2>4, WriteEffect
    <2>6. \/ k \in 0 .. Len(writes) /\ After(docs, writes', k) = After(docs, writes, k)
          \/ After(docs, writes', k) = Written(View, u)
          \/ After(docs, writes', k) = Written(Written(View, u), w)
        BY <1>1, <2>1, <2>2, AfterTwo
    <2> QED
        BY <1>2, <1>5, <2>3, <2>4, <2>5, <2>6 DEF AtMostOne
<1>6. ASSUME NEW w \in Write, Sends(w), past' = past, w.op \in {"delete", "create", "edit"}
      PROVE  OneInv'
    <2>1. docs' = docs /\ writes' = writes \o <<w>>
        BY <1>6 DEF Sends
    <2> SUFFICES ASSUME past' = {}, NEW k \in 0 .. Len(writes')
                 PROVE  AtMostOne(After(docs', writes', k))
        BY <1>1, <1>3, <2>1
    <2>2. Primary(Written(View, w)) \subseteq Primary(View)
        BY <1>1, <1>6, WriteEffect
    <2>3. \/ k \in 0 .. Len(writes) /\ After(docs, writes', k) = After(docs, writes, k)
          \/ After(docs, writes', k) = Written(View, w)
        BY <1>1, <2>1, AfterOne
    <2> QED
        BY <1>2, <1>6, <2>1, <2>2, <2>3 DEF AtMostOne
<1>7. ASSUME Done PROVE PrimaryIsThere(docs')
    <2>1. Head(writes) \in Write /\ docs' = Written(docs, Head(writes))
        BY <1>7, DoneSteps DEF Done
    <2> QED
        BY <1>1, <2>1, WriteEffect
<1>8. ASSUME Done, past' = past, writes' = Tail(writes)
      PROVE  OneInv'
    BY <1>2, <1>3, <1>7, <1>8, DoneSteps
<1>9. ASSUME Done, past' = past, NEW u \in Write, u.op = "unset", writes' = Tail(writes) \o <<u>>
      PROVE  OneInv'
    <2> SUFFICES ASSUME past' = {}, NEW k \in 0 .. Len(writes')
                 PROVE  AtMostOne(After(docs', writes', k))
        BY <1>3, <1>7, <1>9
    <2>1. Tail(writes) \in Seq(Write) /\ Applied(docs', Tail(writes)) = View
        BY <1>9, DoneSteps
    <2>2. \/ k \in 0 .. Len(Tail(writes)) /\ After(docs', writes', k) = After(docs', Tail(writes), k)
          \/ After(docs', writes', k) = Written(View, u)
        BY <1>9, <2>1, AfterOne
    <2>3. Primary(Written(View, u)) \subseteq Primary(View)
        BY <1>1, <1>9, WriteEffect
    <2>4. k \in 0 .. Len(Tail(writes)) => AtMostOne(After(docs', Tail(writes), k))
        BY <1>2, <1>9, DoneSteps
    <2> QED
        BY <1>2, <1>9, <2>2, <2>3, <2>4 DEF AtMostOne
<1>10. CASE WriteRejected
    <2>1. CASE past' = {}
        BY <1>8, <1>10, <2>1, Refused
    <2>2. CASE past' # {}
        BY <1>1, <1>3, <1>10, <2>2 DEF WriteRejected
    <2> QED
        BY <2>1, <2>2
<1>11. CASE Elsewhere
    <2>1. PICK c \in Exists(docs) :
             docs' = IF docs[c].details /\ docs[c].primary # "yes"
                     THEN [d \in Card |-> IF d = c THEN [docs[d] EXCEPT !.primary = "yes"]
                                          ELSE IF docs[d].primary = "yes"
                                               THEN [docs[d] EXCEPT !.primary = "no"] ELSE docs[d]]
                     ELSE [docs EXCEPT ![c] = NoDoc]
        BY <1>11 DEF Elsewhere
    <2>2. c \in Card /\ docs[c].there /\ \A d \in Card : docs[d] \in Doc
        BY <1>1 DEF Exists, Docs
    <2>3. ASSUME NEW d \in Card, docs'[d].primary = "yes" PROVE docs'[d].there
        <3>1. CASE docs[c].details /\ docs[c].primary # "yes"
            <4>1. docs'[d] = IF d = c THEN [docs[d] EXCEPT !.primary = "yes"]
                             ELSE IF docs[d].primary = "yes"
                                  THEN [docs[d] EXCEPT !.primary = "no"] ELSE docs[d]
                BY <2>1, <3>1
            <4>2. d # c => docs'[d] = docs[d]
                BY <2>2, <2>3, <4>1 DEF Doc
            <4>3. d = c => docs'[d].there = docs[d].there
                BY <2>2, <4>1 DEF Doc
            <4> QED
                BY <1>1, <2>2, <2>3, <4>2, <4>3 DEF PrimaryIsThere
        <3>2. CASE ~(docs[c].details /\ docs[c].primary # "yes")
            <4>1. docs' = [docs EXCEPT ![c] = NoDoc]
                BY <2>1, <3>2
            <4>2. d # c /\ docs'[d] = docs[d]
                BY <1>1, <2>2, <2>3, <4>1 DEF Docs, NoDoc
            <4> QED
                BY <1>1, <2>3, <4>2 DEF PrimaryIsThere
        <3> QED
            BY <3>1, <3>2
    <2>4. PrimaryIsThere(docs') /\ past' # {}
        BY <1>11, <2>3 DEF PrimaryIsThere, Elsewhere
    <2> QED
        BY <1>3, <2>4
<1> HIDE DEF One
<1> QED
    BY <1>4, <1>5, <1>6, <1>8, <1>9, <1>10, <1>11, StepsWrite

LEMMA OneIs ==
    ASSUME ScreenInv, OneInv
    PROVE  OnePrimaryIfSeen
<1> SUFFICES ASSUME past = {} PROVE Cardinality(Primary(docs)) <= 1
    BY DEF OnePrimaryIfSeen
<1>1. writes \in Seq(Write) /\ 0 \in 0 .. Len(writes)
    BY ViewIs
<1>2. AtMostOne(docs)
    BY <1>1, AfterSteps DEF OneInv
<1>3. CASE Primary(docs) = {}
    BY <1>3, FS_EmptySet
<1>4. CASE Primary(docs) # {}
    <2>1. PICK c : c \in Primary(docs)
        BY <1>4
    <2>2. Primary(docs) = {c}
        BY <1>2, <2>1 DEF AtMostOne
    <2>3. Cardinality(Primary(docs)) = 1
        BY <2>2, FS_Singleton
    <2> QED
        BY <2>3
<1> QED
    BY <1>3, <1>4

\* At most one card is primary at the server at every moment, as long as every choice
\* was made from a list that had it selected (DataService.swift, setPrimaryPaymentMethod).
THEOREM OnePrimary == CardsSpec => []OnePrimaryIfSeen
<1>1. CardsInit => ScreenInv /\ OneInv
    BY ScreenStarts, OneStarts
<1>2. ScreenInv /\ OneInv /\ [CardsNext]_cardsVars => (ScreenInv /\ OneInv)'
    BY ScreenStep, OneStep
<1>3. ScreenInv /\ OneInv => OnePrimaryIfSeen
    BY OneIs
<1> QED
    BY <1>1, <1>2, <1>3, PTL DEF CardsSpec

-----------------------------------------------------------------------------
(* The list and the collection                                              *)

\* The writes whose callback takes a row out.
Takes(ws) == {i \in DOMAIN ws : ws[i].row # 0}

\* The rows of l are the cards there are, e, and the one whose removal, on its way in
\* ws, is going to take its row out.
Fits(l, ws, e) ==
    /\ l.loads = 0 /\ l.drawn = IdsOf(l.cards)
    /\ \A i, j \in 1 .. Len(l.cards) : l.cards[i].id = l.cards[j].id => i = j
    /\ \A p, q \in Takes(ws) : p = q
    /\ \A p \in Takes(ws) : /\ ws[p].row \in 1 .. Len(l.cards)
                            /\ l.cards[ws[p].row].id = ws[p].id
                            /\ ws[p].id \notin e
    /\ \A c \in Card : (\E i \in 1 .. Len(l.cards) : l.cards[i].id = c)
                       <=> c \in e \/ \E p \in Takes(ws) : ws[p].id = c

ListInv == list.fresh => Fits(list, writes, Exists(View))

LEMMA FitsSame ==
    ASSUME NEW l, NEW m, NEW ws, NEW e, Fits(l, ws, e),
           m.loads = l.loads, m.drawn = l.drawn, m.cards = l.cards
    PROVE  Fits(m, ws, e)
BY DEF Fits

\* More writes that take no row out.
LEMMA FitsSent ==
    ASSUME NEW l, NEW ws \in Seq(Write), NEW us \in Seq(Write), NEW e, Fits(l, ws, e),
           \A i \in 1 .. Len(us) : us[i].row = 0
    PROVE  Fits(l, ws \o us, e)
<1> DEFINE all == ws \o us
<1>1. DOMAIN ws = 1 .. Len(ws)
    OBVIOUS
<1>2. \A p \in Takes(ws) : p \in Takes(all) /\ all[p] = ws[p]
    <2> TAKE p \in Takes(ws)
    <2>1. p \in 1 .. Len(ws) /\ ws[p].row # 0
        BY <1>1 DEF Takes
    <2>2. p \in DOMAIN all /\ all[p] = ws[p]
        BY <2>1, SentTyped
    <2> QED
        BY <2>1, <2>2 DEF Takes
<1>3. \A p \in Takes(all) : p \in Takes(ws)
    <2> TAKE p \in Takes(all)
    <2>1. p \in DOMAIN all /\ all[p].row # 0
        BY DEF Takes
    <2>2. p \in 1 .. Len(ws) /\ all[p] = ws[p]
        BY <2>1, SentTyped
    <2> QED
        BY <1>1, <2>1, <2>2 DEF Takes
<1>4. Takes(all) = Takes(ws)
    BY <1>2, <1>3
<1> HIDE DEF all
<1>5. Fits(l, all, e)
    BY <1>2, <1>4 DEF Fits
<1> QED
    BY <1>5 DEF all

LEMMA TakesTail ==
    ASSUME NEW ws \in Seq(Write), ws # <<>>
    PROVE  /\ \A p \in Takes(Tail(ws)) : p + 1 \in Takes(ws) /\ ws[p + 1] = Tail(ws)[p] /\ p \in Nat \ {0}
           /\ \A p \in Takes(ws) : p # 1 => /\ p - 1 \in Takes(Tail(ws)) /\ ws[p] = Tail(ws)[p - 1]
           /\ 1 \in Takes(ws) <=> Head(ws).row # 0
<1>1. /\ 1 \in DOMAIN ws /\ Head(ws) = ws[1] /\ DOMAIN ws = 1 .. Len(ws) /\ Len(ws) \in Nat
      /\ DOMAIN Tail(ws) = 1 .. (Len(ws) - 1)
      /\ \A i \in 1 .. (Len(ws) - 1) : Tail(ws)[i] = ws[i + 1] /\ i + 1 \in DOMAIN ws
    BY TailTyped
<1>2. ASSUME NEW p \in Takes(Tail(ws))
      PROVE  p + 1 \in Takes(ws) /\ ws[p + 1] = Tail(ws)[p] /\ p \in Nat \ {0}
    <2>1. p \in DOMAIN Tail(ws) /\ Tail(ws)[p].row # 0
        BY DEF Takes
    <2> QED
        BY <1>1, <2>1 DEF Takes
<1>3. ASSUME NEW p \in Takes(ws), p # 1
      PROVE  p - 1 \in Takes(Tail(ws)) /\ ws[p] = Tail(ws)[p - 1]
    <2>1. p \in 1 .. Len(ws) /\ ws[p].row # 0
        BY <1>1 DEF Takes
    <2>2. p - 1 \in 1 .. (Len(ws) - 1) /\ (p - 1) + 1 = p
        BY <1>1, <1>3, <2>1
    <2>3. Tail(ws)[p - 1] = ws[p] /\ p - 1 \in DOMAIN Tail(ws)
        BY <1>1, <2>2
    <2> QED
        BY <2>1, <2>3 DEF Takes
<1>4. 1 \in Takes(ws) <=> Head(ws).row # 0
    BY <1>1 DEF Takes
<1> QED
    BY <1>2, <1>3, <1>4

\* A write that takes no row out is answered.
LEMMA FitsAnswered ==
    ASSUME NEW l, NEW ws \in Seq(Write), ws # <<>>, NEW e, Fits(l, ws, e), Head(ws).row = 0
    PROVE  Fits(l, Tail(ws), e)
<1> DEFINE us == Tail(ws)
<1>1. /\ \A p \in Takes(us) : p + 1 \in Takes(ws) /\ ws[p + 1] = us[p] /\ p \in Nat
      /\ \A p \in Takes(ws) : p - 1 \in Takes(us) /\ ws[p] = us[p - 1]
    BY TakesTail
<1> HIDE DEF us
<1>2. \A p, q \in Takes(us) : p = q
    <2> TAKE p, q \in Takes(us)
    <2>1. p + 1 = q + 1
        BY <1>1 DEF Fits
    <2> QED
        BY <1>1, <2>1
<1>3. \A p \in Takes(us) : /\ us[p].row \in 1 .. Len(l.cards)
                           /\ l.cards[us[p].row].id = us[p].id
                           /\ us[p].id \notin e
    BY <1>1 DEF Fits
<1>4. ASSUME NEW c PROVE (\E p \in Takes(us) : us[p].id = c) <=> (\E p \in Takes(ws) : ws[p].id = c)
    <2>1. ASSUME NEW p \in Takes(us), us[p].id = c PROVE \E q \in Takes(ws) : ws[q].id = c
        <3>1. p + 1 \in Takes(ws) /\ ws[p + 1].id = c
            BY <1>1, <2>1
        <3> QED
            BY <3>1
    <2>2. ASSUME NEW p \in Takes(ws), ws[p].id = c PROVE \E q \in Takes(us) : us[q].id = c
        <3>1. p - 1 \in Takes(us) /\ us[p - 1].id = c
            BY <1>1, <2>2
        <3> QED
            BY <3>1
    <2> QED
        BY <2>1, <2>2
<1> QED
    BY <1>2, <1>3, <1>4 DEF Fits, us

\* The one removal is answered, and takes its row out.
LEMMA FitsDropped ==
    ASSUME NEW l \in ListState, NEW ws \in Seq(Write), ws # <<>>, NEW e, Fits(l, ws, e),
           Head(ws).row # 0
    PROVE  Fits(DropRow(l, Head(ws).row), Tail(ws), e)
<1> DEFINE w == Head(ws)
           r == w.row
           m == DropRow(l, r)
           us == Tail(ws)
           n == Len(l.cards)
<1>1. 1 \in Takes(ws) /\ ws[1] = w
    BY TakesTail, TailTyped
<1>2. Takes(us) = {}
    <2> SUFFICES ASSUME NEW p \in Takes(us) PROVE FALSE
        OBVIOUS
    <2>1. p + 1 \in Takes(ws) /\ p \in Nat \ {0}
        BY TakesTail
    <2>2. p + 1 = 1
        BY <1>1, <2>1 DEF Fits
    <2> QED
        BY <2>1, <2>2
<1>3. r \in 1 .. n /\ l.cards[r].id = w.id /\ w.id \notin e
    BY <1>1 DEF Fits
<1>4. \A c \in Card : (\E i \in 1 .. n : l.cards[i].id = c) <=> c \in e \/ c = w.id
    <2>1. \A p \in Takes(ws) : p = 1
        BY <1>1 DEF Fits
    <2> QED
        BY <1>1, <2>1 DEF Fits
<1>5. \A i, j \in 1 .. n : l.cards[i].id = l.cards[j].id => i = j
    BY DEF Fits
<1>6. n \in Nat /\ l.loads = 0
    BY DEF ListState, Fits
<1> HIDE DEF w, r, m, us, n
<1>7. /\ m.cards = RemoveAt(l.cards, r) /\ m.loads = 0
      /\ m.drawn = IdsOf(m.cards) /\ Len(m.cards) = n - 1
      /\ \A i \in 1 .. (n - 1) : m.cards[i] = IF i < r THEN l.cards[i] ELSE l.cards[i + 1]
    <2>1. r \in 1 .. Len(l.cards)
        BY <1>3 DEF n
    <2>2. /\ DropRow(l, r).cards = RemoveAt(l.cards, r)
          /\ DropRow(l, r).loads = l.loads /\ DropRow(l, r).drawn = IdsOf(RemoveAt(l.cards, r))
          /\ Len(RemoveAt(l.cards, r)) = Len(l.cards) - 1
          /\ \A i \in 1 .. (Len(l.cards) - 1) :
                RemoveAt(l.cards, r)[i] = IF i < r THEN l.cards[i] ELSE l.cards[i + 1]
        BY <2>1, DropRowTyped
    <2> QED
        BY <1>6, <2>2 DEF m, n
<1>8. ASSUME NEW i \in 1 .. (n - 1)
      PROVE  \E k \in 1 .. n : /\ k # r /\ k = (IF i < r THEN i ELSE i + 1)
                               /\ m.cards[i].id = l.cards[k].id
    <2> DEFINE k == IF i < r THEN i ELSE i + 1
    <2>1. k \in 1 .. n /\ k # r
        BY <1>3, <1>6
    <2>2. m.cards[i].id = l.cards[k].id
        BY <1>7
    <2> QED
        BY <2>1, <2>2
<1>9. ASSUME NEW k \in 1 .. n, k # r
      PROVE  \E i \in 1 .. (n - 1) : m.cards[i].id = l.cards[k].id
    <2> DEFINE i == IF k < r THEN k ELSE k - 1
    <2>1. i \in 1 .. (n - 1) /\ (IF i < r THEN i ELSE i + 1) = k
        BY <1>3, <1>6, <1>9
    <2> HIDE DEF i
    <2>2. m.cards[i].id = l.cards[k].id
        BY <1>7, <2>1
    <2> QED
        BY <2>1, <2>2
<1>10. \A i, j \in 1 .. (n - 1) : m.cards[i].id = m.cards[j].id => i = j
    <2> SUFFICES ASSUME NEW i \in 1 .. (n - 1), NEW j \in 1 .. (n - 1), m.cards[i].id = m.cards[j].id
                 PROVE  i = j
        OBVIOUS
    <2>1. PICK k \in 1 .. n : k = (IF i < r THEN i ELSE i + 1) /\ k # r /\ m.cards[i].id = l.cards[k].id
        BY <1>8
    <2>2. PICK h \in 1 .. n : h = (IF j < r THEN j ELSE j + 1) /\ h # r /\ m.cards[j].id = l.cards[h].id
        BY <1>8
    <2>3. k = h
        BY <1>5, <2>1, <2>2
    <2> QED
        BY <1>3, <1>6, <2>1, <2>2, <2>3
<1>11. ASSUME NEW c \in Card
       PROVE  (\E i \in 1 .. (n - 1) : m.cards[i].id = c) <=> c \in e
    <2>1. ASSUME NEW i \in 1 .. (n - 1), m.cards[i].id = c PROVE c \in e
        <3>1. PICK k \in 1 .. n : k # r /\ m.cards[i].id = l.cards[k].id
            BY <1>8
        <3>2. c # w.id
            BY <1>3, <1>5, <2>1, <3>1
        <3> QED
            BY <1>4, <2>1, <3>1, <3>2
    <2>2. ASSUME c \in e PROVE \E i \in 1 .. (n - 1) : m.cards[i].id = c
        <3>1. PICK k \in 1 .. n : l.cards[k].id = c
            BY <1>4, <2>2
        <3>2. k # r
            BY <1>3, <2>2, <3>1
        <3> QED
            BY <1>9, <3>1, <3>2
    <2> QED
        BY <2>1, <2>2
<1>12. Fits(m, us, e)
    BY <1>2, <1>7, <1>10, <1>11 DEF Fits
<1> QED
    BY <1>12 DEF m, us, r, w

\* A removal starts from a row of the card it removes.
LEMMA FitsRemoved ==
    ASSUME NEW l, NEW ws \in Seq(Write), NEW e, Fits(l, ws, e), Takes(ws) = {},
           NEW w \in Write, w.row # 0, w.row \in 1 .. Len(l.cards), l.cards[w.row].id = w.id
    PROVE  Fits(l, ws \o <<w>>, e \ {w.id})
<1> DEFINE us == <<w>>
           all == ws \o us
           n == Len(ws) + 1
<1>1. us \in Seq(Write) /\ Len(us) = 1 /\ us[1] = w /\ DOMAIN ws = 1 .. Len(ws) /\ Len(ws) \in Nat
    OBVIOUS
<1> HIDE DEF us
<1>2. n \in DOMAIN all /\ all[n] = w
    <2>1. DOMAIN all = 1 .. (Len(ws) + 1) /\ \A i \in 1 .. 1 : all[Len(ws) + i] = us[i]
        BY <1>1, SentTyped
    <2> QED
        BY <1>1, <2>1
<1>3. \A p \in Takes(all) : p = n
    <2> TAKE p \in Takes(all)
    <2>1. p \in DOMAIN all /\ all[p].row # 0
        BY DEF Takes
    <2>2. p \in 1 .. Len(ws) => all[p] = ws[p]
        BY <1>1, SentTyped
    <2>3. p \notin 1 .. Len(ws)
        BY <1>1, <2>1, <2>2 DEF Takes
    <2>4. \E j \in 1 .. Len(us) : p = Len(ws) + j
        BY <1>1, <2>1, <2>3, SentTyped
    <2> QED
        BY <1>1, <2>4
<1>4. n \in Takes(all)
    BY <1>2 DEF Takes
<1> HIDE DEF all, n
<1>5. Takes(all) = {n}
    BY <1>3, <1>4
<1>6. \A c \in Card : (\E i \in 1 .. Len(l.cards) : l.cards[i].id = c) <=> c \in e
    BY DEF Fits
<1>7. w.id \in Card
    BY DEF Write
<1>8. w.id \in e
    BY <1>6, <1>7
<1>9. Fits(l, all, e \ {w.id})
    BY <1>2, <1>5, <1>6, <1>8 DEF Fits
<1> QED
    BY <1>9 DEF all, us

\* The rows an answer makes when there are no others: every card there is, once.
LEMMA FitsLoaded ==
    ASSUME ScreenInv, NEW l, l.cards = [i \in DOMAIN LastFirst(Exists(View)) |->
                                          RowOf(View, LastFirst(Exists(View))[i])],
           l.loads = 0, l.drawn = IdsOf(l.cards), Removing = {}
    PROVE  Fits(l, writes, Exists(View))
<1> DEFINE e == Exists(View)
           ids == LastFirst(e)
           n == Cardinality(e)
<1>1. e \in SUBSET Card /\ e \in SUBSET Nat
    BY CardsType DEF Exists
<1>2. IsFiniteSet(e)
    BY <1>1, CardsFinite, FS_Subset
<1> HIDE DEF e
<1>3. /\ n \in Nat /\ ids \in [1 .. n -> e]
      /\ \A i, j \in 1 .. n : ids[i] = ids[j] => i = j
      /\ \A c \in e : \E i \in 1 .. n : ids[i] = c
    BY <1>1, <1>2, LastFirstLists
<1> HIDE DEF ids, n
<1>4. l.cards = [i \in 1 .. n |-> RowOf(View, ids[i])]
    BY <1>3 DEF ids, e
<1>5. Len(l.cards) = n /\ \A i \in 1 .. n : l.cards[i].id = ids[i]
    BY <1>3, <1>4 DEF RowOf
<1>6. Takes(writes) = {}
    BY DEF Takes, Removing
<1>7. \A c \in Card : (\E i \in 1 .. n : l.cards[i].id = c) <=> c \in e
    BY <1>3, <1>5
<1>8. \A i, j \in 1 .. n : l.cards[i].id = l.cards[j].id => i = j
    BY <1>3, <1>5
<1> QED
    BY <1>5, <1>6, <1>7, <1>8 DEF Fits, e

LEMMA ListTap ==
    ASSUME ScreenInv, ListInv, Taps
    PROVE  ListInv'
<1>1. /\ docs \in Docs /\ writes \in Seq(Write) /\ View \in Docs /\ View' = Applied(docs', writes')
      /\ View = Applied(docs, writes)
    BY ViewIs
<1>2. list \in ListState /\ list.cards \in Seq(Row)
    BY DEF ScreenInv, TypeOK, ListState
<1>3. ListInv' <=> (list'.fresh => Fits(list', writes', Exists(View')))
    BY DEF ListInv, Fits, Exists, Takes, IdsOf
<1>4. CASE OpenList \/ CloseList
    <2>1. ~list'.fresh
        <3>1. CASE CloseList
            BY <3>1, ClosedTyped DEF CloseList
        <3>2. CASE OpenList
            <4>1. PICK mode \in {"choose", "manage"} : list' = LoadCards([Closed EXCEPT !.mode = mode])
                BY <3>2 DEF OpenList
            <4> QED
                BY <4>1 DEF LoadCards, Closed
        <3> QED
            BY <1>4, <3>1, <3>2
    <2> QED
        BY <1>3, <2>1
<1>5. ASSUME docs' = docs, writes' = writes, list'.loads = list.loads, list'.drawn = list.drawn,
             list'.cards = list.cards, list'.fresh = list.fresh
      PROVE  ListInv'
    BY <1>1, <1>3, <1>5, FitsSame DEF ListInv
<1>6. CASE TapNoCard \/ OpenSheet \/ CancelSheet \/ EditCard \/ SaveNoDate \/ SaveReturns
    <2>1. UNCHANGED <<docs, writes, list>>
        BY <1>6 DEF TapNoCard, OpenSheet, CancelSheet, EditCard, SaveNoDate, SaveReturns
    <2> QED
        BY <1>5, <2>1
<1>7. CASE AddNewCard
    <2>1. UNCHANGED <<docs, writes>> /\ (list' = list \/ \E x : list' = [list EXCEPT !.canAdd = x])
        BY <1>7 DEF AddNewCard
    <2>2. /\ list'.loads = list.loads /\ list'.drawn = list.drawn
          /\ list'.cards = list.cards /\ list'.fresh = list.fresh
        BY <1>2, <2>1 DEF ListState
    <2> QED
        BY <1>5, <2>1, <2>2
<1>8. CASE LeaveForm
    <2>1. CASE list.mode = "closed"
        <3>1. UNCHANGED <<docs, writes, list>>
            BY <1>8, <2>1 DEF LeaveForm
        <3> QED
            BY <1>5, <3>1
    <2>2. CASE list.mode # "closed"
        BY <1>2, <1>3, <1>8, <2>2, LoadCardsTyped DEF LeaveForm
    <2> QED
        BY <2>1, <2>2
<1>9. CASE ChooseCard
    <2>1. PICK r \in DOMAIN list.cards :
            /\ Send(PrimaryWrites(list.cards[list.selected].id, list.cards[r].id))
            /\ list' = [list EXCEPT !.fresh = @ /\ View[list.cards[r].id].there]
        BY <1>9 DEF ChooseCard
    <2> DEFINE old == list.cards[list.selected].id
               c == list.cards[r].id
               u == WriteOf("unset", old)
               w == WriteOf("set", c)
    <2>2. old \in Card /\ c \in Card
        <3>1. list.selected \in DOMAIN list.cards
            BY <1>9 DEF ChooseCard
        <3>2. \A i \in DOMAIN list.cards : list.cards[i] \in Row
            BY <1>2
        <3> QED
            BY <2>1, <3>1, <3>2 DEF Row
    <2>3. writes' = writes \o <<u, w>> /\ docs' = docs
        BY <1>9, <2>1 DEF Send, PrimaryWrites, ChooseCard
    <2>4. /\ list'.loads = list.loads /\ list'.drawn = list.drawn /\ list'.cards = list.cards
          /\ list'.fresh = (list.fresh /\ View[c].there)
        BY <1>2, <2>1 DEF ListState
    <2> HIDE DEF old, c
    <2>5. /\ u \in Write /\ u.op = "unset" /\ u.row = 0
          /\ w \in Write /\ w.op = "set" /\ w.id = c /\ w.row = 0
        BY <2>2 DEF WriteOf, Write
    <2> HIDE DEF u, w
    <2> SUFFICES ASSUME list'.fresh PROVE Fits(list', writes', Exists(View'))
        BY <1>3
    <2>6. Fits(list, writes, Exists(View)) /\ c \in Exists(View)
        BY <2>2, <2>4 DEF ListInv, Exists
    <2>7. View' = Written(Written(View, u), w)
        <3>1. Applied(docs, writes \o <<u, w>>) = Written(Written(Applied(docs, writes), u), w)
            BY <1>1, <2>5, AppliedTwo
        <3> QED
            BY <1>1, <2>3, <3>1
    <2>8. Exists(View') = Exists(View)
        <3>1. Written(View, u) \in Docs /\ Exists(Written(View, u)) = Exists(View)
            BY <1>1, <2>5, WriteEffect, WrittenTyped
        <3>2. Exists(Written(Written(View, u), w)) = Exists(Written(View, u)) \cup {c}
            BY <2>5, <3>1, WriteEffect
        <3> QED
            BY <2>6, <2>7, <3>1, <3>2
    <2>9. Fits(list, writes \o <<u, w>>, Exists(View))
        <3> DEFINE us == <<u, w>>
        <3>1. us \in Seq(Write) /\ \A i \in 1 .. Len(us) : us[i].row = 0
            BY <2>5
        <3> HIDE DEF us
        <3>2. Fits(list, writes \o us, Exists(View))
            BY <1>1, <2>6, <3>1, FitsSent
        <3> QED
            BY <3>2 DEF us
    <2> QED
        BY <2>3, <2>4, <2>8, <2>9, FitsSame
<1>10. CASE RemoveCard
    <2> DEFINE w == [WriteOf("delete", sheet.id) EXCEPT !.row = sheet.row]
    <2>1. sheet.id \in Card /\ sheet.row \in Nat /\ sheet.row > 0
        BY <1>10 DEF RemoveCard, ScreenInv, TypeOK
    <2>2. w \in Write /\ w.op = "delete" /\ w.id = sheet.id /\ w.row = sheet.row
        BY <2>1 DEF WriteOf, Write
    <2>3. writes' = writes \o <<w>> /\ docs' = docs
        BY <1>10 DEF RemoveCard, Send
    <2> HIDE DEF w
    <2>4. /\ list'.loads = list.loads /\ list'.drawn = list.drawn /\ list'.cards = list.cards
          /\ list'.fresh = (/\ list.fresh /\ Removing = {}
                            /\ sheet.row <= Len(list.cards)
                            /\ list.cards[sheet.row].id = sheet.id)
        BY <1>2, <1>10 DEF RemoveCard, ListState
    <2> SUFFICES ASSUME list'.fresh PROVE Fits(list', writes', Exists(View'))
        BY <1>3
    <2>5. Fits(list, writes, Exists(View)) /\ Takes(writes) = {}
        BY <2>4 DEF ListInv, Takes, Removing
    <2>6. w.row # 0 /\ w.row \in 1 .. Len(list.cards) /\ list.cards[w.row].id = w.id
        <3>1. Len(list.cards) \in Nat /\ w.row = sheet.row /\ w.id = sheet.id
            BY <1>2, <2>2
        <3>2. sheet.row <= Len(list.cards) /\ list.cards[sheet.row].id = sheet.id
            BY <2>4
        <3> QED
            BY <2>1, <3>1, <3>2
    <2>7. Fits(list, writes \o <<w>>, Exists(View) \ {w.id})
        BY <1>1, <2>2, <2>5, <2>6, FitsRemoved
    <2>8. View' = Written(View, w)
        BY <1>1, <2>2, <2>3, AfterOne
    <2>9. Exists(View') = Exists(View) \ {w.id}
        BY <1>1, <2>2, <2>8, WriteEffect
    <2> QED
        BY <2>3, <2>4, <2>7, <2>9, FitsSame
<1>11. CASE SaveCard
    <2>0. docs' = docs /\ list' = list
        BY <1>11 DEF SaveCard
    <2>1. CASE form.kind = "edit"
        <3> DEFINE w == [WriteOf("edit", form.id) EXCEPT !.saves = TRUE]
        <3>1. form.id \in Card
            BY <2>1 DEF ScreenInv
        <3>2. w \in Write /\ w.op = "edit" /\ w.row = 0
            BY <3>1, WriteTyped
        <3>3. writes' = writes \o <<w>>
            BY <1>11, <2>1 DEF SaveCard, Send
        <3> HIDE DEF w
        <3>4. View' = View
            <4>1. View' = Written(View, w)
                BY <1>1, <2>0, <3>2, <3>3, AfterOne
            <4> QED
                BY <1>1, <3>2, <4>1, WriteEffect
        <3>5. ASSUME list.fresh PROVE Fits(list, writes \o <<w>>, Exists(View))
            <4> DEFINE us == <<w>>
            <4>1. us \in Seq(Write) /\ \A i \in 1 .. Len(us) : us[i].row = 0
                BY <3>2
            <4> HIDE DEF us
            <4>2. Fits(list, writes \o us, Exists(View))
                BY <1>1, <3>5, <4>1, FitsSent DEF ListInv
            <4> QED
                BY <4>2 DEF us
        <3> QED
            BY <1>3, <2>0, <3>3, <3>4, <3>5
    <2>2. CASE form.kind # "edit"
        <3>1. writes' = writes
            BY <1>11, <2>2 DEF SaveCard
        <3> QED
            BY <1>5, <2>0, <3>1
    <2> QED
        BY <2>1, <2>2
<1> QED
    BY <1>4, <1>6, <1>7, <1>8, <1>9, <1>10, <1>11 DEF Taps

LEMMA ListAnswer ==
    ASSUME ScreenInv, ListInv, Answers
    PROVE  ListInv'
<1>1. /\ docs \in Docs /\ writes \in Seq(Write) /\ View \in Docs /\ View' = Applied(docs', writes')
      /\ View = Applied(docs, writes)
    BY ViewIs
<1>2. list \in ListState /\ list.cards \in Seq(Row)
    BY DEF ScreenInv, TypeOK, ListState
<1>3. ListInv' <=> (list'.fresh => Fits(list', writes', Exists(View')))
    BY DEF ListInv, Fits, Exists, Takes, IdsOf
<1>4. CASE LoadAnswer
    <2> SUFFICES ASSUME list'.fresh PROVE Fits(list', writes', Exists(View'))
        BY <1>3
    <2>1. View' = View /\ writes' = writes
        BY <1>1, <1>4 DEF LoadAnswer
    <2> DEFINE ids == LastFirst(Exists(View))
               found == [i \in DOMAIN ids |-> RowOf(View, ids[i])]
               answered == [list EXCEPT !.loads = @ - 1, !.cards = found \o @,
                               !.fresh = /\ list.loads = 1 /\ list.cards = <<>>
                                         /\ list.selected = 0 /\ Removing = {}]
    <2>2. list.loads > 0
        BY <1>4 DEF LoadAnswer
    <2>3. list' # [answered EXCEPT !.fresh = FALSE]
        BY <1>2 DEF ListState
    <2>4. list' # [list EXCEPT !.loads = @ - 1]
        <3> SUFFICES ASSUME list' = [list EXCEPT !.loads = @ - 1] PROVE FALSE
            OBVIOUS
        <3>1. list.fresh
            BY <1>2 DEF ListState
        <3>2. list.loads = 0
            BY <3>1 DEF ListInv, Fits
        <3> QED
            BY <2>2, <3>2
    <2>5. list' = Draw(answered)
        BY <1>4, <2>3, <2>4 DEF LoadAnswer
    <2>6. found \in Seq(Row)
        <3>1. Exists(View) \in SUBSET Nat /\ Exists(View) \in SUBSET Card
            BY CardsType DEF Exists
        <3>2. IsFiniteSet(Exists(View))
            BY <3>1, CardsFinite, FS_Subset
        <3>3. /\ Cardinality(Exists(View)) \in Nat
              /\ ids \in [1 .. Cardinality(Exists(View)) -> Exists(View)]
            BY <3>1, <3>2, LastFirstLists
        <3> HIDE DEF ids
        <3>4. DOMAIN ids = 1 .. Cardinality(Exists(View)) /\ \A i \in DOMAIN ids : ids[i] \in Card
            BY <3>1, <3>3
        <3>5. \A c \in Card : RowOf(View, c) \in Row
            BY <1>1 DEF RowOf, Row, Docs, Doc
        <3>6. found \in [1 .. Cardinality(Exists(View)) -> Row]
            BY <3>4, <3>5
        <3> HIDE DEF found
        <3> QED
            BY <3>3, <3>6, SeqDef
    <2> HIDE DEF found
    <2>7. found \o list.cards \in Seq(Row) /\ list.loads - 1 \in 0 .. MaxLoads
        BY <1>2, <2>2, <2>6, CardBounds, ConcatProperties DEF ListState
    <2>8. /\ answered \in ListState /\ answered.cards = found \o list.cards
          /\ answered.loads = list.loads - 1
          /\ answered.fresh = (/\ list.loads = 1 /\ list.cards = <<>>
                               /\ list.selected = 0 /\ Removing = {})
        BY <1>2, <2>7 DEF ListState
    <2> HIDE DEF answered
    <2>9. /\ list'.cards = answered.cards /\ list'.loads = answered.loads
          /\ list'.drawn = IdsOf(answered.cards) /\ list'.fresh = answered.fresh
        BY <2>5, <2>8, DrawTyped
    <2>10. list.loads = 1 /\ list.cards = <<>> /\ Removing = {}
        BY <2>8, <2>9
    <2>11. list'.cards = found
        BY <2>6, <2>8, <2>9, <2>10, ConcatEmptySeq
    <2>12. list'.loads = 0 /\ list'.drawn = IdsOf(list'.cards)
        BY <2>8, <2>9, <2>10
    <2>13. Fits(list', writes, Exists(View))
        BY <2>10, <2>11, <2>12, FitsLoaded DEF found
    <2> QED
        BY <2>1, <2>13
<1>5. CASE StripeAnswers
    <2>1. CASE list' = [list EXCEPT !.fresh = FALSE]
        <3>1. ~list'.fresh
            BY <1>2, <2>1 DEF ListState
        <3> QED
            BY <1>3, <3>1
    <2>2. CASE UNCHANGED <<docs, writes, list>>
        BY <1>1, <1>3, <2>2 DEF ListInv
    <2> QED
        BY <1>5, <2>1, <2>2 DEF StripeAnswers
<1>6. CASE SaveShown
    <2>1. UNCHANGED <<docs, writes, list>>
        BY <1>6 DEF SaveShown
    <2> QED
        BY <1>1, <1>3, <2>1 DEF ListInv
<1>7. CASE WriteAnswered
    <2> DEFINE w == Head(writes)
    <2> SUFFICES ASSUME list'.fresh PROVE Fits(list', writes', Exists(View'))
        BY <1>3
    <2>1. Done /\ writes # <<>> /\ w \in Write /\ w.row <= Len(list.cards)
          /\ list' = IF w.row = 0 THEN list ELSE DropRow(list, w.row)
        BY <1>1, <1>7, TailTyped DEF WriteAnswered, Done
    <2>2. Tail(writes) \in Seq(Write) /\ Applied(docs', Tail(writes)) = View
        BY <2>1, DoneSteps
    <2>3. Fits(list', Tail(writes), Exists(View))
        <3>1. CASE w.row = 0
            BY <1>1, <2>1, <3>1, FitsAnswered DEF ListInv
        <3>2. CASE w.row # 0
            <4>1. w.row \in 1 .. Len(list.cards) /\ list' = DropRow(list, w.row)
                BY <1>2, <2>1, <3>2 DEF Write
            <4>2. list'.fresh = list.fresh
                <5> HIDE DEF w
                <5> QED
                    BY <1>2, <4>1, DropRowTyped
            <4>3. Fits(list, writes, Exists(View))
                BY <4>2 DEF ListInv
            <4> QED
                BY <1>1, <1>2, <2>1, <3>2, <4>1, <4>3, FitsDropped
        <3> QED
            BY <3>1, <3>2
    <2>4. CASE writes' = Tail(writes)
        BY <1>1, <2>2, <2>3, <2>4
    <2>5. CASE \E u \in Write : u.op = "unset" /\ u.row = 0 /\ writes' = Tail(writes) \o <<u>>
        <3>1. PICK u \in Write : u.op = "unset" /\ u.row = 0 /\ writes' = Tail(writes) \o <<u>>
            BY <2>5
        <3>2. View' = Written(View, u)
            <4>1. Applied(docs', Tail(writes) \o <<u>>) = Written(Applied(docs', Tail(writes)), u)
                BY <2>2, AfterOne
            <4> QED
                BY <1>1, <2>2, <3>1, <4>1
        <3>3. Exists(View') = Exists(View)
            BY <1>1, <3>1, <3>2, WriteEffect
        <3> DEFINE us == <<u>>
        <3>4. us \in Seq(Write) /\ \A i \in 1 .. Len(us) : us[i].row = 0
            BY <3>1
        <3> HIDE DEF us
        <3>5. Fits(list', Tail(writes) \o us, Exists(View))
            BY <2>2, <2>3, <3>4, FitsSent
        <3> QED
            BY <3>1, <3>3, <3>5 DEF us
    <2> QED
        BY <1>7, <2>4, <2>5, AnswerEffect
<1>8. CASE WriteAnsweredTooLate
    <2> DEFINE w == Head(writes)
    <2>1. list' = list /\ writes # <<>> /\ w.row > Len(list.cards)
        BY <1>8 DEF WriteAnsweredTooLate
    <2>2. ~list.fresh
        <3> SUFFICES ASSUME list.fresh PROVE FALSE
            OBVIOUS
        <3>1. w \in Write /\ w = writes[1]
            BY <1>1, <2>1, TailTyped
        <3>2. Len(list.cards) \in Nat /\ w.row \in Nat
            BY <1>2, <3>1 DEF Write
        <3>3. 1 \in Takes(writes)
            <4>1. w.row # 0
                BY <2>1, <3>2
            <4> QED
                BY <1>1, <2>1, <4>1, TakesTail
        <3>4. writes[1].row \in 1 .. Len(list.cards)
            BY <3>3 DEF ListInv, Fits
        <3> QED
            BY <2>1, <3>1, <3>2, <3>4
    <2> QED
        BY <1>3, <2>1, <2>2
<1>9. CASE WriteRejected
    <2>1. ~list'.fresh
        BY <1>2, <1>9 DEF WriteRejected, ListState
    <2> QED
        BY <1>3, <2>1
<1> QED
    BY <1>4, <1>5, <1>6, <1>7, <1>8, <1>9 DEF Answers

LEMMA ListStep ==
    ASSUME ScreenInv, ListInv, [CardsNext]_cardsVars
    PROVE  ListInv'
<1>1. ASSUME ~list'.fresh PROVE ListInv'
    BY <1>1 DEF ListInv
<1>2. CASE Restart
    BY <1>1, <1>2, ClosedTyped DEF Restart
<1>3. CASE Elsewhere
    <2>1. list \in ListState
        BY DEF ScreenInv, TypeOK
    <2>2. ~list'.fresh
        BY <1>3, <2>1 DEF Elsewhere, ListState
    <2> QED
        BY <1>1, <2>2
<1>4. CASE UNCHANGED cardsVars
    BY <1>4 DEF cardsVars, ListInv, Fits, Exists, View, Takes, IdsOf
<1> QED
    BY <1>2, <1>3, <1>4, ListTap, ListAnswer DEF CardsNext

LEMMA ListIs ==
    ASSUME ScreenInv, ListInv
    PROVE  ListIsCollection
<1> SUFFICES ASSUME list.fresh, Removing = {}
             PROVE  /\ list.drawn = IdsOf(list.cards)
                    /\ Len(IdsOf(list.cards)) = Cardinality(Exists(View))
                    /\ \A c \in Exists(View) :
                          \E i \in DOMAIN IdsOf(list.cards) : IdsOf(list.cards)[i] = c
    BY DEF ListIsCollection, IdsOf
<1> DEFINE ids == IdsOf(list.cards)
           n == Len(list.cards)
           e == Exists(View)
<1>1. list.cards \in Seq(Row) /\ n \in Nat
    BY DEF ScreenInv, TypeOK, ListState
<1>2. Fits(list, writes, e) /\ Takes(writes) = {}
    BY DEF ListInv, Takes, Removing
<1>3. /\ DOMAIN ids = 1 .. n /\ Len(ids) = n /\ ids \in Seq(Card)
      /\ \A i \in 1 .. n : ids[i] = list.cards[i].id /\ ids[i] \in Card
    BY <1>1, IdsTyped
<1>4. e \in SUBSET Card
    BY DEF Exists
<1> HIDE DEF ids, n, e
<1>5. /\ \A i, j \in 1 .. n : ids[i] = ids[j] => i = j
      /\ \A c \in Card : (\E i \in 1 .. n : ids[i] = c) <=> c \in e
    BY <1>2, <1>3 DEF Fits, n
<1>6. ids \in Bijection(1 .. n, e)
    <2>1. ids \in [1 .. n -> e]
        <3>1. \A i \in 1 .. n : ids[i] \in e
            BY <1>3, <1>5
        <3>2. ids = [i \in 1 .. n |-> ids[i]]
            BY <1>3
        <3> QED
            BY <3>1, <3>2
    <2> QED
        BY <1>4, <1>5, <2>1 DEF Bijection, Injection, Surjection, IsInjective
<1>7. Cardinality(e) = n
    BY <1>1, <1>6, FS_CountingElements DEF ExistsBijection, n
<1> QED
    BY <1>2, <1>3, <1>4, <1>5, <1>7 DEF Fits, ids, e, n

\* The list shows every card once, in rows that act on the card they show, until
\* something changes that it was not told of
\* (PaymentListViewController.swift, loadCards and removePaymentMethod).
THEOREM ListShowsCollection == CardsSpec => []ListIsCollection
<1>1. CardsInit => ScreenInv /\ ListInv
    BY ScreenStarts, ClosedTyped DEF CardsInit, ListInv
<1>2. ScreenInv /\ ListInv /\ [CardsNext]_cardsVars => (ScreenInv /\ ListInv)'
    BY ScreenStep, ListStep
<1>3. ScreenInv /\ ListInv => ListIsCollection
    BY ListIs
<1> QED
    BY <1>1, <1>2, <1>3, PTL DEF CardsSpec

-----------------------------------------------------------------------------
(* The answer of the form                                                   *)

\* The writes whose callback is that of the form.
Saving(ws) == {i \in DOMAIN ws : ws[i].saves}

\* A call that waits for a write has exactly one on its way, of its own kind, and no
\* other call has any.
Owes(s, ws) ==
    /\ s.pc \in {"none", "stripe", "shown"} => Saving(ws) = {}
    /\ s.pc \in {"create", "unset", "edit"} =>
          \E i \in DOMAIN ws : Saving(ws) = {i} /\ ws[i].op = s.pc

OwedInv ==
    Up => /\ form.button = "loading" /\ ~form.ignored => save.pc # "none" /\ save.here
          /\ Owes(save, writes)

\* Writes without such a callback change nothing.
LEMMA OwesSent ==
    ASSUME NEW ws \in Seq(Write), NEW us \in Seq(Write),
           \A i \in 1 .. Len(us) : ~us[i].saves, NEW s, Owes(s, ws)
    PROVE  Owes(s, ws \o us)
<1>1. DOMAIN ws = 1 .. Len(ws) /\ Len(ws) \in Nat /\ Len(us) \in Nat
    OBVIOUS
<1>2. \A i \in DOMAIN ws : i \in DOMAIN (ws \o us) /\ (ws \o us)[i] = ws[i]
    BY <1>1, SentTyped
<1>3. \A i \in DOMAIN (ws \o us) : i \in DOMAIN ws \/ ~(ws \o us)[i].saves
    <2> TAKE i \in DOMAIN (ws \o us)
    <2>1. i \in 1 .. Len(ws) \/ \E j \in 1 .. Len(us) : i = Len(ws) + j
        BY SentTyped
    <2>2. CASE \E j \in 1 .. Len(us) : i = Len(ws) + j
        <3>1. PICK j \in 1 .. Len(us) : i = Len(ws) + j
            BY <2>2
        <3>2. (ws \o us)[i] = us[j]
            BY <3>1, SentTyped
        <3> QED
            BY <3>2
    <2> QED
        BY <1>1, <2>1, <2>2
<1>4. Saving(ws \o us) = Saving(ws)
    BY <1>2, <1>3 DEF Saving
<1> QED
    BY <1>2, <1>4 DEF Owes

\* The write of the form, when there is none.
LEMMA OwesOne ==
    ASSUME NEW ws \in Seq(Write), NEW w \in Write, w.saves, Saving(ws) = {},
           NEW s, s.pc = w.op, w.op \in {"create", "unset", "edit"}
    PROVE  Owes(s, ws \o <<w>>)
<1> DEFINE us == ws \o <<w>>
           n == Len(ws) + 1
<1>1. <<w>> \in Seq(Write) /\ Len(<<w>>) = 1 /\ Len(ws) \in Nat /\ DOMAIN ws = 1 .. Len(ws)
    OBVIOUS
<1>2. /\ DOMAIN us = 1 .. n
      /\ \A i \in 1 .. Len(ws) : us[i] = ws[i]
      /\ us[n] = w
    <2>1. us[Len(ws) + 1] = <<w>>[1]
        BY <1>1, SentTyped
    <2> QED
        BY <1>1, <2>1, SentTyped
<1>3. \A i \in 1 .. n : i \in 1 .. Len(ws) \/ i = n
    BY <1>1
<1>4. n \in 1 .. n
    BY <1>1
<1> HIDE DEF us, n
<1>5. \A i \in DOMAIN us : us[i].saves <=> i = n
    <2>1. \A i \in 1 .. Len(ws) : ~ws[i].saves
        BY <1>1 DEF Saving
    <2> QED
        BY <1>2, <1>3, <2>1
<1>6. Saving(us) = {n} /\ us[n].op = s.pc /\ n \in DOMAIN us
    BY <1>2, <1>4, <1>5 DEF Saving
<1>7. Owes(s, us)
    BY <1>6 DEF Owes
<1> QED
    BY <1>7 DEF us

\* Another write is answered, or the one of the form, the last one.
LEMMA OwesTail ==
    ASSUME NEW ws \in Seq(Write), ws # <<>>, NEW s \in SaveState, Owes(s, ws)
    PROVE  /\ ~Head(ws).saves => Owes(s, Tail(ws))
           /\ Head(ws).saves => /\ Saving(Tail(ws)) = {}
                                /\ s.pc \in {"create", "unset", "edit"}
                                /\ Head(ws).op = s.pc
<1>1. /\ Tail(ws) \in Seq(Write) /\ Head(ws) = ws[1] /\ 1 \in DOMAIN ws
      /\ DOMAIN ws = 1 .. Len(ws) /\ Len(ws) \in Nat
      /\ DOMAIN Tail(ws) = 1 .. (Len(ws) - 1)
      /\ \A i \in 1 .. (Len(ws) - 1) : Tail(ws)[i] = ws[i + 1] /\ i + 1 \in DOMAIN ws
    BY TailTyped
<1>2. s.pc \in {"none", "stripe", "create", "unset", "edit", "shown"}
    BY DEF SaveState
<1>3. CASE s.pc \in {"none", "stripe", "shown"}
    <2>1. \A i \in DOMAIN ws : ~ws[i].saves
        BY <1>3 DEF Owes, Saving
    <2>2. Saving(Tail(ws)) = {}
        BY <1>1, <2>1 DEF Saving
    <2> QED
        BY <1>1, <1>3, <2>1, <2>2 DEF Owes
<1>4. CASE s.pc \in {"create", "unset", "edit"}
    <2>1. PICK i \in DOMAIN ws : Saving(ws) = {i} /\ ws[i].op = s.pc
        BY <1>4 DEF Owes
    <2>2. \A j \in DOMAIN ws : ws[j].saves <=> j = i
        BY <2>1 DEF Saving
    <2>3. CASE i = 1
        <3>1. Saving(Tail(ws)) = {}
            <4>1. \A j \in 1 .. (Len(ws) - 1) : j + 1 # 1
                OBVIOUS
            <4> QED
                BY <1>1, <2>2, <2>3, <4>1 DEF Saving
        <3> QED
            BY <1>1, <1>4, <2>1, <2>2, <2>3, <3>1
    <2>4. CASE i # 1
        <3>1. i - 1 \in DOMAIN Tail(ws) /\ Tail(ws)[i - 1] = ws[i]
            <4>1. i - 1 \in 1 .. (Len(ws) - 1) /\ (i - 1) + 1 = i
                BY <1>1, <2>4
            <4> QED
                BY <1>1, <4>1
        <3>2. \A j \in DOMAIN Tail(ws) : Tail(ws)[j].saves <=> j = i - 1
            <4> TAKE j \in DOMAIN Tail(ws)
            <4>1. Tail(ws)[j] = ws[j + 1] /\ j + 1 \in DOMAIN ws /\ j \in Nat /\ i \in Nat
                BY <1>1
            <4>2. j + 1 = i <=> j = i - 1
                BY <4>1
            <4> QED
                BY <2>2, <4>1, <4>2
        <3>3. Saving(Tail(ws)) = {i - 1}
            BY <3>1, <3>2 DEF Saving
        <3>4. ~ws[1].saves
            BY <1>1, <2>2, <2>4
        <3> QED
            BY <1>1, <1>4, <2>1, <3>1, <3>3, <3>4 DEF Owes
    <2> QED
        BY <2>3, <2>4
<1> QED
    BY <1>2, <1>3, <1>4

LEMMA OwesForgotten ==
    ASSUME NEW ws \in Seq(Write), NEW s, Owes(s, ws)
    PROVE  Owes(s, Forget(ws))
<1>1. DOMAIN Forget(ws) = DOMAIN ws
    BY DEF Forget
<1>2. \A i \in DOMAIN ws : Forget(ws)[i].saves = ws[i].saves /\ Forget(ws)[i].op = ws[i].op
    <2> TAKE i \in DOMAIN ws
    <2>1. ws[i] \in Write
        OBVIOUS
    <2>2. Forget(ws)[i] = [ws[i] EXCEPT !.row = 0]
        BY DEF Forget
    <2> QED
        BY <2>1, <2>2 DEF Write
<1>3. Saving(Forget(ws)) = Saving(ws)
    BY <1>1, <1>2 DEF Saving
<1> QED
    BY <1>1, <1>2, <1>3 DEF Owes

LEMMA OwedTap ==
    ASSUME ScreenInv, OwedInv, Taps
    PROVE  OwedInv'
<1> SUFFICES ASSUME Up'
             PROVE  (/\ form.button = "loading" /\ ~form.ignored => save.pc # "none" /\ save.here
                     /\ Owes(save, writes))'
    BY DEF OwedInv
<1>0. /\ writes \in Seq(Write) /\ list \in ListState /\ form \in FormState /\ save \in SaveState
      /\ sheet \in [row : Nat, id : Card \cup {NoCard}]
    BY DEF ScreenInv, TypeOK, FormState, SaveState
<1>1. Up
    BY DEF Taps, OpenList, CloseList, TapNoCard, ChooseCard, OpenSheet, CancelSheet, RemoveCard,
           EditCard, AddNewCard, LeaveForm, SaveNoDate, SaveReturns, SaveCard, ListSeen, FormSeen
<1>2. /\ form.button = "loading" /\ ~form.ignored => save.pc # "none" /\ save.here
      /\ Owes(save, writes)
    BY <1>1 DEF OwedInv
<1>3. CASE OpenList \/ OpenSheet \/ CancelSheet
    BY <1>2, <1>3 DEF OpenList, OpenSheet, CancelSheet
<1>4. CASE CloseList
    BY <1>0, <1>2, <1>4, OwesForgotten DEF CloseList
<1>5. CASE TapNoCard \/ SaveNoDate
    BY <1>5 DEF TapNoCard, SaveNoDate, GoDown, Up
<1>6. CASE ChooseCard
    <2>1. list.cards \in Seq(Row)
        BY <1>0 DEF ListState
    <2>2. PICK r \in DOMAIN list.drawn \cap DOMAIN list.cards :
             Send(PrimaryWrites(list.cards[list.selected].id, list.cards[r].id))
        BY <1>6 DEF ChooseCard
    <2> DEFINE us == PrimaryWrites(list.cards[list.selected].id, list.cards[r].id)
    <2>3. list.cards[list.selected].id \in Card /\ list.cards[r].id \in Card
        <3>1. list.cards[list.selected] \in Row /\ list.cards[r] \in Row
            BY <1>6, <2>1 DEF ChooseCard
        <3> QED
            BY <3>1 DEF Row
    <2>4. us \in Seq(Write) /\ \A i \in 1 .. Len(us) : ~us[i].saves
        <3>1. \A c \in Card : /\ WriteOf("unset", c) \in Write /\ ~WriteOf("unset", c).saves
                              /\ WriteOf("set", c) \in Write /\ ~WriteOf("set", c).saves
            BY DEF WriteOf, Write
        <3> QED
            BY <2>3, <3>1 DEF PrimaryWrites
    <2>5. writes' = writes \o us
        BY <2>2 DEF Send
    <2> HIDE DEF us
    <2>6. Owes(save, writes')
        BY <1>0, <1>2, <2>4, <2>5, OwesSent
    <2> QED
        BY <1>2, <1>6, <2>6 DEF ChooseCard
<1>7. CASE RemoveCard
    <2> DEFINE w == [WriteOf("delete", sheet.id) EXCEPT !.row = sheet.row]
    <2>1. sheet.id \in Card /\ sheet.row \in Nat
        BY <1>0, <1>7 DEF RemoveCard, ScreenInv
    <2>2. w \in Write /\ ~w.saves
        BY <2>1 DEF WriteOf, Write
    <2>3. writes' = writes \o <<w>>
        BY <1>7 DEF RemoveCard, Send
    <2> HIDE DEF w
    <2>4. <<w>> \in Seq(Write) /\ \A i \in 1 .. Len(<<w>>) : ~<<w>>[i].saves
        BY <2>2
    <2>5. Owes(save, writes')
        BY <1>0, <1>2, <2>3, <2>4, OwesSent
    <2> QED
        BY <1>2, <1>7, <2>5 DEF RemoveCard
<1>8. CASE EditCard \/ AddNewCard \/ LeaveForm
    <2>1. form'.button = "enabled"
        <3>1. CASE EditCard
            BY <3>1 DEF EditCard, NoForm
        <3>2. CASE AddNewCard
            <4>1. \/ \E first : form' = [NoForm EXCEPT !.kind = "new", !.primaryCard = first]
                  \/ form' = [NoForm EXCEPT !.kind = "new"]
                BY <3>2 DEF AddNewCard
            <4> QED
                BY <4>1 DEF NoForm
        <3>3. CASE LeaveForm
            BY <3>3 DEF LeaveForm, NoForm
        <3> QED
            BY <1>8, <3>1, <3>2, <3>3
    <2>2. writes' = writes /\ save'.pc = save.pc
        BY <1>0, <1>8 DEF EditCard, AddNewCard, LeaveForm, SaveState
    <2> QED
        BY <1>2, <2>1, <2>2 DEF Owes
<1>9. CASE SaveReturns
    <2>1. form'.ignored /\ UNCHANGED <<save, writes>>
        BY <1>0, <1>9 DEF SaveReturns, FormState
    <2> QED
        BY <1>2, <2>1
<1>10. CASE SaveCard
    <2>0. save.pc = "none" /\ Saving(writes) = {}
        BY <1>2, <1>10 DEF SaveCard, NoSave, Owes
    <2>1. CASE form.kind = "edit"
        <3> DEFINE w == [WriteOf("edit", form.id) EXCEPT !.saves = TRUE]
        <3>1. form.id \in Card
            BY <1>0, <2>1 DEF ScreenInv
        <3>2. w \in Write /\ w.saves /\ w.op = "edit"
            BY <3>1 DEF WriteOf, Write
        <3>3. writes' = writes \o <<w>> /\ save'.pc = "edit" /\ save'.here
            BY <1>10, <2>1 DEF SaveCard, Send, NoSave
        <3> HIDE DEF w
        <3>4. Owes(save', writes')
            BY <1>0, <2>0, <3>2, <3>3, OwesOne
        <3> QED
            BY <3>3, <3>4
    <2>2. CASE form.kind # "edit"
        <3>1. save'.pc = "stripe" /\ save'.here /\ writes' = writes
            BY <1>10, <2>2 DEF SaveCard, NoSave
        <3> QED
            BY <2>0, <3>1 DEF Owes
    <2> QED
        BY <2>1, <2>2
<1> QED
    BY <1>3, <1>4, <1>5, <1>6, <1>7, <1>8, <1>9, <1>10 DEF Taps

LEMMA OwedAnswer ==
    ASSUME ScreenInv, OwedInv, Answers
    PROVE  OwedInv'
<1> SUFFICES ASSUME Up'
             PROVE  (/\ form.button = "loading" /\ ~form.ignored => save.pc # "none" /\ save.here
                     /\ Owes(save, writes))'
    BY DEF OwedInv
<1>0. writes \in Seq(Write) /\ form \in FormState /\ save \in SaveState
    BY DEF ScreenInv, TypeOK, FormState, SaveState
<1>1. Up
    BY DEF Answers, LoadAnswer, StripeAnswers, SaveShown, WriteAnswered, WriteAnsweredTooLate,
           WriteRejected, Up
<1>2. /\ form.button = "loading" /\ ~form.ignored => save.pc # "none" /\ save.here
      /\ Owes(save, writes)
    BY <1>1 DEF OwedInv
<1>3. Finish => save'.pc = "none" /\ (form'.button = "enabled" \/ form'.ignored)
    <2>1. CASE Finish /\ save.here
        BY <1>0, <2>1 DEF Finish, NoSave, FormState
    <2>2. CASE Finish /\ ~save.here
        BY <1>0, <1>2, <2>2 DEF Finish, NoSave, FormState
    <2> QED
        BY <2>1, <2>2
<1>4. CASE LoadAnswer
    BY <1>2, <1>4 DEF LoadAnswer
<1>5. CASE StripeAnswers
    <2>0. Saving(writes) = {}
        BY <1>2, <1>5 DEF StripeAnswers, Owes
    <2>1. CASE Finish /\ UNCHANGED writes
        BY <1>3, <2>0, <2>1 DEF Owes
    <2>2. CASE ~(Finish /\ UNCHANGED writes)
        <3>1. PICK c \in New : /\ Send(<<[WriteOf("create", c) EXCEPT !.saves = TRUE]>>)
                               /\ save' = [save EXCEPT !.pc = "create", !.id = c]
                               /\ form' = form
            BY <1>5, <2>2 DEF StripeAnswers
        <3> DEFINE w == [WriteOf("create", c) EXCEPT !.saves = TRUE]
        <3>2. w \in Write /\ w.saves /\ w.op = "create"
            BY CardsType DEF WriteOf, Write
        <3>3. writes' = writes \o <<w>> /\ save'.pc = "create" /\ save'.here = save.here
            BY <1>0, <3>1 DEF Send, SaveState
        <3> HIDE DEF w
        <3>4. Owes(save', writes')
            BY <1>0, <2>0, <3>2, <3>3, OwesOne
        <3>5. save.pc = "stripe"
            BY <1>5 DEF StripeAnswers
        <3> QED
            BY <1>2, <3>1, <3>3, <3>4, <3>5
    <2> QED
        BY <2>1, <2>2
<1>6. CASE SaveShown
    <2>1. Saving(writes) = {} /\ writes' = writes
        BY <1>2, <1>6 DEF SaveShown, Owes
    <2> QED
        BY <1>3, <1>6, <2>1 DEF SaveShown, Owes
<1>7. CASE WriteAnswered
    <2> DEFINE w == Head(writes)
    <2>0. writes # <<>> /\ writes' = Tail(writes) \o UnsetOld
        BY <1>7 DEF WriteAnswered
    <2>1. Tail(writes) \in Seq(Write)
        BY <1>0, <2>0, TailTyped
    <2>2. UnsetOld = <<>> => writes' = Tail(writes)
        BY <2>0, <2>1
    <2>3. CASE ~w.saves
        <3>1. UNCHANGED <<save, form>>
            BY <1>7, <2>3 DEF WriteAnswered
        <3>2. writes' = Tail(writes)
            BY <2>2, <3>1 DEF UnsetOld
        <3>3. Owes(save, Tail(writes))
            BY <1>0, <1>2, <2>0, <2>3, OwesTail
        <3> QED
            BY <1>2, <3>1, <3>2, <3>3
    <2>4. CASE w.saves
        <3>1. /\ Saving(Tail(writes)) = {} /\ w.op = save.pc
              /\ save.pc \in {"create", "unset", "edit"}
            BY <1>0, <1>2, <2>0, <2>4, OwesTail
        <3>2. Saved(w)
            BY <1>7, <2>4 DEF WriteAnswered
        <3>3. CASE w.op = "create" /\ save.primaryCard # NoCard
            <4> DEFINE u == [WriteOf("unset", save.primaryCard) EXCEPT !.saves = TRUE]
            <4>1. save'.pc = "unset" /\ save'.here = save.here /\ form' = form
                BY <1>0, <3>2, <3>3 DEF Saved, SaveState
            <4>2. UnsetOld = <<u>>
                BY <3>1, <3>3, <4>1 DEF UnsetOld
            <4>3. u \in Write /\ u.saves /\ u.op = "unset"
                BY <1>0, <3>3 DEF WriteOf, Write, SaveState
            <4> HIDE DEF u
            <4>4. Owes(save', writes')
                BY <2>0, <2>1, <3>1, <4>1, <4>2, <4>3, OwesOne
            <4> QED
                BY <1>2, <3>1, <4>1, <4>4
        <3>4. CASE ~(w.op = "create" /\ save.primaryCard # NoCard)
            <4>1. \/ save'.pc = "none" /\ (form'.button = "enabled" \/ form'.ignored)
                  \/ save'.pc = "shown" /\ save'.here = save.here /\ form' = form
                BY <1>0, <1>3, <3>2, <3>4 DEF Saved, SaveState
            <4>2. writes' = Tail(writes)
                BY <2>2, <4>1 DEF UnsetOld
            <4> QED
                BY <1>2, <3>1, <4>1, <4>2 DEF Owes
        <3> QED
            BY <3>3, <3>4
    <2> QED
        BY <2>3, <2>4
<1>8. CASE WriteAnsweredTooLate
    BY <1>8 DEF WriteAnsweredTooLate, Up
<1>9. CASE WriteRejected
    <2>0. writes # <<>> /\ writes' = Tail(writes)
        BY <1>9 DEF WriteRejected
    <2>1. CASE ~Head(writes).saves
        <3>1. UNCHANGED <<save, form>>
            BY <1>9, <2>1 DEF WriteRejected
        <3>2. Owes(save, Tail(writes))
            BY <1>0, <1>2, <2>0, <2>1, OwesTail
        <3> QED
            BY <1>2, <2>0, <3>1, <3>2
    <2>2. CASE Head(writes).saves
        <3>1. Finish
            BY <1>9, <2>2 DEF WriteRejected
        <3>2. Saving(Tail(writes)) = {}
            BY <1>0, <1>2, <2>0, <2>2, OwesTail
        <3> QED
            BY <1>3, <2>0, <3>1, <3>2 DEF Owes
    <2> QED
        BY <2>1, <2>2
<1> QED
    BY <1>4, <1>5, <1>6, <1>7, <1>8, <1>9 DEF Answers

LEMMA OwedStep ==
    ASSUME ScreenInv, OwedInv, [CardsNext]_cardsVars
    PROVE  OwedInv'
<1>1. CASE Taps
    BY <1>1, OwedTap
<1>2. CASE Answers
    BY <1>2, OwedAnswer
<1>3. CASE Restart
    <2>1. save'.pc = "none" /\ form'.button = "enabled"
        BY <1>3 DEF Restart, NoSave, NoForm
    <2>2. Saving(writes') = {}
        <3>1. writes \in Seq(Write) /\ writes' = Kept
            BY <1>3 DEF Restart, ScreenInv, TypeOK
        <3>2. DOMAIN writes' = DOMAIN writes
            BY <3>1 DEF Kept
        <3>3. ASSUME NEW i \in DOMAIN writes PROVE ~writes'[i].saves
            <4>1. writes[i] \in Write
                BY <3>1
            <4>2. writes'[i] = [writes[i] EXCEPT !.row = 0, !.saves = FALSE]
                BY <3>1 DEF Kept
            <4> QED
                BY <4>1, <4>2 DEF Write
        <3> QED
            BY <3>2, <3>3 DEF Saving
    <2> QED
        BY <2>1, <2>2 DEF OwedInv, Owes
<1>4. CASE Elsewhere \/ UNCHANGED cardsVars
    BY <1>4 DEF Elsewhere, cardsVars, OwedInv, Up
<1> QED
    BY <1>1, <1>2, <1>3, <1>4 DEF CardsNext

LEMMA OwedIs ==
    ASSUME ScreenInv, OwedInv
    PROVE  SaveIsOwed
<1> SUFFICES ASSUME Up, form.button = "loading", ~form.ignored
             PROVE  Cardinality(Saving(writes)) = IF save.pc \in {"stripe", "shown"} THEN 0 ELSE 1
    BY DEF SaveIsOwed, Saving
<1>1. save.pc \in {"none", "stripe", "create", "unset", "edit", "shown"}
    BY DEF ScreenInv, TypeOK
<1>2. save.pc # "none" /\ Owes(save, writes)
    BY DEF OwedInv
<1>3. CASE save.pc \in {"stripe", "shown"}
    BY <1>2, <1>3, FS_EmptySet DEF Owes
<1>4. CASE save.pc \in {"create", "unset", "edit"}
    <2>1. PICK i : Saving(writes) = {i}
        BY <1>2, <1>4 DEF Owes
    <2> QED
        BY <1>4, <2>1, FS_Singleton
<1> QED
    BY <1>1, <1>2, <1>3, <1>4

\* The button of the form never waits for an answer that nobody owes it, and no answer
\* comes twice (PaymentViewController.swift, addPaymentMethod): all that is left to
\* fairness for "Save" to come back.
THEOREM SaveAlwaysOwed == CardsSpec => []SaveIsOwed
<1>1. CardsInit => ScreenInv /\ OwedInv
    <2>1. ASSUME CardsInit PROVE form.button = "enabled" /\ save.pc = "none" /\ writes = <<>>
        BY <2>1 DEF CardsInit, NoForm, NoSave
    <2>2. ASSUME CardsInit PROVE Saving(writes) = {}
        BY <2>1, <2>2 DEF Saving
    <2> QED
        BY <2>1, <2>2, ScreenStarts DEF OwedInv, Owes
<1>2. ScreenInv /\ OwedInv /\ [CardsNext]_cardsVars => (ScreenInv /\ OwedInv)'
    BY ScreenStep, OwedStep
<1>3. ScreenInv /\ OwedInv => SaveIsOwed
    BY OwedIs
<1> QED
    BY <1>1, <1>2, <1>3, PTL DEF CardsSpec
=============================================================================

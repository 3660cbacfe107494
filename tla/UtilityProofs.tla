----------------------------- MODULE UtilityProofs -----------------------------
(***************************************************************************)
(* Proofs about the parts that stand on their own: the merging of values   *)
(* and the retry loop.                                                     *)
(***************************************************************************)
EXTENDS Strimaps, ReconcileRetry, TLAPS, WellFoundedInduction

\* Induction without an operator for the induction hypothesis: a set that holds zero, and with every
\* number its successor, holds all numbers.
LEMMA NaturalsReached ==
    ASSUME NEW T, 0 \in T, \A n \in Nat : n \in T => n + 1 \in T
    PROVE  \A n \in Nat : n \in T
<1> SUFFICES ASSUME NEW U, U = Nat \ T, U # {} PROVE FALSE
    OBVIOUS
<1>1. PICK n \in U : \A m \in U : ~(<<m, n>> \in OpToRel(<, Nat))
    BY NatLessThanWellFounded, WFMin
<1>2. \A m \in U : ~(m < n)
    BY <1>1 DEF OpToRel
<1>3. n # 0 /\ n - 1 \in Nat /\ n - 1 < n
    OBVIOUS
<1>4. n - 1 \in T
    BY <1>2, <1>3
<1>5. (n - 1) + 1 \in T
    BY <1>3, <1>4
<1> QED BY <1>5

-----------------------------------------------------------------------------
(* The maps of every depth.  A recursive function is first shown to exist  *)
(* for every depth, which its definition alone does not say.               *)

AllLeaves == StrimapLeaves \cup LaterLeaves

Nesting(leaves, n, g) == g = [d \in 0 .. n |-> IF d = 0 THEN {} ELSE Maps(Leaves(leaves) \cup g[d - 1])]

LEMMA NestingExists ==
    ASSUME NEW leaves
    PROVE  \A n \in Nat : \E g : Nesting(leaves, n, g)
<1> DEFINE T == {n \in Nat : \E g : Nesting(leaves, n, g)}
<1>1. 0 \in T
  <2> DEFINE g == [d \in 0 .. 0 |-> {}]
  <2>1. Nesting(leaves, 0, g)
      BY DEF Nesting
  <2> QED BY <2>1
<1>2. ASSUME NEW n \in Nat, n \in T PROVE n + 1 \in T
  <2>1. PICK g : Nesting(leaves, n, g)
      BY <1>2
  <2> DEFINE last == Maps(Leaves(leaves) \cup g[n])
             h == [d \in 0 .. n + 1 |-> IF d = n + 1 THEN last ELSE g[d]]
  <2>2. \A d \in 0 .. n : g[d] = IF d = 0 THEN {} ELSE Maps(Leaves(leaves) \cup g[d - 1])
      BY <2>1 DEF Nesting
  <2>3. (\A d \in 0 .. n : h[d] = g[d]) /\ h[n + 1] = last
      OBVIOUS
  <2>4. ASSUME NEW d \in 0 .. n + 1
        PROVE  h[d] = IF d = 0 THEN {} ELSE Maps(Leaves(leaves) \cup h[d - 1])
    <3>1. \/ d \in 0 .. n /\ (d # 0 => d - 1 \in 0 .. n)
          \/ d = n + 1 /\ d # 0 /\ d - 1 = n /\ n \in 0 .. n
        OBVIOUS
    <3> HIDE DEF h
    <3> QED BY <2>2, <2>3, <3>1 DEF last
  <2>5. h = [d \in 0 .. n + 1 |-> h[d]]
      OBVIOUS
  <2> HIDE DEF h
  <2>6. Nesting(leaves, n + 1, h)
      BY <2>4, <2>5 DEF Nesting
  <2> QED BY <2>6
<1> HIDE DEF T
<1>3. \A n \in Nat : n \in T
    BY <1>1, <1>2, NaturalsReached
<1> QED BY <1>3 DEF T

\* The maps of at most this depth.
Levels(leaves) == CHOOSE g : Nesting(leaves, StrimapDepth, g)
Level(d) == Levels(AllLeaves)[d]

LEMMA LevelsAre ==
    ASSUME NEW leaves
    PROVE  /\ Levels(leaves)[0] = {}
           /\ \A n \in 0 .. StrimapDepth - 1 :
                 Levels(leaves)[n + 1] = Maps(Leaves(leaves) \cup Levels(leaves)[n])
           /\ MapsOf(leaves, StrimapDepth) = Levels(leaves)[StrimapDepth]
<1>1. Nesting(leaves, StrimapDepth, Levels(leaves))
    BY NestingExists, StrimapAssumption DEF Levels
<1>2. \A d \in 0 .. StrimapDepth :
          Levels(leaves)[d] = IF d = 0 THEN {} ELSE Maps(Leaves(leaves) \cup Levels(leaves)[d - 1])
    BY <1>1 DEF Nesting
<1>3. 0 \in 0 .. StrimapDepth
    BY StrimapAssumption
<1>4. ASSUME NEW n \in 0 .. StrimapDepth - 1
      PROVE  n + 1 \in 0 .. StrimapDepth /\ n + 1 # 0 /\ (n + 1) - 1 = n
    BY StrimapAssumption
<1>5. MapsOf(leaves, StrimapDepth) = Levels(leaves)[StrimapDepth]
    BY DEF MapsOf, Levels, Nesting
<1> QED BY <1>2, <1>3, <1>4, <1>5

LEMMA MapsMonotone ==
    ASSUME NEW S, NEW T, S \subseteq T
    PROVE  Maps(S) \subseteq Maps(T)
<1> SUFFICES ASSUME NEW f, NEW keys \in SUBSET StrimapKeys, f \in [keys -> S]
             PROVE  f \in UNION {[ks -> T] : ks \in SUBSET StrimapKeys}
    BY DEF Maps
<1>1. f \in [keys -> T]
    OBVIOUS
<1> QED BY <1>1

LEMMA LevelBelow ==
    ASSUME NEW n \in 0 .. StrimapDepth - 1
    PROVE  Level(n) \subseteq Level(n + 1)
<1> USE StrimapAssumption
<1> DEFINE T == {m \in Nat : m < StrimapDepth => Level(m) \subseteq Level(m + 1)}
<1>1. 0 \in T
    BY LevelsAre DEF Level
<1>2. ASSUME NEW m \in Nat, m \in T PROVE m + 1 \in T
  <2> SUFFICES ASSUME m + 1 < StrimapDepth PROVE Level(m + 1) \subseteq Level((m + 1) + 1)
      OBVIOUS
  <2>1. m \in 0 .. StrimapDepth - 1 /\ m + 1 \in 0 .. StrimapDepth - 1
      OBVIOUS
  <2>2. Level(m + 1) = Maps(Leaves(AllLeaves) \cup Level(m))
      BY <2>1, LevelsAre DEF Level
  <2>3. Level((m + 1) + 1) = Maps(Leaves(AllLeaves) \cup Level(m + 1))
      BY <2>1, LevelsAre DEF Level
  <2>4. Leaves(AllLeaves) \cup Level(m) \subseteq Leaves(AllLeaves) \cup Level(m + 1)
      BY <1>2
  <2> QED BY <2>2, <2>3, <2>4, MapsMonotone
<1>3. \A m \in Nat : m \in T
  <2> HIDE DEF T
  <2> QED BY <1>1, <1>2, NaturalsReached
<1> QED BY <1>3

\* Deeper maps include the less deep ones.
LEMMA LevelsGrow ==
    ASSUME NEW n \in 0 .. StrimapDepth
    PROVE  Level(n) \subseteq NestedMaps
<1> USE StrimapAssumption
<1> DEFINE U == {k \in Nat : n + k <= StrimapDepth => Level(n) \subseteq Level(n + k)}
<1>1. 0 \in U
  <2>1. n + 0 = n
      OBVIOUS
  <2> QED BY <2>1
<1>2. ASSUME NEW k \in Nat, k \in U PROVE k + 1 \in U
  <2> SUFFICES ASSUME n + (k + 1) <= StrimapDepth PROVE Level(n) \subseteq Level(n + (k + 1))
      OBVIOUS
  <2>1. n + k \in Nat /\ n + k \in 0 .. StrimapDepth - 1 /\ (n + k) + 1 = n + (k + 1)
      OBVIOUS
  <2>2. Level(n + k) \subseteq Level((n + k) + 1)
      BY <2>1, LevelBelow
  <2>3. Level(n) \subseteq Level(n + k)
      BY <1>2, <2>1
  <2> QED BY <2>1, <2>2, <2>3
<1>3. \A k \in Nat : k \in U
  <2> HIDE DEF U
  <2> QED BY <1>1, <1>2, NaturalsReached
<1>4. StrimapDepth - n \in Nat /\ n + (StrimapDepth - n) = StrimapDepth
    OBVIOUS
<1>5. StrimapDepth - n \in U
    BY <1>3, <1>4
<1>6. Level(n) \subseteq Level(StrimapDepth)
    BY <1>4, <1>5
<1>7. NestedMaps = Level(StrimapDepth)
    BY LevelsAre DEF NestedMaps, Level, AllLeaves
<1> QED BY <1>6, <1>7

\* The maps to merge are among all maps.
LEMMA FewerLeaves ==
    ASSUME NEW leaves, leaves \subseteq AllLeaves
    PROVE  MapsOf(leaves, StrimapDepth) \subseteq NestedMaps
<1> USE StrimapAssumption
<1> DEFINE T == {m \in Nat : m <= StrimapDepth => Levels(leaves)[m] \subseteq Level(m)}
<1>1. 0 \in T
    BY LevelsAre
<1>2. ASSUME NEW m \in Nat, m \in T PROVE m + 1 \in T
  <2> SUFFICES ASSUME m + 1 <= StrimapDepth PROVE Levels(leaves)[m + 1] \subseteq Level(m + 1)
      OBVIOUS
  <2>1. m \in 0 .. StrimapDepth - 1
      OBVIOUS
  <2>2. Levels(leaves)[m + 1] = Maps(Leaves(leaves) \cup Levels(leaves)[m])
      BY <2>1, LevelsAre
  <2>3. Level(m + 1) = Maps(Leaves(AllLeaves) \cup Level(m))
      BY <2>1, LevelsAre DEF Level
  <2>4. Levels(leaves)[m] \subseteq Level(m)
      BY <1>2, <2>1
  <2>5. Leaves(leaves) \subseteq Leaves(AllLeaves)
      BY DEF Leaves
  <2>6. Leaves(leaves) \cup Levels(leaves)[m] \subseteq Leaves(AllLeaves) \cup Level(m)
      BY <2>4, <2>5
  <2> HIDE DEF T
  <2> QED BY <2>2, <2>3, <2>6, MapsMonotone
<1>3. \A m \in Nat : m \in T
  <2> HIDE DEF T
  <2> QED BY <1>1, <1>2, NaturalsReached
<1>4. Levels(leaves)[StrimapDepth] \subseteq Level(StrimapDepth)
    BY <1>3
<1>5. MapsOf(leaves, StrimapDepth) = Levels(leaves)[StrimapDepth]
    BY LevelsAre
<1>6. NestedMaps = Level(StrimapDepth)
    BY LevelsAre DEF NestedMaps, Level, AllLeaves
<1> QED BY <1>4, <1>5, <1>6

\* What a map is made of.
LEMMA MapsAre ==
    ASSUME NEW n \in 0 .. StrimapDepth - 1, NEW m \in Level(n + 1)
    PROVE  /\ m = Map(m.at) /\ m.map = TRUE
           /\ DOMAIN m.at \subseteq StrimapKeys /\ m.at = [k \in DOMAIN m.at |-> m.at[k]]
           /\ \A k \in DOMAIN m.at : m.at[k] \in Leaves(AllLeaves) \/ m.at[k] \in Level(n)
<1>1. m \in Maps(Leaves(AllLeaves) \cup Level(n))
    BY LevelsAre DEF Level
<1>2. /\ m \in [map : {TRUE}, value : {AMap},
                at : UNION {[keys -> Leaves(AllLeaves) \cup Level(n)] : keys \in SUBSET StrimapKeys}]
    BY <1>1 DEF Maps
<1>3. PICK keys \in SUBSET StrimapKeys : m.at \in [keys -> Leaves(AllLeaves) \cup Level(n)]
    BY <1>2
<1>4. m = Map(m.at) /\ m.map = TRUE
    BY <1>2 DEF Map
<1> QED BY <1>3, <1>4

-----------------------------------------------------------------------------
(* The recursive functions exist, and are what their definitions say.      *)

\* One call of MergeMaps, Paths and Getin, with another function for the calls it makes.
MergeStep(g, x) ==
    [y \in NestedMaps |->
        Map([k \in DOMAIN x.at \cup DOMAIN y.at |->
                IF k \notin DOMAIN y.at THEN x.at[k]
                ELSE IF k \notin DOMAIN x.at THEN y.at[k]
                ELSE Merged(x.at[k], y.at[k], g[x.at[k]][y.at[k]])])]
PathsStep(g, m) ==
    {<<<<>>, AMap>>} \cup
    UNION {IF m.at[k].map THEN {<<<<k>> \o p[1], p[2]>> : p \in g[m.at[k]]}
           ELSE {<<<<k>>, m.at[k].value>>} : k \in DOMAIN m.at}
GetinStep(g, m) ==
    [path \in Seq(StrimapKeys) |->
        IF path = <<>> \/ Head(path) \notin DOMAIN m.at \/ ~m.at[Head(path)].map THEN Nowhere
        ELSE IF Len(path) = 1 THEN m.at[Head(path)] ELSE g[m.at[Head(path)]][Tail(path)]]

Merging(S, g) == g = [m \in S |-> MergeStep(g, m)]
PathsFrom(S, g) == g = [m \in S |-> PathsStep(g, m)]
Getting(S, g) == g = [m \in S |-> GetinStep(g, m)]

\* A submap is either a leaf or of the depth below.
LEMMA SubmapBelow ==
    ASSUME NEW n \in 0 .. StrimapDepth - 1, NEW m \in Level(n + 1), NEW k \in DOMAIN m.at
    PROVE  \/ m.at[k].map = TRUE /\ m.at[k].value = AMap /\ m.at[k] \in Level(n)
           \/ m.at[k].map = FALSE /\ m.at[k].value \in AllLeaves
<1>1. CASE m.at[k] \in Leaves(AllLeaves)
    BY <1>1 DEF Leaves
<1>2. CASE m.at[k] \in Level(n)
  <2>1. n # 0
      BY <1>2, LevelsAre DEF Level
  <2>2. n - 1 \in 0 .. StrimapDepth - 1 /\ (n - 1) + 1 = n
      BY <2>1, StrimapAssumption
  <2>3. m.at[k] \in Level((n - 1) + 1)
      BY <1>2, <2>2
  <2>4. m.at[k] = Map(m.at[k].at) /\ m.at[k].map = TRUE
      BY <2>2, <2>3, MapsAre
  <2> QED BY <1>2, <2>4 DEF Map
<1> QED BY <1>1, <1>2, MapsAre

\* Of the other function only the answers for submaps count.
LEMMA MergeLocal ==
    ASSUME NEW n \in 0 .. StrimapDepth - 1, NEW g, NEW h, \A m \in Level(n) : h[m] = g[m],
           NEW m \in Level(n + 1)
    PROVE  MergeStep(h, m) = MergeStep(g, m)
<1>1. ASSUME NEW y \in NestedMaps, NEW k \in DOMAIN m.at
      PROVE  Merged(m.at[k], y.at[k], h[m.at[k]][y.at[k]]) = Merged(m.at[k], y.at[k], g[m.at[k]][y.at[k]])
    BY SubmapBelow DEF Merged
<1> QED BY <1>1 DEF MergeStep

LEMMA PathsLocal ==
    ASSUME NEW n \in 0 .. StrimapDepth - 1, NEW g, NEW h, \A m \in Level(n) : h[m] = g[m],
           NEW m \in Level(n + 1)
    PROVE  PathsStep(h, m) = PathsStep(g, m)
<1> DEFINE Under(f, k) == IF m.at[k].map THEN {<<<<k>> \o p[1], p[2]>> : p \in f[m.at[k]]}
                          ELSE {<<<<k>>, m.at[k].value>>}
<1>1. \A k \in DOMAIN m.at : Under(h, k) = Under(g, k)
    BY SubmapBelow
<1>2. UNION {Under(h, k) : k \in DOMAIN m.at} = UNION {Under(g, k) : k \in DOMAIN m.at}
  <2> HIDE DEF Under
  <2> QED BY <1>1
<1> QED BY <1>2 DEF PathsStep

LEMMA GetinLocal ==
    ASSUME NEW n \in 0 .. StrimapDepth - 1, NEW g, NEW h, \A m \in Level(n) : h[m] = g[m],
           NEW m \in Level(n + 1)
    PROVE  GetinStep(h, m) = GetinStep(g, m)
<1>1. \A k \in DOMAIN m.at : m.at[k].map => h[m.at[k]] = g[m.at[k]]
    BY SubmapBelow
<1> QED BY <1>1 DEF GetinStep

\* MergeMaps.
LEMMA MergeExists ==
    \A n \in Nat : n <= StrimapDepth => \E g : Merging(Level(n), g)
<1> USE StrimapAssumption
<1> DEFINE T == {n \in Nat : n <= StrimapDepth => \E g : Merging(Level(n), g)}
<1>1. 0 \in T
  <2> DEFINE g == [m \in {} |-> MergeStep({}, m)]
  <2>1. Level(0) = {}
      BY LevelsAre DEF Level
  <2>2. Merging(Level(0), g)
      BY <2>1 DEF Merging
  <2> QED BY <2>2
<1>2. ASSUME NEW n \in Nat, n \in T PROVE n + 1 \in T
  <2> SUFFICES ASSUME n + 1 <= StrimapDepth PROVE \E g : Merging(Level(n + 1), g)
      OBVIOUS
  <2>1. n \in 0 .. StrimapDepth - 1 /\ n <= StrimapDepth
      OBVIOUS
  <2>2. PICK g : Merging(Level(n), g)
      BY <1>2, <2>1
  <2> DEFINE h == [m \in Level(n + 1) |-> MergeStep(g, m)]
  <2>3. \A m \in Level(n) : m \in Level(n + 1) /\ h[m] = g[m]
    <3>1. Level(n) \subseteq Level(n + 1)
        BY <2>1, LevelBelow
    <3> QED BY <2>2, <3>1 DEF Merging
  <2>4. ASSUME NEW m \in Level(n + 1) PROVE MergeStep(h, m) = MergeStep(g, m)
    <3> HIDE DEF h
    <3> QED BY <2>1, <2>3, MergeLocal
  <2>5. Merging(Level(n + 1), h)
      BY <2>4 DEF Merging
  <2> QED BY <2>5
<1>3. \A n \in Nat : n \in T
  <2> HIDE DEF T
  <2> QED BY <1>1, <1>2, NaturalsReached
<1> QED BY <1>3

LEMMA MergeIs ==
    \A m \in NestedMaps : MergeMaps[m] = MergeStep(MergeMaps, m)
<1>1. StrimapDepth \in Nat /\ StrimapDepth <= StrimapDepth
    BY StrimapAssumption
<1>2. NestedMaps = Level(StrimapDepth)
    BY LevelsAre DEF NestedMaps, Level, AllLeaves
<1>3. \E g : Merging(NestedMaps, g)
    BY <1>1, <1>2, MergeExists
<1>4. MergeMaps = CHOOSE g : Merging(NestedMaps, g)
    BY DEF MergeMaps, Merging, MergeStep
<1>5. Merging(NestedMaps, MergeMaps)
    BY <1>3, <1>4
<1> QED BY <1>5 DEF Merging

\* Paths.
LEMMA PathsExists ==
    \A n \in Nat : n <= StrimapDepth => \E g : PathsFrom(Level(n), g)
<1> USE StrimapAssumption
<1> DEFINE T == {n \in Nat : n <= StrimapDepth => \E g : PathsFrom(Level(n), g)}
<1>1. 0 \in T
  <2> DEFINE g == [m \in {} |-> PathsStep({}, m)]
  <2>1. Level(0) = {}
      BY LevelsAre DEF Level
  <2>2. PathsFrom(Level(0), g)
      BY <2>1 DEF PathsFrom
  <2> QED BY <2>2
<1>2. ASSUME NEW n \in Nat, n \in T PROVE n + 1 \in T
  <2> SUFFICES ASSUME n + 1 <= StrimapDepth PROVE \E g : PathsFrom(Level(n + 1), g)
      OBVIOUS
  <2>1. n \in 0 .. StrimapDepth - 1 /\ n <= StrimapDepth
      OBVIOUS
  <2>2. PICK g : PathsFrom(Level(n), g)
      BY <1>2, <2>1
  <2> DEFINE h == [m \in Level(n + 1) |-> PathsStep(g, m)]
  <2>3. \A m \in Level(n) : m \in Level(n + 1) /\ h[m] = g[m]
    <3>1. Level(n) \subseteq Level(n + 1)
        BY <2>1, LevelBelow
    <3> QED BY <2>2, <3>1 DEF PathsFrom
  <2>4. ASSUME NEW m \in Level(n + 1) PROVE PathsStep(h, m) = PathsStep(g, m)
    <3> HIDE DEF h
    <3> QED BY <2>1, <2>3, PathsLocal
  <2>5. PathsFrom(Level(n + 1), h)
      BY <2>4 DEF PathsFrom
  <2> QED BY <2>5
<1>3. \A n \in Nat : n \in T
  <2> HIDE DEF T
  <2> QED BY <1>1, <1>2, NaturalsReached
<1> QED BY <1>3

LEMMA PathsIs ==
    \A m \in NestedMaps : Paths[m] = PathsStep(Paths, m)
<1>1. StrimapDepth \in Nat /\ StrimapDepth <= StrimapDepth
    BY StrimapAssumption
<1>2. NestedMaps = Level(StrimapDepth)
    BY LevelsAre DEF NestedMaps, Level, AllLeaves
<1>3. \E g : PathsFrom(NestedMaps, g)
    BY <1>1, <1>2, PathsExists
<1>4. Paths = CHOOSE g : PathsFrom(NestedMaps, g)
    BY DEF Paths, PathsFrom, PathsStep
<1>5. PathsFrom(NestedMaps, Paths)
    BY <1>3, <1>4
<1> QED BY <1>5 DEF PathsFrom

\* Getin.
LEMMA GetinExists ==
    \A n \in Nat : n <= StrimapDepth => \E g : Getting(Level(n), g)
<1> USE StrimapAssumption
<1> DEFINE T == {n \in Nat : n <= StrimapDepth => \E g : Getting(Level(n), g)}
<1>1. 0 \in T
  <2> DEFINE g == [m \in {} |-> GetinStep({}, m)]
  <2>1. Level(0) = {}
      BY LevelsAre DEF Level
  <2>2. Getting(Level(0), g)
      BY <2>1 DEF Getting
  <2> QED BY <2>2
<1>2. ASSUME NEW n \in Nat, n \in T PROVE n + 1 \in T
  <2> SUFFICES ASSUME n + 1 <= StrimapDepth PROVE \E g : Getting(Level(n + 1), g)
      OBVIOUS
  <2>1. n \in 0 .. StrimapDepth - 1 /\ n <= StrimapDepth
      OBVIOUS
  <2>2. PICK g : Getting(Level(n), g)
      BY <1>2, <2>1
  <2> DEFINE h == [m \in Level(n + 1) |-> GetinStep(g, m)]
  <2>3. \A m \in Level(n) : m \in Level(n + 1) /\ h[m] = g[m]
    <3>1. Level(n) \subseteq Level(n + 1)
        BY <2>1, LevelBelow
    <3> QED BY <2>2, <3>1 DEF Getting
  <2>4. ASSUME NEW m \in Level(n + 1) PROVE GetinStep(h, m) = GetinStep(g, m)
    <3> HIDE DEF h
    <3> QED BY <2>1, <2>3, GetinLocal
  <2>5. Getting(Level(n + 1), h)
      BY <2>4 DEF Getting
  <2> QED BY <2>5
<1>3. \A n \in Nat : n \in T
  <2> HIDE DEF T
  <2> QED BY <1>1, <1>2, NaturalsReached
<1> QED BY <1>3

LEMMA GetinIs ==
    \A m \in NestedMaps : Getin[m] = GetinStep(Getin, m)
<1>1. StrimapDepth \in Nat /\ StrimapDepth <= StrimapDepth
    BY StrimapAssumption
<1>2. NestedMaps = Level(StrimapDepth)
    BY LevelsAre DEF NestedMaps, Level, AllLeaves
<1>3. \E g : Getting(NestedMaps, g)
    BY <1>1, <1>2, GetinExists
<1>4. Getin = CHOOSE g : Getting(NestedMaps, g)
    BY DEF Getin, Getting, GetinStep
<1>5. Getting(NestedMaps, Getin)
    BY <1>3, <1>4
<1> QED BY <1>5 DEF Getting

-----------------------------------------------------------------------------
(* Paths: a path into a map is empty, or a key and a path into what is     *)
(* there.                                                                  *)

LEMMA KeyFirst ==
    ASSUME NEW S, NEW k \in S, NEW q \in Seq(S)
    PROVE  /\ <<k>> \o q \in Seq(S) /\ <<k>> \o q # <<>>
           /\ Head(<<k>> \o q) = k /\ Tail(<<k>> \o q) = q /\ Len(<<k>> \o q) = Len(q) + 1
<1>1. <<k>> \o q \in Seq(S) /\ Len(<<k>> \o q) = Len(q) + 1
    OBVIOUS
<1>2. (<<k>> \o q)[1] = k /\ \A j \in 1 .. Len(q) : (<<k>> \o q)[j + 1] = q[j]
    OBVIOUS
<1>3. Tail(<<k>> \o q) = q
    BY <1>1, <1>2
<1> QED BY <1>1, <1>2, <1>3

LEMMA KeySplit ==
    ASSUME NEW S, NEW path \in Seq(S), path # <<>>
    PROVE  Head(path) \in S /\ Tail(path) \in Seq(S) /\ path = <<Head(path)>> \o Tail(path)
<1>1. Head(path) \in S /\ Tail(path) \in Seq(S) /\ Len(path) = Len(Tail(path)) + 1
    OBVIOUS
<1>2. \A j \in 1 .. Len(Tail(path)) : Tail(path)[j] = path[j + 1]
    OBVIOUS
<1>3. path = <<Head(path)>> \o Tail(path)
    BY <1>1, <1>2
<1> QED BY <1>1, <1>3

LEMMA PrefixIs ==
    ASSUME NEW S, NEW r \in Seq(S), NEW q \in Seq(S)
    PROVE  IsPrefix(r, q) <=> Len(r) <= Len(q) /\ \A x \in 1 .. Len(r) : r[x] = q[x]
<1> SUFFICES ASSUME Len(r) <= Len(q)
             PROVE  SubSeq(r, 1, Len(r)) = SubSeq(q, 1, Len(r)) <=> \A x \in 1 .. Len(r) : r[x] = q[x]
    BY DEF IsPrefix
<1>1. SubSeq(r, 1, Len(r)) = r
    OBVIOUS
<1>2. SubSeq(q, 1, Len(r)) \in Seq(S) /\ Len(SubSeq(q, 1, Len(r))) = Len(r)
    OBVIOUS
<1>3. \A x \in 1 .. Len(r) : SubSeq(q, 1, Len(r))[x] = q[x]
    OBVIOUS
<1>4. r = SubSeq(q, 1, Len(r)) <=> \A x \in 1 .. Len(r) : r[x] = SubSeq(q, 1, Len(r))[x]
    BY <1>2
<1> QED BY <1>1, <1>3, <1>4

LEMMA EmptyPrefix ==
    ASSUME NEW S, NEW q \in Seq(S)
    PROVE  <<>> \in Seq(S) /\ IsPrefix(<<>>, q)
<1> DEFINE r == <<>>
<1>1. r \in Seq(S) /\ Len(r) = 0 /\ Len(q) \in Nat
    OBVIOUS
<1> HIDE DEF r
<1>2. Len(r) <= Len(q) /\ \A x \in 1 .. Len(r) : r[x] = q[x]
    BY <1>1
<1>3. IsPrefix(r, q)
    BY <1>1, <1>2, PrefixIs
<1> QED BY <1>1, <1>3 DEF r

\* A prefix is empty, or begins with the same key and is a prefix of the rest.
LEMMA PrefixSplit ==
    ASSUME NEW S, NEW k \in S, NEW j \in S, NEW q \in Seq(S), NEW r \in Seq(S)
    PROVE  IsPrefix(<<j>> \o r, <<k>> \o q) <=> j = k /\ IsPrefix(r, q)
<1> DEFINE jr == <<j>> \o r
           kq == <<k>> \o q
<1>1. /\ jr \in Seq(S) /\ Len(jr) = Len(r) + 1 /\ jr[1] = j /\ \A x \in 1 .. Len(r) : jr[x + 1] = r[x]
      /\ kq \in Seq(S) /\ Len(kq) = Len(q) + 1 /\ kq[1] = k /\ \A x \in 1 .. Len(q) : kq[x + 1] = q[x]
    OBVIOUS
<1> HIDE DEF jr, kq
<1>2. IsPrefix(jr, kq) <=> Len(jr) <= Len(kq) /\ \A x \in 1 .. Len(jr) : jr[x] = kq[x]
    BY <1>1, PrefixIs
<1>3. IsPrefix(r, q) <=> Len(r) <= Len(q) /\ \A x \in 1 .. Len(r) : r[x] = q[x]
    BY PrefixIs
<1>4. ASSUME Len(r) <= Len(q)
      PROVE  (\A x \in 1 .. Len(jr) : jr[x] = kq[x]) <=> j = k /\ \A x \in 1 .. Len(r) : r[x] = q[x]
  <2>1. ASSUME \A x \in 1 .. Len(jr) : jr[x] = kq[x]
        PROVE  j = k /\ \A x \in 1 .. Len(r) : r[x] = q[x]
    <3>1. 1 \in 1 .. Len(jr) /\ \A x \in 1 .. Len(r) : x + 1 \in 1 .. Len(jr) /\ x \in 1 .. Len(q)
        BY <1>1, <1>4
    <3> QED BY <1>1, <2>1, <3>1
  <2>2. ASSUME j = k, \A x \in 1 .. Len(r) : r[x] = q[x], NEW x \in 1 .. Len(jr)
        PROVE  jr[x] = kq[x]
    <3>1. CASE x = 1
        BY <1>1, <2>2, <3>1
    <3>2. CASE x # 1
      <4>1. x - 1 \in 1 .. Len(r) /\ x - 1 \in 1 .. Len(q) /\ (x - 1) + 1 = x
          BY <1>1, <1>4, <3>2
      <4>2. jr[(x - 1) + 1] = r[x - 1] /\ kq[(x - 1) + 1] = q[x - 1]
          BY <1>1, <4>1
      <4> QED BY <2>2, <4>1, <4>2
    <3> QED BY <3>1, <3>2
  <2> QED BY <2>1, <2>2
<1>5. Len(jr) <= Len(kq) <=> Len(r) <= Len(q)
    BY <1>1
<1> QED BY <1>2, <1>3, <1>4, <1>5 DEF jr, kq

\* A path is a sequence of keys, and leads to a leaf or to a map.
Routes == Seq(StrimapKeys) \X (AllLeaves \cup {AMap})

LEMMA PathsUnfold ==
    ASSUME NEW m \in NestedMaps, NEW p
    PROVE  p \in Paths[m] <=>
               \/ p = <<<<>>, AMap>>
               \/ \E k \in DOMAIN m.at : m.at[k].map /\ \E q \in Paths[m.at[k]] : p = <<<<k>> \o q[1], q[2]>>
               \/ \E k \in DOMAIN m.at : ~m.at[k].map /\ p = <<<<k>>, m.at[k].value>>
<1> DEFINE Under(k) == IF m.at[k].map THEN {<<<<k>> \o q[1], q[2]>> : q \in Paths[m.at[k]]}
                       ELSE {<<<<k>>, m.at[k].value>>}
<1>1. Paths[m] = {<<<<>>, AMap>>} \cup UNION {Under(k) : k \in DOMAIN m.at}
    BY PathsIs DEF PathsStep
<1>2. p \in UNION {Under(k) : k \in DOMAIN m.at} <=> \E k \in DOMAIN m.at : p \in Under(k)
  <2> HIDE DEF Under
  <2> QED OBVIOUS
<1>3. \A k \in DOMAIN m.at :
          p \in Under(k) <=>
              \/ m.at[k].map /\ \E q \in Paths[m.at[k]] : p = <<<<k>> \o q[1], q[2]>>
              \/ ~m.at[k].map /\ p = <<<<k>>, m.at[k].value>>
    OBVIOUS
<1>4. p \in Paths[m] <=> p = <<<<>>, AMap>> \/ \E k \in DOMAIN m.at : p \in Under(k)
  <2> HIDE DEF Under
  <2> QED BY <1>1, <1>2
<1> HIDE DEF Under
<1> QED BY <1>3, <1>4

LEMMA PathsTyped ==
    \A n \in Nat : n <= StrimapDepth => \A m \in Level(n) : Paths[m] \subseteq Routes
<1> USE StrimapAssumption
<1> DEFINE T == {n \in Nat : n <= StrimapDepth => \A m \in Level(n) : Paths[m] \subseteq Routes}
<1>1. 0 \in T
    BY LevelsAre DEF Level
<1>2. ASSUME NEW n \in Nat, n \in T PROVE n + 1 \in T
  <2> SUFFICES ASSUME n + 1 <= StrimapDepth, NEW m \in Level(n + 1), NEW p \in Paths[m] PROVE p \in Routes
      OBVIOUS
  <2>1. n \in 0 .. StrimapDepth - 1 /\ n <= StrimapDepth /\ n + 1 \in 0 .. StrimapDepth
      OBVIOUS
  <2>2. m \in NestedMaps
      BY <2>1, LevelsGrow
  <2>4. <<>> \in Seq(StrimapKeys)
      OBVIOUS
  <2>5. CASE p = <<<<>>, AMap>>
      BY <2>4, <2>5 DEF Routes
  <2>6. ASSUME NEW k \in DOMAIN m.at, m.at[k].map, NEW q \in Paths[m.at[k]], p = <<<<k>> \o q[1], q[2]>>
        PROVE  p \in Routes
    <3>1. m.at[k] \in Level(n) /\ k \in StrimapKeys
        BY <2>1, <2>6, SubmapBelow, MapsAre
    <3>2. q \in Routes
        BY <1>2, <2>1, <2>6, <3>1
    <3>3. q[1] \in Seq(StrimapKeys) /\ q[2] \in AllLeaves \cup {AMap}
        BY <3>2 DEF Routes
    <3>4. <<k>> \o q[1] \in Seq(StrimapKeys)
        BY <3>1, <3>3, KeyFirst
    <3> QED BY <2>6, <3>3, <3>4 DEF Routes
  <2>7. ASSUME NEW k \in DOMAIN m.at, ~m.at[k].map, p = <<<<k>>, m.at[k].value>>
        PROVE  p \in Routes
    <3>1. m.at[k].value \in AllLeaves /\ k \in StrimapKeys
        BY <2>1, <2>7, SubmapBelow, MapsAre
    <3>2. <<k>> \in Seq(StrimapKeys)
        BY <3>1
    <3> QED BY <2>7, <3>1, <3>2 DEF Routes
  <2> QED BY <2>2, <2>5, <2>6, <2>7, PathsUnfold
<1>3. \A n \in Nat : n \in T
  <2> HIDE DEF T
  <2> QED BY <1>1, <1>2, NaturalsReached
<1> QED BY <1>3

\* What a path leads to.
Leads(m, path, v) == <<path, v>> \in Paths[m]

Here(path, v) == path = <<>> /\ v = AMap
Into(m, path, v) ==
    \E k \in DOMAIN m.at : m.at[k].map /\ \E rest \in Seq(StrimapKeys) :
        path = <<k>> \o rest /\ Leads(m.at[k], rest, v)
Ending(m, path, v) == \E k \in DOMAIN m.at : ~m.at[k].map /\ path = <<k>> \o <<>> /\ v = m.at[k].value

LEMMA LeadsUnfold ==
    ASSUME NEW n \in 0 .. StrimapDepth - 1, NEW m \in Level(n + 1), NEW path, NEW v
    PROVE  Leads(m, path, v) <=> Here(path, v) \/ Into(m, path, v) \/ Ending(m, path, v)
<1> DEFINE p == <<path, v>>
<1>1. n \in Nat /\ n <= StrimapDepth /\ n + 1 \in 0 .. StrimapDepth
    BY StrimapAssumption
<1>2. m \in NestedMaps
    BY <1>1, LevelsGrow
<1>3. p \in Paths[m] <=>
          \/ p = <<<<>>, AMap>>
          \/ \E k \in DOMAIN m.at : m.at[k].map /\ \E q \in Paths[m.at[k]] : p = <<<<k>> \o q[1], q[2]>>
          \/ \E k \in DOMAIN m.at : ~m.at[k].map /\ p = <<<<k>>, m.at[k].value>>
  <2> HIDE DEF p
  <2> QED BY <1>2, PathsUnfold
<1>4. p = <<<<>>, AMap>> <=> path = <<>> /\ v = AMap
    OBVIOUS
<1>5. ASSUME NEW k \in DOMAIN m.at
      PROVE  p = <<<<k>>, m.at[k].value>> <=> path = <<k>> \o <<>> /\ v = m.at[k].value
  <2>1. <<k>> \o <<>> = <<k>>
      OBVIOUS
  <2> QED BY <2>1
<1>6. ASSUME NEW k \in DOMAIN m.at, m.at[k].map
      PROVE  (\E q \in Paths[m.at[k]] : p = <<<<k>> \o q[1], q[2]>>) <=>
                 \E rest \in Seq(StrimapKeys) : path = <<k>> \o rest /\ Leads(m.at[k], rest, v)
  <2>1. m.at[k] \in Level(n)
      BY <1>6, SubmapBelow
  <2>2. ASSUME NEW q \in Paths[m.at[k]]
        PROVE  q[1] \in Seq(StrimapKeys) /\ q = <<q[1], q[2]>>
    <3>1. q \in Routes
        BY <1>1, <2>1, PathsTyped
    <3> QED BY <3>1 DEF Routes
  <2>3. ASSUME NEW q \in Paths[m.at[k]], p = <<<<k>> \o q[1], q[2]>>
        PROVE  \E rest \in Seq(StrimapKeys) : path = <<k>> \o rest /\ Leads(m.at[k], rest, v)
    <3>1. path = <<k>> \o q[1] /\ v = q[2]
        BY <2>3
    <3>2. Leads(m.at[k], q[1], v)
        BY <2>2, <3>1 DEF Leads
    <3> QED BY <2>2, <3>1, <3>2
  <2>4. ASSUME NEW rest \in Seq(StrimapKeys), path = <<k>> \o rest, Leads(m.at[k], rest, v)
        PROVE  \E q \in Paths[m.at[k]] : p = <<<<k>> \o q[1], q[2]>>
    <3> DEFINE q == <<rest, v>>
    <3>1. q \in Paths[m.at[k]] /\ p = <<<<k>> \o q[1], q[2]>>
        BY <2>4 DEF Leads
    <3> QED BY <3>1
  <2> QED BY <2>3, <2>4
<1> HIDE DEF p
<1>7. Leads(m, path, v) <=> p \in Paths[m]
    BY DEF Leads, p
<1> QED BY <1>3, <1>4, <1>5, <1>6, <1>7 DEF Here, Into, Ending

LEMMA PathsHere ==
    ASSUME NEW n \in 0 .. StrimapDepth - 1, NEW m \in Level(n + 1), NEW v
    PROVE  Leads(m, <<>>, v) <=> v = AMap
<1>1. ASSUME NEW k \in DOMAIN m.at, NEW rest \in Seq(StrimapKeys) PROVE <<>> # <<k>> \o rest
    BY KeyFirst, MapsAre
<1>2. <<>> \in Seq(StrimapKeys)
    OBVIOUS
<1>3. Leads(m, <<>>, v) <=> Here(<<>>, v) \/ Into(m, <<>>, v) \/ Ending(m, <<>>, v)
    BY LeadsUnfold
<1> QED BY <1>1, <1>2, <1>3 DEF Here, Into, Ending

LEMMA PathsBelow ==
    ASSUME NEW n \in 0 .. StrimapDepth - 1, NEW m \in Level(n + 1), NEW v,
           NEW k \in StrimapKeys, NEW rest \in Seq(StrimapKeys)
    PROVE  Leads(m, <<k>> \o rest, v) <=>
               /\ k \in DOMAIN m.at
               /\ IF m.at[k].map THEN Leads(m.at[k], rest, v) ELSE rest = <<>> /\ v = m.at[k].value
<1> DEFINE path == <<k>> \o rest
<1>1. path # <<>>
    BY KeyFirst
<1>2. ASSUME NEW j \in DOMAIN m.at, NEW r \in Seq(StrimapKeys)
      PROVE  path = <<j>> \o r <=> j = k /\ r = rest
  <2>1. Head(path) = k /\ Tail(path) = rest
      BY KeyFirst
  <2>2. Head(<<j>> \o r) = j /\ Tail(<<j>> \o r) = r
      BY KeyFirst, MapsAre
  <2> QED BY <2>1, <2>2
<1>3. <<>> \in Seq(StrimapKeys)
    OBVIOUS
<1> HIDE DEF path
<1>4. Leads(m, path, v) <=> Here(path, v) \/ Into(m, path, v) \/ Ending(m, path, v)
    BY LeadsUnfold
<1>5. Into(m, path, v) <=> k \in DOMAIN m.at /\ m.at[k].map /\ Leads(m.at[k], rest, v)
    BY <1>2 DEF Into
<1>6. Ending(m, path, v) <=> k \in DOMAIN m.at /\ ~m.at[k].map /\ rest = <<>> /\ v = m.at[k].value
    BY <1>2, <1>3 DEF Ending
<1>7. Leads(m, path, v) <=>
          /\ k \in DOMAIN m.at
          /\ IF m.at[k].map THEN Leads(m.at[k], rest, v) ELSE rest = <<>> /\ v = m.at[k].value
    BY <1>1, <1>4, <1>5, <1>6 DEF Here
<1> QED BY <1>7 DEF path

\* In terms of what paths lead to.
LEMMA DecidesBy ==
    ASSUME NEW y, NEW path, NEW q, NEW v, Leads(y, q, v), q = path \/ (v # AMap /\ IsPrefix(q, path))
    PROVE  Decides(y, path)
<1> DEFINE p == <<q, v>>
<1>1. p \in Paths[y] /\ p[1] = q /\ p[2] = v
    BY DEF Leads
<1> HIDE DEF p
<1> QED BY <1>1 DEF Decides

LEMMA DecidesIs ==
    ASSUME NEW n \in Nat, n <= StrimapDepth, NEW y \in Level(n), NEW path
    PROVE  Decides(y, path) <=>
               \E q \in Seq(StrimapKeys) : \E v \in AllLeaves \cup {AMap} :
                   Leads(y, q, v) /\ (q = path \/ (v # AMap /\ IsPrefix(q, path)))
<1>1. ASSUME NEW p \in Paths[y]
      PROVE  p[1] \in Seq(StrimapKeys) /\ p[2] \in AllLeaves \cup {AMap} /\ Leads(y, p[1], p[2])
  <2>1. p \in Routes
      BY PathsTyped
  <2> QED BY <2>1 DEF Routes, Leads
<1>2. ASSUME NEW q, NEW v, Leads(y, q, v), q = path \/ (v # AMap /\ IsPrefix(q, path))
      PROVE  Decides(y, path)
    BY <1>2, DecidesBy
<1>3. ASSUME Decides(y, path)
      PROVE  \E q \in Seq(StrimapKeys) : \E v \in AllLeaves \cup {AMap} :
                 Leads(y, q, v) /\ (q = path \/ (v # AMap /\ IsPrefix(q, path)))
  <2>1. PICK p \in Paths[y] : p[1] = path \/ (p[2] # AMap /\ IsPrefix(p[1], path))
      BY <1>3 DEF Decides
  <2> QED BY <1>1, <2>1
<1> QED BY <1>2, <1>3

LEMMA DecidesHere ==
    ASSUME NEW n \in 0 .. StrimapDepth - 1, NEW y \in Level(n + 1)
    PROVE  Decides(y, <<>>)
<1>1. n + 1 \in Nat /\ n + 1 <= StrimapDepth
    BY StrimapAssumption
<1>2. Leads(y, <<>>, AMap) /\ <<>> \in Seq(StrimapKeys)
    BY PathsHere
<1> QED BY <1>1, <1>2, DecidesIs

\* A map decides on what is below a key of its own, unless the map there does not.
LEMMA DecidesBelow ==
    ASSUME NEW n \in 0 .. StrimapDepth - 1, NEW y \in Level(n + 1),
           NEW k \in StrimapKeys, NEW rest \in Seq(StrimapKeys)
    PROVE  Decides(y, <<k>> \o rest) <=> k \in DOMAIN y.at /\ (y.at[k].map => Decides(y.at[k], rest))
<1> DEFINE path == <<k>> \o rest
<1>1. n + 1 \in Nat /\ n + 1 <= StrimapDepth /\ n \in Nat /\ n <= StrimapDepth
    BY StrimapAssumption
<1>2. path \in Seq(StrimapKeys) /\ path # <<>> /\ Head(path) = k /\ Tail(path) = rest
    BY KeyFirst
<1>3. ASSUME NEW q \in Seq(StrimapKeys)
      PROVE  /\ <<k>> \o q \in Seq(StrimapKeys)
             /\ <<k>> \o q = path <=> q = rest
             /\ IsPrefix(<<k>> \o q, path) <=> IsPrefix(q, rest)
  <2>1. <<k>> \o q \in Seq(StrimapKeys) /\ Tail(<<k>> \o q) = q
      BY KeyFirst
  <2>2. IsPrefix(<<k>> \o q, path) <=> IsPrefix(q, rest)
      BY PrefixSplit
  <2>3. <<k>> \o q = path => q = rest
      BY <1>2, <2>1
  <2>4. q = rest => <<k>> \o q = path
      OBVIOUS
  <2> QED BY <2>1, <2>2, <2>3, <2>4
<1>4. ASSUME NEW q \in Seq(StrimapKeys), q # <<>>, q = path \/ IsPrefix(q, path)
      PROVE  Head(q) = k /\ Tail(q) \in Seq(StrimapKeys) /\ q = <<k>> \o Tail(q)
  <2>1. Head(q) \in StrimapKeys /\ Tail(q) \in Seq(StrimapKeys) /\ q = <<Head(q)>> \o Tail(q)
      BY <1>4, KeySplit
  <2>2. IsPrefix(<<Head(q)>> \o Tail(q), path) <=> Head(q) = k /\ IsPrefix(Tail(q), rest)
      BY <2>1, PrefixSplit
  <2> QED BY <1>2, <1>4, <2>1, <2>2
<1>5. path = <<k>> \o rest
    OBVIOUS
<1> HIDE DEF path
<1>6. ASSUME Decides(y, path)
      PROVE  k \in DOMAIN y.at /\ (y.at[k].map => Decides(y.at[k], rest))
  <2>1. PICK q \in Seq(StrimapKeys), v \in AllLeaves \cup {AMap} :
            Leads(y, q, v) /\ (q = path \/ (v # AMap /\ IsPrefix(q, path)))
      BY <1>1, <1>6, DecidesIs
  <2>2. q # <<>>
      BY <1>2, <2>1, PathsHere
  <2>3. Tail(q) \in Seq(StrimapKeys) /\ q = <<k>> \o Tail(q)
      BY <1>4, <2>1, <2>2
  <2>4. k \in DOMAIN y.at /\ (y.at[k].map => Leads(y.at[k], Tail(q), v))
    <3> DEFINE r == Tail(q)
    <3>1. r \in Seq(StrimapKeys) /\ q = <<k>> \o r
        BY <2>3
    <3> HIDE DEF r
    <3>2. Leads(y, <<k>> \o r, v)
        BY <2>1, <3>1
    <3>3. k \in DOMAIN y.at /\ (y.at[k].map => Leads(y.at[k], r, v))
        BY <3>1, <3>2, PathsBelow
    <3> QED BY <3>3 DEF r
  <2>5. Tail(q) = rest \/ (v # AMap /\ IsPrefix(Tail(q), rest))
      BY <1>3, <2>1, <2>3
  <2>6. y.at[k].map => y.at[k] \in Level(n)
      BY <2>4, SubmapBelow
  <2> QED BY <2>4, <2>5, DecidesBy
<1>7. ASSUME k \in DOMAIN y.at, y.at[k].map, Decides(y.at[k], rest)
      PROVE  Decides(y, path)
  <2>1. y.at[k] \in Level(n)
      BY <1>7, SubmapBelow
  <2>2. PICK q \in Seq(StrimapKeys), v \in AllLeaves \cup {AMap} :
            Leads(y.at[k], q, v) /\ (q = rest \/ (v # AMap /\ IsPrefix(q, rest)))
      BY <1>1, <1>7, <2>1, DecidesIs
  <2>3. Leads(y, <<k>> \o q, v)
      BY <1>7, <2>2, PathsBelow
  <2>4. <<k>> \o q \in Seq(StrimapKeys)
      BY <1>3
  <2>5. <<k>> \o q = path \/ (v # AMap /\ IsPrefix(<<k>> \o q, path))
      BY <1>3, <2>2
  <2> QED BY <2>3, <2>5, DecidesBy
<1>8. ASSUME k \in DOMAIN y.at, ~y.at[k].map
      PROVE  Decides(y, path)
  <2>1. y.at[k].value \in AllLeaves /\ y.at[k].value # AMap
      BY <1>8, SubmapBelow, StrimapAssumption DEF AllLeaves
  <2>2. <<>> \in Seq(StrimapKeys) /\ IsPrefix(<<>>, rest)
      BY EmptyPrefix
  <2>3. Leads(y, <<k>> \o <<>>, y.at[k].value)
      BY <1>8, <2>2, PathsBelow, ZenonT(60)
  <2>4. <<k>> \o <<>> \in Seq(StrimapKeys) /\ IsPrefix(<<k>> \o <<>>, path)
      BY <1>3, <2>2
  <2> QED BY <2>1, <2>3, <2>4, DecidesBy
<1> QED BY <1>6, <1>7, <1>8 DEF path

-----------------------------------------------------------------------------
(* What merging two maps makes.                                            *)

MergesInto(x, y, z) ==
    /\ z = Map(z.at) /\ z.map = TRUE
    /\ DOMAIN z.at = DOMAIN x.at \cup DOMAIN y.at /\ DOMAIN z.at \subseteq StrimapKeys
    /\ z.at = [k \in DOMAIN z.at |-> z.at[k]]
    /\ \A k \in DOMAIN z.at :
          z.at[k] = IF k \notin DOMAIN y.at THEN x.at[k]
                    ELSE IF k \notin DOMAIN x.at THEN y.at[k]
                    ELSE Merged(x.at[k], y.at[k], MergeMaps[x.at[k]][y.at[k]])

LEMMA MergeUnfold ==
    ASSUME NEW n \in 0 .. StrimapDepth - 1, NEW x \in Level(n + 1), NEW y \in Level(n + 1)
    PROVE  MergesInto(x, y, MergeMaps[x][y])
<1> DEFINE z == MergeMaps[x][y]
<1>1. n + 1 \in 0 .. StrimapDepth
    BY StrimapAssumption
<1>2. x \in NestedMaps /\ y \in NestedMaps
    BY <1>1, LevelsGrow
<1> DEFINE f == [k \in DOMAIN x.at \cup DOMAIN y.at |->
                    IF k \notin DOMAIN y.at THEN x.at[k]
                    ELSE IF k \notin DOMAIN x.at THEN y.at[k]
                    ELSE Merged(x.at[k], y.at[k], MergeMaps[x.at[k]][y.at[k]])]
<1>3. z = MergeStep(MergeMaps, x)[y]
    BY <1>2, MergeIs
<1>4. z = Map(f)
    BY <1>2, <1>3 DEF MergeStep
<1>5. z.at = f /\ z.map = TRUE
    BY <1>4 DEF Map
<1>6. DOMAIN x.at \subseteq StrimapKeys /\ DOMAIN y.at \subseteq StrimapKeys
    BY MapsAre
<1> HIDE DEF z
<1>7. MergesInto(x, y, z)
    BY <1>4, <1>5, <1>6 DEF MergesInto
<1> QED BY <1>7 DEF z

\* What is of the wanted depth.
LEMMA LevelIntro ==
    ASSUME NEW n \in 0 .. StrimapDepth - 1, NEW z, z = Map(z.at), DOMAIN z.at \subseteq StrimapKeys,
           z.at = [k \in DOMAIN z.at |-> z.at[k]],
           \A k \in DOMAIN z.at : z.at[k] \in Leaves(AllLeaves) \/ z.at[k] \in Level(n)
    PROVE  z \in Level(n + 1)
<1>1. Level(n + 1) = Maps(Leaves(AllLeaves) \cup Level(n))
    BY LevelsAre DEF Level
<1>2. z.at \in [DOMAIN z.at -> Leaves(AllLeaves) \cup Level(n)]
    OBVIOUS
<1> DEFINE f == z.at
           all == UNION {[keys -> Leaves(AllLeaves) \cup Level(n)] : keys \in SUBSET StrimapKeys}
<1>3. f \in all
    BY <1>2
<1>4. z = [map |-> TRUE, value |-> AMap, at |-> f]
    BY DEF Map
<1> HIDE DEF f, all
<1>5. z \in [map : {TRUE}, value : {AMap}, at : all]
    BY <1>3, <1>4
<1> QED BY <1>1, <1>5 DEF Maps, all

\* What merging two maps of a depth makes, if it makes the right thing of the maps below.
LEMMA MergeLevel ==
    ASSUME NEW n \in 0 .. StrimapDepth - 1, NEW x \in Level(n + 1), NEW y \in Level(n + 1), NEW z,
           z = MergeMaps[x][y],
           \A u, w \in Level(n) : MergeMaps[u][w] \in Level(n)
    PROVE  z \in Level(n + 1)
<1>0. MergesInto(x, y, z)
    BY MergeUnfold
<1>1. /\ z = Map(z.at) /\ DOMAIN z.at \subseteq StrimapKeys
      /\ DOMAIN z.at = DOMAIN x.at \cup DOMAIN y.at /\ z.at = [k \in DOMAIN z.at |-> z.at[k]]
    BY <1>0 DEF MergesInto
<1>2. ASSUME NEW k \in DOMAIN z.at PROVE z.at[k] \in Leaves(AllLeaves) \/ z.at[k] \in Level(n)
  <2>1. z.at[k] = IF k \notin DOMAIN y.at THEN x.at[k]
                  ELSE IF k \notin DOMAIN x.at THEN y.at[k]
                  ELSE Merged(x.at[k], y.at[k], MergeMaps[x.at[k]][y.at[k]])
      BY <1>0 DEF MergesInto
  <2>2. CASE k \notin DOMAIN y.at
      BY <1>1, <2>1, <2>2, MapsAre
  <2>3. CASE k \in DOMAIN y.at /\ (k \notin DOMAIN x.at \/ ~(x.at[k].map /\ y.at[k].map))
    <3>1. z.at[k] = y.at[k]
        BY <2>1, <2>3 DEF Merged
    <3> QED BY <2>3, <3>1, MapsAre
  <2>4. CASE k \in DOMAIN y.at /\ k \in DOMAIN x.at /\ x.at[k].map /\ y.at[k].map
    <3>1. z.at[k] = MergeMaps[x.at[k]][y.at[k]]
        BY <2>1, <2>4 DEF Merged
    <3>2. x.at[k] \in Level(n) /\ y.at[k] \in Level(n)
        BY <2>4, SubmapBelow
    <3> QED BY <3>1, <3>2
  <2> QED BY <2>2, <2>3, <2>4
<1> QED BY <1>1, <1>2, LevelIntro

MergedLeads(x, y, path, v) == Leads(y, path, v) \/ (Leads(x, path, v) /\ ~Decides(y, path))

LEMMA MergePaths ==
    ASSUME NEW n \in 0 .. StrimapDepth - 1, NEW x \in Level(n + 1), NEW y \in Level(n + 1), NEW z,
           z = MergeMaps[x][y], z \in Level(n + 1),
           \A u, w \in Level(n) : \A path \in Seq(StrimapKeys), v \in AllLeaves \cup {AMap} :
               Leads(MergeMaps[u][w], path, v) <=> MergedLeads(u, w, path, v),
           NEW path \in Seq(StrimapKeys), NEW v \in AllLeaves \cup {AMap}
    PROVE  Leads(z, path, v) <=> MergedLeads(x, y, path, v)
<1>0. MergesInto(x, y, z)
    BY MergeUnfold
<1>1. CASE path = <<>>
  <2>1. (Leads(z, <<>>, v) <=> v = AMap) /\ (Leads(y, <<>>, v) <=> v = AMap)
      BY PathsHere
  <2>2. Decides(y, <<>>)
      BY DecidesHere
  <2> QED BY <1>1, <2>1, <2>2 DEF MergedLeads
<1>2. ASSUME NEW k \in StrimapKeys, NEW rest \in Seq(StrimapKeys)
      PROVE  Leads(z, <<k>> \o rest, v) <=> MergedLeads(x, y, <<k>> \o rest, v)
  <2>1. Leads(z, <<k>> \o rest, v) <=>
            /\ k \in DOMAIN z.at
            /\ IF z.at[k].map THEN Leads(z.at[k], rest, v) ELSE rest = <<>> /\ v = z.at[k].value
      BY PathsBelow
  <2>2. Leads(y, <<k>> \o rest, v) <=>
            /\ k \in DOMAIN y.at
            /\ IF y.at[k].map THEN Leads(y.at[k], rest, v) ELSE rest = <<>> /\ v = y.at[k].value
      BY PathsBelow
  <2>3. Leads(x, <<k>> \o rest, v) <=>
            /\ k \in DOMAIN x.at
            /\ IF x.at[k].map THEN Leads(x.at[k], rest, v) ELSE rest = <<>> /\ v = x.at[k].value
      BY PathsBelow
  <2>4. Decides(y, <<k>> \o rest) <=> k \in DOMAIN y.at /\ (y.at[k].map => Decides(y.at[k], rest))
      BY DecidesBelow
  <2>5. DOMAIN z.at = DOMAIN x.at \cup DOMAIN y.at
      BY <1>0 DEF MergesInto
  <2>6. k \in DOMAIN z.at => z.at[k] = IF k \notin DOMAIN y.at THEN x.at[k]
                  ELSE IF k \notin DOMAIN x.at THEN y.at[k]
                  ELSE Merged(x.at[k], y.at[k], MergeMaps[x.at[k]][y.at[k]])
      BY <1>0 DEF MergesInto
  <2>7. CASE k \notin DOMAIN y.at
      BY <2>1, <2>2, <2>3, <2>4, <2>5, <2>6, <2>7 DEF MergedLeads
  <2>8. CASE k \in DOMAIN y.at /\ k \notin DOMAIN x.at
      BY <2>1, <2>2, <2>3, <2>5, <2>6, <2>8 DEF MergedLeads
  <2>9. CASE k \in DOMAIN y.at /\ k \in DOMAIN x.at
    <3>1. CASE y.at[k].map /\ x.at[k].map
      <4>1. z.at[k] = MergeMaps[x.at[k]][y.at[k]] /\ k \in DOMAIN z.at
          BY <2>5, <2>6, <2>9, <3>1 DEF Merged
      <4>2. x.at[k] \in Level(n) /\ y.at[k] \in Level(n)
          BY <2>9, <3>1, SubmapBelow
      <4>3. Leads(z.at[k], rest, v) <=> MergedLeads(x.at[k], y.at[k], rest, v)
          BY <4>1, <4>2
      <4>4. z.at[k].map
        <5>1. n # 0
            BY <4>2, LevelsAre DEF Level
        <5>2. n - 1 \in 0 .. StrimapDepth - 1 /\ (n - 1) + 1 = n
            BY <5>1, StrimapAssumption
        <5>3. x.at[k] \in Level((n - 1) + 1) /\ y.at[k] \in Level((n - 1) + 1)
            BY <4>2, <5>2
        <5>4. MergesInto(x.at[k], y.at[k], z.at[k])
            BY <4>1, <5>2, <5>3, MergeUnfold
        <5> QED BY <5>4 DEF MergesInto
      <4> QED BY <2>1, <2>2, <2>3, <2>4, <2>9, <3>1, <4>1, <4>3, <4>4 DEF MergedLeads
    <3>2. CASE ~(y.at[k].map /\ x.at[k].map)
      <4>1. z.at[k] = y.at[k] /\ k \in DOMAIN z.at
          BY <2>5, <2>6, <2>9, <3>2 DEF Merged
      <4>2. CASE y.at[k].map
        <5>1. x.at[k].map = FALSE /\ x.at[k].value \in AllLeaves
            BY <2>9, <3>2, <4>2, SubmapBelow
        <5>2. y.at[k] \in Level(n)
            BY <2>9, <4>2, SubmapBelow
        <5>3. Decides(y.at[k], <<>>)
          <6>1. n # 0
              BY <5>2, LevelsAre DEF Level
          <6>2. n - 1 \in 0 .. StrimapDepth - 1 /\ (n - 1) + 1 = n
              BY <6>1, StrimapAssumption
          <6>3. y.at[k] \in Level((n - 1) + 1)
              BY <5>2, <6>2
          <6> QED BY <6>2, <6>3, DecidesHere
        <5>4. rest = <<>> => Decides(y.at[k], rest)
            BY <5>3
        <5> QED BY <2>1, <2>2, <2>3, <2>4, <2>9, <4>1, <4>2, <5>1, <5>4 DEF MergedLeads
      <4>3. CASE ~y.at[k].map
          BY <2>1, <2>2, <2>4, <2>9, <4>1, <4>3 DEF MergedLeads
      <4> QED BY <4>2, <4>3
    <3> QED BY <3>1, <3>2
  <2> QED BY <2>7, <2>8, <2>9
<1>3. ASSUME path # <<>> PROVE Leads(z, path, v) <=> MergedLeads(x, y, path, v)
  <2> DEFINE k == Head(path)
             rest == Tail(path)
  <2>1. k \in StrimapKeys /\ rest \in Seq(StrimapKeys) /\ path = <<k>> \o rest
      BY <1>3, KeySplit
  <2> HIDE DEF k, rest
  <2>2. Leads(z, <<k>> \o rest, v) <=> MergedLeads(x, y, <<k>> \o rest, v)
      BY <1>2, <2>1
  <2> QED BY <2>1, <2>2
<1> QED BY <1>1, <1>3

RightAt(n) ==
    \A x, y \in Level(n) :
        /\ MergeMaps[x][y] \in Level(n)
        /\ \A path \in Seq(StrimapKeys), v \in AllLeaves \cup {AMap} :
              Leads(MergeMaps[x][y], path, v) <=> MergedLeads(x, y, path, v)

LEMMA MergeRight ==
    \A n \in Nat : n <= StrimapDepth => RightAt(n)
<1> USE StrimapAssumption
<1> DEFINE T == {n \in Nat : n <= StrimapDepth => RightAt(n)}
<1>1. 0 \in T
    BY LevelsAre DEF Level, RightAt
<1>2. ASSUME NEW n \in Nat, n \in T PROVE n + 1 \in T
  <2> SUFFICES ASSUME n + 1 <= StrimapDepth PROVE RightAt(n + 1)
      OBVIOUS
  <2>1. n \in 0 .. StrimapDepth - 1 /\ n <= StrimapDepth
      OBVIOUS
  <2>2. RightAt(n)
      BY <1>2, <2>1
  <2>3. ASSUME NEW x \in Level(n + 1), NEW y \in Level(n + 1)
        PROVE  /\ MergeMaps[x][y] \in Level(n + 1)
               /\ \A path \in Seq(StrimapKeys), v \in AllLeaves \cup {AMap} :
                     Leads(MergeMaps[x][y], path, v) <=> MergedLeads(x, y, path, v)
    <3> DEFINE z == MergeMaps[x][y]
    <3>1. z = MergeMaps[x][y]
        OBVIOUS
    <3> HIDE DEF z
    <3>2. z \in Level(n + 1)
        BY <2>1, <2>2, <3>1, MergeLevel DEF RightAt
    <3>3. \A path \in Seq(StrimapKeys), v \in AllLeaves \cup {AMap} :
              Leads(z, path, v) <=> MergedLeads(x, y, path, v)
        BY <2>1, <2>2, <3>1, <3>2, MergePaths DEF RightAt
    <3> QED BY <3>2, <3>3 DEF z
  <2> QED BY <2>3 DEF RightAt
<1>3. \A n \in Nat : n \in T
  <2> HIDE DEF T
  <2> QED BY <1>1, <1>2, NaturalsReached
<1> QED BY <1>3

-----------------------------------------------------------------------------
(* What is looked up.                                                      *)

LEMMA GetinUnfold ==
    ASSUME NEW n \in 0 .. StrimapDepth - 1, NEW m \in Level(n + 1),
           NEW k \in StrimapKeys, NEW rest \in Seq(StrimapKeys)
    PROVE  Getin[m][<<k>> \o rest] =
               IF k \notin DOMAIN m.at \/ ~m.at[k].map THEN Nowhere
               ELSE IF rest = <<>> THEN m.at[k] ELSE Getin[m.at[k]][rest]
<1>1. n + 1 \in 0 .. StrimapDepth
    BY StrimapAssumption
<1>2. m \in NestedMaps
    BY <1>1, LevelsGrow
<1> DEFINE path == <<k>> \o rest
<1>3. path \in Seq(StrimapKeys) /\ path # <<>> /\ Head(path) = k /\ Tail(path) = rest
    BY KeyFirst
<1>4. Len(path) = 1 <=> rest = <<>>
    OBVIOUS
<1> HIDE DEF path
<1>5. Getin[m][path] = GetinStep(Getin, m)[path]
    BY <1>2, GetinIs
<1>6. Getin[m][path] =
          IF path = <<>> \/ Head(path) \notin DOMAIN m.at \/ ~m.at[Head(path)].map THEN Nowhere
          ELSE IF Len(path) = 1 THEN m.at[Head(path)] ELSE Getin[m.at[Head(path)]][Tail(path)]
    BY <1>3, <1>5 DEF GetinStep
<1>7. Getin[m][path] = IF k \notin DOMAIN m.at \/ ~m.at[k].map THEN Nowhere
                       ELSE IF rest = <<>> THEN m.at[k] ELSE Getin[m.at[k]][rest]
    BY <1>3, <1>4, <1>6
<1> QED BY <1>7 DEF path

\* What a path leads to is found if it is a map.
FoundAt(n) ==
    \A m \in Level(n) : \A path \in Seq(StrimapKeys), v \in AllLeaves \cup {AMap} :
        Leads(m, path, v) /\ path # <<>> => (Getin[m][path] # Nowhere <=> v = AMap)

LEMMA GetinRight ==
    \A n \in Nat : n <= StrimapDepth => FoundAt(n)
<1> USE StrimapAssumption
<1> DEFINE T == {n \in Nat : n <= StrimapDepth => FoundAt(n)}
<1>1. 0 \in T
    BY LevelsAre DEF Level, FoundAt
<1>2. ASSUME NEW n \in Nat, n \in T PROVE n + 1 \in T
  <2> SUFFICES ASSUME n + 1 <= StrimapDepth PROVE FoundAt(n + 1)
      OBVIOUS
  <2>1. n \in 0 .. StrimapDepth - 1 /\ n <= StrimapDepth
      OBVIOUS
  <2>2. FoundAt(n)
      BY <1>2, <2>1
  <2> SUFFICES ASSUME NEW m \in Level(n + 1), NEW path \in Seq(StrimapKeys), NEW v \in AllLeaves \cup {AMap},
                      Leads(m, path, v), path # <<>>
               PROVE  Getin[m][path] # Nowhere <=> v = AMap
      BY DEF FoundAt
  <2> DEFINE k == Head(path)
             rest == Tail(path)
  <2>3. k \in StrimapKeys /\ rest \in Seq(StrimapKeys) /\ path = <<k>> \o rest
      BY KeySplit
  <2> HIDE DEF k, rest, T
  <2>4. /\ Leads(m, <<k>> \o rest, v) <=>
               /\ k \in DOMAIN m.at
               /\ IF m.at[k].map THEN Leads(m.at[k], rest, v) ELSE rest = <<>> /\ v = m.at[k].value
      BY <2>1, <2>3, PathsBelow
  <2>5. Leads(m, <<k>> \o rest, v)
      BY <2>3
  <2>6. Getin[m][<<k>> \o rest] =
            IF k \notin DOMAIN m.at \/ ~m.at[k].map THEN Nowhere
            ELSE IF rest = <<>> THEN m.at[k] ELSE Getin[m.at[k]][rest]
      BY <2>1, <2>3, GetinUnfold
  <2>7. CASE ~m.at[k].map
    <3>1. m.at[k].value \in AllLeaves
        BY <2>1, <2>4, <2>5, <2>7, SubmapBelow
    <3>2. v # AMap
        BY <2>4, <2>5, <2>7, <3>1 DEF AllLeaves
    <3> QED BY <2>3, <2>6, <2>7, <3>2
  <2>8. CASE m.at[k].map
    <3>1. m.at[k] \in Level(n) /\ m.at[k].map = TRUE /\ Leads(m.at[k], rest, v)
        BY <2>1, <2>4, <2>5, <2>8, SubmapBelow
    <3>2. CASE rest = <<>>
      <4>1. n # 0
          BY <3>1, LevelsAre DEF Level
      <4>2. n - 1 \in 0 .. StrimapDepth - 1 /\ (n - 1) + 1 = n
          BY <4>1
      <4>3. m.at[k] \in Level((n - 1) + 1)
          BY <3>1, <4>2
      <4>4. Leads(m.at[k], <<>>, v) <=> v = AMap
          BY <4>2, <4>3, PathsHere
      <4>5. v = AMap
          BY <3>1, <3>2, <4>4
      <4>6. m.at[k] # Nowhere
          BY <3>1 DEF Nowhere, Leaf
      <4>7. Getin[m][path] = m.at[k]
          BY <2>3, <2>4, <2>5, <2>6, <2>8, <3>2
      <4> QED BY <4>5, <4>6, <4>7
    <3>3. CASE rest # <<>>
      <4>1. Getin[m.at[k]][rest] # Nowhere <=> v = AMap
          BY <2>2, <2>3, <3>1, <3>3 DEF FoundAt
      <4>2. Getin[m][path] = Getin[m.at[k]][rest]
          BY <2>3, <2>4, <2>5, <2>6, <2>8, <3>3
      <4> QED BY <4>1, <4>2
    <3> QED BY <3>2, <3>3
  <2> QED BY <2>7, <2>8
<1>3. \A n \in Nat : n \in T
  <2> HIDE DEF T
  <2> QED BY <1>1, <1>2, NaturalsReached
<1> QED BY <1>3

-----------------------------------------------------------------------------
(* Maps of any depth.                                                      *)

StrimapSpec == StrimapInit /\ [][UNCHANGED strimapVars]_strimapVars

LEMMA MergedPaths ==
    ASSUME NEW x \in NestedMaps, NEW y \in NestedMaps
    PROVE  /\ Paths[MergeMaps[x][y]] = Expected(x, y)
           /\ \A p \in Paths[MergeMaps[x][y]] :
                 p[1] # <<>> => (Getin[MergeMaps[x][y]][p[1]] # Nowhere <=> p[2] = AMap)
<1> DEFINE z == MergeMaps[x][y]
           n == StrimapDepth
<1>1. n \in Nat /\ n <= StrimapDepth
    BY StrimapAssumption
<1>2. NestedMaps = Level(n)
    BY LevelsAre DEF NestedMaps, Level, AllLeaves
<1>3. RightAt(n) /\ FoundAt(n)
    BY <1>1, MergeRight, GetinRight
<1>4. z \in Level(n) /\ x \in Level(n) /\ y \in Level(n)
    BY <1>2, <1>3 DEF RightAt
<1>5. \A path \in Seq(StrimapKeys), v \in AllLeaves \cup {AMap} : Leads(z, path, v) <=> MergedLeads(x, y, path, v)
    BY <1>2, <1>3 DEF RightAt
<1> HIDE DEF z, n
<1>6. Paths[z] \subseteq Routes /\ Paths[x] \subseteq Routes /\ Paths[y] \subseteq Routes
    BY <1>1, <1>4, PathsTyped
<1>7. ASSUME NEW p \in Routes
      PROVE  /\ p[1] \in Seq(StrimapKeys) /\ p[2] \in AllLeaves \cup {AMap}
             /\ \A m : Leads(m, p[1], p[2]) <=> p \in Paths[m]
    BY DEF Routes, Leads
<1>8. ASSUME NEW p \in Routes
      PROVE  p \in Paths[z] <=> p \in Expected(x, y)
  <2>1. Leads(z, p[1], p[2]) <=> MergedLeads(x, y, p[1], p[2])
      BY <1>5, <1>7
  <2>2. /\ Leads(z, p[1], p[2]) <=> p \in Paths[z]
        /\ Leads(x, p[1], p[2]) <=> p \in Paths[x]
        /\ Leads(y, p[1], p[2]) <=> p \in Paths[y]
      BY <1>7
  <2> QED BY <2>1, <2>2 DEF MergedLeads, Expected
<1>9. Paths[z] = Expected(x, y)
  <2>1. Expected(x, y) \subseteq Routes
      BY <1>6 DEF Expected
  <2> QED BY <1>6, <1>8, <2>1
<1>10. ASSUME NEW p \in Paths[z], p[1] # <<>>
       PROVE  Getin[z][p[1]] # Nowhere <=> p[2] = AMap
  <2>1. Leads(z, p[1], p[2]) /\ p[1] \in Seq(StrimapKeys) /\ p[2] \in AllLeaves \cup {AMap}
      BY <1>6, <1>7
  <2> QED BY <1>3, <1>4, <1>10, <2>1 DEF FoundAt
<1> QED BY <1>9, <1>10 DEF z

\* Maps of any keys, leaves and depth merge as they should: everything the second map says is in the
\* result, and of the first what the second does not decide; and Getin finds the maps of the result
\* and nothing else (MergeMaps, Getin).
THEOREM MergesRightCorrect == StrimapSpec => []MergesRight
<1> DEFINE Inv == a \in NestedMaps /\ b \in NestedMaps
<1>1. StrimapInit => Inv
  <2>1. MapsOf(StrimapLeaves, StrimapDepth) \subseteq NestedMaps
      BY FewerLeaves DEF AllLeaves
  <2>2. MapsOf(LaterLeaves, StrimapDepth) \subseteq NestedMaps
      BY FewerLeaves DEF AllLeaves
  <2> QED BY <2>1, <2>2 DEF StrimapInit
<1>2. Inv /\ [UNCHANGED strimapVars]_strimapVars => Inv'
    BY DEF strimapVars
<1>3. Inv => MergesRight
    BY MergedPaths DEF MergesRight
<1> QED BY <1>1, <1>2, <1>3, PTL DEF StrimapSpec

-----------------------------------------------------------------------------
(* The retry loop.                                                         *)

RetryInv ==
    /\ MaxRetries \in Nat \cup {-1} /\ i \in Nat /\ chores \in Nat /\ retryFaults \in Nat
    /\ loop \in {"idle", "calling", "asleep"} \cup Endings
    /\ heard \in Answers
    /\ MaxRetries # -1 => i <= MaxRetries
    /\ MaxRetries # -1 /\ loop = "asleep" => i < MaxRetries
    /\ HonestEnding

\* How many steps the loop has left at most.
StepsLeft ==
    2 * chores + CASE loop \in {"idle", "asleep"} -> 2
                   [] loop = "calling" -> 1
                   [] loop \in Endings -> 0

FewerLeft == StepsLeft \in Nat /\ StepsLeft' \in Nat /\ StepsLeft' < StepsLeft

\* What an answer makes of the loop.
LEMMA HeardEnds ==
    ASSUME RetryInv, loop = "calling", NEW answer \in Answers, Heard(answer)
    PROVE  /\ heard' = answer
           /\ loop' = CASE answer = "error" -> "failure" [] answer = "nil" -> "success"
                        [] answer = "empty" -> "incomplete" [] answer \in {"again", "later"} -> "asleep"
    BY DEF Heard, Answers

LEMMA RetryStep ==
    ASSUME RetryInv, RetryNext
    PROVE  RetryInv' /\ FewerLeft
<1>1. CASE StartRetry
    BY <1>1 DEF StartRetry, RetryInv, HonestEnding, StepsLeft, Endings, FewerLeft
<1>2. CASE WakeUp
    BY <1>2 DEF WakeUp, RetryInv, HonestEnding, StepsLeft, Endings, FewerLeft
<1>3. CASE GiveUp
  <2>1. loop = "calling" /\ loop' = "incomplete" /\ i = MaxRetries /\ MaxRetries # -1
      BY <1>3 DEF GiveUp, GoesOn, RetryInv
  <2> QED BY <1>3, <2>1 DEF GiveUp, RetryInv, HonestEnding, StepsLeft, Endings, FewerLeft
<1>4. CASE CallComponent
  <2>1. loop = "calling" /\ (MaxRetries # -1 => i < MaxRetries) /\ UNCHANGED <<MaxRetries, i>>
      BY <1>4 DEF CallComponent, GoesOn
  <2>2. CASE chores > 0 /\ chores' = chores - 1 /\ UNCHANGED retryFaults /\ (Heard("again") \/ Heard("later"))
    <3>1. loop' = "asleep" /\ heard' \in Answers
        BY <2>1, <2>2, HeardEnds DEF Answers
    <3> QED BY <2>1, <2>2, <3>1 DEF RetryInv, HonestEnding, StepsLeft, Endings, FewerLeft
  <2>3. CASE chores = 0 /\ UNCHANGED <<chores, retryFaults>> /\ Heard("nil")
    <3>1. loop' = "success" /\ heard' = "nil"
        BY <2>1, <2>3, HeardEnds DEF Answers
    <3> QED BY <2>1, <2>3, <3>1 DEF RetryInv, HonestEnding, StepsLeft, Endings, FewerLeft, Answers
  <2>4. CASE chores = 0 /\ UNCHANGED <<chores, retryFaults>> /\ Heard("empty")
    <3>1. loop' = "incomplete" /\ heard' = "empty"
        BY <2>1, <2>4, HeardEnds DEF Answers
    <3> QED BY <2>1, <2>4, <3>1 DEF RetryInv, HonestEnding, StepsLeft, Endings, FewerLeft, Answers
  <2>5. CASE retryFaults' = retryFaults + 1 /\ UNCHANGED chores /\ Heard("error")
    <3>1. loop' = "failure" /\ heard' = "error"
        BY <2>1, <2>5, HeardEnds DEF Answers
    <3> QED BY <2>1, <2>5, <3>1 DEF RetryInv, HonestEnding, StepsLeft, Endings, FewerLeft, Answers
  <2> QED BY <1>4, <2>2, <2>3, <2>4, <2>5 DEF CallComponent
<1> QED BY <1>1, <1>2, <1>3, <1>4 DEF RetryNext, RetryProgress

LEMMA RetryInvCorrect == RetrySpec => []RetryInv
<1>1. RetryInit => RetryInv
    BY RetryAssumption DEF RetryInit, RetryInv, HonestEnding, Endings, Answers
<1>2. RetryInv /\ [RetryNext]_retryVars => RetryInv'
  <2>1. RetryInv /\ UNCHANGED retryVars => RetryInv'
      BY DEF retryVars, RetryInv, HonestEnding
  <2> QED BY <2>1, RetryStep
<1> QED BY <1>1, <1>2, PTL DEF RetrySpec

\* Whatever the limit and whatever the component answers, the loop ends as it says it does: with success
\* only when nothing is left to do, and without having asked less often than it may, unless the
\* component or an error stops it (Reconcile).
THEOREM HonestEndingCorrect == RetrySpec => []HonestEnding
<1>1. RetryInv => HonestEnding
    BY DEF RetryInv
<1> QED BY <1>1, RetryInvCorrect, PTL

\* The loop takes finitely many steps, without a limit too: every one of them leaves it fewer.  This is
\* what RetryEnds owes to the loop, the rest is that it runs on (Reconcile).
THEOREM StepsRunOut == RetrySpec => [][FewerLeft]_retryVars
<1>1. RetryInv /\ [RetryNext]_retryVars => [FewerLeft]_retryVars
    BY RetryStep
<1> QED BY <1>1, RetryInvCorrect, PTL DEF RetrySpec
=============================================================================

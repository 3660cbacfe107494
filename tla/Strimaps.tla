------------------------------- MODULE Strimaps -------------------------------
(***************************************************************************)
(* Values of charts: nested maps (Strimap), merged by MergeMaps and looked *)
(* up by Getin; checked against what the leaves of the result ought to be. *)
(***************************************************************************)
EXTENDS Naturals, Sequences, SequencesExt

CONSTANTS
    StrimapKeys,    \* the keys of maps
    StrimapLeaves,  \* the values of the first map that are no maps
    LaterLeaves,    \* those of the second map
    StrimapDepth    \* bound: how deep maps nest

\* What stands for any map, and is no leaf.
AMap == "map"

ASSUME StrimapAssumption == StrimapDepth \in Nat /\ AMap \notin StrimapLeaves \cup LaterLeaves

\* A value is a leaf or a map: a partial function from keys to values.
Leaf(v) == [map |-> FALSE, value |-> v, at |-> <<>>]
Map(f) == [map |-> TRUE, value |-> AMap, at |-> f]

Leaves(leaves) == [map : {FALSE}, value : leaves, at : {<<>>}]
Maps(below) == [map : {TRUE}, value : {AMap}, at : UNION {[keys -> below] : keys \in SUBSET StrimapKeys}]

\* The maps of at most this depth.
MapsOf(leaves, depth) ==
    LET maps[d \in 0 .. depth] == IF d = 0 THEN {} ELSE Maps(Leaves(leaves) \cup maps[d - 1])
    IN  maps[depth]

NestedMaps == MapsOf(StrimapLeaves \cup LaterLeaves, StrimapDepth)

VARIABLES a, b    \* the maps to merge

strimapVars == <<a, b>>

\* Mutant: the second map's value wins even if both are maps.
MergedBug(x, y, merge) == y

\* Two maps are merged; of any two other values the second one counts.
Merged(x, y, merge) == IF x.map /\ y.map THEN merge ELSE y

MergeMaps[x \in NestedMaps] ==
    [y \in NestedMaps |->
        Map([k \in DOMAIN x.at \cup DOMAIN y.at |->
                IF k \notin DOMAIN y.at THEN x.at[k]
                ELSE IF k \notin DOMAIN x.at THEN y.at[k]
                ELSE Merged(x.at[k], y.at[k], MergeMaps[x.at[k]][y.at[k]])])]

\* The map at the end of a path, or nothing if there is none, or if the path is empty.
Nowhere == Leaf("nil")
Getin[m \in NestedMaps] ==
    [path \in Seq(StrimapKeys) |->
        IF path = <<>> \/ Head(path) \notin DOMAIN m.at \/ ~m.at[Head(path)].map THEN Nowhere
        ELSE IF Len(path) = 1 THEN m.at[Head(path)] ELSE Getin[m.at[Head(path)]][Tail(path)]]

NoStrimap == Map(<<>>)

StrimapInit == a \in MapsOf(StrimapLeaves, StrimapDepth) /\ b \in MapsOf(LaterLeaves, StrimapDepth)

-----------------------------------------------------------------------------
(* Correctness *)

\* Every path with what it leads to: a leaf, or a map.
Paths[m \in NestedMaps] ==
    {<<<<>>, AMap>>} \cup
    UNION {IF m.at[k].map THEN {<<<<k>> \o p[1], p[2]>> : p \in Paths[m.at[k]]}
           ELSE {<<<<k>>, m.at[k].value>>} : k \in DOMAIN m.at}

\* Whether a map has the last word on a path: it leads there, or has a leaf in the way.
Decides(m, path) == \E p \in Paths[m] : p[1] = path \/ (p[2] # AMap /\ IsPrefix(p[1], path))

\* What a merge ought to lead to: everything of the second map, and of the first one what the second
\* does not decide.
Expected(x, y) == Paths[y] \cup {p \in Paths[x] : ~Decides(y, p[1])}

\* A merge has what the second map says and keeps what it does not speak of, at every depth; and what
\* is looked up in it is there (MergeMaps and Getin).
MergesRight ==
    /\ Paths[MergeMaps[a][b]] = Expected(a, b)
    /\ \A p \in Paths[MergeMaps[a][b]] :
          p[1] # <<>> => (Getin[MergeMaps[a][b]][p[1]] # Nowhere <=> p[2] = AMap)
=============================================================================

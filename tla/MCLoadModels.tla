--------------------------- MODULE MCLoadModels ---------------------------
(* Files and surfaces for LoadModels. Files: all short lists of corners over
   attributes in which different indices have equal values, absent ones among
   them. Surfaces: two neighbouring cells along each axis in all their cases; one
   cell with corners at isolevel; and one cell with every choice of corners whose
   values are within an epsilon of the others', or at isolevel like them.  *)
EXTENDS LoadModels, SequencesExt

CornerChoices ==
    {[vertex |-> c[1], normal |-> c[2], texcoord |-> c[3]] :
        c \in {<<0, 0, 0>>, <<1, 0, 0>>, <<2, 0, 0>>, <<0, -1, 0>>, <<0, 0, 1>>, <<-1, -1, -1>>}}

FewCorners == {c \in CornerChoices : c.normal = 0 /\ c.texcoord = 0}

MCFiles ==
    {[positions |-> <<7, 8, 7>>, normals |-> <<5>>, texcoords |-> <<3, 3>>, corners |-> c] :
        c \in SeqOf(CornerChoices, 3) \cup SeqOf(FewCorners, 5)}

Grid == (0 .. 2) \X (0 .. 2) \X (0 .. 2)

(* The points of the cells at the origin and next to it along an axis. *)
PairOfCells(axis) == {p \in Grid : \A n \in 1 .. 3 : n # axis => p[n] # 2}

OneCell == {p \in Grid : \A n \in 1 .. 3 : p[n] # 2}

(* Half of the points are three times as far from isolevel, so that edges are cut
   at a quarter, the half and three quarters.                              *)
Deep(p) == IF (p[1] + p[2]) % 2 = 0 THEN 3 ELSE 9

(* The surface with the values v at some points and w at others. *)
Surface(some, v, others, w) ==
    [p \in Grid |-> IF p \in some THEN v ELSE IF p \in others THEN w ELSE Deep(p)]

MCSurfaces ==
    UNION {{[p \in Grid |-> IF p \in inside THEN -Deep(p) ELSE Deep(p)] : inside \in SUBSET PairOfCells(axis)} :
              axis \in 1 .. 3}
    \cup {Surface({inside}, -Deep(inside), at \ {inside}, 0) : at \in SUBSET OneCell, inside \in OneCell}
    \cup {Surface(near, v[1], OneCell, v[2]) :
              near \in SUBSET OneCell, v \in {<<1, 3>>, <<0, 2>>, <<-1, 2>>}}

MCValues == {-9, -3, -1, 0, 1, 2, 3, 9}
=============================================================================

--------------------------- MODULE MarchingCubes ---------------------------
(***************************************************************************)
(* MarchingCubes::generateModel: one cell of the grid after the other is   *)
(* classified by its corners, its triangles are taken from the tables and  *)
(* joined to the mesh. The surface function is sampled at the grid points; *)
(* its values are counted from isolevel in parts of an epsilon, positions  *)
(* from the corner (-1, -1, -1) in Steps to a cell.  Both are taken as     *)
(* exact: the steps divide each edge where interpolation cuts it.          *)
(***************************************************************************)
EXTENDS Integers, Sequences, FiniteSetsExt, Functions, MarchingCubesTables

CONSTANTS
    resolution,   \* cells along a side
    Steps,        \* of a position, along the side of a cell
    Epsilon,      \* numeric_limits<precision_t>::epsilon()
    Surfaces      \* functions from grid points to values

GridPoints == (0 .. resolution) \X (0 .. resolution) \X (0 .. resolution)

VARIABLES
    surface,
    x, y, z,     \* loop variables
    triangles,   \* what polygonise wrote for the last cell
    mesh,        \* vertices, indices, uniqueVertices
    pc

vars == <<surface, x, y, z, triangles, mesh, pc>>

-----------------------------------------------------------------------------
(* Slip: the corners of each face in rows, as quads are built elsewhere. *)
CellCornersInRows ==
    << <<x, y, z + 1>>, <<x + 1, y, z + 1>>, <<x, y, z>>, <<x + 1, y, z>>,
       <<x, y + 1, z + 1>>, <<x + 1, y + 1, z + 1>>, <<x, y + 1, z>>, <<x + 1, y + 1, z>> >>

(* grid.p: corners and edges count from 1, bits and table entries from 0. *)
CellCorners ==
    << <<x, y, z + 1>>, <<x + 1, y, z + 1>>, <<x + 1, y, z>>, <<x, y, z>>,
       <<x, y + 1, z + 1>>, <<x + 1, y + 1, z + 1>>, <<x + 1, y + 1, z>>, <<x, y + 1, z>> >>

CellEdges ==
    << <<1, 2>>, <<2, 3>>, <<3, 4>>, <<4, 1>>, <<5, 6>>, <<6, 7>>, <<7, 8>>, <<8, 5>>,
       <<1, 5>>, <<2, 6>>, <<3, 7>>, <<4, 8>> >>

Inside(p) == surface[p] < Epsilon

CubeIndex(corners) ==
    LET bit(n) == IF Inside(corners[n]) THEN 2 ^ (n - 1) ELSE 0
    IN  bit(1) + bit(2) + bit(3) + bit(4) + bit(5) + bit(6) + bit(7) + bit(8)

CutEdges(cubeIndex) ==
    {e \in 1 .. 12 : (EdgeTable[cubeIndex + 1] \div 2 ^ (e - 1)) % 2 = 1}

Unset == <<-1, -1, -1>>   \* an entry of the local array that polygonise did not write

AtLevel(p) == surface[p] \in -Epsilon .. Epsilon

Flat(p1, p2) == surface[p2] - surface[p1] \in -Epsilon .. Epsilon

(* The point d steps from p1 on the way to p2. *)
Along(p1, p2, d) == [n \in 1 .. 3 |-> Steps * p1[n] + d * (p2[n] - p1[n])]

(* How many of the Steps are a / b. *)
StepsOf(a, b) == IF b > 0 THEN (Steps * a) \div b ELSE (Steps * (-a)) \div (-b)

(* Slip: mu is taken from the other end. *)
InterpolateVectorFromEnd(p1, p2) ==
    IF AtLevel(p1) \/ Flat(p1, p2) THEN Along(p1, p2, 0)
    ELSE IF AtLevel(p2) THEN Along(p1, p2, Steps)
    ELSE Along(p1, p2, StepsOf(surface[p2], surface[p2] - surface[p1]))

InterpolateVector(p1, p2) ==
    IF AtLevel(p1) \/ Flat(p1, p2) THEN Along(p1, p2, 0)
    ELSE IF AtLevel(p2) THEN Along(p1, p2, Steps)
    ELSE Along(p1, p2, StepsOf(-surface[p1], surface[p2] - surface[p1]))

(* The triangles of the cell, each a sequence of three positions. *)
Polygonise ==
    LET corners == CellCorners
        cubeIndex == CubeIndex(corners)
        cut == CutEdges(cubeIndex)
        position == [e \in 1 .. 12 |->
            IF e \in cut
            THEN InterpolateVector(corners[CellEdges[e][1]], corners[CellEdges[e][2]])
            ELSE Unset]
        row == TriTable[cubeIndex + 1]
        n == Min({i \in 0 .. (Len(row) \div 3) : row[3 * i + 1] < 0})
    IN  IF cubeIndex \in {0, 255} THEN <<>>
        ELSE [t \in 1 .. n |-> [k \in 1 .. 3 |-> position[row[3 * (t - 1) + k] + 1]]]

-----------------------------------------------------------------------------
NaN == <<>>   \* differs from everything, itself included

Minus(p, q) == [n \in 1 .. 3 |-> p[n] - q[n]]

Cross(p, q) ==
    <<p[2] * q[3] - p[3] * q[2], p[3] * q[1] - p[1] * q[3], p[1] * q[2] - p[2] * q[1]>>

(* normalize(cross(...)): the direction in lowest terms, NaN for a degenerate triangle.   *)
Normal(t) ==
    LET n == Cross(Minus(t[2], t[1]), Minus(t[3], t[1]))
        divides(d) == \A k \in 1 .. 3 : n[k] % d = 0
    IN  IF n = <<0, 0, 0>> THEN NaN
        ELSE LET d == Max({c \in 1 .. 2 * Steps * Steps : divides(c)}) IN [k \in 1 .. 3 |-> n[k] \div d]

(* A vertex with a NaN in it is never found: it is added each time. *)
AddVertex(m, vertex) ==
    IF vertex.normal = NaN THEN [m EXCEPT !.vertices = Append(@, vertex)]
    ELSE IF vertex \in DOMAIN m.uniqueVertices THEN m
    ELSE [m EXCEPT !.vertices = Append(@, vertex),
                   !.uniqueVertices =
                       [v \in DOMAIN @ \cup {vertex} |-> IF v = vertex THEN Len(m.vertices) ELSE @[v]]]

(* uniqueVertices[vertex], which creates 0 for a key it does not find. *)
NumberOf(m, vertex) == IF vertex.normal = NaN THEN 0 ELSE m.uniqueVertices[vertex]

Vertex(t, k) == [position |-> t[k], normal |-> Normal(t)]

AddTriangle(m, t) ==
    LET vertex == [k \in 1 .. 3 |-> Vertex(t, k)]
        added == AddVertex(AddVertex(AddVertex(m, vertex[1]), vertex[2]), vertex[3])
    IN  [added EXCEPT !.indices = @ \o [k \in 1 .. 3 |-> NumberOf(added, vertex[k])]]

AddTriangles(m, ts) ==
    LET grown[n \in Nat] == IF n = 0 THEN m ELSE AddTriangle(grown[n - 1], ts[n])
    IN  grown[Len(ts)]

-----------------------------------------------------------------------------
Init ==
    /\ surface \in Surfaces
    /\ x = 0 /\ y = 0 /\ z = 0
    /\ triangles = <<>>
    /\ mesh = [vertices |-> <<>>, indices |-> <<>>, uniqueVertices |-> [v \in {} |-> 0]]
    /\ pc = "loop"

(* The next of the nested loops over x, y and z. *)
Advance ==
    \/ /\ z + 1 < resolution
       /\ z' = z + 1
       /\ UNCHANGED <<x, y, pc>>
    \/ /\ z + 1 = resolution /\ y + 1 < resolution
       /\ z' = 0 /\ y' = y + 1
       /\ UNCHANGED <<x, pc>>
    \/ /\ z + 1 = resolution /\ y + 1 = resolution /\ x + 1 < resolution
       /\ z' = 0 /\ y' = 0 /\ x' = x + 1
       /\ UNCHANGED pc
    \/ /\ z + 1 = resolution /\ y + 1 = resolution /\ x + 1 = resolution
       /\ pc' = "built"
       /\ UNCHANGED <<x, y, z>>

GenerateCell ==
    /\ pc = "loop"
    /\ triangles' = Polygonise
    /\ mesh' = AddTriangles(mesh, triangles')
    /\ Advance
    /\ UNCHANGED surface

Next == GenerateCell

Spec == Init /\ [][Next]_vars

-----------------------------------------------------------------------------
PositionOf(n) == mesh.vertices[mesh.indices[n] + 1].position

TriangleStarts == {n \in DOMAIN mesh.indices : n % 3 = 1}

(* How often the mesh has the side from p to q. *)
Count(p, q) ==
    Quantify(DOMAIN mesh.indices, LAMBDA n :
        PositionOf(n) = p /\ PositionOf(IF n % 3 = 0 THEN n - 2 ELSE n + 1) = q)

(* The four corners of an inner or outer face of the grid; x, y, z are axes 1, 2, 3. *)
FaceCorners(p, axis) ==
    {q \in GridPoints : q[axis] = p[axis] /\ \A n \in 1 .. 3 : q[n] - p[n] \in {0, 1}}

(* Two opposite corners are inside and the two others outside: there are two ways
   to join the cuts, and the cells on the two sides may differ.           *)
Ambiguous(corners) ==
    /\ Cardinality({q \in corners : Inside(q)}) = 2 /\ Cardinality(corners) = 4
    /\ \A q, r \in corners : Inside(q) /\ Inside(r) /\ q # r =>
          Quantify(1 .. 3, LAMBDA n : q[n] # r[n]) = 2

OnFace(p, corner, axis) ==
    \A n \in 1 .. 3 : p[n] - Steps * corner[n] \in 0 .. (IF n = axis THEN 0 ELSE Steps)

SharesAmbiguousFace(p, q) ==
    \E corner \in GridPoints, axis \in 1 .. 3 :
        /\ OnFace(p, corner, axis) /\ OnFace(q, corner, axis)
        /\ Ambiguous(FaceCorners(corner, axis))

(* An edge whose ends interpolation takes for one another: between values within an
   epsilon of each other, or both at isolevel, it returns the end it starts from,
   and neighbouring cells start from different ends.                       *)
Unclear(p, q) == Inside(p) # Inside(q) /\ (Flat(p, q) \/ (AtLevel(p) /\ AtLevel(q)))

OnUnclearEdge(v) ==
    \E p \in GridPoints, axis \in 1 .. 3, toward \in {-1, 1} :
        LET q == [p EXCEPT ![axis] = @ + toward]
        IN  v = Along(p, q, 0) /\ q \in GridPoints /\ Unclear(p, q)

OnBorder(p, q) == \E n \in 1 .. 3 : p[n] = q[n] /\ p[n] \in {0, Steps * resolution}

(* Types; an index is that of a vertex. *)
MarchingTypeOK ==
    /\ {x, y, z} \subseteq 0 .. (resolution - 1) /\ pc \in {"loop", "built"}
    /\ \A n \in DOMAIN mesh.indices : mesh.indices[n] \in 0 .. (Len(mesh.vertices) - 1)

(* The two tables agree in every case: triangles are made only of edges for which
   edgeTable has had a point computed, and fit into the array of five
   (marchingcubes.cpp:55, 121-140).                                        *)
TablesAgree ==
    Len(triangles) <= 5 /\ \A t \in DOMAIN triangles : Unset \notin Range(triangles[t])

(* A vertex lies where the surface, taken as linear along an edge of the cell, is at
   isolevel, or at a corner less than two epsilon from it: interpolation never
   extrapolates, nor divides by a difference near zero
   (marchingcubes.cpp:109-117, 144-161).                                   *)
VerticesOnSurface ==
    \A t \in DOMAIN triangles, k \in 1 .. 3 : triangles[t][k] # Unset =>
        LET v == triangles[t][k]
            p == [n \in 1 .. 3 |-> v[n] \div Steps]
            q == [n \in 1 .. 3 |-> (v[n] + Steps - 1) \div Steps]
            d == (v[1] - Steps * p[1]) + (v[2] - Steps * p[2]) + (v[3] - Steps * p[3])
        IN  IF p = q THEN -2 * Epsilon < surface[p] /\ surface[p] < 2 * Epsilon
            ELSE (Steps - d) * surface[p] + d * surface[q] = 0

(* Degenerate triangles have no normal and their vertices get the index 0 each
   (marchingcubes.cpp:62-101); none of them may be drawn between the cell and
   vertex 0: the triangles that are drawn lie within one cell.             *)
NoStrayTriangle ==
    \A n \in TriangleStarts : \A j, k \in n .. (n + 2), axis \in 1 .. 3 :
        PositionOf(j)[axis] - PositionOf(k)[axis] \in -Steps .. Steps

(* The cells, each triangulated by itself, make one surface: every side has its
   reverse as often, so that neighbours fit and all triangles face the same way. A
   side without lies on the border of the grid or on an ambiguous face, or ends on an
   edge that interpolation does not cut clearly (marchingcubes.cpp:24-105, 144-161,
   tables.hpp:44-300).                                                     *)
SurfaceClosed ==
    pc = "built" =>
        \A n \in DOMAIN mesh.indices :
            LET p == PositionOf(n)
                q == PositionOf(IF n % 3 = 0 THEN n - 2 ELSE n + 1)
            IN  \/ Count(p, q) = Count(q, p)
                \/ OnBorder(p, q)
                \/ SharesAmbiguousFace(p, q)
                \/ OnUnclearEdge(p) \/ OnUnclearEdge(q)
=============================================================================

--------------------------- MODULE MeshGeneration ---------------------------
(***************************************************************************)
(* generateModel of the procedural meshes Quad, Terrain and Cube: loops    *)
(* over the squares of a grid, each of which adds the corners that are not *)
(* there yet and two triangles of indices; the Cube has two squares, on    *)
(* opposite faces, per round and three loops.  Coordinates are counted in  *)
(* steps of 1 / resolution, which is exact for the resolutions in use      *)
(* (powers of two); the height of a Terrain corner is named by its index   *)
(* in `values`; the colour is the same everywhere and left out.            *)
(***************************************************************************)
EXTENDS Integers, Sequences, FiniteSets

CONSTANTS
    Kinds,        \* which meshes: "quad", "terrain", "cube"
    Resolutions   \* squares along a side

VARIABLES
    kind, resolution,
    pass,      \* which of the inner loops
    row, col,  \* outer and inner loop variable
    mesh,      \* vertices, indices and uniqueVertices
    pc

vars == <<kind, resolution, pass, row, col, mesh, pc>>

Passes == {"square", "frontBack", "topBottom", "leftRight"}

-----------------------------------------------------------------------------
(* The squares of one round. Corners 1 to 4 of a square are at (row, col),
   (row+1, col), (row, col+1), (row+1, col+1).                             *)
Corner == <<<<row, col>>, <<row + 1, col>>, <<row, col + 1>>, <<row + 1, col + 1>>>>

(* A square whose corner c lies at at[c]. *)
Face(at, normal, order) ==
    [position |-> [n \in 1 .. 4 |-> at[Corner[n]]], normal |-> normal, order |-> order]

QuadSquare == <<Face([c \in Nat \X Nat |-> <<c[1], 0, c[2]>>], <<0, -1, 0>>, <<1, 2, 3, 3, 2, 4>>)>>

(* Which of `values` the four corners take. *)
Heights ==
    <<col * (resolution + 1) + row, col * (resolution + 1) + row + 1,
      (col + 1) * (resolution + 1) + row, (col + 1) * (resolution + 1) + row + 1>>

TerrainSquare ==
    <<[QuadSquare[1] EXCEPT !.position = [n \in 1 .. 4 |-> [@[n] EXCEPT ![2] = Heights[n]]]]>>

FrontBack ==
    <<Face([c \in Nat \X Nat |-> <<c[1], -c[2], 0>>], <<0, 0, -1>>, <<1, 2, 3, 2, 4, 3>>),
      Face([c \in Nat \X Nat |-> <<c[1], -c[2], resolution>>], <<0, 0, 1>>, <<1, 3, 2, 2, 3, 4>>)>>

TopBottom ==
    <<Face([c \in Nat \X Nat |-> <<c[1], -resolution, c[2]>>], <<0, 1, 0>>, <<1, 2, 3, 3, 2, 4>>),
      Face([c \in Nat \X Nat |-> <<c[1], 0, c[2]>>], <<0, -1, 0>>, <<3, 2, 1, 4, 2, 3>>)>>

(* Slip: both faces wound alike. *)
LeftRightAlike ==
    <<Face([c \in Nat \X Nat |-> <<0, -c[1], c[2]>>], <<1, 0, 0>>, <<1, 2, 3, 3, 2, 4>>),
      Face([c \in Nat \X Nat |-> <<resolution, -c[1], c[2]>>], <<-1, 0, 0>>, <<1, 2, 3, 3, 2, 4>>)>>

LeftRight ==
    <<Face([c \in Nat \X Nat |-> <<0, -c[1], c[2]>>], <<1, 0, 0>>, <<1, 2, 3, 3, 2, 4>>),
      Face([c \in Nat \X Nat |-> <<resolution, -c[1], c[2]>>], <<-1, 0, 0>>, <<3, 2, 1, 4, 2, 3>>)>>

Squares ==
    CASE pass = "frontBack" -> FrontBack
      [] pass = "topBottom" -> TopBottom
      [] pass = "leftRight" -> LeftRight
      [] pass = "square" /\ kind = "terrain" -> TerrainSquare
      [] OTHER -> QuadSquare

-----------------------------------------------------------------------------
NoMesh == [vertices |-> <<>>, indices |-> <<>>, uniqueVertices |-> [v \in {} |-> 0]]

Numbered(m, vertex, number) ==
    [m EXCEPT !.vertices = Append(@, vertex),
              !.uniqueVertices = [v \in DOMAIN @ \cup {vertex} |-> IF v = vertex THEN number ELSE @[v]]]

(* Slip: numbered after it is added. *)
AddVertexNumberedLate(m, vertex) ==
    IF vertex \in DOMAIN m.uniqueVertices THEN m ELSE Numbered(m, vertex, Len(m.vertices) + 1)

(* Indices count from 0. *)
AddVertex(m, vertex) ==
    IF vertex \in DOMAIN m.uniqueVertices THEN m ELSE Numbered(m, vertex, Len(m.vertices))

AddSquare(m, face) ==
    LET vertex == [n \in 1 .. 4 |-> [position |-> face.position[n], normal |-> face.normal,
                                     texCoord |-> Corner[n]]]
        added == AddVertex(AddVertex(AddVertex(AddVertex(m, vertex[1]), vertex[2]), vertex[3]), vertex[4])
    IN  [added EXCEPT !.indices = @ \o [n \in 1 .. 6 |-> added.uniqueVertices[vertex[face.order[n]]]]]

AddSquares(m, faces) ==
    IF Len(faces) = 1 THEN AddSquare(m, faces[1]) ELSE AddSquare(AddSquare(m, faces[1]), faces[2])

Init ==
    /\ kind \in Kinds /\ resolution \in Resolutions
    /\ pass = IF kind = "cube" THEN "frontBack" ELSE "square"
    /\ row = 0 /\ col = 0
    /\ mesh = NoMesh
    /\ pc = "loop"

LastColumn == col + 1 = resolution
LastRow == row + 1 = resolution

(* Where the loops go: the Cube does front, back, top and bottom for each x, and
   then left and right.                                                    *)
Advance ==
    \/ /\ ~LastColumn
       /\ col' = col + 1
       /\ UNCHANGED <<pass, row, pc>>
    \/ /\ LastColumn /\ pass = "frontBack"
       /\ pass' = "topBottom" /\ col' = 0
       /\ UNCHANGED <<row, pc>>
    \/ /\ LastColumn /\ pass # "frontBack" /\ ~LastRow
       /\ pass' = (IF pass = "topBottom" THEN "frontBack" ELSE pass)
       /\ row' = row + 1 /\ col' = 0
       /\ UNCHANGED pc
    \/ /\ LastColumn /\ pass = "topBottom" /\ LastRow
       /\ pass' = "leftRight" /\ row' = 0 /\ col' = 0
       /\ UNCHANGED pc
    \/ /\ LastColumn /\ pass \in {"square", "leftRight"} /\ LastRow
       /\ pc' = "built"
       /\ UNCHANGED <<pass, row, col>>

GenerateSquares ==
    /\ pc = "loop"
    /\ mesh' = AddSquares(mesh, Squares)
    /\ Advance
    /\ UNCHANGED <<kind, resolution>>

Next == GenerateSquares

Spec == Init /\ [][Next]_vars

-----------------------------------------------------------------------------
Positions == {mesh.vertices[n].position : n \in DOMAIN mesh.vertices}

(* The corner an index stands for. *)
PositionOf(n) == mesh.vertices[mesh.indices[n] + 1].position

(* The directed sides of triangle t, counted from 0. *)
Sides(t) ==
    {<<PositionOf(3 * t + 1), PositionOf(3 * t + 2)>>, <<PositionOf(3 * t + 2), PositionOf(3 * t + 3)>>,
     <<PositionOf(3 * t + 3), PositionOf(3 * t + 1)>>}

Triangles == 0 .. (Len(mesh.indices) \div 3 - 1)
AllSides == UNION {Sides(t) : t \in Triangles}

OnBorder(p) == {p[1], p[3]} \cap {0, resolution} # {}

(* Types; every index is that of a vertex, and terrain reads heights that exist.  *)
MeshTypeOK ==
    /\ pass \in Passes /\ pc \in {"loop", "built"}
    /\ row \in 0 .. (resolution - 1) /\ col \in 0 .. (resolution - 1)
    /\ \A n \in DOMAIN mesh.indices : mesh.indices[n] \in 0 .. (Len(mesh.vertices) - 1)
    /\ kind = "terrain" => \A p \in Positions : p[2] \in 0 .. ((resolution + 1) * (resolution + 1) - 1)

(* All triangles of a mesh are wound the same way and leave no gap: no directed
   side occurs twice, and a side without its reverse lies on the border of the
   grid; a cube has none. The squares are generated face by face and row by row, in
   six orders of corners (quad.cpp:79-87, terrain.cpp:80-88, cube.cpp:81-89,
   141-149, 206-214, 265-273, 335-343, 394-402).                           *)
SurfaceOriented ==
    pc = "built" =>
        /\ Cardinality(AllSides) = Len(mesh.indices)
        /\ \A side \in AllSides :
              \/ <<side[2], side[1]>> \in AllSides
              \/ kind # "cube" /\ OnBorder(side[1]) /\ OnBorder(side[2])

(* Squares that meet share their corners: one vertex for each point of a grid,
   and on the cube one for each point of each face, where the normals differ
   (quad.cpp:59-77). Terrain squares compute the index of a height for each corner
   anew; they must agree where they meet and use every height
   (terrain.cpp:33-54).                                                    *)
CornersShared ==
    pc = "built" =>
        /\ Len(mesh.vertices) =
             (resolution + 1) * (resolution + 1) * (IF kind = "cube" THEN 6 ELSE 1)
        /\ Cardinality(Positions) =
             IF kind = "cube" THEN 6 * resolution * resolution + 2
             ELSE (resolution + 1) * (resolution + 1)
        /\ kind = "terrain" =>
             {p[2] : p \in Positions} = 0 .. ((resolution + 1) * (resolution + 1) - 1)
=============================================================================

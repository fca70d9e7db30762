----------------------------- MODULE LoadModels -----------------------------
(***************************************************************************)
(* loadEntities makes its models in three ways: from a file, from squares  *)
(* (Quad, Terrain, Cube) and by marching cubes; each ends in the same      *)
(* constructor of Model.  The module runs one of the generators and hands  *)
(* its mesh to ModelUpload.  The variables of the generators that are not  *)
(* used stay as they start.                                                *)
(***************************************************************************)
EXTENDS ModelUpload

CONSTANTS
    Kinds, Resolutions,   \* of MeshGeneration
    cells, Surfaces,      \* of MarchingCubes: cells along a side, surface functions,
    Steps, Epsilon,       \* the units of its positions and values
    Values                \* that surface functions take

VARIABLES
    source,   \* "file", "squares" or "cells"
    squareKind, squareResolution, pass, row, col, squareMesh, squarePc,
    surface, x, y, z, triangles, cellMesh, cellPc

squareVars == <<squareKind, squareResolution, pass, row, col, squareMesh, squarePc>>
cellVars == <<surface, x, y, z, triangles, cellMesh, cellPc>>
vars == <<source, squareVars, cellVars, modelVars>>

Squares == INSTANCE MeshGeneration
    WITH kind <- squareKind, resolution <- squareResolution, mesh <- squareMesh, pc <- squarePc

Cells == INSTANCE MarchingCubes WITH resolution <- cells, mesh <- cellMesh, pc <- cellPc

(* 1 / n has no rounding, nor have its multiples. *)
ExactSteps(n) == \E k \in 0 .. n : n = 2 ^ k

(* Steps are fine enough for the point where any edge meets isolevel. *)
ASSUME GeneratorAssumption ==
    /\ Kinds \subseteq {"quad", "terrain", "cube"}
    /\ Resolutions \subseteq Nat \ {0} /\ \A r \in Resolutions : ExactSteps(r)
    /\ cells \in Nat \ {0, 1} /\ ExactSteps(cells)
    /\ {Steps, Epsilon} \subseteq Nat \ {0} /\ Values \subseteq Int
    /\ Surfaces \subseteq [Cells!GridPoints -> Values]
    /\ \A v, w \in Values : v < -Epsilon /\ Epsilon < w =>
          \E d \in 0 .. Steps : d * (w - v) = Steps * (0 - v)

Unused == <<>>

NoSquares ==
    /\ squareKind = Unused /\ squareResolution = Unused /\ pass = Unused
    /\ row = Unused /\ col = Unused /\ squareMesh = Unused /\ squarePc = Unused

NoCells ==
    /\ surface = Unused /\ x = Unused /\ y = Unused /\ z = Unused
    /\ triangles = Unused /\ cellMesh = Unused /\ cellPc = Unused

Init ==
    /\ ModelInit
    /\ source \in {"file", "squares", "cells"}
    /\ IF source = "squares" THEN Squares!Init ELSE NoSquares
    /\ IF source = "cells" THEN Cells!Init ELSE NoCells

GenerateSquares ==
    /\ source = "squares" /\ Squares!GenerateSquares
    /\ UNCHANGED <<source, cellVars, modelVars>>

GenerateCell ==
    /\ source = "cells" /\ Cells!GenerateCell
    /\ UNCHANGED <<source, squareVars, modelVars>>

LoadFile ==
    /\ source = "file" /\ (LoadModel \/ LoadCorner \/ Loaded)
    /\ UNCHANGED <<source, squareVars, cellVars>>

(* generateModel ends with the builder, which getModel passes on. *)
BuildModel ==
    /\ \/ source = "squares" /\ squarePc = "built" /\ GetModel(squareMesh.vertices, squareMesh.indices)
       \/ source = "cells" /\ cellPc = "built" /\ GetModel(cellMesh.vertices, cellMesh.indices)
    /\ UNCHANGED <<source, squareVars, cellVars>>

UploadModel ==
    /\ MakeBuffers
    /\ UNCHANGED <<source, squareVars, cellVars>>

Next == GenerateSquares \/ GenerateCell \/ LoadFile \/ BuildModel \/ UploadModel

Spec == Init /\ [][Next]_vars

-----------------------------------------------------------------------------
(* The properties of the generators, until the mesh is handed over *)

Generates(s) == source = s /\ pc = "idle"

(* Types; the indices of every mesh are those of its vertices, and terrain reads
   heights that exist (terrain.cpp:33-54).                                 *)
GeneratorTypeOK ==
    /\ Generates("squares") => Squares!MeshTypeOK
    /\ Generates("cells") => Cells!MarchingTypeOK

(* Squares are wound one way and leave no gaps (quad.cpp:79-87, terrain.cpp:80-88,
   cube.cpp:81-89, 141-149, 206-214, 265-273, 335-343, 394-402), and those that meet
   share corners and heights (quad.cpp:59-77, terrain.cpp:33-54).          *)
SquaresJoined == Generates("squares") => Squares!SurfaceOriented /\ Squares!CornersShared

(* The triangles of marching cubes follow the surface: the two tables agree,
   interpolation finds where an edge meets isolevel, to less than two epsilon, and no
   triangle leaves its cell (marchingcubes.cpp:55, 62-101, 109-161).       *)
SurfaceFollowed ==
    Generates("cells") => Cells!TablesAgree /\ Cells!VerticesOnSurface /\ Cells!NoStrayTriangle

(* Each cell is triangulated by itself, and yet neighbours make one surface, except at
   ambiguous faces and next to edges that are hardly cut (marchingcubes.cpp:24-105,
   144-161, tables.hpp:44-300).                                            *)
SurfaceClosed == Generates("cells") => Cells!SurfaceClosed
=============================================================================

---------------------------- MODULE ModelUpload ----------------------------
(***************************************************************************)
(* The making of a Model: loadModel turns the corners of an .obj file into *)
(* distinct vertices and indices, or a procedural mesh hands over its own; *)
(* then createVertexBuffer and createIndexBuffer fill a staging buffer     *)
(* each and have the graphics queue copy it, wait, and let the staging     *)
(* buffer go at the end of the function.  The queue works at its own pace; *)
(* the results of submitting and of waiting are ignored by the code.       *)
(* Vertices are values; an element is copied whole or not at all.          *)
(***************************************************************************)
EXTENDS Integers, Sequences

CONSTANTS
    Files,       \* what tinyobj reads: attributes and corners
    Builders,    \* vertices and indices that procedural meshes hand over
    WordSize,    \* 2^32: the size of a copy is computed in uint32_t
    Garbage      \* memory nobody has written

ElementSize == [vertex |-> 44, index |-> 4]
Corners == [vertex : Int, normal : Int, texcoord : Int]
Vertices == Int \X Int \X Int   \* of a file: what its attributes are, by name

(* tinyobj's indices count from 0; -1 stands for an absent attribute. *)
ASSUME FilesAssumption ==
    \A f \in Files :
        /\ f.positions \in Seq(Int) /\ f.normals \in Seq(Int) /\ f.texcoords \in Seq(Int)
        /\ f.corners \in Seq(Corners)
        /\ \A n \in 1 .. Len(f.corners) :
              /\ f.corners[n].vertex \in -1 .. (Len(f.positions) - 1)
              /\ f.corners[n].normal \in -1 .. (Len(f.normals) - 1)
              /\ f.corners[n].texcoord \in -1 .. (Len(f.texcoords) - 1)

IsMesh(v, i) == \A n \in 1 .. Len(i) : i[n] \in 0 .. (Len(v) - 1)

ASSUME BuildersAssumption ==
    \A b \in Builders :
        b.vertices \in Seq(Vertices) /\ b.indices \in Seq(Int) /\ IsMesh(b.vertices, b.indices)

ASSUME WordAssumption == WordSize \in Nat \ {0}

VARIABLES
    pc, kind,         \* which function, and for which of the two buffers
    file,             \* the file loadModel reads, or NoFile
    vertices, indices,
    uniqueVertices,   \* local of loadModel
    staging,          \* content of the staging buffer, or Gone
    queue,            \* the copy the graphics queue has not executed: <<>> or <<[to, size]>>
    device,           \* content of the device-local buffers
    lost              \* a submission failed or was lost, unnoticed

builder == <<file, vertices, indices, uniqueVertices>>
buffers == <<staging, queue, device, lost>>
modelVars == <<pc, kind, builder, buffers>>

NoFile == [corners |-> <<>>]
Gone == <<>>

-----------------------------------------------------------------------------
(* Model::Builder::loadModel                                               *)

(* Vertex{} is zero where the file has nothing. *)
Attribute(values, index) == IF index >= 0 THEN values[index + 1] ELSE 0

(* The position stands for the colour too, which has the same index. *)
VertexOf(f, corner) ==
    <<Attribute(f.positions, corner.vertex), Attribute(f.normals, corner.normal),
      Attribute(f.texcoords, corner.texcoord)>>

ModelInit ==
    /\ pc = "idle" /\ kind = "vertex"
    /\ file = NoFile
    /\ vertices = <<>> /\ indices = <<>>
    /\ uniqueVertices = [v \in {} |-> 0]
    /\ staging = Gone /\ queue = <<>>
    /\ device = [vertex |-> <<>>, index |-> <<>>]
    /\ lost = FALSE

(* createModelFromFile; LoadObj may fail. *)
LoadModel ==
    /\ pc = "idle"
    /\ file' \in Files
    /\ pc' \in {"load", "thrown"}
    /\ UNCHANGED <<kind, vertices, indices, uniqueVertices, buffers>>

(* Slip: the number is taken after the vertex is added. *)
NumberOfLate(vertex) ==
    IF vertex \in DOMAIN uniqueVertices THEN uniqueVertices[vertex] ELSE Len(vertices) + 1

(* Slip: the corner gets the last vertex, as if it were always a new one. *)
NumberOfLast(vertex) ==
    IF vertex \in DOMAIN uniqueVertices THEN Len(vertices) - 1 ELSE Len(vertices)

(* uniqueVertices[vertex], which is the next index for a new vertex. *)
NumberOf(vertex) ==
    IF vertex \in DOMAIN uniqueVertices THEN uniqueVertices[vertex] ELSE Len(vertices)

LoadCorner ==
    /\ pc = "load" /\ Len(indices) < Len(file.corners)
    /\ LET vertex == VertexOf(file, file.corners[Len(indices) + 1])
           known == DOMAIN uniqueVertices
       IN  /\ vertices' = IF vertex \in known THEN vertices ELSE Append(vertices, vertex)
           /\ uniqueVertices' = [v \in known \cup {vertex} |-> NumberOf(v)]
           /\ indices' = Append(indices, NumberOf(vertex))
    /\ UNCHANGED <<pc, kind, file, buffers>>

Loaded ==
    /\ pc = "load" /\ Len(indices) = Len(file.corners)
    /\ pc' = "create"
    /\ UNCHANGED <<kind, builder, buffers>>

(* ProceduralMesh::getModel. *)
GetModel(v, i) ==
    /\ pc = "idle"
    /\ vertices' = v /\ indices' = i
    /\ pc' = "create"
    /\ UNCHANGED <<kind, file, uniqueVertices, buffers>>

-----------------------------------------------------------------------------
(* createVertexBuffer, createIndexBuffer and Device::copyBuffer            *)

Data(k) == IF k = "vertex" THEN vertices ELSE indices
Count == Len(Data(kind))

(* Slip: the size in elements. *)
CopySizeOfCount(k, count) == count % WordSize

CopySize(k, count) == (ElementSize[k] * count) % WordSize

(* A model without indices has no index buffer. *)
NoIndexBuffer ==
    /\ pc = "create" /\ kind = "index" /\ Count = 0
    /\ pc' = "ready"
    /\ UNCHANGED <<kind, builder, buffers>>

(* The assertions on the counts. *)
TooFew ==
    /\ pc = "create" /\ Count < 3 /\ ~(kind = "index" /\ Count = 0)
    /\ pc' = "aborted"
    /\ UNCHANGED <<kind, builder, buffers>>

(* The staging buffer is made, mapped and written, the other one made. *)
FillStaging ==
    /\ pc = "create" /\ Count >= 3
    /\ staging' = Data(kind)
    /\ device' = [device EXCEPT ![kind] = [n \in 1 .. Count |-> Garbage]]
    /\ pc' = "submit"
    /\ UNCHANGED <<kind, builder, queue, lost>>

(* Either buffer may fail to be created. *)
CreateBufferFails ==
    /\ pc = "create" /\ Count >= 3
    /\ pc' = "thrown"
    /\ UNCHANGED <<kind, builder, buffers>>

(* The staging buffer is not mapped, which only the assertion of writeToBuffer sees. *)
MapFails ==
    /\ pc = "create" /\ Count >= 3
    /\ pc' = "aborted"
    /\ UNCHANGED <<kind, builder, buffers>>

SubmitCopy ==
    /\ pc = "submit"
    /\ \/ queue' = <<[to |-> kind, size |-> CopySize(kind, Count)]>> /\ UNCHANGED lost
       \/ lost' = TRUE /\ UNCHANGED queue
    /\ pc' = "wait"
    /\ UNCHANGED <<kind, builder, staging, device>>

(* The queue copies whole elements as far as the size goes. *)
ExecuteCopy ==
    /\ queue # <<>>
    /\ LET copy == Head(queue)
       IN  device' = [device EXCEPT ![copy.to] =
               [n \in DOMAIN device[copy.to] |->
                   IF n \in DOMAIN staging /\ n * ElementSize[copy.to] <= copy.size
                   THEN staging[n] ELSE device[copy.to][n]]]
    /\ queue' = <<>>
    /\ UNCHANGED <<pc, kind, builder, staging, lost>>

(* The device is lost with the copy on it. *)
LoseCopy ==
    /\ queue # <<>>
    /\ queue' = <<>> /\ lost' = TRUE
    /\ UNCHANGED <<pc, kind, builder, staging, device>>

(* Slip: the command buffer is freed without waiting for the queue. *)
EndSingleTimeCommandsAtOnce ==
    /\ pc = "wait"
    /\ pc' = "release"
    /\ UNCHANGED <<kind, builder, buffers>>

(* vkQueueWaitIdle. *)
EndSingleTimeCommands ==
    /\ pc = "wait" /\ queue = <<>>
    /\ pc' = "release"
    /\ UNCHANGED <<kind, builder, buffers>>

(* The end of the function destroys the staging buffer. *)
ReleaseStaging ==
    /\ pc = "release"
    /\ staging' = Gone
    /\ IF kind = "vertex" THEN pc' = "create" /\ kind' = "index"
       ELSE pc' = "ready" /\ UNCHANGED kind
    /\ UNCHANGED <<builder, queue, device, lost>>

MakeBuffers ==
    \/ NoIndexBuffer \/ TooFew \/ FillStaging \/ CreateBufferFails \/ MapFails \/ SubmitCopy
    \/ ExecuteCopy \/ LoseCopy \/ EndSingleTimeCommands \/ ReleaseStaging

ModelNext ==
    \/ LoadModel \/ LoadCorner \/ Loaded
    \/ \E b \in Builders : GetModel(b.vertices, b.indices)
    \/ MakeBuffers

ModelSpec == ModelInit /\ [][ModelNext]_modelVars

-----------------------------------------------------------------------------
(* Model::bind and Model::draw: the corners of the triangles. *)
Drawn ==
    IF indices = <<>> THEN device.vertex
    ELSE [n \in DOMAIN device.index |->
             IF device.index[n] \in 0 .. (Len(device.vertex) - 1)
             THEN device.vertex[device.index[n] + 1] ELSE Garbage]

Fits == \A k \in {"vertex", "index"} : ElementSize[k] * Len(Data(k)) < WordSize

(* Types; every index is that of a vertex. *)
ModelTypeOK ==
    /\ pc \in {"idle", "load", "create", "submit", "wait", "release", "ready", "thrown", "aborted"}
    /\ kind \in {"vertex", "index"}
    /\ Len(queue) <= 1
    /\ lost \in BOOLEAN
    /\ IsMesh(vertices, indices)

(* loadModel keeps the file: the corners read so far are found again through the
   indices, though equal vertices are stored once (model.cpp:36-76).       *)
CornersKept ==
    file # NoFile =>
        /\ \A n \in 1 .. Len(indices) : vertices[indices[n] + 1] = VertexOf(file, file.corners[n])
        /\ \A j, k \in 1 .. Len(vertices) : j # k => vertices[j] # vertices[k]

(* A copy finds its source: the staging buffer, a local of the function that
   submitted the copy, outlives it (model.cpp:94-111, 121-140, device.cpp:444-447). *)
StagingHeld == queue # <<>> => pc = "wait" /\ queue[1].to = kind /\ staging = Data(kind)

(* A finished model draws what it was made from, if no submission was lost; a model
   whose vertices or indices do not fit the 32 bits of the size does not (model.cpp:111, 140). *)
DrawnAsBuilt ==
    pc = "ready" /\ ~lost /\ Fits =>
        Drawn = IF indices = <<>> THEN vertices ELSE [n \in DOMAIN indices |-> vertices[indices[n] + 1]]
=============================================================================

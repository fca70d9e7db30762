---------------------------- MODULE SceneFrames ----------------------------
(***************************************************************************)
(* What a frame does with the scene: entities are created and put into the *)
(* map by loadEntities; each frame resets the descriptor pool of its slot, *)
(* writes matrices, strengths and lights into the uniform buffer of the    *)
(* slot and lets the texture, simple and billboard systems draw.  The      *)
(* slots come from FramePacing, which the frame loop is shown to implement. *)
(***************************************************************************)
EXTENDS Integers, Sequences, FiniteSets, SequencesExt, FiniteSetsExt, Functions

CONSTANTS
    SlotCount,       \* MAX_FRAMES_IN_FLIGHT
    MaxSets,         \* sets in a frame pool
    IdCount,         \* values of Entity::id_t
    MaxCreated,      \* bound: entities that loadEntities makes, at most MAX_POINT_LIGHTS
    ComponentSets,   \* which components an entity is given
    Distances,       \* squared distances from the camera
    Views            \* matrices of the camera and settings of the panel, in a frame

ASSUME SceneAssumption ==
    /\ {SlotCount, MaxSets, IdCount} \subseteq Nat \ {0} /\ MaxCreated \in 0 .. 8
    /\ ComponentSets \subseteq SUBSET {"TRANSFORM", "MODEL", "POINT_LIGHT", "TEXTURE"}
    /\ Distances \subseteq Nat /\ Views # {}

VARIABLES
    slot, next, running,   \* the ring of slots
    currentId,    \* the static of createEntity
    created,      \* the component sets of all entities made, in order
    entities,     \* Entity::Map: from ids to the entity's number in `created`
    order,        \* the order in which the map is walked
    distance,     \* of each light in this frame
    pool,         \* of each slot: what its sets show, in order of allocation
    ubo,          \* of each uniform buffer: the GlobalUbo in it
    commands,     \* of each slot: what its command buffer refers to, and what it was
                  \* recorded for
    drawn,        \* the draws of this frame: system and id
    pc

ring == <<slot, next, running>>
scene == <<currentId, created, entities, order>>
frame == <<distance, pool, ubo, commands, drawn>>
vars == <<ring, scene, frame, pc>>

Ring == INSTANCE FramePacing
Ids == 0 .. (IdCount - 1)

-----------------------------------------------------------------------------
NoUniforms == [view |-> CHOOSE view \in Views : TRUE, lights |-> <<>>]

(* A command buffer that refers to nothing. *)
Unrecorded == [sets |-> <<>>, textures |-> <<>>, buffer |-> 0, uniforms |-> NoUniforms]

Init ==
    /\ Ring!Init
    /\ currentId = 0 /\ created = <<>> /\ entities = <<>> /\ order = <<>>
    /\ distance = <<>>
    /\ pool = [s \in Ring!Slots |-> <<>>]
    /\ ubo = [s \in Ring!Slots |-> NoUniforms]
    /\ commands = [s \in Ring!Slots |-> Unrecorded]
    /\ drawn = <<>>
    /\ pc = "load"

(* Slip: wider than id_t. *)
NextIdUnwrapped(id) == id + 1

(* currentId++ of a 16 bit unsigned. *)
NextId(id) == (id + 1) % IdCount

(* unordered_map::emplace: an id that is there keeps its entity. *)
Emplace(map, id, e) ==
    [known \in DOMAIN map \cup {id} |-> IF known \in DOMAIN map THEN map[known] ELSE e]

(* One entity of loadEntities: created, given its components, moved into the map. *)
LoadEntity ==
    /\ pc = "load" /\ Len(created) < MaxCreated
    /\ \E components \in ComponentSets : created' = Append(created, components)
    /\ entities' = Emplace(entities, currentId, Len(created) + 1)
    /\ currentId' = NextId(currentId)
    /\ UNCHANGED <<ring, order, frame, pc>>

(* run: the camera entity takes an id but is in no map; the map is complete and
   keeps one order, whichever.                                             *)
StartRun ==
    /\ pc = "load"
    /\ currentId' = NextId(currentId)
    /\ order' \in SetToSeqs(DOMAIN entities)
    /\ pc' = "loop"
    /\ UNCHANGED <<ring, created, entities, frame>>

HasComponent(id, component) == component \in created[entities[id]]

Textured == {id \in DOMAIN entities : HasComponent(id, "MODEL") /\ HasComponent(id, "TEXTURE")}

(* Slip: every model, textured or not. *)
AnyModel == {id \in DOMAIN entities : HasComponent(id, "MODEL")}

Simple == {id \in DOMAIN entities : HasComponent(id, "MODEL") /\ ~HasComponent(id, "TEXTURE")}

Lights == {id \in DOMAIN entities : HasComponent(id, "POINT_LIGHT")}

(* A walk of the map that continues at all but some ids. *)
Walk(ids) ==
    LET upTo[n \in Nat] == IF n = 0 THEN <<>>
                           ELSE IF order[n] \in ids THEN Append(upTo[n - 1], order[n])
                           ELSE upTo[n - 1]
    IN  upTo[Len(order)]

Draw(system, ids) == drawn' = drawn \o [n \in DOMAIN ids |-> <<system, ids[n]>>]

-----------------------------------------------------------------------------
(* Slip: the pool of the slot that comes next. *)
ResetPoolAhead(pools) == [pools EXCEPT ![(next + 1) % SlotCount] = <<>>]

(* Slip: sets are only freed with the pool. *)
ResetPoolNever(pools) == pools

ResetPool(pools) == [pools EXCEPT ![next] = <<>>]

(* beginFrame returned a command buffer; nullptr changes nothing here. *)
BeginFrame ==
    /\ pc = "loop"
    /\ Ring!Begin
    /\ pool' = ResetPool(pool)
    /\ commands' = [commands EXCEPT ![next] = Unrecorded]
    /\ drawn' = <<>>
    /\ pc' = "update"
    /\ UNCHANGED <<scene, distance, ubo>>

(* Slip: one buffer and one set for all frames. *)
UniformBufferShared(s) == 0

(* uboBuffers[frameIndex], and the buffer of globalDescriptorSets[frameIndex]. *)
UniformBuffer(s) == s

(* The GlobalUbo of this frame: what the camera and the panel give, and the
   lights, by BillboardRenderSystem::update. It is written to the buffer of the
   slot, whose set every system binds first. The array has MAX_POINT_LIGHTS
   elements, and MaxCreated keeps to that.                                 *)
Update ==
    /\ pc = "update"
    /\ \E view \in Views :
          LET uniforms == [view |-> view, lights |-> Walk(Lights)]
          IN  /\ ubo' = [ubo EXCEPT ![UniformBuffer(next)] = uniforms]
              /\ commands' = [commands EXCEPT ![next].buffer = UniformBuffer(next),
                                              ![next].uniforms = uniforms]
    /\ pc' = "texture"
    /\ UNCHANGED <<ring, scene, distance, pool, drawn>>

Uninitialised == <<>>   \* a set that build did not allocate

(* DescriptorWriter::build takes a set from the pool of the slot for each entity
   and writes its texture; without room it returns false, which nobody reads. *)
RenderTextured ==
    /\ pc = "texture"
    /\ LET textured == Walk(Textured)
           had == Len(pool[next])
           set == [n \in DOMAIN textured |->
                      IF had + n <= MaxSets THEN <<next, had + n>> ELSE Uninitialised]
       IN  /\ pool' = [pool EXCEPT ![next] =
                          @ \o SubSeq(textured, 1, Min({Len(textured), MaxSets - had}))]
           /\ commands' = [commands EXCEPT ![next].sets = set, ![next].textures = textured]
           /\ Draw("texture", textured)
    /\ pc' = "simple"
    /\ UNCHANGED <<ring, scene, distance, ubo>>

RenderSimple ==
    /\ pc = "simple"
    /\ Draw("simple", Walk(Simple))
    /\ pc' = "billboard"
    /\ UNCHANGED <<ring, scene, distance, pool, ubo, commands>>

(* The map from distances to ids, walked from its end: of lights at one distance
   it keeps the last.                                                      *)
Sorted(by) ==
    LET last(d) == Max({n \in DOMAIN order : order[n] \in DOMAIN by /\ by[order[n]] = d})
        far(d) == {e \in Range(by) : e >= d}
        nth(n) == CHOOSE d \in Range(by) : Cardinality(far(d)) = n
    IN  [n \in 1 .. Cardinality(Range(by)) |-> order[last(nth(n))]]

(* The camera may be anywhere. *)
RenderBillboards ==
    /\ pc = "billboard"
    /\ distance' \in [Range(Walk(Lights)) -> Distances]
    /\ Draw("billboard", Sorted(distance'))
    /\ pc' = "end"
    /\ UNCHANGED <<ring, scene, pool, ubo, commands>>

EndFrame ==
    /\ pc = "end"
    /\ Ring!Submit
    /\ pc' = "loop"
    /\ UNCHANGED <<scene, frame>>

(* The window was closed, or endFrame threw. *)
LeaveRun ==
    /\ pc \in {"loop", "end"}
    /\ Ring!Stop
    /\ pc' = "left"
    /\ UNCHANGED <<scene, frame>>

GpuCompletes ==
    /\ \E s \in Ring!Slots : Ring!Complete(s)
    /\ UNCHANGED <<scene, frame, pc>>

Next ==
    \/ LoadEntity \/ StartRun
    \/ BeginFrame \/ Update \/ RenderTextured \/ RenderSimple \/ RenderBillboards \/ EndFrame
    \/ LeaveRun \/ GpuCompletes

Spec == Init /\ [][Next]_vars

-----------------------------------------------------------------------------
SceneTypeOK ==
    /\ Ring!PacingTypeOK
    /\ currentId \in Ids /\ DOMAIN entities \subseteq Ids
    /\ \A id \in DOMAIN entities : entities[id] \in DOMAIN created
    /\ \A s \in Ring!Slots : Len(pool[s]) <= MaxSets

(* What a submitted command buffer refers to stays as it was recorded: its sets are
   in their pool and show the textures of the entities they were bound for, and its
   uniform buffer holds the matrices, settings and lights of its own frame, although
   every frame writes others (application.cpp:121-146, texturerendersystem.cpp:47-60). *)
SubmittedUnchanged ==
    \A s \in Ring!Slots : slot[s] = "inFlight" =>
        /\ ubo[commands[s].buffer] = commands[s].uniforms
        /\ \A n \in DOMAIN commands[s].sets :
              LET set == commands[s].sets[n]
              IN  set # Uninitialised =>
                      /\ set[2] \in DOMAIN pool[set[1]]
                      /\ pool[set[1]][set[2]] = commands[s].textures[n]

(* "Descriptor pool, cleared each frame" (frameinfo.hpp:53): however long the program
   runs, a frame finds room for as many textured entities as a pool has sets.  *)
PoolSuffices ==
    \A s \in Ring!Slots :
        Len(commands[s].textures) <= MaxSets => Uninitialised \notin Range(commands[s].sets)

(* Every entity with a model that was loaded is drawn once in each frame, by the
   texture system if it has a texture and else by the simple one, as long as there
   were no more entities than ids ("65536 entities should do", entity.hpp:21).  *)
DrawnOnce ==
    pc = "end" /\ Len(created) <= IdCount =>
        \A e \in DOMAIN created :
            LET draws == {n \in DOMAIN drawn :
                             drawn[n][1] # "billboard" /\ entities[drawn[n][2]] = e}
            IN  IF "MODEL" \in created[e]
                THEN /\ Cardinality(draws) = 1
                     /\ \A n \in draws : drawn[n][1] =
                            IF "TEXTURE" \in created[e] THEN "texture" ELSE "simple"
                ELSE draws = {}

Billboards == SelectSeq(drawn, LAMBDA draw : draw[1] = "billboard")

(* "Sort the objects from back to front, for alpha blending to work correctly"
   (billboardrendersystem.cpp:20): the objects are sorted, none of them is lost. *)
AllLightsDrawn ==
    pc = "end" => {Billboards[n][2] : n \in DOMAIN Billboards} = DOMAIN distance
=============================================================================

# Verification of the Vulkan game engine

TLA+ models, TLC runs and TLAPS proofs for the engine in `src/src`. The models
are written from the source; every modelled definition names the lines it stands
for in `PROJECT.json` ("map"). Paths below are relative to `src/src`.

## 1. The system

One host thread runs everything. `main.cpp` constructs `Application`, whose
members are the window, the Vulkan device, the renderer with its swap chain, the
descriptor pools and the entities; `Application::run` loops until the window is
closed. What makes the program hard is that the thread is never alone: the
graphics queue, the present queue, the presentation engine and the window system
all work at their own pace, and the code synchronises with them through fences,
semaphores, a resize flag and return codes.

| component | state | operations | interacts with |
|---|---|---|---|
| `Application::run` (`application.cpp`) | `aspectRatio`, uniform buffers, global sets, render systems, camera | poll, projection, input, frame, exit, exception | all below |
| `Renderer` (`utils/renderer`) | `swapChain`, `commandBuffers`, `isFrameStarted`, `currentFrameIndex`, `currentImageIndex` | `beginFrame`, `endFrame`, render pass, `recreateSwapChain`, `del` | swap chain, window |
| `SwapChain` (`utils/swapchain`) | images, render pass, `currentFrame`, `inFlightFences`, `imagesInFlight`, two semaphore arrays | `acquireNextImage`, `submitCommandBuffers`, creation, `compareSwapFormats` | device queues, presentation engine |
| `Window` (`utils/window`) | cached `width`, `height`, `framebufferResized` | resize callback, `shouldClose` | GLFW, run, renderer |
| `RenderSystem` and its three subclasses (`rendersystems`) | pipeline, layout, stored `renderPass`, `wireframe` | `init`, `render`, `toggleWireframe`; `BillboardRenderSystem::update` | renderer, frame pools, entities |
| `Device` (`utils/device`) | physical and logical device, queues, command pool | selection, buffers, images, single-time commands | everything |
| `Image`, `Texture` | image, view, layout per mip level | upload, transitions, mip generation | device |
| `Buffer`, `Model` | memory, mapped pointer | map, write, flush, staging upload | device |
| descriptors (`utils/descriptors`) | pools and their free sets | allocate, reset, write | run, texture system |
| `Entity` and components | id counter, component map, back pointers | create, add, remove, look up | run, render systems |
| `Camera`, `MovementController` | matrices | setters | run |
| procedural meshes | vertex and index arrays | generation | models |
| ImGui integration | back-end state | init, draw, shutdown | device, render pass |
| `DeletionQueue` (`utils/utils.hpp`) | list of deletors | push, flush (LIFO) | application |

Two rings of the same size must be told apart. `Renderer::currentFrameIndex`
selects what the host writes - command buffer, uniform buffer, global set, frame
pool, together *the slot* - and survives a recreation. `SwapChain::currentFrame`
selects the fence and the semaphores and starts again at 0 in every new swap
chain. The fence that protects a slot is therefore found through a different
index than the slot.

What must be true, per component:

* frame loop - the host never writes a slot the GPU reads; a semaphore is never
  used twice at once; two submissions never draw into the same image; no wait is
  for something that will not happen; the frame assertions hold on every path;
* window and recreation - projection, pipelines and swap chain fit together when
  a frame is recorded; no resize is lost; a close request is obeyed;
* construction and destruction - everything is destroyed once, before what it
  depends on, and not while in use;
* uploads - barriers name the layout an image really has;
* descriptors, lights, entities - bounded resources are not overrun, identities
  are unique, back pointers are valid;
* device selection - only a suitable device is chosen, if there is one.

`PROJECT.json` ("hazards") lists what is hard to test, each at its line, with the
properties that cover it, or why none does.

Creation and destruction are hard in their own way. Handles are plain member
variables that nobody resets; `Renderer`, `SwapChain`, `Image` and `Device` each
have a `del()` that their destructor calls again; a `Model` holds a copy of the
whole `Device`; constructors that throw leave members without a value; and
`~Application` releases some members by hand before the compiler releases the rest
in an order of its own.

## 2. The modules

### FrameSync - the frame loop and its synchronisation

Models one frame from `glfwPollEvents` to the end of `endFrame`: `PollEvents`,
`WaitInFlightFence`, `AcquireImage` / `AcquireFails`, `BeginCommandBuffer`,
`RecordFrame`, `WaitImageFence`, `QueueSubmit` / `QueueSubmitFails`,
`QueuePresent`, `RecreateSwapChain` / `RecreateFails`, and the ways out:
`DrainAfterLoop`, `DestroyRunLocals`, `Teardown`. An action ends where the host
can block or where a Vulkan call takes effect on the device, so everything the
other parties can observe is interleaved; what is not observable (formatting the
submit structures, recording the draws) is part of the step it is in.

Correspondence of state: `isFrameStarted`, `currentFrameIndex`,
`currentImageIndex`, `framebufferResized`, `currentFrame`, `imagesInFlight` are
the members of those names. `fence` is the set of signaled `inFlightFences`;
`imageAvailable` and `renderFinished` are the semaphores; `pending` are the
submissions the graphics queue has not completed, each with its fence, slot and
image; `presentQueue` the presents that still wait for their semaphore.

The device side is modelled from the Vulkan specification, as far as the code
relies on it:

* submissions complete in any order (weaker than a queue guarantees); completion
  consumes imageAvailable and signals renderFinished and the fence in one step;
* presents execute in order; a present that is answered OUT_OF_DATE still waits
  for its semaphore;
* an acquired image is announced by SignalImageAvailable at some later time;
* `vkDeviceWaitIdle` waits for submissions. It is *not* assumed to wait for
  presents. A new swap chain starts with new semaphores and an empty queue; the
  destruction of the old semaphores while presents are queued is not modelled;
* `EarlyAcquire` selects the engine. FALSE: an image is offered only after the
  present before has executed and another has replaced it, as with FIFO. TRUE:
  an image may be offered, and acquired, before the queue has executed its last
  present, which the specification allows because imageAvailable is signaled
  later. It may, but fairness never makes the engine do so.

Every call of `vkAcquireNextImageKHR`, `vkBeginCommandBuffer`, `vkQueueSubmit`,
`vkQueuePresentKHR` and of the swap chain's constructors may fail, and the
program then leaves `run` by an exception; the assertion failures of debug builds
are not modelled since `FrameBracketing` shows that they do not occur.

### FramePacing, FrameSyncPacing - what the frame loop promises

`FramePacing` is the promise made to the code that records frames: a ring of
slots, each free, recording or executing; the host records into the next slot of
the ring only when it is free, at most one at a time; a recording is submitted, or
given up when the program stops; an executing slot becomes free. There are no fences, images,
semaphores, resizes or swap chains in it. `FrameSyncPacing` maps FrameSync to it
(`SlotState` from `pending`, `pc` and `currentFrameIndex`), and TLC checks that
every behaviour of FrameSync, with its fairness, is one of FramePacing.

### FrameSyncProofs - proofs about the frame loop and its refinement (section 4)

### WindowLoop, MCWindowLoop, WindowLoopProofs - resizing, minimising, closing, wireframe

Models the same loop as the window system sees it. `surface` is the true size of
the framebuffer, `resizeEvent`, `inputEvent`, `closeEvent` what GLFW has queued,
`windowExtent` and `framebufferResized` the members of `Window`,
`swapChainExtent` and `format` of the swap chain, `aspectRatio` the
local of `run` (the size stands for the quotient; `SameAspect` compares),
`pipelineFormat` the format the pipelines were made for, `passLive` whether the
render pass the render systems remember still exists, `extent` the local of
`recreateSwapChain`. `Environment` may resize, press a key or request a close
between any two steps of the host; the program sees it only in `PollEvents` and
`WaitEvents`, which call `DispatchEvents` (GLFW and `framebufferResizeCallback`).
Whether the surface dictates the extent or `chooseSwapExtent` clamps that of the
window is fixed by the platform: `Init` chooses it (`currentExtentKnown`). `Window`
caches the size that was asked for, which need not be the one the surface has, so
`Init` chooses the two apart. `recreateSwapChain` waits while the cached extent is
empty and nothing tests the one the surface then dictates: a window minimised in
between has `vkCreateSwapchainKHR` called with 0x0, which in `Rebuild` gives a swap
chain of that extent and in `RebuildFails` the exception. An aspect ratio of 0 or 0/0
goes on or fails the assertion of `setPerspectiveProjection` (`camera.cpp:49`),
according to the build. `StaleNoticed` says that no such swap chain stays unnoticed. The
presentation mode is left out, since nothing in the program depends on it.

The two modules divide the loop: FrameSync lets a resize be noted or not and a
recreation happen, WindowLoop says which sizes and formats go with it and leaves
out fences and images. Both take every outcome of acquire and present. FrameSync
leaves out `toggleWireframe`, which waits for the device before it replaces the
pipeline and changes nothing that module has.

### ImageUpload, ImageUploadProofs - making a texture

Follows `Texture::Texture` from the creation of the image over the two rounds of
`transitionImageLayout` and `copyBufferToImage` (the constructor does both twice)
through the loop of `generateMipmaps` to the view and the sampler. Per mip level
there is `layout`, `content` (the size of the picture the level holds; pixels are
abstracted to it), and whether its last write is `available` and to which accesses
it is `visibleTo`; `i`, `mipWidth`, `mipHeight` are the locals of the loop.
`Barrier` is `vkCmdPipelineBarrier` as far as these calls use it, `TransferTo` a
copy or blit into a level. The upload is sequential: `endSingleTimeCommands`
waits for the queue. What it does not do is look at results: a submission may be lost
(`SubmissionFails`), none of its commands is then executed, and the program goes on as if
they had been. All of `generateMipmaps` is one submission; whether it is lost (`lost`) is
chosen where its recording begins, and its commands take effect, if at all, where
they are recorded, since nothing looks at the levels before the queue is idle. A barrier
that names a layout the level is not in, and a blit from a level without its picture,
leave no picture.

### DeviceSelection, MCDeviceSelection, DeviceSelectionProofs - choosing the physical device

`devices` is what Vulkan enumerates; `RateSuitable`, `RateUnsuitable` and
`RateUnknownType` are one round of `pickPhysicalDevice`'s loop with all of
`rateDeviceSuitability`; `PickBest` and `NoDevices` are its ends. `properties`
(an index instead of the structure) is the member of `Device` that the rating
overwrites for each device. `FindQueueFamilies` is the search loop as a function of the
number of rounds, with 0 for a family without value; families count from 1. The branches for
`..._MAX_ENUM` values, which no driver reports, are left out.

### MeshGeneration - quads, terrains and cubes

`generateModel` of the three meshes made of squares: one step is one round of an
inner loop, which adds one square, or for the cube two on opposite faces.
`AddVertex` is the pattern `if (!uniqueVertices.contains(v))`, `AddSquare` the four
of them with the six `push_back`s, `Squares` the positions, normals and index
orders of each kind of face. `pass` says in which of the cube's three inner loops
the program is. Coordinates are counted in steps of 1 / resolution, which is what the
floats of the code do if the resolution is a power of two, as the 2 and 128 of
`application.cpp` are. LoadModels assumes it (`ExactSteps`): at others, 10 for one, the
right side of a square and the left side of the next may differ by rounding
(`quad.cpp:21-25`), and corners are then not shared.

### MarchingCubes, MarchingCubesTables

`generateModel` of marching cubes, one step for each cell: `CellCorners` samples
the surface function, `Polygonise` with `CubeIndex`, `CutEdges` and
`InterpolateVector` makes the triangles of the cell (`triangles` is the array
passed to it), `AddTriangle` joins them to the mesh. `MarchingCubesTables` holds
the two tables of `tables.hpp`. A value of the surface function is counted from
isolevel in parts of the epsilon of `precision_t`, so that values within an epsilon of
isolevel, or of each other, can be told from the rest: `Inside` is the strict comparison
of the case index, `AtLevel` and `Flat` are the inclusive ones of `interpolateVector`.
Positions are counted in `Steps` to a cell; `InterpolateVector` has the branches of the code
in their order and divides exactly, so rounding and infinite values are left out.
A degenerate triangle has a NaN normal, and since NaN differs from
itself its vertices are added but not found again (`NumberOf`).

### ModelUpload - making a model

`LoadModel`, `LoadCorner` and `Loaded` are `Model::Builder::loadModel`, one corner
of the file a step, with `uniqueVertices` the local of that name; `GetModel` is
where a procedural mesh hands its builder over instead. Then, once for the
vertices and once for the indices (`kind`), `FillStaging`, `SubmitCopy`,
`EndSingleTimeCommands` and `ReleaseStaging` follow `createVertexBuffer`,
`createIndexBuffer` and `copyBuffer`, with the assertions on the counts (`TooFew`)
and failures to create a buffer. The graphics queue is an actor of its own:
`ExecuteCopy` reads the staging buffer at the time it runs, so that a buffer
released too early would be noticed, and `LoseCopy` is the loss of the device, which
the code does not look at any more than at a failed submission; `lost` remembers
either. A staging buffer that cannot be mapped ends the program (`MapFails`): the result
of `map` is ignored, and `writeToBuffer` asserts that there is something to write to.
`staging`, `device` hold the contents of the buffers, `Garbage` what nobody has written. The size of a copy is computed in 32 bits (`CopySize`), while the buffer
itself is sized in 64.

A vertex is the triple of what its attributes are; equality of floats is that of
names, so a NaN in a file is left out. The position stands for the colour too, which
has the same index.

### LoadModels, MCLoadModels, LoadModelsProofs - the composition with the generators

`loadEntities` makes models from files, from squares and by marching cubes.
`LoadModels` extends ModelUpload, instantiates MeshGeneration and MarchingCubes as
`Squares` and `Cells`, runs one of the three (`source`) and hands its mesh to the
same constructor of `Model` (`BuildModel`). Its properties of the generators are
those of their modules, as long as the generator runs: `GeneratorTypeOK`,
`SquaresJoined`, `SurfaceFollowed`, `SurfaceClosed`. What MeshGeneration and
MarchingCubes build are meshes in the sense `IsMesh` of the upload, which is what
`ModelTypeOK` checks at the hand-over; so `DrawnAsBuilt` says of every kind of model
that the surface the generators make is the one the GPU draws. The proofs about the
generators, the making of a model and their composition are one module, since the
composition needs all of them.

### Lifetimes, LifetimesProofs - construction, replacement, destruction

Follows every Vulkan object from `Application app {}` in `main` to the end of the
process. A handle is `<<owner, type, part>>`, the variable that holds it; `status`
says whether it was ever assigned, and whether its object is live or dead. Since
variables are not reset, a dead handle's value may be given to the next object of its
type: it is then `recycled`, and a destruction through it hits somebody else's
object (`stray`).

What a constructor or a destructor does is a sequence of calls in `todo`, taken one
by one (`CreateNext`, `DestroyNext`). The sequences are written as the code nests:
`ChainDel` is `SwapChain::del`, `ChainGone` is `~SwapChain` with its images,
`SystemGone` is `~RenderSystem` after the derived class, `RunGone` the locals of
`run` in reverse as far as they exist, `ApplicationGone` and `MembersGone` the two
parts of `~Application`. `DeletionQueue` appears as what `flush` finds in it.
`CreateFails` may hit any creation: in the constructor of `Application` it ends the
program, since `main` constructs outside its `try`; later it unwinds what exists, with
the handle it failed at in `failed`. Destroying a handle that was never assigned, is
dead, or whose device is gone is undefined in Vulkan: `DestroyNext` may end in
`undefined`, or go on as if the driver had ignored it.

The phases are `construct`, `enter` (run up to its loop), `loop`, `toggle` (F5),
`recreate`, `leave` (out of `run`, regularly or by an exception), `destroy`,
`entities` (the map in any order), `members`. Only the handles of one swap chain's
images, of one vertex and one index buffer and of one set of frame semaphores stand for
the arrays of them; staging buffers and single-time command buffers, which do not
outlive their function, are ModelUpload's. The debug messenger of debug builds is left out.

### SceneFrames, MCSceneFrames, SceneFramesProofs - entities, descriptor sets and draws

`LoadEntity` is one entity of `loadEntities`, with `currentId` the static of
`createEntity` and `entities` the map; `StartRun` fixes the order in which the
unordered map is walked. Then, per frame, `BeginFrame` with `resetPool`, `Update`
(the matrices of the camera, the settings of the panel and the lights into the uniform
buffer of the slot), the three `render`s, and `EndFrame`. The matrices and settings of a
frame are one of `Views`, chosen anew in each. `pool` is what the sets of each frame pool
show, `ubo` what each uniform buffer holds, `commands` what the command buffer of each slot
refers to: the sets it binds, the uniform buffer, and what both were to show when it was
recorded. The slots are
not modelled again: the module instantiates `FramePacing` and builds its steps on
`Begin`, `Submit`, `Complete` and `Stop`, which FrameSync is shown to implement
(`frame_loop`). What SceneFrames shows of submitted frames thus rests on the ring,
and the ring on the fences.

### InductionProofs

What the other proofs need of the natural numbers: every non-empty set of them has a
least element, induction, primitive recursion, and facts about division and powers of two.
The library states induction for a predicate that is a parameter, which no prover
here can instantiate; this module states it for a set of numbers (`LeastNatural`,
`NaturalInduction`) and recursion for a function on pairs (`PrimitiveRecursion`), which can be
cited. Both rest on the library's theorem that strict inclusion of finite sets is well
founded.

Where a module has a variant of a definition named as a slip of it, that is a
plausible mistake in the code; "mutants" in `PROJECT.json` says which property
notices it. Slips are not part of any specification.

## 3. The runs

| run | module, cfg | checks |
|---|---|---|
| `frame_loop` | FrameSyncPacing, FrameSync.cfg: 3 frames, 2 images, EarlyAcquire | `SlotExclusive AcquireSemaphoreFree ImageExclusive FrameBracketing IndInv ImplementsPacing IterationEnds SubmissionsComplete ResizeHonoured` |
| `frame_semaphore` | FrameSync, 3 frames, 4 images | `RenderFinishedFree`: violated, see findings |
| `frame_exception` | FrameSync | `RunLocalsUnused`: violated, see findings |
| `window_loop` | MCWindowLoop, 4 sizes, 3 resizes | `LoopTypeOK AspectMatches StaleNoticed PipelinesCompatible ResizeSettles CloseHonoured` |
| `window_render_pass` | MCWindowLoop | `PipelineFromLivePass`: violated, see findings |
| `texture_upload` | ImageUpload, 81 sizes | `UploadTypeOK LayoutsNamed BlitWholeLevels TextureReady` |
| `device_selection` | MCDeviceSelection, at most 2 devices | `BestTaken FamiliesFound` |
| `device_suitable` | MCDeviceSelection | `OnlySuitableTaken`: violated, see findings |
| `scene_frames` | MCSceneFrames, 2 slots, 4 entities | `SceneTypeOK SubmittedUnchanged PoolSuffices DrawnOnce` |
| `scene_lights` | MCSceneFrames | `AllLightsDrawn`: violated, see findings |
| `lifetimes` | Lifetimes, 3 frames, 5 models, 1 texture | `LifetimesTypeOK FrameHandlesLive NoStrayCalls ReleasedBeforeDevice DestroyedOnce CleanExit` |
| `load_models` | MCLoadModels, 583 files, 9 grids of squares, 12,977 surfaces | `ModelTypeOK CornersKept StagingHeld DrawnAsBuilt GeneratorTypeOK SquaresJoined SurfaceFollowed SurfaceClosed` |

`TypeOK` and `FencesOwned` of FrameSync are conjuncts of `IndInv`.

Bounds. `MAX_FRAMES_IN_FLIGHT` is 3 in the code. FrameSync has no
other bound: its state is finite as it is, since images and fences limit the
queues. `frame_loop` takes two images, so that the host waits for images
as well as for slots, and an engine that may offer them early, so that
an image can be acquired while its last submission is pending, which is what
imagesInFlight is for. What depends on there being more images than frames is
`RenderFinishedFree`, and `frame_semaphore` takes four images for it; the other safety
properties are proved for every number of images. WindowLoop is bounded by
`MaxResizes`; four sizes are enough to have a minimised window, two sizes of the
same aspect ratio and one of another, and three resizes to minimise, restore and
resize within one recreation.

The sides of a texture are 1 to 5, 7, 8, 9 and 33 in all pairs: a power of two, one
less and one more, a side that reaches 1 long before the other, and an image of a
single level. Levels are counted up to 2^30, since stb_image gives sizes as `int`.
`ImageUpload`, `DeviceSelection` and `LoadModels` stop when they are done, so their
runs do not check deadlock; `Lifetimes` has `Ended` for that. Frames stop when the program
does, hence the same for `scene_frames`. Two devices suffice for the choice, which compares ratings
pairwise; each has up to two queue families of all eight kinds, so one family
may serve both purposes, each its own, or neither.

The files of `load_models` are all lists of up to three corners of six kinds - two
positions with equal values, an absent normal, a second texture coordinate of the same
value, a corner with nothing - and of up to five corners of three kinds, so that
vertices are new, found again, and equal under other indices in every order. `WordSize` is
4096 in place of 2^32: 44 bytes a vertex, it is exceeded by a mesh of 94 vertices, so
that the run contains models whose copy is cut short, of which `DrawnAsBuilt` claims
nothing, beside those that fit. `lifetimes` has the numbers of the program; one swap chain
beside its predecessor is all there ever are.

Resolutions 1, 2 and 4 have squares with no, one and two inner sides. The surfaces put two
neighbouring cells, along each axis, through all their
4,096 cases, and give one cell any set of corners at isolevel with one inside, so
each of the 254 rows of the tables is used and each pair that can meet at a face
meets. Half of the points are three times as far from isolevel as the others, and with
four `Steps` edges are cut at a quarter, the half and three quarters. In one more cell any
corners are near isolevel: with `Epsilon` 2 they have 1 beside 3, 0 beside 2 or -1 beside 2,
so that the ends of an edge are on two sides of isolevel and yet within an epsilon of each
other, or both at isolevel. In `scene_frames` a pool has two sets and the ids wrap after three, so that
four entities overrun both; two views tell what a frame has written from what another
has; `PoolSuffices` and `DrawnOnce` claim nothing for the
overrun itself. `MaxCreated` stays below MAX_POINT_LIGHTS (8), as the lights of
the application do; `update` has no such bound.

Fairness. The host thread is weakly fair: it is an ordinary thread, and each of
its actions is enabled when the call it stands for can return. The one call that can
fail while it could also go on waiting is the acquire, which has no timeout: fairness
leaves it alone while no image is offered (`AcquireCanReturn`), so that
`IterationEnds` rests on an image being given back and not on an error. Completion of
each submission, of the oldest present, of the release of some image whose present has
executed and of each imageAvailable signal are weakly fair: Vulkan guarantees forward
progress of queues and of acquired images. The engine owes no image earlier than that, so
the acquire really waits for the present, the present for the submission and the
submission for imageAvailable. No outcome of a call is fair, so failures may
happen for ever or never. In WindowLoop only the host is fair. `ResizeSettles`
and `CloseHonoured` assume that input events keep coming, since the code may sit
in `glfwWaitEvents` with the new extent not yet read (`renderer.cpp:106-107`
reads it before the wait); `CloseHonoured` also assumes that the window is not
minimised for ever, since the minimised loop does not look at `shouldClose`.

## 4. The proofs

`FrameSyncProofs` proves, for every number of frames and images and both kinds of
engine, that `Spec` implies `[]` of `TypeOK`, `SlotExclusive`,
`AcquireSemaphoreFree`, `ImageExclusive`, `FencesOwned` and `FrameBracketing`.
Assumptions: `FramesAssumption` (at least one frame), `ImagesAssumption` (at
least two images), `EarlyAssumption`, and `NullAssumption` (the null handle is
no fence). Fairness is not used.

None of the safety properties is inductive. `SlotExclusive` speaks about slots,
but the code protects fences; that a signaled fence means a free slot follows
only from how the two rings move. The inductive invariant `IndInv` has

* `FenceGuards` - a pending submission's fence is unsignaled and its own;
* `FencesOwned` - an unsignaled fence has a pending submission;
* `SameOffset` - slot and fence of every pending submission differ by as much,
  modulo the ring, as the two current indices: every path of `endFrame` that
  advances one advances the other, except between the present and the end
  of a recreation, which is exempt; the recreation itself can reset one index
  alone because `vkDeviceWaitIdle` has left nothing pending;
* `FenceWaited` - from the wait to the submission the fence stays signaled;
* `SemaphoreInUse` - imageAvailable is in use only between an acquire and the
  completion of its submission;
* `ImageFence` - imagesInFlight names the fence of whatever uses an image.

The ring arithmetic is in `NextFrameValue` and `OffsetKept`; `InitIndInv`,
`TypeStep` and `IndInvStep` (one step per action, one more level where an
action disturbs a conjunct) give `Invariance`; the properties follow from
`IndInv`. `FrameBracketing` is inductive with `TypeOK` alone. TLC checks `IndInv`
in `frame_loop`.

`ImageUploadProofs` proves, for all sizes an `int` can give and therefore all numbers of mip
levels, that `Spec` implies `[]` of `UploadTypeOK`, `LayoutInv`, `LayoutsNamed`, `PictureInv`,
`BlitWholeLevels` and `TextureReady`, from `ExtentsAssumption` alone. `LayoutsNamed` speaks
only of the level at hand; `LayoutInv` adds that the levels behind the loop are readable by
shaders and those ahead of it ready to be written. What the levels are and hold is said as
long as no submission was lost; sizes and indices are right in any case. `PictureInv` says what the levels hold:
behind the loop each has the picture of its own size and is visible to shaders, ahead
of it each is writable, and the running size is that of the level filled last. It needs
three facts about halving, by induction: the number of levels reaches the larger side
(`MipLevelsValue`), half a level's side is the side of the next (`NextLevelSide`), and the last
level is one pixel (`LastLevelExtent`).

`LoadModelsProofs` proves every property of the `load_models` run but one, for files,
grids and surfaces of every size, and every power of two as resolution: `Spec` of the composition implies `[]` of
`ModelTypeOK`, `CornersKept`, `StagingHeld`, `DrawnAsBuilt`, `GeneratorTypeOK`,
`SquaresJoined` and `SurfaceFollowed`. Its assumptions are `FilesAssumption` (tinyobj's
indices are those of its arrays, or -1), `WordAssumption` and `GeneratorAssumption`
(resolutions that are powers of two, at least one square and two cells, and `Steps` fine
enough for each edge to be cut at one of them). It has three parts.

*The making of a model.* `ModelInv` is proved for the steps of ModelUpload with any mesh
handed over whose indices are those of its vertices (`AnyModelNext`, `HandOver`). From it
follow both the four properties for `ModelSpec`, which takes the meshes from the constant
`Builders` (`BuildersAssumption`), and those for the composition, where
`SquareMeshIsMesh` and `CellMeshIsMesh` show that what the generators hand over is such a
mesh. So `BuildersAssumption` is not assumed of the generators but proved. `ModelInv` has

* `LoadInv` - `uniqueVertices` is the inverse of `vertices`: it knows exactly the vertices
  stored, each by its place. `CornersKept` alone is not inductive, since the next corner is
  looked up in the map, not in the array;
* `StagingInv` - from filling to waiting the staging buffer holds the data, and a copy on
  the queue is the one just submitted, with its size; hence `StagingHeld`;
* `DeviceInv` - a device buffer is garbage until its copy has run, and the data from then
  on, if nothing was lost and the sizes fit. `CopyWhole` is its arithmetic: a size that
  did not wrap covers every element.

*Squares.* `SurfaceOriented` and `CornersShared` only speak of the finished mesh; the
invariant `SquaresInv` says what the mesh is after every round. `Done` are the squares the
loops have visited, counted by face, row and column from `pass`, `row` and `col`, and
`Generated` says: the index list is six long for each of them, the map of vertices knows
exactly their corners, and the directed sides of the triangles are exactly theirs. `MeshOf` is
the inverse relation of `vertices` and `uniqueVertices`. `AddSquareGrows` and `AddSquareGenerates` are one call of
`AddSquare`; `RoundFaces` and `SquaresStep` put two of them and the three loops of the cube
together. When the loops end all squares are done, and the rest is geometry: no side
occurs twice (`SidesCounted`: the six sides of a square, its row, column and face can be
told from a side), every side has its reverse in the same square, in the neighbour, or
across one of the twelve edges of the cube (`ReverseAcross`), and the points of the six
faces are 6 * resolution^2 + 2 (`PartsAre` divides the cube into six disjoint parts).

*Marching cubes.* `TablesFit` goes through the 255 rows of both tables (`Cases0` to
`Cases240`, sixteen rows each; with all corners inside the code returns before it uses them): each bit of `edgeTable` is set exactly if one of the two corners of its edge is
inside, and a row of `triTable` has at most four triangles, all of edges that are cut.
`CubeIndexIs` connects the sum of powers of two with the corners, so that `PolygoniseFits` holds: no
triangle has a point that was not computed, each point lies on an edge of the cell
(`OnCellEdge`), and the points of a triangle are close to each other. Each is where
the edge meets isolevel or a corner less than two epsilon from it (`OnSurface`): that is
the arithmetic of `Interpolated`, with `StepAlong` for the division, and the reason why the
epsilon branches, which may return an end that is not at isolevel, do no more harm than that. `CellsInv` adds the mesh: `MeshFits` says that `uniqueVertices` numbers the vertices it
knows and that each three indices are one triangle within a cell, which a degenerate triangle is
too, because its three NaN vertices all get the number 0 and so fall into one point.
`AddTriangles` is a recursive function; `TrianglesAreAdded` obtains its equations from
`PrimitiveRecursion`.

`FrameSyncProofs` also proves that FrameSync implements the safety part of FramePacing
(`PacingSafety`), with no assumptions beyond those of FrameSync: `Init` maps to
`Pacing!Init`, an acquire to `Begin`, a submission to `Submit`, a completion to
`Complete`, whatever leaves the loop to `Stop`, and everything else changes nothing the
ring shows (`Hidden`). `IndInv` is strengthened by `SlotsDistinct`, a slot has at most one
submission, without which a completion need not free its slot. SceneFrames stands on this.

`WindowLoopProofs` proves `LoopTypeOK`, `AspectMatches`, `StaleNoticed` and
`PipelinesCompatible` for all
sizes, formats and numbers of resizes, from `SizesAssumption` and `SurfaceAssumption`. The
latter says that an open window is no smaller than the surface's minImageExtent:
otherwise `chooseSwapExtent` would clamp the extent to one that is no size of the
window (`ChosenExtentIs` is where this is used). `WindowInv` adds to the
properties where each is true while a swap chain is being replaced: the cached size to
rebuild for is not empty, the aspect ratio is current from the projection on, and only
the exception leaves pipelines behind that do not fit. `SizesKnown` carries
`StaleNoticed`: the cached extent is the surface's or a resize is queued, and the extent
read by `recreateSwapChain` is the cached one or the flag is set again.

`DeviceSelectionProofs` proves `BestTaken` for any number of
devices, from `DevicesAssumption`. `ScoresInv` describes the map of scores after each
round: it has the score of every device rated so far, and each entry names a device that
has it, though a later device of the same score replaces an earlier one. `PickedInv`
follows at the end, since a maximum is taken; `RatingPositive` makes every suitable
device beat the 0 of an unsuitable one. `FamiliesFound` is proved by induction over the
families, for lists of any length: after each round the indices are those of families that
can do what is asked, and missing only if none so far can (`Known`); the early end of the
search loses nothing, since it comes when both are found.

`SceneFramesProofs` proves `SceneTypeOK`, `SubmittedUnchanged`, `PoolSuffices` and
`DrawnOnce` for every number of slots, sets per pool, ids, entities and distances, from
`SceneAssumption`. `SceneInv` has

* `Numbered` - ids are given out in order and the walk of the map meets each entity once,
  as long as the ids have not wrapped;
* `Bound` - the n-th set of a recorded command buffer is the n-th of its slot's pool and
  still shows the texture it was bound for, and the uniform buffer it binds holds the
  view and the lights it was recorded with. This holds for the slot being recorded as well as for those
  executing, which is why the next `resetPool` and `Update` do no harm: the ring gives them
  a slot that is free;
* `Drawn` - what has been drawn is the walk of each system that has rendered.

The ring's part is that of FramePacing, unfolded where a step uses it. A walk is a
recursive function over the map; `WalkSteps` gives its equations by primitive recursion and
`WalkVisits` what it visits, by induction. `DrawnOnce` then says that the three systems
together visit each model once.

`LifetimesProofs` proves every property of the `lifetimes` run, for any number of frames,
models and textures, from `LifetimesAssumption` only. None of them is inductive:
whether a call is a stray depends on what has happened to its handle in all phases before,
and on which calls are still to come. `LifeInv` adds to the properties

* `PhaseInv` - for each phase, what is live, which calls may be left in `todo` and
  that whatever else is live has its call. While `run` is entered or F5 rebuilds
  pipelines the order of the calls matters too, because a failure half-way
  destroys only what exists: `RunRank` and `ToggleRank` number the calls, and `todo` is
  the last of them (`LastOf`). In `~Application` it matters because of the device
  (`DeviceLast`);
* `RecycledOK` - only the handles of the pipelines that F5 rebuilds can have been given
  away, and none still is once its pipeline is made again;
* `FailedOK`, `ChainOK` - a failure that does not end the program at once is one of `run`
  or of a recreation, and only the latter leaves `swapChain` null;
* `CallsOK` - no call to come destroys what was given away, and none destroys an object with
  one owner that is dead or has another call.

Most of the module is about lists: what the sequences of constructors and destructors
contain, that they have no call twice, and that unwinding `run` from a state as a failure
leaves it (`Orderly`: every object but the failed one whole or never made, at most one
pipeline under reconstruction) destroys what is there. Sequences nested by `FlattenSeq` are taken
apart by `JoinSteps`, from the same primitive recursion.

Only model-checked: liveness and the fairness of FramePacing, which are out of the prover's
reach, and `SurfaceClosed`. Its statement compares, for the finished grid, how often each
side is used in each direction. For that, which sides of two cells meet would have to be
known for each of the 4,096 pairs of rows of `triTable` that share a face, along each axis, and then
counted over a mesh in which degenerate triangles are folded together; TLC goes through
those pairs, and the proof would be the same enumeration by hand. What it needs of a single
cell is proved: its triangles are made of the edges that are cut, and end on the surface.
Both exceptions of `SurfaceClosed`, ambiguous faces and edges that are hardly cut, are met
in the run, and without either it does not hold.

## 5. Findings

* `RenderFinishedFree`: the comment at `swapchain.cpp:152-155` says the implementation may
  create more images than asked for, and everything kept per image is sized for it. The
  renderFinished semaphores are kept per frame. A frame waits for the fence of the frame
  that used its semaphore last, which says nothing of the present that waits for the
  semaphore; with no more images than frames the images run out first, with four images and
  three frames they do not, and a semaphore is signaled while a present still waits for it.
* `RunLocalsUnused`: the comment at `application.cpp:162` says resources are
  destroyed after the device is idle. An exception that leaves `run` destroys
  the uniform buffers, pipelines and the set layout first; only `~Application`
  waits, later.
* `PipelineFromLivePass`: `RenderSystem` keeps the render pass of the first swap
  chain. After any recreation F5 creates a pipeline with a destroyed handle, which the
  assertion of `pipeline.cpp:39-40` cannot see.
* `OnlySuitableTaken`: `device.cpp:107` throws "Failed to find a suitable
  device!" when no score was stored, but an unsuitable device is stored with
  score 0. With no suitable device the program goes on with an unsuitable one,
  and with queue families that were never found.
* `AllLightsDrawn`: `billboardrendersystem.cpp:20` sorts the lights "from back to
  front" in a map keyed by distance, which keeps one light of each distance.

Seen while modelling, too small for a run of their own: the exception at
`renderer.cpp:115` speaks of a changed presentation mode, but `compareSwapFormats`
compares the two formats only; `quad.cpp:14` and `cube.cpp:15` reserve space for
the number of squares, which is less than the number of corners, so the
reallocations the comment means to avoid still happen.

Seen in Lifetimes, where the properties name them as exceptions: every recreation
destroys the images' views, images and memory of the old swap chain twice, once by
`SwapChain::del` and once by `~Image`; at the end of the program `Renderer::del`, the
device and the swap chain are released by hand and again by their destructors, the
device a further time by every `Model`'s copy, and entities and ImGui's back ends only
after the device. After a recreation that failed, `~Application` calls `del` on a null
`swapChain`. A render system whose layout could not be created destroys an uninitialised
`pipelineLayout`; one whose pipeline could not be created leaks shader modules. When
`run` throws before `initImGUI`, back ends are shut down that were never started.

Seen with nothing in the repository to compare it with:
`glfwInit` is called inside an assertion (`window.cpp:16`) and vanishes with NDEBUG; a
surface function without a crossing gives a mesh without vertices, which the assertion of
`createVertexBuffer` rejects; for a window minimised between the test of its
cached extent and the query of the surface a swap chain of extent 0 is asked for
(`swapchain.cpp:149, 355`), and if one is made, the assertion of `camera.cpp:49`, "Aspect
ratio cannot be zero or negative!", may fail in the next iteration; a window that did not
get the size it asked for, on a surface that leaves the extent to the program, is drawn
in the size that was asked for until the first resize (`SizeAsked`); the
normals of four faces of the cube point inwards; marching cubes leaks its
triangle array for every cell without triangles, and its mesh may have holes at
ambiguous faces; it may also have cracks at an edge on two sides of isolevel whose ends are
within an epsilon of each other or both at isolevel (`Unclear`), since `interpolateVector`
returns the end it is given first and neighbouring cells give it different ends
(`marchingcubes.cpp:123-134, 151-152`).

## 6. Not modelled, and the plan

Not modelled: camera and movement (real-valued), shader code, the widgets of the ImGui
panel, and everything under `src/libs` (third-party code, some 435,000 of the
repository's 440,000 lines), which appears only as the callee of modelled code. Of the
engine's own lines the map covers about 42 percent; the rest is filling in
structures with constants, accessors, matrices and the user interface.

Left out of components that are otherwise modelled, because nothing in the program
calls it or no property depends on it: partial writes, flushes and alignments of `Buffer`
(every buffer is created with alignment 1 and written whole), `freeDescriptors`,
`removeComponent`, `findMemoryType` and `findSupportedFormat` (searches that throw when
they find nothing, which the models have as a failed creation), validation layers and the
presentation mode. `update` writes lights past MAX_POINT_LIGHTS without a bound; the
application has fewer, and no line promises more, so it is listed as a hazard without a
property.

All modules of the plan exist: FrameSync with FramePacing, WindowLoop, ImageUpload,
SceneFrames, DeviceSelection, MeshGeneration, MarchingCubes, Lifetimes, ModelUpload and
LoadModels.

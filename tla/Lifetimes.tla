----------------------------- MODULE Lifetimes -----------------------------
(***************************************************************************)
(* Who creates and who destroys the Vulkan objects, from `Application app` *)
(* in main to its destructor: constructors that fail half way, the swap    *)
(* chain that is replaced while the old one is alive, pipelines rebuilt in *)
(* place, locals of run unwound on every exit, and a destructor that calls *)
(* del() on objects whose own destructors call it again.                   *)
(*                                                                         *)
(* A handle is <<owner, type, part>>, the member variable that holds it.   *)
(* Destroying an object does not reset the variable: it is "dead", and     *)
(* once another object of the type is created the driver may have given    *)
(* the value away: the variable is "recycled", and destroying through it   *)
(* destroys somebody else's object.                                        *)
(*                                                                         *)
(* Constructors and destructors are sequences of calls in `todo`, taken    *)
(* one by one; any creation may fail, which throws.                        *)
(***************************************************************************)
EXTENDS Naturals, Sequences, SequencesExt

CONSTANTS
    FrameCount,     \* MAX_FRAMES_IN_FLIGHT
    ModelCount,     \* models and textures that loadEntities makes
    TextureCount

ASSUME LifetimesAssumption ==
    FrameCount \in Nat \ {0} /\ ModelCount \in Nat /\ TextureCount \in Nat

VARIABLES
    pc,
    todo,       \* calls to make, in order
    status,     \* handle -> "none" (never assigned), "live", "dead", "recycled"
    chain,      \* Renderer::swapChain: which of two swap chains, or Null
    old,        \* the chain a recreation replaces
    entities,   \* owners the entity map still holds
    failed,     \* the handle whose creation failed
    twice,      \* handles destroyed when they were dead
    stray       \* handles destroyed, or read, when they were recycled

vars == <<pc, todo, status, chain, old, entities, failed, twice, stray>>

-----------------------------------------------------------------------------
(* Handles and the order in which constructors make them                   *)

App == <<"application", 0>>
Chain(g) == <<"swapChain", g>>
Null == Chain(2)
System(name) == <<"system", name>>

Numbered(kind, n) == [k \in 1 .. n |-> <<kind, k>>]
Loaded == Numbered("model", ModelCount) \o Numbered("texture", TextureCount)

(* The calls `Each` of every owner, one owner after the other. *)
InOrder(owners, Each(_)) == FlattenSeq([k \in DOMAIN owners |-> Each(owners[k])])

BufferOf(owner, part) == << <<owner, "buffer", part>>, <<owner, "memory", part>> >>
ImageOf(owner, part) == << <<owner, "image", part>>, <<owner, "memory", part>>, <<owner, "view", part>> >>

WindowHandle == <<App, "window", "window">>
Device == <<App, "device", "device">>
DeviceHandles ==
    << <<App, "instance", "instance">>, <<App, "surface", "surface">>, Device,
       <<App, "commandPool", "commandPool">> >>

SwapchainKHR(c) == <<c, "swapchain", "swapchain">>

ChainHandles(c) ==
    << SwapchainKHR(c), <<c, "view", "swapchain">>, <<c, "renderPass", "renderPass">> >>
    \o ImageOf(c, "color") \o ImageOf(c, "depth")
    \o << <<c, "framebuffer", "framebuffer">>, <<c, "sync", "sync">> >>

CommandBuffers == << <<"renderer", 0>>, "commandBuffers", "frames">>
Pool(n) == << <<"framePool", n>>, "descriptorPool", "frame">>
GlobalPool == << <<"globalPool", 0>>, "descriptorPool", "global">>
Pools == <<GlobalPool>> \o [n \in 1 .. FrameCount |-> Pool(n)]

EntityHandles(e) ==
    IF e[1] = "model" THEN BufferOf(e, "vertex") \o BufferOf(e, "index")
    ELSE ImageOf(e, "texture") \o << <<e, "sampler", "sampler">> >>

UniformBuffers == Numbered("ubo", FrameCount)
SetLayout == << <<"globalSetLayout", 0>>, "setLayout", "global">>
ImGuiPool == << <<"imguiPool", 0>>, "descriptorPool", "imgui">>
ImGuiBackend == << <<"imgui", 0>>, "imgui", "backend">>

Layout(name) == <<System(name), "pipelineLayout", "layout">>
OwnSetLayout == <<System("texture"), "setLayout", "set">>
GraphicsPipeline(name) == <<System(name), "pipeline", "pipeline">>
PipelineHandles(name) ==
    << <<System(name), "shaderModule", "vert">>, <<System(name), "shaderModule", "frag">>,
       GraphicsPipeline(name) >>
SystemHandles(name) == <<Layout(name)>> \o PipelineHandles(name)

(* Application's members and its constructor. *)
ApplicationHandles ==
    <<WindowHandle>> \o DeviceHandles \o ChainHandles(Chain(0)) \o <<CommandBuffers>>
    \o Pools \o InOrder(Loaded, EntityHandles)

(* run up to the loop. *)
RunHandles ==
    InOrder(UniformBuffers, LAMBDA u : BufferOf(u, "uniform"))
    \o <<SetLayout>> \o SystemHandles("simple") \o SystemHandles("billboard")
    \o <<OwnSetLayout>> \o SystemHandles("texture") \o <<ImGuiPool, ImGuiBackend>>

Handles == ToSet(ApplicationHandles \o RunHandles \o ChainHandles(Chain(1)))

-----------------------------------------------------------------------------
(* What destructors do, for the state they find                            *)

Create(handles) == [k \in DOMAIN handles |-> <<"create", handles[k]>>]
Destroy(handles) == [k \in DOMAIN handles |-> <<"destroy", handles[k]>>]

Live(h) == h \in Handles /\ status[h] = "live"
Assigned(h) == h \in Handles /\ status[h] # "none"
If(condition, handles) == IF condition THEN handles ELSE <<>>

(* Image::del: the view if there is one. *)
ImageDel(owner, part) ==
    If(Assigned(<<owner, "view", part>>), << <<owner, "view", part>> >>)
    \o << <<owner, "image", part>>, <<owner, "memory", part>> >>

(* ~Image, which runs if Image's constructor has finished. *)
ImageGone(owner, part) ==
    If(Assigned(<<owner, "memory", part>>), ImageDel(owner, part))

ImagesGone(c) == ImageGone(c, "depth") \o ImageGone(c, "color")

(* Slip: the swap chain is not set to null when it is destroyed. *)
ChainDelNotNulled(c) ==
    << <<c, "view", "swapchain">> >> \o ImageDel(c, "color") \o ImageDel(c, "depth")
    \o <<SwapchainKHR(c), <<c, "framebuffer", "framebuffer">>,
         <<c, "renderPass", "renderPass">>, <<c, "sync", "sync">> >>

(* SwapChain::del. *)
ChainDel(c) ==
    << <<c, "view", "swapchain">> >> \o ImageDel(c, "color") \o ImageDel(c, "depth")
    \o If(Live(SwapchainKHR(c)), <<SwapchainKHR(c)>>)
    \o << <<c, "framebuffer", "framebuffer">>, <<c, "renderPass", "renderPass">>, <<c, "sync", "sync">> >>

(* ~SwapChain: del, then the members, whose destructors call Image::del again. *)
ChainGone(c) == ChainDel(c) \o ImagesGone(c)

PipelineGone(name) == If(Live(GraphicsPipeline(name)), PipelineHandles(name))

(* ~RenderSystem, if the system exists. It runs as well when init throws in the
   constructor of the derived class: h is the handle whose creation failed. *)
SystemGone(name, h) ==
    If(Assigned(Layout(name)) \/ h[1] = System(name), <<Layout(name)>> \o PipelineGone(name))

BufferGone(owner, part) == If(Live(<<owner, "memory", part>>), BufferOf(owner, part))

(* The locals of run in reverse, as far as they exist. The texture system has a set
   layout of its own, which goes first.                                    *)
RunGone(h) ==
    If(Live(OwnSetLayout), <<OwnSetLayout>>)
    \o SystemGone("texture", h) \o SystemGone("billboard", h) \o SystemGone("simple", h)
    \o If(Live(SetLayout), <<SetLayout>>)
    \o InOrder(UniformBuffers, LAMBDA u : BufferGone(u, "uniform"))

(* Device::del, which ~Device calls too. *)
DeviceDel ==
    <<DeviceHandles[4], DeviceHandles[3], DeviceHandles[2], DeviceHandles[1]>>

(* A Model destroys its buffers and then its own copy of Device, a Texture its sampler
   and view and then its Image.                                             *)
EntityGone(e) ==
    IF e[1] = "model" THEN BufferOf(e, "index") \o BufferOf(e, "vertex") \o DeviceDel
    ELSE << <<e, "sampler", "sampler">>, <<e, "view", "texture">> >> \o ImageDel(e, "texture")

(* Slip: the deletor of ImGui's pool was not pushed. *)
QueueFlushEmpty == <<>>

(* _maindelqueue.flush: ImGui's pool, if it was pushed. *)
QueueFlush == If(Live(ImGuiPool), <<ImGuiPool>>)

(* Slip: the device before the pools. *)
ApplicationGoneDeviceFirst ==
    <<CommandBuffers>> \o ChainDel(chain) \o DeviceDel \o Pools \o QueueFlush \o <<ImGuiBackend>>

(* ~Application. A null swapChain is not assigned: see DestroyNext. *)
ApplicationGone ==
    Pools \o QueueFlush \o <<CommandBuffers>> \o ChainDel(chain) \o DeviceDel \o <<ImGuiBackend>>

(* The members of Application below the entities: ~Renderer calls del and then
   destroys swapChain.  Its list of command buffers has been cleared, so that there
   are none to free again; the device it names is gone as for the calls that follow. *)
MembersGone == ChainDel(chain) \o ChainGone(chain) \o DeviceDel \o <<WindowHandle>>

-----------------------------------------------------------------------------
Phases ==
    {"construct", "enter", "loop", "toggle", "recreate", "leave", "destroy", "entities", "members"}
Ends == {"exited", "terminated", "undefined"}

NoHandle == << <<"none", 0>>, "none", "none">>

Init ==
    /\ pc = "construct"
    /\ todo = Create(ApplicationHandles)
    /\ status = [h \in Handles |-> "none"]
    /\ chain = Null /\ old = Null
    /\ entities = {}
    /\ failed = NoHandle
    /\ twice = {} /\ stray = {}

(* A creation may return the value of any destroyed object of its type. The first
   call for a new swap chain hands the old one over (createInfo.oldSwapchain).     *)
CreateNext ==
    /\ todo # <<>> /\ Head(todo)[1] = "create"
    /\ LET h == Head(todo)[2]
           read == IF h = SwapchainKHR(h[1]) /\ old # Null THEN {SwapchainKHR(old)} ELSE {}
       IN  /\ status' = [k \in Handles |->
                  IF k = h THEN "live"
                  ELSE IF k[2] = h[2] /\ status[k] = "dead" THEN "recycled"
                  ELSE status[k]]
           /\ stray' = stray \cup {k \in read : ~Live(k)}
    /\ todo' = Tail(todo)
    /\ UNCHANGED <<pc, chain, old, entities, failed, twice>>

(* What the exception destroys on its way out of run: the Images of a new swap chain,
   as members of an unfinished object; the old chain; the locals of run.    *)
Unwound(h) ==
    (IF pc = "recreate" THEN ImagesGone(h[1]) \o ChainGone(old) ELSE <<>>) \o RunGone(h)

(* The constructor of Application is called outside main's try block.      *)
CreateFails ==
    /\ todo # <<>> /\ Head(todo)[1] = "create"
    /\ failed' = Head(todo)[2]
    /\ IF pc = "construct" THEN pc' = "terminated" /\ todo' = <<>>
       ELSE pc' = "leave" /\ todo' = Destroy(Unwound(failed'))
    /\ old' = Null
    /\ UNCHANGED <<status, chain, entities, twice, stray>>

(* The object a call is made on. *)
ParentLive(h) ==
    CASE h \in {WindowHandle, DeviceHandles[1]} -> TRUE
      [] h \in {DeviceHandles[2], Device} -> Live(DeviceHandles[1])
      [] OTHER -> Live(Device)

(* Destroying an unassigned handle, or one of a null object, may do anything; so may a
   dead one, or one whose device is gone, but that may also be ignored. A layout that
   was never created is an uninitialised member, which may happen to be null.  *)
DestroyNext ==
    /\ todo # <<>> /\ Head(todo)[1] = "destroy"
    /\ LET h == Head(todo)[2]
       IN  \/ /\ Assigned(h) \/ h[2] = "pipelineLayout"
              /\ status' = [status EXCEPT ![h] = IF @ = "live" THEN "dead" ELSE @]
              /\ twice' = IF status[h] = "dead" THEN twice \cup {h} ELSE twice
              /\ stray' = IF status[h] = "recycled" THEN stray \cup {h} ELSE stray
              /\ todo' = Tail(todo)
              /\ UNCHANGED pc
           \/ /\ ~Live(h) \/ ~ParentLive(h)
              /\ pc' = "undefined" /\ todo' = <<>>
              /\ UNCHANGED <<status, twice, stray>>
    /\ UNCHANGED <<chain, old, entities, failed>>

-----------------------------------------------------------------------------
(* Phases, each entered when the calls of the one before have been made    *)

Becomes(from, to, calls) ==
    /\ pc = from /\ todo = <<>>
    /\ pc' = to /\ todo' = calls

(* The application is constructed, main calls run. *)
EnterRun ==
    /\ Becomes("construct", "enter", Create(RunHandles))
    /\ chain' = Chain(0)
    /\ entities' = ToSet(Loaded)
    /\ UNCHANGED <<status, old, failed, twice, stray>>

EnterLoop ==
    /\ Becomes("enter", "loop", <<>>)
    /\ UNCHANGED <<status, chain, old, entities, failed, twice, stray>>

(* RenderSystem::createPipeline. *)
CreatePipeline(name) == Destroy(PipelineGone(name)) \o Create(PipelineHandles(name))

(* F5. *)
ToggleWireframe ==
    /\ Becomes("loop", "toggle", CreatePipeline("simple") \o CreatePipeline("texture"))
    /\ UNCHANGED <<status, chain, old, entities, failed, twice, stray>>

Toggled ==
    /\ Becomes("toggle", "loop", <<>>)
    /\ UNCHANGED <<status, chain, old, entities, failed, twice, stray>>

Other(c) == IF c = Chain(0) THEN Chain(1) ELSE Chain(0)

(* Slip: the old swap chain is deleted to make room. *)
RecreateSwapChainFreeingFirst ==
    /\ Becomes("loop", "recreate", Destroy(ChainDel(chain)) \o Create(ChainHandles(Other(chain))))
    /\ old' = chain /\ chain' = Null
    /\ status' = [h \in Handles |-> IF h[1] = Other(chain) THEN "none" ELSE status[h]]
    /\ UNCHANGED <<entities, failed, twice, stray>>

(* recreateSwapChain moves swapChain to a local and constructs another SwapChain, whose
   members start unassigned.                                               *)
RecreateSwapChain ==
    /\ Becomes("loop", "recreate", Create(ChainHandles(Other(chain))))
    /\ old' = chain /\ chain' = Null
    /\ status' = [h \in Handles |-> IF h[1] = Other(chain) THEN "none" ELSE status[h]]
    /\ UNCHANGED <<entities, failed, twice, stray>>

(* Slip: the new swap chain keeps its pointer to the old one. *)
RecreatedHoldingOld ==
    /\ Becomes("recreate", "loop", <<>>)
    /\ chain' = Other(old) /\ old' = Null
    /\ UNCHANGED <<status, entities, failed, twice, stray>>

(* Slip: the new swap chain is not assigned to the member. *)
RecreatedUnassigned ==
    /\ Becomes("recreate", "loop", Destroy(ChainGone(old)))
    /\ chain' = Null /\ old' = Null
    /\ UNCHANGED <<status, entities, failed, twice, stray>>

(* The new chain is complete and the last reference to the old one goes; formats that
   changed throw.                                                          *)
Recreated ==
    /\ \/ Becomes("recreate", "loop", Destroy(ChainGone(old)))
       \/ Becomes("recreate", "leave", Destroy(ChainGone(old) \o RunGone(NoHandle)))
    /\ chain' = Other(old) /\ old' = Null
    /\ UNCHANGED <<status, entities, failed, twice, stray>>

(* The window is closed, or a frame throws; main catches. *)
LeaveRun ==
    /\ Becomes("loop", "leave", Destroy(RunGone(NoHandle)))
    /\ UNCHANGED <<status, chain, old, entities, failed, twice, stray>>

DestroyApplication ==
    /\ Becomes("leave", "destroy", Destroy(ApplicationGone))
    /\ UNCHANGED <<status, chain, old, entities, failed, twice, stray>>

DestroyMembers ==
    /\ Becomes("destroy", "entities", <<>>)
    /\ UNCHANGED <<status, chain, old, entities, failed, twice, stray>>

(* The map is walked in an order of its own. *)
DestroyEntity(e) ==
    /\ Becomes("entities", "entities", Destroy(EntityGone(e)))
    /\ e \in entities
    /\ entities' = entities \ {e}
    /\ UNCHANGED <<status, chain, old, failed, twice, stray>>

DestroyRenderer ==
    /\ entities = {}
    /\ Becomes("entities", "members", Destroy(MembersGone))
    /\ UNCHANGED <<status, chain, old, entities, failed, twice, stray>>

Exit ==
    /\ Becomes("members", "exited", <<>>)
    /\ UNCHANGED <<status, chain, old, entities, failed, twice, stray>>

Ended == pc \in Ends /\ UNCHANGED vars

Next ==
    \/ CreateNext \/ CreateFails \/ DestroyNext
    \/ EnterRun \/ EnterLoop \/ ToggleWireframe \/ Toggled
    \/ RecreateSwapChain \/ Recreated \/ LeaveRun
    \/ DestroyApplication \/ DestroyMembers \/ (\E e \in entities : DestroyEntity(e))
    \/ DestroyRenderer \/ Exit \/ Ended

Spec == Init /\ [][Next]_vars

-----------------------------------------------------------------------------
Idle == pc = "loop" /\ todo = <<>>

OfChain(c) == ToSet(ChainHandles(c))

(* What a frame, the ImGui panel included, uses. *)
FrameHandles ==
    (ToSet(ApplicationHandles) \ OfChain(Chain(0))) \cup ToSet(RunHandles) \cup OfChain(chain)

(* Types; swapChain is null only during construction, and after it failed. *)
LifetimesTypeOK ==
    /\ pc \in Phases \cup Ends
    /\ \A k \in DOMAIN todo : todo[k][1] \in {"create", "destroy"}
    /\ status \in [Handles -> {"none", "live", "dead", "recycled"}]
    /\ {chain, old} \subseteq {Chain(0), Chain(1), Null}
    /\ entities \subseteq ToSet(Loaded)
    /\ failed \in Handles \cup {NoHandle}
    /\ chain = Null => pc \in {"construct", "recreate"} \/ failed # NoHandle
    /\ twice \cup stray \subseteq Handles

(* Whatever was rebuilt, whenever a frame may begin everything it uses exists, and
   nothing else does: recreations and toggles leave nothing behind (application.cpp:82-162,
   swapchain.cpp:13, renderer.cpp:112-116, rendersystem.hpp:84).           *)
FrameHandlesLive ==
    Idle => chain # Null /\ \A h \in Handles : Live(h) <=> h \in FrameHandles

(* The many repeated destructions never meet a handle whose value has been given to
   another object in between (swapchain.cpp:15-40, image.cpp:27-31), nor does the
   creation of a swap chain that refers to the old one (swapchain.cpp:147).  *)
NoStrayCalls == stray = {}

(* "We need our descriptor pools destroyed before the device is"
   (application.cpp:23): when the device is destroyed, nothing made from it is left but
   what the entities and ImGui hold and what a failed constructor leaked.  *)
HeldLonger == {ImGuiBackend} \cup UNION {ToSet(EntityHandles(Loaded[k])) : k \in DOMAIN Loaded}

ReleasedBeforeDevice ==
    status[Device] \in {"dead", "recycled"} =>
        \A h \in Handles \ HeldLonger : Live(h) /\ h[1] # failed[1] =>
            h \in {WindowHandle, DeviceHandles[1], DeviceHandles[2]}

(* Objects that have one owner are destroyed once, on every way out; what del() and a
   destructor both release without resetting the variable is the exception
   (swapchain.cpp:24-27, application.cpp:24-30).                           *)
Repeated ==
    ToSet(DeviceHandles) \cup {h \in Handles : h[1] \in {Chain(0), Chain(1)} /\ h[2] # "swapchain"}
    \cup {h \in Handles : h[2] = "view"}

DestroyedOnce == twice \subseteq Repeated

(* A program that ends regularly has destroyed everything, except for the members of
   an object whose constructor failed.                                     *)
CleanExit == pc = "exited" => \A h \in Handles : Live(h) => h[1] = failed[1]
=============================================================================

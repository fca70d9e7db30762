----------------------------- MODULE WindowLoop -----------------------------
(***************************************************************************)
(* The main loop of Application::run as seen from the window: GLFW events, *)
(* the framebuffer size the Window caches, the extent and formats of the   *)
(* swap chain, the aspect ratio of the camera, and the pipelines the       *)
(* render systems made for the render pass of the first swap chain.  The   *)
(* window system resizes, minimises, restores and closes the window at any *)
(* moment; the program learns of it only inside glfwPollEvents and         *)
(* glfwWaitEvents.  Fences, semaphores and images are FrameSync's.         *)
(***************************************************************************)
EXTENDS Naturals

CONSTANTS
    Sizes,              \* framebuffer sizes <<width, height>>
    InitialSize,        \* asked for, application.hpp:42-43
    Formats,            \* what a surface may answer
    MinImageExtent,     \* of the surface capabilities
    MaxResizes          \* bound: how often the window system changes the size

Zero(size) == size[1] = 0 \/ size[2] = 0

OpenSizes == {size \in Sizes : ~Zero(size)}

ASSUME SizesAssumption ==
    /\ Sizes \subseteq Nat \X Nat
    /\ InitialSize \in Sizes
    /\ ~Zero(InitialSize)
    /\ MinImageExtent \in Nat \X Nat /\ ~Zero(MinImageExtent)
(* A window that is open is at least as large as the smallest swap chain. *)
ASSUME SurfaceAssumption ==
    /\ MaxResizes \in Nat /\ Formats # {}
    /\ \A size \in OpenSizes : size[1] >= MinImageExtent[1] /\ size[2] >= MinImageExtent[2]

VARIABLES
    surface, resizesLeft,                      \* the window system
    currentExtentKnown,                        \* FALSE: capabilities.currentExtent is 0xFFFFFFFF
    resizeEvent, inputEvent, closeEvent,       \* events not yet dispatched
    windowExtent, framebufferResized, shouldClose, \* Window, GLFW
    swapChainExtent, format,                   \* SwapChain
    aspectRatio,                               \* of run, and of the camera's projection
    pipelineFormat,                            \* of the pass the pipelines were made for
    passLive,                                  \* RenderSystem::renderPass still exists
    pc, extent                                 \* the host thread; a local of recreateSwapChain

systemVars    == <<surface, resizesLeft, currentExtentKnown>>
eventVars     == <<resizeEvent, inputEvent, closeEvent>>
windowVars    == <<windowExtent, framebufferResized, shouldClose>>
swapChainVars == <<swapChainExtent, format>>
rendererVars  == <<aspectRatio, pipelineFormat, passLive>>
vars == <<systemVars, eventVars, windowVars, swapChainVars, rendererVars, pc, extent>>

HostPC == {"poll", "aspect", "input", "createPipeline", "begin", "record", "end",
           "minimised", "waitEvents", "rebuild", "done", "thrown"}

(* The types; among them: an extent that chooseSwapExtent clamped is never
   that of a window without a size, which is what the loop of
   recreateSwapChain is for.                                               *)
LoopTypeOK ==
    /\ surface \in Sizes /\ resizesLeft \in 0 .. MaxResizes /\ currentExtentKnown \in BOOLEAN
    /\ resizeEvent \in BOOLEAN /\ inputEvent \in BOOLEAN /\ closeEvent \in BOOLEAN
    /\ windowExtent \in Sizes /\ framebufferResized \in BOOLEAN /\ shouldClose \in BOOLEAN
    /\ swapChainExtent \in IF currentExtentKnown THEN Sizes ELSE OpenSizes
    /\ format \in Formats
    /\ aspectRatio \in Sizes \cup {<<0, 1>>}
    /\ pipelineFormat \in Formats /\ passLive \in BOOLEAN
    /\ pc \in HostPC /\ extent \in Sizes

(* extentAspectRatio, as a pair: equal quotients. 0/0 is equal to nothing. *)
SameAspect(a, b) ==
    /\ a # <<0, 0>> /\ b # <<0, 0>>
    /\ a[1] * b[2] = b[1] * a[2]

-----------------------------------------------------------------------------
(* The constructors have run: one swap chain, pipelines for its render pass,
   aspectRatio = 0.0f. Window remembers the size that was asked for; that of
   the surface may be another one.                                         *)
Init ==
    /\ surface \in OpenSizes /\ resizesLeft = MaxResizes /\ currentExtentKnown \in BOOLEAN
    /\ resizeEvent = FALSE /\ inputEvent = FALSE /\ closeEvent = FALSE
    /\ windowExtent = InitialSize /\ framebufferResized = FALSE /\ shouldClose = FALSE
    /\ swapChainExtent = (IF currentExtentKnown THEN surface ELSE InitialSize)
    /\ format \in Formats
    /\ aspectRatio = <<0, 1>>
    /\ pipelineFormat = format /\ passLive = TRUE
    /\ pc = "poll" /\ extent = InitialSize

-----------------------------------------------------------------------------
(* The window system and the user                                          *)

SystemResizes ==
    /\ resizesLeft > 0
    /\ \E size \in Sizes \ {surface} : surface' = size
    /\ resizesLeft' = resizesLeft - 1
    /\ resizeEvent' = TRUE
    /\ UNCHANGED <<currentExtentKnown, inputEvent, closeEvent, windowVars, swapChainVars,
                   rendererVars, pc, extent>>

UserInput ==
    /\ inputEvent' = TRUE
    /\ UNCHANGED <<systemVars, resizeEvent, closeEvent, windowVars, swapChainVars,
                   rendererVars, pc, extent>>

UserCloses ==
    /\ closeEvent' = TRUE
    /\ UNCHANGED <<systemVars, resizeEvent, inputEvent, windowVars, swapChainVars,
                   rendererVars, pc, extent>>

Environment == SystemResizes \/ UserInput \/ UserCloses

-----------------------------------------------------------------------------
(* The host thread                                                         *)

(* GLFW runs framebufferResizeCallback for what is queued, and notes a close. *)
DispatchEvents ==
    /\ windowExtent' = IF resizeEvent THEN surface ELSE windowExtent
    /\ framebufferResized' = (framebufferResized \/ resizeEvent)
    /\ shouldClose' = (shouldClose \/ closeEvent)
    /\ resizeEvent' = FALSE /\ inputEvent' = FALSE /\ closeEvent' = FALSE

(* Slip: the loop has no test. *)
PollEventsUntested ==
    /\ pc = "poll"
    /\ pc' = "aspect" /\ DispatchEvents
    /\ UNCHANGED <<systemVars, swapChainVars, rendererVars, extent>>

(* The loop test, then glfwPollEvents. *)
PollEvents ==
    /\ pc = "poll"
    /\ IF shouldClose
       THEN pc' = "done" /\ UNCHANGED <<eventVars, windowVars>>
       ELSE pc' = "aspect" /\ DispatchEvents
    /\ UNCHANGED <<systemVars, swapChainVars, rendererVars, extent>>

(* Slip: the aspect ratio is computed once. *)
UpdateProjectionOnce ==
    /\ pc = "aspect"
    /\ aspectRatio' = IF aspectRatio = <<0, 1>> THEN swapChainExtent ELSE aspectRatio
    /\ pc' = "input"
    /\ UNCHANGED <<systemVars, eventVars, windowVars, swapChainVars, pipelineFormat,
                   passLive, extent>>

(* The projection follows the aspect ratio of the swap chain. One of 0 or 0/0
   fails the assertion of setPerspectiveProjection, in a build that has it. *)
UpdateProjection ==
    /\ pc = "aspect"
    /\ \/ /\ SameAspect(aspectRatio, swapChainExtent)
          /\ pc' = "input" /\ UNCHANGED aspectRatio
       \/ /\ ~SameAspect(aspectRatio, swapChainExtent)
          /\ aspectRatio' = swapChainExtent
          /\ pc' = "input" \/ (swapChainExtent[1] = 0 /\ pc' = "thrown")
    /\ UNCHANGED <<systemVars, eventVars, windowVars, swapChainVars, pipelineFormat,
                   passLive, extent>>

(* Keyboard and mouse; F5 while the cursor is captured toggles wireframe. *)
HandleInput ==
    /\ pc = "input"
    /\ pc' \in {"begin", "createPipeline"}
    /\ UNCHANGED <<systemVars, eventVars, windowVars, swapChainVars, rendererVars, extent>>

(* toggleWireframe: createPipeline with the render pass handle the system was
   constructed with. With a handle that was destroyed the outcome is undefined:
   a pipeline as before, or the end of the program.                        *)
ToggleWireframe ==
    /\ pc = "createPipeline"
    /\ pc' = "begin" \/ pc' = "thrown"
    /\ UNCHANGED <<systemVars, eventVars, windowVars, swapChainVars, rendererVars, extent>>

(* recreateSwapChain is called: it reads the window's extent. *)
CallRecreate == pc' = "minimised" /\ extent' = windowExtent

BeginFrame ==
    /\ pc = "begin"
    /\ \/ pc' = "record" /\ UNCHANGED extent
       \/ CallRecreate
       \/ pc' = "thrown" /\ UNCHANGED extent
    /\ UNCHANGED <<systemVars, eventVars, windowVars, swapChainVars, rendererVars>>

RecordFrame ==
    /\ pc = "record"
    /\ pc' = "end"
    /\ UNCHANGED <<systemVars, eventVars, windowVars, swapChainVars, rendererVars, extent>>

(* endFrame: a rejected present or a resize recreates, after the flag is reset. *)
EndFrame ==
    /\ pc = "end"
    /\ \E result \in {"SUCCESS", "OUT_OF_DATE_OR_SUBOPTIMAL", "ERROR"} :
          IF result = "OUT_OF_DATE_OR_SUBOPTIMAL" \/ framebufferResized
          THEN framebufferResized' = FALSE /\ CallRecreate
          ELSE /\ pc' = IF result = "SUCCESS" THEN "poll" ELSE "thrown"
               /\ UNCHANGED <<framebufferResized, extent>>
    /\ UNCHANGED <<systemVars, eventVars, windowExtent, shouldClose, swapChainVars, rendererVars>>

(* Slip: no loop while the window is minimised. *)
MinimisedTestSkipped ==
    /\ pc = "minimised"
    /\ pc' = "rebuild"
    /\ UNCHANGED <<systemVars, eventVars, windowVars, swapChainVars, rendererVars, extent>>

(* The loop of recreateSwapChain: the extent is read before the wait. *)
MinimisedTest ==
    /\ pc = "minimised"
    /\ IF Zero(extent)
       THEN pc' = "waitEvents" /\ extent' = windowExtent
       ELSE pc' = "rebuild" /\ UNCHANGED extent
    /\ UNCHANGED <<systemVars, eventVars, windowVars, swapChainVars, rendererVars>>

(* glfwWaitEvents returns when there was something to dispatch. *)
WaitEvents ==
    /\ pc = "waitEvents"
    /\ resizeEvent \/ inputEvent \/ closeEvent
    /\ DispatchEvents
    /\ pc' = "minimised"
    /\ UNCHANGED <<systemVars, swapChainVars, rendererVars, extent>>

(* chooseSwapExtent. *)
ChosenExtent ==
    IF currentExtentKnown THEN surface
    ELSE [i \in 1 .. 2 |-> IF extent[i] < MinImageExtent[i] THEN MinImageExtent[i] ELSE extent[i]]

(* A new SwapChain replaces the old one, whose render pass is destroyed; then
   the formats are compared. The current extent of a surface is taken as it
   is: minimised after the last dispatch, it makes vkCreateSwapchainKHR be
   called with an extent of 0, of which it may make a swap chain or fail.  *)
InstallSwapChain ==
    /\ swapChainExtent' = ChosenExtent
    /\ format' \in Formats
    /\ passLive' = FALSE

(* Slips: the formats are not compared; the flag is reset after the swap
   chain is made instead of before.                                        *)
RebuildUncompared ==
    /\ pc = "rebuild"
    /\ InstallSwapChain
    /\ pc' = "poll"
    /\ UNCHANGED <<systemVars, eventVars, windowVars, aspectRatio, pipelineFormat, extent>>

RebuildResetsFlag ==
    /\ pc = "rebuild"
    /\ InstallSwapChain
    /\ framebufferResized' = FALSE
    /\ pc' = IF format' = format THEN "poll" ELSE "thrown"
    /\ UNCHANGED <<systemVars, eventVars, windowExtent, shouldClose, aspectRatio,
                   pipelineFormat, extent>>

Rebuild ==
    /\ pc = "rebuild"
    /\ InstallSwapChain
    /\ pc' = IF format' = format THEN "poll" ELSE "thrown"
    /\ UNCHANGED <<systemVars, eventVars, windowVars, aspectRatio, pipelineFormat, extent>>

(* vkCreateSwapchainKHR and the other creations can fail. *)
RebuildFails ==
    /\ pc = "rebuild"
    /\ pc' = "thrown"
    /\ UNCHANGED <<systemVars, eventVars, windowVars, swapChainVars, rendererVars, extent>>

Host ==
    \/ PollEvents
    \/ UpdateProjection
    \/ HandleInput
    \/ ToggleWireframe
    \/ BeginFrame
    \/ RecordFrame
    \/ EndFrame
    \/ MinimisedTest
    \/ WaitEvents
    \/ Rebuild
    \/ RebuildFails

Next == Host \/ Environment

(* Only the host thread is fair; the user and the window system owe nothing. *)
Spec == Init /\ [][Next]_vars /\ WF_vars(Host)

-----------------------------------------------------------------------------
(* A frame is recorded only with a projection of the aspect ratio of the swap
   chain it is drawn into, although the two are set in different iterations
   and every recreation may change the extent (application.cpp:101-107). A
   swap chain of a minimised window has no aspect ratio.                   *)
AspectMatches ==
    pc = "record" /\ swapChainExtent # <<0, 0>> => SameAspect(aspectRatio, swapChainExtent)

(* The window was never resized and its surface leaves the extent to the
   program, which then took the size it had asked for (window.cpp:5-7).    *)
SizeAsked == ~currentExtentKnown /\ resizesLeft = MaxResizes

(* A swap chain that does not have the size of the window, and so one made
   while the window was minimised behind the test of renderer.cpp:104, does
   not go unnoticed: the resize is still to be dispatched, or is recorded
   for endFrame, or the swap chain is being replaced. The cached extent is
   read, the flag reset and the surface queried at three different moments. *)
StaleNoticed ==
    \/ swapChainExtent = surface \/ SizeAsked
    \/ resizeEvent \/ framebufferResized
    \/ pc \in {"minimised", "waitEvents", "rebuild", "thrown"}

(* The pipelines of the render systems and of ImGui, made for the render pass
   of the first swap chain, are bound only inside a compatible pass:
   recreateSwapChain ends the program when the formats changed.            *)
PipelinesCompatible == pc = "record" => pipelineFormat = format

(* "Cannot create graphics pipeline: no renderPass provided in configInfo"
   (pipeline.cpp:39-40): a pipeline is created with a render pass that exists. *)
PipelineFromLivePass == pc = "createPipeline" => passLive

InputKeepsComing == []<>inputEvent

(* When the window system stops resizing and the window is not minimised, the
   swap chain ends up with the size of the window, wherever in an iteration
   the events came: no resize is lost between the flag, the cached extent and
   the recreation. The wait for a restored window needs one more event, so
   input must keep coming.                                                 *)
ResizeSettles ==
    InputKeepsComing =>
        <>[](\/ pc \in {"done", "thrown"} \/ Zero(surface)
             \/ swapChainExtent = surface \/ SizeAsked)

(* A close request ends the loop, unless the window stays minimised. *)
CloseHonoured ==
    InputKeepsComing /\ <>[]~Zero(surface) =>
        (shouldClose ~> pc \in {"done", "thrown"})

=============================================================================

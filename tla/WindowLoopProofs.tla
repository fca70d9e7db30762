-------------------------- MODULE WindowLoopProofs --------------------------
(***************************************************************************)
(* Proofs about WindowLoop for every set of sizes and formats and any      *)
(* number of resizes.  WindowInv says what leads to the moments the safety *)
(* properties speak of: a frame is recorded, a swap chain is replaced.     *)
(***************************************************************************)
EXTENDS WindowLoop, TLAPS

(* The steps of an iteration between the projection and the frame. *)
Projected == {"input", "createPipeline", "begin", "record"}

Recreating == {"minimised", "waitEvents", "rebuild"}

(* The cached extent is that of the surface or a resize is to be dispatched, once
   there was a resize; the extent recreateSwapChain has read is the cached one or a
   resize is recorded.                                                     *)
SizesKnown ==
    /\ resizesLeft # MaxResizes => windowExtent = surface \/ resizeEvent
    /\ pc \in Recreating => extent = windowExtent \/ framebufferResized

(* The extent of the local of recreateSwapChain was tested; the projection fits the
   swap chain from when it is set until the swap chain may be replaced; no iteration
   goes on after the formats have changed.                                 *)
WindowInv ==
    /\ LoopTypeOK
    /\ pc = "rebuild" => ~Zero(extent)
    /\ pc \in Projected /\ swapChainExtent # <<0, 0>> => SameAspect(aspectRatio, swapChainExtent)
    /\ pc # "thrown" => pipelineFormat = format
    /\ SizesKnown
    /\ StaleNoticed

(* What GLFW dispatches is a size the window had (window.cpp:38-43). *)
LEMMA DispatchTypes ==
    ASSUME LoopTypeOK, DispatchEvents
    PROVE  /\ windowExtent' \in Sizes
           /\ framebufferResized' \in BOOLEAN /\ shouldClose' \in BOOLEAN
           /\ resizeEvent' \in BOOLEAN /\ inputEvent' \in BOOLEAN /\ closeEvent' \in BOOLEAN
BY DEF LoopTypeOK, DispatchEvents

(* The clamping of chooseSwapExtent changes nothing for a window that is open
   (swapchain.cpp:354-362).                                                *)
LEMMA ChosenExtentIs ==
    ASSUME LoopTypeOK, ~Zero(extent)
    PROVE  /\ currentExtentKnown => ChosenExtent = surface
           /\ ~currentExtentKnown => ChosenExtent = extent /\ extent \in OpenSizes
<1>1. CASE currentExtentKnown
    BY <1>1 DEF ChosenExtent
<1>2. CASE ~currentExtentKnown
    <2>1. extent \in OpenSizes /\ extent \in Nat \X Nat /\ MinImageExtent \in Nat \X Nat
        BY SizesAssumption DEF LoopTypeOK, OpenSizes
    <2>2. ~(extent[1] < MinImageExtent[1]) /\ ~(extent[2] < MinImageExtent[2])
        BY <2>1, SurfaceAssumption
    <2>3. ChosenExtent = [i \in 1 .. 2 |-> extent[i]]
        BY <1>2, <2>2 DEF ChosenExtent
    <2>4. ChosenExtent = extent
        BY <2>1, <2>3
    <2> QED
        BY <1>2, <2>1, <2>4
<1> QED
    BY <1>1, <1>2

(* A new aspect ratio is that of the swap chain. *)
LEMMA SameAspectReflexive ==
    \A size \in Nat \X Nat : size # <<0, 0>> => SameAspect(size, size)
BY DEF SameAspect

(* The constructors establish the invariant. *)
LEMMA InitWindowInv == Init => WindowInv
<1> SUFFICES ASSUME Init PROVE WindowInv
    OBVIOUS
<1>1. InitialSize \in OpenSizes /\ InitialSize \in Sizes /\ OpenSizes \subseteq Sizes
    BY SizesAssumption DEF OpenSizes
<1>2. MaxResizes \in 0 .. MaxResizes
    BY SurfaceAssumption
<1>3. LoopTypeOK
    BY <1>1, <1>2 DEF Init, LoopTypeOK, HostPC
<1>4. SizesKnown /\ StaleNoticed
    BY DEF Init, SizesKnown, StaleNoticed, SizeAsked, Recreating
<1> QED
    BY <1>3, <1>4 DEF Init, WindowInv, Projected

(* Every step keeps it. *)
LEMMA WindowInvStep == WindowInv /\ [Next]_vars => WindowInv'
<1> SUFFICES ASSUME WindowInv, [Next]_vars PROVE WindowInv'
    OBVIOUS
<1>0. LoopTypeOK
    BY DEF WindowInv
<1> USE DEF WindowInv, LoopTypeOK, HostPC, Projected, systemVars, eventVars, windowVars,
            swapChainVars, rendererVars, SizesKnown, StaleNoticed, SizeAsked, Recreating
<1>1. CASE SystemResizes
    <2>1. resizesLeft' \in 0 .. MaxResizes
        BY <1>1, SurfaceAssumption DEF SystemResizes
    <2>2. surface' \in Sizes
        BY <1>1 DEF SystemResizes
    <2> QED
        BY <1>1, <2>1, <2>2 DEF SystemResizes
<1>2. CASE UserInput
    BY <1>2 DEF UserInput
<1>3. CASE UserCloses
    BY <1>3 DEF UserCloses
<1>4. CASE PollEvents
    <2>1. CASE shouldClose
        BY <1>4, <2>1 DEF PollEvents
    <2>2. CASE ~shouldClose
        <3>1. /\ DispatchEvents /\ pc = "poll" /\ pc' = "aspect"
              /\ UNCHANGED <<systemVars, swapChainVars, rendererVars, extent>>
            BY <1>4, <2>2 DEF PollEvents
        <3>2. LoopTypeOK'
            BY <1>0, <3>1, DispatchTypes
        <3>3. SizesKnown' /\ StaleNoticed'
            BY <3>1 DEF DispatchEvents
        <3> QED
            BY <3>1, <3>2, <3>3
    <2> QED
        BY <2>1, <2>2
<1>5. CASE UpdateProjection
    <2>0. swapChainExtent \in Sizes
        BY DEF OpenSizes
    <2>1. swapChainExtent \in Nat \X Nat
        BY <2>0, SizesAssumption
    <2>2. swapChainExtent # <<0, 0>> => SameAspect(aspectRatio', swapChainExtent)
        BY <1>5, <2>1, SameAspectReflexive DEF UpdateProjection
    <2>3. aspectRatio' \in Sizes \cup {<<0, 1>>}
        BY <1>5, <2>0 DEF UpdateProjection
    <2> QED
        BY <1>5, <2>2, <2>3 DEF UpdateProjection
<1>6. CASE HandleInput
    BY <1>6 DEF HandleInput
<1>7. CASE ToggleWireframe
    BY <1>7 DEF ToggleWireframe
<1>8. CASE BeginFrame
    BY <1>8 DEF BeginFrame, CallRecreate
<1>9. CASE RecordFrame
    BY <1>9 DEF RecordFrame
<1>10. CASE EndFrame
    <2>1. /\ pc = "end"
          /\ UNCHANGED <<systemVars, eventVars, windowExtent, shouldClose, swapChainVars,
                         rendererVars>>
        BY <1>10 DEF EndFrame
    <2>2. \/ framebufferResized' = FALSE /\ pc' = "minimised" /\ extent' = windowExtent
          \/ /\ ~framebufferResized /\ pc' \in {"poll", "thrown"}
             /\ UNCHANGED <<framebufferResized, extent>>
        BY <1>10 DEF EndFrame, CallRecreate
    <2>3. LoopTypeOK'
        BY <2>1, <2>2
    <2>4. SizesKnown' /\ StaleNoticed'
        BY <2>1, <2>2
    <2> QED
        BY <2>1, <2>2, <2>3, <2>4
<1>11. CASE MinimisedTest
    BY <1>11 DEF MinimisedTest
<1>12. CASE WaitEvents
    <2>1. /\ DispatchEvents /\ pc = "waitEvents" /\ pc' = "minimised"
          /\ UNCHANGED <<systemVars, swapChainVars, rendererVars, extent>>
        BY <1>12 DEF WaitEvents
    <2>2. LoopTypeOK'
        BY <1>0, <2>1, DispatchTypes
    <2>3. SizesKnown' /\ StaleNoticed'
        BY <2>1 DEF DispatchEvents
    <2> QED
        BY <2>1, <2>2, <2>3
<1>13. CASE Rebuild
    <2>1. /\ currentExtentKnown => ChosenExtent = surface
          /\ ~currentExtentKnown => ChosenExtent = extent /\ extent \in OpenSizes
        BY <1>13, <1>0, ChosenExtentIs DEF Rebuild
    <2>2. /\ swapChainExtent' = ChosenExtent /\ format' \in Formats /\ passLive' \in BOOLEAN
          /\ UNCHANGED <<systemVars, eventVars, windowVars, aspectRatio, pipelineFormat, extent>>
        BY <1>13 DEF Rebuild, InstallSwapChain
    <2>3. pc = "rebuild" /\ pc' \in {"poll", "thrown"} /\ (pc' # "thrown" => format' = format)
        BY <1>13 DEF Rebuild
    <2>4. LoopTypeOK'
        BY <2>1, <2>2, <2>3
    <2>5. StaleNoticed'
        BY <2>1, <2>2, <2>3
    <2> QED
        BY <2>2, <2>3, <2>4, <2>5
<1>14. CASE RebuildFails
    BY <1>14 DEF RebuildFails
<1>15. CASE UNCHANGED vars
    BY <1>15 DEF vars, Zero, SameAspect
<1> QED
    BY <1>1, <1>2, <1>3, <1>4, <1>5, <1>6, <1>7, <1>8, <1>9, <1>10, <1>11, <1>12, <1>13,
       <1>14, <1>15 DEF Next, Host, Environment

(* The invariant holds for every set of window sizes and formats.            *)
LEMMA WindowInvariance == Spec => []WindowInv
BY InitWindowInv, WindowInvStep, PTL DEF Spec

(* Among the types: a clamped extent is never that of a window without a size,
   however the window is minimised and restored (renderer.cpp:104-108).    *)
THEOREM LoopTypes == Spec => []LoopTypeOK
<1>1. WindowInv => LoopTypeOK
    BY DEF WindowInv
<1> QED
    BY <1>1, WindowInvariance, PTL

(* A swap chain that does not have the size of the window, an empty one included, is
   one whose replacement is on its way, whenever the resizes came between the cached
   extent, the flag and the query of the surface (renderer.cpp:45-47, 104-113).    *)
THEOREM StaleNoticedHolds == Spec => []StaleNoticed
<1>1. WindowInv => StaleNoticed
    BY DEF WindowInv
<1> QED
    BY <1>1, WindowInvariance, PTL

(* A frame is recorded with the aspect ratio of the swap chain it is drawn into
   (application.cpp:101-107).                                              *)
THEOREM AspectMatchesHolds == Spec => []AspectMatches
<1>1. WindowInv => AspectMatches
    BY DEF WindowInv, AspectMatches, Projected
<1> QED
    BY <1>1, WindowInvariance, PTL

(* Pipelines are bound only inside a pass of the format they were made for
   (renderer.cpp:114-115).                                                 *)
THEOREM PipelinesCompatibleHolds == Spec => []PipelinesCompatible
<1>1. WindowInv => PipelinesCompatible
    BY DEF WindowInv, PipelinesCompatible
<1> QED
    BY <1>1, WindowInvariance, PTL
=============================================================================

-------------------------- MODULE FrameSyncPacing --------------------------
(***************************************************************************)
(* FrameSync implements FramePacing: fences, semaphores, out-of-date       *)
(* surfaces, resizes and recreated swap chains are invisible behind the    *)
(* ring of slots.                                                          *)
(***************************************************************************)
EXTENDS FrameSync

Submitted == pc \in {"present", "recreateEnd"}

SlotState(s) ==
    IF \E p \in pending : p.slot = s THEN "inFlight"
    ELSE IF Recording /\ s = currentFrameIndex THEN "recording"
    ELSE "idle"

SlotMap == [s \in Frames |-> SlotState(s)]

NextSlot ==
    IF Stopped THEN 0
    ELSE IF Submitted THEN NextFrame(currentFrameIndex)
    ELSE currentFrameIndex

Pacing == INSTANCE FramePacing WITH
    SlotCount <- MAX_FRAMES_IN_FLIGHT,
    slot <- SlotMap,
    next <- NextSlot,
    running <- ~Stopped

(* Renderer::beginFrame hands out the slots in ring order and only those the
   GPU has given back, and the GPU gives every slot back, through every
   recreation of the swap chain (renderer.cpp:15-52).                      *)
ImplementsPacing == Pacing!Spec
=============================================================================

-------------------------- MODULE FrameSyncProofs --------------------------
(***************************************************************************)
(* Proofs about FrameSync for every number of frames in flight, every      *)
(* number of swap chain images and both acquire disciplines.  IndInv is    *)
(* shown inductive, one lemma per group of actions; the properties follow  *)
(* from it, and so does that FrameSync implements the safety part of       *)
(* FramePacing.                                                            *)
(***************************************************************************)
EXTENDS FrameSyncPacing, TLAPS

(* The ring position after f, without the modulus. *)
LEMMA NextFrameValue ==
    ASSUME NEW f \in Frames
    PROVE  /\ NextFrame(f) \in Frames
           /\ f = MAX_FRAMES_IN_FLIGHT - 1 => NextFrame(f) = 0
           /\ f # MAX_FRAMES_IN_FLIGHT - 1 => NextFrame(f) = f + 1
BY FramesAssumption DEF Frames, NextFrame

(* Two positions that advance together keep their difference modulo the ring. *)
LEMMA OffsetKept ==
    ASSUME NEW f \in Frames, NEW g \in Frames, NEW a \in Frames, NEW b \in Frames,
           (a - b) - (f - g) \in {-MAX_FRAMES_IN_FLIGHT, 0, MAX_FRAMES_IN_FLIGHT}
    PROVE  (a - b) - (NextFrame(f) - NextFrame(g))
                \in {-MAX_FRAMES_IN_FLIGHT, 0, MAX_FRAMES_IN_FLIGHT}
BY NextFrameValue, FramesAssumption DEF Frames

(* The constructors establish the invariant. *)
LEMMA InitIndInv == Init => IndInv
<1> SUFFICES ASSUME Init PROVE IndInv
    OBVIOUS
<1>1. 0 \in Frames /\ 0 \in Images
    BY FramesAssumption, ImagesAssumption DEF Frames, Images
<1>2. TypeOK
    BY <1>1 DEF Init, TypeOK, HostPC
<1>3. /\ FenceGuards /\ FencesOwned /\ SameOffset
      /\ FenceWaited /\ SemaphoreInUse /\ ImageFence
    BY DEF Init, FenceGuards, FencesOwned, SameOffset, FenceWaited, SemaphoreInUse,
           ImageFence, Recording, Stopped
<1> QED
    BY <1>2, <1>3 DEF IndInv

(* Every step keeps every variable in its type. *)
LEMMA TypeStep == TypeOK /\ [Next]_vars => TypeOK'
<1> SUFFICES ASSUME TypeOK, [Next]_vars PROVE TypeOK'
    OBVIOUS
<1> USE DEF TypeOK, rendererVars, swapChainVars, syncVars, deviceVars, engineVars, HostPC, Throw
<1>0. 0 \in Frames /\ 0 \in Images
    BY FramesAssumption, ImagesAssumption DEF Frames, Images
<1>1. CASE PollEvents
    BY <1>1 DEF PollEvents
<1>2. CASE WaitInFlightFence
    BY <1>2 DEF WaitInFlightFence
<1>3. CASE AcquireImage
    BY <1>3 DEF AcquireImage
<1>4. CASE AcquireFails
    BY <1>4 DEF AcquireFails
<1>5. CASE BeginCommandBuffer
    BY <1>5 DEF BeginCommandBuffer
<1>6. CASE RecordFrame
    BY <1>6 DEF RecordFrame
<1>7. CASE WaitImageFence
    BY <1>7 DEF WaitImageFence
<1>8. CASE QueueSubmit
    BY <1>8 DEF QueueSubmit, Submission
<1>9. CASE QueueSubmitFails
    BY <1>9 DEF QueueSubmitFails
<1>10. CASE QueuePresent
    <2>1. [sem |-> currentFrame, image |-> currentImageIndex] \in Present
        BY DEF Present
    <2>2. presentQueue' \in Seq(Present)
        BY <1>10, <2>1 DEF QueuePresent
    <2>3. /\ NextFrame(currentFrame) \in Frames
          /\ NextFrame(currentFrameIndex) \in Frames
        BY NextFrameValue
    <2>4. /\ pc' \in HostPC
          /\ isFrameStarted' \in BOOLEAN
          /\ currentFrameIndex' \in Frames
          /\ currentImageIndex' \in Images
          /\ framebufferResized' \in BOOLEAN
        BY <1>10, <2>3 DEF QueuePresent, FinishFrame
    <2> QED
        BY <1>10, <2>2, <2>3, <2>4 DEF QueuePresent
<1>11. CASE RecreateSwapChain
    BY <1>11, <1>0, NextFrameValue DEF RecreateSwapChain, FinishFrame, FreshSwapChain, DeviceIdle, Present
<1>12. CASE RecreateFails
    BY <1>12 DEF RecreateFails
<1>13. CASE DrainAfterLoop
    BY <1>13 DEF DrainAfterLoop
<1>14. CASE DestroyRunLocals
    BY <1>14 DEF DestroyRunLocals
<1>15. CASE Teardown
    BY <1>15 DEF Teardown
<1>16. ASSUME NEW s \in pending, CompleteSubmission(s) PROVE TypeOK'
    BY <1>16 DEF CompleteSubmission, SignalSemaphores, Submission, Present
<1>17. CASE ExecutePresent
    <2>1. Head(presentQueue) \in Present /\ Tail(presentQueue) \in Seq(Present)
        BY <1>17 DEF ExecutePresent
    <2>2. Head(presentQueue).image \in Images
        BY <2>1 DEF Present
    <2> QED
        BY <1>17, <2>1, <2>2 DEF ExecutePresent
<1>18. ASSUME NEW i \in Images, OfferImage(i) PROVE TypeOK'
    BY <1>18 DEF OfferImage, Submission, Present
<1>19. ASSUME NEW f \in Frames, SignalImageAvailable(f) PROVE TypeOK'
    BY <1>19 DEF SignalImageAvailable, Submission, Present
<1>20. CASE UNCHANGED vars
    BY <1>20 DEF vars
<1> QED
    BY <1>1, <1>2, <1>3, <1>4, <1>5, <1>6, <1>7, <1>8, <1>9, <1>10, <1>11, <1>12, <1>13, <1>14, <1>15, <1>16, <1>17, <1>18, <1>19, <1>20 DEF Next, Host, Device, Exited
(* Every step keeps the invariant: the fence of a slot, once waited for, stays
   with the slot until it is submitted, and a new swap chain starts with
   nothing in flight.                                                      *)
LEMMA IndInvStep == IndInv /\ [Next]_vars => IndInv'
<1> SUFFICES ASSUME IndInv, [Next]_vars PROVE IndInv'
    OBVIOUS
<1>0. TypeOK'
    BY TypeStep DEF IndInv
<1> USE DEF IndInv, FenceGuards, FencesOwned, SameOffset, FenceWaited, SemaphoreInUse, ImageFence, TypeOK, Recording, Stopped, rendererVars, swapChainVars, syncVars, deviceVars, engineVars, Throw
<1>1. CASE PollEvents
    BY <1>1, <1>0 DEF PollEvents
<1>2. CASE WaitInFlightFence
    BY <1>2, <1>0 DEF WaitInFlightFence
<1>3. CASE AcquireImage
    BY <1>3, <1>0 DEF AcquireImage
<1>4. CASE AcquireFails
    BY <1>4, <1>0 DEF AcquireFails
<1>5. CASE BeginCommandBuffer
    BY <1>5, <1>0 DEF BeginCommandBuffer
<1>6. CASE RecordFrame
    BY <1>6, <1>0 DEF RecordFrame
<1>7. CASE WaitImageFence
    <2>1. \A s \in pending : s.image # currentImageIndex
        BY <1>7, NullAssumption DEF WaitImageFence, Submission
    <2>2. ImageFence'
        BY <1>7, <2>1 DEF WaitImageFence, Submission
    <2>3. FenceGuards' /\ FencesOwned' /\ SameOffset' /\ FenceWaited' /\ SemaphoreInUse'
        BY <1>7 DEF WaitImageFence
    <2> QED
        BY <1>0, <2>2, <2>3
<1>8. CASE QueueSubmit
    <2> DEFINE new == [fence |-> currentFrame, slot |-> currentFrameIndex,
                       image |-> currentImageIndex]
    <2>1. /\ pending' = pending \cup {new}
          /\ fence' = fence \ {currentFrame}
          /\ currentFrame \in fence
        BY <1>8 DEF QueueSubmit
    <2>a. /\ pc = "submit" /\ pc' = "present"
          /\ UNCHANGED <<currentFrame, currentFrameIndex, currentImageIndex,
                         imagesInFlight, imageAvailable>>
        BY <1>8 DEF QueueSubmit
    <2>b. new.fence = currentFrame /\ new.slot = currentFrameIndex /\ new.image = currentImageIndex
        OBVIOUS
    <2> HIDE DEF new
    <2>2. FenceGuards'
        BY <2>1, <2>b
    <2>3. FencesOwned'
        <3> SUFFICES ASSUME NEW f \in Frames
                     PROVE  f \notin fence' <=> \E s \in pending' : s.fence = f
            BY DEF FencesOwned
        <3>1. f \notin fence <=> \E s \in pending : s.fence = f
            BY <2>a
        <3> QED
            BY <3>1, <2>1, <2>b
    <2>4. SameOffset'
        <3>1. (new.slot - new.fence) - (currentFrameIndex - currentFrame) = 0
            BY <2>b DEF Frames
        <3> QED
            BY <2>1, <2>a, <3>1
    <2>5. FenceWaited'
        BY <2>a
    <2>6. SemaphoreInUse'
        <3> SUFFICES ASSUME NEW f \in Frames, imageAvailable[f] # "unsignaled"
                     PROVE  \E s \in pending' : s.fence = f
            BY <2>a
        <3>1. f = currentFrame \/ \E s \in pending : s.fence = f
            BY <2>a
        <3> QED
            BY <3>1, <2>1, <2>b
    <2>7. ImageFence'
        BY <2>1, <2>a, <2>b
    <2> QED
        BY <1>0, <2>2, <2>3, <2>4, <2>5, <2>6, <2>7
<1>9. CASE QueueSubmitFails
    BY <1>9, <1>0 DEF QueueSubmitFails
<1>10. CASE QueuePresent
    <2>1. UNCHANGED <<fence, pending, imageAvailable, imagesInFlight>> /\ pc = "present"
        BY <1>10 DEF QueuePresent
    <2>2. pc' \in {"loop", "recreateEnd", "unwind"}
        BY <1>10 DEF QueuePresent, FinishFrame
    <2>3. FenceGuards' /\ FencesOwned' /\ FenceWaited' /\ SemaphoreInUse' /\ ImageFence'
        BY <2>1, <2>2
    <2>4. SameOffset'
        <3> SUFFICES ASSUME pc' = "loop", NEW s \in pending
                     PROVE  (s.slot - s.fence) - (currentFrameIndex' - currentFrame')
                               \in {-MAX_FRAMES_IN_FLIGHT, 0, MAX_FRAMES_IN_FLIGHT}
            BY <2>1, <2>2
        <3>1. /\ currentFrameIndex' = NextFrame(currentFrameIndex)
              /\ currentFrame' = NextFrame(currentFrame)
            BY <1>10 DEF QueuePresent, FinishFrame
        <3>2. (s.slot - s.fence) - (currentFrameIndex - currentFrame)
                  \in {-MAX_FRAMES_IN_FLIGHT, 0, MAX_FRAMES_IN_FLIGHT}
            BY <2>1
        <3>3. s.slot \in Frames /\ s.fence \in Frames
            BY DEF Submission
        <3> QED
            BY <3>1, <3>2, <3>3, OffsetKept
    <2> QED
        BY <1>0, <2>3, <2>4
<1>11. CASE RecreateSwapChain
    BY <1>11, <1>0 DEF RecreateSwapChain, FinishFrame, FreshSwapChain, DeviceIdle
<1>12. CASE RecreateFails
    BY <1>12, <1>0 DEF RecreateFails
<1>13. CASE DrainAfterLoop
    BY <1>13, <1>0 DEF DrainAfterLoop
<1>14. CASE DestroyRunLocals
    BY <1>14, <1>0 DEF DestroyRunLocals
<1>15. CASE Teardown
    BY <1>15, <1>0 DEF Teardown
<1>16. ASSUME NEW s \in pending, CompleteSubmission(s) PROVE IndInv'
    BY <1>16, <1>0 DEF CompleteSubmission, SignalSemaphores, Submission
<1>17. CASE ExecutePresent
    BY <1>17, <1>0 DEF ExecutePresent, Submission
<1>18. ASSUME NEW i \in Images, OfferImage(i) PROVE IndInv'
    BY <1>18, <1>0 DEF OfferImage, Submission
<1>19. ASSUME NEW f \in Frames, SignalImageAvailable(f) PROVE IndInv'
    BY <1>19, <1>0 DEF SignalImageAvailable, Submission
<1>20. CASE UNCHANGED vars
    BY <1>20, <1>0 DEF vars
<1> QED
    BY <1>1, <1>2, <1>3, <1>4, <1>5, <1>6, <1>7, <1>8, <1>9, <1>10, <1>11, <1>12, <1>13, <1>14, <1>15, <1>16, <1>17, <1>18, <1>19, <1>20 DEF Next, Host, Device, Exited

-----------------------------------------------------------------------------
(* The state of the frame loop stays within its types. *)
THEOREM TypeCorrect == Spec => []TypeOK
<1>1. Init => TypeOK
    BY InitIndInv DEF IndInv
<1>2. TypeOK /\ [Next]_vars => TypeOK'
    BY TypeStep
<1> QED
    BY <1>1, <1>2, PTL DEF Spec

(* IndInv is an invariant of the frame loop. *)
THEOREM Invariance == Spec => []IndInv
BY InitIndInv, IndInvStep, PTL DEF Spec

(* A submission on the slot of the frame would have the fence of the frame, which
   has been waited for (swapchain.cpp:53-57, renderer.cpp:51).             *)
LEMMA SlotFree ==
    ASSUME IndInv, pc = "acquire" \/ Recording, NEW s \in pending
    PROVE  s.slot # currentFrameIndex
<1> SUFFICES ASSUME s.slot = currentFrameIndex PROVE FALSE
    OBVIOUS
<1>1. s.fence \in Frames /\ currentFrame \in Frames /\ currentFrameIndex \in Frames
    BY DEF IndInv, TypeOK, Submission
<1>2. currentFrame - s.fence \in {-MAX_FRAMES_IN_FLIGHT, 0, MAX_FRAMES_IN_FLIGHT}
    <2>1. ~Stopped /\ pc # "recreateEnd"
        BY DEF Recording, Stopped
    <2>2. (s.slot - s.fence) - (currentFrameIndex - currentFrame)
              \in {-MAX_FRAMES_IN_FLIGHT, 0, MAX_FRAMES_IN_FLIGHT}
        BY <2>1 DEF IndInv, SameOffset
    <2> QED
        BY <2>2, <1>1, FramesAssumption DEF Frames
<1>3. s.fence = currentFrame
    BY <1>1, <1>2, FramesAssumption DEF Frames
<1> QED
    BY <1>3 DEF IndInv, FenceGuards, FenceWaited

(* While the host works on a slot the GPU does not: beginFrame, the uniform
   buffer and descriptor pool writes of run, and endFrame up to the submission. *)
THEOREM SlotExclusiveHolds == Spec => []SlotExclusive
<1>1. IndInv => SlotExclusive
    BY SlotFree DEF SlotExclusive, Recording
<1> QED
    BY <1>1, Invariance, PTL

(* The semaphore given to vkAcquireNextImageKHR is unsignaled and nothing
   waits for it (swapchain.cpp:61).                                        *)
THEOREM AcquireSemaphoreFreeHolds == Spec => []AcquireSemaphoreFree
<1>1. IndInv => AcquireSemaphoreFree
    <2> SUFFICES ASSUME IndInv, pc = "acquire" PROVE AcquireSemaphoreFree
        BY DEF AcquireSemaphoreFree
    <2>1. \A s \in pending : s.fence # currentFrame
        BY DEF IndInv, FenceGuards, FenceWaited
    <2>2. imageAvailable[currentFrame] = "unsignaled"
        BY <2>1 DEF IndInv, TypeOK, SemaphoreInUse, Stopped, Recording
    <2> QED
        BY <2>1, <2>2 DEF AcquireSemaphoreFree
<1> QED
    BY <1>1, Invariance, PTL

(* Two submissions in flight never draw into the same image: the wait on
   imagesInFlight in submitCommandBuffers.                                 *)
THEOREM ImageExclusiveHolds == Spec => []ImageExclusive
<1>1. IndInv => ImageExclusive
    BY DEF IndInv, ImageExclusive, ImageFence, FenceGuards
<1> QED
    BY <1>1, Invariance, PTL

(* No wait on an in-flight fence is for a submission that was never made. *)
THEOREM FencesOwnedHolds == Spec => []FencesOwned
<1>1. IndInv => FencesOwned
    BY DEF IndInv
<1> QED
    BY <1>1, Invariance, PTL

(* The assertions on isFrameStarted in renderer.cpp and renderer.hpp hold. *)
THEOREM FrameBracketingHolds == Spec => []FrameBracketing
<1>1. Init => FrameBracketing
    BY DEF Init, FrameBracketing
<1>2. FrameBracketing /\ [Next]_vars => FrameBracketing'
    <2> SUFFICES ASSUME FrameBracketing, [Next]_vars PROVE FrameBracketing'
        OBVIOUS
    <2> USE DEF FrameBracketing, rendererVars
    <2>1. CASE Host
        BY <2>1 DEF Host, PollEvents, WaitInFlightFence, AcquireImage, AcquireFails,
            BeginCommandBuffer, RecordFrame, WaitImageFence, QueueSubmit,
            QueueSubmitFails, QueuePresent, RecreateSwapChain, RecreateFails,
            DrainAfterLoop, DestroyRunLocals, Teardown, FinishFrame, Throw
    <2>2. CASE Device
        BY <2>2 DEF Device, CompleteSubmission, ExecutePresent, OfferImage, SignalImageAvailable
    <2>3. CASE UNCHANGED vars
        BY <2>3 DEF vars
    <2> QED
        BY <2>1, <2>2, <2>3 DEF Next, Exited
<1> QED
    BY <1>1, <1>2, PTL DEF Spec

-----------------------------------------------------------------------------
(* FrameSync implements the safety part of FramePacing: initial states map to initial
   states and every step to a step of the ring of slots or to none. Fairness stays with
   TLC.                                                                    *)

(* FramePacing without its fairness. *)
PacingSafety == Pacing!Init /\ [][Pacing!Next]_(Pacing!vars)

(* A slot has at most one submission. Between a present and the end of a recreation,
   and while the program stops, the offset of the rings says nothing of it. *)
SlotsDistinct == \A s, t \in pending : s.slot = t.slot => s = t

PacingInv == IndInv /\ SlotsDistinct

(* Every step of the frame loop keeps what the mapping to slots rests on
   (renderer.cpp:19-60).                                                    *)
LEMMA PacingInvStep == PacingInv /\ [Next]_vars => PacingInv'
<1> SUFFICES ASSUME PacingInv, [Next]_vars PROVE PacingInv'
    OBVIOUS
<1>0. IndInv'
    BY IndInvStep DEF PacingInv
<1>1. CASE QueueSubmit
    <2>1. \A s \in pending : s.slot # currentFrameIndex
        BY <1>1, SlotFree DEF QueueSubmit, PacingInv, Recording
    <2> DEFINE new == [fence |-> currentFrame, slot |-> currentFrameIndex,
                       image |-> currentImageIndex]
    <2>2. pending' = pending \cup {new} /\ new.slot = currentFrameIndex
        BY <1>1 DEF QueueSubmit
    <2> HIDE DEF new
    <2>3. SlotsDistinct'
        BY <2>1, <2>2 DEF PacingInv, SlotsDistinct
    <2> QED
        BY <1>0, <2>3 DEF PacingInv
<1>2. CASE ~QueueSubmit
    <2>1. pending' \subseteq pending
        BY <1>2 DEF Next, Host, Device, Exited, vars, deviceVars, PollEvents, WaitInFlightFence,
            AcquireImage, AcquireFails, BeginCommandBuffer, RecordFrame, WaitImageFence,
            QueueSubmitFails, QueuePresent, RecreateSwapChain, RecreateFails, DrainAfterLoop,
            DestroyRunLocals, Teardown, CompleteSubmission, ExecutePresent, OfferImage,
            SignalImageAvailable
    <2> QED
        BY <1>0, <2>1 DEF PacingInv, SlotsDistinct
<1> QED
    BY <1>1, <1>2

-----------------------------------------------------------------------------
(* Steps as the ring sees them                                             *)

(* A step that neither submits nor completes, begins nor ends a frame. *)
Hidden ==
    /\ pending' = pending
    /\ Stopped' = Stopped /\ Recording' = Recording
    /\ NextSlot' = NextSlot
    /\ Recording => currentFrameIndex' = currentFrameIndex

(* Steps of the queue and the window system that touch no slot change nothing of it.  *)
LEMMA HiddenStep == Hidden => UNCHANGED Pacing!vars
BY DEF Hidden, Pacing!vars, SlotMap, SlotState

(* A step that stops the program. *)
LEMMA StopStep ==
    ASSUME pending' = pending, ~Stopped, Stopped'
    PROVE  Pacing!Next
<1>1. ~Recording'
    BY DEF Stopped, Recording
<1>2. SlotMap' = [s \in Pacing!Slots |-> IF SlotMap[s] = "recording" THEN "idle" ELSE SlotMap[s]]
    BY <1>1 DEF SlotMap, SlotState, Pacing!Slots, Frames
<1>3. NextSlot' = 0
    BY DEF NextSlot
<1> QED
    BY <1>2, <1>3 DEF Pacing!Next, Pacing!Stop

(* An image is acquired: the slot is idle, since its fence has been waited for. *)
LEMMA BeginStep ==
    ASSUME IndInv, AcquireImage
    PROVE  Pacing!Next
<1>1. /\ pc = "acquire" /\ pc' = "beginCmd"
      /\ pending' = pending /\ currentFrameIndex' = currentFrameIndex
    BY DEF AcquireImage, deviceVars
<1>2. currentFrameIndex \in Frames
    BY DEF IndInv, TypeOK
<1>3. ~Stopped /\ ~Stopped' /\ ~Recording /\ Recording'
    BY <1>1 DEF Stopped, Recording
<1>4. NextSlot = currentFrameIndex /\ NextSlot' = currentFrameIndex
    BY <1>1, <1>3 DEF NextSlot, Submitted
<1>5. \A s \in pending : s.slot # currentFrameIndex
    BY <1>1, SlotFree
<1>6. SlotMap[NextSlot] = "idle"
    BY <1>2, <1>3, <1>4, <1>5 DEF SlotMap, SlotState
<1>7. SlotMap' = [SlotMap EXCEPT ![NextSlot] = "recording"]
    BY <1>1, <1>3, <1>4, <1>5 DEF SlotMap, SlotState
<1> QED
    BY <1>3, <1>4, <1>6, <1>7 DEF Pacing!Next, Pacing!Begin

(* The submission of the slot that is recorded. *)
LEMMA SubmitStep ==
    ASSUME IndInv, QueueSubmit
    PROVE  Pacing!Next
<1> DEFINE new == [fence |-> currentFrame, slot |-> currentFrameIndex,
                   image |-> currentImageIndex]
<1>1. /\ pc = "submit" /\ pc' = "present"
      /\ pending' = pending \cup {new} /\ new.slot = currentFrameIndex
      /\ currentFrameIndex' = currentFrameIndex
    BY DEF QueueSubmit, rendererVars
<1> HIDE DEF new
<1>2. currentFrameIndex \in Frames
    BY DEF IndInv, TypeOK
<1>3. ~Stopped /\ ~Stopped' /\ Recording /\ ~Recording' /\ ~Submitted /\ Submitted'
    BY <1>1 DEF Stopped, Recording, Submitted
<1>4. NextSlot = currentFrameIndex /\ NextSlot' = (NextSlot + 1) % MAX_FRAMES_IN_FLIGHT
    BY <1>1, <1>3 DEF NextSlot, NextFrame
<1>5. \A s \in pending : s.slot # currentFrameIndex
    BY <1>3, SlotFree
<1>6. SlotMap[NextSlot] = "recording"
    BY <1>2, <1>3, <1>4, <1>5 DEF SlotMap, SlotState
<1>7. SlotMap' = [SlotMap EXCEPT ![NextSlot] = "inFlight"]
    BY <1>1, <1>3, <1>4 DEF SlotMap, SlotState
<1> QED
    BY <1>3, <1>4, <1>6, <1>7 DEF Pacing!Next, Pacing!Submit

(* The only submission of a slot completes: the slot is idle, not recorded. *)
LEMMA CompleteStep ==
    ASSUME PacingInv, NEW s \in pending, CompleteSubmission(s)
    PROVE  Pacing!Next
<1>1. /\ pending' = pending \ {s}
      /\ UNCHANGED <<pc, currentFrameIndex>>
    BY DEF CompleteSubmission, rendererVars
<1>2. s.slot \in Frames
    BY DEF PacingInv, IndInv, TypeOK, Submission
<1>3. UNCHANGED <<Stopped, Recording, NextSlot>>
    BY <1>1 DEF Stopped, Recording, NextSlot, Submitted, NextFrame
<1>4. Recording => s.slot # currentFrameIndex
    BY SlotFree DEF PacingInv
<1>5. \A t \in pending' : t.slot # s.slot
    BY <1>1 DEF PacingInv, SlotsDistinct
<1>6. SlotMap[s.slot] = "inFlight"
    BY <1>2 DEF SlotMap, SlotState
<1>7. SlotMap' = [SlotMap EXCEPT ![s.slot] = "idle"]
    <2>1. \A f \in Frames : SlotState(f)' = IF f = s.slot THEN "idle" ELSE SlotState(f)
        BY <1>1, <1>3, <1>4, <1>5 DEF SlotState
    <2> QED
        BY <2>1 DEF SlotMap
<1>8. s.slot \in Pacing!Slots
    BY <1>2 DEF Pacing!Slots, Frames
<1> QED
    BY <1>3, <1>6, <1>7, <1>8 DEF Pacing!Next, Pacing!Complete

-----------------------------------------------------------------------------
(* Every step of the frame loop is a step of the ring, or hidden from it. *)
LEMMA PacingStep == PacingInv /\ [Next]_vars => [Pacing!Next]_(Pacing!vars)
<1> SUFFICES ASSUME PacingInv, [Next]_vars PROVE [Pacing!Next]_(Pacing!vars)
    OBVIOUS
<1>0. IndInv
    BY DEF PacingInv
<1> USE DEF Stopped, Recording, Submitted, rendererVars, deviceVars, Throw
<1>1. CASE PollEvents
    <2>1. CASE pc' = "drain"
        BY <1>1, <2>1, StopStep DEF PollEvents
    <2>2. CASE pc' = "waitFence"
        BY <1>1, <2>2, HiddenStep DEF PollEvents, Hidden, NextSlot
    <2> QED
        BY <1>1, <2>1, <2>2 DEF PollEvents
<1>2. CASE WaitInFlightFence
    BY <1>2, HiddenStep DEF WaitInFlightFence, Hidden, NextSlot
<1>3. CASE AcquireImage
    BY <1>3, <1>0, BeginStep
<1>4. CASE AcquireFails
    <2>1. CASE pc' = "recreateBegin"
        BY <1>4, <2>1, HiddenStep DEF AcquireFails, Hidden, NextSlot
    <2>2. CASE pc' = "unwind"
        BY <1>4, <2>2, StopStep DEF AcquireFails
    <2> QED
        BY <1>4, <2>1, <2>2 DEF AcquireFails
<1>5. CASE BeginCommandBuffer
    <2>1. CASE pc' = "record"
        BY <1>5, <2>1, HiddenStep DEF BeginCommandBuffer, Hidden, NextSlot
    <2>2. CASE pc' = "unwind"
        BY <1>5, <2>2, StopStep DEF BeginCommandBuffer
    <2> QED
        BY <1>5, <2>1, <2>2 DEF BeginCommandBuffer
<1>6. CASE RecordFrame
    <2>1. CASE pc' = "waitImage"
        BY <1>6, <2>1, HiddenStep DEF RecordFrame, Hidden, NextSlot
    <2>2. CASE pc' = "unwind"
        BY <1>6, <2>2, StopStep DEF RecordFrame
    <2> QED
        BY <1>6, <2>1, <2>2 DEF RecordFrame
<1>7. CASE WaitImageFence
    BY <1>7, HiddenStep DEF WaitImageFence, Hidden, NextSlot
<1>8. CASE QueueSubmit
    BY <1>8, <1>0, SubmitStep
<1>9. CASE QueueSubmitFails
    BY <1>9, StopStep DEF QueueSubmitFails
<1>10. CASE QueuePresent
    <2>0. pc = "present" /\ pending' = pending
        BY <1>10 DEF QueuePresent
    <2>1. CASE pc' = "loop"
        <3>1. currentFrameIndex' = NextFrame(currentFrameIndex)
            BY <1>10, <2>1 DEF QueuePresent, FinishFrame
        <3> QED
            BY <2>0, <2>1, <3>1, HiddenStep DEF Hidden, NextSlot
    <2>2. CASE pc' = "recreateEnd"
        <3>1. currentFrameIndex' = currentFrameIndex
            BY <1>10, <2>2 DEF QueuePresent
        <3>2. NextFrame(currentFrameIndex)' = NextFrame(currentFrameIndex)
            BY <3>1 DEF NextFrame
        <3> QED
            BY <2>0, <2>2, <3>1, <3>2, HiddenStep DEF Hidden, NextSlot
    <2>3. CASE pc' = "unwind"
        BY <2>0, <2>3, StopStep
    <2>4. pc' \in {"loop", "recreateEnd", "unwind"}
        BY <1>10 DEF QueuePresent
    <2> QED
        BY <2>1, <2>2, <2>3, <2>4
<1>11. CASE RecreateSwapChain
    <2>0. pending' = pending /\ pc' = "loop"
        BY <1>11 DEF RecreateSwapChain
    <2>1. CASE pc = "recreateEnd"
        <3>1. currentFrameIndex' = NextFrame(currentFrameIndex)
            BY <1>11, <2>1 DEF RecreateSwapChain, FinishFrame
        <3> QED
            BY <2>0, <2>1, <3>1, HiddenStep DEF Hidden, NextSlot
    <2>2. CASE pc = "recreateBegin"
        <3>1. currentFrameIndex' = currentFrameIndex
            BY <1>11, <2>2 DEF RecreateSwapChain
        <3> QED
            BY <2>0, <2>2, <3>1, HiddenStep DEF Hidden, NextSlot
    <2> QED
        BY <1>11, <2>1, <2>2 DEF RecreateSwapChain
<1>12. CASE RecreateFails
    BY <1>12, StopStep DEF RecreateFails
<1>13. CASE DrainAfterLoop
    BY <1>13, HiddenStep DEF DrainAfterLoop, Hidden, NextSlot
<1>14. CASE DestroyRunLocals
    BY <1>14, HiddenStep DEF DestroyRunLocals, Hidden, NextSlot
<1>15. CASE Teardown
    BY <1>15, HiddenStep DEF Teardown, Hidden, NextSlot
<1>16. ASSUME NEW s \in pending, CompleteSubmission(s) PROVE Pacing!Next
    BY <1>16, CompleteStep
<1>17. ASSUME UNCHANGED <<pc, currentFrameIndex, pending>> PROVE UNCHANGED Pacing!vars
    BY <1>17, HiddenStep DEF Hidden, NextSlot, NextFrame
<1>18. CASE ExecutePresent
    BY <1>18, <1>17 DEF ExecutePresent
<1>19. ASSUME NEW i \in Images, OfferImage(i) PROVE UNCHANGED Pacing!vars
    BY <1>19, <1>17 DEF OfferImage
<1>20. ASSUME NEW f \in Frames, SignalImageAvailable(f) PROVE UNCHANGED Pacing!vars
    BY <1>20, <1>17 DEF SignalImageAvailable
<1>21. CASE UNCHANGED vars
    BY <1>21, <1>17 DEF vars
<1> QED
    BY <1>1, <1>2, <1>3, <1>4, <1>5, <1>6, <1>7, <1>8, <1>9, <1>10, <1>11, <1>12, <1>13,
       <1>14, <1>15, <1>16, <1>18, <1>19, <1>20, <1>21 DEF Next, Host, Device, Exited

(* The renderer hands out the slots in ring order and only those the GPU has given
   back, through every failure and recreation (renderer.cpp:15-52).        *)
THEOREM ImplementsPacingSafety == Spec => PacingSafety
<1>1. Init => Pacing!Init
    <2> SUFFICES ASSUME Init PROVE Pacing!Init
        OBVIOUS
    <2>1. ~Stopped /\ ~Recording /\ ~Submitted
        BY DEF Init, Stopped, Recording, Submitted
    <2>2. SlotMap = [s \in Pacing!Slots |-> "idle"]
        BY <2>1 DEF Init, SlotMap, SlotState, Pacing!Slots, Frames
    <2> QED
        BY <2>1, <2>2 DEF Init, Pacing!Init, NextSlot
<1>2. Init => PacingInv
    BY InitIndInv DEF Init, PacingInv, SlotsDistinct
<1>3. PacingInv /\ [Next]_vars => PacingInv'
    BY PacingInvStep
<1>4. PacingInv /\ [Next]_vars => [Pacing!Next]_(Pacing!vars)
    BY PacingStep
<1> QED
    BY <1>1, <1>2, <1>3, <1>4, PTL DEF Spec, PacingSafety
=============================================================================

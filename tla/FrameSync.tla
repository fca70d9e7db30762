----------------------------- MODULE FrameSync -----------------------------
(***************************************************************************)
(* The frame loop of the engine: Application::run, Renderer::beginFrame    *)
(* and endFrame, SwapChain::acquireNextImage and submitCommandBuffers, and *)
(* recreateSwapChain, on the host thread, running against three            *)
(* asynchronous parties: the graphics queue (completes submissions and     *)
(* signals their fence), the present queue (executes the semaphore wait of *)
(* each present, in order) and the presentation engine (offers images and  *)
(* signals imageAvailable).                                                *)
(*                                                                         *)
(* A host action ends where the host thread can block or where the effect  *)
(* of a Vulkan call becomes visible to the device.  The two indices of the *)
(* code are kept apart: currentFrameIndex (Renderer) selects the command   *)
(* buffer, the uniform buffer, the global descriptor set and the frame     *)
(* descriptor pool - together "the slot" - and survives a recreation;      *)
(* currentFrame (SwapChain) selects the fence and the semaphores and       *)
(* starts again at 0 in every new SwapChain.                               *)
(***************************************************************************)
EXTENDS Integers, Sequences, FiniteSets

CONSTANTS
    MAX_FRAMES_IN_FLIGHT, \* swapchain.hpp:19
    ImageCount,           \* what vkGetSwapchainImagesKHR answered
    VK_NULL_HANDLE,       \* the value of an imagesInFlight entry before first use
    EarlyAcquire          \* TRUE: the engine may offer an image whose last
                          \* present has not yet been executed by the queue

ASSUME FramesAssumption == MAX_FRAMES_IN_FLIGHT \in Nat /\ MAX_FRAMES_IN_FLIGHT >= 1
ASSUME ImagesAssumption == ImageCount \in Nat /\ ImageCount >= 2
ASSUME EarlyAssumption == EarlyAcquire \in BOOLEAN

Frames == 0 .. (MAX_FRAMES_IN_FLIGHT - 1)
Images == 0 .. (ImageCount - 1)

ASSUME NullAssumption == VK_NULL_HANDLE \notin Frames

VARIABLES
    pc,                 \* where the host thread is
    isFrameStarted,     \* Renderer
    currentFrameIndex,  \* Renderer
    currentImageIndex,  \* Renderer
    framebufferResized, \* Window
    currentFrame,       \* SwapChain
    imagesInFlight,     \* SwapChain: image -> fence of the last submission to it
    fence,              \* the signaled inFlightFences
    imageAvailable,     \* semaphore states, by currentFrame
    renderFinished,     \* the signaled renderFinishedSemaphores
    pending,            \* submissions the graphics queue has not completed
    presentQueue,       \* presents whose semaphore wait has not been executed
    offered,            \* images the next acquire may return
    retained,           \* the image the engine keeps, if any, until a newer one
    runLocals           \* the objects Application::run owns: "live" or "destroyed"

rendererVars  == <<isFrameStarted, currentFrameIndex, currentImageIndex>>
swapChainVars == <<currentFrame, imagesInFlight>>
syncVars      == <<fence, imageAvailable, renderFinished>>
deviceVars    == <<pending, presentQueue>>
engineVars    == <<offered, retained>>
vars == <<pc, rendererVars, framebufferResized, swapChainVars, syncVars,
          deviceVars, engineVars, runLocals>>

HostPC ==
    { "loop",          \* Application::run, the while test
      "waitFence",     \* acquireNextImage, vkWaitForFences
      "acquire",       \* acquireNextImage, vkAcquireNextImageKHR
      "beginCmd",      \* beginFrame, vkBeginCommandBuffer
      "record",        \* run, lines 122-159, and vkEndCommandBuffer
      "waitImage",     \* submitCommandBuffers, wait on imagesInFlight
      "submit",        \* submitCommandBuffers, reset and vkQueueSubmit
      "present",       \* submitCommandBuffers, vkQueuePresentKHR
      "recreateBegin", \* recreateSwapChain called by beginFrame
      "recreateEnd",   \* recreateSwapChain called by endFrame
      "drain",         \* run, vkDeviceWaitIdle after the loop
      "unwind",        \* an exception leaves run
      "leaveRun",      \* the locals of run go out of scope, normal exit
      "teardown",      \* ~Application, vkDeviceWaitIdle
      "exited" }

Submission == [fence : Frames, slot : Frames, image : Images]
Present    == [sem : Frames, image : Images]

TypeOK ==
    /\ pc \in HostPC
    /\ isFrameStarted \in BOOLEAN
    /\ currentFrameIndex \in Frames
    /\ currentImageIndex \in Images
    /\ framebufferResized \in BOOLEAN
    /\ currentFrame \in Frames
    /\ imagesInFlight \in [Images -> Frames \cup {VK_NULL_HANDLE}]
    /\ fence \subseteq Frames
    /\ imageAvailable \in [Frames -> {"unsignaled", "pending", "signaled"}]
    /\ renderFinished \subseteq Frames
    /\ pending \subseteq Submission
    /\ presentQueue \in Seq(Present)
    /\ offered \subseteq Images
    /\ retained \subseteq Images
    /\ runLocals \in {"live", "destroyed"}

NextFrame(f) == (f + 1) % MAX_FRAMES_IN_FLIGHT

ImagesQueued == {presentQueue[k].image : k \in 1 .. Len(presentQueue)}

(***************************************************************************)
(* vkDeviceWaitIdle returns when no submission is pending.  It is not      *)
(* assumed to wait for the semaphore waits of presents.                    *)
(***************************************************************************)
DeviceIdle == pending = {}

-----------------------------------------------------------------------------
(* The state after the constructors: a fresh SwapChain and no frame.       *)

Init ==
    /\ pc = "loop"
    /\ isFrameStarted = FALSE
    /\ currentFrameIndex = 0
    /\ currentImageIndex = 0
    /\ framebufferResized = FALSE
    /\ currentFrame = 0
    /\ imagesInFlight = [i \in Images |-> VK_NULL_HANDLE]
    /\ fence = Frames
    /\ imageAvailable = [f \in Frames |-> "unsignaled"]
    /\ renderFinished = {}
    /\ pending = {}
    /\ presentQueue = <<>>
    /\ offered = Images
    /\ retained = {}
    /\ runLocals = "live"

-----------------------------------------------------------------------------
(* Host thread                                                             *)

Throw == pc' = "unwind"

(* while (!window.shouldClose()) glfwPollEvents(); the resize callback runs
   inside the poll.                                                         *)
PollEvents ==
    /\ pc = "loop"
    /\ \/ /\ pc' = "drain"
          /\ UNCHANGED framebufferResized
       \/ /\ pc' = "waitFence"
          /\ \E resize \in BOOLEAN :
                framebufferResized' = (framebufferResized \/ resize)
    /\ UNCHANGED <<rendererVars, swapChainVars, syncVars, deviceVars, engineVars, runLocals>>

(* acquireNextImage: wait for the fence of this swap chain frame.          *)
WaitInFlightFence ==
    /\ pc = "waitFence"
    /\ currentFrame \in fence
    /\ pc' = "acquire"
    /\ UNCHANGED <<rendererVars, framebufferResized, swapChainVars, syncVars,
                   deviceVars, engineVars, runLocals>>

(* Slip: the semaphore of the next frame is given to the acquire. *)
AcquireImageWrongSemaphore ==
    /\ pc = "acquire"
    /\ \E i \in offered :
          /\ currentImageIndex' = i
          /\ offered' = offered \ {i}
    /\ imageAvailable' = [imageAvailable EXCEPT ![NextFrame(currentFrame)] = "pending"]
    /\ isFrameStarted' = TRUE
    /\ pc' = "beginCmd"
    /\ UNCHANGED <<currentFrameIndex, framebufferResized, swapChainVars, fence,
                   renderFinished, deviceVars, retained, runLocals>>

(* vkAcquireNextImageKHR answers VK_SUCCESS or VK_SUBOPTIMAL_KHR.          *)
AcquireImage ==
    /\ pc = "acquire"
    /\ \E i \in offered :
          /\ currentImageIndex' = i
          /\ offered' = offered \ {i}
    /\ imageAvailable' = [imageAvailable EXCEPT ![currentFrame] = "pending"]
    /\ isFrameStarted' = TRUE
    /\ pc' = "beginCmd"
    /\ UNCHANGED <<currentFrameIndex, framebufferResized, swapChainVars, fence,
                   renderFinished, deviceVars, retained, runLocals>>

(* VK_ERROR_OUT_OF_DATE_KHR: recreate, no frame. Any other error: throw.   *)
AcquireFails ==
    /\ pc = "acquire"
    /\ pc' = "recreateBegin" \/ Throw
    /\ UNCHANGED <<rendererVars, framebufferResized, swapChainVars, syncVars,
                   deviceVars, engineVars, runLocals>>

(* vkBeginCommandBuffer: resets the command buffer of the slot.            *)
BeginCommandBuffer ==
    /\ pc = "beginCmd"
    /\ pc' = "record" \/ Throw
    /\ UNCHANGED <<rendererVars, framebufferResized, swapChainVars, syncVars,
                   deviceVars, engineVars, runLocals>>

(* Reset the frame pool, write the uniform buffer, record the draws of the
   slot, vkEndCommandBuffer.                                               *)
RecordFrame ==
    /\ pc = "record"
    /\ pc' = "waitImage" \/ Throw
    /\ UNCHANGED <<rendererVars, framebufferResized, swapChainVars, syncVars,
                   deviceVars, engineVars, runLocals>>

(* Slip: imagesInFlight is written but not waited for. *)
WaitImageFenceSkipped ==
    /\ pc = "waitImage"
    /\ imagesInFlight' = [imagesInFlight EXCEPT ![currentImageIndex] = currentFrame]
    /\ pc' = "submit"
    /\ UNCHANGED <<rendererVars, framebufferResized, currentFrame, syncVars,
                   deviceVars, engineVars, runLocals>>

(* submitCommandBuffers: wait for the last submission to this image.       *)
WaitImageFence ==
    /\ pc = "waitImage"
    /\ \/ imagesInFlight[currentImageIndex] = VK_NULL_HANDLE
       \/ imagesInFlight[currentImageIndex] \in fence
    /\ imagesInFlight' = [imagesInFlight EXCEPT ![currentImageIndex] = currentFrame]
    /\ pc' = "submit"
    /\ UNCHANGED <<rendererVars, framebufferResized, currentFrame, syncVars,
                   deviceVars, engineVars, runLocals>>

(* vkResetFences, then vkQueueSubmit, which succeeds.                      *)
QueueSubmit ==
    /\ pc = "submit"
    /\ fence' = fence \ {currentFrame}
    /\ pending' = pending \cup {[fence |-> currentFrame,
                                 slot  |-> currentFrameIndex,
                                 image |-> currentImageIndex]}
    /\ pc' = "present"
    /\ UNCHANGED <<rendererVars, framebufferResized, swapChainVars, imageAvailable,
                   renderFinished, presentQueue, engineVars, runLocals>>

(* vkResetFences, then vkQueueSubmit fails: the fence stays reset.         *)
QueueSubmitFails ==
    /\ pc = "submit"
    /\ fence' = fence \ {currentFrame}
    /\ Throw
    /\ UNCHANGED <<rendererVars, framebufferResized, swapChainVars, imageAvailable,
                   renderFinished, deviceVars, engineVars, runLocals>>

(* Slips: the frame is not closed; the slot is not advanced. *)
FinishFrameLeftOpen ==
    /\ currentFrameIndex' = NextFrame(currentFrameIndex)
    /\ UNCHANGED <<isFrameStarted, currentImageIndex>>

FinishFrameSameSlot ==
    /\ isFrameStarted' = FALSE
    /\ UNCHANGED <<currentFrameIndex, currentImageIndex>>

(* The tail of endFrame.                                                   *)
FinishFrame ==
    /\ isFrameStarted' = FALSE
    /\ currentFrameIndex' = NextFrame(currentFrameIndex)
    /\ UNCHANGED currentImageIndex

(* Slip: wasWindowResized is not looked at. *)
QueuePresentIgnoresResize ==
    /\ pc = "present"
    /\ currentFrame' = NextFrame(currentFrame)
    /\ presentQueue' = Append(presentQueue, [sem |-> currentFrame, image |-> currentImageIndex])
    /\ retained' = IF EarlyAcquire THEN {currentImageIndex} ELSE retained
    /\ \/ pc' = "recreateEnd" /\ framebufferResized' = FALSE /\ UNCHANGED rendererVars
       \/ pc' = "loop" /\ FinishFrame /\ UNCHANGED framebufferResized
       \/ Throw /\ UNCHANGED <<rendererVars, framebufferResized>>
    /\ UNCHANGED <<imagesInFlight, syncVars, pending, offered, runLocals>>

(* vkQueuePresentKHR, and what endFrame does with its result. A present
   that is rejected is still queued; the resize flag is looked at before a
   failure is.                                                             *)
QueuePresent ==
    /\ pc = "present"
    /\ currentFrame' = NextFrame(currentFrame)
    /\ presentQueue' = Append(presentQueue, [sem |-> currentFrame, image |-> currentImageIndex])
    /\ retained' = IF EarlyAcquire THEN {currentImageIndex} ELSE retained
    /\ \E result \in {"SUCCESS", "OUT_OF_DATE_OR_SUBOPTIMAL", "ERROR"} :
          IF result = "OUT_OF_DATE_OR_SUBOPTIMAL" \/ framebufferResized
          THEN /\ framebufferResized' = FALSE
               /\ pc' = "recreateEnd"
               /\ UNCHANGED rendererVars
          ELSE /\ UNCHANGED framebufferResized
               /\ IF result = "SUCCESS"
                  THEN pc' = "loop" /\ FinishFrame
                  ELSE Throw /\ UNCHANGED rendererVars
    /\ UNCHANGED <<imagesInFlight, syncVars, pending, offered, runLocals>>

(* The objects of a new SwapChain: createSwapChain, createSyncObjects.     *)
FreshSwapChain ==
    /\ currentFrame' = 0
    /\ imagesInFlight' = [i \in Images |-> VK_NULL_HANDLE]
    /\ fence' = Frames
    /\ imageAvailable' = [f \in Frames |-> "unsignaled"]
    /\ renderFinished' = {}
    /\ presentQueue' = <<>>
    /\ offered' = Images
    /\ retained' = {}

(* Slip: the device is not waited for. *)
RecreateSwapChainBusy ==
    /\ pc \in {"recreateBegin", "recreateEnd"}
    /\ \E resize \in BOOLEAN : framebufferResized' = (framebufferResized \/ resize)
    /\ FreshSwapChain
    /\ IF pc = "recreateEnd" THEN FinishFrame ELSE UNCHANGED rendererVars
    /\ pc' = "loop"
    /\ UNCHANGED <<pending, runLocals>>

(* recreateSwapChain: events may be handled while the window is minimised,
   then vkDeviceWaitIdle, then the new swap chain replaces the old one.    *)
RecreateSwapChain ==
    /\ pc \in {"recreateBegin", "recreateEnd"}
    /\ DeviceIdle
    /\ \E resize \in BOOLEAN : framebufferResized' = (framebufferResized \/ resize)
    /\ FreshSwapChain
    /\ IF pc = "recreateEnd" THEN FinishFrame ELSE UNCHANGED rendererVars
    /\ pc' = "loop"
    /\ UNCHANGED <<pending, runLocals>>

(* A constructor of the new swap chain throws, or the formats changed.     *)
RecreateFails ==
    /\ pc \in {"recreateBegin", "recreateEnd"}
    /\ DeviceIdle
    /\ Throw
    /\ UNCHANGED <<rendererVars, framebufferResized, swapChainVars, syncVars,
                   deviceVars, engineVars, runLocals>>

(* run returns: vkDeviceWaitIdle, then its locals are destroyed.           *)
DrainAfterLoop ==
    /\ pc = "drain"
    /\ DeviceIdle
    /\ pc' = "leaveRun"
    /\ UNCHANGED <<rendererVars, framebufferResized, swapChainVars, syncVars,
                   deviceVars, engineVars, runLocals>>

(* The locals of run - uniform buffers, set layout, pipelines - die, on
   return or while an exception unwinds the stack to main's handler.       *)
DestroyRunLocals ==
    /\ pc \in {"leaveRun", "unwind"}
    /\ runLocals' = "destroyed"
    /\ pc' = "teardown"
    /\ UNCHANGED <<rendererVars, framebufferResized, swapChainVars, syncVars,
                   deviceVars, engineVars>>

(* ~Application waits for the device before it destroys anything.          *)
Teardown ==
    /\ pc = "teardown"
    /\ DeviceIdle
    /\ pc' = "exited"
    /\ UNCHANGED <<rendererVars, framebufferResized, swapChainVars, syncVars,
                   deviceVars, engineVars, runLocals>>

Host ==
    \/ PollEvents
    \/ WaitInFlightFence
    \/ AcquireImage
    \/ AcquireFails
    \/ BeginCommandBuffer
    \/ RecordFrame
    \/ WaitImageFence
    \/ QueueSubmit
    \/ QueueSubmitFails
    \/ QueuePresent
    \/ RecreateSwapChain
    \/ RecreateFails
    \/ DrainAfterLoop
    \/ DestroyRunLocals
    \/ Teardown

-----------------------------------------------------------------------------
(* Graphics queue, present queue and presentation engine                   *)

(* Slip: the submission signals no semaphore. *)
SignalSemaphoresNone(f) == {}

(* What the submission of a frame signals: renderFinished of the frame. *)
SignalSemaphores(f) == {f}

(* A submission has waited for its image, has executed, and signals its
   semaphore and its fence. Its signal of renderFinished comes after the
   wait of an earlier present on the same semaphore. No order between
   submissions is assumed.                                                 *)
CompleteSubmission(s) ==
    /\ s \in pending
    /\ imageAvailable[s.fence] = "signaled"
    /\ s.fence \notin renderFinished
    /\ imageAvailable' = [imageAvailable EXCEPT ![s.fence] = "unsignaled"]
    /\ renderFinished' = renderFinished \cup SignalSemaphores(s.fence)
    /\ fence' = fence \cup {s.fence}
    /\ pending' = pending \ {s}
    /\ UNCHANGED <<pc, rendererVars, framebufferResized, swapChainVars,
                   presentQueue, engineVars, runLocals>>

(* The oldest present waits for renderFinished and hands its image over.   *)
ExecutePresent ==
    /\ presentQueue # <<>>
    /\ Head(presentQueue).sem \in renderFinished
    /\ renderFinished' = renderFinished \ {Head(presentQueue).sem}
    /\ presentQueue' = Tail(presentQueue)
    /\ retained' = IF EarlyAcquire THEN retained ELSE {Head(presentQueue).image}
    /\ UNCHANGED <<pc, rendererVars, framebufferResized, swapChainVars, fence,
                   imageAvailable, pending, offered, runLocals>>

HostHolds(i) == isFrameStarted /\ i = currentImageIndex

(* The presentation engine lets go of an image.                            *)
OfferImage(i) ==
    /\ i \notin offered \cup retained
    /\ ~HostHolds(i)
    /\ EarlyAcquire \/ i \notin ImagesQueued
    /\ offered' = offered \cup {i}
    /\ UNCHANGED <<pc, rendererVars, framebufferResized, swapChainVars, syncVars,
                   deviceVars, retained, runLocals>>

(* The acquired image is really free: signal the semaphore given to
   vkAcquireNextImageKHR. When that happens is left open.                  *)
SignalImageAvailable(f) ==
    /\ imageAvailable[f] = "pending"
    /\ imageAvailable' = [imageAvailable EXCEPT ![f] = "signaled"]
    /\ UNCHANGED <<pc, rendererVars, framebufferResized, swapChainVars, fence,
                   renderFinished, deviceVars, engineVars, runLocals>>

Device ==
    \/ \E s \in pending : CompleteSubmission(s)
    \/ ExecutePresent
    \/ \E i \in Images : OfferImage(i)
    \/ \E f \in Frames : SignalImageAvailable(f)

(* After exit nothing is left to happen. *)
Exited == pc = "exited" /\ UNCHANGED vars

Next == Host \/ Device \/ Exited

(* The timeout of vkAcquireNextImageKHR is UINT64_MAX: while no image is
   offered it may fail, but need not return at all.                        *)
AcquireCanReturn == pc = "acquire" => offered # {}

(***************************************************************************)
(* The host thread is scheduled, and Vulkan guarantees forward progress of *)
(* queues and of the presentation engine, which lets go of an image once   *)
(* its present has executed and another one is shown; it owes no image     *)
(* earlier than that.  Which outcome a call has is never subject to        *)
(* fairness, and no call is made to fail in order to return.               *)
(***************************************************************************)
Fairness ==
    /\ WF_vars(Host /\ AcquireCanReturn)
    /\ \A f \in Frames : WF_vars(\E s \in pending : s.fence = f /\ CompleteSubmission(s))
    /\ WF_vars(ExecutePresent)
    /\ WF_vars(\E i \in Images \ ImagesQueued : OfferImage(i))
    /\ \A f \in Frames : WF_vars(SignalImageAvailable(f))

Spec == Init /\ [][Next]_vars /\ Fairness

-----------------------------------------------------------------------------
(* Safety                                                                  *)

(* From the moment the command buffer of the slot is begun until its
   submission, no submission the GPU still executes uses the slot: the
   command buffer, uniform buffer and descriptor pool the host writes are
   its own. beginFrame and run lines 122-147 rely on it, although the fence
   is chosen by SwapChain::currentFrame and the slot by
   Renderer::currentFrameIndex.                                            *)
SlotExclusive ==
    pc \in {"beginCmd", "record", "waitImage", "submit"} =>
        \A s \in pending : s.slot # currentFrameIndex

(* "must be a not signaled semaphore" (swapchain.cpp:61): when
   vkAcquireNextImageKHR is called its semaphore is unsignaled and no
   submission still waits for it.                                          *)
AcquireSemaphoreFree ==
    pc = "acquire" =>
        /\ imageAvailable[currentFrame] = "unsignaled"
        /\ \A s \in pending : s.fence # currentFrame

(* Two submissions in flight never draw into the same swap chain image, and
   so never share its colour image, depth image and framebuffer, even when
   the engine hands images out early or out of order: what the
   imagesInFlight wait of submitCommandBuffers is for.                     *)
ImageExclusive ==
    \A s, t \in pending : s.image = t.image => s = t

(* A reset fence always has a submission that will signal it, except while
   the program ends because vkQueueSubmit failed: no wait on a fence - of
   this frame or, through imagesInFlight, of another one - can be for
   something that was never submitted.                                     *)
FencesOwned ==
    pc \notin {"unwind", "teardown", "exited"} =>
        \A f \in Frames : f \notin fence <=> \E s \in pending : s.fence = f

(* "we only specified a minimum number of images in the swap chain, so the
   implementation is allowed to create a swap chain with more"
   (swapchain.cpp:152-153): with any number of images, a submission is told
   to signal renderFinished only when the present that waited for the last
   signal has executed. The fence does not cover that present.             *)
RenderFinishedFree ==
    pc = "submit" =>
        /\ currentFrame \notin renderFinished
        /\ \A k \in 1 .. Len(presentQueue) : presentQueue[k].sem # currentFrame

(* beginFrame is entered only when no frame is open and everything up to
   endFrame runs inside one: the assertions of renderer.cpp:16,38,55,56 and
   of the getters, over every path through an acquire that failed, a
   recreation or a resize.                                                 *)
FrameBracketing ==
    /\ pc \in {"loop", "waitFence", "acquire", "recreateBegin"} => ~isFrameStarted
    /\ pc \in {"beginCmd", "record", "waitImage", "submit", "present", "recreateEnd"} =>
           isFrameStarted

(* "Wait for all the resource to be freed before destroying them"
   (application.cpp:162): the uniform buffers, pipelines and set layout
   that run owns are destroyed only when the GPU is done with them.        *)
RunLocalsUnused == runLocals = "destroyed" => pending = {}

-----------------------------------------------------------------------------
(* The inductive invariant                                                 *)

Stopped == pc \in {"drain", "leaveRun", "unwind", "teardown", "exited"}

(* Between vkAcquireNextImageKHR and vkQueueSubmit of one frame. *)
Recording == pc \in {"beginCmd", "record", "waitImage", "submit"}

(* A fence guards at most one submission and is unsignaled while it does. *)
FenceGuards ==
    \A s \in pending :
        /\ s.fence \notin fence
        /\ \A t \in pending : s.fence = t.fence => s = t

(* The two ring positions differ, but by the same amount, modulo the ring,
   in every frame since the last recreation.                               *)
SameOffset ==
    ~Stopped /\ pc # "recreateEnd" =>
        \A s \in pending :
            (s.slot - s.fence) - (currentFrameIndex - currentFrame)
                \in {-MAX_FRAMES_IN_FLIGHT, 0, MAX_FRAMES_IN_FLIGHT}

(* After the wait in acquireNextImage the fence stays signaled until the
   frame is submitted.                                                     *)
FenceWaited == pc = "acquire" \/ Recording => currentFrame \in fence

(* imageAvailable is in use only between an acquire and the completion of
   the submission that waits for it.                                       *)
SemaphoreInUse ==
    ~Stopped =>
        \A f \in Frames : imageAvailable[f] # "unsignaled" =>
            \/ Recording /\ f = currentFrame
            \/ \E s \in pending : s.fence = f

(* imagesInFlight names the fence of the submission an image is used by. *)
ImageFence ==
    /\ \A s \in pending : imagesInFlight[s.image] = s.fence
    /\ pc = "submit" => imagesInFlight[currentImageIndex] = currentFrame

(* Why no slot, image or acquire semaphore is used twice. *)
IndInv ==
    /\ TypeOK
    /\ FenceGuards
    /\ FencesOwned
    /\ SameOffset
    /\ FenceWaited
    /\ SemaphoreInUse
    /\ ImageFence

-----------------------------------------------------------------------------
(* Liveness                                                                *)

(* No fence wait, acquire or device wait blocks for ever: every iteration
   of the loop comes back to its test or the program ends, although the
   acquire waits for an image without a timeout, the engine for a present,
   the present for a submission and the submission for the image.          *)
IterationEnds == pc # "loop" ~> pc \in {"loop", "exited"}

(* Every submission completes: no cycle of the host waiting for a fence,
   the GPU for an image and the engine for a present.                      *)
SubmissionsComplete ==
    \A f \in Frames : (\E s \in pending : s.fence = f) ~> ~\E s \in pending : s.fence = f

(* A resize the callback has recorded leads to a new swap chain, whatever
   acquire and present answer, or to the end of the program.               *)
ResizeHonoured ==
    framebufferResized ~> pc \in {"recreateBegin", "recreateEnd", "drain", "unwind", "exited"}

=============================================================================

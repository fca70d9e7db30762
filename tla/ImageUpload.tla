---------------------------- MODULE ImageUpload ----------------------------
(***************************************************************************)
(* The making of a texture: Texture::createTextureImage on an Image, from  *)
(* its creation over two rounds of layout transition and copy to the mip   *)
(* chain and the view.  Every mip level has a layout, a content and a      *)
(* memory visibility of its own; vkCmdPipelineBarrier changes all three.   *)
(* Each group of commands goes through beginSingleTimeCommands and         *)
(* endSingleTimeCommands, which waits for the queue and does not notice a  *)
(* submission that failed, none of whose commands is executed.  Nothing    *)
(* looks at the levels before the queue is idle, so a command takes effect *)
(* where it is recorded, unless its submission is one that fails.  The     *)
(* pixels are abstracted to the size they were made for.                   *)
(***************************************************************************)
EXTENDS Integers, FiniteSets

CONSTANT Extents  \* widths and heights of texture files

(* Sides come from stb_image as int, below 2^31. *)
ASSUME ExtentsAssumption == Extents \subseteq {n \in Nat \ {0} : n \div 2 < 2 ^ 30}

VARIABLES
    width, height, mipLevels,  \* Image
    pc,
    round,                     \* of transition and copy, 1 or 2
    i, mipWidth, mipHeight,    \* locals of generateMipmaps
    layout,                    \* level -> layout
    content,                   \* level -> size of the picture it holds, or NoPicture
    available,                 \* levels whose last write is available
    visibleTo,                 \* level -> the accesses its content is visible to
    lost,                      \* the submission of generateMipmaps is one that fails
    submitFailed               \* some vkQueueSubmit failed, unnoticed

imageVars == <<width, height, mipLevels>>
loopVars  == <<i, mipWidth, mipHeight>>
levelVars == <<layout, content, available, visibleTo>>
submitVars == <<lost, submitFailed>>
vars == <<imageVars, pc, round, loopVars, levelVars, submitVars>>

Levels == 0 .. (mipLevels - 1)
Layouts == {"UNDEFINED", "TRANSFER_DST", "TRANSFER_SRC", "SHADER_READ_ONLY"}
Accesses == {"TRANSFER_WRITE", "TRANSFER_READ", "SHADER_READ"}
NoPicture == <<0, 0>>

UploadPC == {"create", "transition", "copy", "generate", "toSrc", "blit", "toRead",
             "lastToRead", "view", "sampler", "ready", "thrown"}

Larger(a, b) == IF a > b THEN a ELSE b

(* Slip: the levels are counted by the smaller side. *)
MipLevelsOfSmaller(w, h) == Cardinality({k \in 0 .. 30 : 2 ^ k <= w /\ 2 ^ k <= h})

(* floor(log2(max(w, h))) + 1. *)
MipLevels(w, h) == Cardinality({k \in 0 .. 30 : 2 ^ k <= Larger(w, h)})

(* Slip: no lower bound. *)
HalveToNothing(n) == n \div 2

Halve(n) == IF n > 1 THEN n \div 2 ELSE 1

UploadTypeOK ==
    /\ width \in Extents /\ height \in Extents
    /\ mipLevels \in Nat \ {0}
    /\ pc \in UploadPC
    /\ round \in 1 .. 2
    /\ i \in 1 .. mipLevels
    /\ mipWidth \in Nat \ {0} /\ mipHeight \in Nat \ {0}
    /\ layout \in [Levels -> Layouts]
    /\ content \in [Levels -> Nat \X Nat]
    /\ available \subseteq Levels
    /\ visibleTo \in [Levels -> SUBSET Accesses]
    /\ lost \in BOOLEAN /\ submitFailed \in BOOLEAN

-----------------------------------------------------------------------------
(* Commands                                                                *)

(* A barrier for some levels. A transition from UNDEFINED, or from a layout
   the level is not in, leaves no content to rely on; what is visible
   afterwards is what was available before, or made so.                    *)
Barrier(levels, oldLayout, newLayout, srcAccess, dstAccess) ==
    /\ layout' = [k \in Levels |-> IF k \in levels THEN newLayout ELSE layout[k]]
    /\ content' = [k \in Levels |->
                      IF k \in levels /\ (oldLayout = "UNDEFINED" \/ oldLayout # layout[k])
                      THEN NoPicture ELSE content[k]]
    /\ available' = IF srcAccess = "TRANSFER_WRITE" THEN available \cup levels ELSE available
    /\ visibleTo' = [k \in Levels |-> IF k \notin levels THEN visibleTo[k]
                                      ELSE IF k \in available' THEN {dstAccess} ELSE {}]

(* A transfer writes a picture of some size to a level in its layout. *)
TransferTo(k, size) ==
    /\ content' = [content EXCEPT ![k] = IF layout[k] = "TRANSFER_DST" THEN size ELSE NoPicture]
    /\ visibleTo' = [visibleTo EXCEPT ![k] = {}]
    /\ UNCHANGED layout

(* endSingleTimeCommands when vkQueueSubmit fails: no result is looked at, and
   no command was executed. Else waiting for the queue makes every write
   available.                                                              *)
SubmissionFails == submitFailed' = TRUE /\ UNCHANGED <<levelVars, lost>>

-----------------------------------------------------------------------------
Init ==
    /\ width \in Extents /\ height \in Extents
    /\ mipLevels = MipLevels(width, height)
    /\ pc = "create" /\ round = 1
    /\ i = 1 /\ mipWidth = width /\ mipHeight = height
    /\ layout = [k \in Levels |-> "UNDEFINED"]
    /\ content = [k \in Levels |-> NoPicture]
    /\ available = Levels
    /\ visibleTo = [k \in Levels |-> {}]
    /\ lost = FALSE /\ submitFailed = FALSE

(* vkCreateImage, vkAllocateMemory. *)
CreateImage ==
    /\ pc = "create"
    /\ pc' = "transition" \/ pc' = "thrown"
    /\ UNCHANGED <<imageVars, round, loopVars, levelVars, submitVars>>

(* Slip: only the first level is transitioned. *)
TransitionFirstLevel ==
    /\ pc = "transition"
    /\ \/ /\ Barrier({0}, "UNDEFINED", "TRANSFER_DST", "NONE", "TRANSFER_WRITE")
          /\ UNCHANGED submitVars
       \/ SubmissionFails
    /\ pc' = "copy"
    /\ UNCHANGED <<imageVars, round, loopVars>>

(* transitionImageLayout, of all levels. *)
TransitionImageLayout ==
    /\ pc = "transition"
    /\ \/ /\ Barrier(Levels, "UNDEFINED", "TRANSFER_DST", "NONE", "TRANSFER_WRITE")
          /\ UNCHANGED submitVars
       \/ SubmissionFails
    /\ pc' = "copy"
    /\ UNCHANGED <<imageVars, round, loopVars>>

(* Slip: the second round has no copy. *)
CopyBufferToImageOnce ==
    /\ pc = "copy"
    /\ \/ /\ IF round = 1 THEN TransferTo(0, <<width, height>>)
             ELSE UNCHANGED <<content, visibleTo, layout>>
          /\ available' = Levels
          /\ UNCHANGED submitVars
       \/ SubmissionFails
    /\ IF round = 1 THEN round' = 2 /\ pc' = "transition" ELSE UNCHANGED round /\ pc' = "generate"
    /\ UNCHANGED <<imageVars, loopVars>>

(* copyBufferToImage, to level 0. The constructor does transition and copy
   twice.                                                                  *)
CopyBufferToImage ==
    /\ pc = "copy"
    /\ \/ /\ TransferTo(0, <<width, height>>)
          /\ available' = Levels
          /\ UNCHANGED submitVars
       \/ SubmissionFails
    /\ IF round = 1 THEN round' = 2 /\ pc' = "transition" ELSE UNCHANGED round /\ pc' = "generate"
    /\ UNCHANGED <<imageVars, loopVars>>

NextLevelOrLast(k) == IF k < mipLevels THEN "toSrc" ELSE "lastToRead"

(* generateMipmaps: the format must support linear filtering. What follows,
   up to LastToShaderRead, is one submission.                              *)
GenerateMipmaps ==
    /\ pc = "generate"
    /\ \/ /\ pc' = NextLevelOrLast(i)
          /\ lost' \in BOOLEAN /\ submitFailed' = (submitFailed \/ lost')
       \/ pc' = "thrown" /\ UNCHANGED submitVars
    /\ UNCHANGED <<imageVars, round, loopVars, levelVars>>

ToTransferSrc ==
    /\ pc = "toSrc"
    /\ IF lost THEN UNCHANGED levelVars
       ELSE Barrier({i - 1}, "TRANSFER_DST", "TRANSFER_SRC", "TRANSFER_WRITE", "TRANSFER_READ")
    /\ pc' = "blit"
    /\ UNCHANGED <<imageVars, round, loopVars, submitVars>>

(* The picture of the level before, scaled. *)
Scaled ==
    IF layout[i - 1] = "TRANSFER_SRC" /\ content[i - 1] = <<mipWidth, mipHeight>>
    THEN <<Halve(mipWidth), Halve(mipHeight)>> ELSE NoPicture

BlitImage ==
    /\ pc = "blit"
    /\ IF lost THEN UNCHANGED levelVars
       ELSE TransferTo(i, Scaled) /\ available' = available \ {i}
    /\ pc' = "toRead"
    /\ UNCHANGED <<imageVars, round, loopVars, submitVars>>

(* The source level is done; the loop goes on. *)
ToShaderRead ==
    /\ pc = "toRead"
    /\ IF lost THEN UNCHANGED levelVars
       ELSE Barrier({i - 1}, "TRANSFER_SRC", "SHADER_READ_ONLY", "TRANSFER_READ", "SHADER_READ")
    /\ mipWidth' = Halve(mipWidth)
    /\ mipHeight' = Halve(mipHeight)
    /\ i' = i + 1
    /\ pc' = NextLevelOrLast(i + 1)
    /\ UNCHANGED <<imageVars, round, submitVars>>

LastToShaderRead ==
    /\ pc = "lastToRead"
    /\ IF lost THEN UNCHANGED levelVars
       ELSE Barrier({mipLevels - 1}, "TRANSFER_DST", "SHADER_READ_ONLY",
                    "TRANSFER_WRITE", "SHADER_READ")
    /\ pc' = "view"
    /\ UNCHANGED <<imageVars, round, loopVars, submitVars>>

CreateImageView ==
    /\ pc = "view"
    /\ pc' = "sampler" \/ pc' = "thrown"
    /\ UNCHANGED <<imageVars, round, loopVars, levelVars, submitVars>>

CreateTextureSampler ==
    /\ pc = "sampler"
    /\ pc' = "ready" \/ pc' = "thrown"
    /\ UNCHANGED <<imageVars, round, loopVars, levelVars, submitVars>>

Next ==
    \/ CreateImage
    \/ TransitionImageLayout
    \/ CopyBufferToImage
    \/ GenerateMipmaps
    \/ ToTransferSrc
    \/ BlitImage
    \/ ToShaderRead
    \/ LastToShaderRead
    \/ CreateImageView
    \/ CreateTextureSampler

Spec == Init /\ [][Next]_vars

-----------------------------------------------------------------------------
(* The size Vulkan gives a mip level. *)
LevelExtent(k) == <<Larger(1, width \div 2 ^ k), Larger(1, height \div 2 ^ k)>>

(* Every command names the layout its level really has: the oldLayout of each
   barrier, both layouts of each blit and the layout of each copy, over the
   two rounds and a loop that leaves each level behind in another layout
   (image.cpp:164-222) - unless a submission failed, after which commands go
   on to name what the lost ones would have left behind.                   *)
LayoutsNamed ==
    ~submitFailed =>
        /\ pc = "copy" => layout[0] = "TRANSFER_DST"
        /\ pc = "toSrc" => layout[i - 1] = "TRANSFER_DST"
        /\ pc = "blit" => layout[i - 1] = "TRANSFER_SRC" /\ layout[i] = "TRANSFER_DST"
        /\ pc = "toRead" => layout[i - 1] = "TRANSFER_SRC"
        /\ pc = "lastToRead" => layout[mipLevels - 1] = "TRANSFER_DST"

(* A blit reads the whole of a level that has been filled and whose content
   is visible to it, and fills the whole of a level that transfers may write:
   the running size of the loop is the size of the level (image.cpp:177-209).
   What a lost submission should have filled is exempt; the sizes are not.  *)
BlitWholeLevels ==
    pc = "blit" =>
        /\ <<mipWidth, mipHeight>> = LevelExtent(i - 1)
        /\ <<Halve(mipWidth), Halve(mipHeight)>> = LevelExtent(i)
        /\ ~submitFailed =>
              /\ content[i - 1] = LevelExtent(i - 1)
              /\ "TRANSFER_READ" \in visibleTo[i - 1]
              /\ "TRANSFER_WRITE" \in visibleTo[i]

(* What getDescriptorImageInfo promises the shader (texture.cpp:80-87): all
   levels of the view are in SHADER_READ_ONLY layout, filled, visible to the
   shader, and the chain goes down to a single pixel - unless a submission
   failed, which endSingleTimeCommands does not notice.                    *)
TextureReady ==
    pc = "ready" /\ ~submitFailed =>
        /\ \A k \in Levels : /\ layout[k] = "SHADER_READ_ONLY"
                             /\ content[k] = LevelExtent(k)
                             /\ "SHADER_READ" \in visibleTo[k]
        /\ LevelExtent(mipLevels - 1) = <<1, 1>>

-----------------------------------------------------------------------------
(* The inductive invariant of the layouts: behind the loop every level is
   readable by shaders, ahead of it every level is ready to be written, as
   long as every submission was executed.                                  *)
LoopInv ==
    /\ pc \in {"create", "transition", "copy", "generate"} => i = 1
    /\ pc \in {"toSrc", "blit", "toRead"} => i < mipLevels
    /\ pc = "lastToRead" => i = mipLevels
    /\ lost => submitFailed

LevelsInLayout ==
    /\ pc \in {"copy", "generate"} => \A k \in Levels : layout[k] = "TRANSFER_DST"
    /\ pc = "toSrc" => layout[i - 1] = "TRANSFER_DST"
    /\ pc \in {"blit", "toRead"} => layout[i - 1] = "TRANSFER_SRC"
    /\ pc \in {"toSrc", "blit", "toRead", "lastToRead"} =>
          \A k \in Levels : /\ k < i - 1 => layout[k] = "SHADER_READ_ONLY"
                            /\ k >= i => layout[k] = "TRANSFER_DST"
    /\ pc = "lastToRead" => layout[mipLevels - 1] = "TRANSFER_DST"
    /\ pc \in {"view", "sampler", "ready"} => \A k \in Levels : layout[k] = "SHADER_READ_ONLY"

LayoutInv == LoopInv /\ (~submitFailed => LevelsInLayout)

=============================================================================

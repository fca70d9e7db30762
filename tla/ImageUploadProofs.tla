------------------------- MODULE ImageUploadProofs -------------------------
(***************************************************************************)
(* Proofs about ImageUpload, for images of every size: the types, that the *)
(* layouts of the mip levels are what the barriers, blits, copies and      *)
(* descriptors say they are, and that every level is filled from the one   *)
(* before and readable in the end.                                         *)
(***************************************************************************)
EXTENDS ImageUpload, InductionProofs

(* mipLevels is the number of times a side can be halved, plus one: the powers of two
   up to the larger side are those of the levels (image.cpp:23).           *)
LEMMA MipLevelsValue ==
  ASSUME NEW w \in Extents, NEW h \in Extents
  PROVE  /\ MipLevels(w, h) \in Nat \ {0}
         /\ Larger(w, h) < 2 * 2 ^ (MipLevels(w, h) - 1)
<1> DEFINE m == Larger(w, h)
           Above == {n \in Nat : m < 2 ^ n}
<1>1. m \in Nat \ {0} /\ m \div 2 < 2 ^ 30
  BY ExtentsAssumption DEF Larger
<1> HIDE DEF m
<1>2. 31 \in Above
  <2>1. 2 ^ (30 + 1) = 2 * 2 ^ 30 /\ 2 ^ 30 \in Nat
    BY PowerOfTwo
  <2>2. 30 + 1 = 31
    OBVIOUS
  <2>3. 2 ^ 31 = 2 * 2 ^ 30
    BY <2>1, <2>2
  <2> QED BY <1>1, <2>1, <2>3
<1>3. PICK l \in Above : \A n \in Above : l <= n
  <2>1. Above \in SUBSET Nat
    OBVIOUS
  <2> HIDE DEF Above
  <2> QED BY <1>2, <2>1, LeastNatural
<1>4. l \in Nat /\ m < 2 ^ l /\ l <= 31
  <2>1. l <= 31
    <3> HIDE DEF Above
    <3> QED BY <1>2, <1>3
  <2> QED BY <2>1
<1>5. l # 0
  <2> SUFFICES ASSUME l = 0 PROVE FALSE
    OBVIOUS
  <2>1. m < 2 ^ 0
    BY <1>4
  <2>2. 2 ^ 0 = 1
    BY PowerOfTwo
  <2> QED BY <1>1, <2>1, <2>2
<1>6. \A k \in 0 .. 30 : 2 ^ k <= m <=> k < l
  <2> TAKE k \in 0 .. 30
  <2>1. 2 ^ k \in Nat /\ 2 ^ l \in Nat
    BY <1>4, PowerOfTwo
  <2>2. CASE k < l
    <3>1. k \notin Above
      <4> HIDE DEF Above
      <4> QED BY <1>3, <1>4, <2>2
    <3>2. ~(m < 2 ^ k)
      BY <3>1
    <3> QED BY <1>1, <2>1, <2>2, <3>2
  <2>3. CASE l <= k
    <3>1. 2 ^ l <= 2 ^ k
      BY <1>4, <2>3, PowersGrow
    <3> QED BY <1>1, <1>4, <2>1, <2>3, <3>1
  <2> QED BY <1>4, <2>2, <2>3
<1>7. {k \in 0 .. 30 : 2 ^ k <= m} = 0 .. (l - 1)
  <2>1. \A k : k \in 0 .. (l - 1) <=> k \in 0 .. 30 /\ k < l
    BY <1>4
  <2>2. \A k : k \in 0 .. (l - 1) <=> k \in 0 .. 30 /\ 2 ^ k <= m
    BY <1>6, <2>1
  <2> HIDE DEF Above
  <2> QED BY <2>2, Zenon
<1>8. MipLevels(w, h) = l
  <2>1. Cardinality(0 .. (l - 1)) = IF 0 > l - 1 THEN 0 ELSE (l - 1) - 0 + 1
    BY <1>4, FS_Interval
  <2>2. MipLevels(w, h) = Cardinality(0 .. (l - 1))
    BY <1>7 DEF MipLevels, m
  <2> QED BY <1>4, <1>5, <2>1, <2>2
<1>9. 2 ^ l = 2 * 2 ^ (l - 1)
  <2>1. l - 1 \in Nat /\ (l - 1) + 1 = l
    BY <1>4, <1>5
  <2> QED BY <2>1, PowerOfTwo
<1> QED BY <1>4, <1>5, <1>8, <1>9 DEF m

(* The state before any command satisfies the types (image.cpp:23).        *)
LEMMA UploadTypeInit == Init => UploadTypeOK
<1> SUFFICES ASSUME Init PROVE UploadTypeOK
  OBVIOUS
<1>1. mipLevels \in Nat \ {0}
  BY MipLevelsValue DEF Init
<1>2. /\ width \in Nat \ {0} /\ height \in Nat \ {0}
      /\ mipWidth \in Nat \ {0} /\ mipHeight \in Nat \ {0}
  BY ExtentsAssumption DEF Init
<1>3. i \in 1 .. mipLevels /\ round \in 1 .. 2
  BY <1>1 DEF Init
<1>4. layout \in [Levels -> Layouts] /\ visibleTo \in [Levels -> SUBSET Accesses]
  BY DEF Init, Layouts
<1>5. content \in [Levels -> Nat \X Nat]
  BY DEF Init, NoPicture
<1>6. /\ pc \in UploadPC /\ available \subseteq Levels
      /\ lost \in BOOLEAN /\ submitFailed \in BOOLEAN
      /\ width \in Extents /\ height \in Extents
  BY DEF Init, UploadPC
<1> QED BY <1>1, <1>2, <1>3, <1>4, <1>5, <1>6 DEF UploadTypeOK

(* The types of what the commands change. *)
LevelTypes ==
  /\ layout \in [Levels -> Layouts]
  /\ content \in [Levels -> Nat \X Nat]
  /\ available \subseteq Levels
  /\ visibleTo \in [Levels -> SUBSET Accesses]

(* A barrier keeps the types of the levels (image.cpp:67-109).             *)
LEMMA BarrierType ==
  ASSUME UploadTypeOK, UNCHANGED imageVars,
         NEW levels \in SUBSET Levels, NEW old, NEW new \in Layouts,
         NEW src, NEW dst \in Accesses,
         Barrier(levels, old, new, src, dst)
  PROVE  LevelTypes'
  BY DEF UploadTypeOK, Barrier, Levels, imageVars, NoPicture, LevelTypes

(* So does a transfer of a picture to a level (image.cpp:111-139, 177-195). *)
LEMMA TransferType ==
  ASSUME UploadTypeOK, UNCHANGED imageVars,
         NEW k \in Levels, NEW size \in Nat \X Nat,
         TransferTo(k, size), available' \subseteq Levels
  PROVE  LevelTypes'
  BY DEF UploadTypeOK, TransferTo, Levels, imageVars, NoPicture, LevelTypes

(* So does a submission that was lost (device.cpp:444).                    *)
LEMMA LostType ==
  ASSUME UploadTypeOK, UNCHANGED <<imageVars, levelVars>>
  PROVE  LevelTypes'
  BY DEF UploadTypeOK, Levels, imageVars, levelVars, LevelTypes

(* The running size of the loop of generateMipmaps never gets to zero
   (image.cpp:208-209).                                                    *)
LEMMA HalvePositive == \A n \in Nat \ {0} : Halve(n) \in Nat \ {0}
  BY DEF Halve

-----------------------------------------------------------------------------
(* Every step keeps the types and the layout invariant (image.cpp:67-226). *)
LEMMA UploadStep ==
  ASSUME UploadTypeOK, LayoutInv, [Next]_vars
  PROVE  UploadTypeOK' /\ LayoutInv'
<1> USE DEF UploadPC
<1>0. /\ 0 \in Levels /\ mipLevels - 1 \in Levels /\ i - 1 \in Levels
      /\ LoopInv /\ (~submitFailed => LevelsInLayout)
  BY DEF UploadTypeOK, Levels, LayoutInv
<1>a. "TRANSFER_DST" \in Layouts /\ "TRANSFER_SRC" \in Layouts /\ "SHADER_READ_ONLY" \in Layouts
  BY DEF Layouts
<1>b. Accesses = {"TRANSFER_WRITE", "TRANSFER_READ", "SHADER_READ"}
  BY DEF Accesses
<1>c. ASSUME ~submitFailed PROVE ~lost /\ LevelsInLayout
  BY <1>0, <1>c DEF LoopInv
<1>d. /\ layout \in [Levels -> Layouts] /\ i \in Nat /\ mipLevels \in Nat
      /\ \A k \in Levels : k \in Nat /\ k <= mipLevels - 1
  BY DEF UploadTypeOK, Levels
<1>e. Levels' = Levels /\ mipLevels' = mipLevels
  BY DEF Next, vars, CreateImage, TransitionImageLayout, CopyBufferToImage, GenerateMipmaps,
         ToTransferSrc, BlitImage, ToShaderRead, LastToShaderRead, CreateImageView,
         CreateTextureSampler, Levels, imageVars
<1>1. CASE CreateImage
  <2>1. UploadTypeOK'
    BY <1>1 DEF CreateImage, UploadTypeOK, imageVars, loopVars, levelVars, submitVars, Levels
  <2>2. LoopInv'
    BY <1>1, <1>0, <1>e DEF CreateImage, LoopInv, UploadTypeOK, imageVars, loopVars, submitVars, SubmissionFails
  <2>3. ASSUME ~submitFailed' PROVE LevelsInLayout'
    <3>1. ~submitFailed
      BY <1>1, <2>3 DEF CreateImage, UploadTypeOK, SubmissionFails, submitVars
    <3>2. UNCHANGED layout
      BY <1>1, <1>c, <2>3, <3>1 DEF CreateImage, levelVars
    <3> QED
      BY <1>1, <1>0, <1>c, <1>d, <1>e, <3>1, <3>2
      DEF CreateImage, LoopInv, LevelsInLayout, loopVars
  <2> QED BY <2>1, <2>2, <2>3 DEF LayoutInv
<1>2. CASE TransitionImageLayout
  <2>1. UploadTypeOK'
    <3>1. LevelTypes'
      BY <1>2, <1>a, <1>b, BarrierType, LostType DEF TransitionImageLayout, SubmissionFails
    <3> QED
      BY <1>2, <3>1
      DEF TransitionImageLayout, SubmissionFails, UploadTypeOK, LevelTypes, imageVars, loopVars, submitVars
  <2>2. LoopInv'
    BY <1>2, <1>0, <1>e DEF TransitionImageLayout, LoopInv, UploadTypeOK, loopVars, submitVars, SubmissionFails
  <2>3. ASSUME ~submitFailed' PROVE LevelsInLayout'
    <3>1. ~submitFailed
      BY <1>2, <2>3 DEF TransitionImageLayout, UploadTypeOK, SubmissionFails, submitVars
    <3>2. layout' = [k \in Levels |-> "TRANSFER_DST"]
      BY <1>2, <1>c, <2>3, <3>1 DEF TransitionImageLayout, Barrier, SubmissionFails, submitVars
    <3> QED
      BY <1>2, <1>0, <1>c, <1>d, <1>e, <3>1, <3>2
      DEF TransitionImageLayout, LoopInv, LevelsInLayout, loopVars
  <2> QED BY <2>1, <2>2, <2>3 DEF LayoutInv
<1>3. CASE CopyBufferToImage
  <2>1. UploadTypeOK'
    <3>1. LevelTypes'
      <4>1. <<width, height>> \in Nat \X Nat
        BY ExtentsAssumption DEF UploadTypeOK
      <4> QED
        BY <1>0, <1>3, <4>1, TransferType, LostType DEF CopyBufferToImage, SubmissionFails
    <3>2. pc' \in UploadPC /\ round' \in 1 .. 2
      BY <1>3 DEF CopyBufferToImage, UploadTypeOK
    <3>3. (submitFailed' = submitFailed \/ submitFailed' = TRUE) /\ lost' = lost
      BY <1>3 DEF CopyBufferToImage, SubmissionFails, submitVars, levelVars
    <3>4. submitFailed' \in BOOLEAN /\ lost' \in BOOLEAN
      BY <3>3 DEF UploadTypeOK
    <3> QED
      BY <1>3, <3>1, <3>2, <3>4 DEF CopyBufferToImage, UploadTypeOK, LevelTypes, imageVars, loopVars
  <2>2. LoopInv'
    BY <1>3, <1>0, <1>e DEF CopyBufferToImage, LoopInv, UploadTypeOK, imageVars, loopVars, submitVars, SubmissionFails
  <2>3. ASSUME ~submitFailed' PROVE LevelsInLayout'
    <3>1. ~submitFailed
      BY <1>3, <2>3 DEF CopyBufferToImage, UploadTypeOK, SubmissionFails, submitVars
    <3>2. UNCHANGED layout
      BY <1>3, <1>c, <2>3, <3>1 DEF CopyBufferToImage, TransferTo, SubmissionFails, submitVars
    <3> QED
      BY <1>3, <1>0, <1>c, <1>d, <1>e, <3>1, <3>2
      DEF CopyBufferToImage, LoopInv, LevelsInLayout, loopVars
  <2> QED BY <2>1, <2>2, <2>3 DEF LayoutInv
<1>4. CASE GenerateMipmaps
  <2>1. UploadTypeOK'
    BY <1>4 DEF GenerateMipmaps, UploadTypeOK, imageVars, loopVars, levelVars, submitVars, Levels, NextLevelOrLast
  <2>2. LoopInv'
    BY <1>4, <1>0, <1>e DEF GenerateMipmaps, LoopInv, UploadTypeOK, imageVars, loopVars, submitVars, SubmissionFails, NextLevelOrLast
  <2>3. ASSUME ~submitFailed' PROVE LevelsInLayout'
    <3>1. ~submitFailed
      BY <1>4, <2>3 DEF GenerateMipmaps, UploadTypeOK, SubmissionFails, submitVars
    <3>2. UNCHANGED layout
      BY <1>4, <1>c, <2>3, <3>1 DEF GenerateMipmaps, levelVars, submitVars, UploadTypeOK
    <3> QED
      BY <1>4, <1>0, <1>c, <1>d, <1>e, <3>1, <3>2
      DEF GenerateMipmaps, LoopInv, LevelsInLayout, loopVars, NextLevelOrLast
  <2> QED BY <2>1, <2>2, <2>3 DEF LayoutInv
<1>5. CASE ToTransferSrc
  <2>1. UploadTypeOK'
    <3>1. LevelTypes'
      BY <1>0, <1>5, <1>a, <1>b, BarrierType, LostType DEF ToTransferSrc
    <3> QED
      BY <1>5, <3>1
      DEF ToTransferSrc, SubmissionFails, UploadTypeOK, LevelTypes, imageVars, loopVars, submitVars
  <2>2. LoopInv'
    BY <1>5, <1>0, <1>e DEF ToTransferSrc, LoopInv, UploadTypeOK, imageVars, loopVars, submitVars, SubmissionFails
  <2>3. ASSUME ~submitFailed' PROVE LevelsInLayout'
    <3>1. ~submitFailed
      BY <1>5, <2>3 DEF ToTransferSrc, UploadTypeOK, SubmissionFails, submitVars
    <3>2. layout' = [k \in Levels |-> IF k = i - 1 THEN "TRANSFER_SRC" ELSE layout[k]]
      BY <1>5, <1>c, <2>3, <3>1 DEF ToTransferSrc, Barrier, submitVars
    <3> QED
      BY <1>5, <1>0, <1>c, <1>d, <1>e, <3>1, <3>2
      DEF ToTransferSrc, LoopInv, LevelsInLayout, loopVars
  <2> QED BY <2>1, <2>2, <2>3 DEF LayoutInv
<1>6. CASE BlitImage
  <2>1. UploadTypeOK'
    <3>1. LevelTypes'
      <4>1. Scaled \in Nat \X Nat
        BY HalvePositive DEF UploadTypeOK, Scaled, NoPicture
      <4>2. i \in Levels
        BY <1>0, <1>6 DEF BlitImage, LoopInv, UploadTypeOK, Levels
      <4>3. available \ {i} \subseteq Levels
        BY DEF UploadTypeOK
      <4> QED
        BY <1>6, <4>1, <4>2, <4>3, TransferType, LostType DEF BlitImage
    <3> QED
      BY <1>6, <3>1
      DEF BlitImage, SubmissionFails, UploadTypeOK, LevelTypes, imageVars, loopVars, submitVars
  <2>2. LoopInv'
    BY <1>6, <1>0, <1>e DEF BlitImage, LoopInv, UploadTypeOK, imageVars, loopVars, submitVars, SubmissionFails
  <2>3. ASSUME ~submitFailed' PROVE LevelsInLayout'
    <3>1. ~submitFailed
      BY <1>6, <2>3 DEF BlitImage, UploadTypeOK, SubmissionFails, submitVars
    <3>2. UNCHANGED layout
      BY <1>6, <1>c, <2>3, <3>1 DEF BlitImage, TransferTo, submitVars
    <3> QED
      BY <1>6, <1>0, <1>c, <1>d, <1>e, <3>1, <3>2
      DEF BlitImage, LoopInv, LevelsInLayout, loopVars
  <2> QED BY <2>1, <2>2, <2>3 DEF LayoutInv
<1>7. CASE ToShaderRead
  <2>1. UploadTypeOK'
    <3>1. LevelTypes'
      BY <1>0, <1>7, <1>a, <1>b, BarrierType, LostType DEF ToShaderRead
    <3>2. i' \in 1 .. mipLevels'
      BY <1>0, <1>7 DEF ToShaderRead, LoopInv, UploadTypeOK, imageVars
    <3>3. mipWidth' \in Nat \ {0} /\ mipHeight' \in Nat \ {0}
      BY <1>7, HalvePositive DEF ToShaderRead, UploadTypeOK
    <3> QED
      BY <1>7, <3>1, <3>2, <3>3
      DEF ToShaderRead, NextLevelOrLast, UploadTypeOK, LevelTypes, imageVars, submitVars
  <2>2. LoopInv'
    BY <1>7, <1>0, <1>e DEF ToShaderRead, LoopInv, UploadTypeOK, imageVars, loopVars, submitVars, SubmissionFails, NextLevelOrLast
  <2>3. ASSUME ~submitFailed' PROVE LevelsInLayout'
    <3>1. ~submitFailed
      BY <1>7, <2>3 DEF ToShaderRead, UploadTypeOK, SubmissionFails, submitVars
    <3>2. layout' = [k \in Levels |-> IF k = i - 1 THEN "SHADER_READ_ONLY" ELSE layout[k]]
      BY <1>7, <1>c, <2>3, <3>1 DEF ToShaderRead, Barrier, submitVars
    <3>3. /\ i < mipLevels /\ i' = i + 1 /\ pc = "toRead"
          /\ pc' = IF i + 1 < mipLevels THEN "toSrc" ELSE "lastToRead"
      BY <1>7, <1>0 DEF ToShaderRead, LoopInv, NextLevelOrLast
    <3>4. i' - 1 = i /\ i \in Levels /\ (~(i + 1 < mipLevels) => mipLevels - 1 = i)
      BY <1>d, <3>3 DEF UploadTypeOK, Levels
    <3>5. layout[i] = "TRANSFER_DST" /\ layout'[i] = "TRANSFER_DST"
      BY <1>c, <1>d, <3>1, <3>2, <3>3, <3>4 DEF LevelsInLayout
    <3>6. \A k \in Levels : /\ k < i => layout'[k] = "SHADER_READ_ONLY"
                            /\ k >= i + 1 => layout'[k] = "TRANSFER_DST"
      BY <1>c, <1>d, <3>1, <3>2, <3>3 DEF LevelsInLayout
    <3> QED
      BY <1>e, <3>3, <3>4, <3>5, <3>6 DEF LevelsInLayout
  <2> QED BY <2>1, <2>2, <2>3 DEF LayoutInv
<1>8. CASE LastToShaderRead
  <2>1. UploadTypeOK'
    <3>1. LevelTypes'
      BY <1>0, <1>8, <1>a, <1>b, BarrierType, LostType DEF LastToShaderRead
    <3> QED
      BY <1>8, <3>1
      DEF LastToShaderRead, SubmissionFails, UploadTypeOK, LevelTypes, imageVars, loopVars, submitVars
  <2>2. LoopInv'
    BY <1>8, <1>0, <1>e DEF LastToShaderRead, LoopInv, UploadTypeOK, imageVars, loopVars, submitVars, SubmissionFails
  <2>3. ASSUME ~submitFailed' PROVE LevelsInLayout'
    <3>1. ~submitFailed
      BY <1>8, <2>3 DEF LastToShaderRead, UploadTypeOK, SubmissionFails, submitVars
    <3>2. layout' = [k \in Levels |-> IF k = mipLevels - 1 THEN "SHADER_READ_ONLY" ELSE layout[k]]
      BY <1>8, <1>c, <2>3, <3>1 DEF LastToShaderRead, Barrier, submitVars
    <3> QED
      BY <1>8, <1>0, <1>c, <1>d, <1>e, <3>1, <3>2
      DEF LastToShaderRead, LoopInv, LevelsInLayout, loopVars
  <2> QED BY <2>1, <2>2, <2>3 DEF LayoutInv
<1>9. CASE CreateImageView \/ CreateTextureSampler \/ UNCHANGED vars
  <2>1. UploadTypeOK'
    BY <1>9
    DEF CreateImageView, CreateTextureSampler, vars, UploadTypeOK, imageVars, loopVars, levelVars,
        submitVars, Levels
  <2>2. /\ UNCHANGED <<i, layout, lost, submitFailed>>
        /\ (pc \in {"view", "sampler"} /\ pc' \in {"sampler", "ready", "thrown"}) \/ pc' = pc
    BY <1>9 DEF CreateImageView, CreateTextureSampler, vars, loopVars, levelVars, submitVars
  <2>3. LoopInv'
    BY <1>0, <1>e, <2>2 DEF LoopInv
  <2>4. ASSUME ~submitFailed PROVE LevelsInLayout'
    BY <1>c, <1>e, <2>2, <2>4 DEF LevelsInLayout
  <2>5. LayoutInv'
    BY <2>2, <2>3, <2>4 DEF LayoutInv
  <2> QED BY <2>1, <2>5
<1> QED
  BY <1>1, <1>2, <1>3, <1>4, <1>5, <1>6, <1>7, <1>8, <1>9 DEF Next

-----------------------------------------------------------------------------
(* The types and the layout invariant hold throughout the making of a
   texture of any size (texture.cpp:15-55).                                *)
LEMMA UploadInvariance == Spec => [](UploadTypeOK /\ LayoutInv)
<1>1. Init => UploadTypeOK /\ LayoutInv
  BY UploadTypeInit DEF Init, LayoutInv, LoopInv, LevelsInLayout
<1>2. (UploadTypeOK /\ LayoutInv) /\ [Next]_vars => (UploadTypeOK /\ LayoutInv)'
  BY UploadStep
<1> QED BY <1>1, <1>2, PTL DEF Spec

(* Types, for every size of image (image.cpp:23, 157-226). *)
THEOREM UploadTypes == Spec => []UploadTypeOK
BY UploadInvariance, PTL

(* As long as every submission was executed, the layouts of the levels are those of
   the place in the code, for every size of image (image.cpp:67-226).      *)
THEOREM LayoutInvHolds == Spec => []LayoutInv
BY UploadInvariance, PTL

(* The layouts named by the commands are those of the levels, for every size of image
   and so for every number of mip levels, as long as no submission was lost
   (image.cpp:164-222, device.cpp:444).                                    *)
THEOREM LayoutsNamedHolds == Spec => []LayoutsNamed
<1>1. UploadTypeOK /\ LayoutInv => LayoutsNamed
  BY DEF UploadTypeOK, LayoutInv, LoopInv, LevelsInLayout, LayoutsNamed, Levels
<1> QED BY <1>1, UploadInvariance, PTL

-----------------------------------------------------------------------------
(* The pictures: the running size is that of the level last filled; as long as every
   submission was executed, every level behind the loop holds its picture and shaders
   may read it, and transfers may write to every level ahead of it.        *)
Before == {"create", "transition", "copy", "generate"}
InLoop == {"toSrc", "blit", "toRead", "lastToRead"}
Done == {"view", "sampler", "ready"}

Filled(k) == k < i \/ (pc = "toRead" /\ k = i)

LevelsFilled ==
  /\ pc \in Before => available = Levels
  /\ pc \in {"blit", "toRead"} => i - 1 \in available
  /\ pc = "copy" => \A k \in Levels : visibleTo[k] = {"TRANSFER_WRITE"}
  /\ pc = "blit" => visibleTo[i - 1] = {"TRANSFER_READ"}
  /\ pc \in InLoop \cup {"generate"} =>
        \A k \in Levels : /\ Filled(k) => content[k] = LevelExtent(k)
                          /\ ~Filled(k) => visibleTo[k] = {"TRANSFER_WRITE"}
                          /\ k < i - 1 => visibleTo[k] = {"SHADER_READ"}
  /\ pc \in Done =>
        \A k \in Levels : content[k] = LevelExtent(k) /\ visibleTo[k] = {"SHADER_READ"}

(* The sizes do not depend on what is executed. *)
PictureInv ==
  /\ mipLevels = MipLevels(width, height)
  /\ <<mipWidth, mipHeight>> = LevelExtent(i - 1)
  /\ ~submitFailed => LevelsFilled

(* Halving the side of a level gives the side of the next, down to a single pixel
   (image.cpp:189-195, 208-209).                                           *)
LEMMA NextLevelSide ==
  ASSUME NEW n \in Nat \ {0}, NEW k \in Nat
  PROVE  Halve(Larger(1, n \div 2 ^ k)) = Larger(1, n \div 2 ^ (k + 1))
<1> DEFINE q == n \div 2 ^ k
<1>1. 2 ^ k \in Nat \ {0} /\ 2 ^ (k + 1) = 2 * 2 ^ k
  BY PowerOfTwo
<1>2. q \in Nat
  BY <1>1, Quotient
<1>3. n \div 2 ^ (k + 1) = q \div 2
  BY <1>1, HalfOfQuotient
<1> HIDE DEF q
<1>4. CASE q > 1
  <2>1. q \div 2 \in Nat /\ q \div 2 >= 1
    BY <1>2, <1>4
  <2>2. Larger(1, q) = q /\ Halve(q) = q \div 2 /\ Larger(1, q \div 2) = q \div 2
    BY <1>2, <1>4, <2>1 DEF Halve, Larger
  <2> QED BY <1>3, <2>2 DEF q
<1>5. CASE q <= 1
  <2>1. q \div 2 = 0
    BY <1>2, <1>5
  <2> QED BY <1>2, <1>3, <1>5, <2>1 DEF Halve, Larger, q
<1> QED BY <1>2, <1>4, <1>5

(* So for both sides (image.cpp:189-195, 208-209).                         *)
LEMMA NextLevelExtent ==
  ASSUME width \in Extents, height \in Extents, NEW k \in Nat,
         <<mipWidth, mipHeight>> = LevelExtent(k)
  PROVE  <<Halve(mipWidth), Halve(mipHeight)>> = LevelExtent(k + 1)
<1>1. width \in Nat \ {0} /\ height \in Nat \ {0}
  BY ExtentsAssumption
<1>2. mipWidth = Larger(1, width \div 2 ^ k) /\ mipHeight = Larger(1, height \div 2 ^ k)
  BY DEF LevelExtent
<1>3. Halve(mipWidth) = Larger(1, width \div 2 ^ (k + 1))
  BY <1>1, <1>2, NextLevelSide
<1>4. Halve(mipHeight) = Larger(1, height \div 2 ^ (k + 1))
  BY <1>1, <1>2, NextLevelSide
<1> QED BY <1>3, <1>4 DEF LevelExtent

(* Level 0 is the whole picture (image.cpp:122-137).                       *)
LEMMA FirstLevelExtent ==
  ASSUME width \in Extents, height \in Extents
  PROVE  LevelExtent(0) = <<width, height>>
<1>1. width \in Nat \ {0} /\ height \in Nat \ {0}
  BY ExtentsAssumption
<1>2. 2 ^ 0 = 1
  BY PowerOfTwo
<1>3. \A n \in Nat \ {0} : Larger(1, n \div 1) = n
  BY DEF Larger
<1>4. Larger(1, width \div 2 ^ 0) = width /\ Larger(1, height \div 2 ^ 0) = height
  BY <1>1, <1>2, <1>3
<1> QED BY <1>4 DEF LevelExtent

(* The last level is a single pixel: mipLevels is neither too small for the chain to
   get there nor too large (image.cpp:23).                                 *)
LEMMA LastLevelExtent ==
  ASSUME width \in Extents, height \in Extents, mipLevels = MipLevels(width, height)
  PROVE  LevelExtent(mipLevels - 1) = <<1, 1>>
<1> DEFINE p == 2 ^ (mipLevels - 1)
<1>1. width \in Nat \ {0} /\ height \in Nat \ {0}
  BY ExtentsAssumption
<1>2. mipLevels \in Nat \ {0} /\ Larger(width, height) < 2 * p
  BY MipLevelsValue
<1>3. p \in Nat \ {0}
  BY <1>2, PowerOfTwo
<1> HIDE DEF p
<1>4. width < 2 * p /\ height < 2 * p
  BY <1>1, <1>2, <1>3 DEF Larger
<1>5. ASSUME NEW n \in Nat \ {0}, n < 2 * p PROVE Larger(1, n \div p) = 1
  <2>1. n \div p \in Nat /\ (n \div p) * p <= n
    BY <1>3, Quotient
  <2>2. n \div p <= 1
    <3> SUFFICES ASSUME n \div p >= 2 PROVE FALSE
      BY <2>1
    <3>1. 2 * p <= (n \div p) * p
      BY <1>3, <2>1, ProductMonotonic
    <3>2. (n \div p) * p \in Nat
      BY <1>3, <2>1
    <3> HIDE DEF p
    <3> QED BY <1>3, <1>5, <2>1, <3>1, <3>2
  <2> QED BY <2>1, <2>2 DEF Larger
<1>6. Larger(1, width \div p) = 1 /\ Larger(1, height \div p) = 1
  BY <1>1, <1>4, <1>5
<1> QED BY <1>6 DEF LevelExtent, p

(* What the pictures are before any command (image.cpp:23-47).             *)
LEMMA PictureInit == Init => PictureInv
<1> SUFFICES ASSUME Init PROVE PictureInv
  OBVIOUS
<1>1. LevelExtent(0) = <<width, height>>
  BY FirstLevelExtent DEF Init
<1>2. i - 1 = 0
  BY DEF Init
<1> QED BY <1>1, <1>2 DEF Init, PictureInv, LevelsFilled, Before, InLoop, Done

(* Every step keeps what is said of the pictures (image.cpp:67-226).       *)
LEMMA PictureStep ==
  ASSUME UploadTypeOK, LayoutInv, PictureInv, [Next]_vars
  PROVE  PictureInv'
<1> USE DEF UploadPC, Before, InLoop, Done, Filled
<1>0. /\ 0 \in Levels /\ mipLevels - 1 \in Levels /\ i - 1 \in Levels
      /\ \A k \in Levels : k \in Nat /\ k <= mipLevels - 1
      /\ i \in Nat /\ mipLevels \in Nat
      /\ layout \in [Levels -> Layouts] /\ content \in [Levels -> Nat \X Nat]
      /\ visibleTo \in [Levels -> SUBSET Accesses]
  BY DEF UploadTypeOK, Levels
<1>a. imageVars' = imageVars
  BY DEF Next, vars, CreateImage, TransitionImageLayout, CopyBufferToImage, GenerateMipmaps,
         ToTransferSrc, BlitImage, ToShaderRead, LastToShaderRead, CreateImageView,
         CreateTextureSampler
<1>b. /\ Levels' = Levels /\ \A k : LevelExtent(k)' = LevelExtent(k)
      /\ mipLevels' = MipLevels(width, height)'
  BY <1>a DEF Levels, LevelExtent, imageVars, PictureInv
<1>c. ASSUME <<mipWidth, mipHeight, i>>' = <<mipWidth, mipHeight, i>>,
             ~submitFailed' => LevelsFilled'
      PROVE  PictureInv'
  BY <1>b, <1>c DEF PictureInv
<1>d. LoopInv
  BY DEF LayoutInv
<1>e. ASSUME ~submitFailed PROVE ~lost /\ LevelsInLayout /\ LevelsFilled
  BY <1>e DEF LayoutInv, LoopInv, PictureInv
<1>1. CASE CreateImage
  <2>1. ASSUME ~submitFailed PROVE LevelsFilled'
    BY <1>1, <1>b, <1>d, <1>e, <2>1 DEF CreateImage, LevelsFilled, LoopInv, loopVars, levelVars
  <2> QED BY <1>1, <1>c, <2>1 DEF CreateImage, loopVars, submitVars
<1>2. CASE TransitionImageLayout
  <2>1. ASSUME ~submitFailed' PROVE LevelsFilled'
    <3>1. /\ ~submitFailed
          /\ Barrier(Levels, "UNDEFINED", "TRANSFER_DST", "NONE", "TRANSFER_WRITE")
      BY <1>2, <2>1 DEF TransitionImageLayout, SubmissionFails, submitVars
    <3>2. available' = Levels /\ visibleTo' = [k \in Levels |-> {"TRANSFER_WRITE"}]
      BY <1>2, <1>b, <1>e, <3>1 DEF TransitionImageLayout, Barrier, LevelsFilled
    <3> QED BY <1>2, <1>b, <3>2 DEF TransitionImageLayout, LevelsFilled
  <2> QED BY <1>2, <1>c, <2>1 DEF TransitionImageLayout, loopVars
<1>3. CASE CopyBufferToImage
  <2>1. ASSUME ~submitFailed' PROVE LevelsFilled'
    <3>1. ~submitFailed /\ TransferTo(0, <<width, height>>) /\ available' = Levels
      BY <1>3, <2>1 DEF CopyBufferToImage, SubmissionFails, submitVars
    <3>2. i = 1 /\ i' = 1 /\ layout[0] = "TRANSFER_DST"
      BY <1>0, <1>3, <1>d, <1>e, <3>1 DEF CopyBufferToImage, LoopInv, LevelsInLayout, loopVars
    <3>3. /\ content' = [content EXCEPT ![0] = LevelExtent(0)]
          /\ visibleTo' = [visibleTo EXCEPT ![0] = {}]
      BY <3>1, <3>2, FirstLevelExtent DEF TransferTo, UploadTypeOK
    <3>4. \A k \in Levels : k # 0 => visibleTo'[k] = {"TRANSFER_WRITE"}
      BY <1>0, <1>3, <1>e, <3>1, <3>3 DEF CopyBufferToImage, LevelsFilled
    <3>5. content'[0] = LevelExtent(0)
      BY <1>0, <3>3
    <3>6. pc' \in {"transition", "generate"}
      BY <1>3 DEF CopyBufferToImage
    <3>7. \A k \in Levels : k < 1 => k = 0
      BY <1>0
    <3> QED BY <1>0, <1>b, <3>1, <3>2, <3>4, <3>5, <3>6, <3>7 DEF LevelsFilled
  <2> QED BY <1>3, <1>c, <2>1 DEF CopyBufferToImage, loopVars
<1>4. CASE GenerateMipmaps
  <2>1. ASSUME ~submitFailed' PROVE LevelsFilled'
    <3>1. ~submitFailed
      BY <1>4, <2>1 DEF GenerateMipmaps, submitVars, UploadTypeOK
    <3> QED
      BY <1>4, <1>b, <1>e, <3>1 DEF GenerateMipmaps, NextLevelOrLast, LevelsFilled, loopVars, levelVars
  <2> QED BY <1>4, <1>c, <2>1 DEF GenerateMipmaps, loopVars
<1>5. CASE ToTransferSrc
  <2>1. ASSUME ~submitFailed PROVE LevelsFilled'
    <3>1. /\ Barrier({i - 1}, "TRANSFER_DST", "TRANSFER_SRC", "TRANSFER_WRITE", "TRANSFER_READ")
          /\ layout[i - 1] = "TRANSFER_DST" /\ pc = "toSrc" /\ pc' = "blit" /\ i' = i
      BY <1>5, <1>e, <2>1 DEF ToTransferSrc, LevelsInLayout, loopVars
    <3>2. content' = [k \in Levels |-> content[k]]
      BY <3>1 DEF Barrier
    <3>3. i - 1 \in available' /\ visibleTo'[i - 1] = {"TRANSFER_READ"}
      BY <1>0, <3>1 DEF Barrier
    <3>4. \A k \in Levels : k # i - 1 => visibleTo'[k] = visibleTo[k]
      BY <3>1 DEF Barrier
    <3>5. \A k \in Levels : Filled(k) <=> Filled(k)'
      BY <3>1
    <3>6. \A k \in Levels : ~Filled(k) => k # i - 1
      BY <1>0
    <3> QED BY <1>0, <1>b, <1>e, <2>1, <3>1, <3>2, <3>3, <3>4, <3>5, <3>6 DEF LevelsFilled
  <2> QED BY <1>5, <1>c, <2>1 DEF ToTransferSrc, loopVars, submitVars
<1>6. CASE BlitImage
  <2>1. ASSUME ~submitFailed PROVE LevelsFilled'
    <3>1. /\ TransferTo(i, Scaled) /\ available' = available \ {i}
          /\ pc = "blit" /\ pc' = "toRead" /\ i' = i
      BY <1>6, <1>e, <2>1 DEF BlitImage, loopVars
    <3>2. (i - 1) + 1 = i /\ i \in Levels
      BY <1>0, <1>d, <3>1 DEF LoopInv, Levels
    <3>3. <<Halve(mipWidth), Halve(mipHeight)>> = LevelExtent(i)
      <4>1. <<Halve(mipWidth), Halve(mipHeight)>> = LevelExtent((i - 1) + 1)
        BY <1>0, NextLevelExtent DEF PictureInv, UploadTypeOK
      <4> QED BY <3>2, <4>1
    <3>4. layout[i - 1] = "TRANSFER_SRC" /\ layout[i] = "TRANSFER_DST"
      BY <1>0, <1>e, <2>1, <3>1, <3>2 DEF LevelsInLayout
    <3>5. content[i - 1] = <<mipWidth, mipHeight>>
      BY <1>0, <1>e, <2>1, <3>1 DEF LevelsFilled, PictureInv
    <3>6. content' = [content EXCEPT ![i] = LevelExtent(i)]
          /\ visibleTo' = [visibleTo EXCEPT ![i] = {}]
      BY <3>1, <3>3, <3>4, <3>5 DEF TransferTo, Scaled
    <3>7. i - 1 \in available'
      BY <1>0, <1>e, <2>1, <3>1 DEF LevelsFilled
    <3>8. content'[i] = LevelExtent(i)
      BY <1>0, <3>2, <3>6
    <3>9. \A k \in Levels : k # i => content'[k] = content[k] /\ visibleTo'[k] = visibleTo[k]
      BY <1>0, <3>6
    <3>10. \A k \in Levels : /\ Filled(k)' => content'[k] = LevelExtent(k)
                             /\ ~Filled(k)' => visibleTo'[k] = {"TRANSFER_WRITE"}
                             /\ k < i - 1 => visibleTo'[k] = {"SHADER_READ"}
      BY <1>0, <1>e, <2>1, <3>1, <3>8, <3>9 DEF LevelsFilled
    <3> QED BY <1>b, <3>1, <3>7, <3>10 DEF LevelsFilled
  <2> QED BY <1>6, <1>c, <2>1 DEF BlitImage, loopVars, submitVars
<1>7. CASE ToShaderRead
  <2>2. (i - 1) + 1 = i /\ i' = i + 1 /\ i' - 1 = i /\ pc = "toRead"
        /\ pc' \in {"toSrc", "lastToRead"}
    BY <1>0, <1>7 DEF ToShaderRead, NextLevelOrLast
  <2>3. <<mipWidth', mipHeight'>> = LevelExtent(i' - 1)
    <3>1. <<mipWidth', mipHeight'>> = LevelExtent((i - 1) + 1)
      BY <1>0, <1>7, NextLevelExtent DEF ToShaderRead, PictureInv, UploadTypeOK
    <3> QED BY <2>2, <3>1
  <2>4. ASSUME ~submitFailed PROVE LevelsFilled'
    <3>1. /\ Barrier({i - 1}, "TRANSFER_SRC", "SHADER_READ_ONLY", "TRANSFER_READ", "SHADER_READ")
          /\ layout[i - 1] = "TRANSFER_SRC" /\ i - 1 \in available
      BY <1>7, <1>e, <2>2, <2>4 DEF ToShaderRead, LevelsInLayout, LevelsFilled
    <3>2. content' = [k \in Levels |-> content[k]] /\ available' = available
      BY <3>1 DEF Barrier
    <3>3. visibleTo' = [k \in Levels |-> IF k = i - 1 THEN {"SHADER_READ"} ELSE visibleTo[k]]
      BY <3>1 DEF Barrier
    <3>4. \A k \in Levels : /\ Filled(k)' => content'[k] = LevelExtent(k)
                            /\ ~Filled(k)' => visibleTo'[k] = {"TRANSFER_WRITE"}
                            /\ k < i' - 1 => visibleTo'[k] = {"SHADER_READ"}
      BY <1>0, <1>e, <2>2, <2>4, <3>2, <3>3 DEF LevelsFilled
    <3> QED BY <1>b, <2>2, <3>4 DEF LevelsFilled
  <2>5. submitFailed' = submitFailed
    BY <1>7 DEF ToShaderRead, submitVars
  <2> QED BY <1>b, <2>3, <2>4, <2>5 DEF PictureInv
<1>8. CASE LastToShaderRead
  <2>1. ASSUME ~submitFailed PROVE LevelsFilled'
    <3>1. i = mipLevels /\ pc = "lastToRead" /\ pc' = "view"
          /\ Barrier({mipLevels - 1}, "TRANSFER_DST", "SHADER_READ_ONLY", "TRANSFER_WRITE", "SHADER_READ")
          /\ layout[mipLevels - 1] = "TRANSFER_DST"
      BY <1>8, <1>d, <1>e, <2>1 DEF LastToShaderRead, LoopInv, LevelsInLayout
    <3>2. content' = [k \in Levels |-> content[k]]
      BY <3>1 DEF Barrier
    <3>3. visibleTo' = [k \in Levels |-> IF k = mipLevels - 1 THEN {"SHADER_READ"} ELSE visibleTo[k]]
      BY <3>1 DEF Barrier
    <3>4. \A k \in Levels : content'[k] = LevelExtent(k) /\ visibleTo'[k] = {"SHADER_READ"}
      BY <1>0, <1>e, <2>1, <3>1, <3>2, <3>3 DEF LevelsFilled
    <3> QED BY <1>b, <3>1, <3>4 DEF LevelsFilled
  <2> QED BY <1>8, <1>c, <2>1 DEF LastToShaderRead, loopVars, submitVars
<1>9. CASE CreateImageView \/ CreateTextureSampler \/ UNCHANGED vars
  <2>1. /\ UNCHANGED <<loopVars, levelVars, submitVars>>
        /\ (pc \in Done /\ pc' \in Done \cup {"thrown"}) \/ pc' = pc
    BY <1>9 DEF CreateImageView, CreateTextureSampler, vars
  <2>2. ASSUME ~submitFailed PROVE LevelsFilled'
    BY <1>b, <1>e, <2>1, <2>2 DEF LevelsFilled, loopVars, levelVars
  <2> QED BY <1>c, <2>1, <2>2 DEF loopVars, submitVars
<1> QED
  BY <1>1, <1>2, <1>3, <1>4, <1>5, <1>6, <1>7, <1>8, <1>9 DEF Next

(* The pictures are what PictureInv says throughout the making of a texture of any
   size, whichever submissions are lost (image.cpp:157-226, device.cpp:444). *)
THEOREM PictureInvHolds == Spec => []PictureInv
<1>1. UploadTypeOK /\ LayoutInv /\ PictureInv /\ [Next]_vars => PictureInv'
  BY PictureStep
<1> QED BY <1>1, PictureInit, UploadInvariance, PTL DEF Spec

(* A blit reads the whole of a level and fills the whole of the next, for every size of
   image: halving the running size and shifting the size of the image agree all the way
   down; and the level was filled and is visible, if no submission was lost
   (image.cpp:177-209, device.cpp:444).                                    *)
THEOREM BlitWholeLevelsHolds == Spec => []BlitWholeLevels
<1>1. UploadTypeOK /\ LayoutInv /\ PictureInv => BlitWholeLevels
  <2> SUFFICES ASSUME UploadTypeOK, LayoutInv, PictureInv, pc = "blit" PROVE BlitWholeLevels
    BY DEF BlitWholeLevels
  <2>1. i \in Nat \ {0} /\ i \in Levels /\ i - 1 \in Levels /\ (i - 1) + 1 = i
    BY DEF UploadTypeOK, LayoutInv, LoopInv, Levels
  <2>2. <<mipWidth, mipHeight>> = LevelExtent(i - 1)
    BY DEF PictureInv
  <2>3. <<Halve(mipWidth), Halve(mipHeight)>> = LevelExtent((i - 1) + 1)
    BY <2>1, <2>2, NextLevelExtent DEF UploadTypeOK
  <2>4. ASSUME ~submitFailed
        PROVE  content[i - 1] = LevelExtent(i - 1) /\ visibleTo[i] = {"TRANSFER_WRITE"}
    BY <2>1, <2>4 DEF PictureInv, LevelsFilled, InLoop, Filled
  <2>5. ASSUME ~submitFailed PROVE visibleTo[i - 1] = {"TRANSFER_READ"}
    BY <2>5 DEF PictureInv, LevelsFilled
  <2> QED BY <2>1, <2>2, <2>3, <2>4, <2>5 DEF BlitWholeLevels
<1> QED BY <1>1, UploadInvariance, PictureInvHolds, PTL

(* What the descriptor of a finished texture promises the shader is so, for every size of
   image (texture.cpp:80-87).                                              *)
THEOREM TextureReadyHolds == Spec => []TextureReady
<1>1. UploadTypeOK /\ LayoutInv /\ PictureInv => TextureReady
  <2> SUFFICES ASSUME UploadTypeOK, LayoutInv, PictureInv, pc = "ready", ~submitFailed
               PROVE  TextureReady
    BY DEF TextureReady
  <2>1. LevelExtent(mipLevels - 1) = <<1, 1>>
    BY LastLevelExtent DEF UploadTypeOK, PictureInv
  <2>2. \A k \in Levels : layout[k] = "SHADER_READ_ONLY"
    BY DEF LayoutInv, LevelsInLayout
  <2>3. \A k \in Levels : content[k] = LevelExtent(k) /\ visibleTo[k] = {"SHADER_READ"}
    BY DEF PictureInv, LevelsFilled, Done
  <2> QED BY <2>1, <2>2, <2>3 DEF TextureReady
<1> QED BY <1>1, UploadInvariance, PictureInvHolds, PTL

=============================================================================

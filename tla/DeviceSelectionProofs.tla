----------------------- MODULE DeviceSelectionProofs -----------------------
(***************************************************************************)
(* Proofs about DeviceSelection for every number of devices of every kind, *)
(* each with any number of queue families. The choice needs nothing of the *)
(* search for families but that Suitable is a fact about the device; what  *)
(* the search finds is proved by induction over the families.              *)
(***************************************************************************)
EXTENDS DeviceSelection, InductionProofs

(* The score a device is stored with. *)
Score(d) == IF Suitable(d) THEN Rating(d) ELSE 0

(* Every device rated so far has its score in the map, and every entry of the map is
   a device that has the score: the last one with it.                      *)
ScoresInv ==
    /\ \A n \in 1 .. rated : Score(devices[n]) \in DOMAIN scores
    /\ \A s \in DOMAIN scores : scores[s] \in 1 .. rated /\ Score(devices[scores[s]]) = s

(* The device that was taken has the greatest score of all. *)
PickedInv ==
    pc = "picked" =>
        /\ rated = Len(devices)
        /\ physicalDevice \in Indices
        /\ \A n \in Indices : Score(devices[n]) <= Score(Picked)

SelectionTypeOK ==
    /\ devices \in Seq(PhysicalDevices)
    /\ rated \in 0 .. Len(devices)
    /\ pc \in {"rate", "thrown", "picked"}

SelectionInv == SelectionTypeOK /\ ScoresInv /\ PickedInv

(* The scores of the parts of a rating (device.cpp:193-246). *)
LEMMA RatingPositive == \A d \in PhysicalDevices : Rating(d) \in Nat \ {0}
<1> TAKE d \in PhysicalDevices
<1>1. d.maxImageDimension2D \in Nat \ {0}
    BY DevicesAssumption DEF Device
<1>2. TypeScore(d.deviceType) \in Nat
    BY DEF TypeScore
<1>3. ApiScore(d.apiVersion) \in Nat
    BY DEF ApiScore
<1>4. SampleScore(d.sampleCounts) \in Nat
    BY DEF SampleScore
<1> HIDE DEF TypeScore, ApiScore, SampleScore
<1> QED
    BY <1>1, <1>2, <1>3, <1>4 DEF Rating

(* A score is a natural number, 0 exactly for devices that are not suitable
   (device.cpp:174-230).                                                    *)
LEMMA ScoreNat == \A d \in PhysicalDevices : Score(d) \in Nat /\ (Suitable(d) <=> Score(d) # 0)
BY RatingPositive DEF Score

(* Nothing is rated yet (device.cpp:92-100).                                 *)
LEMMA InitSelectionInv == Init => SelectionInv
<1> SUFFICES ASSUME Init PROVE SelectionInv
    OBVIOUS
<1>1. devices \in Seq(PhysicalDevices)
    BY DEF Init, SeqOf
<1>2. Len(devices) \in Nat
    BY <1>1
<1>3. DOMAIN scores = {}
    BY DEF Init
<1> QED
    BY <1>1, <1>2, <1>3 DEF Init, SelectionInv, SelectionTypeOK, ScoresInv, PickedInv

(* One more device is rated: its score is an entry of its own, or replaces the
   device that had it.                                                     *)
LEMMA ScoreStep ==
    ASSUME SelectionInv, pc = "rate", rated < Len(devices), SetScore(Score(Current)),
           rated' = rated + 1, UNCHANGED <<devices, pc>>
    PROVE  SelectionInv'
<1>1. rated' \in 0 .. Len(devices) /\ rated \in Nat /\ Len(devices) \in Nat
    BY DEF SelectionInv, SelectionTypeOK
<1>2. SelectionTypeOK'
    BY <1>1 DEF SelectionInv, SelectionTypeOK
<1>3. DOMAIN scores' = DOMAIN scores \cup {Score(Current)}
    BY DEF SetScore
<1>4. \A n \in 1 .. rated' : Score(devices[n]) \in DOMAIN scores'
    <2> TAKE n \in 1 .. rated'
    <2>1. CASE n = rated + 1
        BY <2>1, <1>3 DEF Current
    <2>2. CASE n # rated + 1
        BY <2>2, <1>1, <1>3 DEF SelectionInv, ScoresInv
    <2> QED
        BY <2>1, <2>2
<1>5. \A s \in DOMAIN scores' : scores'[s] \in 1 .. rated' /\ Score(devices[scores'[s]]) = s
    <2> TAKE s \in DOMAIN scores'
    <2>1. CASE s = Score(Current)
        <3>1. scores'[s] = rated + 1
            BY <2>1, <1>3 DEF SetScore
        <3> QED
            BY <3>1, <2>1, <1>1 DEF Current
    <2>2. CASE s # Score(Current)
        <3>1. s \in DOMAIN scores /\ scores'[s] = scores[s]
            BY <2>2, <1>3 DEF SetScore
        <3> QED
            BY <3>1, <1>1 DEF SelectionInv, ScoresInv
    <2> QED
        BY <2>1, <2>2
<1>6. ScoresInv'
    BY <1>4, <1>5 DEF ScoresInv, Score, Suitable
<1> QED
    BY <1>2, <1>6 DEF SelectionInv, PickedInv

(* The greatest key of a map in which every device is found (device.cpp:106-115). *)
LEMMA PickStep == SelectionInv /\ PickBest => SelectionInv'
<1> SUFFICES ASSUME SelectionInv, PickBest PROVE SelectionInv'
    OBVIOUS
<1>1. PICK best \in DOMAIN scores :
          /\ \A s \in DOMAIN scores : s <= best
          /\ physicalDevice' = scores[best]
    BY DEF PickBest
<1>2. /\ rated = Len(devices) /\ pc' = "picked"
      /\ UNCHANGED <<devices, rated, scores>>
    BY DEF PickBest
<1>3. physicalDevice' \in Indices /\ Score(devices[physicalDevice']) = best
    BY <1>1, <1>2 DEF SelectionInv, ScoresInv, Indices
<1>4. \A n \in Indices : Score(devices[n]) <= best
    BY <1>1, <1>2 DEF SelectionInv, ScoresInv, Indices
<1>5. PickedInv'
    BY <1>1, <1>2, <1>3, <1>4 DEF PickedInv, Indices, Picked, Score, Suitable
<1> QED
    BY <1>2, <1>5 DEF SelectionInv, SelectionTypeOK, ScoresInv

(* Rating one device, and taking the last entry of the map, keep the invariant
   (device.cpp:102-114).                                                    *)
LEMMA SelectionStep == SelectionInv /\ [Next]_vars => SelectionInv'
<1> SUFFICES ASSUME SelectionInv, [Next]_vars PROVE SelectionInv'
    OBVIOUS
<1>1. CASE NoDevices
    BY <1>1 DEF NoDevices, SelectionInv, SelectionTypeOK, ScoresInv, PickedInv
<1>2. CASE RateSuitable
    <2>1. Score(Current) = Rating(Current)
        BY <1>2 DEF RateSuitable, Score
    <2> QED
        BY <1>2, <2>1, ScoreStep DEF RateSuitable
<1>3. CASE RateUnsuitable
    <2>1. Score(Current) = 0
        BY <1>3 DEF RateUnsuitable, Score
    <2> QED
        BY <1>3, <2>1, ScoreStep DEF RateUnsuitable
<1>4. CASE RateUnknownType
    BY <1>4 DEF RateUnknownType, SelectionInv, SelectionTypeOK, ScoresInv, PickedInv
<1>5. CASE PickBest
    BY <1>5, PickStep
<1>6. CASE UNCHANGED vars
    BY <1>6 DEF vars, SelectionInv, SelectionTypeOK, ScoresInv, PickedInv, Indices, Picked
<1> QED
    BY <1>1, <1>2, <1>3, <1>4, <1>5, <1>6 DEF Next

(* The invariant holds for any number of devices.                            *)
LEMMA SelectionInvariance == Spec => []SelectionInv
BY InitSelectionInv, SelectionStep, PTL DEF Spec

(* Whatever the order of the enumeration and whichever ratings are equal, the device
   taken is suitable if any is, and none is rated better (device.cpp:101-115). *)
THEOREM BestTakenHolds == Spec => []BestTaken
<1>1. SelectionInv => BestTaken
    <2> SUFFICES ASSUME SelectionInv, pc = "picked", NEW n \in Indices, Suitable(devices[n])
                 PROVE  Suitable(Picked) /\ Rating(devices[n]) <= Rating(Picked)
        BY DEF BestTaken
    <2>1. devices[n] \in PhysicalDevices /\ Picked \in PhysicalDevices
        BY DEF SelectionInv, SelectionTypeOK, PickedInv, Indices, Picked
    <2>2. Score(devices[n]) <= Score(Picked) /\ Score(devices[n]) # 0
        BY <2>1, ScoreNat DEF SelectionInv, PickedInv
    <2>3. Suitable(Picked)
        BY <2>1, <2>2, ScoreNat
    <2> QED
        BY <2>2, <2>3 DEF Score
<1> QED
    BY <1>1, SelectionInvariance, PTL

-----------------------------------------------------------------------------
(* The search for queue families                                           *)

FamilyIndices == [graphics : Nat, present : Nat]

(* found[n] is what the loop of findQueueFamilies knows after n families. *)
Searched(families, found) ==
    /\ found[0] = NoFamilies
    /\ \A n \in Nat : found[n] \in FamilyIndices
    /\ \A n \in Nat : found[n + 1] = LookAtFamily(families, found[n], n + 1)
    /\ FindQueueFamilies(families) = found[Len(families)]

(* The loop of findQueueFamilies decides family by family (device.cpp:326-343). *)
LEMMA SearchSteps == ASSUME NEW families PROVE \E found : Searched(families, found)
<1> DEFINE step == [p \in Nat \X FamilyIndices |-> LookAtFamily(families, p[2], p[1] + 1)]
           Body(g) == [n \in Nat |-> IF n = 0 THEN NoFamilies
                                     ELSE LookAtFamily(families, g[n - 1], n)]
           found == CHOOSE g : g = Body(g)
<1>1. step \in [Nat \X FamilyIndices -> FamilyIndices]
    BY DEF LookAtFamily, FamilyIndices
<1>2. NoFamilies \in FamilyIndices
    BY DEF NoFamilies, FamilyIndices
<1>3. \E f : Recurs(f, FamilyIndices, NoFamilies, step)
    <2> HIDE DEF step
    <2> QED
        BY <1>1, <1>2, PrimitiveRecursion
<1>4. PICK f : /\ f = [n \in Nat |-> f[n]] /\ \A n \in Nat : f[n] \in FamilyIndices
               /\ f[0] = NoFamilies /\ \A n \in Nat : f[n + 1] = step[<<n, f[n]>>]
    <2> HIDE DEF step
    <2> QED
        BY <1>3 DEF Recurs
<1>5. ASSUME NEW n \in Nat PROVE f[n + 1] = LookAtFamily(families, f[n], n + 1)
    <2>1. <<n, f[n]>> \in Nat \X FamilyIndices
        BY <1>4
    <2> QED
        BY <1>4, <2>1
<1>6. ASSUME NEW n \in Nat
      PROVE  f[n] = IF n = 0 THEN NoFamilies ELSE LookAtFamily(families, f[n - 1], n)
    <2>1. CASE n = 0
        BY <1>4, <2>1
    <2>2. CASE n # 0
        <3>1. n - 1 \in Nat /\ (n - 1) + 1 = n
            BY <2>2
        <3>2. f[(n - 1) + 1] = LookAtFamily(families, f[n - 1], (n - 1) + 1)
            BY <1>5, <3>1
        <3> QED
            BY <2>2, <3>1, <3>2
    <2> QED
        BY <2>1, <2>2
<1>7. f = Body(f)
    BY <1>4, <1>6
<1>8. found = Body(found)
    <2> HIDE DEF Body
    <2> QED
        BY <1>7
<1>9. FindQueueFamilies(families) = found[Len(families)]
    BY DEF FindQueueFamilies
<1> HIDE DEF found
<1>10. ASSUME NEW n \in Nat
       PROVE  found[n] = IF n = 0 THEN NoFamilies ELSE LookAtFamily(families, found[n - 1], n)
    BY <1>8
<1>11. found[0] = NoFamilies
    BY <1>10
<1>12. ASSUME NEW n \in Nat PROVE found[n + 1] = LookAtFamily(families, found[n], n + 1)
    <2>1. n + 1 \in Nat /\ n + 1 # 0 /\ (n + 1) - 1 = n
        OBVIOUS
    <2> QED
        BY <1>10, <2>1
<1>13. \A n \in Nat : found[n] \in FamilyIndices
    <2> DEFINE S == {n \in Nat : found[n] \in FamilyIndices}
    <2>1. 0 \in S
        BY <1>2, <1>11
    <2>2. ASSUME NEW n \in Nat, n \in S PROVE n + 1 \in S
        <3>1. LookAtFamily(families, found[n], n + 1) \in FamilyIndices
            BY <2>2 DEF LookAtFamily, FamilyIndices
        <3> QED
            BY <1>12, <3>1
    <2> HIDE DEF S
    <2>3. Nat \subseteq S
        BY <2>1, <2>2, NaturalInduction
    <2> QED
        BY <2>3 DEF S
<1>14. Searched(families, found)
    BY <1>9, <1>11, <1>12, <1>13 DEF Searched
<1> QED
    BY <1>14

(* A family with queues that serves the purpose. *)
ForGraphics(families, f) == families[f].queueCount > 0 /\ families[f].graphics
ForPresent(families, f) == families[f].queueCount > 0 /\ families[f].present

(* What is known after n families: a family for each purpose, if one was seen. *)
Known(families, indices, n) ==
    /\ indices.graphics # 0 =>
          indices.graphics \in 1 .. n /\ ForGraphics(families, indices.graphics)
    /\ indices.present # 0 =>
          indices.present \in 1 .. n /\ ForPresent(families, indices.present)
    /\ (\E f \in 1 .. n : ForGraphics(families, f)) => indices.graphics # 0
    /\ (\E f \in 1 .. n : ForPresent(families, f)) => indices.present # 0

(* One round of the loop: a purpose once served stays served, although the family that
   serves it may be replaced (device.cpp:327-341).                         *)
LEMMA KnownStep ==
    ASSUME NEW families \in Seq(Family), NEW indices \in FamilyIndices, NEW n \in Nat,
           n < Len(families), Known(families, indices, n)
    PROVE  Known(families, LookAtFamily(families, indices, n + 1), n + 1)
<1> DEFINE next == LookAtFamily(families, indices, n + 1)
<1>1. n + 1 \in 1 .. Len(families)
    OBVIOUS
<1>2. families[n + 1] \in Family
    BY <1>1
<1>3. /\ families[n + 1].queueCount \in Nat
      /\ families[n + 1].graphics \in BOOLEAN /\ families[n + 1].present \in BOOLEAN
    BY <1>2 DEF Family
<1>4. \A f \in 1 .. (n + 1) : f = n + 1 \/ f \in 1 .. n
    OBVIOUS
<1>5. 1 .. n \subseteq 1 .. (n + 1) /\ n + 1 \in 1 .. (n + 1) /\ n + 1 # 0
    OBVIOUS
<1>6. CASE families[n + 1].queueCount = 0 \/ (indices.graphics # 0 /\ indices.present # 0)
    <2>1. next = indices
        BY <1>6 DEF LookAtFamily
    <2>2. families[n + 1].queueCount = 0 => ~ForGraphics(families, n + 1) /\ ~ForPresent(families, n + 1)
        BY <1>3 DEF ForGraphics, ForPresent
    <2> HIDE DEF next
    <2> QED
        BY <1>4, <1>5, <1>6, <2>1, <2>2 DEF Known, next
<1>7. CASE families[n + 1].queueCount # 0 /\ ~(indices.graphics # 0 /\ indices.present # 0)
    <2>1. /\ next.graphics = IF families[n + 1].graphics THEN n + 1 ELSE indices.graphics
          /\ next.present = IF families[n + 1].present THEN n + 1 ELSE indices.present
        BY <1>7 DEF LookAtFamily
    <2>2. /\ ForGraphics(families, n + 1) <=> families[n + 1].graphics
          /\ ForPresent(families, n + 1) <=> families[n + 1].present
        BY <1>3, <1>7 DEF ForGraphics, ForPresent
    <2> HIDE DEF next
    <2> QED
        BY <1>4, <1>5, <2>1, <2>2 DEF Known, next
<1> QED
    BY <1>6, <1>7

(* The search finds a family with queues for each purpose that has one. *)
LEMMA SearchFinds ==
    ASSUME NEW families \in Seq(Family)
    PROVE  Known(families, FindQueueFamilies(families), Len(families))
<1>1. PICK found : Searched(families, found)
    BY SearchSteps
<1> DEFINE S == {n \in Nat : n <= Len(families) => Known(families, found[n], n)}
<1>2. 0 \in S
    BY <1>1 DEF Searched, NoFamilies, Known
<1>3. ASSUME NEW n \in Nat, n \in S PROVE n + 1 \in S
    <2> SUFFICES ASSUME n + 1 <= Len(families) PROVE Known(families, found[n + 1], n + 1)
        OBVIOUS
    <2>1. Len(families) \in Nat
        OBVIOUS
    <2>2. n < Len(families) /\ n <= Len(families)
        BY <2>1
    <2>3. Known(families, found[n], n) /\ found[n] \in FamilyIndices
        BY <1>1, <1>3, <2>2 DEF Searched
    <2>4. Known(families, LookAtFamily(families, found[n], n + 1), n + 1)
        BY <2>2, <2>3, KnownStep
    <2> QED
        BY <1>1, <2>4 DEF Searched
<1> HIDE DEF S
<1>4. Nat \subseteq S
    BY <1>2, <1>3, NaturalInduction
<1>5. Len(families) \in Nat /\ Len(families) \in S
    BY <1>4
<1> QED
    BY <1>1, <1>5 DEF S, Searched

(* Whatever the order of its families, a device that has one with queues for graphics
   and one for presenting is found to have them, and what is found serves its
   purpose (device.cpp:317-344).                                           *)
THEOREM FamiliesFoundHolds == Spec => []FamiliesFound
<1>1. SelectionInv => FamiliesFound
    <2> SUFFICES ASSUME SelectionInv, NEW n \in Indices
                 PROVE  LET fs == devices[n].families
                            indices == FindQueueFamilies(fs)
                            Has(purpose(_)) == \E f \in 1 .. Len(fs) : fs[f].queueCount > 0 /\ purpose(fs[f])
                        IN  /\ IsComplete(indices) <=> Has(LAMBDA f : f.graphics) /\ Has(LAMBDA f : f.present)
                            /\ indices.graphics # 0 => fs[indices.graphics].queueCount > 0 /\ fs[indices.graphics].graphics
                            /\ indices.present # 0 => fs[indices.present].queueCount > 0 /\ fs[indices.present].present
        BY DEF FamiliesFound
    <2> DEFINE families == devices[n].families
               indices == FindQueueFamilies(families)
    <2>1. devices[n] \in Device
        BY DevicesAssumption DEF SelectionInv, SelectionTypeOK, Indices
    <2>2. families \in Seq(Family)
        BY <2>1 DEF Device
    <2>3. Known(families, indices, Len(families))
        <3> HIDE DEF families
        <3> QED
            BY <2>2, SearchFinds
    <2> HIDE DEF indices
    <2> QED
        BY <2>3 DEF Known, ForGraphics, ForPresent, IsComplete, indices
<1> QED
    BY <1>1, SelectionInvariance, PTL
=============================================================================

-------------------------- MODULE DeviceSelection --------------------------
(***************************************************************************)
(* Device::pickPhysicalDevice: every physical device is rated in turn, the *)
(* ratings are the keys of a map, and the device with the greatest key is  *)
(* taken.  rateDeviceSuitability works through the member `properties`,    *)
(* which it overwrites for every device it looks at.                       *)
(***************************************************************************)
EXTENDS Naturals, Sequences, SequencesExt, Functions

CONSTANTS
    PhysicalDevices,   \* what a device may be like, see Device
    MaxDevices         \* bound: length of the enumeration

(* A device: its queue families, its extensions, whether its surface has
   formats and present modes, anisotropy, and the rated properties.        *)
Family == [queueCount : Nat, graphics : BOOLEAN, present : BOOLEAN]
DeviceTypes == {"DISCRETE_GPU", "INTEGRATED_GPU", "VIRTUAL_GPU", "CPU", "OTHER"}
ApiVersions == {"1.3.0", "1.2.0", "1.1.0", "1.0.0", "another patch level"}
Device ==
    [families : Seq(Family), extensionsSupported : BOOLEAN, swapChainAdequate : BOOLEAN,
     samplerAnisotropy : BOOLEAN, deviceType : DeviceTypes, apiVersion : ApiVersions,
     sampleCounts : SUBSET {1, 2, 4, 8}, maxImageDimension2D : Nat \ {0}]

ASSUME DevicesAssumption == PhysicalDevices \subseteq Device /\ MaxDevices \in Nat

VARIABLES
    devices,         \* the enumeration
    rated,           \* how many have been rated
    scores,          \* score -> index of a device
    properties,      \* index of the device the member `properties` describes, 0 for none
    physicalDevice,  \* index of the device taken, 0 for none
    pc

vars == <<devices, rated, scores, properties, physicalDevice, pc>>

-----------------------------------------------------------------------------
(* One round of the loop of findQueueFamilies for family number n. A family that serves
   one purpose may still be replaced, until both are found.                *)
LookAtFamily(families, indices, n) ==
    IF \/ families[n].queueCount = 0
       \/ indices.graphics # 0 /\ indices.present # 0
    THEN indices
    ELSE [graphics |-> IF families[n].graphics THEN n ELSE indices.graphics,
          present  |-> IF families[n].present THEN n ELSE indices.present]

(* Slip: families without queues count. *)
LookAtFamilyWithoutQueues(families, indices, n) ==
    IF indices.graphics # 0 /\ indices.present # 0 THEN indices
    ELSE [graphics |-> IF families[n].graphics THEN n ELSE indices.graphics,
          present  |-> IF families[n].present THEN n ELSE indices.present]

NoFamilies == [graphics |-> 0, present |-> 0]

(* Numbered from 1, 0 for a family without value. *)
FindQueueFamiliesAnyQueue(families) ==
    LET found[n \in Nat] ==
            IF n = 0 THEN NoFamilies ELSE LookAtFamilyWithoutQueues(families, found[n - 1], n)
    IN  found[Len(families)]

FindQueueFamilies(families) ==
    LET found[n \in Nat] ==
            IF n = 0 THEN NoFamilies ELSE LookAtFamily(families, found[n - 1], n)
    IN  found[Len(families)]

IsComplete(indices) == indices.graphics # 0 /\ indices.present # 0

TypeScore(deviceType) ==
    CASE deviceType = "DISCRETE_GPU" -> 500
      [] deviceType = "INTEGRATED_GPU" -> 200
      [] deviceType = "VIRTUAL_GPU" -> 100
      [] OTHER -> 0

(* Compared with the exact versions of patch level 0. *)
ApiScore(apiVersion) ==
    CASE apiVersion = "1.3.0" -> 300
      [] apiVersion = "1.2.0" -> 200
      [] apiVersion = "1.1.0" -> 100
      [] OTHER -> 0

(* getMaxUsableSampleCount, graded. *)
SampleScore(sampleCounts) ==
    CASE 8 \in sampleCounts -> 100
      [] 4 \in sampleCounts -> 50
      [] 2 \in sampleCounts -> 10
      [] OTHER -> 0

Suitable(d) ==
    /\ IsComplete(FindQueueFamilies(d.families))
    /\ d.extensionsSupported
    /\ d.swapChainAdequate
    /\ d.samplerAnisotropy

(* The score of a suitable device. *)
Rating(d) ==
    TypeScore(d.deviceType) + ApiScore(d.apiVersion) + SampleScore(d.sampleCounts) + d.maxImageDimension2D

-----------------------------------------------------------------------------
Init ==
    /\ devices \in SeqOf(PhysicalDevices, MaxDevices)
    /\ rated = 0
    /\ scores = <<>>
    /\ properties = 0
    /\ physicalDevice = 0
    /\ pc = "rate"

Current == devices[rated + 1]

SetScore(score) ==
    scores' = [s \in DOMAIN scores \cup {score} |-> IF s = score THEN rated + 1 ELSE scores[s]]

(* deviceCount == 0. *)
NoDevices ==
    /\ pc = "rate" /\ devices = <<>>
    /\ pc' = "thrown"
    /\ UNCHANGED <<devices, rated, scores, properties, physicalDevice>>

(* Slip: the properties are those of the device rated before. *)
RateSuitableStale ==
    /\ pc = "rate" /\ rated < Len(devices)
    /\ Suitable(Current) /\ Current.deviceType # "OTHER"
    /\ SetScore(IF properties = 0 THEN 0 ELSE Rating(devices[properties]))
    /\ properties' = rated + 1
    /\ rated' = rated + 1
    /\ UNCHANGED <<devices, physicalDevice, pc>>

(* rateDeviceSuitability of a device that has everything. *)
RateSuitable ==
    /\ pc = "rate" /\ rated < Len(devices)
    /\ Suitable(Current) /\ Current.deviceType # "OTHER"
    /\ SetScore(Rating(Current))
    /\ properties' = rated + 1
    /\ rated' = rated + 1
    /\ UNCHANGED <<devices, physicalDevice, pc>>

(* It returns 0 for one that lacks something: the device is kept with score 0. *)
RateUnsuitable ==
    /\ pc = "rate" /\ rated < Len(devices)
    /\ ~Suitable(Current)
    /\ SetScore(0)
    /\ properties' = rated + 1
    /\ rated' = rated + 1
    /\ UNCHANGED <<devices, physicalDevice, pc>>

(* "Unknown device type!" *)
RateUnknownType ==
    /\ pc = "rate" /\ rated < Len(devices)
    /\ Suitable(Current) /\ Current.deviceType = "OTHER"
    /\ properties' = rated + 1
    /\ pc' = "thrown"
    /\ UNCHANGED <<devices, rated, scores, physicalDevice>>

(* The greatest score, and the properties of that device. *)
PickBest ==
    /\ pc = "rate" /\ rated = Len(devices) /\ DOMAIN scores # {}
    /\ \E best \in DOMAIN scores :
          /\ \A s \in DOMAIN scores : s <= best
          /\ physicalDevice' = scores[best]
          /\ properties' = scores[best]
    /\ pc' = "picked"
    /\ UNCHANGED <<devices, rated, scores>>

Next == NoDevices \/ RateSuitable \/ RateUnsuitable \/ RateUnknownType \/ PickBest

Spec == Init /\ [][Next]_vars

-----------------------------------------------------------------------------
Indices == 1 .. Len(devices)
Picked == devices[physicalDevice]

(* When some device has everything the program needs, the one taken has it
   too, and no such device has a better rating, although ratings are made
   from a member that is overwritten for every device and devices of equal
   rating replace each other in the map (device.cpp:101-115, 190-191).     *)
BestTaken ==
    pc = "picked" =>
        \A n \in Indices : Suitable(devices[n]) =>
            Suitable(Picked) /\ Rating(devices[n]) <= Rating(Picked)

(* A suitable device has a family for graphics and one for presenting, both
   with queues, and every device that has such families is found to have
   them, whatever the order of its families (device.cpp:326-343).          *)
FamiliesFound ==
    \A n \in Indices :
        LET fs == devices[n].families
            indices == FindQueueFamilies(fs)
            Has(purpose(_)) == \E f \in 1 .. Len(fs) : fs[f].queueCount > 0 /\ purpose(fs[f])
        IN  /\ IsComplete(indices) <=> Has(LAMBDA f : f.graphics) /\ Has(LAMBDA f : f.present)
            /\ indices.graphics # 0 => fs[indices.graphics].queueCount > 0 /\ fs[indices.graphics].graphics
            /\ indices.present # 0 => fs[indices.present].queueCount > 0 /\ fs[indices.present].present

(* "Failed to find a suitable device!" (device.cpp:107): the program does not
   go on with a device that is not suitable.                               *)
OnlySuitableTaken == pc = "picked" => Suitable(Picked)
=============================================================================

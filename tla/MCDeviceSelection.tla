------------------------- MODULE MCDeviceSelection -------------------------
(* DeviceSelection on devices with up to two queue families of every kind;  *)
(* the three requirements that are not queue families fail together or not. *)
EXTENDS DeviceSelection

MCFamilies == [queueCount : {0, 1}, graphics : BOOLEAN, present : BOOLEAN]
Usual == [queueCount |-> 1, graphics |-> TRUE, present |-> TRUE]

MCDevice(families, has, deviceType, apiVersion, sampleCounts) ==
    [families |-> families, extensionsSupported |-> has, swapChainAdequate |-> has,
     samplerAnisotropy |-> has, deviceType |-> deviceType, apiVersion |-> apiVersion,
     sampleCounts |-> sampleCounts, maxImageDimension2D |-> 4096]

(* Devices that differ in what is rated, and devices that differ in their
   families.                                                               *)
MCDevices ==
    {MCDevice(<<Usual>>, has, t, v, c) :
        has \in BOOLEAN, t \in {"DISCRETE_GPU", "INTEGRATED_GPU", "CPU", "OTHER"},
        v \in {"1.3.0", "another patch level"}, c \in {{1}, {1, 2, 4, 8}}}
    \cup {MCDevice(fs, TRUE, "VIRTUAL_GPU", "1.2.0", {1, 4}) : fs \in SeqOf(MCFamilies, 2)}
=============================================================================

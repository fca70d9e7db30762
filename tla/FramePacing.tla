---------------------------- MODULE FramePacing ----------------------------
(***************************************************************************)
(* What the renderer promises the application, without fences, semaphores, *)
(* images or swap chains: a ring of slots (command buffer, uniform buffer, *)
(* descriptor set, descriptor pool).  A frame takes the next slot of the   *)
(* ring, and only when the GPU no longer uses it; its submission hands the *)
(* slot to the GPU and moves on to the next one; the GPU gives every slot  *)
(* back.                                                                   *)
(***************************************************************************)
EXTENDS Integers

CONSTANT SlotCount  \* a natural number, at least 1

VARIABLES slot, next, running
vars == <<slot, next, running>>

Slots == 0 .. (SlotCount - 1)

PacingTypeOK ==
    /\ slot \in [Slots -> {"idle", "recording", "inFlight"}]
    /\ next \in Slots
    /\ running \in BOOLEAN

Init ==
    /\ slot = [s \in Slots |-> "idle"]
    /\ next = 0
    /\ running = TRUE

(* beginFrame returns a command buffer. *)
Begin ==
    /\ running
    /\ slot[next] = "idle"
    /\ slot' = [slot EXCEPT ![next] = "recording"]
    /\ UNCHANGED <<next, running>>

(* endFrame hands the recorded slot to the GPU. *)
Submit ==
    /\ running
    /\ slot[next] = "recording"
    /\ slot' = [slot EXCEPT ![next] = "inFlight"]
    /\ next' = (next + 1) % SlotCount
    /\ UNCHANGED running

(* The GPU is done with a slot. *)
Complete(s) ==
    /\ slot[s] = "inFlight"
    /\ slot' = [slot EXCEPT ![s] = "idle"]
    /\ UNCHANGED <<next, running>>

(* The program ends; a frame being recorded is given up. *)
Stop ==
    /\ running
    /\ running' = FALSE
    /\ slot' = [s \in Slots |-> IF slot[s] = "recording" THEN "idle" ELSE slot[s]]
    /\ next' = 0

Next == Begin \/ Submit \/ Stop \/ \E s \in Slots : Complete(s)

Spec == Init /\ [][Next]_vars /\ \A s \in Slots : WF_vars(Complete(s))
=============================================================================

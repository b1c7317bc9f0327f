------------------------------ MODULE ModelSlot ------------------------------
(***************************************************************************)
(* What the engine controller promises about the memory of the device:     *)
(* at most one model is resident, a model is evicted before the next one   *)
(* is brought in, and the controller calls itself ready only over a        *)
(* resident model.  EngineController implements this module; its mapping   *)
(* is EngineController!Slot.                                               *)
(***************************************************************************)
CONSTANT Engines

VARIABLES
  resident,   \* the engine objects whose native model occupies memory
  ready       \* the controller accepts chats

vars == <<resident, ready>>

Init == resident = {} /\ ready = FALSE

Fill(e) ==
  /\ resident = {}
  /\ resident' = {e}
  /\ UNCHANGED ready

Evict(e) ==
  /\ resident' = resident \ {e}
  /\ UNCHANGED ready

BecomeReady ==
  /\ resident # {}
  /\ ready' = TRUE
  /\ UNCHANGED resident

Withdraw ==
  /\ ready' = FALSE
  /\ UNCHANGED resident

(* The process dies and with it everything it had in memory. *)
PowerOff == resident' = {} /\ ready' = FALSE

Next ==
  \/ \E e \in Engines : Fill(e) \/ Evict(e)
  \/ BecomeReady
  \/ Withdraw
  \/ PowerOff

Spec == Init /\ [][Next]_vars

=============================================================================

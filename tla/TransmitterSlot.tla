-------------------------- MODULE TransmitterSlot --------------------------
(***************************************************************************)
(* What a task slot promises the rest of the agent about the unit's single *)
(* TX channel: at most one process holds it, a process gets to keep it     *)
(* only while a start is the last thing that was asked for, and a process  *)
(* that has been told to go never transmits on.                            *)
(*                                                                         *)
(* The detailed slot is ManagedProcess, which implements this              *)
(* specification.                                                          *)
(***************************************************************************)
CONSTANT Proc       \* the processes that may ever run in the slot

VARIABLES
  onAir,            \* processes that transmit
  leaving,          \* processes that were told to exit and have not yet
  wanted            \* the last thing asked for: TRUE a start, FALSE a stop

slotView == <<onAir, leaving, wanted>>

Init == onAir = {} /\ leaving = {} /\ wanted = FALSE

\* Someone asks for a start or for a stop; a stop may take effect at once.
Ask ==
  /\ wanted' \in BOOLEAN
  /\ \/ UNCHANGED <<onAir, leaving>>
     \/ onAir' = {} /\ leaving' = leaving \cup onAir

\* A process takes the empty channel.
TakeAir ==
  /\ wanted /\ onAir \cup leaving = {}
  /\ \E p \in Proc : onAir' = {p}
  /\ UNCHANGED <<leaving, wanted>>

\* A launch that was stopped under way ends in a process told to go at once.
StillBorn ==
  /\ onAir \cup leaving = {}
  /\ \E p \in Proc : leaving' = {p}
  /\ UNCHANGED <<onAir, wanted>>

\* A process on the air is told to go, by the watchdog or by a replacement.
Drop == onAir # {} /\ leaving' = leaving \cup onAir /\ onAir' = {} /\ UNCHANGED wanted

Gone ==
  /\ \E p \in onAir \cup leaving : onAir' = onAir \ {p} /\ leaving' = leaving \ {p}
  /\ UNCHANGED wanted

Next == Ask \/ TakeAir \/ StillBorn \/ Drop \/ Gone

Spec == Init /\ [][Next]_slotView
=============================================================================

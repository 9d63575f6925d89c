---------------------------- MODULE AtomicPower ----------------------------
(***************************************************************************)
(* What MCU.read_power (device/mcu.py) promises: the snapshot it returns   *)
(* is the Power page as the firmware last completed it, all of it at one   *)
(* moment of the call.  Or it raises.                                      *)
(***************************************************************************)
EXTENDS Naturals

CONSTANT NoSnapshot      \* no call has returned a snapshot

VARIABLES
  current,               \* the Power page as last completed by the firmware
  reading,               \* TRUE while a call is in progress
  returned               \* what the last call returned, NoSnapshot if it raised

atomicVars == <<current, reading, returned>>

Init ==
  /\ reading = FALSE
  /\ returned = NoSnapshot

Publish ==
  UNCHANGED <<reading, returned>>

Begin ==
  /\ ~reading
  /\ reading' = TRUE
  /\ returned' = NoSnapshot
  /\ UNCHANGED current

Return ==
  /\ reading
  /\ reading' = FALSE
  /\ returned' = current
  /\ UNCHANGED current

Raise ==
  /\ reading
  /\ reading' = FALSE
  /\ returned' = NoSnapshot
  /\ UNCHANGED current

Next == Publish \/ Begin \/ Return \/ Raise

Spec == Init /\ [][Next]_atomicVars
=============================================================================

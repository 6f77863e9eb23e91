---------------------------- MODULE SingleFlight ----------------------------
(* What a polling loop promises: its cycles follow one another, never two at *)
(* a time, and while it runs there is always another one.                    *)
EXTENDS Integers

VARIABLES
  flights,   \* cycles that have begun and not ended
  loop       \* "new", "running", "stopped"

flightVars == <<flights, loop>>

FlightInit == flights = 0 /\ loop = "new"

Launch == loop = "new" /\ loop' = "running" /\ flights' = 1
Begin == loop = "running" /\ flights = 0 /\ flights' = 1 /\ UNCHANGED loop
End == flights = 1 /\ flights' = 0 /\ UNCHANGED loop
Stop == loop = "running" /\ loop' = "stopped" /\ UNCHANGED flights

FlightNext == Launch \/ Begin \/ End \/ Stop

FlightSafety == FlightInit /\ [][FlightNext]_flightVars

FlightSpec ==
  /\ FlightSafety
  /\ []<>(flights = 1 \/ loop # "running") /\ []<>(flights = 0)
=============================================================================

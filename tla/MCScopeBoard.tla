---------------------------- MODULE MCScopeBoard ----------------------------
(***************************************************************************)
(* Every device, every byte that a table knows, and bytes that are in      *)
(* none.                                                                   *)
(***************************************************************************)
EXTENDS ScopeBoard

AllDevices == Devices
SomeRates == {r.rate : r \in AllRows} \cup {0, 7, 255}
SomeVoltages == {0, 1, 2, 5, 10, 11, 12, 13, 14, 16, 20}
SomeCouplings == {0, 1, 16, 17}
SomePulses == {0, 1, 10, 50, 255}
PulledUp == {TRUE}
SomeLevels == {{}, Pins, {"A", "C", "E", "Q"} \X {0, 3, 6}}

(* Rates and pins have no state in common: a host that has changed the     *)
(* rate leaves gain, coupling and pulse as they are after init().          *)
PinsOrRates ==
  \/ row.rate = 1
  \/ asked.volts = [c \in {0, 1} |-> 0] /\ asked.ticks = Timer2Val
       /\ asked.dc = [c \in {0, 1} |-> "unknown"]

PinsOrRatesSpec == Init /\ [][Next /\ PinsOrRates']_vars
=============================================================================

----------------------------- MODULE MCPairing -----------------------------
(***************************************************************************)
(* Pairing with two slots and small counters, and with the firmware's own   *)
(* numbers for the runs about how far a counter gets without a save.        *)
(***************************************************************************)
EXTENDS Pairing, TLC

CONSTANTS a, b, c

OneId    == {a}
TwoIds   == {a, b}
ThreeIds == {a, b, c}

IdSymmetry == Permutations(Ids)

\* Everything the host may ask, with a supply that never fails.
Steady == Commands \cup {"all-up", "power warning"}

\* The same with power failures, while every burst is shorter than BootJump.
Unsteady == Commands \cup {"power warning", "power loss", "active erase"}

\* A host that also pairs into a slot that is not the active one.
SteadyElsewhere == Steady \cup {"pair elsewhere"}

\* A keyboard forwarder on a supply that may fail.
Forwarding == {"UPAIR", "UKEYDOWN", "power loss"}

\* Everything that can happen.
Everything == Commands \cup Events
=============================================================================

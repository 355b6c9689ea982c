---------------------------- MODULE MCEsbRadio ----------------------------
(* EsbRadio with the pairing address of the firmware and one a receiver gave out. *)
EXTENDS EsbRadio, TLC

CONSTANTS p1, p2

MCPayloads == {p1, p2}

\* 0xBB0ADCA575 and 0xE7D09A1D26.
MCPairingAddress == <<187, 10, 220, 165, 117>>
MCDeviceAddress  == <<231, 208, 154, 29, 38>>

PayloadSymmetry == Permutations(MCPayloads)
=============================================================================

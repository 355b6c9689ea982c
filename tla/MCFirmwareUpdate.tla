-------------------------- MODULE MCFirmwareUpdate --------------------------
(* FirmwareUpdate with words of two bytes, sectors of two words and two images. *)
EXTENDS FirmwareUpdate

CONSTANTS a, b

\* One that both ways accept, and one of an odd size whose vector is not valid.
MCImages == {a, b}
MCSize   == [i \in MCImages |-> IF i = a THEN 8 ELSE 5]
=============================================================================

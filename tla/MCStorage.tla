----------------------------- MODULE MCStorage -----------------------------
(***************************************************************************)
(* Storage with a profile page of three records and a page of three words   *)
(* for the active slot.  Three of each let a log grow, fill its page and be *)
(* erased with a torn or a factory record in any place.  Pairings are       *)
(* interchangeable, and so are slots.                                       *)
(***************************************************************************)
EXTENDS Storage, TLC

CONSTANTS a, b, s0, s1

MCIds   == {a, b}
MCSlots == {s0, s1}

Names == Permutations(MCIds) \cup Permutations(MCSlots)
=============================================================================

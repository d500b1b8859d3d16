-------------------------------- MODULE MCBio --------------------------------
(* An instance of Bio for TLC. *)
EXTENDS Bio

CONSTANTS c1, c2

TwoBufs == <<c2, c1>>
=============================================================================

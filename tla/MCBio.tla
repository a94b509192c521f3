------------------------------- MODULE MCBio -------------------------------
(* Model checking of Bio: both job types, a few jobs. *)
EXTENDS Bio
============================================================================

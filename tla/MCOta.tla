------------------------------- MODULE MCOta -------------------------------
(***************************************************************************)
(* Model checking of Ota; the images are interchangeable.                  *)
(***************************************************************************)
EXTENDS Ota, TLC

Files == Permutations(File)
=============================================================================

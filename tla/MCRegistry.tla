----------------------------- MODULE MCRegistry -----------------------------
(* A corpus of two facts, and two keys besides: one shares the sketch of a *)
(* seed, one is too short to have one.                                     *)
EXTENDS Registry, TLC

CONSTANTS seed1, seed2, twin, short, c1, c2

MCSeeds == <<seed1, seed2>>
MCSketch(k) == IF k = short THEN "none" ELSE IF k = seed2 THEN "b" ELSE "a"

ClientSymmetry == Permutations({c1, c2})
=============================================================================

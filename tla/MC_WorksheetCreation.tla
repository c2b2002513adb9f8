----------------------- MODULE MC_WorksheetCreation -----------------------
(* Two schemas, so that the tables page can change its route parameters    *)
(* under a pending Add Table; two creations, so that two sites' mutations  *)
(* can overlap.                                                            *)
EXTENDS WorksheetCreation, TLC

CONSTANTS s1, s2

MCSchemas == {s1, s2}

MCSymmetry == Permutations(MCSchemas)
=============================================================================

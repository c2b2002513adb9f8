------------------------- MODULE MC_DebouncedSearch -------------------------
(* Three search strings: the initial empty one and two the user types      *)
(* ("s3" and "s3-volume" of the spec's example); two schemas of the tables *)
(* page's route, so that the schema can change under a pending timeout or  *)
(* fetch (the volumes page is the behaviours that keep to one).            *)
EXTENDS DebouncedSearch, TLC

CONSTANTS e, s3, s3v, r1, r2

MCTerms == {e, s3, s3v}

MCRoutes == {r1, r2}

MCSymmetry == Permutations({s3, s3v}) \cup Permutations(MCRoutes)
=============================================================================

--------------------------- MODULE MCDataProvider ---------------------------
(***************************************************************************)
(* Instances of DataProvider.tla for TLC.                                  *)
(***************************************************************************)
EXTENDS DataProvider, TLC

\* Addresses and request slots are interchangeable (safety runs only).
Symmetry == Permutations(Addresses) \cup Permutations(Calls)
=============================================================================

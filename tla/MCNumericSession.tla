-------------------------- MODULE MCNumericSession --------------------------
(* Service instances are interchangeable in the safety properties, and so  *)
(* are the identifiers of decisions.                                        *)
EXTENDS NumericSession, TLC

Symmetry == Permutations(Clients) \cup Permutations(Decisions)
=============================================================================

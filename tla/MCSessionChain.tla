--------------------------- MODULE MCSessionChain ---------------------------
(* Instances of SessionChain for TLC.                                      *)
EXTENDS SessionChain, TLC

\* Sessions, UUIDs and process slots are interchangeable; the properties
\* checked with this symmetry are invariants and step properties.
Symmetry == Permutations(Session) \cup Permutations(UUID) \cup Permutations(Slot)
=============================================================================

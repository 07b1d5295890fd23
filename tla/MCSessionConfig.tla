--------------------------- MODULE MCSessionConfig ---------------------------
(* Instances of SessionConfig for TLC. *)
EXTENDS SessionConfig, TLC

\* A start that gives a gate and a model, and one that gives nothing.
GateFlags ==
  [settings : Settings, mode : Mode, model : Model, effort : {None}]
  \cup [settings : {None}, mode : {None}, model : {None}, effort : {None}]

\* Models, directories, conversations and jobs are interchangeable; only
\* invariants and step properties are checked with this symmetry.
Symmetry == Permutations(Model) \cup Permutations(Dir) \cup Permutations(Conv)
            \cup Permutations(Job)
=============================================================================

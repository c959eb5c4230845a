----------------------------- MODULE MCAcpTurn -----------------------------
(* Model-checking instances of AcpTurn: symmetric sets of model values. *)
EXTENDS AcpTurn, TLC

\* Prompts, calls, permissions and tasks are interchangeable.
Symmetry == Permutations(Prompts) \union Permutations(Calls)
            \union Permutations(Permissions) \union Permutations(Tasks)
=============================================================================

---------------------------- MODULE MCSshChannels ----------------------------
(* Model-checking instances of SshChannels: symmetric sets of openers. *)
EXTENDS SshChannels

\* Openers of one kind are interchangeable.
Symmetry == Permutations(Ptys) \union Permutations(ShortExecs)
=============================================================================

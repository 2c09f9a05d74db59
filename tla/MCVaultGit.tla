----------------------------- MODULE MCVaultGit -----------------------------
(* Instances of VaultGit for TLC: files and verbs are interchangeable. *)
EXTENDS VaultGit, TLC

Symmetry == Permutations(File) \cup Permutations(Writer)
=============================================================================

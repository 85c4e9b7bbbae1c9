----------------------------- MODULE MCFileTree -----------------------------
(***************************************************************************)
(* Small instances of FileTree for TLC.  Ids of new folders, handler       *)
(* threads of a kind and names are interchangeable.                        *)
(***************************************************************************)
EXTENDS FileTree, TLC

Symmetric == Permutations(NewFolder) \cup Permutations(Client \ Mover)
               \cup Permutations(Mover) \cup Permutations(Name)
=============================================================================

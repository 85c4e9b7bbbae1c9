----------------------------- MODULE MCUploads -----------------------------
(***************************************************************************)
(* Small instances of Uploads for TLC.  Upload ids, handler threads and    *)
(* the ids of new file nodes are interchangeable.                          *)
(***************************************************************************)
EXTENDS Uploads, TLC

CONSTANTS file1, file2   \* ids for new file nodes, one per upload

Symmetric == Permutations(Client) \cup Permutations(Upload)
               \cup Permutations({file1, file2})
=============================================================================

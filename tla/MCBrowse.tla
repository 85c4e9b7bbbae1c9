------------------------------ MODULE MCBrowse ------------------------------
(***************************************************************************)
(* A small instance of Browse for TLC: one place of each kind, one handler *)
(* for the public pages and one for downloads.                             *)
(***************************************************************************)
EXTENDS Browse

CONSTANTS v1, v2

OneEach == [k \in {"public", "admin"} |-> 1]
Offers  == [p \in {v1, v2} |-> IF p = v1 THEN {"list", "admin"} ELSE {"public", "admin"}]
=============================================================================

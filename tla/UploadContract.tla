--------------------------- MODULE UploadContract ---------------------------
(***************************************************************************)
(* What the upload service promises a client, in atomic steps: no mutex,   *)
(* no staging files and objects, no crash, no reconciler.  Uploads shows   *)
(* that the service implements it, whatever fails and interleaves.         *)
(*                                                                         *)
(* An upload is opened with a size, acknowledges more and more bytes, is   *)
(* sealed by the last one, and ends once: complete, in one step with its   *)
(* file in the list, or closed without one.                                *)
(***************************************************************************)
EXTENDS Naturals

CONSTANTS Upload, MaxSize

VARIABLES
  status,    \* per upload: "none", "open", "sealed", "complete" or "closed"
  size,      \* per upload: the size declared
  received,  \* per upload: the bytes acknowledged (HEAD)
  listed     \* uploads whose file is in the tree

vars == <<status, size, received, listed>>

Init == /\ status = [u \in Upload |-> "none"]
        /\ size = [u \in Upload |-> 0]
        /\ received = [u \in Upload |-> 0]
        /\ listed = {}

Become(u, s) == status' = [status EXCEPT ![u] = s]

Open(u, s) ==
  /\ status[u] = "none"
  /\ Become(u, "open")
  /\ size' = [size EXCEPT ![u] = s]
  /\ UNCHANGED <<received, listed>>

\* Bytes that were acknowledged stay so, and the last one seals the upload.
Receive(u, n) ==
  /\ status[u] = "open"
  /\ received' = [received EXCEPT ![u] = n]
  /\ Become(u, IF n = size[u] THEN "sealed" ELSE "open")
  /\ UNCHANGED <<size, listed>>

\* The file appears with the completion.
Publish(u) ==
  /\ status[u] = "sealed"
  /\ Become(u, "complete")
  /\ listed' = listed \cup {u}
  /\ UNCHANGED <<size, received>>

\* The exception the service makes: its reconciler completes an upload whose
\* name was taken in the meantime, and there is no file.
Forfeit(u) ==
  /\ status[u] = "sealed"
  /\ Become(u, "complete")
  /\ UNCHANGED <<size, received, listed>>

\* Expired or terminated.
Close(u) ==
  /\ status[u] \in {"open", "sealed"}
  /\ Become(u, "closed")
  /\ UNCHANGED <<size, received, listed>>

\* The file is purged.
Delist(u) ==
  /\ u \in listed
  /\ listed' = listed \ {u}
  /\ UNCHANGED <<status, size, received>>

Next == \E u \in Upload :
          \/ \E s \in 0..MaxSize : Open(u, s)
          \/ \E n \in received[u]..size[u] : Receive(u, n)
          \/ Publish(u) \/ Forfeit(u) \/ Close(u) \/ Delist(u)

Spec == Init /\ [][Next]_vars
=============================================================================

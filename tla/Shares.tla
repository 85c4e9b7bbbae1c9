------------------------------- MODULE Shares -------------------------------
(***************************************************************************)
(* Public shares (internal/shares) from their creation to their end: the   *)
(* table shares with its reference to nodes, the passwords and session     *)
(* cookies, and the disaster recovery that puts back an older database.    *)
(*                                                                         *)
(* A visitor's request copies the share's row, reads the node it names in  *)
(* a statement of its own, and decides on the copies.  What a request may  *)
(* read after that is the subject of Browse.                               *)
(***************************************************************************)
EXTENDS Naturals

CONSTANTS Node,        \* nodes that are no system nodes
          Share,       \* share ids
          Admin, Visitor,   \* HTTP handler threads of either surface
          MaxVersion,  \* bound: revocations of one share, and one
          MaxEpoch     \* bound: recoveries, and one

ASSUME HandlerAssumption == Admin \cap Visitor = {}
ASSUME BoundAssumption == MaxVersion \in Nat \ {0} /\ MaxEpoch \in Nat \ {0}

VARIABLES
  active, trashed,  \* ids of table nodes
  shares,    \* table shares
  epoch,     \* GLOBAL_SHARE_EPOCH of the running server
  backups,   \* the snapshot of the database, if there is one
  late,      \* shares whose expires_at has passed
  sessions,  \* session cookies that visitors hold
  made,      \* share ids that were ever in the table
  pc, job    \* per handler: next statement, and its copies

database == <<active, trashed, shares>>
threads  == <<pc, job>>
vars     == <<active, trashed, shares, epoch, backups, late, sessions, made, pc, job>>

Row     == [target : Node, protected : BOOLEAN, limited : BOOLEAN,
            revoked : BOOLEAN, version : Nat, epoch : Nat]
Cookie  == [share : Share, version : Nat, epoch : Nat]
Purpose == {"meta", "unlock", "nodes", "download"}

AdminJob   == [share : Share, row : Row]
VisitorJob == [share : Share, row : Row, purpose : Purpose, found : BOOLEAN, failed : BOOLEAN]

Tables == {shares} \cup {b.shares : b \in backups}

TypeOK ==
  /\ active \subseteq Node /\ trashed \subseteq Node
  /\ \A b \in backups : b.active \subseteq Node /\ b.trashed \subseteq Node
  /\ \A t \in Tables : t \in [DOMAIN t -> Row] /\ DOMAIN t \subseteq made
  /\ epoch \in Nat
  /\ late \subseteq made /\ made \subseteq Share
  /\ sessions \subseteq Cookie
  /\ pc \in [Admin \cup Visitor -> {"idle", "insert", "target", "decide"}]
  /\ job = [p \in Admin \cup Visitor |-> job[p]]
  /\ \A p \in Admin : pc[p] = "insert" => job[p] \in AdminJob
  /\ \A p \in Visitor : pc[p] \in {"target", "decide"} => job[p] \in VisitorJob

NoJob == [share |-> "none"]

Init ==
  /\ active = {} /\ trashed = {}
  /\ shares = [s \in {} |-> s]
  /\ epoch = 1
  /\ backups = {} /\ late = {} /\ sessions = {} /\ made = {}
  /\ pc = [p \in Admin \cup Visitor |-> "idle"]
  /\ job = [p \in Admin \cup Visitor |-> NoJob]

Present == active \cup trashed

Goto(p, l, j) == /\ pc' = [pc EXCEPT ![p] = l]
                 /\ job' = [job EXCEPT ![p] = j]

Return(p) == Goto(p, "idle", NoJob)

-----------------------------------------------------------------------------
(* CreateShare and RevokeShare.                                            *)

\* The target is looked up; the id and the token of the share are new, and the
\* row carries the epoch of the server's configuration.
CreateCheck(p, s, target, protected, limited) ==
  /\ pc[p] = "idle"
  /\ target \in active
  /\ s \notin made /\ \A q \in Admin : pc[q] = "insert" => job[q].share # s
  /\ Goto(p, "insert",
          [share |-> s,
           row |-> [target |-> target, protected |-> protected, limited |-> limited,
                    revoked |-> FALSE, version |-> 1, epoch |-> epoch]])
  /\ UNCHANGED <<database, epoch, backups, late, sessions, made>>

\* The foreign key is all that is checked again.
Insert(p) ==
  LET j == job[p] IN
  /\ pc[p] = "insert"
  /\ j.row.target \in Present
  /\ shares' = [s \in DOMAIN shares \cup {j.share} |-> IF s = j.share THEN j.row ELSE shares[s]]
  /\ made' = made \cup {j.share}
  /\ Return(p)
  /\ UNCHANGED <<active, trashed, epoch, backups, late, sessions>>

InsertRejected(p) ==
  /\ pc[p] = "insert"
  /\ job[p].row.target \notin Present
  /\ Return(p)
  /\ UNCHANGED <<database, epoch, backups, late, sessions, made>>

\* One UPDATE, on a share in any state.
RevokeShare(s) ==
  /\ s \in DOMAIN shares /\ shares[s].version < MaxVersion
  /\ shares' = [shares EXCEPT ![s].revoked = TRUE, ![s].version = @ + 1]
  /\ UNCHANGED <<active, trashed, epoch, backups, late, sessions, made, threads>>

-----------------------------------------------------------------------------
(* A visitor's request: GetShareByToken and what the handlers make of it.  *)

\* The row, which for a restored database may be one that was revoked since.
FetchRow(p, s, purpose) ==
  /\ pc[p] = "idle"
  /\ s \in DOMAIN shares
  /\ Goto(p, "target", [share |-> s, row |-> shares[s], purpose |-> purpose,
                        found |-> FALSE, failed |-> FALSE])
  /\ UNCHANGED <<database, epoch, backups, late, sessions, made>>

\* scanShare reads the target, and forgets the error when it is not there, or when
\* the query fails for another reason (the database is busy, the visitor has gone).
\* failed is no local of the code: it tells the two apart.
FetchTarget(p) ==
  /\ pc[p] = "target"
  /\ \E failed \in BOOLEAN :
       Goto(p, "decide", [job[p] EXCEPT !.found = ~failed /\ job[p].row.target \in Present,
                                        !.failed = failed])
  /\ UNCHANGED <<database, epoch, backups, late, sessions, made>>

\* Neither revoked, nor expired, nor from before a recovery.
Opens(s, row) == /\ ~row.revoked
                 /\ ~(row.limited /\ s \in late)
                 /\ row.epoch = epoch

CookieOf(j) == [share |-> j.share, version |-> j.row.version, epoch |-> j.row.epoch]

\* ValidateSessionCookie, against the row that was copied.
Unlocked(j) == j.row.protected => CookieOf(j) \in sessions

\* The metadata page says whether the visitor has still to give the password;
\* the listing and the download insist on it.
Served(j) == /\ Opens(j.share, j.row)
             /\ j.purpose \in {"nodes", "download"} => Unlocked(j)
             /\ j.purpose = "unlock" => j.row.protected

\* HandlePublicShareGet and ...Nodes use the target without asking if it was
\* found: the handler panics, and net/http closes the connection.
Panics(j) == Served(j) /\ j.purpose \in {"meta", "nodes"} /\ ~j.found

Serve(p) ==
  /\ pc[p] = "decide" /\ Served(job[p]) /\ ~Panics(job[p])
  /\ \/ job[p].purpose = "unlock" /\ sessions' = sessions \cup {CookieOf(job[p])}
     \/ UNCHANGED sessions         \* also a wrong password
  /\ Return(p)
  /\ UNCHANGED <<database, epoch, backups, late, made>>

Refuse(p) ==
  /\ pc[p] = "decide" /\ ~Served(job[p])
  /\ Return(p)
  /\ UNCHANGED <<database, epoch, backups, late, sessions, made>>

Panic(p) ==
  /\ pc[p] = "decide" /\ Panics(job[p])
  /\ Return(p)
  /\ UNCHANGED <<database, epoch, backups, late, sessions, made>>

-----------------------------------------------------------------------------
(* Time, and the nodes that shares name (the files service).               *)

Lapse(s) ==
  /\ s \in made \ late
  /\ late' = late \cup {s}
  /\ UNCHANGED <<database, epoch, backups, sessions, made, threads>>

\* The expiry in a cookie, 24 hours after it was given.
ForgetSession(c) ==
  /\ c \in sessions
  /\ sessions' = sessions \ {c}
  /\ UNCHANGED <<database, epoch, backups, late, made, threads>>

\* Ids are new: nothing that is left names n.
AddNode(n) ==
  /\ n \notin Present
  /\ \A b \in backups : n \notin b.active \cup b.trashed
  /\ \A t \in Tables : \A s \in DOMAIN t : t[s].target # n
  /\ \A p \in Admin \cup Visitor : pc[p] # "idle" => job[p].row.target # n
  /\ active' = active \cup {n}
  /\ UNCHANGED <<trashed, shares, epoch, backups, late, sessions, made, threads>>

TrashNode(n) ==
  /\ n \in active
  /\ active' = active \ {n} /\ trashed' = trashed \cup {n}
  /\ UNCHANGED <<shares, epoch, backups, late, sessions, made, threads>>

RestoreNode(n) ==
  /\ n \in trashed
  /\ active' = active \cup {n} /\ trashed' = trashed \ {n}
  /\ UNCHANGED <<shares, epoch, backups, late, sessions, made, threads>>

\* Mutant: target_node_id does not cascade.
SharesKept(n) == shares

\* target_node_id ... ON DELETE CASCADE.
SharesWithout(n) ==
  [s \in {s \in DOMAIN shares : shares[s].target # n} |-> shares[s]]

PurgeNode(n) ==
  /\ n \in trashed
  /\ trashed' = trashed \ {n}
  /\ shares' = SharesWithout(n)
  /\ UNCHANGED <<active, epoch, backups, late, sessions, made, threads>>

-----------------------------------------------------------------------------
(* Restarts, and the scripts of the operator.                              *)

AllIdle == /\ pc' = [p \in Admin \cup Visitor |-> "idle"]
           /\ job' = [p \in Admin \cup Visitor |-> NoJob]

Restart == AllIdle /\ UNCHANGED <<database, epoch, backups, late, sessions, made>>

\* backup.sh: SQLite's .backup is one consistent copy.  (Without sqlite3 the script
\* copies the files of the live database, which is not modelled.)
Backup ==
  /\ backups' = {[active |-> active, trashed |-> trashed, shares |-> shares]}
  /\ UNCHANGED <<database, epoch, late, sessions, made, threads>>

\* Mutant: the operator forgets step 4.
SameEpoch == epoch
NextEpoch == epoch + 1

\* deploy/restore.md: the older database takes the place of the present one,
\* GLOBAL_SHARE_EPOCH is incremented, and `docker compose up -d` starts the server
\* with it.  (The last line that restore.sh prints, a `docker compose restart`,
\* would not read the new epoch.)
Recover ==
  /\ epoch < MaxEpoch
  /\ \E b \in backups : /\ active' = b.active /\ trashed' = b.trashed
                        /\ shares' = b.shares
  /\ epoch' = NextEpoch
  /\ AllIdle
  /\ UNCHANGED <<backups, late, sessions, made>>

-----------------------------------------------------------------------------
AdminStep(p) ==
  \/ \E s \in Share, target \in Node, protected, limited \in BOOLEAN :
       CreateCheck(p, s, target, protected, limited)
  \/ Insert(p) \/ InsertRejected(p)

VisitorStep(p) ==
  \/ \E s \in Share, purpose \in Purpose : FetchRow(p, s, purpose)
  \/ FetchTarget(p) \/ Serve(p) \/ Refuse(p) \/ Panic(p)

Environment ==
  \/ \E s \in Share : RevokeShare(s) \/ Lapse(s)
  \/ \E c \in sessions : ForgetSession(c)
  \/ \E n \in Node : AddNode(n) \/ TrashNode(n) \/ RestoreNode(n) \/ PurgeNode(n)
  \/ Restart \/ Backup \/ Recover

Next == (\E p \in Admin : AdminStep(p)) \/ (\E p \in Visitor : VisitorStep(p)) \/ Environment

Spec == Init /\ [][Next]_vars

-----------------------------------------------------------------------------
(* Properties.                                                             *)

\* A request that starts now would be let through to the share.
Usable(s) == s \in DOMAIN shares /\ Opens(s, shares[s])

\* "A revoke must affect the next request", and "disaster restore invalidates
\* old shares" (plan 11.3, 11.4): a share that was revoked, expired, purged with
\* its target, or replaced by a recovery never opens again, whatever older
\* database comes back and whichever request was under way.
EndedForGood ==
  [][\A s \in made : ~Usable(s) => ~Usable(s)']_vars

\* A request whose query for the target was answered finds none only if its share
\* has gone too since the row was read: the next request finds no share.  So of the
\* two reasons why handlers panic for want of a target, a purge is told by the
\* absence of the share; a query that fails leaves the share as it is.
TargetLostWithShare ==
  \A p \in Visitor :
    pc[p] = "decide" /\ ~job[p].found /\ ~job[p].failed => job[p].share \notin DOMAIN shares
=============================================================================

---------------------------- MODULE UnitStorage ----------------------------
(***************************************************************************)
(* The unit's key-value store, charmhelpers.core.unitdata.Storage: an      *)
(* sqlite database with the present values (table kv), what each hook      *)
(* execution made of them (table kv_revisions) and the executions (table   *)
(* hooks).  hook_scope brackets a transaction and gives it a revision.     *)
(*                                                                         *)
(* An exception is a state of its own here, raised: the client may catch   *)
(* it, it may reach hook_scope, which rolls back, and it may end the       *)
(* process.  Juju runs one hook at a time, so the database has one user,   *)
(* and a commit does not find it locked.                                   *)
(***************************************************************************)
EXTENDS Naturals

CONSTANTS
  Keys,        \* the keys that are used
  Prefixed,    \* those that start with the prefix given to unsetrange
  Pattern,     \* that prefix followed by %, the key unsetrange records
  Values,      \* JSON values
  Absent,      \* no row
  Deleted,     \* the value recorded for a key that was removed
  MaxVersion,  \* bound on the number of hook executions
  Client       \* what else the client does, see Habits

\* catch: catches what leaves a hook_scope, and goes on; inside: catches
\* within one; outside: writes outside of one; prefix: calls unsetrange with a
\* prefix only.  With HookData, forget: removes the row of an option that is
\* gone; back: the operator sets an option back after a hook that acted on
\* another value and did not record it.
Habits == {"catch", "inside", "outside", "prefix", "forget", "back"}

ASSUME StorageAssumption ==
  /\ Prefixed \subseteq Keys
  /\ Pattern \notin Keys
  /\ Absent \notin Values /\ Deleted \notin Values /\ Absent # Deleted
  /\ MaxVersion \in Nat
  /\ Client \subseteq Habits

VARIABLES
  data,      \* table kv, as this connection sees it
  history,   \* table kv_revisions, by its primary key
  version,   \* the last rowid of table hooks
  saved,     \* the three tables as they are on disk
  revision,  \* Storage.revision, 0 for None
  raised     \* an exception is on its way

tables == <<data, history, version>>
vars   == <<data, history, version, saved, revision, raised>>

Recorded == Keys \cup {Pattern}
Versions == 1..MaxVersion
Data     == [Keys -> Values \cup {Absent}]
Logs     == [(Recorded \X Versions) -> Values \cup {Absent, Deleted}]

TypeOK ==
  /\ data \in Data
  /\ history \in Logs
  /\ version \in 0..MaxVersion
  /\ saved \in [data : Data, history : Logs, version : 0..MaxVersion]
  /\ revision \in {0, version}
  /\ raised \in BOOLEAN

-----------------------------------------------------------------------------
(* Reading and writing.                                                     *)

\* Inside a scope, or the client does not care.
MayWrite == ~raised /\ (revision # 0 \/ "outside" \in Client)

\* Mutant: the revision keeps the first value set in it.
SetRecordsFirst(k, v) ==
  /\ MayWrite
  /\ data' = [data EXCEPT ![k] = v]
  /\ history' = IF \/ data[k] = v \/ revision = 0
                   \/ history[<<k, revision>>] # Absent
                THEN history ELSE [history EXCEPT ![<<k, revision>>] = v]
  /\ UNCHANGED <<version, saved, revision, raised>>

\* Mutant: "update kv_revisions ... where key = ?", whatever the revision.
SetRecordsEverywhere(k, v) ==
  /\ MayWrite
  /\ data' = [data EXCEPT ![k] = v]
  /\ history' = IF data[k] = v \/ revision = 0 THEN history
                ELSE [r \in DOMAIN history |->
                        IF r[1] = k /\ (r[2] = revision \/ history[r] # Absent)
                        THEN v ELSE history[r]]
  /\ UNCHANGED <<version, saved, revision, raised>>

\* The same value again is not a change; another one is recorded over what
\* this revision had for the key.
Set(k, v) ==
  /\ MayWrite
  /\ data' = [data EXCEPT ![k] = v]
  /\ history' = IF data[k] = v \/ revision = 0
                THEN history ELSE [history EXCEPT ![<<k, revision>>] = v]
  /\ UNCHANGED <<version, saved, revision, raised>>

\* "insert into kv_revisions" of a DELETED row for each of K: the primary key
\* refuses a second row of the same key and revision, and all of the insert.
Insert(K) ==
  /\ raised' = \E k \in K : history[<<k, revision>>] # Absent
  /\ history' = IF raised' THEN history
                ELSE [r \in DOMAIN history |->
                        IF r[1] \in K /\ r[2] = revision THEN Deleted
                                                         ELSE history[r]]

\* Deletes rows Ks, records keys K if a row was there and in a revision.
Delete(Ks, K) ==
  /\ MayWrite
  /\ data' = [k \in Keys |-> IF k \in Ks THEN Absent ELSE data[k]]
  /\ IF revision # 0 /\ \E k \in Ks : data[k] # Absent
     THEN Insert(K) ELSE UNCHANGED <<history, raised>>
  /\ UNCHANGED <<version, saved, revision>>

Unset(k)      == Delete({k}, {k})
UnsetRange(K) == Delete(K, K)
UnsetPrefix   == "prefix" \in Client /\ Delete(Prefixed, {Pattern})

-----------------------------------------------------------------------------
(* Transactions.                                                            *)

Commit   == saved' = [data |-> data, history |-> history, version |-> version]
Rollback == /\ data' = saved.data
            /\ history' = saved.history
            /\ version' = saved.version

\* "assert not self.revision", then a row of hooks.
HookScope ==
  /\ ~raised
  /\ \/ /\ revision = 0
        /\ version < MaxVersion
        /\ version' = version + 1
        /\ revision' = version'
        /\ UNCHANGED raised
     \/ /\ revision # 0
        /\ raised' = TRUE
        /\ UNCHANGED <<version, revision>>
  /\ UNCHANGED <<data, history, saved>>

\* The scope ends: the revision is reset, the transaction committed.
Leave ==
  /\ ~raised /\ revision # 0
  /\ revision' = 0
  /\ Commit
  /\ UNCHANGED <<tables, raised>>

\* Mutant: the scope is left without a rollback.
LeaveRaisingOnly ==
  /\ revision # 0
  /\ revision' = 0
  /\ raised' = TRUE
  /\ UNCHANGED <<data, history, version, saved>>

\* Mutant: the revision outlives the scope that fails.
LeaveRaisingInside ==
  /\ revision # 0
  /\ Rollback
  /\ raised' = TRUE
  /\ UNCHANGED <<saved, revision>>

\* An exception, the client's own or one of the store's, leaves the scope.
LeaveRaising ==
  /\ revision # 0
  /\ Rollback
  /\ revision' = 0
  /\ raised' = TRUE
  /\ UNCHANGED saved

\* flush(), within a scope or not.
Flush ==
  /\ ~raised
  /\ Commit
  /\ UNCHANGED <<tables, revision, raised>>

Catch ==
  /\ raised
  /\ (IF revision = 0 THEN "catch" ELSE "inside") \in Client
  /\ raised' = FALSE
  /\ UNCHANGED <<tables, saved, revision>>

\* close(), the end of the process or its death: what is not on disk is lost.
Close ==
  /\ Rollback
  /\ revision' = 0
  /\ raised' = FALSE
  /\ UNCHANGED saved

Init ==
  /\ data = [k \in Keys |-> Absent]
  /\ history = [r \in Recorded \X Versions |-> Absent]
  /\ version = 0
  /\ saved = [data |-> data, history |-> history, version |-> version]
  /\ revision = 0
  /\ raised = FALSE

Next ==
  \/ \E k \in Keys : \E v \in Values : Set(k, v)
  \/ \E k \in Keys : Unset(k)
  \/ \E K \in SUBSET Keys : UnsetRange(K)
  \/ UnsetPrefix
  \/ HookScope \/ Leave \/ LeaveRaising
  \/ Flush \/ Catch \/ Close

Spec == Init /\ [][Next]_vars

-----------------------------------------------------------------------------
(* Properties *)

\* The revisions of key k on disk, and what the latest of them left it with.
Revised(k) == {n \in 1..saved.version : saved.history[<<k, n>>] # Absent}
Left(k) ==
  IF Revised(k) = {} THEN Absent
  ELSE LET n == CHOOSE n \in Revised(k) : \A m \in Revised(k) : m <= n
       IN IF saved.history[<<k, n>>] = Deleted THEN Absent
                                           ELSE saved.history[<<k, n>>]

\* What gethistory says last of a key is its value: the two tables agree on
\* disk, through sets and removals of a key in one scope or several, flushes,
\* failing scopes and dying processes.  Keys removed by their prefix alone
\* are excepted: unsetrange records the prefix, not them.
HistoryAgrees ==
  \A k \in Keys : \/ Left(k) = saved.data[k]
                  \/ "prefix" \in Client /\ k \in Prefixed

\* A hook_scope that fails leaves nothing behind for the next one to commit.
NothingHeldOver ==
  revision = 0 /\ ~raised =>
    saved = [data |-> data, history |-> history, version |-> version]

\* What an execution recorded is never written again by a later one.
Rewrites ==
  \E r \in Recorded \X Versions :
    /\ r[2] # revision
    /\ saved.history[r] # Absent
    /\ saved'.history[r] # saved.history[r]

PastIsKept == [][~Rewrites]_vars
=============================================================================

------------------------- MODULE UnitStorageProofs -------------------------
(***************************************************************************)
(* Proofs about UnitStorage, for all keys and values, any number of hook   *)
(* executions and every client: its types and that no execution rewrites   *)
(* the record of an earlier one; for clients that write within a scope     *)
(* only, that a scope which fails leaves nothing behind; and for those of  *)
(* them that let an exception of the store leave the scope, that history   *)
(* and values agree on disk.                                               *)
(***************************************************************************)
EXTENDS UnitStorage, TLAPS

(* A revision of its own.                                                   *)
LEMMA RevisionRange ==
  ASSUME TypeOK
  PROVE  revision # 0 => revision \in Versions /\ revision = version
BY StorageAssumption DEF TypeOK, Versions

(* What is on disk is of the right types.                                   *)
LEMMA RollbackTypes ==
  ASSUME TypeOK, Rollback
  PROVE  data' \in Data /\ history' \in Logs /\ version' \in 0..MaxVersion
BY DEF TypeOK, Rollback

(* A removal keeps the types.                                               *)
LEMMA DeleteTypes ==
  ASSUME TypeOK, NEW Ks, NEW K, Delete(Ks, K)
  PROVE  TypeOK'
<1>1. data' \in Data
  BY DEF Delete, TypeOK, Data
<1>2. history' \in Logs /\ raised' \in BOOLEAN
  <2>1. CASE UNCHANGED <<history, raised>>
    BY <2>1 DEF TypeOK
  <2>2. CASE Insert(K)
    BY <2>2 DEF Insert, TypeOK, Logs
  <2>3. QED
    BY <2>1, <2>2 DEF Delete
<1>3. QED
  BY <1>1, <1>2 DEF Delete, TypeOK

(* A step keeps the types.                                                  *)
LEMMA TypeStep == TypeOK /\ [Next]_vars => TypeOK'
<1> SUFFICES ASSUME TypeOK, [Next]_vars PROVE TypeOK'
  OBVIOUS
<1>1. ASSUME NEW k \in Keys, NEW v \in Values, Set(k, v) PROVE TypeOK'
  <2>1. data' \in Data
    BY <1>1 DEF Set, TypeOK, Data
  <2>2. history' \in Logs
    BY <1>1 DEF Set, TypeOK, Logs
  <2>3. QED
    BY <1>1, <2>1, <2>2 DEF Set, TypeOK
<1>2. CASE \/ \E k \in Keys : Unset(k)
           \/ \E K \in SUBSET Keys : UnsetRange(K)
           \/ UnsetPrefix
  BY <1>2, DeleteTypes DEF Unset, UnsetRange, UnsetPrefix
<1>3. CASE HookScope
  <2>1. version' \in 0..MaxVersion /\ revision' \in {0, version'}
    BY <1>3, StorageAssumption DEF HookScope, TypeOK
  <2>2. raised' \in BOOLEAN
    BY <1>3 DEF HookScope, TypeOK
  <2>3. QED
    BY <1>3, <2>1, <2>2 DEF HookScope, TypeOK
<1>4. CASE Leave \/ Flush
  BY <1>4 DEF Leave, Flush, Commit, tables, TypeOK
<1>5. CASE LeaveRaising \/ Close
  BY <1>5, RollbackTypes DEF LeaveRaising, Close, TypeOK
<1>6. CASE Catch
  BY <1>6 DEF Catch, tables, TypeOK
<1>7. CASE UNCHANGED vars
  BY <1>7 DEF vars, TypeOK
<1>8. QED
  BY <1>1, <1>2, <1>3, <1>4, <1>5, <1>6, <1>7 DEF Next

(* It holds of an empty store.                                              *)
LEMMA TypeInit == Init => TypeOK
<1> SUFFICES ASSUME Init PROVE TypeOK
  OBVIOUS
<1>1. data \in Data /\ history \in Logs
  BY DEF Init, Data, Logs
<1>2. version \in 0..MaxVersion
  BY StorageAssumption DEF Init
<1>3. QED
  BY <1>1, <1>2 DEF Init, TypeOK

(* Type correctness: a scope that fails, is flushed or is cut short anywhere *)
(* leaves no revision that is not the last execution's.                      *)
THEOREM TypeCorrect == Spec => []TypeOK
BY TypeInit, TypeStep, PTL DEF Spec

-----------------------------------------------------------------------------
(* The record of earlier executions.                                        *)

(* Only what the present execution recorded may differ from the disk.       *)
PastInv == \A r \in Recorded \X Versions :
             r[2] # revision => history[r] = saved.history[r]

(* A removal records in the present revision only.                          *)
LEMMA DeletePast ==
  ASSUME TypeOK, PastInv, NEW Ks, NEW K, Delete(Ks, K)
  PROVE  PastInv'
<1>1. UNCHANGED <<saved, revision>>
  BY DEF Delete
<1>2. CASE UNCHANGED history
  BY <1>1, <1>2 DEF PastInv
<1>3. CASE Insert(K)
  <2>1. ASSUME NEW r \in Recorded \X Versions, r[2] # revision
        PROVE  history'[r] = history[r]
    BY <1>3, <2>1 DEF Insert, TypeOK, Logs
  <2>2. QED
    BY <1>1, <2>1 DEF PastInv
<1>4. QED
  BY <1>2, <1>3 DEF Delete

(* Every step keeps it.                                                     *)
LEMMA PastStep ==
  ASSUME TypeOK, PastInv, [Next]_vars
  PROVE  PastInv'
<1>1. ASSUME NEW k \in Keys, NEW v \in Values, Set(k, v) PROVE PastInv'
  <2>1. UNCHANGED <<saved, revision>>
    BY <1>1 DEF Set
  <2>2. ASSUME NEW r \in Recorded \X Versions, r[2] # revision
        PROVE  history'[r] = history[r]
    <3>1. r # <<k, revision>>
      BY <2>2
    <3>2. QED
      BY <1>1, <3>1 DEF Set, TypeOK, Logs
  <2>3. QED
    BY <2>1, <2>2 DEF PastInv
<1>2. CASE \/ \E k \in Keys : Unset(k)
           \/ \E K \in SUBSET Keys : UnsetRange(K)
           \/ UnsetPrefix
  BY <1>2, DeletePast DEF Unset, UnsetRange, UnsetPrefix
<1>3. CASE HookScope
  BY <1>3 DEF HookScope, PastInv, Versions
<1>4. CASE Leave \/ Flush
  BY <1>4 DEF Leave, Flush, Commit, tables, PastInv
<1>5. CASE LeaveRaising \/ Close
  BY <1>5 DEF LeaveRaising, Close, Rollback, PastInv
<1>6. CASE Catch
  BY <1>6 DEF Catch, tables, PastInv
<1>7. CASE UNCHANGED vars
  BY <1>7 DEF vars, PastInv
<1>8. QED
  BY <1>1, <1>2, <1>3, <1>4, <1>5, <1>6, <1>7 DEF Next

(* No execution rewrites on disk what an earlier one recorded, whatever is  *)
(* flushed, rolled back or given a revision number a second time.           *)
THEOREM PastKept == Spec => PastIsKept
<1>1. Init => PastInv
  BY DEF Init, PastInv
<1>2. TypeOK /\ PastInv /\ [Next]_vars => [~Rewrites]_vars
  <2> SUFFICES ASSUME TypeOK, PastInv, Next, Rewrites PROVE FALSE
    OBVIOUS
  <2>1. PICK r \in Recorded \X Versions :
          r[2] # revision /\ saved'.history[r] # saved.history[r]
    BY DEF Rewrites
  <2>2. saved' # saved
    BY <2>1
  <2>3. Leave \/ Flush
    BY <2>2 DEF Next, Set, Unset, UnsetRange, UnsetPrefix, Delete, HookScope,
                LeaveRaising, Catch, Close
  <2>4. saved'.history = history
    BY <2>3 DEF Leave, Flush, Commit
  <2>5. QED
    BY <2>1, <2>4 DEF PastInv
<1>3. QED
  BY <1>1, <1>2, PastStep, TypeInit, TypeStep, PTL DEF Spec, PastIsKept

-----------------------------------------------------------------------------
(* Scopes that fail.                                                        *)

(* Out of a scope, what this connection sees is what is on disk.            *)
HeldInv ==
  revision = 0 =>
    saved = [data |-> data, history |-> history, version |-> version]

(* Every step of a client that writes in scopes only keeps it.              *)
LEMMA HeldStep ==
  ASSUME "outside" \notin Client, TypeOK, HeldInv, [Next]_vars
  PROVE  HeldInv'
<1>1. CASE \/ \E k \in Keys : \E v \in Values : Set(k, v)
           \/ \E k \in Keys : Unset(k)
           \/ \E K \in SUBSET Keys : UnsetRange(K)
           \/ UnsetPrefix
  <2>1. revision # 0 /\ revision' = revision
    BY <1>1 DEF Set, Unset, UnsetRange, UnsetPrefix, Delete, MayWrite
  <2>2. QED
    BY <2>1 DEF HeldInv
<1>2. CASE HookScope
  <2>1. revision' # 0
    BY <1>2 DEF HookScope, TypeOK
  <2>2. QED
    BY <2>1 DEF HeldInv
<1>3. CASE Leave \/ Flush
  BY <1>3 DEF Leave, Flush, Commit, tables, HeldInv
<1>4. CASE LeaveRaising \/ Close
  BY <1>4 DEF LeaveRaising, Close, Rollback, TypeOK, HeldInv
<1>5. CASE Catch
  BY <1>5 DEF Catch, tables, HeldInv
<1>6. CASE UNCHANGED vars
  BY <1>6 DEF vars, HeldInv
<1>7. QED
  BY <1>1, <1>2, <1>3, <1>4, <1>5, <1>6 DEF Next

(* Of a client that writes in scopes only, a scope that fails leaves        *)
(* nothing for the next one to commit, whatever it had flushed.             *)
THEOREM NothingHeld ==
  ASSUME "outside" \notin Client
  PROVE  Spec => []NothingHeldOver
<1>1. Init => HeldInv
  BY DEF Init, HeldInv
<1>2. TypeOK /\ HeldInv /\ [Next]_vars => HeldInv'
  BY HeldStep
<1>3. HeldInv => NothingHeldOver
  BY DEF HeldInv, NothingHeldOver
<1>4. QED
  BY <1>1, <1>2, <1>3, TypeInit, TypeStep, PTL DEF Spec

-----------------------------------------------------------------------------
(* History and values.                                                      *)

(* In values d and history h after n executions, the last record of key k   *)
(* is its value; without a record it has none.                              *)
AgreeAt(k, d, h, n) ==
  \/ d[k] = Absent /\ \A m \in 1..n : h[<<k, m>>] = Absent
  \/ \E l \in 1..n :
       /\ h[<<k, l>>] # Absent
       /\ \A m \in 1..n : h[<<k, m>>] # Absent => m <= l
       /\ d[k] = IF h[<<k, l>>] = Deleted THEN Absent ELSE h[<<k, l>>]

(* The keys of which unsetrange records the prefix only are excepted.       *)
Excepted(k) == "prefix" \in Client /\ k \in Prefixed

(* Both on disk and, unless an exception of the store is on its way out of  *)
(* the scope, in this connection; and nothing is recorded ahead of time.    *)
AgreeInv ==
  /\ \A k \in Keys :
       Excepted(k) \/ AgreeAt(k, saved.data, saved.history, saved.version)
  /\ ~raised =>
       \A k \in Keys : Excepted(k) \/ AgreeAt(k, data, history, version)
  /\ \A k \in Keys : \A m \in Versions :
       /\ m > version => history[<<k, m>>] = Absent
       /\ m > saved.version => saved.history[<<k, m>>] = Absent

(* Agreement depends on what is said of the key alone.                      *)
LEMMA AgreeSame ==
  ASSUME NEW k, NEW d, NEW h, NEW n, NEW e, NEW g,
         AgreeAt(k, d, h, n), e[k] = d[k],
         \A m \in 1..n : g[<<k, m>>] = h[<<k, m>>]
  PROVE  AgreeAt(k, e, g, n)
BY DEF AgreeAt

(* An execution that has recorded nothing changes nothing.                  *)
LEMMA AgreeNext ==
  ASSUME NEW k, NEW d, NEW h, NEW n \in Nat,
         AgreeAt(k, d, h, n), h[<<k, n + 1>>] = Absent
  PROVE  AgreeAt(k, d, h, n + 1)
<1>1. \A m \in 1..(n + 1) : m \in 1..n \/ m = n + 1
  OBVIOUS
<1>2. CASE d[k] = Absent /\ \A m \in 1..n : h[<<k, m>>] = Absent
  <2>1. \A m \in 1..(n + 1) : h[<<k, m>>] = Absent
    BY <1>1, <1>2
  <2>2. QED
    BY <1>2, <2>1 DEF AgreeAt
<1>3. CASE ~(d[k] = Absent /\ \A m \in 1..n : h[<<k, m>>] = Absent)
  <2>1. PICK l \in 1..n :
          /\ h[<<k, l>>] # Absent
          /\ \A m \in 1..n : h[<<k, m>>] # Absent => m <= l
          /\ d[k] = IF h[<<k, l>>] = Deleted THEN Absent ELSE h[<<k, l>>]
    BY <1>3 DEF AgreeAt
  <2>2. l \in 1..(n + 1)
    OBVIOUS
  <2>3. \A m \in 1..(n + 1) : h[<<k, m>>] # Absent => m <= l
    BY <1>1, <2>1
  <2>4. QED
    BY <2>1, <2>2, <2>3 DEF AgreeAt
<1>4. QED
  BY <1>2, <1>3

(* What an execution records last is the value.                             *)
LEMMA AgreeLast ==
  ASSUME NEW k, NEW d, NEW h, NEW n \in Nat \ {0}, h[<<k, n>>] # Absent,
         d[k] = IF h[<<k, n>>] = Deleted THEN Absent ELSE h[<<k, n>>]
  PROVE  AgreeAt(k, d, h, n)
<1>1. n \in 1..n /\ \A m \in 1..n : m <= n
  OBVIOUS
<1>2. QED
  BY <1>1 DEF AgreeAt

(* A value that is set.                                                     *)
LEMMA AgreeSet ==
  ASSUME "outside" \notin Client, TypeOK, AgreeInv,
         NEW k \in Keys, NEW v \in Values, Set(k, v)
  PROVE  AgreeInv'
<1>1. /\ UNCHANGED <<version, saved, revision, raised>>
      /\ ~raised /\ revision \in Versions /\ revision = version
  BY RevisionRange DEF Set, MayWrite
<1>2. version \in Nat \ {0}
  BY <1>1 DEF Versions
<1>3. ASSUME NEW q \in Keys, NEW m \in Versions, q # k \/ m # version
      PROVE  history'[<<q, m>>] = history[<<q, m>>]
  <2>1. <<q, m>> # <<k, revision>> /\ <<q, m>> \in Recorded \X Versions
    BY <1>1, <1>3 DEF Recorded
  <2>2. QED
    BY <2>1 DEF Set, TypeOK, Logs
<1>4. 1..version \subseteq Versions
  BY <1>1, StorageAssumption DEF Versions
<1>5. ASSUME NEW q \in Keys, ~Excepted(q)
      PROVE  AgreeAt(q, data', history', version)
  <2>1. AgreeAt(q, data, history, version)
    BY <1>1, <1>5 DEF AgreeInv
  <2>2. CASE q # k
    <3>1. data'[q] = data[q]
      BY <2>2 DEF Set, TypeOK, Data
    <3>2. \A m \in 1..version : history'[<<q, m>>] = history[<<q, m>>]
      BY <1>3, <1>4, <2>2
    <3>3. QED
      BY <2>1, <3>1, <3>2, AgreeSame
  <2>3. CASE q = k /\ data[k] = v
    <3>1. data'[q] = data[q] /\ history' = history
      BY <2>3 DEF Set, TypeOK, Data
    <3>2. QED
      BY <2>1, <3>1, AgreeSame
  <2>4. CASE q = k /\ data[k] # v
    <3>1. data'[q] = v
      BY <2>4 DEF Set, TypeOK, Data
    <3>2. <<k, revision>> \in Recorded \X Versions
      BY <1>1 DEF Recorded
    <3>3. history'[<<q, version>>] = v
      BY <1>1, <1>2, <2>4, <3>2 DEF Set, TypeOK, Logs
    <3>4. v # Absent /\ v # Deleted
      BY StorageAssumption
    <3>5. QED
      BY <1>2, <3>1, <3>3, <3>4, AgreeLast
  <2>5. QED
    BY <2>2, <2>3, <2>4
<1>6. \A q \in Keys, m \in Versions :
        m > version => history'[<<q, m>>] = Absent
  <2>1. SUFFICES ASSUME NEW q \in Keys, NEW m \in Versions, m > version
                 PROVE  history'[<<q, m>>] = Absent
    OBVIOUS
  <2>2. m # version
    BY <1>2, <2>1 DEF Versions
  <2>3. history'[<<q, m>>] = history[<<q, m>>]
    BY <1>3, <2>2
  <2>4. QED
    BY <2>1, <2>3 DEF AgreeInv
<1>7. QED
  BY <1>1, <1>5, <1>6 DEF AgreeInv

(* Keys that are removed.                                                   *)
LEMMA AgreeDelete ==
  ASSUME "outside" \notin Client, TypeOK, AgreeInv, NEW Ks, NEW K,
         Delete(Ks, K),
         \A q \in Keys : Excepted(q) \/ (q \in K <=> q \in Ks)
  PROVE  AgreeInv'
<1>1. /\ UNCHANGED <<version, saved, revision>>
      /\ ~raised /\ revision \in Versions /\ revision = version
  BY RevisionRange DEF Delete, MayWrite
<1>2. version \in Nat \ {0}
  BY <1>1 DEF Versions
<1>3. \A q \in Keys : q \notin Ks => data'[q] = data[q]
  BY DEF Delete
<1>4. \A q \in Keys : q \in Ks => data'[q] = Absent
  BY DEF Delete
<1>5. CASE UNCHANGED history
  <2>1. CASE \E q \in Ks : data[q] # Absent
    <3>1. Insert(K)
      BY <1>1, <1>2, <2>1 DEF Delete
    <3>2. \A q \in K : Deleted # Absent
      BY StorageAssumption
    <3>3. raised' \/ \A q \in K \cap Keys : FALSE
      <4>1. SUFFICES ASSUME ~raised', NEW q \in K \cap Keys PROVE FALSE
        OBVIOUS
      <4>2. <<q, revision>> \in Recorded \X Versions
        BY <1>1 DEF Recorded
      <4>3. history[<<q, revision>>] = Absent
        BY <3>1, <4>1 DEF Insert
      <4>4. DOMAIN history = Recorded \X Versions
        BY DEF TypeOK, Logs
      <4>5. history'[<<q, revision>>] = Deleted
        BY <3>1, <4>1, <4>2, <4>4 DEF Insert
      <4>6. QED
        BY <1>5, <4>3, <4>5, StorageAssumption
    <3>4. ASSUME ~raised', NEW q \in Keys, ~Excepted(q)
          PROVE  AgreeAt(q, data', history', version)
      <4>1. data'[q] = data[q]
        BY <1>3, <3>3, <3>4
      <4>2. QED
        BY <1>1, <1>5, <3>4, <4>1, AgreeSame DEF AgreeInv
    <3>5. QED
      BY <1>1, <1>5, <3>4 DEF AgreeInv
  <2>2. CASE \A q \in Ks : data[q] = Absent
    <3>1. ASSUME NEW q \in Keys, ~Excepted(q)
          PROVE  AgreeAt(q, data', history', version)
      <4>1. data'[q] = data[q]
        BY <1>3, <1>4, <2>2
      <4>2. QED
        BY <1>1, <1>5, <3>1, <4>1, AgreeSame DEF AgreeInv
    <3>2. QED
      BY <1>1, <1>5, <3>1 DEF AgreeInv
  <2>3. QED
    BY <2>1, <2>2
<1>6. CASE Insert(K) /\ ~raised'
  <2>1. ASSUME NEW q \in Keys, NEW m \in Versions
        PROVE  history'[<<q, m>>] = IF q \in K /\ m = version
                                    THEN Deleted ELSE history[<<q, m>>]
    <3>1. <<q, m>> \in DOMAIN history
      BY DEF TypeOK, Logs, Recorded
    <3>2. QED
      BY <1>1, <1>6, <3>1 DEF Insert
  <2>2. 1..version \subseteq Versions /\ version \in Versions
    BY <1>1, StorageAssumption DEF Versions
  <2>3. ASSUME NEW q \in Keys, ~Excepted(q)
        PROVE  AgreeAt(q, data', history', version)
    <3>1. CASE q \in K
      <4>1. data'[q] = Absent /\ history'[<<q, version>>] = Deleted
        BY <1>4, <2>1, <2>2, <2>3, <3>1
      <4>2. QED
        BY <1>2, <4>1, AgreeLast, StorageAssumption
    <3>2. CASE q \notin K
      <4>1. data'[q] = data[q]
        BY <1>3, <2>3, <3>2
      <4>2. \A m \in 1..version : history'[<<q, m>>] = history[<<q, m>>]
        BY <2>1, <2>2, <3>2
      <4>3. AgreeAt(q, data, history, version)
        BY <1>1, <2>3 DEF AgreeInv
      <4>4. QED
        BY <4>1, <4>2, <4>3, AgreeSame
    <3>3. QED
      BY <3>1, <3>2
  <2>4. \A q \in Keys, m \in Versions :
          m > version => history'[<<q, m>>] = Absent
    <3>1. SUFFICES ASSUME NEW q \in Keys, NEW m \in Versions, m > version
                   PROVE  history'[<<q, m>>] = Absent
      OBVIOUS
    <3>2. m # version
      BY <1>2, <3>1 DEF Versions
    <3>3. history'[<<q, m>>] = history[<<q, m>>]
      BY <2>1, <3>2
    <3>4. QED
      BY <3>1, <3>3 DEF AgreeInv
  <2>5. QED
    BY <1>1, <2>3, <2>4 DEF AgreeInv
<1>7. QED
  BY <1>5, <1>6 DEF Delete, Insert

(* Every step of a client that lets exceptions leave the scope keeps it.    *)
LEMMA AgreeStep ==
  ASSUME "outside" \notin Client, "inside" \notin Client,
         TypeOK, HeldInv, AgreeInv, [Next]_vars
  PROVE  AgreeInv'
<1>1. CASE \E k \in Keys : \E v \in Values : Set(k, v)
  BY <1>1, AgreeSet
<1>2. CASE \/ \E k \in Keys : Unset(k)
           \/ \E K \in SUBSET Keys : UnsetRange(K)
  BY <1>2, AgreeDelete DEF Unset, UnsetRange
<1>3. CASE UnsetPrefix
  <2>1. \A q \in Keys : Excepted(q) \/ (q \in {Pattern} <=> q \in Prefixed)
    BY <1>3, StorageAssumption DEF UnsetPrefix, Excepted
  <2>2. QED
    BY <1>3, <2>1, AgreeDelete DEF UnsetPrefix
<1>4. CASE HookScope
  <2>1. CASE revision # 0
    BY <1>4, <2>1 DEF HookScope, AgreeInv
  <2>2. CASE revision = 0
    <3>1. /\ ~raised /\ version' = version + 1 /\ version \in Nat
          /\ version + 1 \in Versions
          /\ UNCHANGED <<data, history, saved>>
      BY <1>4, <2>2, StorageAssumption DEF HookScope, TypeOK, Versions
    <3>2. ASSUME NEW q \in Keys, ~Excepted(q)
          PROVE  AgreeAt(q, data', history', version')
      <4>1. AgreeAt(q, data, history, version)
        BY <3>1, <3>2 DEF AgreeInv
      <4>2. history[<<q, version + 1>>] = Absent
        BY <3>1 DEF AgreeInv
      <4>3. AgreeAt(q, data, history, version + 1)
        BY <3>1, <4>1, <4>2, AgreeNext
      <4>4. QED
        BY <3>1, <4>3
    <3>3. \A q \in Keys, m \in Versions :
            m > version' => history'[<<q, m>>] = Absent
      <4>1. SUFFICES ASSUME NEW q \in Keys, NEW m \in Versions, m > version'
                     PROVE  history'[<<q, m>>] = Absent
        OBVIOUS
      <4>2. m > version
        BY <3>1, <4>1 DEF Versions
      <4>3. QED
        BY <3>1, <4>2 DEF AgreeInv
    <3>4. QED
      BY <3>1, <3>2, <3>3 DEF AgreeInv
  <2>3. QED
    BY <2>1, <2>2
<1>5. CASE Leave \/ Flush
  BY <1>5 DEF Leave, Flush, Commit, tables, AgreeInv
<1>6. CASE LeaveRaising \/ Close
  BY <1>6 DEF LeaveRaising, Close, Rollback, AgreeInv
<1>7. CASE Catch
  <2>1. revision = 0 /\ UNCHANGED <<tables, saved>>
    BY <1>7 DEF Catch
  <2>2. data = saved.data /\ history = saved.history /\ version = saved.version
    BY <2>1 DEF HeldInv
  <2>3. QED
    BY <2>1, <2>2 DEF tables, AgreeInv
<1>8. CASE UNCHANGED vars
  BY <1>8 DEF vars, AgreeInv
<1>9. QED
  BY <1>1, <1>2, <1>3, <1>4, <1>5, <1>6, <1>7, <1>8 DEF Next

(* Of what the agreement says, gethistory's last row is an instance.        *)
LEMMA AgreementRead ==
  ASSUME TypeOK, NEW k \in Keys,
         AgreeAt(k, saved.data, saved.history, saved.version)
  PROVE  Left(k) = saved.data[k]
<1>1. CASE Revised(k) = {}
  BY <1>1 DEF AgreeAt, Revised, Left
<1>2. CASE Revised(k) # {}
  <2>1. PICK l \in 1..saved.version :
          /\ saved.history[<<k, l>>] # Absent
          /\ \A m \in 1..saved.version :
               saved.history[<<k, m>>] # Absent => m <= l
          /\ saved.data[k] = IF saved.history[<<k, l>>] = Deleted
                             THEN Absent ELSE saved.history[<<k, l>>]
    BY <1>2 DEF AgreeAt, Revised
  <2> DEFINE n == CHOOSE n \in Revised(k) : \A m \in Revised(k) : m <= n
  <2>2. l \in Revised(k) /\ \A m \in Revised(k) : m <= l
    BY <2>1 DEF Revised
  <2>3. n \in Revised(k) /\ \A m \in Revised(k) : m <= n
    BY <2>2
  <2>4. n = l
    <3>1. n \in Nat /\ l \in Nat
      BY <2>3 DEF Revised
    <3> HIDE DEF n
    <3>2. n <= l /\ l <= n
      BY <2>2, <2>3
    <3>3. QED
      BY <3>1, <3>2
  <2>5. Left(k) = IF saved.history[<<k, n>>] = Deleted THEN Absent
                                               ELSE saved.history[<<k, n>>]
    BY <1>2 DEF Left
  <2>6. QED
    BY <2>1, <2>4, <2>5
<1>3. QED
  BY <1>1, <1>2

(* History and values agree on disk for every client that writes within a   *)
(* scope and lets an exception of the store leave it, through sets and      *)
(* removals in one scope or several, flushes, failures and deaths.          *)
THEOREM HistoryIsTrue ==
  ASSUME "outside" \notin Client, "inside" \notin Client
  PROVE  Spec => []HistoryAgrees
<1>1. Init => HeldInv
  BY DEF Init, HeldInv
<1>2. Init => AgreeInv
  <2> SUFFICES ASSUME Init PROVE AgreeInv
    OBVIOUS
  <2>1. /\ version = 0 /\ saved.data = data /\ saved.history = history
        /\ saved.version = 0
        /\ \A k \in Keys : data[k] = Absent
        /\ \A k \in Keys, m \in Versions : history[<<k, m>>] = Absent
    BY DEF Init, Recorded
  <2>2. \A k \in Keys : AgreeAt(k, data, history, 0)
    <3>1. \A m \in 1..0 : FALSE
      OBVIOUS
    <3>2. QED
      BY <2>1, <3>1 DEF AgreeAt
  <2>3. QED
    BY <2>1, <2>2 DEF AgreeInv
<1>3. TypeOK /\ HeldInv /\ [Next]_vars => HeldInv'
  BY HeldStep
<1>4. TypeOK /\ HeldInv /\ AgreeInv /\ [Next]_vars => AgreeInv'
  BY AgreeStep
<1>5. TypeOK /\ AgreeInv => HistoryAgrees
  BY AgreementRead DEF AgreeInv, Excepted, HistoryAgrees
<1>6. QED
  BY <1>1, <1>2, <1>3, <1>4, <1>5, TypeInit, TypeStep, PTL DEF Spec
=============================================================================

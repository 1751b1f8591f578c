------------------------------ MODULE MySqlProofs ------------------------------
(***************************************************************************)
(* Proofs about MySql and the generator of Uuid, for every number of       *)
(* goroutines, connection strings, calls and ids, and every clock.         *)
(***************************************************************************)
EXTENDS MySql, FiniteSetTheorems, TLAPS

(***************************************************************************)
(* The inductive invariant.  Typed: what TypeOK does not say of the types, *)
(* and which calls can be where.  PoolFirst: every instance is of a        *)
(* connection string in the pool.  Failed: a nil transaction comes from a  *)
(* Begin that failed.  While no id is repeated -- Unique: the id of a      *)
(* BeginTx on its way is in no map and in no other call, the transaction   *)
(* it has begun is open and nobody else's; an entry that a call has found does not  *)
(* change; and a transaction has one place.  Settling: what is about to be *)
(* deleted is over.                                                        *)
(***************************************************************************)
TxMaps == UNION {[I -> Nat \cup {NoTx}] : I \in SUBSET TxIds}
Ops == {"none", "begin", "exec", "commit", "rollback"}
Ending == {"commit", "rollback"}

Typed ==
    /\ txMap \in Seq(TxMaps) /\ Len(txMap) = Len(instances)
    /\ settled \in Seq(Nat) /\ Len(settled) = Len(txs)
    /\ op \in [Procs -> Ops \cup ConnStrs]
    /\ failedIds \subseteq Nat \X TxIds
    /\ \A g \in Procs :
          /\ pc[g] = "open" => op[g] \in ConnStrs
          /\ pc[g] = "autocommit" => id[g] = NonTransaction
          /\ pc[g] = "lookup" => op[g] \in {"begin", "exec"} \cup Ending
          /\ pc[g] = "database" => op[g] \in {"begin", "exec"} \cup Ending
          /\ pc[g] = "write" => op[g] \in {"begin"} \cup Ending
          /\ pc[g] \in {"lookup", "database", "write"} => mine[g] # 0
          /\ pc[g] \in {"lookup", "database", "write"} /\ op[g] = "begin" =>
                id[g] \in TxIds
          /\ pc[g] \in {"lookup", "database"} /\ op[g] = "begin" => found[g] = NoTx

PoolFirst == \A n \in DOMAIN instances : instances[n] \in DOMAIN pool

Failed ==
    /\ \A n \in DOMAIN txMap : \A i \in DOMAIN txMap[n] :
          txMap[n][i] = NoTx => <<n, i>> \in failedIds
    /\ \A g \in Procs :
          found[g] = NoTx
          /\ (pc[g] = "write" \/ (pc[g] = "database" /\ op[g] # "begin")) =>
                <<mine[g], id[g]>> \in failedIds

Beginning(g) == op[g] = "begin" /\ pc[g] \in {"lookup", "database", "write"}
Using(g) == op[g] # "begin" /\ pc[g] \in {"database", "write"}

Unique ==
    ~repeated =>
      /\ \A g \in Procs : Beginning(g) =>
            /\ \A n \in DOMAIN txMap : id[g] \notin DOMAIN txMap[n]
            /\ \A h \in Procs : id[h] = id[g] /\ (Beginning(h) \/ Using(h)) => h = g
      /\ \A g \in Procs : Beginning(g) /\ pc[g] = "write" /\ found[g] # NoTx =>
            /\ \A n \in DOMAIN txMap : \A i \in DOMAIN txMap[n] : txMap[n][i] # found[g]
            /\ \A h \in Procs : found[h] = found[g] => h = g
            /\ txs[found[g]] = "open"
      /\ \A g \in Procs : Using(g) /\ id[g] \in DOMAIN txMap[mine[g]] =>
            txMap[mine[g]][id[g]] = found[g]
      /\ \A g \in Procs : Using(g) /\ found[g] # NoTx =>
            \A n \in DOMAIN txMap : \A i \in DOMAIN txMap[n] :
               txMap[n][i] = found[g] => n = mine[g] /\ i = id[g]
      /\ \A m, n \in DOMAIN txMap :
            \A i \in DOMAIN txMap[m], j \in DOMAIN txMap[n] :
               txMap[m][i] = txMap[n][j] /\ txMap[m][i] # NoTx => m = n /\ i = j

Settling ==
    \A g \in Procs : Using(g) /\ pc[g] = "write" /\ found[g] # NoTx =>
        txs[found[g]] # "open"

SqlInv == /\ TypeOK /\ Typed /\ PoolFirst /\ InstanceBound /\ Failed /\ Unique
          /\ Settling /\ TxTracked /\ OutcomeOnce /\ PanicCauses

(***************************************************************************)
(* The generator.  What the numbers of this process's UUIDs have to do     *)
(* with the sequence number and the clock kept in memory: the number       *)
(* differs by the advances since, and without an advance time went on.     *)
(***************************************************************************)
V1s == [version : {1}, time : Nat, seq : Nat]
V2s == [version : {2}, domain : Domains, time : Nat, seq : Nat]

Storage ==
    /\ clockSequence \in Nat /\ advances \in Nat /\ restarts \in Nat
    /\ lastTime \in Nat
    /\ issued \in Seq([uuid : V1s \cup V2s, process : Nat, advances : Nat])
    /\ \A i \in DOMAIN issued :
          /\ issued[i].process <= restarts /\ issued[i].advances <= advances
          /\ issued[i].process = restarts => storageInit

Congruent(a, b) == \E k \in Int : a = b + k * KeptSeq

Steady ==
    \A i \in DOMAIN issued :
       issued[i].process = restarts /\ issued[i].uuid.version = 1 =>
          /\ Congruent(clockSequence,
                       issued[i].uuid.seq + advances - issued[i].advances)
          /\ issued[i].advances = advances => issued[i].uuid.time <= lastTime

UuidInv == Storage /\ Steady /\ UniqueV1

-----------------------------------------------------------------------------
(* The instances.                                                          *)

Made(c) == {n \in DOMAIN instances : instances[n] = c}
Opening(c) == {g \in Procs : pc[g] = "open" /\ op[g] = c}

LEMMA ProcSets ==
    ASSUME NEW S \in SUBSET Procs
    PROVE  /\ IsFiniteSet(S) /\ Cardinality(S) \in Nat
           /\ Cardinality(S) <= Cardinality(Procs) /\ Cardinality(Procs) \in Nat
  BY MySqlAssumption, FS_Subset, FS_CardinalityType

LEMMA MadeSets ==
    ASSUME TypeOK, NEW c
    PROVE  IsFiniteSet(Made(c)) /\ Cardinality(Made(c)) \in Nat
<1>1. Made(c) \subseteq 1 .. Len(instances) /\ Len(instances) \in Nat
  BY DEF TypeOK, Made
<1>2. IsFiniteSet(1 .. Len(instances))
  BY <1>1, FS_Interval
<1>. QED
  BY <1>1, <1>2, FS_Subset, FS_CardinalityType

(* As long as nobody else comes to open an instance, nothing changes.      *)

LEMMA BoundKept ==
    ASSUME TypeOK, InstanceBound, UNCHANGED instances,
           \A g \in Procs : pc'[g] = "open" => pc[g] = "open" /\ op'[g] = op[g]
    PROVE  InstanceBound'
<1>. SUFFICES ASSUME NEW c \in ConnStrs
              PROVE  Cardinality(Made(c)') + Cardinality(Opening(c)')
                        <= Cardinality(Procs)
  BY Zenon DEF InstanceBound, Made, Opening
<1>1. Cardinality(Made(c)') = Cardinality(Made(c))
  BY Zenon DEF Made
<1>2. Opening(c)' \subseteq Opening(c) /\ Opening(c) \subseteq Procs
  BY DEF Opening
<1>3. Cardinality(Opening(c)') <= Cardinality(Opening(c))
  BY <1>2, ProcSets, FS_Subset
<1>4. Cardinality(Made(c)) + Cardinality(Opening(c)) <= Cardinality(Procs)
  BY Zenon DEF InstanceBound, Made, Opening
<1>5. /\ Cardinality(Opening(c)') \in Nat /\ Cardinality(Opening(c)) \in Nat
      /\ Cardinality(Procs) \in Nat /\ Cardinality(Made(c)) \in Nat
  BY <1>2, ProcSets, MadeSets
<1>. QED
  BY <1>1, <1>3, <1>4, <1>5

(* One that begins to open for c, of which there is no instance yet.       *)

LEMMA BoundWaits ==
    ASSUME TypeOK, InstanceBound, PoolFirst, UNCHANGED instances,
           NEW g \in Procs, NEW c \in ConnStrs, c \notin DOMAIN pool,
           op'[g] = c,
           \A h \in Procs : h # g => pc'[h] = pc[h] /\ op'[h] = op[h]
    PROVE  InstanceBound'
<1>. SUFFICES ASSUME NEW d \in ConnStrs
              PROVE  Cardinality(Made(d)') + Cardinality(Opening(d)')
                        <= Cardinality(Procs)
  BY Zenon DEF InstanceBound, Made, Opening
<1>1. Cardinality(Made(d)') = Cardinality(Made(d))
  BY Zenon DEF Made
<1>2. /\ Cardinality(Opening(d)') \in Nat /\ Cardinality(Opening(d)) \in Nat
      /\ Cardinality(Opening(d)') <= Cardinality(Procs)
      /\ Cardinality(Procs) \in Nat /\ Cardinality(Made(d)) \in Nat
  <2>1. Opening(d)' \subseteq Procs /\ Opening(d) \subseteq Procs
    BY DEF Opening
  <2>. QED
    BY <2>1, ProcSets, MadeSets
<1>3. CASE d = c
  <2>1. Made(d) = {}
    BY <1>3 DEF Made, PoolFirst
  <2>2. Cardinality(Made(d)) = 0
    BY <2>1, FS_EmptySet
  <2>. QED
    BY <1>1, <1>2, <2>2
<1>4. CASE d # c
  <2>1. Opening(d)' \subseteq Opening(d)
    BY <1>4 DEF Opening
  <2>2. Opening(d) \subseteq Procs
    BY DEF Opening
  <2>3. Cardinality(Opening(d)') <= Cardinality(Opening(d))
    BY <2>1, <2>2, ProcSets, FS_Subset
  <2>4. Cardinality(Made(d)) + Cardinality(Opening(d)) <= Cardinality(Procs)
    BY Zenon DEF InstanceBound, Made, Opening
  <2>. QED
    BY <1>1, <1>2, <2>3, <2>4
<1>. QED
  BY <1>3, <1>4

(* One that has opened an instance: one more of them, and one less that    *)
(* opens.                                                                  *)

LEMMA BoundOpened ==
    ASSUME TypeOK, InstanceBound, NEW g \in Procs, pc[g] = "open", pc'[g] = "idle",
           instances' = Append(instances, op[g]), op[g] \in ConnStrs,
           \A h \in Procs : h # g => pc'[h] = pc[h] /\ op'[h] = op[h]
    PROVE  InstanceBound'
<1>. SUFFICES ASSUME NEW d \in ConnStrs
              PROVE  Cardinality(Made(d)') + Cardinality(Opening(d)')
                        <= Cardinality(Procs)
  BY Zenon DEF InstanceBound, Made, Opening
<1>1. Cardinality(Made(d)) + Cardinality(Opening(d)) <= Cardinality(Procs)
  BY Zenon DEF InstanceBound, Made, Opening
<1>2. /\ Cardinality(Opening(d)) \in Nat /\ IsFiniteSet(Opening(d))
      /\ Cardinality(Procs) \in Nat
      /\ IsFiniteSet(Made(d)) /\ Cardinality(Made(d)) \in Nat
  <2>1. Opening(d) \subseteq Procs
    BY DEF Opening
  <2>. QED
    BY <2>1, ProcSets, MadeSets
<1>3. /\ DOMAIN instances = 1 .. Len(instances) /\ Len(instances) \in Nat
      /\ DOMAIN instances' = 1 .. (Len(instances) + 1)
      /\ \A n \in DOMAIN instances : instances'[n] = instances[n]
      /\ instances'[Len(instances) + 1] = op[g]
  BY DEF TypeOK
<1>4. CASE d = op[g]
  <2>1. /\ Made(d)' = Made(d) \cup {Len(instances) + 1}
        /\ Len(instances) + 1 \notin Made(d)
    BY <1>3, <1>4 DEF Made
  <2>2. Cardinality(Made(d) \cup {Len(instances) + 1}) = Cardinality(Made(d)) + 1
    BY <1>2, <2>1, FS_AddElement
  <2>3. Cardinality(Made(d)') = Cardinality(Made(d)) + 1
    BY <2>1, <2>2, Zenon
  <2>4. Opening(d)' = Opening(d) \ {g} /\ g \in Opening(d)
    BY <1>4 DEF Opening
  <2>5. Cardinality(Opening(d) \ {g}) = Cardinality(Opening(d)) - 1
    BY <1>2, <2>4, FS_RemoveElement
  <2>6. Cardinality(Opening(d)') = Cardinality(Opening(d)) - 1
    BY <2>4, <2>5, Zenon
  <2>. QED
    BY <1>1, <1>2, <2>3, <2>6
<1>5. CASE d # op[g]
  <2>1. Made(d)' = Made(d) /\ Opening(d)' = Opening(d)
    BY <1>3, <1>5 DEF Made, Opening
  <2>2. /\ Cardinality(Made(d)') = Cardinality(Made(d))
        /\ Cardinality(Opening(d)') = Cardinality(Opening(d))
    BY <2>1, Zenon
  <2>. QED
    BY <1>1, <2>2
<1>. QED
  BY <1>4, <1>5

-----------------------------------------------------------------------------
LEMMA InitInv == Init => SqlInv
<1>. SUFFICES ASSUME Init PROVE SqlInv
  OBVIOUS
<1>. USE DEF Init
<1>1. TypeOK
  BY DEF TypeOK, AllTx, Ids
<1>2. Typed
  BY DEF Typed, Ops
<1>3. PoolFirst /\ Failed /\ Unique /\ Settling /\ TxTracked /\ OutcomeOnce /\ PanicCauses
  BY DEF PoolFirst, Failed, Unique, Beginning, Using, Settling, TxTracked,
         OutcomeOnce, PanicCauses
<1>4. InstanceBound
  <2>. SUFFICES ASSUME NEW c \in ConnStrs
                PROVE  Cardinality(Made(c)) + Cardinality(Opening(c))
                          <= Cardinality(Procs)
    BY Zenon DEF InstanceBound, Made, Opening
  <2>1. Made(c) = {} /\ Opening(c) = {}
    BY DEF Made, Opening
  <2>2. Cardinality(Made(c)) = 0 /\ Cardinality(Opening(c)) = 0
    BY <2>1, FS_EmptySet
  <2>. QED
    BY <2>2, ProcSets
<1>. QED
  BY <1>1, <1>2, <1>3, <1>4 DEF SqlInv

-----------------------------------------------------------------------------
(* The steps of a goroutine that is not in the middle of a transaction's   *)
(* call, and is not afterwards: the maps keep their entries, and nothing   *)
(* that is said of calls on their way is said of this one.                 *)

LEMMA Bystander ==
    ASSUME SqlInv, NEW g \in Procs, pc[g] # "write",
           ~Beginning(g)' /\ ~Using(g)', found'[g] \in {found[g], NoTx},
           \A h \in Procs : h # g =>
              /\ pc'[h] = pc[h] /\ op'[h] = op[h] /\ mine'[h] = mine[h]
              /\ id'[h] = id[h] /\ found'[h] = found[h],
           DOMAIN txMap \subseteq DOMAIN txMap',
           \A n \in DOMAIN txMap : txMap'[n] = txMap[n],
           \A n \in DOMAIN txMap' : n \in DOMAIN txMap \/ DOMAIN txMap'[n] = {},
           UNCHANGED <<txs, settled, outside, failedIds>>,
           ~repeated' => ~repeated
    PROVE  Failed' /\ Unique' /\ Settling' /\ TxTracked' /\ OutcomeOnce'
<1>. USE DEF SqlInv
<1>1. \A h \in Procs : /\ Beginning(h)' => Beginning(h) /\ h # g
                       /\ Using(h)' => Using(h) /\ h # g
  BY DEF Beginning, Using
<1>2. Failed'
  BY DEF Failed, Beginning, Using
<1>3. \A h \in Procs : pc[h] \in {"database", "write"} => mine[h] \in DOMAIN txMap
  BY DEF TypeOK, Typed
<1>4. Unique'
  <2>. SUFFICES ASSUME ~repeated' PROVE Unique'
    BY DEF Unique
  <2>1. ASSUME NEW h \in Procs, Beginning(h)'
        PROVE  /\ \A n \in DOMAIN txMap' : id'[h] \notin DOMAIN txMap'[n]
               /\ \A k \in Procs : id'[k] = id'[h] /\ (Beginning(k)' \/ Using(k)') => k = h
    BY <1>1, <2>1 DEF Unique
  <2>2. ASSUME NEW h \in Procs, Beginning(h)', pc'[h] = "write", found'[h] # NoTx
        PROVE  /\ \A n \in DOMAIN txMap' : \A i \in DOMAIN txMap'[n] :
                     txMap'[n][i] # found'[h]
               /\ \A k \in Procs : found'[k] = found'[h] => k = h
               /\ txs'[found'[h]] = "open"
    BY <1>1, <2>2 DEF Unique
  <2>3. ASSUME NEW h \in Procs, Using(h)'
        PROVE  /\ id'[h] \in DOMAIN txMap'[mine'[h]] =>
                     txMap'[mine'[h]][id'[h]] = found'[h]
               /\ found'[h] # NoTx =>
                    \A n \in DOMAIN txMap' : \A i \in DOMAIN txMap'[n] :
                       txMap'[n][i] = found'[h] => n = mine'[h] /\ i = id'[h]
    BY <1>1, <1>3, <2>3 DEF Unique, Using
  <2>4. ASSUME NEW m \in DOMAIN txMap', NEW n \in DOMAIN txMap',
               NEW i \in DOMAIN txMap'[m], NEW j \in DOMAIN txMap'[n],
               txMap'[m][i] = txMap'[n][j], txMap'[m][i] # NoTx
        PROVE  m = n /\ i = j
    BY <2>4 DEF Unique
  <2>. QED
    BY <2>1, <2>2, <2>3, <2>4 DEF Unique
<1>5. Settling'
  BY <1>1 DEF Settling, Using
<1>6. TxTracked'
  BY DEF TxTracked, Storing, Deleting
<1>7. OutcomeOnce'
  BY DEF OutcomeOnce
<1>. QED
  BY <1>2, <1>4, <1>5, <1>6, <1>7

LEMMA GetInv == ASSUME SqlInv, NEW g \in Procs, NEW c \in ConnStrs, Get(g, c),
                       UNCHANGED crashed
                PROVE  SqlInv'
<1>. USE DEF SqlInv
<1>1. /\ pc[g] = "idle" /\ ~crashed
      /\ \/ /\ c \in DOMAIN pool /\ mine' = [mine EXCEPT ![g] = pool[c]]
            /\ pc' = [pc EXCEPT ![g] = "idle"] /\ ret' = [ret EXCEPT ![g] = "nil"]
            /\ op' = op
         \/ /\ c \notin DOMAIN pool /\ op' = [op EXCEPT ![g] = c]
            /\ pc' = [pc EXCEPT ![g] = "open"] /\ UNCHANGED <<mine, ret>>
      /\ UNCHANGED <<pool, instances, unclosed, txMap, txs, id, found, settled,
                     outside, failedIds, repeated>>
  BY DEF Get, Pooled, Event, Goto, Return, dbVars, histVars
<1>2. TypeOK'
  <2>1. /\ pc' \in [Procs -> {"idle", "open", "autocommit", "lookup", "database", "write"}]
        /\ ret' \in [Procs -> {"nil", "error", "panic"}]
    BY <1>1 DEF TypeOK
  <2>2. mine' \in [Procs -> {0} \cup DOMAIN instances']
    BY <1>1 DEF TypeOK
  <2>. QED
    BY <1>1, <2>1, <2>2 DEF TypeOK, AllTx
<1>3. Typed'
  <2>1. op' \in [Procs -> Ops \cup ConnStrs]
    BY <1>1 DEF Typed
  <2>2. /\ pc'[g] \in {"idle", "open"} /\ (pc'[g] = "open" => op'[g] = c)
        /\ \A h \in Procs : h # g => pc'[h] = pc[h] /\ op'[h] = op[h] /\ mine'[h] = mine[h]
    BY <1>1 DEF TypeOK, Typed
  <2>. QED
    BY <1>1, <2>1, <2>2 DEF Typed
<1>4. PoolFirst' /\ PanicCauses'
  <2>1. \A h \in Procs : ret'[h] = "panic" /\ pc'[h] \in {"idle", "write"} =>
           h # g /\ ret[h] = "panic" /\ pc'[h] = pc[h] /\ op'[h] = op[h] /\ mine'[h] = mine[h]
    BY <1>1 DEF TypeOK, Typed
  <2>. QED
    BY <1>1, <2>1 DEF PoolFirst, PanicCauses
<1>5. InstanceBound'
  <2>1. CASE c \in DOMAIN pool
    <3>1. \A h \in Procs : pc'[h] = "open" => pc[h] = "open" /\ op'[h] = op[h]
      BY <1>1, <2>1 DEF TypeOK
    <3>. QED
      BY <1>1, <3>1, BoundKept
  <2>2. CASE c \notin DOMAIN pool
    <3>1. /\ op'[g] = c
          /\ \A h \in Procs : h # g => pc'[h] = pc[h] /\ op'[h] = op[h]
      BY <1>1, <2>2 DEF TypeOK, Typed
    <3>. QED
      BY <1>1, <2>2, <3>1, BoundWaits
  <2>. QED
    BY <2>1, <2>2
<1>6. /\ ~Beginning(g)' /\ ~Using(g)'
      /\ \A h \in Procs : h # g =>
            pc'[h] = pc[h] /\ op'[h] = op[h] /\ mine'[h] = mine[h]
  BY <1>1 DEF TypeOK, Typed, Beginning, Using
<1>7. Failed' /\ Unique' /\ Settling' /\ TxTracked' /\ OutcomeOnce'
  BY <1>1, <1>6, Bystander
<1>. QED
  BY <1>2, <1>3, <1>4, <1>5, <1>7

LEMMA OpenFailsInv ==
    ASSUME SqlInv, NEW g \in Procs, OpenFails(g), UNCHANGED crashed
    PROVE  SqlInv'
<1>. USE DEF SqlInv
<1>1. /\ pc[g] = "open" /\ ~crashed
      /\ pc' = [pc EXCEPT ![g] = "idle"] /\ ret' = [ret EXCEPT ![g] = "error"]
      /\ UNCHANGED <<pool, instances, txMap, txs, op, mine, id, found, settled,
                     outside, failedIds, repeated>>
  BY DEF OpenFails, NoEvent, Goto, Return, histVars
<1>2. TypeOK' /\ Typed'
  BY <1>1 DEF TypeOK, Typed, AllTx
<1>3. PoolFirst' /\ PanicCauses'
  BY <1>1 DEF TypeOK, PoolFirst, PanicCauses
<1>4. /\ ~Beginning(g)' /\ ~Using(g)'
      /\ \A h \in Procs : h # g => pc'[h] = pc[h]
      /\ \A h \in Procs : pc'[h] = "open" => pc[h] = "open" /\ op'[h] = op[h]
  BY <1>1 DEF TypeOK, Beginning, Using
<1>5. InstanceBound'
  BY <1>1, <1>4, BoundKept
<1>6. Failed' /\ Unique' /\ Settling' /\ TxTracked' /\ OutcomeOnce'
  BY <1>1, <1>4, Bystander
<1>. QED
  BY <1>2, <1>3, <1>5, <1>6

LEMMA OpenedInv ==
    ASSUME SqlInv, NEW g \in Procs, Opened(g), UNCHANGED crashed
    PROVE  SqlInv'
<1>. USE DEF SqlInv
<1>1. /\ pc[g] = "open" /\ ~crashed
      /\ instances' = Append(instances, op[g])
      /\ txMap' = Append(txMap, [i \in {} |-> NoTx])
      /\ pool' = [c \in DOMAIN pool \cup {op[g]} |->
                     IF c = op[g] THEN Len(instances') ELSE pool[c]]
      /\ mine' = [mine EXCEPT ![g] = Len(instances')]
      /\ pc' = [pc EXCEPT ![g] = "idle"] /\ ret' = [ret EXCEPT ![g] = "nil"]
      /\ UNCHANGED <<txs, op, id, found, settled, outside, failedIds, repeated>>
  BY DEF Opened, NoEvent, Goto, Return, histVars
<1>2. /\ op[g] \in ConnStrs /\ instances \in Seq(ConnStrs) /\ txMap \in Seq(TxMaps)
      /\ Len(txMap) = Len(instances)
  BY <1>1 DEF TypeOK, Typed
<1>3. [i \in {} |-> NoTx] \in TxMaps
  <2>1. [i \in {} |-> NoTx] \in [{} -> Nat \cup {NoTx}] /\ {} \in SUBSET TxIds
    OBVIOUS
  <2>. QED
    BY <2>1, Zenon DEF TxMaps
<1>4. /\ instances' \in Seq(ConnStrs) /\ txMap' \in Seq(TxMaps)
      /\ Len(instances') = Len(instances) + 1 /\ Len(txMap') = Len(instances')
      /\ DOMAIN instances' = DOMAIN instances \cup {Len(instances')}
      /\ DOMAIN txMap' = DOMAIN instances' /\ DOMAIN txMap = DOMAIN instances
      /\ \A n \in DOMAIN txMap : txMap'[n] = txMap[n] /\ instances'[n] = instances[n]
      /\ DOMAIN txMap'[Len(instances')] = {}
      /\ instances'[Len(instances')] = op[g]
  BY <1>1, <1>2, <1>3
<1>5. TypeOK'
  <2>1. \A c \in DOMAIN pool' : c \in ConnStrs /\ pool'[c] \in DOMAIN instances'
    BY <1>1, <1>2, <1>4 DEF TypeOK
  <2>2. \A n \in DOMAIN txMap' : /\ DOMAIN txMap'[n] \subseteq TxIds
                                 /\ \A i \in DOMAIN txMap'[n] : txMap'[n][i] \in AllTx
    BY <1>4 DEF TypeOK
  <2>3. mine' \in [Procs -> {0} \cup DOMAIN instances']
    BY <1>1, <1>4 DEF TypeOK
  <2>. QED
    BY <1>1, <1>4, <2>1, <2>2, <2>3 DEF TypeOK, AllTx
<1>6. Typed'
  BY <1>1, <1>4 DEF TypeOK, Typed
<1>7. PoolFirst'
  BY <1>1, <1>4 DEF PoolFirst
<1>8. PanicCauses'
  BY <1>1 DEF TypeOK, PanicCauses
<1>9. /\ pc'[g] = "idle" /\ ~Beginning(g)' /\ ~Using(g)'
      /\ \A h \in Procs : h # g => pc'[h] = pc[h] /\ mine'[h] = mine[h]
  BY <1>1 DEF TypeOK, Beginning, Using
<1>10. InstanceBound'
  BY <1>1, <1>2, <1>9, BoundOpened
<1>11. Failed' /\ Unique' /\ Settling' /\ TxTracked' /\ OutcomeOnce'
  BY <1>1, <1>4, <1>9, Bystander
<1>. QED
  BY <1>5, <1>6, <1>7, <1>8, <1>10, <1>11

-----------------------------------------------------------------------------
(* The methods of an instance.                                             *)

LEMMA CallsKept ==
    ASSUME SqlInv, NEW g \in Procs, UNCHANGED <<pool, instances, crashed>>, ~crashed,
           pc'[g] # "open", failedIds \subseteq failedIds',
           ret'[g] = "panic" /\ pc'[g] \in {"idle", "write"}
              /\ op'[g] \in {"exec", "commit", "rollback"} =>
                 <<mine'[g], id'[g]>> \in failedIds',
           \A h \in Procs : h # g =>
              /\ pc'[h] = pc[h] /\ op'[h] = op[h] /\ mine'[h] = mine[h]
              /\ id'[h] = id[h] /\ ret'[h] = ret[h]
    PROVE  PoolFirst' /\ InstanceBound' /\ PanicCauses'
<1>. USE DEF SqlInv
<1>1. PoolFirst'
  BY DEF PoolFirst
<1>2. InstanceBound'
  <2>1. \A h \in Procs : pc'[h] = "open" => pc[h] = "open" /\ op'[h] = op[h]
    OBVIOUS
  <2>. QED
    BY <2>1, BoundKept
<1>3. PanicCauses'
  BY DEF PanicCauses
<1>. QED
  BY <1>1, <1>2, <1>3

LEMMA TxCallInv ==
    ASSUME SqlInv, NEW g \in Procs, TxCall(g), UNCHANGED crashed
    PROVE  SqlInv'
<1>. USE DEF SqlInv
<1>. PICK o \in {"exec", "commit", "rollback"}, i \in Ids : Call(g, o, i)
  BY DEF TxCall
<1>1. /\ pc[g] = "idle" /\ mine[g] # 0 /\ ~crashed
      /\ op' = [op EXCEPT ![g] = o] /\ id' = [id EXCEPT ![g] = i]
      /\ found' = [found EXCEPT ![g] = NoTx]
      /\ pc' = [pc EXCEPT ![g] = IF i = NonTransaction /\ o = "exec"
                                 THEN "autocommit" ELSE "lookup"]
      /\ repeated => repeated'
      /\ UNCHANGED <<pool, instances, unclosed, txMap, txs, mine, ret, settled,
                     outside, failedIds>>
  BY DEF Call, Event, Goto, dbVars
<1>2. /\ op'[g] = o /\ id'[g] = i /\ found'[g] = NoTx
      /\ pc'[g] \in {"autocommit", "lookup"}
      /\ pc'[g] = "autocommit" => i = NonTransaction
      /\ \A h \in Procs : h # g => /\ pc'[h] = pc[h] /\ op'[h] = op[h]
                                   /\ id'[h] = id[h] /\ found'[h] = found[h]
  BY <1>1 DEF TypeOK, Typed
<1>3. TypeOK'
  <2>1. /\ pc' \in [Procs -> {"idle", "open", "autocommit", "lookup", "database", "write"}]
        /\ id' \in [Procs -> Ids]
    BY <1>1 DEF TypeOK
  <2>2. found' \in [Procs -> AllTx]
    BY <1>1 DEF TypeOK, AllTx
  <2>. QED
    BY <1>1, <2>1, <2>2 DEF TypeOK, AllTx
<1>4. Typed'
  <2>1. op' \in [Procs -> Ops \cup ConnStrs]
    BY <1>1 DEF Typed, Ops
  <2>. QED
    BY <1>1, <1>2, <2>1 DEF Typed, Ending
<1>5. PoolFirst' /\ InstanceBound' /\ PanicCauses'
  BY <1>1, <1>2, CallsKept
<1>6. ~Beginning(g)' /\ ~Using(g)'
  BY <1>2 DEF Beginning, Using
<1>7. Failed' /\ Unique' /\ Settling' /\ TxTracked' /\ OutcomeOnce'
  BY <1>1, <1>2, <1>6, Bystander
<1>. QED
  BY <1>3, <1>4, <1>5, <1>7

LEMMA BeginTxInv ==
    ASSUME SqlInv, NEW g \in Procs, BeginTx(g), UNCHANGED crashed
    PROVE  SqlInv'
<1>. USE DEF SqlInv
<1>. PICK i \in TxIds : Call(g, "begin", i)
  BY DEF BeginTx
<1>1. /\ pc[g] = "idle" /\ mine[g] # 0 /\ ~crashed
      /\ op' = [op EXCEPT ![g] = "begin"] /\ id' = [id EXCEPT ![g] = i]
      /\ found' = [found EXCEPT ![g] = NoTx]
      /\ pc' = [pc EXCEPT ![g] = "lookup"]
      /\ UNCHANGED <<pool, instances, unclosed, txMap, txs, mine, ret, settled,
                     outside, failedIds>>
  BY DEF Call, Event, Goto, dbVars
<1>2. ~repeated' => /\ ~repeated /\ \A h \in Procs : id[h] # i
                    /\ \A n \in DOMAIN txMap : i \notin DOMAIN txMap[n]
  BY DEF Call
<1>3. /\ op'[g] = "begin" /\ id'[g] = i /\ found'[g] = NoTx /\ pc'[g] = "lookup"
      /\ \A h \in Procs : h # g => /\ pc'[h] = pc[h] /\ op'[h] = op[h]
                                   /\ id'[h] = id[h] /\ found'[h] = found[h]
  BY <1>1 DEF TypeOK, Typed
<1>4. TypeOK'
  <2>1. /\ pc' \in [Procs -> {"idle", "open", "autocommit", "lookup", "database", "write"}]
        /\ id' \in [Procs -> Ids]
    BY <1>1 DEF TypeOK, Ids
  <2>2. found' \in [Procs -> AllTx]
    BY <1>1 DEF TypeOK, AllTx
  <2>. QED
    BY <1>1, <2>1, <2>2 DEF TypeOK, AllTx
<1>5. Typed'
  <2>1. op' \in [Procs -> Ops \cup ConnStrs]
    BY <1>1 DEF Typed, Ops
  <2>. QED
    BY <1>1, <1>3, <2>1 DEF Typed
<1>6. PoolFirst' /\ InstanceBound' /\ PanicCauses'
  BY <1>1, <1>3, CallsKept
<1>7. \A h \in Procs : /\ Beginning(h)' <=> h = g \/ (h # g /\ Beginning(h))
                       /\ Using(h)' => h # g /\ Using(h)
  BY <1>3 DEF Beginning, Using
<1>8. Unique'
  <2>. SUFFICES ASSUME ~repeated' PROVE Unique'
    BY DEF Unique
  <2>1. ASSUME NEW h \in Procs, Beginning(h)'
        PROVE  /\ \A n \in DOMAIN txMap : id'[h] \notin DOMAIN txMap[n]
               /\ \A k \in Procs : id'[k] = id'[h] /\ (Beginning(k)' \/ Using(k)') => k = h
    BY <1>2, <1>3, <1>7, <2>1 DEF Unique
  <2>2. ASSUME NEW h \in Procs, Beginning(h)', pc'[h] = "write", found'[h] # NoTx
        PROVE  /\ \A n \in DOMAIN txMap : \A j \in DOMAIN txMap[n] : txMap[n][j] # found'[h]
               /\ \A k \in Procs : found'[k] = found'[h] => k = h
               /\ txs[found'[h]] = "open"
    BY <1>2, <1>3, <1>7, <2>2 DEF Unique
  <2>3. ASSUME NEW h \in Procs, Using(h)'
        PROVE  h # g /\ Using(h) /\ id'[h] = id[h] /\ found'[h] = found[h]
    BY <1>3, <1>7, <2>3
  <2>. QED
    BY <1>1, <1>2, <2>1, <2>2, <2>3 DEF Unique
<1>9. Failed' /\ Settling' /\ OutcomeOnce'
  BY <1>1, <1>3, <1>7 DEF Failed, Settling, OutcomeOnce, Using
<1>10. TxTracked'
  BY <1>1, <1>2, <1>3 DEF TxTracked, Storing, Deleting
<1>. QED
  BY <1>4, <1>5, <1>6, <1>8, <1>9, <1>10

LEMMA AutocommitInv ==
    ASSUME SqlInv, NEW g \in Procs, Autocommit(g), UNCHANGED crashed
    PROVE  SqlInv'
<1>. USE DEF SqlInv
<1>. PICK r \in {"nil", "error"} : Return(g, r)
  BY DEF Autocommit
<1>1. /\ pc[g] = "autocommit" /\ ~crashed /\ outside' = outside
      /\ pc' = [pc EXCEPT ![g] = "idle"] /\ ret' = [ret EXCEPT ![g] = r]
      /\ UNCHANGED <<pool, instances, unclosed, txMap, txs, op, mine, id, found,
                     settled, failedIds, repeated>>
  <2>1. pc[g] = "autocommit" /\ id[g] = NonTransaction /\ outside = 0
    BY DEF Autocommit, Typed, OutcomeOnce
  <2>2. outside' = outside
    BY <2>1 DEF Autocommit
  <2>. QED
    BY <2>1, <2>2 DEF Autocommit, NoEvent, Return, Goto, dbVars
<1>2. /\ pc'[g] = "idle" /\ ret'[g] # "panic"
      /\ \A h \in Procs : h # g => pc'[h] = pc[h] /\ ret'[h] = ret[h]
  BY <1>1 DEF TypeOK
<1>3. TypeOK' /\ Typed'
  BY <1>1 DEF TypeOK, Typed, AllTx
<1>4. PoolFirst' /\ InstanceBound' /\ PanicCauses'
  BY <1>1, <1>2, CallsKept
<1>5. ~Beginning(g)' /\ ~Using(g)'
  BY <1>2 DEF Beginning, Using
<1>6. Failed' /\ Unique' /\ Settling' /\ TxTracked' /\ OutcomeOnce'
  BY <1>1, <1>2, <1>5, Bystander
<1>. QED
  BY <1>3, <1>4, <1>6

LEMMA DbExecInv ==
    ASSUME SqlInv, NEW g \in Procs, DbExec(g), UNCHANGED crashed
    PROVE  SqlInv'
<1>. USE DEF SqlInv
<1>. PICK r \in {"nil", "error"} : Return(g, r)
  BY DEF DbExec
<1>1. /\ pc[g] = "database" /\ ~crashed
      /\ pc' = [pc EXCEPT ![g] = "idle"] /\ ret' = [ret EXCEPT ![g] = r]
      /\ UNCHANGED <<pool, instances, unclosed, txMap, txs, op, mine, id, found,
                     settled, outside, failedIds, repeated>>
  BY DEF DbExec, NoEvent, Return, Goto, dbVars, histVars
<1>2. /\ pc'[g] = "idle" /\ ret'[g] # "panic"
      /\ \A h \in Procs : h # g => pc'[h] = pc[h] /\ ret'[h] = ret[h]
  BY <1>1 DEF TypeOK
<1>3. TypeOK' /\ Typed'
  BY <1>1 DEF TypeOK, Typed, AllTx
<1>4. PoolFirst' /\ InstanceBound' /\ PanicCauses'
  BY <1>1, <1>2, CallsKept
<1>5. ~Beginning(g)' /\ ~Using(g)'
  BY <1>2 DEF Beginning, Using
<1>6. Failed' /\ Unique' /\ Settling' /\ TxTracked' /\ OutcomeOnce'
  BY <1>1, <1>2, <1>5, Bystander
<1>. QED
  BY <1>3, <1>4, <1>6

(* A call that is refused: BeginTx with an id in the map, another with one *)
(* that is not.                                                            *)

LEMMA LookupInv ==
    ASSUME SqlInv, NEW g \in Procs, Lookup(g), UNCHANGED crashed
    PROVE  SqlInv'
<1>. USE DEF SqlInv
<1>1. /\ pc[g] = "lookup" /\ ~crashed
      /\ UNCHANGED <<pool, instances, unclosed, txMap, txs, op, mine, id, settled,
                     outside, failedIds, repeated>>
  BY DEF Lookup, NoEvent, dbVars, histVars
<1>2. /\ op[g] \in {"begin", "exec"} \cup Ending /\ mine[g] \in DOMAIN txMap
      /\ op[g] = "begin" => id[g] \in TxIds /\ found[g] = NoTx
  BY <1>1 DEF Typed, TypeOK
<1>3. CASE /\ pc' = [pc EXCEPT ![g] = "idle"]
           /\ ret' = [ret EXCEPT ![g] = "error"] /\ UNCHANGED found
  <2>1. /\ pc'[g] = "idle" /\ ret'[g] # "panic"
        /\ \A h \in Procs : h # g => pc'[h] = pc[h] /\ ret'[h] = ret[h]
    BY <1>3 DEF TypeOK
  <2>2. TypeOK' /\ Typed'
    BY <1>1, <1>3 DEF TypeOK, Typed, AllTx
  <2>3. PoolFirst' /\ InstanceBound' /\ PanicCauses'
    BY <1>1, <2>1, CallsKept
  <2>4. ~Beginning(g)' /\ ~Using(g)'
    BY <2>1 DEF Beginning, Using
  <2>5. Failed' /\ Unique' /\ Settling' /\ TxTracked' /\ OutcomeOnce'
    BY <1>1, <1>3, <2>1, <2>4, Bystander
  <2>. QED
    BY <2>2, <2>3, <2>5
<1>4. CASE /\ op[g] = "begin" /\ UNCHANGED <<found, ret>>
           /\ pc' = [pc EXCEPT ![g] = "database"]
  <2>1. /\ pc'[g] = "database"
        /\ \A h \in Procs : h # g => pc'[h] = pc[h]
    BY <1>4 DEF TypeOK
  <2>2. TypeOK' /\ Typed'
    BY <1>1, <1>2, <1>4, <2>1 DEF TypeOK, Typed, AllTx
  <2>3. PoolFirst' /\ InstanceBound' /\ PanicCauses'
    BY <1>1, <1>4, <2>1, CallsKept
  <2>4. \A h \in Procs : /\ Beginning(h)' <=> Beginning(h)
                         /\ Using(h)' <=> Using(h)
                         /\ pc'[h] = "write" <=> pc[h] = "write"
    BY <1>1, <1>4, <2>1 DEF Beginning, Using
  <2>5. Unique' /\ Settling'
    BY <1>1, <1>4, <2>4 DEF Unique, Settling
  <2>6. Failed' /\ TxTracked' /\ OutcomeOnce'
    BY <1>1, <1>4, <2>1 DEF Failed, TxTracked, OutcomeOnce, Storing, Deleting
  <2>. QED
    BY <2>2, <2>3, <2>5, <2>6
<1>5. CASE /\ op[g] # "begin" /\ id[g] \in DOMAIN txMap[mine[g]]
           /\ found' = [found EXCEPT ![g] = txMap[mine[g]][id[g]]]
           /\ pc' = [pc EXCEPT ![g] = "database"] /\ UNCHANGED ret
  <2>1. /\ pc'[g] = "database" /\ found'[g] = txMap[mine[g]][id[g]]
        /\ \A h \in Procs : h # g => pc'[h] = pc[h] /\ found'[h] = found[h]
    BY <1>5 DEF TypeOK
  <2>2. TypeOK'
    <3>1. txMap[mine[g]][id[g]] \in AllTx
      BY <1>2, <1>5 DEF TypeOK
    <3>2. found' \in [Procs -> AllTx]
      BY <1>5, <3>1 DEF TypeOK
    <3>3. pc' \in [Procs -> {"idle", "open", "autocommit", "lookup", "database", "write"}]
      BY <1>5 DEF TypeOK
    <3>. QED
      BY <1>1, <1>5, <3>2, <3>3 DEF TypeOK, AllTx
  <2>3. Typed'
    BY <1>1, <1>2, <1>5, <2>1 DEF Typed
  <2>4. PoolFirst' /\ InstanceBound' /\ PanicCauses'
    BY <1>1, <1>5, <2>1, CallsKept
  <2>5. \A h \in Procs : /\ Beginning(h)' <=> Beginning(h)
                         /\ Using(h)' <=> h = g \/ Using(h)
                         /\ pc'[h] = "write" <=> pc[h] = "write"
    BY <1>1, <1>2, <1>5, <2>1 DEF Beginning, Using
  <2>6. ~Beginning(g) /\ ~Using(g)
    BY <1>1, <1>5 DEF Beginning, Using
  <2>7. Unique'
    <3>. SUFFICES ASSUME ~repeated PROVE Unique'
      BY <1>1 DEF Unique
    <3>1. ASSUME NEW h \in Procs, Beginning(h)'
          PROVE  /\ \A n \in DOMAIN txMap : id[h] \notin DOMAIN txMap[n]
                 /\ \A k \in Procs : id[k] = id[h] /\ (Beginning(k)' \/ Using(k)') => k = h
      BY <1>2, <1>5, <2>5, <3>1 DEF Unique
    <3>2. ASSUME NEW h \in Procs, Beginning(h)', pc'[h] = "write", found'[h] # NoTx
          PROVE  /\ \A n \in DOMAIN txMap : \A j \in DOMAIN txMap[n] :
                       txMap[n][j] # found'[h]
                 /\ \A k \in Procs : found'[k] = found'[h] => k = h
                 /\ txs[found'[h]] = "open"
      BY <1>2, <1>5, <2>1, <2>5, <2>6, <3>2 DEF Unique
    <3>3. ASSUME NEW h \in Procs, Using(h)'
          PROVE  /\ id[h] \in DOMAIN txMap[mine[h]] =>
                       txMap[mine[h]][id[h]] = found'[h]
                 /\ found'[h] # NoTx =>
                      \A n \in DOMAIN txMap : \A i \in DOMAIN txMap[n] :
                         txMap[n][i] = found'[h] => n = mine[h] /\ i = id[h]
      <4>1. CASE h = g
        BY <1>2, <1>5, <2>1, <4>1 DEF Unique
      <4>2. CASE h # g
        BY <2>1, <2>5, <3>3, <4>2 DEF Unique
      <4>. QED
        BY <4>1, <4>2
    <3>. QED
      BY <1>1, <3>1, <3>2, <3>3 DEF Unique
  <2>8. Failed'
    BY <1>1, <1>2, <1>5, <2>1 DEF Failed
  <2>9. Settling'
    BY <1>1, <2>1, <2>5 DEF Settling
  <2>10. TxTracked' /\ OutcomeOnce'
    BY <1>1, <2>1 DEF TxTracked, OutcomeOnce, Storing, Deleting
  <2>. QED
    BY <2>2, <2>3, <2>4, <2>7, <2>8, <2>9, <2>10
<1>. QED
  BY <1>3, <1>4, <1>5 DEF Lookup, IfUnknown, MapOf, Goto

LEMMA DbBeginInv ==
    ASSUME SqlInv, NEW g \in Procs, DbBegin(g), UNCHANGED crashed
    PROVE  SqlInv'
<1>. USE DEF SqlInv
<1>1. /\ pc[g] = "database" /\ op[g] = "begin" /\ ~crashed
      /\ pc' = [pc EXCEPT ![g] = "write"]
      /\ UNCHANGED <<pool, instances, unclosed, txMap, op, mine, id, ret, outside,
                     repeated>>
  BY DEF DbBegin, NoEvent, Goto
<1>2. /\ pc'[g] = "write" /\ \A h \in Procs : h # g => pc'[h] = pc[h]
      /\ found[g] = NoTx /\ id[g] \in TxIds /\ mine[g] \in Nat
  BY <1>1 DEF TypeOK, Typed
<1>3. \A h \in Procs : /\ Beginning(h)' <=> Beginning(h)
                       /\ Using(h)' <=> Using(h)
                       /\ pc'[h] = "write" <=> h = g \/ pc[h] = "write"
  BY <1>1, <1>2 DEF Beginning, Using
<1>4. ~Using(g) /\ Beginning(g)
  BY <1>1 DEF Using, Beginning
<1>5. CASE /\ txs' = Append(txs, "open") /\ settled' = Append(settled, 0)
           /\ found' = [found EXCEPT ![g] = Len(txs')] /\ UNCHANGED failedIds
  <2>1. /\ txs' \in Seq({"open", "committed", "rolledback"})
        /\ settled' \in Seq(Nat) /\ Len(settled') = Len(txs')
        /\ Len(txs') = Len(txs) + 1 /\ Len(txs) \in Nat /\ Len(settled) = Len(txs)
        /\ DOMAIN txs = 1 .. Len(txs) /\ DOMAIN txs' = 1 .. Len(txs')
        /\ DOMAIN settled' = DOMAIN txs'
        /\ \A t \in DOMAIN txs : txs'[t] = txs[t] /\ settled'[t] = settled[t]
        /\ txs'[Len(txs')] = "open" /\ settled'[Len(txs')] = 0
    BY <1>5 DEF TypeOK, Typed
  <2>2. /\ Len(txs') \notin AllTx /\ Len(txs') # NoTx /\ AllTx \subseteq AllTx'
        /\ Len(txs') \in AllTx'
    BY <2>1, MySqlAssumption DEF AllTx
  <2>3. found'[g] = Len(txs') /\ \A h \in Procs : h # g => found'[h] = found[h]
    BY <1>5 DEF TypeOK
  <2>4. TypeOK'
    <3>1. found' \in [Procs -> AllTx']
      BY <1>5, <2>2 DEF TypeOK
    <3>2. pc' \in [Procs -> {"idle", "open", "autocommit", "lookup", "database", "write"}]
      BY <1>1 DEF TypeOK
    <3>3. \A n \in DOMAIN txMap : \A i \in DOMAIN txMap[n] : txMap[n][i] \in AllTx'
      BY <2>2 DEF TypeOK
    <3>. QED
      BY <1>1, <2>1, <3>1, <3>2, <3>3 DEF TypeOK
  <2>5. Typed'
    BY <1>1, <1>2, <1>5, <2>1, <2>3 DEF Typed
  <2>6. PoolFirst' /\ InstanceBound' /\ PanicCauses'
    BY <1>1, <1>2, <1>5, CallsKept
  <2>7. \A n \in DOMAIN txMap : \A i \in DOMAIN txMap[n] : txMap[n][i] # Len(txs')
    BY <2>2 DEF TypeOK
  <2>8. \A h \in Procs : found[h] # Len(txs')
    BY <2>2 DEF TypeOK
  <2>9. Unique'
    <3>. SUFFICES ASSUME ~repeated PROVE Unique'
      BY <1>1 DEF Unique
    <3>1. ASSUME NEW h \in Procs, Beginning(h)', pc'[h] = "write", found'[h] # NoTx
          PROVE  /\ \A n \in DOMAIN txMap : \A j \in DOMAIN txMap[n] :
                       txMap[n][j] # found'[h]
                 /\ \A k \in Procs : found'[k] = found'[h] => k = h
                 /\ txs'[found'[h]] = "open"
      <4>1. CASE h = g
        BY <2>1, <2>3, <2>7, <2>8, <4>1
      <4>2. CASE h # g
        <5>1. /\ found[h] \in DOMAIN txs /\ txs[found[h]] = "open"
              /\ \A n \in DOMAIN txMap : \A j \in DOMAIN txMap[n] : txMap[n][j] # found[h]
              /\ \A k \in Procs : found[k] = found[h] => k = h
          BY <1>3, <2>3, <3>1, <4>2 DEF Unique, TypeOK, AllTx
        <5>. QED
          BY <2>1, <2>3, <2>8, <4>2, <5>1
      <4>. QED
        BY <4>1, <4>2
    <3>2. ASSUME NEW h \in Procs, Using(h)'
          PROVE  Using(h) /\ found'[h] = found[h]
      BY <1>3, <1>4, <2>3, <3>2
    <3>. QED
      BY <1>1, <1>3, <3>1, <3>2 DEF Unique
  <2>10. Failed'
    BY <1>1, <1>2, <1>5, <2>2, <2>3 DEF Failed
  <2>11. Settling'
    <3>. SUFFICES ASSUME NEW h \in Procs, Using(h)', pc'[h] = "write", found'[h] # NoTx
                  PROVE  txs'[found'[h]] # "open"
      BY DEF Settling
    <3>1. /\ Using(h) /\ pc[h] = "write" /\ h # g /\ found'[h] = found[h]
          /\ found[h] \in DOMAIN txs
      BY <1>3, <1>4, <2>3 DEF TypeOK, AllTx
    <3>. QED
      BY <2>1, <3>1 DEF Settling
  <2>12. TxTracked'
    <3>. SUFFICES ASSUME ~repeated PROVE TxTracked'
      BY <1>1 DEF TxTracked
    <3>1. ASSUME NEW t \in DOMAIN txs', txs'[t] = "open"
          PROVE  \/ \E n \in DOMAIN txMap', i \in TxIds :
                       i \in DOMAIN txMap'[n] /\ txMap'[n][i] = t
                 \/ Storing(t)'
      <4>1. CASE t = Len(txs')
        BY <1>1, <1>2, <2>3, <4>1 DEF Storing
      <4>2. CASE t # Len(txs')
        <5>1. t \in DOMAIN txs /\ txs[t] = "open"
          BY <2>1, <3>1, <4>2
        <5>2. Storing(t) => Storing(t)'
          BY <1>1, <1>2, <2>3 DEF Storing
        <5>. QED
          BY <1>1, <5>1, <5>2 DEF TxTracked
      <4>. QED
        BY <4>1, <4>2
    <3>2. ASSUME NEW n \in DOMAIN txMap', NEW i \in DOMAIN txMap'[n]
          PROVE  \/ txMap'[n][i] # NoTx /\ txs'[txMap'[n][i]] = "open"
                 \/ Deleting(n, i)'
                 \/ <<n, i>> \in failedIds'
      <4>1. Deleting(n, i) => Deleting(n, i)'
        BY <1>1, <1>2 DEF Deleting
      <4>2. txMap[n][i] # NoTx => txs'[txMap[n][i]] = txs[txMap[n][i]]
        BY <1>1, <2>1, <3>2 DEF TypeOK, AllTx
      <4>. QED
        BY <1>1, <1>5, <3>2, <4>1, <4>2 DEF TxTracked
    <3>. QED
      BY <3>1, <3>2 DEF TxTracked
  <2>13. OutcomeOnce'
    <3>. SUFFICES ASSUME NEW t \in DOMAIN txs'
                  PROVE  settled'[t] <= (IF txs'[t] = "open" THEN 0 ELSE 1)
      BY <1>1 DEF OutcomeOnce
    <3>1. t = Len(txs') \/ t \in DOMAIN txs
      BY <2>1
    <3>. QED
      BY <2>1, <3>1 DEF OutcomeOnce
  <2>. QED
    BY <2>4, <2>5, <2>6, <2>9, <2>10, <2>11, <2>12, <2>13
<1>6. CASE /\ failedIds' = failedIds \cup {<<mine[g], id[g]>>}
           /\ UNCHANGED <<txs, settled, found>>
  <2>1. TypeOK'
    BY <1>1, <1>6 DEF TypeOK, AllTx
  <2>2. Typed'
    <3>1. failedIds' \subseteq Nat \X TxIds
      BY <1>2, <1>6 DEF Typed
    <3>. QED
      BY <1>1, <1>2, <1>6, <3>1 DEF Typed
  <2>3. PoolFirst' /\ InstanceBound' /\ PanicCauses'
    BY <1>1, <1>2, <1>6, CallsKept
  <2>4. Unique' /\ Settling'
    BY <1>1, <1>2, <1>3, <1>4, <1>6 DEF Unique, Settling
  <2>5. Failed'
    BY <1>1, <1>2, <1>6 DEF Failed
  <2>6. TxTracked' /\ OutcomeOnce'
    BY <1>1, <1>2, <1>6 DEF TxTracked, OutcomeOnce, Storing, Deleting
  <2>. QED
    BY <2>1, <2>2, <2>3, <2>4, <2>5, <2>6
<1>. QED
  BY <1>5, <1>6 DEF DbBegin

(* An entry is written: the map it is in, and what the others hold.        *)

LEMMA StoreTxInv ==
    ASSUME SqlInv, NEW g \in Procs, StoreTx(g), UNCHANGED crashed
    PROVE  SqlInv'
<1>. USE DEF SqlInv
<1>1. /\ pc[g] = "write" /\ op[g] = "begin" /\ ~crashed
      /\ pc' = [pc EXCEPT ![g] = "idle"]
      /\ ret' = [ret EXCEPT ![g] = IF found[g] = NoTx THEN "error" ELSE "nil"]
      /\ UNCHANGED <<pool, instances, unclosed, txs, op, mine, id, found, settled,
                     outside, failedIds, repeated>>
  BY DEF StoreTx, NoEvent, Return, Goto, MapOf, histVars
<1>2. /\ pc'[g] = "idle" /\ ret'[g] # "panic"
      /\ \A h \in Procs : h # g => pc'[h] = pc[h] /\ ret'[h] = ret[h]
      /\ mine[g] \in DOMAIN txMap /\ id[g] \in TxIds
  BY <1>1 DEF TypeOK, Typed
<1>3. /\ DOMAIN txMap' = DOMAIN txMap
      /\ \A n \in DOMAIN txMap : n # mine[g] => txMap'[n] = txMap[n]
      /\ DOMAIN txMap'[mine[g]] = DOMAIN txMap[mine[g]] \cup {id[g]}
      /\ txMap'[mine[g]][id[g]] = found[g]
      /\ \A i \in DOMAIN txMap[mine[g]] :
            i # id[g] => txMap'[mine[g]][i] = txMap[mine[g]][i]
  <2>1. txMap' = [txMap EXCEPT ![mine[g]] =
                     [i \in DOMAIN txMap[mine[g]] \cup {id[g]} |->
                         IF i = id[g] THEN found[g] ELSE txMap[mine[g]][i]]]
    BY DEF StoreTx, MapOf
  <2>2. mine[g] \in DOMAIN txMap /\ txMap \in Seq(TxMaps)
    BY <1>2 DEF Typed
  <2>. QED
    BY <2>1, <2>2
<1>4. TypeOK'
  <2>1. /\ pc' \in [Procs -> {"idle", "open", "autocommit", "lookup", "database", "write"}]
        /\ ret' \in [Procs -> {"nil", "error", "panic"}]
    BY <1>1 DEF TypeOK
  <2>2. \A n \in DOMAIN txMap' : DOMAIN txMap'[n] \subseteq TxIds
    BY <1>2, <1>3 DEF TypeOK
  <2>3. ASSUME NEW n \in DOMAIN txMap', NEW i \in DOMAIN txMap'[n]
        PROVE  txMap'[n][i] \in AllTx
    <3>1. found[g] \in AllTx
      BY DEF TypeOK
    <3>. QED
      BY <1>2, <1>3, <2>3, <3>1 DEF TypeOK
  <2>. QED
    BY <1>1, <1>3, <2>1, <2>2, <2>3 DEF TypeOK, AllTx
<1>5. Typed'
  <2>1. txMap' \in Seq(TxMaps) /\ Len(txMap') = Len(txMap)
    <3>1. txMap[mine[g]] \in [DOMAIN txMap[mine[g]] -> AllTx]
          /\ DOMAIN txMap[mine[g]] \in SUBSET TxIds
      <4>1. txMap[mine[g]] \in TxMaps
        BY <1>2 DEF Typed
      <4>2. txMap[mine[g]] = [i \in DOMAIN txMap[mine[g]] |-> txMap[mine[g]][i]]
        BY <4>1 DEF TxMaps
      <4>. QED
        BY <1>2, <4>2 DEF TypeOK
    <3>2. DEFINE new == [i \in DOMAIN txMap[mine[g]] \cup {id[g]} |->
                            IF i = id[g] THEN found[g] ELSE txMap[mine[g]][i]]
    <3>. found[g] \in AllTx /\ AllTx \subseteq Nat \cup {NoTx}
      BY DEF TypeOK, AllTx
    <3>3. new \in [DOMAIN txMap[mine[g]] \cup {id[g]} -> Nat \cup {NoTx}]
      BY <1>2, <3>1
    <3>4. new \in TxMaps
      <4>1. DOMAIN txMap[mine[g]] \cup {id[g]} \in SUBSET TxIds
        BY <1>2, <3>1
      <4>. HIDE DEF new
      <4>. QED
        BY <3>3, <4>1, Zenon DEF TxMaps
    <3>5. txMap' = [txMap EXCEPT ![mine[g]] = new]
      BY DEF StoreTx, MapOf
    <3>. HIDE DEF new
    <3>. QED
      BY <1>2, <3>4, <3>5 DEF Typed
  <2>. QED
    BY <1>1, <1>2, <2>1 DEF Typed
<1>6. PoolFirst' /\ InstanceBound' /\ PanicCauses'
  BY <1>1, <1>2, CallsKept
<1>7. /\ Beginning(g) /\ ~Beginning(g)' /\ ~Using(g)'
      /\ \A h \in Procs : h # g => /\ Beginning(h)' <=> Beginning(h)
                                   /\ Using(h)' <=> Using(h)
  BY <1>1, <1>2 DEF Beginning, Using
<1>8. Failed'
  <2>1. ASSUME NEW n \in DOMAIN txMap', NEW i \in DOMAIN txMap'[n], txMap'[n][i] = NoTx
        PROVE  <<n, i>> \in failedIds
    BY <1>1, <1>3, <2>1 DEF Failed
  <2>. QED
    BY <1>1, <1>2, <2>1 DEF Failed
<1>9. Settling' /\ OutcomeOnce'
  BY <1>1, <1>2, <1>7 DEF Settling, OutcomeOnce
<1>10. ~repeated => \A n \in DOMAIN txMap : id[g] \notin DOMAIN txMap[n]
  BY <1>7 DEF Unique
<1>11. Unique'
  <2>. SUFFICES ASSUME ~repeated PROVE Unique'
    BY <1>1 DEF Unique
  <2>1. ASSUME NEW h \in Procs, Beginning(h)'
        PROVE  /\ \A n \in DOMAIN txMap' : id[h] \notin DOMAIN txMap'[n]
               /\ \A k \in Procs : id[k] = id[h] /\ (Beginning(k)' \/ Using(k)') => k = h
    <3>1. h # g /\ Beginning(h) /\ id[h] # id[g]
      BY <1>7, <2>1 DEF Unique
    <3>. QED
      BY <1>3, <1>7, <3>1 DEF Unique
  <2>2. ASSUME NEW h \in Procs, Beginning(h)', pc'[h] = "write", found[h] # NoTx
        PROVE  /\ \A n \in DOMAIN txMap' : \A j \in DOMAIN txMap'[n] :
                     txMap'[n][j] # found[h]
               /\ \A k \in Procs : found[k] = found[h] => k = h
               /\ txs[found[h]] = "open"
    <3>1. h # g /\ Beginning(h) /\ pc[h] = "write"
      BY <1>2, <1>7, <2>2
    <3>2. /\ \A n \in DOMAIN txMap : \A j \in DOMAIN txMap[n] : txMap[n][j] # found[h]
          /\ \A k \in Procs : found[k] = found[h] => k = h
          /\ txs[found[h]] = "open"
      BY <2>2, <3>1 DEF Unique
    <3>3. found[g] # found[h]
      BY <3>1, <3>2
    <3>. QED
      BY <1>3, <3>2, <3>3
  <2>3. ASSUME NEW h \in Procs, Using(h)'
        PROVE  /\ id[h] \in DOMAIN txMap'[mine[h]] =>
                     txMap'[mine[h]][id[h]] = found[h]
               /\ found[h] # NoTx =>
                    \A n \in DOMAIN txMap' : \A i \in DOMAIN txMap'[n] :
                       txMap'[n][i] = found[h] => n = mine[h] /\ i = id[h]
    <3>1. h # g /\ Using(h) /\ id[h] # id[g] /\ mine[h] \in DOMAIN txMap
      BY <1>7, <2>3 DEF Unique, Using, TypeOK, Typed
    <3>2. found[g] # NoTx => found[h] # found[g]
      BY <1>1, <1>7, <3>1 DEF Unique
    <3>3. id[h] \in DOMAIN txMap'[mine[h]] => txMap'[mine[h]][id[h]] = found[h]
      BY <1>3, <3>1 DEF Unique
    <3>4. ASSUME found[h] # NoTx, NEW n \in DOMAIN txMap', NEW i \in DOMAIN txMap'[n],
                 txMap'[n][i] = found[h]
          PROVE  n = mine[h] /\ i = id[h]
      BY <1>3, <3>1, <3>2, <3>4 DEF Unique
    <3>. QED
      BY <3>3, <3>4
  <2>4. ASSUME NEW m \in DOMAIN txMap', NEW n \in DOMAIN txMap',
               NEW i \in DOMAIN txMap'[m], NEW j \in DOMAIN txMap'[n],
               txMap'[m][i] = txMap'[n][j], txMap'[m][i] # NoTx
        PROVE  m = n /\ i = j
    <3>1. found[g] # NoTx => \A k \in DOMAIN txMap : \A l \in DOMAIN txMap[k] :
                               txMap[k][l] # found[g]
      BY <1>1, <1>7 DEF Unique
    <3>2. CASE m = mine[g] /\ i = id[g]
      BY <1>3, <2>4, <3>1, <3>2
    <3>3. CASE n = mine[g] /\ j = id[g]
      BY <1>3, <2>4, <3>1, <3>3
    <3>4. CASE ~(m = mine[g] /\ i = id[g]) /\ ~(n = mine[g] /\ j = id[g])
      <4>1. /\ i \in DOMAIN txMap[m] /\ txMap'[m][i] = txMap[m][i]
            /\ j \in DOMAIN txMap[n] /\ txMap'[n][j] = txMap[n][j]
        BY <1>3, <2>4, <3>4
      <4>2. txMap[m][i] = txMap[n][j] /\ txMap[m][i] # NoTx
        BY <2>4, <4>1
      <4>3. m \in DOMAIN txMap /\ n \in DOMAIN txMap
        BY <1>3
      <4>4. \A k, l \in DOMAIN txMap : \A a \in DOMAIN txMap[k], b \in DOMAIN txMap[l] :
               txMap[k][a] = txMap[l][b] /\ txMap[k][a] # NoTx => k = l /\ a = b
        BY DEF Unique
      <4>. QED
        BY <4>1, <4>2, <4>3, <4>4
    <3>. QED
      BY <3>2, <3>3, <3>4
  <2>. QED
    BY <1>1, <2>1, <2>2, <2>3, <2>4 DEF Unique
<1>12. TxTracked'
  <2>. SUFFICES ASSUME ~repeated PROVE TxTracked'
    BY <1>1 DEF TxTracked
  <2>1. ASSUME NEW t \in DOMAIN txs, txs[t] = "open"
        PROVE  \/ \E n \in DOMAIN txMap', i \in TxIds :
                     i \in DOMAIN txMap'[n] /\ txMap'[n][i] = t
               \/ Storing(t)'
    <3>1. CASE found[g] = t
      BY <1>2, <1>3, <3>1
    <3>2. CASE found[g] # t /\ Storing(t)
      BY <1>1, <1>2, <3>2 DEF Storing
    <3>3. CASE ~Storing(t)
      <4>1. PICK n \in DOMAIN txMap, i \in TxIds : i \in DOMAIN txMap[n] /\ txMap[n][i] = t
        BY <2>1, <3>3 DEF TxTracked
      <4>2. n \in DOMAIN txMap' /\ i \in DOMAIN txMap'[n] /\ txMap'[n][i] = t
        BY <1>3, <1>10, <4>1
      <4>. QED
        BY <4>2
    <3>. QED
      BY <3>1, <3>2, <3>3
  <2>2. ASSUME NEW n \in DOMAIN txMap', NEW i \in DOMAIN txMap'[n]
        PROVE  \/ txMap'[n][i] # NoTx /\ txs[txMap'[n][i]] = "open"
               \/ Deleting(n, i)'
               \/ <<n, i>> \in failedIds
    <3>1. Deleting(n, i) => Deleting(n, i)'
      BY <1>1, <1>2 DEF Deleting
    <3>2. CASE n = mine[g] /\ i = id[g]
      <4>1. CASE found[g] = NoTx
        BY <1>1, <3>2, <4>1 DEF Failed
      <4>2. CASE found[g] # NoTx
        BY <1>1, <1>3, <1>7, <3>2, <4>2 DEF Unique
      <4>. QED
        BY <4>1, <4>2
    <3>3. CASE ~(n = mine[g] /\ i = id[g])
      BY <1>3, <3>1, <3>3 DEF TxTracked
    <3>. QED
      BY <3>2, <3>3
  <2>. QED
    BY <1>1, <2>1, <2>2 DEF TxTracked
<1>. QED
  BY <1>4, <1>5, <1>6, <1>8, <1>9, <1>11, <1>12

LEMMA NilTxInv ==
    ASSUME SqlInv, NEW g \in Procs, NilTx(g), UNCHANGED crashed
    PROVE  SqlInv'
<1>. USE DEF SqlInv
<1>1. /\ pc[g] = "database" /\ op[g] # "begin" /\ found[g] = NoTx /\ ~crashed
      /\ ret' = [ret EXCEPT ![g] = "panic"]
      /\ pc' = [pc EXCEPT ![g] = IF op[g] = "commit" THEN "write" ELSE "idle"]
      /\ UNCHANGED <<pool, instances, unclosed, txMap, txs, op, mine, id, found,
                     settled, outside, failedIds, repeated>>
  BY DEF NilTx, NoEvent, Goto, dbVars, histVars
<1>2. /\ pc'[g] \in {"write", "idle"} /\ (pc'[g] = "write" => op[g] = "commit")
      /\ \A h \in Procs : h # g => pc'[h] = pc[h] /\ ret'[h] = ret[h]
  BY <1>1 DEF TypeOK
<1>3. <<mine[g], id[g]>> \in failedIds
  BY <1>1 DEF Failed
<1>4. TypeOK'
  <2>1. /\ pc' \in [Procs -> {"idle", "open", "autocommit", "lookup", "database", "write"}]
        /\ ret' \in [Procs -> {"nil", "error", "panic"}]
    BY <1>1 DEF TypeOK
  <2>. QED
    BY <1>1, <2>1 DEF TypeOK, AllTx
<1>5. Typed'
  BY <1>1, <1>2 DEF Typed, Ending
<1>6. PoolFirst' /\ InstanceBound' /\ PanicCauses'
  BY <1>1, <1>2, <1>3, CallsKept
<1>7. \A h \in Procs : /\ Beginning(h)' <=> Beginning(h)
                       /\ Using(h)' => Using(h)
  BY <1>1, <1>2 DEF Beginning, Using
<1>8. Failed'
  BY <1>1, <1>2, <1>3 DEF Failed
<1>9. \A h \in Procs : Beginning(h)' /\ pc'[h] = "write" => pc[h] = "write"
  BY <1>1, <1>2 DEF Beginning
<1>10. Unique'
  BY <1>1, <1>7, <1>9 DEF Unique
<1>11. Settling' /\ OutcomeOnce'
  BY <1>1, <1>2, <1>7 DEF Settling, OutcomeOnce
<1>12. TxTracked'
  BY <1>1, <1>2 DEF TxTracked, Storing, Deleting
<1>. QED
  BY <1>4, <1>5, <1>6, <1>8, <1>10, <1>11, <1>12

LEMMA SeqExcept ==
    ASSUME NEW S, NEW s \in Seq(S), NEW i \in DOMAIN s, NEW v \in S
    PROVE  /\ [s EXCEPT ![i] = v] \in Seq(S) /\ Len([s EXCEPT ![i] = v]) = Len(s)
           /\ DOMAIN [s EXCEPT ![i] = v] = DOMAIN s
           /\ [s EXCEPT ![i] = v][i] = v
           /\ \A j \in DOMAIN s : j # i => [s EXCEPT ![i] = v][j] = s[j]
  OBVIOUS

(* The end of a transaction: in the database, and then in the map.         *)

LEMMA DbSettleInv ==
    ASSUME SqlInv, NEW g \in Procs, DbSettle(g), UNCHANGED crashed
    PROVE  SqlInv'
<1>. USE DEF SqlInv
<1>1. /\ pc[g] = "database" /\ found[g] # NoTx /\ op[g] \in Ending /\ ~crashed
      /\ pc' = [pc EXCEPT ![g] = "write"]
      /\ UNCHANGED <<pool, instances, unclosed, txMap, op, mine, id, found, outside,
                     failedIds, repeated>>
  BY DEF DbSettle, NoEvent, Goto, Ending
<1>2. /\ pc'[g] = "write" /\ \A h \in Procs : h # g => pc'[h] = pc[h]
      /\ found[g] \in DOMAIN txs /\ mine[g] \in DOMAIN txMap
  BY <1>1 DEF TypeOK, Typed, AllTx
<1>. PICK ok \in BOOLEAN, outcome \in {"committed", "rolledback"} :
        /\ ok => txs[found[g]] = "open"
        /\ txs' = IF txs[found[g]] = "open" THEN [txs EXCEPT ![found[g]] = outcome]
                  ELSE txs
        /\ ret' = [ret EXCEPT ![g] = IF ok THEN "nil" ELSE "error"]
        /\ settled' = IF ok THEN [settled EXCEPT ![found[g]] = @ + 1] ELSE settled
  <2>. PICK ok \in BOOLEAN, outcome \in {"committed", "rolledback"} :
          /\ ok => Live(g)
          /\ txs' = IF Live(g) THEN [txs EXCEPT ![found[g]] = outcome] ELSE txs
          /\ ret' = [ret EXCEPT ![g] = ResultOf(ok)]
          /\ settled' = IF ResultOf(ok) = "nil"
                        THEN [settled EXCEPT ![found[g]] = @ + 1] ELSE settled
    BY Zenon DEF DbSettle
  <2>1. Live(g) <=> txs[found[g]] = "open"
    BY <1>1 DEF Live
  <2>2. ResultOf(ok) = (IF ok THEN "nil" ELSE "error") /\ (ResultOf(ok) = "nil" <=> ok)
    BY DEF ResultOf
  <2>. QED
    BY <2>1, <2>2
<1>3. /\ txs' \in Seq({"open", "committed", "rolledback"}) /\ Len(txs') = Len(txs)
      /\ DOMAIN txs' = DOMAIN txs
      /\ txs'[found[g]] # "open"
      /\ \A t \in DOMAIN txs : t # found[g] => txs'[t] = txs[t]
  <2>1. CASE txs[found[g]] = "open"
    <3>. DEFINE S == {"open", "committed", "rolledback"}
    <3>1. txs' = [txs EXCEPT ![found[g]] = outcome]
      BY <2>1
    <3>2. outcome \in S /\ outcome # "open"
      OBVIOUS
    <3>3. txs \in Seq(S)
      BY DEF TypeOK
    <3>4. txs' \in Seq(S)
      <4>. HIDE DEF S
      <4>. QED
        BY <1>2, <3>1, <3>2, <3>3, SeqExcept
    <3>5. /\ Len(txs') = Len(txs) /\ DOMAIN txs' = DOMAIN txs
          /\ txs'[found[g]] = outcome
          /\ \A t \in DOMAIN txs : t # found[g] => txs'[t] = txs[t]
      <4>. HIDE DEF S
      <4>. QED
        BY <1>2, <3>1, <3>2, <3>3, SeqExcept
    <3>. QED
      BY <3>2, <3>4, <3>5
  <2>2. CASE txs[found[g]] # "open"
    <3>1. txs' = txs
      BY <2>2
    <3>. QED
      BY <2>2, <3>1 DEF TypeOK
  <2>. QED
    BY <2>1, <2>2
<1>4. /\ settled' \in Seq(Nat) /\ Len(settled') = Len(settled)
      /\ DOMAIN settled' = DOMAIN settled
      /\ \A t \in DOMAIN txs : t # found[g] => settled'[t] = settled[t]
      /\ ok => settled'[found[g]] = settled[found[g]] + 1
      /\ ~ok => settled'[found[g]] = settled[found[g]]
  BY <1>2 DEF TypeOK, Typed
<1>5. /\ ret'[g] # "panic" /\ \A h \in Procs : h # g => ret'[h] = ret[h]
      /\ ret' \in [Procs -> {"nil", "error", "panic"}]
  BY DEF TypeOK
<1>6. TypeOK'
  <2>1. pc' \in [Procs -> {"idle", "open", "autocommit", "lookup", "database", "write"}]
    BY <1>1 DEF TypeOK
  <2>. QED
    BY <1>1, <1>3, <1>4, <1>5, <2>1 DEF TypeOK, AllTx
<1>7. Typed'
  BY <1>1, <1>2, <1>3, <1>4 DEF Typed, Ending
<1>8. PoolFirst' /\ InstanceBound' /\ PanicCauses'
  BY <1>1, <1>2, <1>5, CallsKept
<1>9. \A h \in Procs : /\ Beginning(h)' <=> Beginning(h)
                       /\ Using(h)' <=> Using(h)
                       /\ pc'[h] = "write" <=> h = g \/ pc[h] = "write"
  BY <1>1, <1>2 DEF Beginning, Using, Ending
<1>10. ~Beginning(g) /\ Using(g)
  BY <1>1 DEF Beginning, Using, Ending
<1>11. Failed'
  BY <1>1, <1>2 DEF Failed
<1>12. Unique'
  <2>. SUFFICES ASSUME ~repeated PROVE Unique'
    BY <1>1 DEF Unique
  <2>1. ASSUME NEW h \in Procs, Beginning(h)', pc'[h] = "write", found[h] # NoTx
        PROVE  /\ \A n \in DOMAIN txMap : \A j \in DOMAIN txMap[n] :
                     txMap[n][j] # found[h]
               /\ \A k \in Procs : found[k] = found[h] => k = h
               /\ txs'[found[h]] = "open"
    <3>1. h # g /\ Beginning(h) /\ pc[h] = "write"
      BY <1>9, <1>10, <2>1
    <3>2. /\ \A n \in DOMAIN txMap : \A j \in DOMAIN txMap[n] : txMap[n][j] # found[h]
          /\ \A k \in Procs : found[k] = found[h] => k = h
          /\ txs[found[h]] = "open"
      BY <2>1, <3>1 DEF Unique
    <3>3. found[h] \in DOMAIN txs /\ found[h] # found[g]
      BY <2>1, <3>1, <3>2 DEF TypeOK, AllTx
    <3>. QED
      BY <1>3, <3>2, <3>3
  <2>. QED
    BY <1>1, <1>9, <2>1 DEF Unique
<1>13. Settling'
  <2>. SUFFICES ASSUME NEW h \in Procs, Using(h), pc'[h] = "write", found[h] # NoTx
                PROVE  txs'[found[h]] # "open"
    BY <1>1, <1>9 DEF Settling
  <2>1. found[h] \in DOMAIN txs
    BY DEF TypeOK, AllTx
  <2>2. CASE found[h] = found[g]
    BY <1>3, <2>2
  <2>3. CASE found[h] # found[g]
    BY <1>3, <1>9, <2>1, <2>3 DEF Settling
  <2>. QED
    BY <2>2, <2>3
<1>14. TxTracked'
  <2>. SUFFICES ASSUME ~repeated PROVE TxTracked'
    BY <1>1 DEF TxTracked
  <2>1. ASSUME NEW t \in DOMAIN txs, txs'[t] = "open"
        PROVE  \/ \E n \in DOMAIN txMap, i \in TxIds :
                     i \in DOMAIN txMap[n] /\ txMap[n][i] = t
               \/ Storing(t)'
    <3>1. txs[t] = "open"
      BY <1>3, <2>1
    <3>2. Storing(t) => Storing(t)'
      BY <1>1, <1>2 DEF Storing
    <3>. QED
      BY <3>1, <3>2 DEF TxTracked
  <2>2. ASSUME NEW n \in DOMAIN txMap, NEW i \in DOMAIN txMap[n]
        PROVE  \/ txMap[n][i] # NoTx /\ txs'[txMap[n][i]] = "open"
               \/ Deleting(n, i)'
               \/ <<n, i>> \in failedIds
    <3>1. Deleting(n, i) => Deleting(n, i)'
      BY <1>1, <1>2 DEF Deleting
    <3>2. CASE txMap[n][i] = found[g]
      <4>1. n = mine[g] /\ i = id[g]
        BY <1>1, <1>10, <3>2 DEF Unique
      <4>. QED
        BY <1>1, <1>2, <4>1 DEF Deleting, Ending
    <3>3. CASE txMap[n][i] # found[g]
      <4>1. txMap[n][i] # NoTx => txs'[txMap[n][i]] = txs[txMap[n][i]]
        BY <1>3, <3>3 DEF TypeOK, AllTx
      <4>. QED
        BY <3>1, <4>1 DEF TxTracked
    <3>. QED
      BY <3>2, <3>3
  <2>. QED
    BY <1>1, <1>3, <2>1, <2>2 DEF TxTracked
<1>15. OutcomeOnce'
  <2>. SUFFICES ASSUME NEW t \in DOMAIN txs
                PROVE  settled'[t] <= (IF txs'[t] = "open" THEN 0 ELSE 1)
    BY <1>1, <1>3 DEF OutcomeOnce
  <2>1. /\ settled[t] \in Nat /\ settled[t] <= 1
        /\ txs[t] = "open" => settled[t] <= 0
    BY DEF OutcomeOnce, TypeOK, Typed
  <2>2. CASE t = found[g]
    BY <1>3, <1>4, <2>1, <2>2
  <2>3. CASE t # found[g]
    BY <1>3, <1>4, <2>1, <2>3
  <2>. QED
    BY <2>2, <2>3
<1>. QED
  BY <1>6, <1>7, <1>8, <1>11, <1>12, <1>13, <1>14, <1>15

LEMMA DeleteTxInv ==
    ASSUME SqlInv, NEW g \in Procs, DeleteTx(g), UNCHANGED crashed
    PROVE  SqlInv'
<1>. USE DEF SqlInv
<1>1. /\ pc[g] = "write" /\ op[g] \in Ending /\ ~crashed
      /\ pc' = [pc EXCEPT ![g] = "idle"]
      /\ UNCHANGED <<pool, instances, unclosed, txs, op, mine, id, found, ret,
                     settled, outside, failedIds, repeated>>
  BY DEF DeleteTx, NoEvent, Goto, histVars, Ending
<1>2. /\ pc'[g] = "idle" /\ \A h \in Procs : h # g => pc'[h] = pc[h]
      /\ mine[g] \in DOMAIN txMap
  BY <1>1 DEF TypeOK, Typed
<1>3. txMap' = [txMap EXCEPT ![mine[g]] =
                   [i \in DOMAIN txMap[mine[g]] \ {id[g]} |-> txMap[mine[g]][i]]]
  BY DEF DeleteTx, MayDelete, MapOf
<1>4. /\ DOMAIN txMap' = DOMAIN txMap
      /\ \A n \in DOMAIN txMap : n # mine[g] => txMap'[n] = txMap[n]
      /\ DOMAIN txMap'[mine[g]] = DOMAIN txMap[mine[g]] \ {id[g]}
      /\ \A i \in DOMAIN txMap[mine[g]] :
            i # id[g] => txMap'[mine[g]][i] = txMap[mine[g]][i]
  <2>1. txMap \in Seq(TxMaps)
    BY DEF Typed
  <2>. QED
    BY <1>2, <1>3, <2>1
<1>5. \A n \in DOMAIN txMap : /\ DOMAIN txMap'[n] \subseteq DOMAIN txMap[n]
                              /\ \A i \in DOMAIN txMap'[n] : txMap'[n][i] = txMap[n][i]
  BY <1>4
<1>6. TypeOK'
  <2>1. pc' \in [Procs -> {"idle", "open", "autocommit", "lookup", "database", "write"}]
    BY <1>1 DEF TypeOK
  <2>2. \A n \in DOMAIN txMap' : /\ DOMAIN txMap'[n] \subseteq TxIds
                                 /\ \A i \in DOMAIN txMap'[n] : txMap'[n][i] \in AllTx
    BY <1>4, <1>5 DEF TypeOK
  <2>. QED
    BY <1>1, <1>4, <2>1, <2>2 DEF TypeOK, AllTx
<1>7. Typed'
  <2>1. txMap' \in Seq(TxMaps) /\ Len(txMap') = Len(txMap)
    <3>. DEFINE new == [i \in DOMAIN txMap[mine[g]] \ {id[g]} |-> txMap[mine[g]][i]]
    <3>1. DOMAIN txMap[mine[g]] \ {id[g]} \in SUBSET TxIds
      BY <1>2 DEF TypeOK
    <3>2. new \in [DOMAIN txMap[mine[g]] \ {id[g]} -> Nat \cup {NoTx}]
      <4>1. \A i \in DOMAIN txMap[mine[g]] : txMap[mine[g]][i] \in Nat \cup {NoTx}
        BY <1>2 DEF TypeOK, AllTx
      <4>. QED
        BY <4>1
    <3>3. txMap' = [txMap EXCEPT ![mine[g]] = new]
      BY <1>3
    <3>. HIDE DEF new
    <3>4. new \in TxMaps
      BY <3>1, <3>2, Zenon DEF TxMaps
    <3>. QED
      BY <1>2, <3>3, <3>4 DEF Typed
  <2>. QED
    BY <1>1, <1>2, <2>1 DEF Typed
<1>8. PoolFirst' /\ InstanceBound' /\ PanicCauses'
  <2>1. ret[g] = "panic" /\ op[g] \in {"exec", "commit", "rollback"} =>
           <<mine[g], id[g]>> \in failedIds
    BY <1>1 DEF PanicCauses
  <2>. QED
    BY <1>1, <1>2, <2>1, CallsKept
<1>9. /\ ~Beginning(g)' /\ ~Using(g)' /\ Using(g) /\ ~Beginning(g)
      /\ \A h \in Procs : h # g => /\ Beginning(h)' <=> Beginning(h)
                                   /\ Using(h)' <=> Using(h)
  BY <1>1, <1>2 DEF Beginning, Using, Ending
<1>10. Failed'
  BY <1>1, <1>2, <1>4, <1>5 DEF Failed
<1>11. Settling' /\ OutcomeOnce'
  BY <1>1, <1>2, <1>9 DEF Settling, OutcomeOnce
<1>12. Unique'
  <2>. SUFFICES ASSUME ~repeated PROVE Unique'
    BY <1>1 DEF Unique
  <2>1. ASSUME NEW h \in Procs, Beginning(h)'
        PROVE  /\ \A n \in DOMAIN txMap' : id[h] \notin DOMAIN txMap'[n]
               /\ \A k \in Procs : id[k] = id[h] /\ (Beginning(k)' \/ Using(k)') => k = h
    <3>1. Beginning(h)
      BY <1>9, <2>1
    <3>. QED
      BY <1>4, <1>5, <1>9, <3>1 DEF Unique
  <2>2. ASSUME NEW h \in Procs, Beginning(h)', pc'[h] = "write", found[h] # NoTx
        PROVE  /\ \A n \in DOMAIN txMap' : \A j \in DOMAIN txMap'[n] :
                     txMap'[n][j] # found[h]
               /\ \A k \in Procs : found[k] = found[h] => k = h
               /\ txs[found[h]] = "open"
    <3>1. Beginning(h) /\ pc[h] = "write"
      BY <1>2, <1>9, <2>2
    <3>. QED
      BY <1>4, <1>5, <2>2, <3>1 DEF Unique
  <2>3. ASSUME NEW h \in Procs, Using(h)'
        PROVE  /\ id[h] \in DOMAIN txMap'[mine[h]] =>
                     txMap'[mine[h]][id[h]] = found[h]
               /\ found[h] # NoTx =>
                    \A n \in DOMAIN txMap' : \A i \in DOMAIN txMap'[n] :
                       txMap'[n][i] = found[h] => n = mine[h] /\ i = id[h]
    <3>1. Using(h) /\ mine[h] \in DOMAIN txMap
      BY <1>9, <2>3 DEF Using, TypeOK, Typed
    <3>. QED
      BY <1>4, <1>5, <3>1 DEF Unique
  <2>4. ASSUME NEW m \in DOMAIN txMap', NEW n \in DOMAIN txMap',
               NEW i \in DOMAIN txMap'[m], NEW j \in DOMAIN txMap'[n],
               txMap'[m][i] = txMap'[n][j], txMap'[m][i] # NoTx
        PROVE  m = n /\ i = j
    <3>1. /\ m \in DOMAIN txMap /\ n \in DOMAIN txMap
          /\ i \in DOMAIN txMap[m] /\ txMap'[m][i] = txMap[m][i]
          /\ j \in DOMAIN txMap[n] /\ txMap'[n][j] = txMap[n][j]
      BY <1>4, <1>5
    <3>2. \A k, l \in DOMAIN txMap : \A a \in DOMAIN txMap[k], b \in DOMAIN txMap[l] :
             txMap[k][a] = txMap[l][b] /\ txMap[k][a] # NoTx => k = l /\ a = b
      BY DEF Unique
    <3>3. txMap[m][i] = txMap[n][j] /\ txMap[m][i] # NoTx
      BY <2>4, <3>1
    <3>. QED
      BY <3>1, <3>2, <3>3
  <2>. QED
    BY <1>1, <2>1, <2>2, <2>3, <2>4 DEF Unique
<1>13. TxTracked'
  <2>. SUFFICES ASSUME ~repeated PROVE TxTracked'
    BY <1>1 DEF TxTracked
  <2>1. ASSUME NEW t \in DOMAIN txs, txs[t] = "open"
        PROVE  \/ \E n \in DOMAIN txMap', i \in TxIds :
                     i \in DOMAIN txMap'[n] /\ txMap'[n][i] = t
               \/ Storing(t)'
    <3>1. CASE Storing(t)
      BY <1>1, <1>2, <3>1 DEF Storing, Ending
    <3>2. CASE ~Storing(t)
      <4>1. PICK n \in DOMAIN txMap, i \in TxIds : i \in DOMAIN txMap[n] /\ txMap[n][i] = t
        BY <2>1, <3>2 DEF TxTracked
      <4>2. ~(n = mine[g] /\ i = id[g])
        <5>. SUFFICES ASSUME n = mine[g], i = id[g] PROVE FALSE
          OBVIOUS
        <5>1. found[g] = t
          BY <1>9, <4>1 DEF Unique
        <5>2. t # NoTx
          BY MySqlAssumption DEF TypeOK
        <5>. QED
          BY <1>1, <1>9, <2>1, <5>1, <5>2 DEF Settling
      <4>3. n \in DOMAIN txMap' /\ i \in DOMAIN txMap'[n] /\ txMap'[n][i] = t
        BY <1>4, <4>1, <4>2
      <4>. QED
        BY <4>3
    <3>. QED
      BY <3>1, <3>2
  <2>2. ASSUME NEW n \in DOMAIN txMap', NEW i \in DOMAIN txMap'[n]
        PROVE  \/ txMap'[n][i] # NoTx /\ txs[txMap'[n][i]] = "open"
               \/ Deleting(n, i)'
               \/ <<n, i>> \in failedIds
    <3>1. /\ n \in DOMAIN txMap /\ i \in DOMAIN txMap[n] /\ txMap'[n][i] = txMap[n][i]
          /\ ~(n = mine[g] /\ i = id[g])
      BY <1>4, <1>5
    <3>2. Deleting(n, i) => Deleting(n, i)'
      BY <1>1, <1>2, <3>1 DEF Deleting
    <3>. QED
      BY <3>1, <3>2 DEF TxTracked
  <2>. QED
    BY <1>1, <2>1, <2>2 DEF TxTracked
<1>. QED
  BY <1>6, <1>7, <1>8, <1>10, <1>11, <1>12, <1>13

-----------------------------------------------------------------------------
LEMMA NothingMoves ==
    ASSUME SqlInv, PanicCauses',
           UNCHANGED <<pool, instances, txMap, txs, pc, op, mine, id, found, ret,
                       settled, outside, failedIds, repeated>>
    PROVE  SqlInv'
<1>. USE DEF SqlInv
<1>1. TypeOK' /\ Typed'
  BY DEF TypeOK, AllTx, Typed
<1>2. PoolFirst' /\ Failed'
  BY DEF PoolFirst, Failed
<1>3. InstanceBound'
  BY BoundKept
<1>4. \A g \in Procs : /\ Beginning(g)' <=> Beginning(g)
                       /\ Using(g)' <=> Using(g)
  BY DEF Beginning, Using
<1>5. Unique' /\ Settling'
  BY <1>4 DEF Unique, Settling
<1>6. TxTracked' /\ OutcomeOnce'
  BY DEF TxTracked, Storing, Deleting, OutcomeOnce
<1>. QED
  BY <1>1, <1>2, <1>3, <1>5, <1>6

LEMMA NextInv == SqlInv /\ [Next]_vars => SqlInv'
<1>. SUFFICES ASSUME SqlInv, [Next]_vars PROVE SqlInv'
  OBVIOUS
<1>1. ASSUME NEW g \in Procs, MethodStep(g), UNCHANGED crashed PROVE SqlInv'
  BY <1>1, TxCallInv, BeginTxInv, AutocommitInv, LookupInv, DbBeginInv, StoreTxInv,
     NilTxInv, DbExecInv, DbSettleInv, DeleteTxInv, OpenFailsInv, OpenedInv, GetInv,
     Zenon DEF MethodStep
<1>2. ASSUME UNCHANGED mysqlVars PROVE SqlInv'
  <2>1. UNCHANGED <<pool, instances, txMap, txs, pc, op, mine, id, found, ret, crashed,
                    settled, outside, failedIds, repeated>>
    BY <1>2 DEF mysqlVars, dbVars, procVars, histVars
  <2>2. PanicCauses'
    BY <2>1 DEF SqlInv, PanicCauses
  <2>. QED
    BY <2>1, <2>2, NothingMoves
<1>3. CASE MapRace
  <2>1. UNCHANGED <<pool, instances, txMap, txs, pc, op, mine, id, found, ret, settled,
                    outside, failedIds, repeated>>
    BY <1>3 DEF MapRace, dbVars, procVars, histVars
  <2>2. PanicCauses'
    <3>1. PICK g, h \in Procs : g # h /\ mine[g] = mine[h] /\ pc[g] = "write"
      BY <1>3 DEF MapRace, SameInstance
    <3>2. op[g] \in {"begin", "commit", "rollback"}
      BY <3>1 DEF SqlInv, Typed, Ending
    <3>. QED
      BY <2>1, <3>1, <3>2 DEF SqlInv, PanicCauses
  <2>. QED
    BY <2>1, <2>2, NothingMoves
<1>. QED
  BY <1>1, <1>2, <1>3 DEF Next, vars

THEOREM SqlInvariant == Spec => []SqlInv
  BY InitInv, NextInv, PTL DEF Spec

(* Instances, ids, numbers of transactions and results keep their types.   *)
THEOREM TypeCorrect == Spec => []TypeOK
<1>1. SqlInv => TypeOK
  BY DEF SqlInv
<1>. QED
  BY <1>1, SqlInvariant, PTL

(* However the calls of GetMysqlInstance overlap, no connection string has *)
(* more instances than there are goroutines.                               *)
THEOREM InstancesBounded == Spec => []InstanceBound
<1>1. SqlInv => InstanceBound
  BY DEF SqlInv
<1>. QED
  BY <1>1, SqlInvariant, PTL

(* As long as no id is repeated, every open transaction is in a tx_map or  *)
(* about to be, and an entry whose transaction is over is being deleted.   *)
THEOREM TransactionsTracked == Spec => []TxTracked
<1>1. SqlInv => TxTracked
  BY DEF SqlInv
<1>. QED
  BY <1>1, SqlInvariant, PTL

(* A transaction is committed or rolled back with success at most once,    *)
(* repeated ids or not, and no statement leaves its transaction.           *)
THEOREM OutcomeUnique == Spec => []OutcomeOnce
<1>1. SqlInv => OutcomeOnce
  BY DEF SqlInv
<1>. QED
  BY <1>1, SqlInvariant, PTL

(* A panic comes from a Begin that failed, and the stop of the process     *)
(* from two goroutines of one instance, one of which begins or ends a      *)
(* transaction.                                                            *)
THEOREM PanicsExplained == Spec => []PanicCauses
<1>1. SqlInv => PanicCauses
  BY DEF SqlInv
<1>. QED
  BY <1>1, SqlInvariant, PTL

-----------------------------------------------------------------------------
(* The generator.  Numbers that differ by a multiple of KeptSeq.           *)

LEMMA Division ==
    ASSUME NEW a \in Nat, NEW m \in Nat \ {0}
    PROVE  a % m \in Nat /\ \E k \in Int : a % m = a + k * m
<1>1. a % m \in Nat /\ a \div m \in Int /\ a = m * (a \div m) + (a % m)
  OBVIOUS
<1>2. a % m = a + (-(a \div m)) * m /\ -(a \div m) \in Int
  BY <1>1
<1>. QED
  BY <1>1, <1>2

LEMMA Quotient == ASSUME NEW a \in Nat, NEW m \in Nat \ {0} PROVE a \div m \in Nat
  OBVIOUS

LEMMA CongruentPlus ==
    ASSUME NEW a \in Int, NEW b \in Int, NEW d \in Int, Congruent(a, b)
    PROVE  Congruent(a + d, b + d)
<1>1. PICK k \in Int : a = b + k * KeptSeq
  BY DEF Congruent
<1>2. a + d = b + d + k * KeptSeq
  BY <1>1, UuidAssumption
<1>. QED
  BY <1>2 DEF Congruent

LEMMA CongruentBy ==
    ASSUME NEW a \in Int, NEW b \in Int, NEW c \in Int, Congruent(a, b), Congruent(b, c)
    PROVE  Congruent(a, c)
<1>1. PICK k \in Int : a = b + k * KeptSeq
  BY DEF Congruent
<1>2. PICK l \in Int : b = c + l * KeptSeq
  BY DEF Congruent
<1>3. a = c + (k + l) * KeptSeq
  BY <1>1, <1>2, UuidAssumption
<1>. QED
  BY <1>3 DEF Congruent

LEMMA CongruentTo ==
    ASSUME NEW a \in Int, NEW b \in Int, NEW c \in Int, Congruent(a, b), Congruent(a, c)
    PROVE  Congruent(b, c)
<1>1. PICK k \in Int : a = b + k * KeptSeq
  BY DEF Congruent
<1>2. PICK l \in Int : a = c + l * KeptSeq
  BY DEF Congruent
<1>3. b = c + (l - k) * KeptSeq
  BY <1>1, <1>2, UuidAssumption
<1>. QED
  BY <1>3 DEF Congruent

LEMMA CongruentKept ==
    ASSUME NEW a \in Nat
    PROVE  /\ a % SeqModulus \in Nat /\ Congruent(a % SeqModulus, a)
           /\ a % KeptSeq \in Nat /\ Congruent(a % KeptSeq, a)
           /\ Congruent(a, a % KeptSeq)
<1>1. /\ a % KeptSeq \in Nat /\ Congruent(a % KeptSeq, a)
  BY Division, UuidAssumption DEF Congruent
<1>2. Congruent(a, a % KeptSeq)
  <2>1. PICK k \in Int : a % KeptSeq = a + k * KeptSeq
    BY <1>1 DEF Congruent
  <2>2. a = (a % KeptSeq) + (-k) * KeptSeq
    BY <1>1, <2>1, UuidAssumption
  <2>. QED
    BY <2>2 DEF Congruent
<1>3. PICK k \in Int : a % SeqModulus \in Nat /\ a % SeqModulus = a + k * SeqModulus
  BY Division, UuidAssumption
<1>4. PICK q \in Int : 0 = SeqModulus + q * KeptSeq
  BY Division, UuidAssumption
<1>5. k * SeqModulus = (-(k * q)) * KeptSeq
  <2>1. SeqModulus = (-q) * KeptSeq
    BY <1>4, UuidAssumption
  <2>. QED
    BY <2>1, UuidAssumption
<1>6. Congruent(a % SeqModulus, a)
  BY <1>3, <1>5 DEF Congruent
<1>. QED
  BY <1>1, <1>2, <1>3, <1>6

LEMMA Advanced ==
    ASSUME NEW c \in Nat, NEW b \in Nat, NEW k \in Nat, NEW e \in Nat, NEW f \in Nat,
           NEW d \in {0, 1}, NEW g, g = f + d,
           Congruent(c, k + f - e), Congruent(b, c + d)
    PROVE  Congruent(b, k + g - e)
<1>1. PICK m \in Int : m = k + f - e
  OBVIOUS
<1>2. c \in Int /\ d \in Int /\ k + g - e = m + d /\ Congruent(c, m)
  BY <1>1
<1>3. Congruent(c + d, m + d)
  BY <1>2, CongruentPlus
<1>4. b \in Int /\ c + d \in Int /\ m + d \in Int
  BY <1>2
<1>. QED
  BY <1>2, <1>3, <1>4, CongruentBy

(* A number met again after some advances: the kept part has gone round.   *)
LEMMA OneRound ==
    ASSUME NEW c \in Nat, NEW k \in Nat, NEW e \in Nat, NEW f \in Nat, e < f,
           Congruent(c, k), Congruent(c, k + f - e)
    PROVE  f - e >= KeptSeq
<1>1. k + f - e \in Int
  OBVIOUS
<1>2. Congruent(k, k + f - e)
  BY <1>1, CongruentTo
<1>3. PICK l \in Int : k = k + f - e + l * KeptSeq
  BY <1>2 DEF Congruent
<1>4. f - e = (-l) * KeptSeq
  BY <1>3, UuidAssumption
<1>5. -l >= 1
  <2>1. SUFFICES ASSUME -l <= 0 PROVE FALSE
    OBVIOUS
  <2>2. (-l) * KeptSeq <= 0
    BY <2>1, UuidAssumption
  <2>. QED
    BY <1>4, <2>2
<1>6. (-l) * KeptSeq >= KeptSeq
  BY <1>5, UuidAssumption
<1>. QED
  BY <1>4, <1>6

LEMMA NewFromClockInv == UuidInv /\ NewFromClock => UuidInv'
<1>. SUFFICES ASSUME UuidInv, NewFromClock PROVE UuidInv'
  OBVIOUS
<1>. USE DEF UuidInv
<1>1. PICK now \in Times, seq \in 0 .. SeqModulus - 1 :
        /\ ~storageInit \/ seq = clockSequence
        /\ storageInit' = TRUE /\ lastTime' = now
        /\ LET adv == IF NotAfter(now) THEN 1 ELSE 0
           IN  /\ clockSequence' = (seq + adv) % SeqModulus
               /\ advances' = advances + adv
        /\ \E u \in {V1(now, clockSequence')}
                    \cup {V2(d, now, clockSequence') : d \in Domains} :
              issued' = Append(issued, [uuid |-> u, process |-> restarts,
                                        advances |-> advances'])
        /\ restarts' = restarts
  BY Zenon DEF NewFromClock
<1>2. PICK adv \in {0, 1} : /\ clockSequence' = (seq + adv) % SeqModulus
                             /\ advances' = advances + adv
                             /\ (now <= lastTime <=> adv = 1)
  BY <1>1 DEF NotAfter
<1>3. PICK u \in {V1(now, clockSequence')} \cup {V2(d, now, clockSequence') : d \in Domains} :
        issued' = Append(issued, [uuid |-> u, process |-> restarts,
                                  advances |-> advances'])
  BY <1>1
<1>4. now \in Nat /\ seq \in Nat
  BY <1>1, UuidAssumption
<1>5. /\ clockSequence \in Nat /\ advances \in Nat /\ restarts \in Nat
      /\ lastTime \in Nat
  BY DEF Storage
<1>6. /\ clockSequence' \in Nat /\ advances' \in Nat /\ advances' >= advances
      /\ Congruent(clockSequence', seq + adv)
      /\ clockSequence' % KeptSeq \in Nat
      /\ Congruent(clockSequence', clockSequence' % KeptSeq)
  <2>1. seq + adv \in Nat
    BY <1>4, <1>2
  <2>2. clockSequence' \in Nat /\ Congruent(clockSequence', seq + adv)
    BY <1>2, <2>1, CongruentKept
  <2>. QED
    BY <1>5, <1>2, <2>2, CongruentKept
<1>7. u \in V1s \cup V2s
  <2>1. now \div LowSpan \in Nat /\ (clockSequence' % KeptSeq) \div DomainSpan \in Nat
    BY <1>4, <1>6, Quotient, UuidAssumption
  <2>. QED
    BY <1>4, <1>6, <1>3, <2>1 DEF V1, V2, V1s, V2s
<1>8. u.version = 1 => u.time = now /\ u.seq = clockSequence' % KeptSeq
  BY <1>3 DEF V1, V2
<1>. DEFINE Stamps == [uuid : V1s \cup V2s, process : Nat, advances : Nat]
            n == Len(issued) + 1
<1>9. /\ issued \in Seq(Stamps) /\ Len(issued) \in Nat /\ DOMAIN issued = 1 .. Len(issued)
      /\ issued' \in Seq(Stamps) /\ DOMAIN issued' = 1 .. n
      /\ \A i \in DOMAIN issued : issued'[i] = issued[i] /\ issued[i] \in Stamps
      /\ issued'[n].uuid = u /\ issued'[n].process = restarts
      /\ issued'[n].advances = advances'
  <2>1. issued \in Seq(Stamps)
    BY DEF Storage
  <2>2. [uuid |-> u, process |-> restarts, advances |-> advances'] \in Stamps
    BY <1>5, <1>6, <1>7
  <2>. HIDE DEF Stamps
  <2>. QED
    BY <1>3, <2>1, <2>2
<1>10. Storage'
  <2>1. issued' \in Seq([uuid : V1s \cup V2s, process : Nat, advances : Nat])
    BY <1>9
  <2>2. ASSUME NEW i \in 1 .. n
        PROVE  /\ issued'[i].process <= restarts /\ issued'[i].advances <= advances'
               /\ issued'[i].process = restarts => storageInit'
    <3>1. CASE i = n
      BY <3>1, <1>1, <1>5, <1>6, <1>9
    <3>2. CASE i \in DOMAIN issued
      <4>1. issued[i].advances \in Nat /\ issued[i].advances <= advances
        BY <3>2, <1>9 DEF Storage
      <4>2. issued[i].process <= restarts
        BY <3>2 DEF Storage
      <4>3. issued[i].advances <= advances'
        BY <4>1, <1>5, <1>6
      <4>. QED
        BY <3>2, <4>2, <4>3, <1>1, <1>9
    <3>. QED
      BY <3>1, <3>2, <1>9
  <2>. QED
    BY <2>1, <2>2, <1>4, <1>1, <1>5, <1>6, <1>9 DEF Storage
<1>11. ASSUME NEW i \in DOMAIN issued, issued[i].process = restarts,
             issued[i].uuid.version = 1
      PROVE  /\ issued[i].uuid.seq \in Nat /\ issued[i].uuid.time \in Nat
             /\ issued[i].advances \in Nat /\ issued[i].advances <= advances
             /\ Congruent(clockSequence',
                          issued[i].uuid.seq + advances' - issued[i].advances)
             /\ issued[i].advances = advances' => issued[i].uuid.time < now
  <2>1. /\ issued[i].uuid.seq \in Nat /\ issued[i].uuid.time \in Nat
        /\ issued[i].advances \in Nat /\ issued[i].advances <= advances
    BY <1>9, <1>11 DEF Storage, V1s, V2s
  <2>2. /\ storageInit /\ seq = clockSequence
        /\ Congruent(clockSequence,
                     issued[i].uuid.seq + advances - issued[i].advances)
        /\ issued[i].advances = advances => issued[i].uuid.time <= lastTime
    BY <1>11, <1>1 DEF Storage, Steady
  <2>3. Congruent(clockSequence',
                  issued[i].uuid.seq + advances' - issued[i].advances)
    BY <1>2, <1>5, <1>6, <2>1, <2>2, Advanced
  <2>4. issued[i].advances = advances' => issued[i].uuid.time < now
    BY <1>4, <1>5, <1>2, <2>1, <2>2
  <2>. QED
    BY <2>1, <2>3, <2>4
<1>12. Steady'
  <2>. SUFFICES ASSUME NEW i \in DOMAIN issued', issued'[i].process = restarts,
                       issued'[i].uuid.version = 1
                PROVE  /\ Congruent(clockSequence',
                              issued'[i].uuid.seq + advances' - issued'[i].advances)
                       /\ issued'[i].advances = advances' => issued'[i].uuid.time <= now
    BY <1>1 DEF Steady
  <2>1. CASE i \in DOMAIN issued
    <3>1. issued'[i] = issued[i]
      BY <1>9, <2>1
    <3>2. issued[i].process = restarts /\ issued[i].uuid.version = 1
      BY <3>1
    <3>3. /\ Congruent(clockSequence',
                       issued[i].uuid.seq + advances' - issued[i].advances)
          /\ issued[i].uuid.time \in Nat
          /\ issued[i].advances = advances' => issued[i].uuid.time < now
      BY <1>11, <2>1, <3>2
    <3>. QED
      BY <1>4, <3>1, <3>3
  <2>2. CASE i = n
    <3>1. u.time = now /\ u.seq = clockSequence' % KeptSeq
      BY <1>8, <1>9, <2>2
    <3>2. /\ issued'[i].uuid.seq + advances' - issued'[i].advances
                = clockSequence' % KeptSeq
          /\ issued'[i].uuid.time = now
      BY <1>6, <1>9, <2>2, <3>1
    <3>. QED
      BY <1>4, <1>6, <3>2
  <2>. QED
    BY <1>9, <2>1, <2>2
<1>13. UniqueV1'
  <2>. SUFFICES ASSUME NEW j \in DOMAIN issued', NEW i \in 1 .. j - 1,
                       issued'[i].uuid = issued'[j].uuid, issued'[j].uuid.version = 1,
                       issued'[i].process = issued'[j].process
                PROVE  issued'[j].advances - issued'[i].advances >= KeptSeq
    BY DEF UniqueV1
  <2>1. i \in DOMAIN issued
    BY <1>9
  <2>2. CASE j \in DOMAIN issued
    BY <1>9, <2>1, <2>2 DEF UniqueV1
  <2>3. CASE j = n
    <3>1. /\ issued[i].uuid = u /\ issued[i].process = restarts
          /\ issued[i].uuid.version = 1
      BY <1>9, <2>1, <2>3
    <3>2. u.time = now /\ u.seq = clockSequence' % KeptSeq
      BY <1>8, <3>1
    <3>3. /\ issued[i].uuid.seq \in Nat /\ issued[i].uuid.time = now
          /\ issued[i].uuid.seq = clockSequence' % KeptSeq
          /\ issued[i].advances \in Nat /\ issued[i].advances <= advances
          /\ issued[i].advances # advances'
          /\ Congruent(clockSequence',
                       issued[i].uuid.seq + advances' - issued[i].advances)
      <4>1. /\ issued[i].uuid.seq \in Nat /\ issued[i].uuid.time \in Nat
            /\ issued[i].advances \in Nat /\ issued[i].advances <= advances
            /\ Congruent(clockSequence',
                         issued[i].uuid.seq + advances' - issued[i].advances)
            /\ issued[i].advances = advances' => issued[i].uuid.time < now
        BY <1>11, <2>1, <3>1
      <4>2. issued[i].uuid.time = now /\ issued[i].uuid.seq = clockSequence' % KeptSeq
        BY <3>1, <3>2
      <4>3. issued[i].advances # advances'
        BY <1>4, <4>1, <4>2
      <4>. QED
        BY <4>1, <4>2, <4>3
    <3>4. issued[i].advances < advances' /\ advances' \in Nat
      BY <1>5, <1>6, <3>3
    <3>5. Congruent(clockSequence', issued[i].uuid.seq)
      BY <1>6, <3>3
    <3>6. advances' - issued[i].advances >= KeptSeq
      BY <1>6, <3>3, <3>4, <3>5, OneRound
    <3>. QED
      BY <1>9, <2>1, <2>3, <3>6
  <2>4. j \in DOMAIN issued \/ j = n
    BY <1>9
  <2>. QED
    BY <2>2, <2>3, <2>4
<1>. QED
  BY <1>10, <1>12, <1>13

LEMMA UuidNextInv == UuidInv /\ [Next]_vars => UuidInv'
<1>. SUFFICES ASSUME UuidInv, [Next]_vars PROVE UuidInv'
  OBVIOUS
<1>1. CASE UNCHANGED uuidVars
  BY <1>1 DEF UuidInv, uuidVars, storageVars, Storage, Steady, UniqueV1
<1>2. CASE NewFromClock
  BY <1>2, NewFromClockInv
<1>3. CASE Restart
  <2>1. /\ restarts' = restarts + 1 /\ storageInit' = FALSE /\ lastTime' = 0
        /\ clockSequence' = 0 /\ UNCHANGED <<issued, advances>>
    BY <1>3 DEF Restart
  <2>2. \A i \in DOMAIN issued : /\ issued[i].process \in Nat /\ restarts \in Nat
                                /\ issued[i].process <= restarts
    <3>. DEFINE Stamps == [uuid : V1s \cup V2s, process : Nat, advances : Nat]
    <3>1. \A i \in DOMAIN issued : issued[i] \in Stamps
      <4>1. issued \in Seq(Stamps)
        BY DEF UuidInv, Storage
      <4>. HIDE DEF Stamps
      <4>. QED
        BY <4>1
    <3>. QED
      BY <3>1 DEF UuidInv, Storage
  <2>3. \A i \in DOMAIN issued : issued[i].process # restarts'
    BY <2>1, <2>2
  <2>4. Storage'
    BY <2>1, <2>2, <2>3 DEF UuidInv, Storage
  <2>5. Steady' /\ UniqueV1'
    BY <2>1, <2>3 DEF UuidInv, Steady, UniqueV1
  <2>. QED
    BY <2>4, <2>5 DEF UuidInv
<1>4. CASE Parse
  <2>1. UNCHANGED <<storageInit, lastTime, clockSequence, restarts, advances, issued>>
    BY <1>4 DEF Parse, storageVars
  <2>. QED
    BY <2>1 DEF UuidInv, Storage, Steady, UniqueV1
<1>. QED
  BY <1>1, <1>2, <1>3, <1>4 DEF Next, vars

(* Two UUIDs of version 1 that one process makes differ, whatever its      *)
(* clock does, until the kept part of the sequence number has gone round.  *)
THEOREM UuidsUnique == Spec => []UniqueV1
<1>1. Init => UuidInv
  BY DEF Init, UuidInit, UuidInv, Storage, Steady, UniqueV1
<1>2. UuidInv => UniqueV1
  BY DEF UuidInv
<1>. QED
  BY <1>1, <1>2, UuidNextInv, PTL DEF Spec
=============================================================================

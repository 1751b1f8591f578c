-------------------------------- MODULE MySql --------------------------------
(***************************************************************************)
(* persistence/mysql/mysql.go: the instances of a process, one for each    *)
(* connection string, and the transactions of an instance, which callers   *)
(* know by a UUID.  Goroutines get an instance from the pool, or open one, *)
(* and then call its methods.  mysqlConnPoolMu guards the pool; nothing    *)
(* guards tx_map, and the runtime stops a process that finds two           *)
(* goroutines in a map at once, one of them writing.                       *)
(***************************************************************************)
EXTENDS Uuid

CONSTANTS
    Procs,          \* goroutines
    ConnStrs,
    NonTransaction, \* NON_TRANSACTION
    NoTx,           \* a nil *sql.Tx
    MaxEvents       \* bound: calls, UUIDs made from the clock, restarts

TxIds == V4
Ids == TxIds \cup {NonTransaction}

\* transactions are numbers; a nil one is none of them
ASSUME MySqlAssumption == IsFiniteSet(Procs) /\ NoTx \notin Nat

VARIABLES
    pool,       \* mysqlConnPool: from connection strings to instances
    instances,  \* the connection string of each instance made
    unclosed,   \* databases opened and dropped because Ping failed
    txMap,      \* tx_map of each instance: from ids to transactions
    txs,        \* the transactions begun: open, committed, rolled back
    pc, op,     \* where each goroutine is, in which call
    mine, id,   \* its instance (0 for none), and the id it works with
    found,      \* the transaction it has looked up or begun
    ret,        \* result of its last call: "nil", "error" or "panic"
    crashed,    \* the runtime has stopped the process
    events,
    \* history, read by the properties and by no guard:
    settled,    \* Commit and Rollback that returned nil, by transaction
    outside,    \* calls with an id that reached the database without it
    failedIds,  \* instance and id of each Begin that failed
    repeated    \* the generator has drawn an id twice

procVars == <<pc, op, mine, id, found, ret>>
histVars == <<settled, outside, failedIds, repeated>>
dbVars == <<pool, instances, unclosed, txMap, txs>>
mysqlVars == <<dbVars, procVars, crashed, histVars>>
vars == <<mysqlVars, uuidVars, events>>

Init ==
    /\ UuidInit
    /\ pool = [c \in {} |-> 0] /\ instances = <<>> /\ unclosed = 0
    /\ txMap = <<>> /\ txs = <<>>
    /\ pc = [g \in Procs |-> "idle"] /\ op = [g \in Procs |-> "none"]
    /\ mine = [g \in Procs |-> 0] /\ id = [g \in Procs |-> NonTransaction]
    /\ found = [g \in Procs |-> NoTx] /\ ret = [g \in Procs |-> "nil"]
    /\ crashed = FALSE /\ events = 0
    /\ settled = <<>> /\ outside = 0 /\ failedIds = {} /\ repeated = FALSE

Event == ~crashed /\ events < MaxEvents /\ events' = events + 1
NoEvent == ~crashed /\ UNCHANGED events

Goto(g, l) == pc' = [pc EXCEPT ![g] = l]
Return(g, r) == Goto(g, "idle") /\ ret' = [ret EXCEPT ![g] = r]

-----------------------------------------------------------------------------
(* GetMysqlInstance *)

AlwaysOpen(c) == FALSE  \* mutant: what the pool holds is not used
Pooled(c) == c \in DOMAIN pool

Get(g, c) ==
    /\ Event /\ pc[g] = "idle"
    /\ IF Pooled(c)
       THEN /\ mine' = [mine EXCEPT ![g] = pool[c]]
            /\ Return(g, "nil") /\ op' = op
       ELSE /\ op' = [op EXCEPT ![g] = c]
            /\ Goto(g, "open") /\ UNCHANGED <<mine, ret>>
    /\ UNCHANGED <<dbVars, id, found, histVars>>

\* initMysqlConn: sql.Open fails, or Ping does and db is not closed
OpenFails(g) ==
    /\ NoEvent /\ pc[g] = "open"
    /\ \E n \in {0, 1} : unclosed' = unclosed + n
    /\ Return(g, "error")
    /\ UNCHANGED <<pool, instances, txMap, txs, op, mine, id, found, histVars>>

Opened(g) ==
    /\ NoEvent /\ pc[g] = "open"
    /\ instances' = Append(instances, op[g])
    /\ txMap' = Append(txMap, [i \in {} |-> NoTx])
    /\ pool' = [c \in DOMAIN pool \cup {op[g]} |->
                   IF c = op[g] THEN Len(instances') ELSE pool[c]]
    /\ mine' = [mine EXCEPT ![g] = Len(instances')]
    /\ Return(g, "nil")
    /\ UNCHANGED <<unclosed, txs, op, id, found, histVars>>

-----------------------------------------------------------------------------
(* The methods: the map is looked up, the database is called, the map is   *)
(* written.  An id is any a caller may have, of this instance or another.  *)

MapOf(g) == txMap[mine[g]]

Call(g, o, i) ==
    /\ Event /\ pc[g] = "idle" /\ mine[g] # 0
    /\ op' = [op EXCEPT ![g] = o]
    /\ id' = [id EXCEPT ![g] = i]
    /\ found' = [found EXCEPT ![g] = NoTx]
    /\ Goto(g, IF i = NonTransaction /\ o = "exec" THEN "autocommit" ELSE "lookup")
    /\ repeated' = (repeated \/ (o = "begin" /\ \E h \in Procs : id[h] = i)
                    \/ (o = "begin" /\ \E n \in DOMAIN txMap : i \in DOMAIN txMap[n]))
    /\ UNCHANGED <<dbVars, mine, ret, settled, outside, failedIds>>

BeginTx(g) == \E i \in TxIds : Call(g, "begin", i)
TxCall(g) == \E o \in {"exec", "commit", "rollback"}, i \in Ids : Call(g, o, i)

\* Insert, Update, Delete and Select
Autocommit(g) ==
    /\ NoEvent /\ pc[g] = "autocommit"
    /\ outside' = outside + (IF id[g] = NonTransaction THEN 0 ELSE 1)
    /\ \E r \in {"nil", "error"} : Return(g, r)
    /\ UNCHANGED <<dbVars, op, mine, id, found, settled, failedIds, repeated>>

Unchecked == "database"     \* mutant: ok is ignored, the transaction is nil
IfUnknown == "idle"

\* BeginTx refuses an id that is in the map, the other methods one that is not
Lookup(g) ==
    /\ NoEvent /\ pc[g] = "lookup"
    /\ IF (op[g] = "begin") = (id[g] \in DOMAIN MapOf(g))
       THEN /\ Goto(g, IF op[g] = "begin" THEN "idle" ELSE IfUnknown)
            /\ ret' = [ret EXCEPT ![g] = "error"] /\ UNCHANGED found
       ELSE /\ found' = IF op[g] = "begin" THEN found
                        ELSE [found EXCEPT ![g] = MapOf(g)[id[g]]]
            /\ Goto(g, "database") /\ UNCHANGED ret
    /\ UNCHANGED <<dbVars, op, mine, id, histVars>>

DbBegin(g) ==
    /\ NoEvent /\ pc[g] = "database" /\ op[g] = "begin"
    /\ \/ /\ txs' = Append(txs, "open")
          /\ settled' = Append(settled, 0)
          /\ found' = [found EXCEPT ![g] = Len(txs')]
          /\ UNCHANGED failedIds
       \/ /\ failedIds' = failedIds \cup {<<mine[g], id[g]>>}
          /\ UNCHANGED <<txs, settled, found>>
    /\ Goto(g, "write")
    /\ UNCHANGED <<pool, instances, unclosed, txMap, op, mine, id, ret, outside,
                   repeated>>

\* tx_map[txId], err = db.Begin(): a nil transaction too; the log reads the map
StoreTx(g) ==
    /\ NoEvent /\ pc[g] = "write" /\ op[g] = "begin"
    /\ txMap' = [txMap EXCEPT ![mine[g]] =
                    [i \in DOMAIN MapOf(g) \cup {id[g]} |->
                        IF i = id[g] THEN found[g] ELSE MapOf(g)[i]]]
    /\ Return(g, IF found[g] = NoTx THEN "error" ELSE "nil")
    /\ UNCHANGED <<pool, instances, unclosed, txs, op, mine, id, found, histVars>>

\* a nil transaction panics: Commit has deferred its delete, Rollback has not
NilTx(g) ==
    /\ NoEvent /\ pc[g] = "database" /\ op[g] # "begin" /\ found[g] = NoTx
    /\ ret' = [ret EXCEPT ![g] = "panic"]
    /\ Goto(g, IF op[g] = "commit" THEN "write" ELSE "idle")
    /\ UNCHANGED <<dbVars, op, mine, id, found, histVars>>

Live(g) == found[g] # NoTx /\ txs[found[g]] = "open"

\* TxInsert, TxUpdate, TxDelete
DbExec(g) ==
    /\ NoEvent /\ pc[g] = "database" /\ op[g] = "exec" /\ found[g] # NoTx
    /\ \/ Return(g, "error")
       \/ Live(g) /\ Return(g, "nil")
    /\ UNCHANGED <<dbVars, op, mine, id, found, histVars>>

SwallowsError(ok) == "nil"  \* mutant: the error is logged and not returned
ResultOf(ok) == IF ok THEN "nil" ELSE "error"

\* tx.Commit, tx.Rollback: at most one of a transaction succeeds.  A Commit
\* that fails leaves the outcome to the database; the Rollback after it finds
\* the sql.Tx done
DbSettle(g) ==
    /\ NoEvent /\ pc[g] = "database" /\ found[g] # NoTx
    /\ op[g] \in {"commit", "rollback"}
    /\ \E ok \in BOOLEAN, outcome \in {"committed", "rolledback"} :
         /\ ok => Live(g)
         /\ ok \/ op[g] = "rollback" =>
               outcome = IF op[g] = "commit" THEN "committed" ELSE "rolledback"
         /\ txs' = IF Live(g) THEN [txs EXCEPT ![found[g]] = outcome] ELSE txs
         /\ ret' = [ret EXCEPT ![g] = ResultOf(ok)]
         /\ settled' = IF ResultOf(ok) = "nil"
                       THEN [settled EXCEPT ![found[g]] = @ + 1] ELSE settled
    /\ Goto(g, "write")
    /\ UNCHANGED <<pool, instances, unclosed, txMap, op, mine, id, found, outside,
                   failedIds, repeated>>

KeptIfFailed(g) == ret[g] = "nil"   \* mutant: a Commit that fails keeps it
MayDelete(g) == TRUE

DeleteTx(g) ==
    /\ NoEvent /\ pc[g] = "write" /\ op[g] \in {"commit", "rollback"}
    /\ txMap' = IF MayDelete(g)
                THEN [txMap EXCEPT ![mine[g]] =
                         [i \in DOMAIN MapOf(g) \ {id[g]} |-> MapOf(g)[i]]]
                ELSE txMap
    /\ Goto(g, "idle")
    /\ UNCHANGED <<pool, instances, unclosed, txs, op, mine, id, found, ret,
                   histVars>>

\* one goroutine is about to write a map that another is about to use
SameInstance(g, h) == mine[g] = mine[h]
MapRace ==
    /\ NoEvent
    /\ \E g, h \in Procs : /\ g # h /\ SameInstance(g, h)
                           /\ pc[g] = "write" /\ pc[h] \in {"lookup", "write"}
    /\ crashed' = TRUE
    /\ UNCHANGED <<dbVars, procVars, histVars>>

-----------------------------------------------------------------------------
MethodStep(g) ==
    \/ BeginTx(g) \/ TxCall(g) \/ Autocommit(g) \/ Lookup(g)
    \/ DbBegin(g) \/ StoreTx(g) \/ NilTx(g) \/ DbExec(g) \/ DbSettle(g)
    \/ DeleteTx(g) \/ OpenFails(g) \/ Opened(g) \/ \E c \in ConnStrs : Get(g, c)

\* a process that parses, and one that draws from the clock, share nothing
\* with the rest: the bound lets a behaviour do the one or the other
Next ==
    \/ \E g \in Procs : MethodStep(g) /\ UNCHANGED <<crashed, uuidVars>>
    \/ MapRace /\ UNCHANGED uuidVars
    \/ /\ instances = <<>> /\ Event /\ (NewFromClock \/ Restart)
       /\ UNCHANGED mysqlVars
    \/ /\ events = 0 /\ events' = MaxEvents /\ Parse
       /\ UNCHANGED mysqlVars

Spec == Init /\ [][Next]_vars

-----------------------------------------------------------------------------
AllTx == DOMAIN txs \cup {NoTx}

\* type invariant
TypeOK ==
    /\ \A c \in DOMAIN pool : c \in ConnStrs /\ pool[c] \in DOMAIN instances
    /\ instances \in Seq(ConnStrs) /\ DOMAIN txMap = DOMAIN instances
    /\ \A n \in DOMAIN txMap : DOMAIN txMap[n] \subseteq TxIds
                               /\ \A i \in DOMAIN txMap[n] : txMap[n][i] \in AllTx
    /\ txs \in Seq({"open", "committed", "rolledback"})
    /\ DOMAIN settled = DOMAIN txs
    /\ pc \in [Procs -> {"idle", "open", "autocommit", "lookup", "database", "write"}]
    /\ mine \in [Procs -> {0} \cup DOMAIN instances] /\ id \in [Procs -> Ids]
    /\ found \in [Procs -> AllTx] /\ ret \in [Procs -> {"nil", "error", "panic"}]

(***************************************************************************)
(* However the calls of GetMysqlInstance overlap, a connection string has  *)
(* at most one instance for each goroutine that found the pool empty: once *)
(* an instance is pooled nobody opens another.                             *)
(***************************************************************************)
InstanceBound ==
    \A c \in ConnStrs :
       Cardinality({n \in DOMAIN instances : instances[n] = c})
          + Cardinality({g \in Procs : pc[g] = "open" /\ op[g] = c})
       <= Cardinality(Procs)

Storing(t) == \E g \in Procs : pc[g] = "write" /\ op[g] = "begin" /\ found[g] = t
Deleting(n, i) == \E g \in Procs : /\ pc[g] = "write" /\ op[g] # "begin"
                                   /\ mine[g] = n /\ id[g] = i

(***************************************************************************)
(* As long as the generator repeats no id, no open transaction is lost and *)
(* no id outlives its transaction: each open transaction is in the tx_map  *)
(* of an instance, or about to be, and an entry has an open transaction,   *)
(* is about to be deleted, or is what a Begin that failed has left.        *)
(***************************************************************************)
TxTracked ==
    ~repeated =>
      /\ \A t \in DOMAIN txs : txs[t] = "open" =>
            \/ \E n \in DOMAIN txMap, i \in TxIds :
                  i \in DOMAIN txMap[n] /\ txMap[n][i] = t
            \/ Storing(t)
      /\ \A n \in DOMAIN txMap : \A i \in DOMAIN txMap[n] :
            \/ txMap[n][i] # NoTx /\ txs[txMap[n][i]] = "open"
            \/ Deleting(n, i)
            \/ <<n, i>> \in failedIds

(***************************************************************************)
(* Commit and Rollback of one transaction, by however many goroutines,     *)
(* return nil at most once, and then it is over; Begin and the statements  *)
(* of a transaction never reach the database outside it.                   *)
(***************************************************************************)
OutcomeOnce ==
    /\ \A t \in DOMAIN txs : settled[t] <= (IF txs[t] = "open" THEN 0 ELSE 1)
    /\ outside = 0

(***************************************************************************)
(* A call panics only with the id of a BeginTx that has failed, whose nil  *)
(* transaction is in the map.  The runtime stops the process only if two   *)
(* goroutines use one instance and one of them begins or ends a            *)
(* transaction: statements alone never do it.                              *)
(***************************************************************************)
PanicCauses ==
    /\ \A g \in Procs : ret[g] = "panic" /\ pc[g] \in {"idle", "write"}
                        /\ op[g] \in {"exec", "commit", "rollback"} =>
                           <<mine[g], id[g]>> \in failedIds
    /\ crashed => \E g, h \in Procs : /\ g # h /\ mine[g] = mine[h]
                                      /\ op[g] \in {"begin", "commit", "rollback"}
=============================================================================

------------------------------ MODULE Database ------------------------------
(***************************************************************************)
(* The database (db.c): the daemon and the direct runs of the utility      *)
(* (-D) update the same SQLite file, and read it.                          *)
(*                                                                         *)
(* A statement is an action.  The locks are those of SQLite in rollback    *)
(* mode: a process in an exclusive transaction excludes all others, a      *)
(* process that has read in a transaction excludes writers.  A statement   *)
(* that is kept out waits in the busy handler, and gives up after ten      *)
(* retries.  The five update functions differ in their tables and columns  *)
(* only: a row is its key and its value, and no table has a unique key     *)
(* (DBGenFile).                                                            *)
(***************************************************************************)
EXTENDS Naturals, Sequences, FiniteSets

CONSTANTS
  Procs,    \* processes that have the database open
  Keys,     \* keys of rows
  Values,   \* values
  None,     \* no value
  First,    \* the rows at first
  MaxOps    \* bound on the operations of a process

ASSUME DatabaseAssumption ==
  /\ Keys # {}
  /\ First \in [Keys -> Seq(Values)]
  /\ \A k \in Keys : Len(First[k]) <= 1
  /\ None \notin Values
  /\ MaxOps \in Nat

VARIABLES
  pc,      \* the statement that each process is at
  key,     \* the key of its operation
  value,   \* the value to be written, or the value read
  res,     \* the result so far, TRUE for PASS
  tx,      \* its transaction: "none", "deferred", "shared" or "exclusive"
  base,    \* the rows that it restores when it is rolled back
  rows,    \* the rows of each key, oldest first
  ops,     \* operations begun
  bare     \* history: processes that went on without their transaction

vars == <<pc, key, value, res, tx, base, rows, ops, bare>>

Init ==
  /\ pc = [p \in Procs |-> "idle"]
  /\ key = [p \in Procs |-> CHOOSE k \in Keys : TRUE]
  /\ value = [p \in Procs |-> None]
  /\ res = [p \in Procs |-> TRUE]
  /\ tx = [p \in Procs |-> "none"]
  /\ base = [p \in Procs |-> First]
  /\ rows = First
  /\ ops = [p \in Procs |-> 0]
  /\ bare = {}

----------------------------------------------------------------------------
(* Locks.                                                                  *)

Others(p) == Procs \ {p}

MayRead(p) == \A q \in Others(p) : tx[q] # "exclusive"

\* A mutant of MayWrite: readers do not keep a writer out.
MayWriteOverReaders(p) == MayRead(p)

MayWrite(p) == \A q \in Others(p) : tx[q] \notin {"exclusive", "shared"}

Goto(p, s) == pc' = [pc EXCEPT ![p] = s]

----------------------------------------------------------------------------
(* Updates: DBWriteNVState, DBUpdateTrigLog, DBUpdateHeartbeatLog and      *)
(* DBIRScript.                                                             *)

\* dbTxBegin for an exclusive transaction.  simpleTX reports success also
\* when the busy handler has given up: the update goes on without one.
BeginUpdate(p, k, v) ==
  /\ pc[p] = "idle" /\ ops[p] < MaxOps
  /\ ops' = [ops EXCEPT ![p] = @ + 1]
  /\ key' = [key EXCEPT ![p] = k]
  /\ value' = [value EXCEPT ![p] = v]
  /\ res' = [res EXCEPT ![p] = TRUE]
  /\ \/ /\ MayWrite(p)
        /\ tx' = [tx EXCEPT ![p] = "exclusive"]
        /\ base' = [base EXCEPT ![p] = rows]
        /\ UNCHANGED bare
     \/ /\ ~MayWrite(p)
        /\ bare' = bare \union {p}
        /\ UNCHANGED <<tx, base>>
  /\ Goto(p, "find")
  /\ UNCHANGED rows

\* dbReadField finds the row; an error is the same as no row.
Found(p) == MayRead(p) /\ rows[key[p]] # <<>>

Find(p) ==
  /\ pc[p] = "find"
  /\ Goto(p, IF Found(p) THEN "delete" ELSE "insert")
  /\ UNCHANGED <<key, value, res, tx, base, rows, ops, bare>>

\* dbDeleteRow, which may fail on its own (a full disk).
Delete(p) ==
  /\ pc[p] = "delete"
  /\ \/ /\ MayWrite(p)
        /\ rows' = [rows EXCEPT ![key[p]] = <<>>]
        /\ Goto(p, "insert")
        /\ UNCHANGED res
     \/ /\ res' = [res EXCEPT ![p] = FALSE]
        /\ Goto(p, "end")
        /\ UNCHANGED rows
  /\ UNCHANGED <<key, value, tx, base, ops, bare>>

\* The new row, which may fail too.
Insert(p) ==
  /\ pc[p] = "insert"
  /\ \/ /\ MayWrite(p)
        /\ rows' = [rows EXCEPT ![key[p]] = Append(@, value[p])]
        /\ UNCHANGED res
     \/ /\ res' = [res EXCEPT ![p] = FALSE]
        /\ UNCHANGED rows
  /\ Goto(p, "end")
  /\ UNCHANGED <<key, value, tx, base, ops, bare>>

\* A mutant of RowsAfter: a failed update is committed.
RowsCommitted(p) == rows

\* COMMIT, or ROLLBACK if a statement failed; without a transaction either is
\* an error that is not looked at.
RowsAfter(p) == IF tx[p] = "exclusive" /\ ~res[p] THEN base[p] ELSE rows

\* A mutant of TxAfter: the transaction is ended only if all went well.
TxLeftOpen(p) == IF res[p] THEN "none" ELSE tx[p]

TxAfter(p) == "none"

\* dbTxEnd.
End(p) ==
  /\ pc[p] = "end"
  /\ rows' = RowsAfter(p)
  /\ tx' = [tx EXCEPT ![p] = TxAfter(p)]
  /\ Goto(p, "idle")
  /\ UNCHANGED <<key, value, res, base, ops, bare>>

----------------------------------------------------------------------------
(* Reads: DBReadNVState, DBFetchScript and DBFetchScriptByTag.             *)

\* dbTxBegin for a deferred transaction locks nothing.
BeginFetch(p, k) ==
  /\ pc[p] = "idle" /\ ops[p] < MaxOps
  /\ ops' = [ops EXCEPT ![p] = @ + 1]
  /\ key' = [key EXCEPT ![p] = k]
  /\ value' = [value EXCEPT ![p] = None]
  /\ res' = [res EXCEPT ![p] = TRUE]
  /\ tx' = [tx EXCEPT ![p] = "deferred"]
  /\ Goto(p, "fetch")
  /\ UNCHANGED <<base, rows, bare>>

\* dbReadField: the oldest row, and no value for an error as for no row.
Fetch(p) ==
  /\ pc[p] = "fetch"
  /\ \/ /\ MayRead(p)
        /\ tx' = [tx EXCEPT ![p] = "shared"]
        /\ value' = [value EXCEPT ![p] =
                       IF rows[key[p]] = <<>> THEN None ELSE Head(rows[key[p]])]
     \/ /\ ~MayRead(p)
        /\ UNCHANGED <<tx, value>>
  /\ Goto(p, "end")
  /\ UNCHANGED <<key, res, base, rows, ops, bare>>

----------------------------------------------------------------------------
\* The process is killed; the next one to open the file rolls it back.
Crash(p) ==
  /\ pc[p] # "idle"
  /\ rows' = IF tx[p] = "exclusive" THEN base[p] ELSE rows
  /\ tx' = [tx EXCEPT ![p] = "none"]
  /\ Goto(p, "idle")
  /\ UNCHANGED <<key, value, res, base, ops, bare>>

Update(p) ==
  \/ \E k \in Keys, v \in Values : BeginUpdate(p, k, v)
  \/ Find(p) \/ Delete(p) \/ Insert(p)

Read(p) ==
  \/ \E k \in Keys : BeginFetch(p, k)
  \/ Fetch(p)

Next == \E p \in Procs : Update(p) \/ Read(p) \/ End(p) \/ Crash(p)

Spec == Init /\ [][Next]_vars

----------------------------------------------------------------------------
(* Properties.                                                             *)

TypeOK ==
  /\ pc \in [Procs -> {"idle", "find", "delete", "insert", "end", "fetch"}]
  /\ key \in [Procs -> Keys]
  /\ value \in [Procs -> Values \union {None}]
  /\ res \in [Procs -> BOOLEAN]
  /\ tx \in [Procs -> {"none", "deferred", "shared", "exclusive"}]
  /\ base \in [Procs -> [Keys -> Seq(Values)]]
  /\ rows \in [Keys -> Seq(Values)]
  /\ bare = {} => \A k \in Keys : Len(rows[k]) <= 1
  /\ ops \in [Procs -> 0 .. MaxOps]
  /\ bare \subseteq Procs

\* The rows that any other process can read: those of an open transaction
\* are not committed.
Committed ==
  IF \E p \in Procs : tx[p] = "exclusive"
  THEN base[CHOOSE p \in Procs : tx[p] = "exclusive"]
  ELSE rows

(***************************************************************************)
(* Updates are atomic: what others can read changes only by the            *)
(* replacement of the row of one key, as a whole, when an update ends well *)
(* - no crash, failing statement or interleaving makes a row disappear or  *)
(* doubles it - as long as no process went on without its transaction.     *)
(***************************************************************************)
ReplacesAtomically ==
  [][bare' = {} /\ Committed' # Committed =>
       \E p \in Procs :
         /\ End(p) /\ res[p]
         /\ Committed' = [Committed EXCEPT ![key[p]] = <<value[p]>>]]_vars

(***************************************************************************)
(* Whatever fails, with or without a transaction, no process keeps a lock  *)
(* between its operations, and no two are in the way of each other's       *)
(* locks: a writer is alone.                                               *)
(***************************************************************************)
LocksRight ==
  \A p \in Procs :
    /\ pc[p] = "idle" => tx[p] = "none"
    /\ tx[p] = "exclusive" => MayWrite(p)

(***************************************************************************)
(* A read that returned a value, or found the row, holds: until its        *)
(* transaction ends nobody changes the row (DBFetchScriptByTag reads two   *)
(* tables in one transaction).                                             *)
(***************************************************************************)
ReadStable ==
  [][\A p \in Procs : tx[p] = "shared" /\ tx'[p] = "shared"
       => rows'[key[p]] = rows[key[p]]]_vars

============================================================================

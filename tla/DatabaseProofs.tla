--------------------------- MODULE DatabaseProofs ---------------------------
(***************************************************************************)
(* Theorems about the updates and reads of the database (Database), for    *)
(* any number of processes, rows and operations.                           *)
(***************************************************************************)
EXTENDS Database, TLAPS

Table == [Keys -> Seq(Values \union {None})]

TypeInv ==
  /\ pc \in [Procs -> {"idle", "find", "delete", "insert", "end", "fetch"}]
  /\ key \in [Procs -> Keys]
  /\ value \in [Procs -> Values \union {None}]
  /\ res \in [Procs -> BOOLEAN]
  /\ tx \in [Procs -> {"none", "deferred", "shared", "exclusive"}]
  /\ base \in [Procs -> Table]
  /\ rows \in Table
  /\ bare \subseteq Procs

\* Which transaction a process has at which statement.
PhaseInv ==
  \A p \in Procs :
    /\ pc[p] = "idle" => tx[p] = "none"
    /\ tx[p] = "shared" => pc[p] = "end"
    /\ tx[p] = "deferred" => pc[p] \in {"fetch", "end"}
    /\ pc[p] = "fetch" => tx[p] = "deferred"

\* A writer is alone.
AloneInv == \A p \in Procs : tx[p] = "exclusive" => MayWrite(p)

\* What a writer has done so far to the rows that others still see.
ProgressInv ==
  bare = {} =>
    \A p \in Procs :
      /\ pc[p] \in {"find", "delete", "insert"} => tx[p] = "exclusive"
      /\ tx[p] = "exclusive" =>
           /\ pc[p] \in {"find", "delete"} => rows = base[p]
           /\ pc[p] = "insert" => rows = [base[p] EXCEPT ![key[p]] = <<>>]
           /\ pc[p] = "end" /\ res[p]
                => rows = [base[p] EXCEPT ![key[p]] = <<value[p]>>]

LockInv == TypeInv /\ PhaseInv /\ AloneInv

----------------------------------------------------------------------------

\* The initial states.
LEMMA InitInv == Init => LockInv /\ ProgressInv
<1> SUFFICES ASSUME Init PROVE LockInv /\ ProgressInv
  OBVIOUS
<1>1. First \in Table
  BY DatabaseAssumption DEF DatabaseAssumption, Table
<1>2. (CHOOSE k \in Keys : TRUE) \in Keys
  BY DatabaseAssumption DEF DatabaseAssumption
<1>3. TypeInv
  BY <1>1, <1>2 DEF Init, TypeInv
<1>4. PhaseInv /\ AloneInv /\ ProgressInv
  BY DEF Init, PhaseInv, AloneInv, ProgressInv
<1>5. QED
  BY <1>3, <1>4 DEF LockInv

\* Types.
LEMMA TypeKept == TypeInv /\ [Next]_vars => TypeInv'
<1> SUFFICES ASSUME TypeInv, [Next]_vars PROVE TypeInv'
  OBVIOUS
<1> USE DEF TypeInv, Goto
<1>1. ASSUME NEW p \in Procs, NEW k \in Keys, NEW v \in Values, BeginUpdate(p, k, v)
      PROVE  TypeInv'
  BY <1>1 DEF BeginUpdate
<1>2. ASSUME NEW p \in Procs, Find(p) PROVE TypeInv'
  BY <1>2 DEF Find
<1>3. ASSUME NEW p \in Procs, Delete(p) PROVE TypeInv'
  <2>1. key[p] \in Keys /\ <<>> \in Seq(Values \union {None})
    OBVIOUS
  <2>2. rows' \in Table
    BY <1>3, <2>1 DEF Delete, Table
  <2>3. QED
    BY <1>3, <2>2 DEF Delete
<1>4. ASSUME NEW p \in Procs, Insert(p) PROVE TypeInv'
  <2>1. /\ key[p] \in Keys /\ rows \in [Keys -> Seq(Values \union {None})]
        /\ value[p] \in Values \union {None}
    BY DEF Table
  <2>2. Append(rows[key[p]], value[p]) \in Seq(Values \union {None})
    BY <2>1
  <2>3. rows' \in Table
    BY <1>4, <2>1, <2>2 DEF Insert, Table
  <2>4. QED
    BY <1>4, <2>3 DEF Insert
<1>5. ASSUME NEW p \in Procs, End(p) PROVE TypeInv'
  BY <1>5 DEF End, RowsAfter, TxAfter
<1>6. ASSUME NEW p \in Procs, NEW k \in Keys, BeginFetch(p, k) PROVE TypeInv'
  BY <1>6 DEF BeginFetch
<1>7. ASSUME NEW p \in Procs, Fetch(p) PROVE TypeInv'
  <2>1. (IF rows[key[p]] = <<>> THEN None ELSE Head(rows[key[p]]))
          \in Values \union {None}
    BY DEF Table
  <2>2. QED
    BY <1>7, <2>1 DEF Fetch
<1>8. ASSUME NEW p \in Procs, Crash(p) PROVE TypeInv'
  BY <1>8 DEF Crash
<1>9. ASSUME UNCHANGED vars PROVE TypeInv'
  BY <1>9 DEF vars
<1>10. QED
  BY <1>1, <1>2, <1>3, <1>4, <1>5, <1>6, <1>7, <1>8, <1>9
     DEF Next, Update, Read

\* Locks: each statement keeps its process's transaction, gets one when the
\* others allow it, or ends it.
LEMMA LocksKept == LockInv /\ [Next]_vars => PhaseInv' /\ AloneInv'
<1> SUFFICES ASSUME LockInv, [Next]_vars PROVE PhaseInv' /\ AloneInv'
  OBVIOUS
<1> USE DEF LockInv, TypeInv, PhaseInv, AloneInv, MayWrite, MayRead, Others, Goto
<1>1. ASSUME NEW p \in Procs, NEW k \in Keys, NEW v \in Values, BeginUpdate(p, k, v)
      PROVE  PhaseInv' /\ AloneInv'
  BY <1>1 DEF BeginUpdate
<1>2. ASSUME NEW p \in Procs, Find(p) PROVE PhaseInv' /\ AloneInv'
  BY <1>2 DEF Find
<1>3. ASSUME NEW p \in Procs, Delete(p) PROVE PhaseInv' /\ AloneInv'
  BY <1>3 DEF Delete
<1>4. ASSUME NEW p \in Procs, Insert(p) PROVE PhaseInv' /\ AloneInv'
  BY <1>4 DEF Insert
<1>5. ASSUME NEW p \in Procs, End(p) PROVE PhaseInv' /\ AloneInv'
  BY <1>5 DEF End, TxAfter
<1>6. ASSUME NEW p \in Procs, NEW k \in Keys, BeginFetch(p, k)
      PROVE  PhaseInv' /\ AloneInv'
  BY <1>6 DEF BeginFetch
<1>7. ASSUME NEW p \in Procs, Fetch(p) PROVE PhaseInv' /\ AloneInv'
  BY <1>7 DEF Fetch
<1>8. ASSUME NEW p \in Procs, Crash(p) PROVE PhaseInv' /\ AloneInv'
  BY <1>8 DEF Crash
<1>9. ASSUME UNCHANGED vars PROVE PhaseInv' /\ AloneInv'
  BY <1>9 DEF vars
<1>10. QED
  BY <1>1, <1>2, <1>3, <1>4, <1>5, <1>6, <1>7, <1>8, <1>9
     DEF Next, Update, Read

\* Progress: while every update has its transaction, only the writer changes
\* the rows.
LEMMA ProgressKept == LockInv /\ ProgressInv /\ [Next]_vars => ProgressInv'
<1> SUFFICES ASSUME LockInv, ProgressInv, [Next]_vars, bare' = {}
             PROVE  \A q \in Procs :
                      /\ pc'[q] \in {"find", "delete", "insert"} => tx'[q] = "exclusive"
                      /\ tx'[q] = "exclusive" =>
                           /\ pc'[q] \in {"find", "delete"} => rows' = base'[q]
                           /\ pc'[q] = "insert" =>
                                rows' = [base'[q] EXCEPT ![key'[q]] = <<>>]
                           /\ pc'[q] = "end" /\ res'[q] =>
                                rows' = [base'[q] EXCEPT ![key'[q]] = <<value'[q]>>]
  BY DEF ProgressInv
<1> DEFINE Goal == \A q \in Procs :
                     /\ pc'[q] \in {"find", "delete", "insert"} => tx'[q] = "exclusive"
                     /\ tx'[q] = "exclusive" =>
                          /\ pc'[q] \in {"find", "delete"} => rows' = base'[q]
                          /\ pc'[q] = "insert" =>
                               rows' = [base'[q] EXCEPT ![key'[q]] = <<>>]
                          /\ pc'[q] = "end" /\ res'[q] =>
                               rows' = [base'[q] EXCEPT ![key'[q]] = <<value'[q]>>]
<1>a. bare = {}
  BY DEF Next, Update, Read, BeginUpdate, Find, Delete, Insert, End, BeginFetch,
         Fetch, Crash, vars
<1>b. \A q \in Procs :
        /\ pc[q] \in {"find", "delete", "insert"} => tx[q] = "exclusive"
        /\ tx[q] = "exclusive" =>
             /\ pc[q] \in {"find", "delete"} => rows = base[q]
             /\ pc[q] = "insert" => rows = [base[q] EXCEPT ![key[q]] = <<>>]
             /\ pc[q] = "end" /\ res[q]
                  => rows = [base[q] EXCEPT ![key[q]] = <<value[q]>>]
  BY <1>a DEF ProgressInv
<1>c. \A q \in Procs : tx[q] = "exclusive" =>
        \A o \in Procs \ {q} : tx[o] \notin {"exclusive", "shared"}
  BY DEF LockInv, AloneInv, MayWrite, Others
<1>d. rows \in Table /\ base \in [Procs -> Table] /\ key \in [Procs -> Keys]
  BY DEF LockInv, TypeInv
<1> USE DEF LockInv, TypeInv, Goto
<1>1. ASSUME NEW p \in Procs, NEW k \in Keys, NEW v \in Values, BeginUpdate(p, k, v)
      PROVE  Goal
  <2>1. /\ pc[p] = "idle" /\ MayWrite(p) /\ rows' = rows
        /\ tx' = [tx EXCEPT ![p] = "exclusive"]
        /\ base' = [base EXCEPT ![p] = rows]
    BY <1>1, <1>a DEF BeginUpdate
  <2>2. \A q \in Procs \ {p} : tx'[q] # "exclusive" /\ pc'[q] = pc[q] /\ tx'[q] = tx[q]
    BY <1>1, <2>1 DEF BeginUpdate, MayWrite, Others
  <2>3. pc'[p] = "find" /\ tx'[p] = "exclusive" /\ base'[p] = rows
    BY <1>1, <2>1 DEF BeginUpdate
  <2>4. QED
    BY <1>b, <2>1, <2>2, <2>3
<1>2. ASSUME NEW p \in Procs, Find(p) PROVE Goal
  <2>1. pc[p] = "find" /\ tx[p] = "exclusive" /\ rows = base[p]
    BY <1>2, <1>b DEF Find
  <2>2. MayRead(p)
    BY <1>c, <2>1 DEF MayRead, Others
  <2>3. CASE rows[key[p]] = <<>>
    <3>1. rows = [base[p] EXCEPT ![key[p]] = <<>>]
      BY <1>d, <2>1, <2>3 DEF Table
    <3>2. pc' = [pc EXCEPT ![p] = "insert"]
      BY <1>2, <2>3 DEF Find, Found
    <3>3. QED
      BY <1>2, <1>b, <2>1, <3>1, <3>2 DEF Find
  <2>4. CASE rows[key[p]] # <<>>
    <3>1. pc' = [pc EXCEPT ![p] = "delete"]
      BY <1>2, <2>2, <2>4 DEF Find, Found
    <3>2. QED
      BY <1>2, <1>b, <2>1, <3>1 DEF Find
  <2>5. QED
    BY <2>3, <2>4
<1>3. ASSUME NEW p \in Procs, Delete(p) PROVE Goal
  <2>1. pc[p] = "delete" /\ tx[p] = "exclusive" /\ rows = base[p]
    BY <1>3, <1>b DEF Delete
  <2>2. \A q \in Procs \ {p} :
          tx'[q] # "exclusive" /\ pc'[q] = pc[q] /\ tx'[q] = tx[q]
    BY <1>3, <1>c, <2>1 DEF Delete
  <2>3. \/ pc'[p] = "insert" /\ rows' = [base[p] EXCEPT ![key[p]] = <<>>]
        \/ pc'[p] = "end" /\ res'[p] = FALSE
    BY <1>3, <2>1 DEF Delete
  <2>4. tx'[p] = "exclusive" /\ base' = base /\ key' = key
    BY <1>3, <2>1 DEF Delete
  <2>5. QED
    BY <1>b, <2>2, <2>3, <2>4
<1>4. ASSUME NEW p \in Procs, Insert(p) PROVE Goal
  <2>1. /\ pc[p] = "insert" /\ tx[p] = "exclusive"
        /\ rows = [base[p] EXCEPT ![key[p]] = <<>>]
    BY <1>4, <1>b DEF Insert
  <2>2. \A q \in Procs \ {p} :
          tx'[q] # "exclusive" /\ pc'[q] = pc[q] /\ tx'[q] = tx[q]
    BY <1>4, <1>c, <2>1 DEF Insert
  <2>3. key[p] \in Keys /\ base[p] \in Table /\ rows[key[p]] = <<>>
    BY <1>d, <2>1 DEF Table
  <2>4. Append(rows[key[p]], value[p]) = <<value[p]>>
    BY <2>3
  <2>5. \/ rows' = [rows EXCEPT ![key[p]] = <<value[p]>>]
        \/ res'[p] = FALSE
    BY <1>4, <2>4 DEF Insert
  <2>6. \/ rows' = [base[p] EXCEPT ![key[p]] = <<value[p]>>]
        \/ res'[p] = FALSE
    BY <2>1, <2>3, <2>5 DEF Table
  <2>7. pc'[p] = "end" /\ tx'[p] = "exclusive" /\ base' = base /\ key' = key /\ value' = value
    BY <1>4, <2>1 DEF Insert
  <2>8. QED
    BY <1>b, <2>2, <2>6, <2>7
<1>5. ASSUME NEW p \in Procs, End(p) PROVE Goal
  <2>1. tx[p] # "exclusive" => rows' = rows
    BY <1>5 DEF End, RowsAfter
  <2>2. tx' = [tx EXCEPT ![p] = "none"] /\ pc' = [pc EXCEPT ![p] = "idle"]
    BY <1>5 DEF End, TxAfter
  <2>3. base' = base /\ key' = key /\ value' = value /\ res' = res
    BY <1>5 DEF End
  <2>4. QED
    BY <1>b, <1>c, <2>1, <2>2, <2>3
<1>6. ASSUME NEW p \in Procs, NEW k \in Keys, BeginFetch(p, k) PROVE Goal
  BY <1>6, <1>b DEF BeginFetch
<1>7. ASSUME NEW p \in Procs, Fetch(p) PROVE Goal
  <2>1. tx[p] = "deferred"
    BY <1>7 DEF Fetch, PhaseInv
  <2>2. QED
    BY <1>7, <1>b, <2>1 DEF Fetch
<1>8. ASSUME NEW p \in Procs, Crash(p) PROVE Goal
  <2>1. tx[p] # "exclusive" => rows' = rows
    BY <1>8 DEF Crash
  <2>2. tx' = [tx EXCEPT ![p] = "none"] /\ pc' = [pc EXCEPT ![p] = "idle"]
    BY <1>8 DEF Crash
  <2>3. base' = base /\ key' = key /\ value' = value /\ res' = res
    BY <1>8 DEF Crash
  <2>4. QED
    BY <1>b, <1>c, <2>1, <2>2, <2>3
<1>9. ASSUME UNCHANGED vars PROVE Goal
  BY <1>9, <1>b DEF vars
<1>10. QED
  BY <1>1, <1>2, <1>3, <1>4, <1>5, <1>6, <1>7, <1>8, <1>9
     DEF Next, Update, Read

----------------------------------------------------------------------------

\* What others can read, with and without a writer.
CommittedIs ==
  /\ \A p \in Procs : tx[p] = "exclusive" => Committed = base[p]
  /\ (\A p \in Procs : tx[p] # "exclusive") => Committed = rows

LEMMA CommittedRows == LockInv => CommittedIs
<1> SUFFICES ASSUME LockInv PROVE CommittedIs
  OBVIOUS
<1>1. ASSUME NEW p \in Procs, tx[p] = "exclusive" PROVE Committed = base[p]
  <2>1. \A q \in Procs : tx[q] = "exclusive" => q = p
    BY <1>1 DEF LockInv, AloneInv, MayWrite, Others
  <2>2. (CHOOSE q \in Procs : tx[q] = "exclusive") = p
    BY <1>1, <2>1
  <2>3. QED
    BY <1>1, <2>2 DEF Committed
<1>2. ASSUME \A p \in Procs : tx[p] # "exclusive" PROVE Committed = rows
  BY <1>2 DEF Committed
<1>3. QED
  BY <1>1, <1>2 DEF CommittedIs

\* Both invariants hold in every state.
LEMMA Invariant == Spec => [](LockInv /\ ProgressInv)
<1>1. LockInv /\ ProgressInv /\ [Next]_vars => LockInv' /\ ProgressInv'
  BY TypeKept, LocksKept, ProgressKept DEF LockInv
<1>2. QED
  BY InitInv, <1>1, PTL DEF Spec

(***************************************************************************)
(* LocksRight for any number of processes: whatever fails, dbTxEnd gives   *)
(* back what dbTxBegin has taken, and a writer is alone.                   *)
(***************************************************************************)
THEOREM LocksAreRight == Spec => []LocksRight
<1>1. LockInv => LocksRight
  BY DEF LockInv, PhaseInv, AloneInv, LocksRight
<1>2. QED
  BY Invariant, <1>1, PTL

(***************************************************************************)
(* ReadStable for any number of processes: a row that was read in a        *)
(* transaction, as by DBFetchScriptByTag, stays until the transaction ends.*)
(***************************************************************************)
THEOREM ReadsAreStable == Spec => ReadStable
<1>1. LockInv /\ [Next]_vars =>
        [\A p \in Procs : tx[p] = "shared" /\ tx'[p] = "shared"
           => rows'[key[p]] = rows[key[p]]]_vars
  <2> SUFFICES ASSUME LockInv, Next, NEW p \in Procs,
                      tx[p] = "shared", tx'[p] = "shared"
               PROVE  rows' = rows
    OBVIOUS
  <2>1. \A q \in Procs : tx[q] # "exclusive"
    BY DEF LockInv, AloneInv, MayWrite, Others
  <2>2. \A q \in Procs : MayWrite(q) => q = p
    BY DEF MayWrite, Others
  <2>3. pc[p] = "end"
    BY DEF LockInv, PhaseInv
  <2>4. QED
    BY <2>1, <2>2, <2>3
       DEF Next, Update, Read, BeginUpdate, Find, Delete, Insert, End, RowsAfter,
           BeginFetch, Fetch, Crash
<1>2. QED
  BY Invariant, <1>1, PTL DEF Spec, ReadStable

(***************************************************************************)
(* ReplacesAtomically for any number of processes, rows and operations: as *)
(* long as no BEGIN was given up, what others can read changes only when   *)
(* an update commits, by the replacement of its row.                       *)
(***************************************************************************)
THEOREM UpdatesAreAtomic == Spec => ReplacesAtomically
<1>1. ASSUME LockInv, ProgressInv, Next, LockInv', CommittedIs, CommittedIs',
             bare' = {}, Committed' # Committed
      PROVE  \E p \in Procs :
               /\ End(p) /\ res[p]
               /\ Committed' = [Committed EXCEPT ![key[p]] = <<value[p]>>]
  <2>a. bare = {}
    BY <1>1 DEF Next, Update, Read, BeginUpdate, Find, Delete, Insert, End,
                BeginFetch, Fetch, Crash
  <2>b. \A q \in Procs :
          /\ pc[q] \in {"delete", "insert"} => tx[q] = "exclusive"
          /\ tx[q] = "exclusive" =>
               \A o \in Procs \ {q} : tx[o] \notin {"exclusive", "shared"}
          /\ tx[q] = "exclusive" /\ pc[q] = "end" /\ res[q]
               => rows = [base[q] EXCEPT ![key[q]] = <<value[q]>>]
    BY <1>1, <2>a DEF ProgressInv, LockInv, AloneInv, MayWrite, Others
  \* Whoever is or is not the writer, and which rows it restores, is the same.
  <2>c. ASSUME base' = base, \A q \in Procs : tx'[q] = "exclusive" <=> tx[q] = "exclusive",
               rows' = rows \/ \E q \in Procs : tx[q] = "exclusive"
        PROVE  Committed' = Committed
    BY <1>1, <2>c DEF CommittedIs
  <2> USE DEF Goto
  <2>1. ASSUME NEW p \in Procs, NEW k \in Keys, NEW v \in Values, BeginUpdate(p, k, v)
        PROVE  Committed' = Committed
    <3>1. MayWrite(p) /\ tx' = [tx EXCEPT ![p] = "exclusive"] /\ base' = [base EXCEPT ![p] = rows]
      BY <1>1, <2>1, <2>a DEF BeginUpdate
    <3>2. tx[p] = "none"
      BY <1>1, <2>1 DEF BeginUpdate, LockInv, PhaseInv
    <3>3. \A q \in Procs : tx[q] # "exclusive"
      BY <3>1, <3>2 DEF MayWrite, Others
    <3>4. tx'[p] = "exclusive" /\ base'[p] = rows
      BY <1>1, <3>1 DEF LockInv, TypeInv
    <3>5. QED
      BY <1>1, <3>3, <3>4 DEF CommittedIs
  <2>2. ASSUME NEW p \in Procs, Find(p) PROVE Committed' = Committed
    BY <2>2, <2>c DEF Find
  <2>3. ASSUME NEW p \in Procs, Delete(p) PROVE Committed' = Committed
    BY <2>3, <2>b, <2>c DEF Delete
  <2>4. ASSUME NEW p \in Procs, Insert(p) PROVE Committed' = Committed
    BY <2>4, <2>b, <2>c DEF Insert
  <2>5. ASSUME NEW p \in Procs, End(p)
        PROVE  /\ res[p]
               /\ Committed' = [Committed EXCEPT ![key[p]] = <<value[p]>>]
    <3>1. /\ pc[p] = "end" /\ base' = base /\ rows' = RowsAfter(p)
          /\ tx' = [tx EXCEPT ![p] = "none"]
      BY <2>5 DEF End, TxAfter
    <3>2. tx \in [Procs -> {"none", "deferred", "shared", "exclusive"}]
      BY <1>1 DEF LockInv, TypeInv
    <3>3. tx[p] = "exclusive"
      <4>1. SUFFICES ASSUME tx[p] # "exclusive" PROVE FALSE
        OBVIOUS
      <4>2. rows' = rows /\ \A q \in Procs : tx'[q] = "exclusive" <=> tx[q] = "exclusive"
        BY <3>1, <3>2, <4>1 DEF RowsAfter
      <4>3. QED
        BY <1>1, <2>c, <3>1, <4>2
    <3>4. Committed = base[p] /\ Committed' = rows'
      <4>1. \A q \in Procs : tx'[q] # "exclusive"
        BY <2>b, <3>1, <3>2, <3>3
      <4>2. QED
        BY <1>1, <3>3, <4>1 DEF CommittedIs
    <3>5. res[p]
      BY <1>1, <3>1, <3>3, <3>4 DEF RowsAfter
    <3>6. rows' = rows /\ rows = [base[p] EXCEPT ![key[p]] = <<value[p]>>]
      BY <2>b, <3>1, <3>3, <3>5 DEF RowsAfter
    <3>7. QED
      BY <3>4, <3>5, <3>6
  <2>6. ASSUME NEW p \in Procs, NEW k \in Keys, BeginFetch(p, k)
        PROVE  Committed' = Committed
    <3>1. tx[p] = "none" /\ tx' = [tx EXCEPT ![p] = "deferred"]
      BY <1>1, <2>6 DEF BeginFetch, LockInv, PhaseInv
    <3>2. QED
      BY <1>1, <2>6, <2>c, <3>1 DEF BeginFetch, LockInv, TypeInv
  <2>7. ASSUME NEW p \in Procs, Fetch(p) PROVE Committed' = Committed
    <3>1. tx[p] = "deferred"
      BY <1>1, <2>7 DEF Fetch, LockInv, PhaseInv
    <3>2. QED
      BY <1>1, <2>7, <2>c, <3>1 DEF Fetch, LockInv, TypeInv
  <2>8. ASSUME NEW p \in Procs, Crash(p) PROVE Committed' = Committed
    <3>1. /\ base' = base /\ tx' = [tx EXCEPT ![p] = "none"]
          /\ rows' = IF tx[p] = "exclusive" THEN base[p] ELSE rows
      BY <2>8 DEF Crash
    <3>2. tx \in [Procs -> {"none", "deferred", "shared", "exclusive"}]
      BY <1>1 DEF LockInv, TypeInv
    <3>3. CASE tx[p] = "exclusive"
      <4>1. \A q \in Procs : tx'[q] # "exclusive"
        BY <2>b, <3>1, <3>2, <3>3
      <4>2. QED
        BY <1>1, <3>1, <3>3, <4>1 DEF CommittedIs
    <3>4. CASE tx[p] # "exclusive"
      BY <2>c, <3>1, <3>2, <3>4
    <3>5. QED
      BY <3>3, <3>4
  <2>9. QED
    BY <1>1, <2>1, <2>2, <2>3, <2>4, <2>5, <2>6, <2>7, <2>8 DEF Next, Update, Read
<1>2. LockInv /\ ProgressInv /\ LockInv' /\ CommittedIs /\ CommittedIs' /\ [Next]_vars =>
        [bare' = {} /\ Committed' # Committed =>
           \E p \in Procs :
             /\ End(p) /\ res[p]
             /\ Committed' = [Committed EXCEPT ![key[p]] = <<value[p]>>]]_vars
  BY <1>1
<1>3. QED
  BY Invariant, CommittedRows, <1>2, PTL DEF Spec, ReplacesAtomically

============================================================================

-------------------------- MODULE SqlitePoolProofs --------------------------
(* Proofs about SqlitePool, for any number of connections and calls.          *)
EXTENDS SqlitePool, TLAPS

Users == Call \cup {Nobody}
AllRows == UNION {Rows(c) : c \in Call}
Pcs == {"idle", "acquired", "open", "ok", "error", "cancelled"}

Txs == (SUBSET AllRows) \cup {NoTx}
Conns == [user : Users, tx : Txs]
Places == [pc : Pcs, on : Connection \cup {Nobody}, written : SUBSET AllRows]

PoolType ==
    /\ conn \in [Connection -> Conns]
    /\ db \subseteq AllRows
    /\ call \in [Call -> Places]

\* A call with a connection is its only user, and the transaction it has open
\* holds its own statements and no others: an orphaned transaction is never the
\* one a call believes to have open.
Exclusive == \A c \in Call :
    /\ call[c].pc \in {"acquired", "open"} =>
           call[c].on \in Connection /\ conn[call[c].on].user = c
    /\ call[c].pc = "acquired" => call[c].written = {}
    /\ call[c].pc = "open" =>
           c \in Transaction /\ Tx(c) = call[c].written /\ call[c].written \subseteq Rows(c)

PInv == PoolType /\ Exclusive /\ CommittedWhole /\ AcknowledgedDurable

LEMMA RowsOfCall ==
    /\ \A c \in Call : Rows(c) \subseteq AllRows /\ Rows(c) # {}
    /\ \A c, d \in Call : \A row \in Rows(c) : row \in Rows(d) => c = d
<1>1. ASSUME NEW c \in Call PROVE Rows(c) \subseteq AllRows
  BY DEF AllRows
<1>2. ASSUME NEW c \in Call PROVE [call |-> c, row |-> 1] \in Rows(c)
  BY DEF Rows
<1>3. ASSUME NEW c, NEW row \in Rows(c) PROVE row.call = c
  BY DEF Rows
<1> QED
  BY <1>1, <1>2, <1>3

LEMMA InitPool == PInit => PInv
<1> SUFFICES ASSUME PInit PROVE PInv
  OBVIOUS
<1>1. PoolType
  BY DEF PInit, PoolType, Unused, Idle, Users, Pcs, Txs, Conns, Places
<1>2. \A c \in Call : call[c].pc = "idle"
  BY DEF PInit, Idle
<1>3. Exclusive
  BY <1>2 DEF Exclusive
<1>4. CommittedWhole
  BY DEF CommittedWhole, PInit
<1>5. AcknowledgedDurable
  BY <1>2 DEF AcknowledgedDurable, Call
<1> QED
  BY <1>1, <1>3, <1>4, <1>5 DEF PInv

\* A step of one call leaves the others' connections and rows alone.
LEMMA OthersKept ==
    ASSUME PInv, NEW c \in Call, NEW k \in Connection, conn[k].user \in {c, Nobody},
           NEW row, conn' = [conn EXCEPT ![k] = row],
           NEW at, call' = [call EXCEPT ![c] = at]
    PROVE  \A d \in Call \ {c} :
             /\ call'[d] = call[d]
             /\ call[d].pc \in {"acquired", "open"} =>
                    /\ call[d].on # k
                    /\ conn'[call[d].on] = conn[call[d].on]
<1> SUFFICES ASSUME NEW d \in Call \ {c}
             PROVE  /\ call'[d] = call[d]
                    /\ call[d].pc \in {"acquired", "open"} =>
                           /\ call[d].on # k
                           /\ conn'[call[d].on] = conn[call[d].on]
  OBVIOUS
<1>1. call'[d] = call[d]
  BY DEF PInv, PoolType
<1>2. d # Nobody
  BY CallAssumption DEF Call
<1>3. ASSUME call[d].pc \in {"acquired", "open"} PROVE call[d].on # k /\ call[d].on \in Connection
  BY <1>2, <1>3 DEF PInv, Exclusive
<1> QED
  BY <1>1, <1>3 DEF PInv, PoolType

\* A step of call c on connection k: the connection and the call after it, and
\* the rows it commits.
OwnStep(c, k, row, at, new) ==
    /\ conn[k].user \in {c, Nobody}
    /\ row \in Conns /\ conn' = [conn EXCEPT ![k] = row]
    /\ at \in Places /\ call' = [call EXCEPT ![c] = at]
    /\ new \in {{}, Rows(c)} /\ db' = db \cup new
    /\ at.pc \in {"acquired", "open"} => at.on = k /\ row.user = c
    /\ at.pc = "acquired" => at.written = {}
    /\ at.pc = "open" => c \in Transaction /\ row.tx = at.written /\ at.written \subseteq Rows(c)
    /\ at.pc = "ok" /\ c \in Transaction => new = Rows(c)

LEMMA OwnStepKeeps ==
    ASSUME PInv, NEW c \in Call, NEW k \in Connection, NEW row, NEW at, NEW new,
           OwnStep(c, k, row, at, new)
    PROVE  PInv'
<1> USE DEF OwnStep
<1>1. /\ conn'[k] = row
      /\ call'[c] = at
      /\ new \subseteq AllRows
  BY RowsOfCall DEF PInv, PoolType
<1>2. PoolType'
  BY <1>1 DEF PInv, PoolType
<1>3. \A d \in Call \ {c} : /\ call'[d] = call[d]
                            /\ call[d].pc \in {"acquired", "open"} =>
                                   conn'[call[d].on] = conn[call[d].on]
  BY OthersKept
<1>4. Exclusive'
  BY <1>1, <1>3 DEF PInv, Exclusive, Tx
<1>5. \A d \in Call \ {c} : Rows(d) \cap db' = Rows(d) \cap db
  BY RowsOfCall
<1>6. CommittedWhole'
  <2> SUFFICES ASSUME NEW d \in Transaction PROVE Rows(d) \cap db' \in {{}, Rows(d)}
    BY DEF CommittedWhole
  <2>1. d \in Call /\ Rows(d) \cap db \in {{}, Rows(d)}
    BY DEF Call, PInv, CommittedWhole
  <2> QED
    BY <1>5, <2>1
<1>7. AcknowledgedDurable'
  BY <1>1, <1>3 DEF PInv, AcknowledgedDurable, Call
<1> QED
  BY <1>2, <1>4, <1>6, <1>7 DEF PInv

-----------------------------------------------------------------------------

\* The connection and the state of a call before its step.
LEMMA InTx ==
    ASSUME PInv, NEW c \in Call, call[c].pc \in {"acquired", "open"}
    PROVE  /\ call[c].on \in Connection
           /\ conn[call[c].on].user = c
           /\ Tx(c) \in Txs
           /\ call[c].written \in SUBSET AllRows
           /\ call[c].pc = "open" => /\ c \in Transaction
                                     /\ Tx(c) = call[c].written
                                     /\ Tx(c) \subseteq Rows(c)
<1>1. call[c].on \in Connection /\ conn[call[c].on].user = c
  BY DEF PInv, Exclusive
<1>2. Tx(c) \in Txs /\ call[c].written \in SUBSET AllRows
  BY <1>1 DEF PInv, PoolType, Conns, Places, Tx
<1> QED
  BY <1>1, <1>2 DEF PInv, Exclusive

\* A step that gives the connection back.
GivesBack(c, tx, pc, new) ==
    /\ GiveBack(c, tx) /\ Goto(c, pc) /\ pc \in {"ok", "error", "cancelled"}
    /\ new \in {{}, Rows(c)} /\ db' = db \cup new
    /\ pc = "ok" /\ c \in Transaction => new = Rows(c)

LEMMA GiveBackStep ==
    ASSUME PInv, NEW c \in Call, call[c].pc \in {"acquired", "open"},
           NEW tx \in Txs, NEW pc, NEW new, GivesBack(c, tx, pc, new)
    PROVE  PInv'
<1> USE DEF GivesBack
<1>1. PICK k \in Connection : k = call[c].on /\ conn[k].user = c
  BY InTx
<1>2. PICK row : row = [user |-> Nobody, tx |-> tx]
  OBVIOUS
<1>3. row \in Conns /\ conn' = [conn EXCEPT ![k] = row]
  BY <1>1, <1>2 DEF GiveBack, Users, Conns
<1>4. PICK at : at = [call[c] EXCEPT !.pc = pc]
  OBVIOUS
<1>5. /\ at \in Places
      /\ at.pc = pc /\ call' = [call EXCEPT ![c] = at]
  BY <1>4 DEF Goto, PInv, PoolType, Places, Pcs
<1>6. OwnStep(c, k, row, at, new)
  BY <1>1, <1>3, <1>5 DEF OwnStep
<1> QED
  BY <1>6, OwnStepKeeps

LEMMA AcquireKeeps ==
    ASSUME PInv, NEW c \in Call, NEW k \in Connection, Acquire(c, k) PROVE PInv'
<1>1. PICK row : row = [conn[k] EXCEPT !.user = c]
  OBVIOUS
<1>2. /\ row \in Conns /\ row.user = c
      /\ conn' = [conn EXCEPT ![k] = row]
  BY <1>1 DEF Acquire, PInv, PoolType, Conns, Users
<1>3. PICK at : at = [Idle EXCEPT !.pc = "acquired", !.on = k]
  OBVIOUS
<1>4. /\ at \in Places
      /\ at.pc = "acquired" /\ at.on = k /\ at.written = {}
      /\ call' = [call EXCEPT ![c] = at]
  BY <1>3 DEF Acquire, Idle, Pcs, Places
<1>5. conn[k].user \in {c, Nobody} /\ db' = db \cup {}
  BY DEF Acquire
<1>6. OwnStep(c, k, row, at, {})
  BY <1>2, <1>4, <1>5 DEF OwnStep
<1> QED
  BY <1>6, OwnStepKeeps

LEMMA BeginKeeps ==
    ASSUME PInv, NEW c \in Call, BeginImmediate(c) PROVE PInv'
<1>1. call[c].pc = "acquired" /\ c \in Transaction /\ db' = db \cup {}
  BY DEF BeginImmediate
<1>2. ASSUME GiveBack(c, Tx(c)), Goto(c, "error") PROVE PInv'
  <2>1. GivesBack(c, Tx(c), "error", {})
    BY <1>1, <1>2 DEF GivesBack
  <2> QED
    BY <1>1, <2>1, InTx, GiveBackStep
<1>3. ASSUME conn' = [conn EXCEPT ![call[c].on].tx = {}], Goto(c, "open") PROVE PInv'
  <2>1. PICK k \in Connection : k = call[c].on /\ conn[k].user = c
    BY <1>1, InTx
  <2>2. PICK row : row = [conn[k] EXCEPT !.tx = {}]
    OBVIOUS
  <2>3. /\ row \in Conns
        /\ row.user = c /\ row.tx = {}
        /\ conn' = [conn EXCEPT ![k] = row]
    BY <1>3, <2>1, <2>2 DEF PInv, PoolType, Conns, Txs
  <2>4. PICK at : at = [call[c] EXCEPT !.pc = "open"]
    OBVIOUS
  <2>5. /\ at \in Places
        /\ at.pc = "open" /\ at.on = k /\ at.written = {}
        /\ call' = [call EXCEPT ![c] = at]
    BY <1>1, <1>3, <2>1, <2>4 DEF Goto, PInv, PoolType, Places, Exclusive, Pcs
  <2>6. OwnStep(c, k, row, at, {})
    BY <1>1, <2>1, <2>3, <2>5 DEF OwnStep
  <2> QED
    BY <2>6, OwnStepKeeps
<1> QED
  BY <1>2, <1>3 DEF BeginImmediate

LEMMA StatementKeeps ==
    ASSUME PInv, NEW c \in Call, Statement(c) PROVE PInv'
<1>1. call[c].pc = "open" /\ db' = db \cup {}
  BY DEF Statement
<1>2. PICK r \in Rows(c) : /\ conn' = [conn EXCEPT ![call[c].on].tx = @ \cup {r}]
                           /\ call' = [call EXCEPT ![c].written = @ \cup {r}]
  BY DEF Statement
<1>3. PICK k \in Connection : k = call[c].on /\ conn[k].user = c
  BY <1>1, InTx
<1>4. /\ conn[k].tx = call[c].written /\ call[c].written \subseteq Rows(c)
      /\ c \in Transaction /\ Rows(c) \subseteq AllRows
  BY <1>1, <1>3, InTx, RowsOfCall DEF Tx
<1>5. PICK tx : tx = call[c].written \cup {r}
  OBVIOUS
<1>6. tx \in SUBSET AllRows /\ tx \subseteq Rows(c)
  BY <1>4, <1>5
<1>7. PICK row : row = [conn[k] EXCEPT !.tx = tx]
  OBVIOUS
<1>8. /\ row \in Conns
      /\ row.user = c /\ row.tx = tx
      /\ conn' = [conn EXCEPT ![k] = row]
  BY <1>2, <1>3, <1>4, <1>5, <1>6, <1>7 DEF PInv, PoolType, Conns, Txs
<1>9. PICK at : at = [call[c] EXCEPT !.written = tx]
  OBVIOUS
<1>10. /\ at \in Places
       /\ at.pc = "open" /\ at.on = k /\ at.written = tx
       /\ call' = [call EXCEPT ![c] = at]
  BY <1>1, <1>2, <1>3, <1>5, <1>6, <1>9 DEF PInv, PoolType, Places
<1>11. OwnStep(c, k, row, at, {})
  BY <1>1, <1>3, <1>4, <1>6, <1>8, <1>10 DEF OwnStep
<1> QED
  BY <1>11, OwnStepKeeps

LEMMA EndKeeps ==
    ASSUME PInv, NEW c \in Call, Commit(c) \/ Rollback(c) \/ Autocommit(c) \/ Cancel(c)
    PROVE  PInv'
<1>1. /\ call[c].pc \in {"acquired", "open"} /\ Rows(c) # {}
      /\ NoTx \in Txs /\ Tx(c) \in Txs
      /\ Tx(c) # NoTx => Tx(c) \cup Rows(c) \in Txs
  BY RowsOfCall, InTx DEF Commit, Rollback, Autocommit, Cancel, Txs
<1>2. ASSUME call[c].written = Rows(c) PROVE call[c].pc = "open" /\ Tx(c) = Rows(c)
  BY <1>1, <1>2, InTx DEF PInv, Exclusive
<1>3. CASE Commit(c)
  <2>1. Tx(c) = Rows(c)
    BY <1>2, <1>3 DEF Commit
  <2>2. GivesBack(c, NoTx, "ok", Rows(c)) \/ GivesBack(c, Tx(c), "error", {})
    BY <1>1, <1>3, <2>1 DEF Commit, GivesBack
  <2> QED
    BY <1>1, <2>2, GiveBackStep
<1>4. CASE Rollback(c)
  <2>1. GivesBack(c, NoTx, "error", {}) \/ GivesBack(c, Tx(c), "error", {})
    BY <1>1, <1>4 DEF Rollback, GivesBack
  <2> QED
    BY <1>1, <2>1, GiveBackStep
<1>5. CASE Autocommit(c)
  <2>1. c \notin Transaction
    BY <1>5, CallAssumption DEF Autocommit
  <2>2. \/ Tx(c) # NoTx /\ GivesBack(c, Tx(c) \cup Rows(c), "ok", {})
        \/ GivesBack(c, NoTx, "ok", Rows(c))
        \/ GivesBack(c, NoTx, "error", {})
    BY <1>1, <1>5, <2>1 DEF Autocommit, GivesBack
  <2> QED
    BY <1>1, <2>2, GiveBackStep
<1>6. CASE Cancel(c)
  <2>1. GivesBack(c, Tx(c), "cancelled", {}) \/ GivesBack(c, NoTx, "cancelled", Rows(c))
    BY <1>1, <1>2, <1>6 DEF Cancel, GivesBack
  <2> QED
    BY <1>1, <2>1, GiveBackStep
<1> QED
  BY <1>3, <1>4, <1>5, <1>6

LEMMA RetryKeeps ==
    ASSUME PInv, NEW c \in Call, Retry(c) PROVE PInv'
<1>1. /\ call' = [call EXCEPT ![c] = Idle] /\ UNCHANGED <<conn, db>>
      /\ Idle \in Places
      /\ Idle.pc = "idle"
  BY DEF Retry, Idle, Pcs, Places
<1>2. call'[c].pc = "idle" /\ \A d \in Call \ {c} : call'[d] = call[d]
  BY <1>1 DEF PInv, PoolType
<1>3. PoolType'
  BY <1>1 DEF PInv, PoolType
<1>4. Exclusive'
  BY <1>1, <1>2 DEF PInv, Exclusive, Tx
<1> QED
  BY <1>1, <1>2, <1>3, <1>4 DEF PInv, CommittedWhole, AcknowledgedDurable, Call

LEMMA CloseKeeps ==
    ASSUME PInv, NEW k \in Connection, Close(k) PROVE PInv'
<1>1. /\ conn[k].user = Nobody /\ conn' = [conn EXCEPT ![k] = Unused] /\ UNCHANGED <<db, call>>
      /\ Unused \in Conns
  BY DEF Close, Unused, Users, Conns, Txs
<1>2. PoolType'
  BY <1>1 DEF PInv, PoolType
<1>3. ASSUME NEW c \in Call, call[c].pc \in {"acquired", "open"}
      PROVE  conn'[call[c].on] = conn[call[c].on]
  <2>1. call[c].on # k
    BY <1>1, <1>3, InTx, CallAssumption DEF Call
  <2> QED
    BY <1>1, <1>3, <2>1, InTx DEF PInv, PoolType
<1>4. Exclusive'
  BY <1>1, <1>3 DEF PInv, Exclusive, Tx
<1> QED
  BY <1>1, <1>2, <1>4 DEF PInv, CommittedWhole, AcknowledgedDurable

THEOREM PoolInvariant == PSpec => []PInv
<1>1. ASSUME PInv, [PNext]_pvars PROVE PInv'
  <2>1. CASE UNCHANGED pvars
    BY <1>1, <2>1 DEF pvars, PInv, PoolType, Exclusive, CommittedWhole, AcknowledgedDurable, Tx
  <2>2. CASE PNext
    BY <1>1, <2>2, AcquireKeeps, BeginKeeps, StatementKeeps, EndKeeps, RetryKeeps, CloseKeeps
       DEF PNext
  <2> QED
    BY <1>1, <2>1, <2>2
<1> QED
  BY <1>1, InitPool, PTL DEF PSpec

\* The rows of a call are committed all together or not at all, wherever futures
\* are dropped and whichever connection they leave to whom.
THEOREM TransactionsAreWhole == PSpec => []CommittedWhole
  BY PoolInvariant, PTL DEF PInv

\* A bracketed transaction that was answered Ok is in the database.
THEOREM SuccessIsDurable == PSpec => []AcknowledgedDurable
  BY PoolInvariant, PTL DEF PInv

-----------------------------------------------------------------------------
(* One transaction at a time, an orphaned one included.                       *)

OneWriter == \A j, k \in Connection : conn[j].tx # NoTx /\ conn[k].tx # NoTx => j = k

\* A connection's transaction goes on, or begins while no other has one.
LEMMA WriterStep ==
    ASSUME PInv, OneWriter, NEW k \in Connection, NEW row, conn' = [conn EXCEPT ![k] = row],
           row.tx # NoTx => conn[k].tx # NoTx \/ SlotFree(k)
    PROVE  OneWriter'
<1>1. conn'[k] = row /\ \A j \in Connection \ {k} : conn'[j] = conn[j]
  BY DEF PInv, PoolType
<1>2. row.tx # NoTx => \A j \in Connection \ {k} : conn[j].tx = NoTx
  BY DEF OneWriter, SlotFree
<1> QED
  BY <1>1, <1>2 DEF OneWriter

LEMMA GiveBackWriter ==
    ASSUME PInv, OneWriter, NEW c \in Call, call[c].pc \in {"acquired", "open"},
           NEW tx, GiveBack(c, tx), tx # NoTx => Tx(c) # NoTx
    PROVE  OneWriter'
<1>1. PICK row : row = [user |-> Nobody, tx |-> tx]
  OBVIOUS
<1>2. /\ call[c].on \in Connection /\ row.tx = tx
      /\ conn' = [conn EXCEPT ![call[c].on] = row]
  BY <1>1, InTx DEF GiveBack
<1> QED
  BY <1>2, WriterStep DEF Tx

\* The transaction of a call that is between BEGIN and its end
LEMMA OpenTx ==
    ASSUME PInv, NEW c \in Call, call[c].pc = "open"
    PROVE  call[c].on \in Connection /\ conn[call[c].on].user = c /\ Tx(c) # NoTx
  BY InTx, TxAssumption DEF AllRows

LEMMA OneWriterKept ==
    ASSUME PInv, OneWriter, [PNext]_pvars
    PROVE  OneWriter'
<1>1. ASSUME NEW c \in Call, NEW k \in Connection, Acquire(c, k) PROVE OneWriter'
  <2>1. PICK row : row = [conn[k] EXCEPT !.user = c]
    OBVIOUS
  <2>2. row.tx = conn[k].tx /\ conn' = [conn EXCEPT ![k] = row]
    BY <1>1, <2>1 DEF Acquire, PInv, PoolType, Conns
  <2> QED
    BY <2>2, WriterStep
<1>2. ASSUME NEW c \in Call, BeginImmediate(c) PROVE OneWriter'
  <2>1. call[c].pc = "acquired" /\ call[c].on \in Connection
    BY <1>2, InTx DEF BeginImmediate
  <2>2. CASE GiveBack(c, Tx(c))
    BY <2>1, <2>2, GiveBackWriter
  <2>3. CASE SlotFree(call[c].on) /\ conn' = [conn EXCEPT ![call[c].on].tx = {}]
    <3>1. PICK row : row = [conn[call[c].on] EXCEPT !.tx = {}]
      OBVIOUS
    <3>2. conn' = [conn EXCEPT ![call[c].on] = row]
      BY <2>1, <2>3, <3>1 DEF PInv, PoolType, Conns
    <3> QED
      BY <2>1, <2>3, <3>2, WriterStep
  <2> QED
    BY <1>2, <2>2, <2>3 DEF BeginImmediate
<1>3. ASSUME NEW c \in Call, Statement(c) PROVE OneWriter'
  <2>1. PICK r : conn' = [conn EXCEPT ![call[c].on].tx = @ \cup {r}]
    BY <1>3 DEF Statement
  <2>2. PICK row : row = [conn[call[c].on] EXCEPT !.tx = @ \cup {r}]
    OBVIOUS
  <2>3. call[c].on \in Connection /\ Tx(c) # NoTx
    BY <1>3, OpenTx DEF Statement
  <2>4. conn' = [conn EXCEPT ![call[c].on] = row]
    BY <2>1, <2>2, <2>3 DEF PInv, PoolType, Conns
  <2> QED
    BY <2>3, <2>4, WriterStep DEF Tx
<1>4. ASSUME NEW c \in Call, Commit(c) \/ Rollback(c) \/ Autocommit(c) \/ Cancel(c)
      PROVE  OneWriter'
  <2>1. /\ call[c].pc \in {"acquired", "open"}
        /\ \/ GiveBack(c, NoTx) \/ GiveBack(c, Tx(c))
           \/ Tx(c) # NoTx /\ GiveBack(c, Tx(c) \cup Rows(c))
    BY <1>4 DEF Commit, Rollback, Autocommit, Cancel
  <2> QED
    BY <2>1, GiveBackWriter
<1>5. ASSUME NEW k \in Connection, Close(k) PROVE OneWriter'
  <2>1. conn' = [conn EXCEPT ![k] = Unused] /\ Unused.tx = NoTx
    BY <1>5 DEF Close, Unused
  <2> QED
    BY <2>1, WriterStep
<1>6. CASE UNCHANGED conn
  BY <1>6 DEF OneWriter
<1> QED
  BY <1>1, <1>2, <1>3, <1>4, <1>5, <1>6 DEF PNext, Retry, pvars

\* What a call has read since its BEGIN IMMEDIATE stays true until it ends: the
\* committed rows change by its own COMMIT, and by nothing else.
THEOREM ReadsAreTrue == PSpec => ReadsStayTrue
<1>1. ASSUME PInv, OneWriter, [PNext]_pvars, NEW c \in Transaction,
             call[c].pc = "open", db' # db
      PROVE  db' = db \cup Tx(c) /\ call'[c].pc # "open"
  <2>1. c \in Call /\ call[c].on \in Connection /\ conn[call[c].on].user = c /\ Tx(c) # NoTx
    BY <1>1, OpenTx DEF Call
  <2>2. ASSUME NEW d \in Call, Autocommit(d) PROVE FALSE
    <3>1. SlotFree(call[d].on) /\ call[d].pc = "acquired" /\ d # c
      BY <1>1, <2>2, CallAssumption DEF Autocommit
    <3>2. conn[call[d].on].user = d
      BY <1>1, <3>1, InTx
    <3> QED
      BY <2>1, <3>1, <3>2 DEF SlotFree, Tx
  <2>3. ASSUME NEW d \in Call, Commit(d) \/ Cancel(d)
        PROVE  db' = db \cup Tx(c) /\ call'[c].pc # "open"
    <3>1. /\ db' = db \cup Tx(d) /\ call[d].written = Rows(d)
          /\ call[d].pc \in {"acquired", "open"}
          /\ Goto(d, "ok") \/ Goto(d, "cancelled")
      BY <1>1, <2>3 DEF Commit, Cancel
    <3>2. call[d].pc = "open"
      BY <1>1, <3>1, RowsOfCall DEF PInv, Exclusive
    <3>3. call[d].on \in Connection /\ conn[call[d].on].user = d /\ Tx(d) # NoTx
      BY <1>1, <3>2, OpenTx
    <3>4. d = c
      BY <1>1, <2>1, <3>3 DEF OneWriter, Tx
    <3> QED
      BY <1>1, <3>1, <3>4 DEF Goto, PInv, PoolType, Places
  <2> QED
    BY <1>1, <2>2, <2>3
    DEF PNext, pvars, Acquire, BeginImmediate, Statement, Rollback, Retry, Close
<1>2. PInit => OneWriter
  BY DEF PInit, OneWriter, Unused
<1>3. PInv /\ OneWriter /\ [PNext]_pvars => OneWriter'
  BY OneWriterKept
<1>4. PInv /\ OneWriter /\ [PNext]_pvars =>
        [\A c \in Transaction : call[c].pc = "open" /\ db' # db =>
             db' = db \cup Tx(c) /\ call'[c].pc # "open"]_pvars
  BY <1>1
<1> QED
  BY <1>2, <1>3, <1>4, PoolInvariant, PTL DEF PSpec, ReadsStayTrue
=============================================================================

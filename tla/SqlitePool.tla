----------------------------- MODULE SqlitePool -----------------------------
(* How src/src/db.rs brackets its statements: acquire a connection, BEGIN     *)
(* IMMEDIATE, the statements, COMMIT or ROLLBACK, with a future that may be   *)
(* dropped at every await in between.  RunStore takes all of it as one step;  *)
(* this module is why it may.                                                 *)
(*                                                                            *)
(* Dropping the future gives the connection back to the pool.  BEGIN is sent  *)
(* as a plain statement, so nobody rolls back: the connection comes back with *)
(* its transaction open, and the next call may be given that connection.      *)
EXTENDS Integers, FiniteSets

CONSTANTS
    Connection,   \* the connections of the pool
    Transaction,  \* calls that bracket their statements
    Single,       \* calls of one statement, straight on the pool
    NoTx,         \* the connection is in autocommit mode
    Nobody        \* the connection is idle in the pool

ASSUME CallAssumption == Transaction \cap Single = {} /\ Nobody \notin Transaction \cup Single

Call == Transaction \cup Single
Rows(c) == {[call |-> c, row |-> i] : i \in IF c \in Transaction THEN 1 .. 2 ELSE {1}}

ASSUME TxAssumption == \A rows \in SUBSET UNION {Rows(c) : c \in Call} : rows # NoTx

VARIABLES
    conn,  \* who has a connection, and the rows of the transaction open on it
    db,    \* the committed rows
    call   \* where each call is: the statements it has run and its outcome

pvars == <<conn, db, call>>

Unused == [user |-> Nobody, tx |-> NoTx]
Idle == [pc |-> "idle", on |-> Nobody, written |-> {}]

Goto(c, pc) == call' = [call EXCEPT ![c].pc = pc]

\* The connection goes back to the pool as it is.
GiveBack(c, tx) == conn' = [conn EXCEPT ![call[c].on] = [user |-> Nobody, tx |-> tx]]

Tx(c) == conn[call[c].on].tx

\* SQLite has one writer slot; BEGIN IMMEDIATE waits for it busy_timeout long.
SlotFree(k) == \A j \in Connection \ {k} : conn[j].tx = NoTx

Acquire(c, k) ==
    /\ call[c].pc = "idle"
    /\ conn[k].user = Nobody
    /\ conn' = [conn EXCEPT ![k].user = c]
    /\ call' = [call EXCEPT ![c] = [Idle EXCEPT !.pc = "acquired", !.on = k]]
    /\ UNCHANGED db

\* mutant of BeginImmediate: the error of a BEGIN within a transaction is ignored
BeginImmediate_Anyway(c) ==
    /\ c \in Transaction /\ call[c].pc = "acquired"
    /\ IF SlotFree(call[c].on)
       THEN /\ conn' = [conn EXCEPT ![call[c].on].tx = IF @ = NoTx THEN {} ELSE @]
            /\ Goto(c, "open")
       ELSE GiveBack(c, Tx(c)) /\ Goto(c, "error")
    /\ UNCHANGED db

\* mutant of BeginImmediate: BEGIN, which does not wait for the writer slot
BeginImmediate_Deferred(c) ==
    /\ c \in Transaction /\ call[c].pc = "acquired"
    /\ IF Tx(c) = NoTx
       THEN /\ conn' = [conn EXCEPT ![call[c].on].tx = {}]
            /\ Goto(c, "open")
       ELSE GiveBack(c, Tx(c)) /\ Goto(c, "error")
    /\ UNCHANGED db

\* "cannot start a transaction within a transaction", or SQLITE_BUSY
BeginImmediate(c) ==
    /\ c \in Transaction /\ call[c].pc = "acquired"
    /\ IF SlotFree(call[c].on) /\ Tx(c) = NoTx
       THEN /\ conn' = [conn EXCEPT ![call[c].on].tx = {}]
            /\ Goto(c, "open")
       ELSE GiveBack(c, Tx(c)) /\ Goto(c, "error")
    /\ UNCHANGED db

Statement(c) ==
    /\ call[c].pc = "open"
    /\ \E row \in Rows(c) \ call[c].written :
        /\ conn' = [conn EXCEPT ![call[c].on].tx = @ \cup {row}]
        /\ call' = [call EXCEPT ![c].written = @ \cup {row}]
    /\ UNCHANGED db

\* mutant of Commit: the outcome of COMMIT is not looked at
Commit_Ignored(c) ==
    /\ call[c].pc = "open" /\ call[c].written = Rows(c)
    /\ \/ /\ db' = db \cup Tx(c)
          /\ GiveBack(c, NoTx)
       \/ /\ GiveBack(c, Tx(c))
          /\ UNCHANGED db
    /\ Goto(c, "ok")

\* finish_transaction(Ok): a COMMIT that fails is an error, and not rolled back.
Commit(c) ==
    /\ call[c].pc = "open" /\ call[c].written = Rows(c)
    /\ \/ /\ db' = db \cup Tx(c)
          /\ GiveBack(c, NoTx)
          /\ Goto(c, "ok")
       \/ /\ GiveBack(c, Tx(c))
          /\ Goto(c, "error")
          /\ UNCHANGED db

\* finish_transaction(Err): a statement failed, or a check refused the call.  The
\* outcome of ROLLBACK is not looked at: when it fails the transaction stays open.
Rollback(c) ==
    /\ call[c].pc = "open"
    /\ GiveBack(c, NoTx) \/ GiveBack(c, Tx(c))
    /\ Goto(c, "error")
    /\ UNCHANGED db

\* create_run, release_run_lease, complete_timer: on a connection with an open
\* transaction the statement becomes part of it.
Autocommit(c) ==
    /\ c \in Single /\ call[c].pc = "acquired"
    /\ IF Tx(c) # NoTx
       THEN /\ GiveBack(c, Tx(c) \cup Rows(c))
            /\ Goto(c, "ok")
            /\ UNCHANGED db
       ELSE /\ GiveBack(c, NoTx)
            /\ IF SlotFree(call[c].on)
               THEN db' = db \cup Rows(c) /\ Goto(c, "ok")
               ELSE UNCHANGED db /\ Goto(c, "error")

\* The future is dropped; a COMMIT that was under way may still take effect.
Cancel(c) ==
    /\ call[c].pc \in {"acquired", "open"}
    /\ Goto(c, "cancelled")
    /\ \/ GiveBack(c, Tx(c)) /\ UNCHANGED db
       \/ /\ call[c].written = Rows(c)
          /\ db' = db \cup Tx(c)
          /\ GiveBack(c, NoTx)

\* The application asks again after an error.
Retry(c) ==
    /\ call[c].pc \in {"error", "cancelled"}
    /\ call' = [call EXCEPT ![c] = Idle]
    /\ UNCHANGED <<conn, db>>

\* The pool closes an idle connection, or the process dies: SQLite rolls back.
Close(k) ==
    /\ conn[k].user = Nobody
    /\ conn' = [conn EXCEPT ![k] = Unused]
    /\ UNCHANGED <<db, call>>

PInit == /\ conn = [k \in Connection |-> Unused]
         /\ db = {}
         /\ call = [c \in Call |-> Idle]

PNext == \/ \E c \in Call : \/ \E k \in Connection : Acquire(c, k)
                            \/ BeginImmediate(c) \/ Statement(c) \/ Commit(c) \/ Rollback(c)
                            \/ Autocommit(c) \/ Cancel(c) \/ Retry(c)
         \/ \E k \in Connection : Close(k)

PSpec == PInit /\ [][PNext]_pvars

-----------------------------------------------------------------------------

\* begin_immediate and finish_transaction: wherever a future is dropped and
\* whichever connection it leaves to whom, the rows of a call are committed all
\* together or not at all.
CommittedWhole == \A c \in Transaction : Rows(c) \cap db \in {{}, Rows(c)}

\* A call in a transaction that returned Ok is durable.  (A single statement
\* that was given a connection with a transaction open is not.)
AcknowledgedDurable == \A c \in Transaction : call[c].pc = "ok" => Rows(c) \subseteq db

\* begin_immediate: from BEGIN to COMMIT the committed rows are those the call
\* has read.  The next sequence number, the status and the lease it checks stay
\* as they are until it ends, whoever else works, was dropped, or left a
\* transaction open on another connection.
ReadsStayTrue ==
    [][\A c \in Transaction : call[c].pc = "open" /\ db' # db =>
           db' = db \cup Tx(c) /\ call'[c].pc # "open"]_pvars
=============================================================================

---------------------------- MODULE AgentContext ----------------------------
(* AgentContext and LeaseHeartbeat of src/src/agent.rs over the run store.    *)
(*                                                                            *)
(* A context and its heartbeat are two tasks that present the same lease.  An *)
(* operation of the context takes the gate, looks at the heartbeat's failure, *)
(* renews the lease and runs one transaction; checkpoints do so several times *)
(* with the application's verifier in between.  Every call into the database  *)
(* is a step of its own: it is the transaction of RunStore, or it fails and   *)
(* changes nothing, because the store refuses it or because SQLite does,      *)
(* which may happen to any call at any time.                                  *)
(*                                                                            *)
(* A claim draws a fresh owner id, so a context is named by its owner id.     *)
EXTENDS RunStore

VARIABLE ctx  \* what each context, and its heartbeat, has come to

avars == <<vars, ctx>>

NoLease == [run |-> 0, owner |-> NoOwner, epoch |-> 0]

NoContext == [pc |-> "none", op |-> "", lease |-> NoLease, cp |-> 0,
              gate |-> "free", beat |-> "off", stop |-> FALSE, failed |-> FALSE]

LeaseOf(c, r) == [run |-> r, owner |-> c, epoch |-> runs[r].epoch + 1]

\* The ways a context is over.  "leaked": SQLite failed its last release.
Over == {"failed", "closed", "completed", "leaked", "dropped"}

\* The operations that hold the gate across a renewal and a transaction.
Operation == {"record_response", "record_tool_result", "propose", "fetch", "read"}

Move(c, pc) == ctx' = [ctx EXCEPT ![c].pc = pc]

\* A database call that fails changes no table.
Fails == UNCHANGED vars

-----------------------------------------------------------------------------
(* create, open, force_recover and claim_next_recoverable.                    *)

\* create(): the run is inserted in a transaction of its own.
Create(c, r) ==
    /\ ctx[c].pc = "none"
    /\ CreateRun(r)
    /\ ctx' = [ctx EXCEPT ![c].pc = "claiming", ![c].op = "open", ![c].lease.run = r]

\* open() and force_recover() of any run
Open(c, r, op) ==
    /\ ctx[c].pc = "none"
    /\ op = "recover" => r \in Forced
    /\ ctx' = [ctx EXCEPT ![c].pc = "claiming", ![c].op = op, ![c].lease.run = r]
    /\ UNCHANGED vars

\* claim(): the lease
ClaimLease(c) ==
    LET r == ctx[c].lease.run
    IN  /\ ctx[c].pc = "claiming"
        /\ \/ /\ \E ttl \in Ttl : ClaimRunLease(r, c, ttl, ctx[c].op = "recover")
              /\ ctx' = [ctx EXCEPT ![c].pc = "marking", ![c].lease = LeaseOf(c, r)]
           \/ Fails /\ Move(c, "failed")

\* from_lease(): the heartbeat starts with the context.
Start(c, l) == ctx' = [ctx EXCEPT ![c].pc = "idle", ![c].op = "", ![c].lease = l,
                                  ![c].beat = "sleeping"]

\* claim(): the status, which may be running already; the lease is released
\* when the status cannot be set
MarkRunning(c) ==
    LET l == ctx[c].lease
    IN  /\ ctx[c].pc = "marking"
        /\ \/ UpdateRunStatus(l, "running") /\ Start(c, l)
           \/ /\ ValidRunLease(l) /\ runs[l.run].status = "running"
              /\ UNCHANGED vars
              /\ Start(c, l)
           \/ Fails /\ Move(c, "releasing")

ClaimNext(c) ==
    /\ ctx[c].pc = "none"
    /\ \E ttl \in Ttl : ClaimNextRecoverableRun(c, ttl)
    /\ \E l \in leases' \ leases : Start(c, l)

-----------------------------------------------------------------------------
(* Operations.                                                                *)

Begin(c) ==
    /\ ctx[c].pc = "idle"
    /\ \E op \in Operation : ctx' = [ctx EXCEPT ![c].pc = "locking", ![c].op = op]
    /\ UNCHANGED vars

\* mutant of Return: the guard outlives the operation
Return_KeepsGate(c) == ctx' = [ctx EXCEPT ![c].pc = "idle", ![c].op = "", ![c].cp = 0]

\* The operation returns, or its future is dropped; its guard, if it has one,
\* goes with it.
Return(c) ==
    ctx' = [ctx EXCEPT ![c].pc = "idle", ![c].op = "", ![c].cp = 0,
                       ![c].gate = IF @ = "operation" THEN "free" ELSE @]

\* mutant of LockGate: the gate is not taken
LockGate_NoGate(c) ==
    /\ ctx[c].pc = "locking"
    /\ IF ctx[c].failed THEN Return(c) ELSE Move(c, "renewing")
    /\ UNCHANGED vars

\* prepare_lease_operation: the gate, then ensure_healthy
LockGate(c) ==
    /\ ctx[c].pc = "locking"
    /\ ctx[c].gate = "free"
    /\ IF ctx[c].failed
       THEN Return(c)
       ELSE ctx' = [ctx EXCEPT ![c].pc = "renewing", ![c].gate = "operation"]
    /\ UNCHANGED vars

\* prepare_lease_operation: the renewal
RenewForOperation(c) ==
    /\ ctx[c].pc = "renewing"
    /\ \/ (\E ttl \in Ttl : RenewRunLease(ctx[c].lease, ttl)) /\ Move(c, "transacting")
       \/ Fails /\ Return(c)

Transact(c) ==
    LET l == ctx[c].lease
        op == ctx[c].op
    IN  /\ ctx[c].pc = "transacting"
        /\ \/ /\ op = "record_response"
              /\ \E response \in Response : AppendLlmCall(l, response)
              /\ Return(c)
           \/ /\ op = "record_tool_result"
              /\ \E call \in CallId : RecordToolResult(l, call)
              /\ Return(c)
           \/ /\ op = "propose"
              /\ \E call \in CallId : ProposeCheckpoint(l, call)
              /\ ctx' = [ctx EXCEPT ![c].pc = "locking", ![c].op = "fetch",
                                    ![c].gate = "free", ![c].cp = NextCheckpointId]
           \/ /\ op = "fetch"
              /\ UNCHANGED vars
              /\ \E k \in Candidates(l.run) :
                     /\ ctx[c].cp \in {0, k.id}
                     /\ ctx' = [ctx EXCEPT ![c].pc = "verifying", ![c].op = "verify",
                                           ![c].gate = "free", ![c].cp = k.id]
           \/ /\ op \in {"accept", "reject"}
              /\ DecideCheckpoint(l, ctx[c].cp, op = "accept")
              /\ Return(c)
           \/ Fails /\ Return(c)

\* The verifier returns a Verification, or an error.
VerifierReturns(c) ==
    /\ ctx[c].pc = "verifying"
    /\ \/ \E verdict \in {"accept", "reject"} :
              ctx' = [ctx EXCEPT ![c].pc = "locking", ![c].op = verdict]
       \/ Return(c)
    /\ UNCHANGED vars

-----------------------------------------------------------------------------
(* close and complete.                                                        *)

\* mutant of Finish: the heartbeat is not told to stop
Finish_NoStop(c) ==
    /\ ctx[c].pc = "idle"
    /\ \E op \in {"close", "complete"} :
           ctx' = [ctx EXCEPT ![c].pc = "joining", ![c].op = op]
    /\ UNCHANGED vars

Finish(c) ==
    /\ ctx[c].pc = "idle"
    /\ \E op \in {"close", "complete"} :
           ctx' = [ctx EXCEPT ![c].pc = "joining", ![c].op = op, ![c].stop = TRUE]
    /\ UNCHANGED vars

\* LeaseHeartbeat::stop returns when the task has ended.
JoinHeartbeat(c) ==
    /\ ctx[c].pc = "joining"
    /\ ctx[c].beat = "ended"
    /\ Move(c, IF ctx[c].op = "complete" /\ ~ctx[c].failed THEN "final_renewing"
                                                           ELSE "releasing")
    /\ UNCHANGED vars

\* mutant of GiveUp: complete() returns its error and keeps the lease
GiveUp_KeepsLease(c) == Fails /\ Move(c, "failed")

GiveUp(c) == Fails /\ Move(c, "releasing")

FinalRenew(c) ==
    /\ ctx[c].pc = "final_renewing"
    /\ \/ (\E ttl \in Ttl : RenewRunLease(ctx[c].lease, ttl)) /\ Move(c, "completing")
       \/ GiveUp(c)

Complete(c) ==
    /\ ctx[c].pc = "completing"
    /\ \/ CompleteRun(ctx[c].lease) /\ Move(c, "completed")
       \/ GiveUp(c)

Owned(c) == /\ ctx[c].lease.run \in Run
            /\ runs[ctx[c].lease.run].owner = c

\* mutant of Released: complete() returns what the release returned
Released_AsResult(c) == IF ctx[c].op = "close" THEN "closed"
                        ELSE IF ctx[c].op = "complete" THEN "completed" ELSE "failed"

\* What a context is after its release: the failed claim and the failed
\* complete() return their first error.
Released(c) == IF ctx[c].op = "close" THEN "closed" ELSE "failed"

\* mutant of ReleaseLease: the row is found by its id alone
ReleaseLease_OfRun(c) ==
    /\ ctx[c].pc = "releasing"
    /\ runs' = [runs EXCEPT ![ctx[c].lease.run].owner = NoOwner]
    /\ Move(c, Released(c))
    /\ UNCHANGED <<events, checkpoints, now, leases>>

ReleaseLease(c) ==
    /\ ctx[c].pc = "releasing"
    /\ \/ ReleaseRunLease(ctx[c].lease) /\ Move(c, Released(c))
       \/ Fails /\ Move(c, IF Owned(c) THEN "leaked" ELSE Released(c))

-----------------------------------------------------------------------------
(* The heartbeat.                                                             *)

\* select!: the interval has passed, or the stop signal is there; when both,
\* either is taken.
BeatWakes(c) ==
    /\ ctx[c].beat = "sleeping"
    /\ ctx' = [ctx EXCEPT ![c].beat = "locking"]
    /\ UNCHANGED vars

BeatStops(c) ==
    /\ ctx[c].beat = "sleeping"
    /\ ctx[c].stop
    /\ ctx' = [ctx EXCEPT ![c].beat = "ended"]
    /\ UNCHANGED vars

BeatLocks(c) ==
    /\ ctx[c].beat = "locking"
    /\ ctx[c].gate = "free"
    /\ ctx' = [ctx EXCEPT ![c].beat = "renewing", ![c].gate = "heartbeat"]
    /\ UNCHANGED vars

\* The first failure is kept and ends the task.
BeatRenews(c) ==
    /\ ctx[c].beat = "renewing"
    /\ \/ /\ \E ttl \in Ttl : RenewRunLease(ctx[c].lease, ttl)
          /\ ctx' = [ctx EXCEPT ![c].beat = "sleeping", ![c].gate = "free"]
       \/ /\ Fails
          /\ ctx' = [ctx EXCEPT ![c].beat = "ended", ![c].gate = "free",
                                ![c].failed = TRUE]

-----------------------------------------------------------------------------
(* Dropped futures, dropped contexts, dead processes.                         *)

InOperation == {"locking", "renewing", "transacting", "verifying"}
Owning == {"idle"} \cup InOperation
Consuming == {"joining", "final_renewing", "completing", "releasing"}

CancelOperation(c) ==
    /\ ctx[c].pc \in InOperation
    /\ Return(c)
    /\ UNCHANGED vars

\* The context is dropped, or the future of a claim, of close() or of
\* complete(): the heartbeat is told to stop and nobody waits for it.
Drop(c) ==
    /\ ctx[c].pc \in {"idle", "claiming", "marking"} \cup Consuming
    /\ ctx' = [ctx EXCEPT ![c].pc = "dropped", ![c].stop = TRUE]
    /\ UNCHANGED vars

\* The process dies, and the heartbeat with it.
Crash(c) ==
    /\ ctx[c].pc \notin {"none"} \cup (Over \ {"dropped"})
    /\ ctx' = [ctx EXCEPT ![c].pc = "dropped", ![c].gate = "free",
                          ![c].beat = IF @ = "off" THEN "off" ELSE "ended"]
    /\ UNCHANGED vars

-----------------------------------------------------------------------------

AInit == Init /\ ctx = [c \in Owner |-> NoContext]

\* What a context does of itself once it is in an operation.
Advance(c) ==
    \/ ClaimLease(c) \/ MarkRunning(c)
    \/ LockGate(c) \/ RenewForOperation(c) \/ Transact(c) \/ VerifierReturns(c)
    \/ JoinHeartbeat(c) \/ FinalRenew(c) \/ Complete(c) \/ ReleaseLease(c)

Beat(c) == BeatWakes(c) \/ BeatStops(c) \/ BeatLocks(c) \/ BeatRenews(c)

\* What the application asks for.
Ask(c) ==
    \/ \E r \in Run : Create(c, r) \/ \E op \in {"open", "recover"} : Open(c, r, op)
    \/ ClaimNext(c) \/ Begin(c) \/ Finish(c)
    \/ CancelOperation(c) \/ Drop(c) \/ Crash(c)

ANext ==
    \/ \E c \in Owner : Ask(c) \/ Advance(c) \/ Beat(c)
    \/ (\E t \in Time : Tick(t)) /\ UNCHANGED ctx

ASpec == AInit /\ [][ANext]_avars

\* Tokio polls ready tasks and the verifier returns; a Tokio mutex hands the
\* gate over in the order of the requests; a stop signal that is there is taken
\* before the next interval has passed.
FairContexts == \A c \in Owner :
    /\ WF_avars(Advance(c)) /\ SF_avars(LockGate(c))
    /\ WF_avars(Beat(c)) /\ SF_avars(BeatLocks(c)) /\ SF_avars(BeatStops(c))

AFairSpec == ASpec /\ FairContexts

-----------------------------------------------------------------------------

\* Contexts keep their types, and the gate is held exactly by the operation
\* that renews or transacts, or by the heartbeat that renews.
ContextsOK ==
    /\ \A c \in Owner :
        /\ ctx[c].pc \in {"none", "claiming", "marking"} \cup Owning \cup Consuming \cup Over
        /\ ctx[c].op \in Operation \cup {"", "open", "recover", "verify", "accept",
                                         "reject", "close", "complete"}
        /\ ctx[c].gate = "operation" <=> ctx[c].pc \in {"renewing", "transacting"}
        /\ ctx[c].gate = "heartbeat" <=> ctx[c].beat = "renewing"
        /\ ctx[c].beat # "off" => ctx[c].lease \in leases

\* README "surfaces heartbeat failure before accepting more writes": once the
\* heartbeat of a context has failed, no transaction of the context writes an
\* event, although its lease may still be valid and an operation may have
\* looked at the heartbeat before.
FailureStopsWrites ==
    [][\A c \in Owner : ctx[c].failed =>
           \A e \in events' \ events : ~(/\ e.run = ctx[c].lease.run
                                         /\ e.writer = ctx[c].lease.epoch)]_avars

\* Every way a claim, close() or complete() can fail gives the lease back: a
\* run is owned by a context that is alive, or that was dropped or could not
\* reach the database.
NoOrphanLease == \A r \in Run, c \in Owner : runs[r].owner = c =>
    /\ ctx[c].pc \in {"marking", "leaked", "dropped"} \cup Owning \cup Consuming
    /\ ctx[c].lease.run = r

\* complete() tells the truth: Ok when it completed the run, an error when the
\* run is not completed by this context.
CompletionReported == \A c \in Owner :
    LET l == ctx[c].lease
        completion == {e \in events : /\ e.payload.to = "completed"
                                      /\ e.run = l.run /\ e.writer = l.epoch}
    IN  /\ ctx[c].pc = "completed" => completion # {}
        /\ ctx[c].pc \in {"failed", "closed", "leaked"} => completion = {}

\* Contexts reach the tables only through the functions of the run store, with
\* leases that a claim returned: what holds of RunStore holds here.
UsesTheStore == Spec

\* No operation waits for ever, neither for the gate nor for the heartbeat.
OperationsReturn == \A c \in Owner :
    ctx[c].pc \notin {"none", "idle"} \cup Over ~> ctx[c].pc \in {"idle"} \cup Over
=============================================================================

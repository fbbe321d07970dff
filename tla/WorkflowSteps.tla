--------------------------- MODULE WorkflowSteps ---------------------------
(* Durable named steps: WorkflowContext::step and ::recover of                *)
(* src/src/workflow.rs over claim_step, complete_step and recover_steps of    *)
(* src/src/db.rs.                                                             *)
(*                                                                            *)
(* A call of step() is two transactions around the operation it was given,    *)
(* which takes any time, fails, or returns any value.  Several calls run at   *)
(* once: step() takes &self, so even one context may run several.  A context  *)
(* dies with its process, and a call may be dropped while it waits.           *)
(*                                                                            *)
(* The runs exist: for one that does not, claim_step and recover_steps end    *)
(* with NotFound and change nothing.  The status of the run is not looked at. *)
EXTENDS Naturals, FiniteSets

CONSTANTS
    Run, Name,  \* a step is a name (valid: 1 to 255 bytes) in a run
    Context,    \* the contexts, each with an owner id of its own
    RunOf,      \* the run each context was made for
    NoOwner,    \* owner_id IS NULL
    Call,       \* the calls of step()
    Value,      \* the results an operation may return
    NoValue,    \* result IS NULL, or nothing returned yet
    Confirmed,  \* whether recover() is called only once the calls it takes
                \* steps from are over, as its documentation asks
    MaxFaults   \* bound: how many operations fail, calls are dropped or
                \* processes die

ASSUME StepConstants == /\ RunOf \in [Context -> Run]
                        /\ NoOwner \notin Context
                        /\ NoValue \notin Value
                        /\ Confirmed \in BOOLEAN
                        /\ MaxFaults \in Nat

VARIABLES
    steps,   \* table steps
    calls,   \* what each call has come to
    alive,   \* the contexts whose process still runs
    faults

svars == <<steps, calls, alive, faults>>

Step == Run \X Name
StepOf(x, n) == <<RunOf[x], n>>

AbsentStep == [status |-> "absent", owner |-> NoOwner, result |-> NoValue]
IdleCall == [ctx |-> NoOwner, step |-> <<>>, pc |-> "idle", value |-> NoValue]

\* A call that holds a claim: its operation runs, or its result is on the way.
InFlight == {k \in Call : calls[k].pc \in {"operating", "persisting"}}
Unsuccessful == {"refused", "failed", "dropped"}

-----------------------------------------------------------------------------

\* mutant of Refused: only another owner's running step is refused
Refused_OtherOwner(s, x) == steps[s].status = "running" /\ steps[s].owner # x

Refused(s, x) == steps[s].status = "running"

\* The first transaction of step(): a saved result is returned, a running step
\* is refused, anything else is claimed and its operation started.
ClaimStep(k, x, n) ==
    LET s == StepOf(x, n)
        turn(pc, v) ==
            calls' = [calls EXCEPT ![k] = [ctx |-> x, step |-> s, pc |-> pc, value |-> v]]
    IN  /\ calls[k].pc = "idle"
        /\ x \in alive
        /\ \/ /\ steps[s].status = "completed"
              /\ turn("replayed", steps[s].result)
              /\ UNCHANGED steps
           \/ /\ Refused(s, x)
              /\ turn("refused", NoValue)
              /\ UNCHANGED steps
           \/ /\ steps[s].status # "completed" /\ ~Refused(s, x)
              /\ steps' = [steps EXCEPT ![s].status = "running", ![s].owner = x]
              /\ turn("operating", NoValue)
        /\ UNCHANGED <<alive, faults>>

\* operation().await is Ok
OperationReturns(k, v) ==
    /\ calls[k].pc = "operating"
    /\ calls' = [calls EXCEPT ![k].pc = "persisting", ![k].value = v]
    /\ UNCHANGED <<steps, alive, faults>>

Fault == faults < MaxFaults /\ faults' = faults + 1

\* operation().await is Err, or its value cannot be serialized: step() returns,
\* and the row stays as it is.
OperationFails(k) ==
    /\ calls[k].pc = "operating"
    /\ calls' = [calls EXCEPT ![k].pc = "failed"]
    /\ Fault
    /\ UNCHANGED <<steps, alive>>

\* mutants of MayComplete: the UPDATE forgets status = 'running', or owner_id
MayComplete_AnyStatus(c) == steps[c.step].owner = c.ctx
MayComplete_AnyOwner(c) == steps[c.step].status = "running"

MayComplete(c) == steps[c.step].status = "running" /\ steps[c.step].owner = c.ctx

StoreResult(c) == steps' = [steps EXCEPT ![c.step].status = "completed",
                                         ![c.step].result = c.value]

\* The second transaction of step(): the result is stored if the step is still
\* running in the name of this context; the claim was lost otherwise.
CompleteStep(k) ==
    /\ calls[k].pc = "persisting"
    /\ \/ /\ MayComplete(calls[k])
          /\ StoreResult(calls[k])
          /\ calls' = [calls EXCEPT ![k].pc = "stored"]
       \/ /\ ~MayComplete(calls[k])
          /\ calls' = [calls EXCEPT ![k].pc = "refused"]
          /\ UNCHANGED steps
    /\ UNCHANGED <<alive, faults>>

\* The commit succeeds and the caller never learns of it.
LoseReply(k) ==
    /\ calls[k].pc = "persisting"
    /\ MayComplete(calls[k])
    /\ StoreResult(calls[k])
    /\ calls' = [calls EXCEPT ![k].pc = "dropped"]
    /\ Fault
    /\ UNCHANGED alive

\* The application calls step() again after an error.
Retry(k) ==
    /\ calls[k].pc \in Unsuccessful
    /\ calls' = [calls EXCEPT ![k] = IdleCall]
    /\ UNCHANGED <<steps, alive, faults>>

-----------------------------------------------------------------------------

MayRecover(x) ==
    /\ x \in alive
    /\ Confirmed => \A k \in InFlight : calls[k].step[1] # RunOf[x]

\* mutant of RecoverSteps: completed steps are released as well
RecoverSteps_Completed(x) ==
    /\ MayRecover(x)
    /\ steps' = [s \in Step |->
                    IF s[1] = RunOf[x] /\ steps[s].status # "absent"
                    THEN [steps[s] EXCEPT !.status = "pending", !.owner = NoOwner]
                    ELSE steps[s]]
    /\ UNCHANGED <<calls, alive, faults>>

\* mutant of RecoverSteps: nothing is released
RecoverSteps_Nothing(x) == MayRecover(x) /\ UNCHANGED svars

RecoverSteps(x) ==
    /\ MayRecover(x)
    /\ steps' = [s \in Step |->
                    IF s[1] = RunOf[x] /\ steps[s].status = "running"
                    THEN [steps[s] EXCEPT !.status = "pending", !.owner = NoOwner]
                    ELSE steps[s]]
    /\ UNCHANGED <<calls, alive, faults>>

\* The future of step() is dropped while it waits; what it has committed stays.
Drop(k) ==
    /\ k \in InFlight
    /\ calls' = [calls EXCEPT ![k].pc = "dropped"]
    /\ Fault
    /\ UNCHANGED <<steps, alive>>

\* The process of a context dies, and all its calls with it.
Crash(x) ==
    /\ x \in alive
    /\ alive' = alive \ {x}
    /\ calls' = [k \in Call |-> IF k \in InFlight /\ calls[k].ctx = x
                                THEN [calls[k] EXCEPT !.pc = "dropped"]
                                ELSE calls[k]]
    /\ Fault
    /\ UNCHANGED steps

-----------------------------------------------------------------------------

SInit ==
    /\ steps = [s \in Step |-> AbsentStep]
    /\ calls = [k \in Call |-> IdleCall]
    /\ alive = Context
    /\ faults = 0

\* Everything one call of step() does of itself.
Advance(k) ==
    \/ \E x \in Context, n \in Name : ClaimStep(k, x, n)
    \/ \E v \in Value : OperationReturns(k, v)
    \/ CompleteStep(k)
    \/ Retry(k)

SNext ==
    \/ \E k \in Call : Advance(k) \/ OperationFails(k) \/ Drop(k) \/ LoseReply(k)
    \/ \E x \in Context : RecoverSteps(x) \/ Crash(x)

SSpec == SInit /\ [][SNext]_svars

\* Tokio polls every call that can go on, operations end, and the application
\* retries a step that was refused and recovers once it may.
FairSteps == /\ \A k \in Call : WF_svars(Advance(k))
             /\ WF_svars(\E x \in Context : RecoverSteps(x))

FairSpec == SSpec /\ FairSteps

-----------------------------------------------------------------------------

StepRow == [status : {"absent", "pending", "running", "completed"},
            owner : Context \cup {NoOwner}, result : Value \cup {NoValue}]

CallRow == [ctx : Context, step : Step, value : Value \cup {NoValue},
            pc : {"operating", "persisting", "stored", "replayed"} \cup Unsuccessful]

\* Rows and calls keep their types; a step has a result exactly when it is
\* completed, and an owner exactly when it was claimed and not recovered.
StepsTypeOK ==
    /\ steps \in [Step -> StepRow]
    /\ calls \in [Call -> CallRow \cup {IdleCall}]
    /\ alive \subseteq Context
    /\ faults \in 0 .. MaxFaults
    /\ \A s \in Step : /\ steps[s].status = "completed" <=> steps[s].result # NoValue
                       /\ steps[s].status \in {"running", "completed"} <=>
                              steps[s].owner # NoOwner

\* README "One persisted result per (run_id, step name)": all calls that
\* returned from a step returned the one result that is stored, even when
\* recover() was called while operations were still running.
OneResultPerStep == \A k \in Call :
    calls[k].pc \in {"stored", "replayed"} =>
        /\ steps[calls[k].step].status = "completed"
        /\ calls[k].value = steps[calls[k].step].result

\* Test recovered_step_rejects_completion_from_its_previous_owner: a call never
\* stores its result after another context has claimed the step.
StoredByOwner == \A k \in Call :
    calls[k].pc = "stored" => steps[calls[k].step].owner = calls[k].ctx

\* README "A second context is refused while a step is running; it cannot
\* silently execute the same closure": when recover() waits for the previous
\* process, an operation never runs beside another of the same step, nor once a
\* result is stored.
ExclusiveExecution == Confirmed => \A k \in InFlight :
    /\ steps[calls[k].step].status = "running"
    /\ steps[calls[k].step].owner = calls[k].ctx
    /\ \A j \in InFlight : calls[j].step = calls[k].step => j = k

\* README "call ctx.recover() to release unfinished steps before retrying
\* them": with retries and recovery every call returns a result at last.
EveryCallReturns == \A k \in Call : <>(calls[k].pc \in {"stored", "replayed"})

-----------------------------------------------------------------------------
(* The refinement mapping to StepOnce.                                        *)

Returned(k) == IF calls[k].pc \in {"stored", "replayed"} THEN calls[k].value ELSE NoValue

Results == [s \in Step |-> steps[s].result]
Replies == [k \in Call |-> Returned(k)]

Once == INSTANCE StepOnce WITH result <- Results, reply <- Replies

\* README "One persisted result per (run_id, step name)": every transaction of
\* the steps table is a step of StepOnce or leaves its state alone, so a result,
\* once stored, is never replaced or forgotten.
ImplementsStepOnce == Once!OSpec
=============================================================================

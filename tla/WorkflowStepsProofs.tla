------------------------ MODULE WorkflowStepsProofs ------------------------
(* Theorems about WorkflowSteps, for every number of runs, contexts, calls    *)
(* and faults.                                                                *)
EXTENDS WorkflowSteps, TLAPS

USE StepConstants

\* A call that is on its way to store a result has one.
ResultInHand == \A k \in Call : calls[k].pc = "persisting" => calls[k].value \in Value

\* The inductive invariant.
SInv == StepsTypeOK /\ ResultInHand /\ OneResultPerStep /\ StoredByOwner /\ ExclusiveExecution

LEMMA StepOfType == ASSUME NEW x \in Context, NEW n \in Name PROVE StepOf(x, n) \in Step
  BY DEF StepOf, Step

\* A call that has begun names a context and a step.
LEMMA BegunCall ==
    ASSUME StepsTypeOK, NEW k \in Call, calls[k].pc # "idle"
    PROVE  /\ calls[k] \in CallRow
           /\ calls[k].step \in Step
           /\ calls[k].ctx \in Context
<1>1. calls[k] \in CallRow \cup {IdleCall}
  BY DEF StepsTypeOK
<1>2. IdleCall.pc = "idle"
  BY DEF IdleCall
<1>3. calls[k] \in CallRow
  BY <1>1, <1>2
<1> QED
  BY <1>3 DEF CallRow

LEMMA StepsInit == SInit => SInv
<1> SUFFICES ASSUME SInit PROVE SInv
  OBVIOUS
<1>1. \A k \in Call : calls[k] = IdleCall
  BY DEF SInit
<1>2. IdleCall.pc = "idle"
  BY DEF IdleCall
<1>3. InFlight = {}
  BY <1>1, <1>2 DEF InFlight
<1>4. \A s \in Step : steps[s] = AbsentStep
  BY DEF SInit
<1>5. AbsentStep \in StepRow
  BY DEF AbsentStep, StepRow
<1>6. StepsTypeOK
  <2>1. steps \in [Step -> StepRow]
    BY <1>5 DEF SInit
  <2>2. calls \in [Call -> CallRow \cup {IdleCall}]
    BY DEF SInit
  <2>3. \A s \in Step : /\ steps[s].status = "completed" <=> steps[s].result # NoValue
                        /\ steps[s].status \in {"running", "completed"} <=>
                               steps[s].owner # NoOwner
    BY <1>4 DEF AbsentStep
  <2> QED
    BY <2>1, <2>2, <2>3 DEF StepsTypeOK, SInit
<1> QED
  BY <1>1, <1>2, <1>3, <1>6
  DEF SInv, ResultInHand, OneResultPerStep, StoredByOwner, ExclusiveExecution

-----------------------------------------------------------------------------
(* One lemma per action.                                                      *)

\* A step that only moves calls keeps the invariant if what it says of the
\* calls it moves holds.
LEMMA CallsOnly ==
    ASSUME SInv, UNCHANGED steps, alive' \subseteq alive, faults' \in 0 .. MaxFaults,
           calls' \in [Call -> CallRow \cup {IdleCall}],
           \A k \in Call :
               \/ calls'[k] = calls[k]
               \/ /\ k \in InFlight
                  /\ calls'[k].pc = "persisting" /\ calls'[k].value \in Value
                  /\ calls'[k].step = calls[k].step /\ calls'[k].ctx = calls[k].ctx
               \/ calls'[k].pc \in Unsuccessful \cup {"idle"}
               \/ /\ calls'[k].pc = "replayed"
                  /\ steps[calls'[k].step].status = "completed"
                  /\ calls'[k].value = steps[calls'[k].step].result
    PROVE  SInv'
<1>1. StepsTypeOK'
  BY DEF SInv, StepsTypeOK
<1>2. InFlight' \subseteq InFlight
  BY DEF InFlight, Unsuccessful
<1>3. ResultInHand'
  BY DEF SInv, ResultInHand, Unsuccessful
<1>4. OneResultPerStep'
  BY DEF SInv, OneResultPerStep, Unsuccessful
<1>5. StoredByOwner'
  BY DEF SInv, StoredByOwner, Unsuccessful
<1>6. ExclusiveExecution'
  <2>1. \A k \in InFlight' : calls'[k].step = calls[k].step /\ calls'[k].ctx = calls[k].ctx
    BY DEF InFlight, Unsuccessful
  <2> QED
    BY <1>2, <2>1 DEF SInv, ExclusiveExecution
<1> QED
  BY <1>1, <1>3, <1>4, <1>5, <1>6 DEF SInv

LEMMA ClaimKeeps ==
    ASSUME SInv, NEW k \in Call, NEW x \in Context, NEW n \in Name, ClaimStep(k, x, n)
    PROVE  SInv'
<1> DEFINE s == StepOf(x, n)
           row(pc, v) == [ctx |-> x, step |-> s, pc |-> pc, value |-> v]
<1>1. s \in Step /\ calls[k].pc = "idle" /\ k \notin InFlight
  BY StepOfType DEF ClaimStep, InFlight
<1>2. /\ calls \in [Call -> CallRow \cup {IdleCall}] /\ steps \in [Step -> StepRow]
      /\ faults \in 0 .. MaxFaults
  BY DEF SInv, StepsTypeOK
<1>3. UNCHANGED <<alive, faults>>
  BY DEF ClaimStep
<1>4. CASE /\ steps[s].status = "completed"
           /\ calls' = [calls EXCEPT ![k] = row("replayed", steps[s].result)]
           /\ UNCHANGED steps
  <2>1. row("replayed", steps[s].result) \in CallRow
    BY <1>1, <1>2 DEF CallRow, StepRow
  <2>2. calls' \in [Call -> CallRow \cup {IdleCall}]
    BY <1>2, <1>4, <2>1
  <2>3. /\ calls'[k] = row("replayed", steps[s].result)
        /\ \A j \in Call \ {k} : calls'[j] = calls[j]
    BY <1>2, <1>4
  <2> QED
    BY <1>2, <1>3, <1>4, <2>2, <2>3, CallsOnly
<1>5. CASE /\ calls' = [calls EXCEPT ![k] = row("refused", NoValue)]
           /\ UNCHANGED steps
  <2>1. row("refused", NoValue) \in CallRow
    BY <1>1 DEF CallRow, Unsuccessful
  <2>2. calls' \in [Call -> CallRow \cup {IdleCall}]
    BY <1>2, <1>5, <2>1
  <2>3. /\ calls'[k] = row("refused", NoValue)
        /\ \A j \in Call \ {k} : calls'[j] = calls[j]
    BY <1>2, <1>5
  <2>4. calls'[k].pc \in Unsuccessful
    BY <2>3 DEF Unsuccessful
  <2> QED
    BY <1>2, <1>3, <1>5, <2>2, <2>3, <2>4, CallsOnly
<1>6. CASE /\ steps[s].status # "completed" /\ steps[s].status # "running"
           /\ steps' = [steps EXCEPT ![s].status = "running", ![s].owner = x]
           /\ calls' = [calls EXCEPT ![k] = row("operating", NoValue)]
  <2>1. /\ calls'[k] = row("operating", NoValue)
        /\ \A j \in Call \ {k} : calls'[j] = calls[j]
    BY <1>2, <1>6
  <2>2. /\ steps'[s].status = "running" /\ steps'[s].owner = x
        /\ steps'[s].result = steps[s].result
        /\ \A t \in Step \ {s} : steps'[t] = steps[t]
        /\ steps' \in [Step -> StepRow]
    BY <1>1, <1>2, <1>6 DEF StepRow
  <2>3. StepsTypeOK'
    <3>1. row("operating", NoValue) \in CallRow
      BY <1>1 DEF CallRow
    <3>2. calls' \in [Call -> CallRow \cup {IdleCall}]
      BY <1>2, <1>6, <3>1
    <3>3. \A t \in Step : /\ steps'[t].status = "completed" <=> steps'[t].result # NoValue
                          /\ steps'[t].status \in {"running", "completed"} <=>
                                 steps'[t].owner # NoOwner
      BY <1>1, <1>6, <2>2 DEF SInv, StepsTypeOK
    <3> QED
      BY <1>3, <2>2, <3>2, <3>3 DEF SInv, StepsTypeOK
  <2>4. ResultInHand'
    BY <2>1 DEF SInv, ResultInHand
  <2>5. \A j \in Call : calls[j].pc \in {"stored", "replayed"} => calls[j].step \in Step \ {s}
    BY <1>6, BegunCall DEF SInv, OneResultPerStep
  <2>6. OneResultPerStep'
    BY <2>1, <2>2, <2>5 DEF SInv, OneResultPerStep
  <2>7. StoredByOwner'
    BY <2>1, <2>2, <2>5 DEF SInv, StoredByOwner
  <2>8. ExclusiveExecution'
    <3> SUFFICES ASSUME Confirmed PROVE ExclusiveExecution'
      BY DEF ExclusiveExecution
    <3>1. InFlight' = InFlight \cup {k}
      BY <1>1, <2>1 DEF InFlight
    <3>2. \A j \in InFlight : j # k /\ calls[j].step \in Step \ {s}
      BY <1>1, <1>6, BegunCall DEF SInv, ExclusiveExecution, InFlight
    <3> QED
      BY <2>1, <2>2, <3>1, <3>2 DEF SInv, ExclusiveExecution, InFlight
  <2> QED
    BY <2>3, <2>4, <2>6, <2>7, <2>8 DEF SInv
<1> QED
  BY <1>4, <1>5, <1>6 DEF ClaimStep, Refused

LEMMA StoreKeeps ==
    ASSUME SInv, NEW k \in Call, calls[k].pc = "persisting", MayComplete(calls[k]),
           StoreResult(calls[k]), NEW pc \in {"stored", "dropped"},
           calls' = [calls EXCEPT ![k].pc = pc],
           UNCHANGED alive, faults' \in 0 .. MaxFaults
    PROVE  SInv'
<1> DEFINE s == calls[k].step
<1>1. calls[k] \in CallRow /\ s \in Step /\ calls[k].value \in Value /\ k \in InFlight
  BY BegunCall DEF SInv, ResultInHand, InFlight
<1>2. calls \in [Call -> CallRow \cup {IdleCall}] /\ steps \in [Step -> StepRow]
  BY DEF SInv, StepsTypeOK
<1>3. steps[s].status = "running" /\ steps[s].owner = calls[k].ctx
  BY DEF MayComplete
<1>4. /\ steps'[s].status = "completed" /\ steps'[s].result = calls[k].value
      /\ steps'[s].owner = calls[k].ctx
      /\ \A t \in Step \ {s} : steps'[t] = steps[t]
      /\ steps' \in [Step -> StepRow]
  BY <1>1, <1>2, <1>3 DEF StoreResult, StepRow
<1>5. /\ calls'[k] \in CallRow /\ calls'[k].pc = pc /\ calls'[k].step = s
      /\ calls'[k].ctx = calls[k].ctx /\ calls'[k].value = calls[k].value
      /\ \A j \in Call \ {k} : calls'[j] = calls[j]
  BY <1>1, <1>2 DEF CallRow, Unsuccessful
<1>6. \A j \in Call : calls[j].pc \in {"stored", "replayed"} => calls[j].step \in Step \ {s}
  BY <1>3, BegunCall DEF SInv, OneResultPerStep
<1>7. StepsTypeOK'
  <2>1. calls' \in [Call -> CallRow \cup {IdleCall}]
    BY <1>2, <1>5
  <2>2. \A t \in Step : /\ steps'[t].status = "completed" <=> steps'[t].result # NoValue
                        /\ steps'[t].status \in {"running", "completed"} <=>
                               steps'[t].owner # NoOwner
    BY <1>1, <1>4, BegunCall DEF SInv, StepsTypeOK
  <2> QED
    BY <1>4, <2>1, <2>2 DEF SInv, StepsTypeOK
<1>8. ResultInHand'
  BY <1>5 DEF SInv, ResultInHand
<1>9. OneResultPerStep'
  BY <1>4, <1>5, <1>6 DEF SInv, OneResultPerStep
<1>10. StoredByOwner'
  BY <1>4, <1>5, <1>6 DEF SInv, StoredByOwner
<1>11. ExclusiveExecution'
  <2> SUFFICES ASSUME Confirmed PROVE ExclusiveExecution'
    BY DEF ExclusiveExecution
  <2>1. InFlight' = InFlight \ {k}
    BY <1>5 DEF InFlight
  <2>2. \A j \in InFlight \ {k} : calls[j].step \in Step \ {s}
    BY <1>1, BegunCall DEF SInv, ExclusiveExecution, InFlight
  <2> QED
    BY <1>4, <1>5, <2>1, <2>2 DEF SInv, ExclusiveExecution, InFlight
<1> QED
  BY <1>7, <1>8, <1>9, <1>10, <1>11 DEF SInv

LEMMA RecoverKeeps ==
    ASSUME SInv, NEW x \in Context, RecoverSteps(x)
    PROVE  SInv'
<1>1. steps \in [Step -> StepRow] /\ UNCHANGED <<calls, alive, faults>>
  BY DEF SInv, StepsTypeOK, RecoverSteps
<1>2. \A s \in Step :
        \/ steps'[s] = steps[s]
        \/ /\ s[1] = RunOf[x] /\ steps[s].status = "running"
           /\ steps'[s] = [steps[s] EXCEPT !.status = "pending", !.owner = NoOwner]
  BY DEF RecoverSteps
<1>3. \A s \in Step :
        \/ steps'[s] = steps[s]
        \/ /\ steps[s].status = "running" /\ steps'[s].status = "pending"
           /\ steps'[s].owner = NoOwner /\ steps'[s].result = steps[s].result
           /\ steps'[s] \in StepRow
  BY <1>1, <1>2 DEF StepRow
<1>4. steps' \in [Step -> StepRow]
  BY <1>1, <1>3 DEF RecoverSteps
<1>5. StepsTypeOK'
  BY <1>1, <1>3, <1>4 DEF SInv, StepsTypeOK
<1>6. ResultInHand'
  BY <1>1 DEF SInv, ResultInHand
<1>7. \A k \in Call : calls[k].pc \in {"stored", "replayed"} =>
                          steps'[calls[k].step] = steps[calls[k].step]
  BY <1>3, BegunCall DEF SInv, OneResultPerStep
<1>8. OneResultPerStep' /\ StoredByOwner'
  BY <1>1, <1>7 DEF SInv, OneResultPerStep, StoredByOwner
<1>9. ExclusiveExecution'
  <2> SUFFICES ASSUME Confirmed PROVE ExclusiveExecution'
    BY DEF ExclusiveExecution
  <2>1. \A k \in InFlight : calls[k].step \in Step /\ calls[k].step[1] # RunOf[x]
    BY BegunCall DEF SInv, RecoverSteps, MayRecover, InFlight
  <2>2. \A k \in InFlight : steps'[calls[k].step] = steps[calls[k].step]
    BY <1>2, <2>1
  <2>3. InFlight' = InFlight
    BY <1>1 DEF InFlight
  <2> QED
    BY <1>1, <2>2, <2>3 DEF SInv, ExclusiveExecution
<1> QED
  BY <1>5, <1>6, <1>8, <1>9 DEF SInv

-----------------------------------------------------------------------------

\* The fault counter stays within its bound.
LEMMA FaultBounded == ASSUME faults \in 0 .. MaxFaults, Fault PROVE faults' \in 0 .. MaxFaults
  BY DEF Fault

LEMMA StepsStep == SInv /\ [SNext]_svars => SInv'
<1> SUFFICES ASSUME SInv, [SNext]_svars PROVE SInv'
  OBVIOUS
<1>1. calls \in [Call -> CallRow \cup {IdleCall}] /\ faults \in 0 .. MaxFaults
  BY DEF SInv, StepsTypeOK
<1>2. ASSUME NEW k \in Call, \E x \in Context, n \in Name : ClaimStep(k, x, n) PROVE SInv'
  BY <1>2, ClaimKeeps
<1>3. ASSUME NEW k \in Call, NEW v \in Value, OperationReturns(k, v) PROVE SInv'
  <2>1. calls[k] \in CallRow /\ k \in InFlight
    BY <1>3, BegunCall DEF SInv, OperationReturns, InFlight
  <2>2. /\ calls'[k] \in CallRow /\ calls'[k].pc = "persisting" /\ calls'[k].value = v
        /\ calls'[k].step = calls[k].step /\ calls'[k].ctx = calls[k].ctx
        /\ \A j \in Call \ {k} : calls'[j] = calls[j]
        /\ calls' \in [Call -> CallRow \cup {IdleCall}]
    BY <1>1, <1>3, <2>1 DEF OperationReturns, CallRow
  <2> QED
    BY <1>1, <1>3, <2>1, <2>2, CallsOnly DEF OperationReturns
<1>4. ASSUME NEW k \in Call, NEW pc \in Unsuccessful, calls[k].pc # "idle",
             calls' = [calls EXCEPT ![k].pc = pc],
             UNCHANGED <<steps, alive>>, faults' \in 0 .. MaxFaults
      PROVE  SInv'
  <2>1. calls[k] \in CallRow
    BY <1>4, BegunCall DEF SInv
  <2>2. /\ calls'[k] \in CallRow /\ calls'[k].pc = pc
        /\ \A j \in Call \ {k} : calls'[j] = calls[j]
        /\ calls' \in [Call -> CallRow \cup {IdleCall}]
    BY <1>1, <1>4, <2>1 DEF CallRow
  <2> QED
    BY <1>4, <2>2, CallsOnly
<1>5. ASSUME NEW k \in Call, OperationFails(k) PROVE SInv'
  BY <1>1, <1>4, <1>5, FaultBounded DEF OperationFails, Unsuccessful
<1>6. ASSUME NEW k \in Call, Drop(k) PROVE SInv'
  BY <1>1, <1>4, <1>6, FaultBounded DEF Drop, InFlight, Unsuccessful
<1>7. ASSUME NEW k \in Call, CompleteStep(k) PROVE SInv'
  <2>1. CASE MayComplete(calls[k])
    BY <1>1, <1>7, <2>1, StoreKeeps DEF CompleteStep
  <2>2. CASE ~MayComplete(calls[k])
    BY <1>1, <1>4, <1>7, <2>2 DEF CompleteStep, Unsuccessful
  <2> QED
    BY <2>1, <2>2
<1>8. ASSUME NEW k \in Call, LoseReply(k) PROVE SInv'
  BY <1>1, <1>8, StoreKeeps, FaultBounded DEF LoseReply
<1>9. ASSUME NEW k \in Call, Retry(k) PROVE SInv'
  <2>1. /\ calls'[k] = IdleCall
        /\ \A j \in Call \ {k} : calls'[j] = calls[j]
        /\ calls' \in [Call -> CallRow \cup {IdleCall}]
    BY <1>1, <1>9 DEF Retry
  <2>2. calls'[k].pc = "idle"
    BY <2>1 DEF IdleCall
  <2> QED
    BY <1>1, <1>9, <2>1, <2>2, CallsOnly DEF Retry
<1>10. ASSUME NEW x \in Context, Crash(x) PROVE SInv'
  <2>1. \A k \in InFlight : calls[k] \in CallRow
    BY BegunCall DEF SInv, InFlight
  <2>2. \A k \in Call : \/ calls'[k] = calls[k]
                        \/ /\ calls'[k] \in CallRow
                           /\ calls'[k].pc = "dropped"
    BY <1>10, <2>1 DEF Crash, CallRow, Unsuccessful
  <2>3. calls' \in [Call -> CallRow \cup {IdleCall}]
    BY <1>1, <1>10, <2>2 DEF Crash
  <2>4. UNCHANGED steps /\ alive' \subseteq alive /\ faults' \in 0 .. MaxFaults
    BY <1>1, <1>10, FaultBounded DEF Crash
  <2> QED
    BY <2>2, <2>3, <2>4, CallsOnly DEF Unsuccessful
<1>11. ASSUME NEW x \in Context, RecoverSteps(x) PROVE SInv'
  BY <1>11, RecoverKeeps
<1>12. CASE UNCHANGED svars
  BY <1>1, <1>12, CallsOnly DEF svars
<1> QED
  BY <1>2, <1>3, <1>5, <1>6, <1>7, <1>8, <1>9, <1>10, <1>11, <1>12 DEF SNext, Advance

\* Every reachable state satisfies the inductive invariant.
THEOREM StepsInvariant == SSpec => []SInv
  BY StepsInit, StepsStep, PTL DEF SSpec

\* Rows and calls are well-typed, and a step has a result exactly when it is
\* completed.
THEOREM StepsTypeCorrect == SSpec => []StepsTypeOK
  BY StepsInvariant, PTL DEF SInv

\* All calls of a step that return, return the one stored result, whenever
\* recover() is called.
THEOREM CallsAgree == SSpec => []OneResultPerStep
  BY StepsInvariant, PTL DEF SInv

\* The stored result is that of the context that held the claim last.
THEOREM PreviousOwnersAreRejected == SSpec => []StoredByOwner
  BY StepsInvariant, PTL DEF SInv

\* With recovery as its documentation asks, an operation never runs beside
\* another of the same step, nor once a result is stored.
THEOREM ExecutionsAreExclusive == SSpec => []ExclusiveExecution
  BY StepsInvariant, PTL DEF SInv

-----------------------------------------------------------------------------
(* WorkflowSteps implements StepOnce.                                         *)

\* A step in which no result is stored and nothing is returned.
LEMMA NothingReturned ==
    ASSUME \A s \in Step : steps'[s].result = steps[s].result,
           \A k \in Call : Returned(k)' = Returned(k)
    PROVE  UNCHANGED Once!ovars
  BY DEF Results, Replies, Once!ovars

\* A step of the table that moves one call from a state in which it returns
\* nothing to another one.
LEMMA CallMoves ==
    ASSUME StepsTypeOK, UNCHANGED steps, NEW k \in Call, Returned(k) = NoValue,
           NEW row, calls' = [calls EXCEPT ![k] = row], row.pc \notin {"stored", "replayed"}
    PROVE  UNCHANGED Once!ovars
<1>1. calls'[k].pc \notin {"stored", "replayed"} /\ \A j \in Call \ {k} : calls'[j] = calls[j]
  BY DEF StepsTypeOK
<1>2. \A j \in Call : Returned(j)' = Returned(j)
  BY <1>1 DEF Returned
<1> QED
  BY <1>2, NothingReturned

LEMMA ClaimOnce ==
    ASSUME SInv, NEW k \in Call, NEW x \in Context, NEW n \in Name, ClaimStep(k, x, n)
    PROVE  [Once!ONext]_(Once!ovars)
<1> DEFINE s == StepOf(x, n)
           row(pc, v) == [ctx |-> x, step |-> s, pc |-> pc, value |-> v]
<1>1. s \in Step /\ StepsTypeOK /\ Returned(k) = NoValue
  BY StepOfType DEF SInv, ClaimStep, Returned
<1>2. CASE /\ steps[s].status = "completed"
           /\ calls' = [calls EXCEPT ![k] = row("replayed", steps[s].result)]
           /\ UNCHANGED steps
  <2>1. /\ calls'[k] = row("replayed", steps[s].result)
        /\ \A j \in Call \ {k} : calls'[j] = calls[j]
    BY <1>1, <1>2 DEF StepsTypeOK
  <2>2. Returned(k)' = steps[s].result /\ \A j \in Call \ {k} : Returned(j)' = Returned(j)
    BY <2>1 DEF Returned
  <2>3. Results' = Results /\ Results[s] = steps[s].result /\ Results[s] # NoValue
    BY <1>1, <1>2 DEF Results, StepsTypeOK
  <2>4. Replies' = [Replies EXCEPT ![k] = Results[s]] /\ Replies[k] = NoValue
    BY <1>1, <2>2, <2>3 DEF Replies
  <2>5. Once!Replay(k, s)
    BY <2>3, <2>4 DEF Once!Replay
  <2> QED
    BY <1>1, <2>5 DEF Once!ONext
<1>3. CASE calls' = [calls EXCEPT ![k] = row("refused", NoValue)] /\ UNCHANGED steps
  <2>1. row("refused", NoValue).pc = "refused"
    OBVIOUS
  <2> QED
    BY <1>1, <1>3, <2>1, CallMoves
<1>4. CASE /\ steps' = [steps EXCEPT ![s].status = "running", ![s].owner = x]
           /\ calls' = [calls EXCEPT ![k] = row("operating", NoValue)]
  <2>1. \A t \in Step : steps'[t].result = steps[t].result
    BY <1>1, <1>4 DEF StepsTypeOK, StepRow
  <2>2. /\ calls'[k] = row("operating", NoValue)
        /\ \A j \in Call \ {k} : calls'[j] = calls[j]
    BY <1>1, <1>4 DEF StepsTypeOK
  <2>3. \A j \in Call : Returned(j)' = Returned(j)
    BY <1>1, <2>2 DEF Returned
  <2> QED
    BY <2>1, <2>3, NothingReturned
<1> QED
  BY <1>2, <1>3, <1>4 DEF ClaimStep

LEMMA StoreOnce ==
    ASSUME SInv, NEW k \in Call, calls[k].pc = "persisting", MayComplete(calls[k]),
           StoreResult(calls[k]), NEW pc \in {"stored", "dropped"},
           calls' = [calls EXCEPT ![k].pc = pc]
    PROVE  Once!ONext
<1> DEFINE s == calls[k].step
           v == calls[k].value
<1>1. calls[k] \in CallRow /\ s \in Step /\ v \in Value /\ Returned(k) = NoValue
  BY BegunCall DEF SInv, ResultInHand, Returned
<1>2. calls \in [Call -> CallRow \cup {IdleCall}] /\ steps \in [Step -> StepRow]
  BY DEF SInv, StepsTypeOK
<1>3. steps[s].result = NoValue
  BY <1>1 DEF SInv, StepsTypeOK, MayComplete
<1>4. steps'[s].result = v /\ \A t \in Step \ {s} : steps'[t] = steps[t]
  BY <1>1, <1>2 DEF StoreResult, StepRow
<1>5. Results' = [Results EXCEPT ![s] = v] /\ Results[s] = NoValue
  BY <1>1, <1>3, <1>4 DEF Results
<1>6. /\ calls'[k].pc = pc /\ calls'[k].value = v
      /\ \A j \in Call \ {k} : calls'[j] = calls[j]
  BY <1>1, <1>2 DEF CallRow
<1>7. /\ Returned(k)' = IF pc = "stored" THEN v ELSE NoValue
      /\ \A j \in Call \ {k} : Returned(j)' = Returned(j)
  BY <1>6 DEF Returned
<1>8. Replies[k] = NoValue /\ (Replies' = Replies \/ Replies' = [Replies EXCEPT ![k] = v])
  BY <1>1, <1>7 DEF Replies
<1>9. Once!Store(s, v)
  BY <1>5, <1>8 DEF Once!Store
<1> QED
  BY <1>1, <1>9 DEF Once!ONext

LEMMA StepKeepsOnce == SInv /\ [SNext]_svars => [Once!ONext]_(Once!ovars)
<1> SUFFICES ASSUME SInv, [SNext]_svars PROVE [Once!ONext]_(Once!ovars)
  OBVIOUS
<1>1. StepsTypeOK /\ calls \in [Call -> CallRow \cup {IdleCall}] /\ steps \in [Step -> StepRow]
  BY DEF SInv, StepsTypeOK
<1>2. ASSUME NEW k \in Call, \E x \in Context, n \in Name : ClaimStep(k, x, n)
      PROVE  [Once!ONext]_(Once!ovars)
  BY <1>2, ClaimOnce
<1>3. ASSUME NEW k \in Call, calls[k].pc \notin {"stored", "replayed"},
             calls'[k].pc \notin {"stored", "replayed"}, UNCHANGED steps,
             \A j \in Call \ {k} : calls'[j] = calls[j]
      PROVE  UNCHANGED Once!ovars
  <2>1. \A j \in Call : Returned(j)' = Returned(j)
    BY <1>3 DEF Returned
  <2> QED
    BY <1>3, <2>1, NothingReturned
<1>4. ASSUME NEW k \in Call, NEW pc \in Unsuccessful \cup {"persisting"},
             calls[k].pc \in {"operating", "persisting"},
             \/ calls' = [calls EXCEPT ![k].pc = pc]
             \/ \E v \in Value : calls' = [calls EXCEPT ![k].pc = pc, ![k].value = v],
             UNCHANGED steps
      PROVE  UNCHANGED Once!ovars
  <2>1. calls[k] \in CallRow
    BY <1>1, <1>4, BegunCall
  <2>2. calls'[k].pc = pc /\ \A j \in Call \ {k} : calls'[j] = calls[j]
    BY <1>1, <1>4, <2>1 DEF CallRow
  <2> QED
    BY <1>3, <1>4, <2>2 DEF Unsuccessful
<1>5. ASSUME NEW k \in Call, NEW v \in Value, OperationReturns(k, v)
      PROVE  UNCHANGED Once!ovars
  BY <1>4, <1>5 DEF OperationReturns
<1>6. ASSUME NEW k \in Call, OperationFails(k) \/ Drop(k)
      PROVE  UNCHANGED Once!ovars
  BY <1>4, <1>6 DEF OperationFails, Drop, InFlight, Unsuccessful
<1>7. ASSUME NEW k \in Call, CompleteStep(k) PROVE [Once!ONext]_(Once!ovars)
  <2>1. CASE MayComplete(calls[k])
    BY <1>7, <2>1, StoreOnce DEF CompleteStep
  <2>2. CASE ~MayComplete(calls[k])
    BY <1>4, <1>7, <2>2 DEF CompleteStep, Unsuccessful
  <2> QED
    BY <2>1, <2>2
<1>8. ASSUME NEW k \in Call, LoseReply(k) PROVE Once!ONext
  BY <1>8, StoreOnce DEF LoseReply
<1>9. ASSUME NEW k \in Call, Retry(k) PROVE UNCHANGED Once!ovars
  <2>1. calls'[k].pc = "idle" /\ \A j \in Call \ {k} : calls'[j] = calls[j]
    BY <1>1, <1>9 DEF Retry, IdleCall
  <2> QED
    BY <1>3, <1>9, <2>1 DEF Retry, Unsuccessful
<1>10. ASSUME NEW x \in Context, RecoverSteps(x) PROVE UNCHANGED Once!ovars
  <2>1. \A s \in Step : steps'[s].result = steps[s].result
    BY <1>1, <1>10 DEF RecoverSteps, StepRow
  <2>2. \A k \in Call : Returned(k)' = Returned(k)
    BY <1>10 DEF RecoverSteps, Returned
  <2> QED
    BY <2>1, <2>2, NothingReturned
<1>11. ASSUME NEW x \in Context, Crash(x) PROVE UNCHANGED Once!ovars
  <2>1. \A k \in InFlight : calls[k] \in CallRow
    BY <1>1, BegunCall DEF InFlight
  <2>2. \A k \in Call : \/ calls'[k] = calls[k]
                        \/ k \in InFlight /\ calls'[k].pc = "dropped"
    BY <1>11, <2>1 DEF Crash, CallRow
  <2>3. \A k \in Call : Returned(k)' = Returned(k)
    BY <2>2 DEF Returned, InFlight
  <2> QED
    BY <1>11, <2>3, NothingReturned DEF Crash
<1>12. CASE UNCHANGED svars
  BY <1>12, NothingReturned DEF svars, Returned
<1> QED
  BY <1>2, <1>5, <1>6, <1>7, <1>8, <1>9, <1>10, <1>11, <1>12 DEF SNext, Advance

\* Every transaction of the steps table is a step of StepOnce, or leaves its
\* state alone: a stored result is never replaced or forgotten.
THEOREM StepsHappenOnce == SSpec => ImplementsStepOnce
<1>1. SInit => Once!OInit
  <2> SUFFICES ASSUME SInit PROVE Once!OInit
    OBVIOUS
  <2>1. \A s \in Step : steps[s].result = NoValue
    BY DEF SInit, AbsentStep
  <2>2. \A k \in Call : Returned(k) = NoValue
    BY DEF SInit, IdleCall, Returned
  <2> QED
    BY <2>1, <2>2 DEF Once!OInit, Results, Replies
<1> QED
  BY <1>1, StepKeepsOnce, StepsInvariant, PTL DEF SSpec, ImplementsStepOnce, Once!OSpec
=============================================================================

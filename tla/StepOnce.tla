------------------------------ MODULE StepOnce ------------------------------
(* What WorkflowContext::step promises (README, "Durable named steps"): a     *)
(* step gets at most one result, the result is the value of the call that     *)
(* stored it, and every other call that returns, returns that result.         *)
EXTENDS Naturals

CONSTANTS Step, Call, Value, NoValue

VARIABLES
    result,  \* the result of each step
    reply    \* what each call returned

ovars == <<result, reply>>

\* The call that stores the result may also learn that it did.
Store(s, v) ==
    /\ result[s] = NoValue
    /\ result' = [result EXCEPT ![s] = v]
    /\ \/ UNCHANGED reply
       \/ \E k \in Call : reply[k] = NoValue /\ reply' = [reply EXCEPT ![k] = v]

Replay(k, s) ==
    /\ reply[k] = NoValue
    /\ result[s] # NoValue
    /\ reply' = [reply EXCEPT ![k] = result[s]]
    /\ UNCHANGED result

OInit == /\ result = [s \in Step |-> NoValue]
         /\ reply = [k \in Call |-> NoValue]

ONext == \E s \in Step : \/ \E v \in Value : Store(s, v)
                         \/ \E k \in Call : Replay(k, s)

OSpec == OInit /\ [][ONext]_ovars
=============================================================================

---------------------------- MODULE ResumeWorker ----------------------------
(* ResumeWorker of src/src/worker.rs, with time.                              *)
(*                                                                            *)
(* Several workers, one per process, poll one database.  Each spawns a task   *)
(* for every run it claims; the task owns a context whose heartbeat renews    *)
(* the lease every third of the TTL.  A lease is kept as the time it has      *)
(* left, so that every behaviour is over finitely many states and liveness    *)
(* can be asked of it; what a context does between its claim and its end, and *)
(* the epochs that tell claims apart, are in AgentContext and RunStore.       *)
EXTENDS Integers, FiniteSets

CONSTANTS
    Run,             \* run ids in the order of created_at
    Worker,          \* worker processes
    MaxConcurrency,  \* max_concurrency of each worker
    Ttl,             \* lease_ttl, in ticks
    Slack,           \* ticks by which a renewal may be late
    Closing,         \* the runs whose handler closes its context instead of completing it
    Stopping,        \* the workers whose shutdown future may complete
    Nobody,          \* lease_owner IS NULL
    Gone,            \* the owner is a context that no longer exists
    MaxFaults        \* bound: failed handlers, dead processes, SQLite errors

Handler == UNION {{w} \X (1 .. MaxConcurrency[w]) : w \in Worker}

\* mutant of Interval: the lease is renewed when it is about to expire
Interval_Ttl == Ttl

\* LeaseHeartbeat::start: a third of the TTL
Interval == IF Ttl \div 3 = 0 THEN 1 ELSE Ttl \div 3

ASSUME RunAssumption == Run \subseteq Nat \ {0} /\ Closing \subseteq Run
ASSUME WorkerAssumption == /\ Stopping \subseteq Worker
                           /\ MaxConcurrency \in [Worker -> Nat \ {0}]
ASSUME OwnerAssumption == Nobody \notin Handler /\ Gone \notin Handler /\ Nobody # Gone
\* "leave ample room for scheduler and database contention"
ASSUME TimeAssumption == /\ Ttl \in Nat /\ Slack \in Nat /\ MaxFaults \in Nat
                         /\ 1 + Slack < Ttl /\ Ttl \div 3 + Slack < Ttl

VARIABLES
    run,     \* agent_runs: completed?, the owner, the time its lease has left, and
             \* whether a renewal of a dropped context is still under way
    task,    \* the JoinSets: a task is empty, busy, or ended "ok" or in "error"
    worker,  \* where ResumeWorker::run is, and whether it was told to shut down
    faults

wvars == <<run, task, worker, faults>>

FreshRun == [completed |-> FALSE, holder |-> Nobody, left |-> 0, late |-> FALSE]
NoTask == [state |-> "empty", run |-> 0, beat |-> 0, healthy |-> TRUE]
FreshWorker == [pc |-> "polling", shutdown |-> FALSE]

Busy(h) == task[h].state = "busy"
Beating(h) == Busy(h) /\ task[h].healthy
Holds(h) == run[task[h].run].holder = h
Unjoined(w) == {h \in Handler : h[1] = w /\ task[h].state # "empty"}
Free(w) == {h \in Handler : h[1] = w /\ task[h].state = "empty"}

\* mutant of Recoverable: only released runs, never those with an expired lease
Recoverable_Released(r) == ~run[r].completed /\ run[r].holder = Nobody

\* claim_next_recoverable_run: ownerless or expired, and not terminal
Recoverable(r) == /\ ~run[r].completed
                  /\ run[r].holder = Nobody \/ run[r].left = 0

Fault == faults < MaxFaults /\ faults' = faults + 1
NoFault == UNCHANGED faults

Goto(w, pc) == worker' = [worker EXCEPT ![w].pc = pc]

-----------------------------------------------------------------------------
(* The loop of ResumeWorker::run.                                             *)

\* ticker.tick(), at whatever interval
Poll(w) ==
    /\ worker[w].pc = "polling"
    /\ Free(w) # {}
    /\ Goto(w, "claiming")
    /\ UNCHANGED <<run, task, faults>>

\* claim_next_recoverable() and tasks.spawn()
Claim(w) ==
    /\ worker[w].pc = "claiming"
    /\ \E r \in Run :
        /\ Recoverable(r)
        /\ \A s \in Run : Recoverable(s) => r <= s
        /\ LET h == CHOOSE h \in Free(w) : \A g \in Free(w) : h[2] <= g[2]
           IN  /\ run' = [run EXCEPT ![r] = [FreshRun EXCEPT !.holder = h, !.left = Ttl]]
               /\ task' = [task EXCEPT ![h] = [NoTask EXCEPT !.state = "busy", !.run = r]]
        /\ Goto(w, IF Cardinality(Free(w)) = 1 THEN "polling" ELSE "claiming")
    /\ NoFault

NothingToClaim(w) ==
    /\ worker[w].pc = "claiming"
    /\ \A r \in Run : ~Recoverable(r)
    /\ Goto(w, "polling")
    /\ UNCHANGED <<run, task, faults>>

\* An error of the claim ends the loop, and run() returns it.
ClaimFails(w) ==
    /\ worker[w].pc = "claiming"
    /\ Goto(w, "draining")
    /\ Fault
    /\ UNCHANGED <<run, task>>

\* mutant of Ended: only the tasks that returned Ok are taken out of the set
Ended_Ok(h) == task[h].state = "ok"

Ended(h) == task[h].state \in {"ok", "error"}

\* join_next(), in the loop and after it
Join(w) ==
    /\ worker[w].pc \in {"polling", "draining"}
    /\ \E h \in Unjoined(w) : Ended(h) /\ task' = [task EXCEPT ![h] = NoTask]
    /\ UNCHANGED <<run, worker, faults>>

Shutdown(w) ==
    /\ w \in Stopping
    /\ worker' = [worker EXCEPT ![w].shutdown = TRUE]
    /\ UNCHANGED <<run, task, faults>>

Break(w) ==
    /\ worker[w].pc = "polling"
    /\ worker[w].shutdown
    /\ Goto(w, "draining")
    /\ UNCHANGED <<run, task, faults>>

\* mutant of Return: the tasks are detached
Return_Detached(w) ==
    /\ worker[w].pc = "draining"
    /\ Goto(w, "returned")
    /\ UNCHANGED <<run, task, faults>>

Return(w) ==
    /\ worker[w].pc = "draining"
    /\ Unjoined(w) = {}
    /\ Goto(w, "returned")
    /\ UNCHANGED <<run, task, faults>>

-----------------------------------------------------------------------------
(* The tasks: an application's handler, with the heartbeat of its context.    *)

End(h, result) == task' = [task EXCEPT ![h] = [NoTask EXCEPT !.state = result,
                                                             !.run = task[h].run]]

\* release_run_lease does not look at the expiry.
Released(h) == IF Holds(h) THEN [run EXCEPT ![task[h].run].holder = Nobody,
                                            ![task[h].run].left = 0]
                           ELSE run

\* complete(): an error, and the lease released, when the heartbeat has failed
\* or the lease is lost
HandlerCompletes(h) ==
    /\ Busy(h) /\ task[h].run \notin Closing
    /\ IF task[h].healthy /\ Holds(h) /\ run[task[h].run].left > 0
       THEN /\ run' = [run EXCEPT ![task[h].run] = [FreshRun EXCEPT !.completed = TRUE]]
            /\ End(h, "ok")
       ELSE /\ run' = Released(h)
            /\ End(h, "error")
    /\ UNCHANGED <<worker, faults>>

\* close()
HandlerCloses(h) ==
    /\ Busy(h) /\ task[h].run \in Closing
    /\ run' = Released(h)
    /\ End(h, IF task[h].healthy /\ Holds(h) THEN "ok" ELSE "error")
    /\ UNCHANGED <<worker, faults>>

\* complete() of a healthy handler meets an SQLite error in its renewal or its
\* transaction: the lease is released.
CompletionFails(h) ==
    /\ Beating(h) /\ task[h].run \notin Closing
    /\ run' = Released(h)
    /\ End(h, "error")
    /\ Fault
    /\ UNCHANGED worker

\* What is left of a lease whose context was dropped.
Abandoned(h, late) == IF Holds(h) THEN [run EXCEPT ![task[h].run].holder = Gone,
                                                   ![task[h].run].late = late]
                                  ELSE run

\* The handler returns an error or panics: its context is dropped, and a
\* renewal that had left the select goes on.  Without one, this is also close()
\* or complete() whose release meets an SQLite error.
HandlerFails(h) ==
    /\ Busy(h)
    /\ \E late \in {FALSE, Beating(h)} : run' = Abandoned(h, late)
    /\ End(h, "error")
    /\ Fault
    /\ UNCHANGED worker

\* The process of a worker dies and is started again.
Crash(w) ==
    /\ worker[w].pc # "returned"
    /\ run' = [r \in Run |-> IF \E h \in Handler : /\ h[1] = w /\ Busy(h)
                                                   /\ run[r].holder = h
                             THEN [run[r] EXCEPT !.holder = Gone] ELSE run[r]]
    /\ task' = [h \in Handler |-> IF h[1] = w THEN NoTask ELSE task[h]]
    /\ worker' = [worker EXCEPT ![w] = FreshWorker]
    /\ Fault

\* mutant of LateRenewal: the heartbeat of a dropped context is never stopped
LateRenewal_Again(r) ==
    /\ run[r].late
    /\ run' = [run EXCEPT ![r].left = IF @ > 0 THEN Ttl ELSE 0]
    /\ UNCHANGED <<task, worker, faults>>

\* The last renewal of a dropped context
LateRenewal(r) ==
    /\ run[r].late
    /\ run' = [run EXCEPT ![r].left = IF @ > 0 THEN Ttl ELSE 0, ![r].late = FALSE]
    /\ UNCHANGED <<task, worker, faults>>

\* The heartbeat: the first renewal that fails is its last.
Renew(h) ==
    /\ Beating(h) /\ task[h].beat >= Interval
    /\ \/ /\ Holds(h) /\ run[task[h].run].left > 0
          /\ run' = [run EXCEPT ![task[h].run].left = Ttl]
          /\ task' = [task EXCEPT ![h].beat = 0]
          /\ NoFault
       \/ /\ task' = [task EXCEPT ![h].healthy = FALSE]
          /\ UNCHANGED run
          /\ IF Holds(h) /\ run[task[h].run].left > 0 THEN Fault ELSE NoFault
    /\ UNCHANGED worker

\* An operation of the handler renews as well.
Operate(h) ==
    /\ Beating(h) /\ Holds(h) /\ run[task[h].run].left > 0
    /\ run' = [run EXCEPT ![task[h].run].left = Ttl]
    /\ UNCHANGED <<task, worker, faults>>

\* Time passes; a heartbeat is never later than its slack.
Tick ==
    /\ \A h \in Handler : Beating(h) => task[h].beat < Interval + Slack
    /\ run' = [r \in Run |-> [run[r] EXCEPT !.left = IF @ > 0 THEN @ - 1 ELSE 0]]
    /\ task' = [h \in Handler |-> IF Beating(h) THEN [task[h] EXCEPT !.beat = @ + 1]
                                                ELSE task[h]]
    /\ UNCHANGED <<worker, faults>>

-----------------------------------------------------------------------------

WInit ==
    /\ run = [r \in Run |-> FreshRun]
    /\ task = [h \in Handler |-> NoTask]
    /\ worker = [w \in Worker |-> FreshWorker]
    /\ faults = 0

HandlerReturns(h) == HandlerCompletes(h) \/ HandlerCloses(h)

WNext ==
    \/ \E w \in Worker : \/ Poll(w) \/ Claim(w) \/ NothingToClaim(w) \/ ClaimFails(w)
                         \/ Join(w) \/ Shutdown(w) \/ Break(w) \/ Return(w) \/ Crash(w)
    \/ \E h \in Handler : HandlerReturns(h) \/ CompletionFails(h) \/ HandlerFails(h)
                         \/ Renew(h) \/ Operate(h)
    \/ \E r \in Run : LateRenewal(r)
    \/ Tick

WSpec == WInit /\ [][WNext]_wvars

\* Time passes and Tokio polls ready tasks; select! takes its branches in random
\* order, so none that is ready again and again is passed over for ever; a
\* handler completes or closes its context, as worker.rs:36 asks of it.
Progress ==
    /\ SF_wvars(Tick)
    /\ \A w \in Worker : /\ SF_wvars(Poll(w)) /\ WF_wvars(Claim(w) \/ NothingToClaim(w))
                         /\ SF_wvars(Join(w)) /\ SF_wvars(Break(w)) /\ WF_wvars(Return(w))
    /\ \A h \in Handler : WF_wvars(HandlerReturns(h)) /\ WF_wvars(Renew(h))
    /\ \A r \in Run : WF_wvars(LateRenewal(r))

WFairSpec == WSpec /\ Progress

-----------------------------------------------------------------------------

\* README "Active leases ... are never dispatched" and "It renews that lease
\* automatically in the background": a handler whose heartbeat has not failed
\* holds an unexpired lease, however late the renewals are within their slack;
\* so of all the handlers of a run, in all processes, at most one is healthy.
HandlersHoldTheirRuns == \A h \in Handler :
    Beating(h) => Holds(h) /\ run[task[h].run].left > 0

\* worker.rs:35 "waits for active handlers": when run() has returned, with or
\* without an error, no run is held by one of its handlers.
NoneLeftBehind == \A r \in Run :
    run[r].holder \in Handler => worker[run[r].holder[1]].pc # "returned"

\* worker.rs:36 "Dropped contexts become recoverable again after their lease
\* expires", although the last renewal of their heartbeat may still be under way.
DroppedBecomesRecoverable == \A r \in Run :
    run[r].holder = Gone ~> Recoverable(r) \/ run[r].holder # Gone

\* worker.rs:35 "Polls ... until shutdown, then waits for active handlers": a
\* worker that is told to shut down does return.
ShutdownReturns == \A w \in Worker :
    worker[w].shutdown ~> worker[w].pc = "returned" \/ ~worker[w].shutdown

\* README "the run becomes recoverable after its lease expires and is delivered
\* again": as long as one worker keeps polling, a run whose handler completes
\* it is completed in the end, whichever handler failed, process died or
\* heartbeat stopped.  (A handler that closes an older run again and again
\* makes it the oldest recoverable run each time, and a younger one may wait
\* for ever: Closing holds only younger runs.)
Serving == \E w \in Worker : worker[w].pc \in {"polling", "claiming"}
EveryRunCompletes == \A r \in Run \ Closing : []<>~Serving \/ <>run[r].completed
=============================================================================

---------------------------- MODULE DurableAgent ----------------------------
(* The reference agent of src/examples/durable_agent.rs: run_agent, its       *)
(* idempotent file tool and its verifier, in processes that may die anywhere  *)
(* and are started again with ZINCIR_RESUME, over the run store.              *)
(*                                                                            *)
(* Every database call is the transaction of RunStore; the renewal before it  *)
(* and the retries it may need are in AgentContext.  A process presents one   *)
(* owner id to every claim, and no lease expires: the example's TTL is five   *)
(* minutes, and a process takes over with force_recover() instead of waiting. *)
EXTENDS AgentView

CONSTANTS
    Creator,  \* the processes started without ZINCIR_RESUME
    Overlap,  \* may a process resume while another is alive?
    Lossy     \* may the artifact be deleted?

ASSUME CreatorAssumption == Creator \subseteq Owner /\ {Overlap, Lossy} \subseteq BOOLEAN

Resumer == Owner \ Creator

VARIABLES
    proc,  \* what each process has come to
    disk,  \* call_1.json: NoFile, or the process that published it
    lost   \* history: somebody has deleted it

dvars == <<vars, proc, disk, lost>>

NoFile == NoOwner
WriteFile == [id |-> "call_1", name |-> "tool"]
SubmitCheckpoint == [id |-> "checkpoint_1", name |-> "submit_checkpoint"]

\* The store takes the two responses of the example, and lets a process of it
\* take over any run.
ASSUME ExampleAssumption == /\ IsFiniteSet(Run) /\ Forced = Run
                            /\ {<<WriteFile>>, <<SubmitCheckpoint>>} \subseteq Response

NoProcess == [pc |-> "none", queue |-> <<>>, epoch |-> 0, todo |-> {},
              cp |-> 0, passed |-> FALSE, rejected |-> "close", result |-> NoFile]

Stopped == {"none", "done", "dead", "exited"}
Alive(o) == proc[o].pc \notin Stopped
RunOf(o) == Head(proc[o].queue)
LeaseOf(o) == [run |-> RunOf(o), owner |-> o, epoch |-> proc[o].epoch]

Goto(o, pc) == proc' = [proc EXCEPT ![o].pc = pc]

\* A read by the lease, or of the tables or the disk alone
Reads(o) == ValidWritableRunLease(LeaseOf(o)) /\ UNCHANGED <<vars, disk>>

-----------------------------------------------------------------------------
(* main: one new run, or every run that is not terminal, one after the other. *)

Create(o, r) ==
    /\ o \in Creator /\ proc[o].pc = "none"
    /\ CreateRun(r)
    /\ proc' = [proc EXCEPT ![o] = [NoProcess EXCEPT !.pc = "acquire", !.queue = <<r>>]]
    /\ UNCHANGED disk

Inflight == {r \in Run : runs[r].status \in Claimable}

\* list_inflight_runs, ORDER BY created_at: runs of one second in any order
Resume(o) ==
    /\ o \in Resumer /\ proc[o].pc = "none"
    /\ Overlap \/ \A p \in Owner : ~Alive(p)
    /\ Inflight # {}
    /\ \E queue \in [1 .. Cardinality(Inflight) -> Inflight] :
        /\ \A i, j \in DOMAIN queue : i < j =>
               /\ queue[i] # queue[j]
               /\ runs[queue[i]].created <= runs[queue[j]].created
        /\ proc' = [proc EXCEPT ![o] = [NoProcess EXCEPT !.pc = "recover", !.queue = queue]]
    /\ UNCHANGED <<vars, disk>>

\* create() and force_recover()
Claims(o) ==
    /\ proc[o].pc \in {"acquire", "recover"}
    /\ \E ttl \in Ttl : ClaimRunLease(RunOf(o), o, ttl, proc[o].pc = "recover")
    /\ proc' = [proc EXCEPT ![o].pc = "mark", ![o].epoch = runs[RunOf(o)].epoch + 1]
    /\ UNCHANGED disk

Marks(o) ==
    /\ proc[o].pc = "mark"
    /\ \/ UpdateRunStatus(LeaseOf(o), "running")
       \/ /\ ValidRunLease(LeaseOf(o)) /\ runs[RunOf(o)].status = "running"
          /\ UNCHANGED vars
    /\ Goto(o, "state")
    /\ UNCHANGED disk

\* run_agent returned Ok: the next run of the queue, if there is one
Finish(o) ==
    LET rest == Tail(proc[o].queue)
    IN  proc' = [proc EXCEPT ![o] = [NoProcess EXCEPT
                     !.pc = IF rest = <<>> THEN "done" ELSE "recover", !.queue = rest]]

-----------------------------------------------------------------------------
(* run_agent.                                                                 *)

\* state(): every checkpoint of the example leaves nothing remaining
ReadsState(o) ==
    /\ proc[o].pc = "state"
    /\ Goto(o, IF LatestAccepted(RunOf(o)) # {} THEN "complete" ELSE "pending_checkpoint")
    /\ UNCHANGED <<vars, disk>>

ReadsPendingCheckpoint(o) ==
    /\ proc[o].pc = "pending_checkpoint"
    /\ Reads(o)
    /\ IF Candidates(RunOf(o)) = {}
       THEN Goto(o, "pending_tool_calls")
       ELSE \E c \in Candidates(RunOf(o)) :
                proc' = [proc EXCEPT ![o].pc = "verify", ![o].cp = c.id,
                                     ![o].rejected = "pending_tool_calls"]

ReadsPendingToolCalls(o) ==
    /\ proc[o].pc = "pending_tool_calls"
    /\ Reads(o)
    /\ proc' = [proc EXCEPT ![o].pc = "loop", ![o].todo = PendingToolCalls(RunOf(o))]

\* mutant of NextPending: a checkpoint request is left to the code below
NextPending_ToolsOnly(i) == IF i.payload.name = "tool" THEN "execute" ELSE "loop"

\* A pending call: write_file is executed, a checkpoint request that was alone
\* in its response is proposed, anything else is passed over.
NextPending(i) ==
    IF i.payload.name = "tool" THEN "execute"
    ELSE IF i.payload.alone THEN "propose" ELSE "loop"

\* The calls that were pending, in the order of their intents
Loops(o) ==
    /\ proc[o].pc = "loop"
    /\ IF proc[o].todo = {}
       THEN proc' = [proc EXCEPT ![o].pc = "look", ![o].rejected = "close"]
       ELSE \E i \in proc[o].todo :
                /\ \A j \in proc[o].todo : SeqOf(i) <= SeqOf(j)
                /\ proc' = [proc EXCEPT ![o].pc = NextPending(i), ![o].todo = @ \ {i},
                                        ![o].rejected = "loop"]
    /\ UNCHANGED <<vars, disk>>

WroteFile(r) ==
    \E e \in StateEvents(r) : e.type = "tool_result" /\ e.payload.call = WriteFile.id

Looks(o) ==
    /\ proc[o].pc = "look"
    /\ Goto(o, IF WroteFile(RunOf(o)) THEN "request_checkpoint" ELSE "request_file")
    /\ UNCHANGED <<vars, disk>>

RequestsFile(o) ==
    /\ proc[o].pc = "request_file"
    /\ AppendLlmCall(LeaseOf(o), <<WriteFile>>)
    /\ Goto(o, "execute")
    /\ UNCHANGED disk

\* execute_write_file: a result that is there is returned
FindsFile(o) ==
    /\ proc[o].pc = "execute"
    /\ IF disk # NoFile
       THEN proc' = [proc EXCEPT ![o].pc = "record", ![o].result = disk]
       ELSE Goto(o, "publish")
    /\ UNCHANGED <<vars, disk>>

\* mutant of Publishes: rename() instead of hard_link()
Publishes_Rename(o) ==
    /\ proc[o].pc = "publish"
    /\ disk' = o
    /\ proc' = [proc EXCEPT ![o].pc = "record", ![o].result = o]
    /\ UNCHANGED vars

\* mutant of Publishes: the process that comes second keeps its own result
Publishes_OwnResult(o) ==
    /\ proc[o].pc = "publish"
    /\ disk' = IF disk = NoFile THEN o ELSE disk
    /\ proc' = [proc EXCEPT ![o].pc = "record", ![o].result = o]
    /\ UNCHANGED vars

\* hard_link() of the temporary file, which fails when the name exists
Publishes(o) ==
    /\ proc[o].pc = "publish"
    /\ IF disk = NoFile
       THEN disk' = o /\ proc' = [proc EXCEPT ![o].pc = "record", ![o].result = o]
       ELSE UNCHANGED disk /\ Goto(o, "reread")
    /\ UNCHANGED vars

\* The published result is read.  Without it, "result disappeared", the process
\* Exits.
Rereads(o) ==
    /\ proc[o].pc = "reread" /\ disk # NoFile
    /\ proc' = [proc EXCEPT ![o].pc = "record", ![o].result = disk]
    /\ UNCHANGED <<vars, disk>>

\* A result that is recorded already, with the same content, is answered Ok.
RecordsResult(o) ==
    /\ proc[o].pc = "record"
    /\ \/ RecordToolResult(LeaseOf(o), WriteFile.id)
       \/ /\ ValidWritableRunLease(LeaseOf(o)) /\ Results(RunOf(o), WriteFile.id) # {}
          /\ UNCHANGED vars
    /\ Goto(o, IF proc[o].rejected = "loop" THEN "loop" ELSE "request_checkpoint")
    /\ UNCHANGED disk

RequestsCheckpoint(o) ==
    /\ proc[o].pc = "request_checkpoint"
    /\ AppendLlmCall(LeaseOf(o), <<SubmitCheckpoint>>)
    /\ Goto(o, "propose")
    /\ UNCHANGED disk

Proposes(o) ==
    /\ proc[o].pc = "propose"
    /\ ProposeCheckpoint(LeaseOf(o), SubmitCheckpoint.id)
    /\ proc' = [proc EXCEPT ![o].pc = "verify", ![o].cp = NextCheckpointId]
    /\ UNCHANGED disk

\* verify_checkpoint fetches the candidate; verify() looks for the artifact.
Verifies(o) ==
    /\ proc[o].pc = "verify"
    /\ Reads(o)
    /\ \E c \in Candidates(RunOf(o)) : c.id = proc[o].cp
    /\ proc' = [proc EXCEPT ![o].pc = "decide", ![o].passed = (disk # NoFile)]

\* mutant of AfterVerdict: checkpoint_is_complete() looks at the remaining
\* work only
AfterVerdict_Any(o) == "complete"

\* A candidate that is rejected leads on: a pending one to the calls, one of
\* the loop to the next call, and the last one to close().
AfterVerdict(o) == IF proc[o].passed THEN "complete" ELSE proc[o].rejected

Decides(o) ==
    /\ proc[o].pc = "decide"
    /\ DecideCheckpoint(LeaseOf(o), proc[o].cp, proc[o].passed)
    /\ Goto(o, AfterVerdict(o))
    /\ UNCHANGED disk

Completes(o) ==
    /\ proc[o].pc = "complete"
    /\ CompleteRun(LeaseOf(o))
    /\ Finish(o)
    /\ UNCHANGED disk

Closes(o) ==
    /\ proc[o].pc = "close"
    /\ ReleaseRunLease(LeaseOf(o))
    /\ Finish(o)
    /\ UNCHANGED disk

Advance(o) ==
    \/ Claims(o) \/ Marks(o) \/ ReadsState(o) \/ ReadsPendingCheckpoint(o)
    \/ ReadsPendingToolCalls(o) \/ Loops(o) \/ Looks(o) \/ RequestsFile(o)
    \/ FindsFile(o) \/ Publishes(o) \/ Rereads(o) \/ RecordsResult(o)
    \/ RequestsCheckpoint(o) \/ Proposes(o) \/ Verifies(o) \/ Decides(o) \/ Completes(o) \/ Closes(o)

\* A call the store refuses is an error, and so is a published result that has
\* disappeared: it ends the process.
Exits(o) ==
    /\ Alive(o)
    /\ ~ENABLED Advance(o)
    /\ Goto(o, "exited")
    /\ UNCHANGED <<vars, disk>>

\* kill -9, as long as there is a process left to take over
Crash(o) ==
    /\ Alive(o)
    /\ \E p \in Resumer : proc[p].pc = "none"
    /\ Goto(o, "dead")
    /\ UNCHANGED <<vars, disk>>

\* Somebody deletes the artifact.
Lose ==
    /\ Lossy /\ disk # NoFile
    /\ disk' = NoFile /\ lost' = TRUE
    /\ UNCHANGED <<vars, proc>>

DInit == Init /\ proc = [o \in Owner |-> NoProcess] /\ disk = NoFile /\ lost = FALSE

DNext ==
    \/ /\ \E o \in Owner : \/ \E r \in Run : Create(o, r)
                          \/ Resume(o) \/ Advance(o) \/ Exits(o) \/ Crash(o)
       /\ UNCHANGED lost
    \/ Lose

DSpec == DInit /\ [][DNext]_dvars

\* A process runs until it ends, and as long as a run is not terminal and no
\* process is alive the operator starts one more.
Runs(o) == (Advance(o) \/ Exits(o)) /\ UNCHANGED lost
Restarts(o) == Resume(o) /\ UNCHANGED lost

DFairSpec == DSpec /\ \A o \in Owner : WF_dvars(Runs(o)) /\ WF_dvars(Restarts(o))

-----------------------------------------------------------------------------

\* The log of a run in sequence order, as the types of its events
TypesOf(r) == [i \in 1 .. LogLength(r) |-> (CHOOSE e \in EventsOf(r) : e.place = i - 1).type]

\* tests/crash_kill_resume.sh "unexpected event order": wherever processes were
\* killed and however often they were started, the log of a completed run is
\* that of an undisturbed one, with one execution of the tool and one
\* checkpoint, which was accepted.
CompletedOnce == \A r \in Run : runs[r].status = "completed" =>
    TypesOf(r) = <<"state_transition", "llm_call", "tool_call", "tool_result", "llm_call",
                   "tool_call", "checkpoint_proposed", "checkpoint_accepted",
                   "tool_result", "state_transition">>

\* tests/crash_kill_resume.sh "cached effect file was replaced during resume":
\* once published, the effect stays the one it is, or is deleted by somebody
\* else, but never replaced.
EffectKept == [][disk # NoFile => disk' \in {disk, NoFile}]_dvars

\* execute_write_file: what a process records as the result is what was
\* published, although two processes may have written it at once; and no
\* result is recorded without its effect.
ResultIsPublished == ~lost =>
    /\ \A o \in Owner : proc[o].pc = "record" => proc[o].result = disk
    /\ \A r \in Run : Results(r, WriteFile.id) # {} => disk # NoFile

\* README "recovery around the tool effect and checkpoint acceptance": with a
\* process to take over after each crash, every run is completed at last.
EveryRunRecovers == \A r \in Run :
    runs[r].status # "absent" ~> runs[r].status = "completed"
=============================================================================

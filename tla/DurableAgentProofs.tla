------------------------- MODULE DurableAgentProofs -------------------------
(* Theorems about DurableAgent, for every number of runs and of processes,    *)
(* killed and started anywhere, with a file that may be deleted: the example  *)
(* reaches the database through RunStore only, its artifact is published      *)
(* once, and the log of every run follows one path.                           *)
EXTENDS DurableAgent, RunStoreLogProofs, FiniteSetTheorems

USE CreatorAssumption, ExampleAssumption, OwnerAssumption

Moving == {"acquire", "recover", "mark", "state", "pending_checkpoint", "verify",
           "pending_tool_calls", "loop", "look", "request_file", "execute", "publish",
           "reread", "record", "request_checkpoint", "propose", "decide", "complete", "close"}

\* What a process does under a lease
Leased == Moving \ {"acquire", "recover"}

Queues == Seq(Run)
Todos == SUBSET Event

ProcRow == [pc : Moving \cup Stopped, queue : Queues, epoch : Nat, todo : Todos, cp : Nat,
            passed : BOOLEAN, rejected : {"close", "loop", "pending_tool_calls"},
            result : Owner \cup {NoFile}]

ProcsTyped == proc \in [Owner -> ProcRow]
DiskTyped == disk \in Owner \cup {NoFile}

\* A process that has not ended has a run, and past its claim a lease of it.
HaveRuns == \A o \in Owner : proc[o].pc \in Moving => proc[o].queue # <<>>
HaveLeases == \A o \in Owner : proc[o].pc \in Leased => LeaseOf(o) \in leases

ProcsInv == Shape /\ ProcsTyped /\ DiskTyped /\ HaveRuns /\ HaveLeases

-----------------------------------------------------------------------------
(* How a process moves.                                                       *)

\* Only process o moves, to pc.
Moves(o, pc) == /\ ProcsTyped'
                /\ proc'[o].pc = pc
                /\ \A p \in Owner \ {o} : proc'[p] = proc[p]

\* It keeps its run and its lease.
StaysOn(o) == proc'[o].queue = proc[o].queue /\ proc'[o].epoch = proc[o].epoch

LEMMA RunsOfProcs ==
    ASSUME ProcsInv, NEW o \in Owner, proc[o].pc \in Moving
    PROVE  /\ RunOf(o) \in Run /\ proc[o].queue \in Seq(Run)
           /\ LeaseOf(o).run = RunOf(o)
<1>1. proc[o].queue \in Seq(Run) /\ proc[o].queue # <<>>
  BY DEF ProcsInv, ProcsTyped, ProcRow, Queues, HaveRuns
<1> QED
  BY <1>1 DEF RunOf, LeaseOf

LEMMA GotoMoves ==
    ASSUME ProcsTyped, NEW o \in Owner, NEW pc \in Moving \cup Stopped, Goto(o, pc)
    PROVE  /\ Moves(o, pc) /\ StaysOn(o)
           /\ proc'[o].result = proc[o].result
  BY DEF ProcsTyped, ProcRow, Goto, Moves, StaysOn

LEMMA NoProcessTyped == NoProcess \in ProcRow
<1>1. <<>> \in Queues /\ {} \in Todos
  BY DEF Queues, Todos
<1> QED
  BY <1>1 DEF NoProcess, ProcRow, Stopped, Moving

\* A process starts over with this queue.
LEMMA StartMoves ==
    ASSUME ProcsInv, NEW o \in Owner, NEW pc \in Moving \cup Stopped, NEW queue \in Queues,
           proc' = [proc EXCEPT ![o] = [NoProcess EXCEPT !.pc = pc, !.queue = queue]]
    PROVE  Moves(o, pc) /\ proc'[o].queue = queue
<1> DEFINE row == [NoProcess EXCEPT !.pc = pc, !.queue = queue]
<1>1. row \in ProcRow /\ row.pc = pc /\ row.queue = queue
  BY NoProcessTyped DEF ProcRow
<1>2. proc' = [proc EXCEPT ![o] = row]
  OBVIOUS
<1> HIDE DEF row
<1> QED
  BY <1>1, <1>2 DEF ProcsInv, ProcsTyped, Moves

LEMMA CreateMoves ==
    ASSUME ProcsInv, NEW o \in Owner, NEW r \in Run, Create(o, r)
    PROVE  Moves(o, "acquire") /\ proc'[o].queue # <<>>
<1>1. <<r>> \in Queues /\ <<r>> # <<>>
  BY DEF Queues
<1>2. "acquire" \in Moving
  BY DEF Moving
<1> QED
  BY <1>1, <1>2, StartMoves DEF Create

LEMMA ResumeMoves ==
    ASSUME ProcsInv, NEW o \in Owner, Resume(o)
    PROVE  Moves(o, "recover") /\ proc'[o].queue # <<>>
<1> DEFINE n == Cardinality(Inflight)
<1>1. PICK queue \in [1 .. n -> Inflight] :
          proc' = [proc EXCEPT ![o] = [NoProcess EXCEPT !.pc = "recover", !.queue = queue]]
  BY DEF Resume
<1>2. Inflight # {} /\ Inflight \in SUBSET Run
  BY DEF Resume, Inflight
<1>3. IsFiniteSet(Inflight)
  BY <1>2, FS_Subset
<1>4. n \in Nat /\ n # 0
  BY <1>2, <1>3, FS_CardinalityType, FS_EmptySet
<1> HIDE DEF n
<1>5. queue \in Seq(Run) /\ Len(queue) = n /\ queue # <<>>
  <2>1. queue \in [1 .. n -> Run]
    BY <1>1, <1>2
  <2> QED
    BY <1>4, <2>1
<1>6. "recover" \in Moving
  BY DEF Moving
<1> QED
  BY <1>1, <1>5, <1>6, StartMoves DEF Queues

\* run_agent returned: the next run of the queue is recovered, or it was the last.
LEMMA FinishMoves ==
    ASSUME ProcsInv, NEW o \in Owner, proc[o].pc \in Moving, Finish(o)
    PROVE  \E pc \in {"done", "recover"} :
               Moves(o, pc) /\ (pc = "recover" => proc'[o].queue # <<>>)
<1> DEFINE rest == Tail(proc[o].queue)
           pc == IF rest = <<>> THEN "done" ELSE "recover"
<1>1. rest \in Queues
  <2>1. proc[o].queue \in Seq(Run) /\ proc[o].queue # <<>>
    BY DEF ProcsInv, ProcsTyped, ProcRow, Queues, HaveRuns
  <2> QED
    BY <2>1 DEF Queues
<1>2. pc \in Moving \cup Stopped
  BY DEF Moving, Stopped
<1>3. proc' = [proc EXCEPT ![o] = [NoProcess EXCEPT !.pc = pc, !.queue = rest]]
  BY DEF Finish
<1> HIDE DEF rest
<1>4. Moves(o, pc) /\ proc'[o].queue = rest
  BY <1>1, <1>2, <1>3, StartMoves
<1> QED
  BY <1>4

LEMMA ClaimsMoves ==
    ASSUME ProcsInv, NEW o \in Owner, Claims(o)
    PROVE  /\ Moves(o, "mark") /\ proc'[o].queue = proc[o].queue
           /\ proc'[o].epoch = runs[RunOf(o)].epoch + 1
           /\ proc[o].pc \in Moving
<1>1. proc[o].pc \in Moving
  BY DEF Claims, Moving
<1>2. runs[RunOf(o)].epoch + 1 \in Nat
  BY <1>1, RunsOfProcs, BoundAssumption DEF ProcsInv, Shape, RunsShape, RunRow
<1>3. proc' = [proc EXCEPT ![o].pc = "mark", ![o].epoch = runs[RunOf(o)].epoch + 1]
  BY DEF Claims
<1> DEFINE row == [proc[o] EXCEPT !.pc = "mark", !.epoch = runs[RunOf(o)].epoch + 1]
<1>4. proc[o] \in ProcRow
  BY DEF ProcsInv, ProcsTyped
<1>5. /\ row \in ProcRow /\ row.pc = "mark" /\ row.queue = proc[o].queue
      /\ row.epoch = runs[RunOf(o)].epoch + 1
  BY <1>2, <1>4 DEF ProcRow, Moving
<1>6. proc' = [proc EXCEPT ![o] = row]
  BY <1>3
<1> HIDE DEF row
<1> QED
  BY <1>1, <1>5, <1>6 DEF ProcsInv, ProcsTyped, Moves

-----------------------------------------------------------------------------
(* The steps of run_agent, between the claim and the end of the run.          *)

\* What a step under the lease does to its process
Works(o, pc) == Moves(o, pc) /\ StaysOn(o)

LEMMA RowWorks ==
    ASSUME ProcsInv, NEW o \in Owner, NEW row \in ProcRow, proc' = [proc EXCEPT ![o] = row],
           row.queue = proc[o].queue, row.epoch = proc[o].epoch
    PROVE  Works(o, row.pc) /\ proc'[o] = row
  BY DEF ProcsInv, ProcsTyped, Works, Moves, StaysOn

LEMMA GotoWorks ==
    ASSUME ProcsInv, NEW o \in Owner, NEW pc \in Moving \cup Stopped, Goto(o, pc)
    PROVE  Works(o, pc)
  BY GotoMoves DEF ProcsInv, Works

LEMMA ReadsStateWorks ==
    ASSUME ProcsInv, NEW o \in Owner, ReadsState(o)
    PROVE  \/ Works(o, "pending_checkpoint")
           \/ Works(o, "complete") /\ LatestAccepted(RunOf(o)) # {}
  BY GotoWorks DEF ReadsState, Moving

LEMMA ReadsPendingCheckpointWorks ==
    ASSUME ProcsInv, NEW o \in Owner, ReadsPendingCheckpoint(o)
    PROVE  Works(o, "pending_tool_calls") \/ Works(o, "verify")
<1>1. CASE Goto(o, "pending_tool_calls")
  BY <1>1, GotoWorks DEF Moving
<1>2. ASSUME NEW c \in Candidates(RunOf(o)),
             proc' = [proc EXCEPT ![o].pc = "verify", ![o].cp = c.id,
                                  ![o].rejected = "pending_tool_calls"]
      PROVE  Works(o, "verify")
  <2> DEFINE row == [proc[o] EXCEPT !.pc = "verify", !.cp = c.id,
                                    !.rejected = "pending_tool_calls"]
  <2>1. c.id \in Nat
    BY DEF Candidates, CheckpointsOf, ProcsInv, Shape, CheckpointsShape, Checkpoint
  <2>2. proc[o] \in ProcRow /\ proc' = [proc EXCEPT ![o] = row]
    BY <1>2 DEF ProcsInv, ProcsTyped
  <2>3. /\ row \in ProcRow /\ row.pc = "verify" /\ row.queue = proc[o].queue
        /\ row.epoch = proc[o].epoch
    BY <2>1, <2>2 DEF ProcRow, Moving
  <2> HIDE DEF row
  <2> QED
    BY <2>2, <2>3, RowWorks
<1> QED
  BY <1>1, <1>2 DEF ReadsPendingCheckpoint

LEMMA ReadsPendingToolCallsWorks ==
    ASSUME ProcsInv, NEW o \in Owner, ReadsPendingToolCalls(o)
    PROVE  Works(o, "loop")
<1> DEFINE row == [proc[o] EXCEPT !.pc = "loop", !.todo = PendingToolCalls(RunOf(o))]
<1>1. PendingToolCalls(RunOf(o)) \in Todos
  BY DEF PendingToolCalls, EventsOf, Todos, ProcsInv, Shape, EventsShape
<1>2. proc[o] \in ProcRow /\ proc' = [proc EXCEPT ![o] = row]
  BY DEF ReadsPendingToolCalls, ProcsInv, ProcsTyped
<1>3. /\ row \in ProcRow /\ row.pc = "loop" /\ row.queue = proc[o].queue
      /\ row.epoch = proc[o].epoch
  BY <1>1, <1>2 DEF ProcRow, Moving
<1> HIDE DEF row
<1> QED
  BY <1>2, <1>3, RowWorks

LEMMA LoopsWorks ==
    ASSUME ProcsInv, NEW o \in Owner, Loops(o)
    PROVE  \E pc \in {"look", "execute", "propose", "loop"} : Works(o, pc)
<1>1. proc[o] \in ProcRow
  BY DEF ProcsInv, ProcsTyped
<1>2. ASSUME proc' = [proc EXCEPT ![o].pc = "look", ![o].rejected = "close"]
      PROVE  Works(o, "look")
  <2> DEFINE row == [proc[o] EXCEPT !.pc = "look", !.rejected = "close"]
  <2>1. /\ row \in ProcRow /\ row.pc = "look" /\ row.queue = proc[o].queue
        /\ row.epoch = proc[o].epoch
    BY <1>1 DEF ProcRow, Moving
  <2>2. proc' = [proc EXCEPT ![o] = row]
    BY <1>2
  <2> HIDE DEF row
  <2> QED
    BY <2>1, <2>2, RowWorks
<1>3. ASSUME NEW i, proc' = [proc EXCEPT ![o].pc = NextPending(i), ![o].todo = @ \ {i},
                                         ![o].rejected = "loop"]
      PROVE  Works(o, NextPending(i))
  <2> DEFINE row == [proc[o] EXCEPT !.pc = NextPending(i), !.todo = @ \ {i},
                                    !.rejected = "loop"]
  <2>1. NextPending(i) \in Moving /\ proc[o].todo \ {i} \in Todos
    BY <1>1 DEF NextPending, Moving, ProcRow, Todos
  <2>2. /\ row \in ProcRow /\ row.pc = NextPending(i) /\ row.queue = proc[o].queue
        /\ row.epoch = proc[o].epoch
    BY <1>1, <2>1 DEF ProcRow
  <2>3. proc' = [proc EXCEPT ![o] = row]
    BY <1>3
  <2> HIDE DEF row
  <2> QED
    BY <2>2, <2>3, RowWorks
<1>4. \A i : NextPending(i) \in {"execute", "propose", "loop"}
  BY DEF NextPending
<1>5. CASE proc[o].todo = {}
  BY <1>2, <1>5 DEF Loops
<1>6. CASE proc[o].todo # {}
  <2>1. PICK i : proc' = [proc EXCEPT ![o].pc = NextPending(i), ![o].todo = @ \ {i},
                                      ![o].rejected = "loop"]
    BY <1>6 DEF Loops
  <2>2. Works(o, NextPending(i))
    BY <1>3, <2>1
  <2> QED
    BY <1>4, <2>2
<1> QED
  BY <1>5, <1>6

LEMMA LooksWorks ==
    ASSUME ProcsInv, NEW o \in Owner, Looks(o)
    PROVE  \/ Works(o, "request_file")
           \/ Works(o, "request_checkpoint") /\ Results(RunOf(o), WriteFile.id) # {}
<1>1. CASE WroteFile(RunOf(o))
  <2>1. Results(RunOf(o), WriteFile.id) # {}
    BY <1>1 DEF WroteFile, StateEvents, Results
  <2> QED
    BY <1>1, <2>1, GotoWorks DEF Looks, Moving
<1>2. CASE ~WroteFile(RunOf(o))
  BY <1>2, GotoWorks DEF Looks, Moving
<1> QED
  BY <1>1, <1>2

\* A process that goes on with this result of the tool
LEMMA ResultWorks ==
    ASSUME ProcsInv, NEW o \in Owner, NEW result \in Owner \cup {NoFile},
           proc' = [proc EXCEPT ![o].pc = "record", ![o].result = result]
    PROVE  Works(o, "record") /\ proc'[o].result = result
<1> DEFINE row == [proc[o] EXCEPT !.pc = "record", !.result = result]
<1>1. proc[o] \in ProcRow /\ proc' = [proc EXCEPT ![o] = row]
  BY DEF ProcsInv, ProcsTyped
<1>2. /\ row \in ProcRow /\ row.pc = "record" /\ row.queue = proc[o].queue
      /\ row.epoch = proc[o].epoch /\ row.result = result
  BY <1>1 DEF ProcRow, Moving
<1> HIDE DEF row
<1>3. Works(o, row.pc) /\ proc'[o] = row
  BY <1>1, <1>2, RowWorks
<1> QED
  BY <1>2, <1>3

LEMMA FindsFileWorks ==
    ASSUME ProcsInv, NEW o \in Owner, FindsFile(o)
    PROVE  \/ Works(o, "publish")
           \/ Works(o, "record") /\ proc'[o].result = disk /\ disk # NoFile
<1>1. CASE disk # NoFile
  BY <1>1, ResultWorks DEF FindsFile, ProcsInv, DiskTyped
<1>2. CASE disk = NoFile
  BY <1>2, GotoWorks DEF FindsFile, Moving
<1> QED
  BY <1>1, <1>2

LEMMA PublishesWorks ==
    ASSUME ProcsInv, NEW o \in Owner, Publishes(o)
    PROVE  /\ \/ Works(o, "reread")
              \/ Works(o, "record") /\ proc'[o].result = disk' /\ disk' # NoFile
           /\ DiskTyped' /\ (disk # NoFile => disk' = disk)
<1>1. CASE disk = NoFile
  <2>1. disk' = o /\ proc' = [proc EXCEPT ![o].pc = "record", ![o].result = o]
    BY <1>1 DEF Publishes
  <2>2. Works(o, "record") /\ proc'[o].result = o
    BY <2>1, ResultWorks
  <2> QED
    BY <1>1, <2>1, <2>2 DEF DiskTyped, NoFile
<1>2. CASE disk # NoFile
  <2>1. Works(o, "reread")
    BY <1>2, GotoWorks DEF Publishes, Moving
  <2> QED
    BY <1>2, <2>1 DEF Publishes, DiskTyped, ProcsInv
<1> QED
  BY <1>1, <1>2

LEMMA RereadsWorks ==
    ASSUME ProcsInv, NEW o \in Owner, Rereads(o)
    PROVE  /\ Works(o, "record") /\ proc'[o].result = disk
           /\ disk # NoFile /\ disk' = disk
  BY ResultWorks DEF Rereads, ProcsInv, DiskTyped

LEMMA RecordsResultWorks ==
    ASSUME ProcsInv, NEW o \in Owner, RecordsResult(o)
    PROVE  Works(o, "loop") \/ Works(o, "request_checkpoint")
  BY GotoWorks DEF RecordsResult, Moving

LEMMA ProposesWorks ==
    ASSUME ProcsInv, NEW o \in Owner, Proposes(o)
    PROVE  Works(o, "verify")
<1> DEFINE row == [proc[o] EXCEPT !.pc = "verify", !.cp = NextCheckpointId]
<1>1. NextCheckpointId \in Nat
  <2>1. PICK n \in Nat : Ids = 1 .. n
    BY DEF ProcsInv, Shape, CheckpointsShape, IdsInitial
  <2> QED
    BY <2>1, NextCheckpointIdIs
<1>2. proc[o] \in ProcRow /\ proc' = [proc EXCEPT ![o] = row]
  BY DEF Proposes, ProcsInv, ProcsTyped
<1>3. /\ row \in ProcRow /\ row.pc = "verify" /\ row.queue = proc[o].queue
      /\ row.epoch = proc[o].epoch
  BY <1>1, <1>2 DEF ProcRow, Moving
<1> HIDE DEF row
<1> QED
  BY <1>2, <1>3, RowWorks

LEMMA VerifiesWorks ==
    ASSUME ProcsInv, NEW o \in Owner, Verifies(o)
    PROVE  Works(o, "decide")
<1> DEFINE row == [proc[o] EXCEPT !.pc = "decide", !.passed = (disk # NoFile)]
<1>1. proc[o] \in ProcRow /\ proc' = [proc EXCEPT ![o] = row]
  BY DEF Verifies, ProcsInv, ProcsTyped
<1>2. (disk # NoFile) \in BOOLEAN
  OBVIOUS
<1>3. /\ row \in ProcRow /\ row.pc = "decide" /\ row.queue = proc[o].queue
      /\ row.epoch = proc[o].epoch
  BY <1>1, <1>2 DEF ProcRow, Moving
<1> HIDE DEF row
<1> QED
  BY <1>1, <1>3, RowWorks

LEMMA DecidesWorks ==
    ASSUME ProcsInv, NEW o \in Owner, Decides(o)
    PROVE  \/ Works(o, "complete") /\ proc[o].passed
           \/ Works(o, proc[o].rejected) /\ proc[o].rejected # "complete"
<1>1. proc[o].rejected \in {"close", "loop", "pending_tool_calls"}
  BY DEF ProcsInv, ProcsTyped, ProcRow
<1>2. CASE proc[o].passed
  BY <1>2, GotoWorks DEF Decides, AfterVerdict, Moving
<1>3. CASE ~proc[o].passed
  BY <1>1, <1>3, GotoWorks DEF Decides, AfterVerdict, Moving
<1> QED
  BY <1>2, <1>3

-----------------------------------------------------------------------------
(* Every step of a process is a step of the run store, or leaves it alone.    *)

LEMMA LeasesGrow == ASSUME [Next]_vars PROVE leases \subseteq leases'
<1>1. CASE UNCHANGED leases
  BY <1>1
<1>2. ASSUME NEW r, NEW o, NEW ttl, NEW status, GrantLease(r, o, ttl, status)
      PROVE  leases \subseteq leases'
  BY <1>2 DEF GrantLease
<1>3. CASE Claim
  BY <1>2, <1>3 DEF Claim, AcquireRunLease, RecoverRunLease, ClaimRunLease,
     ClaimNextRecoverableRun
<1>4. ASSUME NEW l, HoldLease(l) \/ WriteLog(l) PROVE UNCHANGED leases
  BY <1>4 DEF HoldLease, RenewRunLease, ReleaseRunLease, UpdateRunStatus, CompleteRun,
     WriteLog, AppendLlmCall, RecordToolResult, AppendEvent, ProposeCheckpoint,
     DecideCheckpoint
<1>5. ASSUME NEW r, CreateRun(r) PROVE UNCHANGED leases
  BY <1>5 DEF CreateRun
<1>6. ASSUME NEW t, Tick(t) PROVE UNCHANGED leases
  BY <1>6 DEF Tick
<1> QED
  BY <1>1, <1>3, <1>4, <1>5, <1>6 DEF Next, vars

\* The calls of the example are calls the model responses of the store allow.
LEMMA ExampleCalls == WriteFile.id \in CallId /\ SubmitCheckpoint.id \in CallId
<1>1. <<WriteFile>> \in Seq(ToolCall) /\ <<SubmitCheckpoint>> \in Seq(ToolCall)
  BY ResponseAssumption
<1>2. WriteFile \in ToolCall /\ SubmitCheckpoint \in ToolCall
  BY <1>1
<1> QED
  BY <1>2 DEF ToolCall

LEMMA ClaimsIsClaim ==
    ASSUME ProcsInv, NEW o \in Owner, Claims(o)
    PROVE  Claim /\ LeaseOf(o)' \in leases'
<1>1. proc[o].pc \in Moving /\ RunOf(o) \in Run
  BY RunsOfProcs DEF Claims, Moving
<1>2. PICK ttl \in Ttl : ClaimRunLease(RunOf(o), o, ttl, proc[o].pc = "recover")
  BY DEF Claims
<1>3. Claim
  <2>1. CASE proc[o].pc = "recover"
    <3>1. (proc[o].pc = "recover") = TRUE
      BY <2>1
    <3>2. RecoverRunLease(RunOf(o), o, ttl)
      BY <1>2, <3>1 DEF RecoverRunLease
    <3> QED
      BY <1>1, <3>2 DEF Claim
  <2>2. CASE proc[o].pc # "recover"
    <3>1. (proc[o].pc = "recover") = FALSE
      BY <2>2
    <3>2. AcquireRunLease(RunOf(o), o, ttl)
      BY <1>2, <3>1 DEF AcquireRunLease
    <3> QED
      BY <1>1, <3>2 DEF Claim
  <2> QED
    BY <2>1, <2>2
<1>4. [run |-> RunOf(o), owner |-> o, epoch |-> runs[RunOf(o)].epoch + 1] \in leases'
  BY <1>2 DEF ClaimRunLease, GrantLease
<1>5. /\ proc'[o].queue = proc[o].queue /\ proc'[o].epoch = runs[RunOf(o)].epoch + 1
  BY ClaimsMoves
<1> QED
  BY <1>3, <1>4, <1>5 DEF LeaseOf, RunOf

\* The calls made under the lease
LEMMA CallsAreCalls ==
    ASSUME ProcsInv, NEW o \in Owner, proc[o].pc \in Leased,
           \/ Marks(o) \/ RequestsFile(o) \/ RecordsResult(o) \/ RequestsCheckpoint(o)
           \/ Proposes(o) \/ Decides(o) \/ Completes(o) \/ Closes(o)
    PROVE  [Next]_vars
<1> DEFINE l == LeaseOf(o)
<1>1. l \in leases
  BY DEF ProcsInv, HaveLeases
<1> HIDE DEF l
<1>2. ASSUME HoldLease(l) \/ WriteLog(l) PROVE Next
  BY <1>1, <1>2 DEF Next
<1>3. CASE Marks(o)
  BY <1>2, <1>3 DEF Marks, HoldLease, l
<1>4. CASE RequestsFile(o)
  BY <1>2, <1>4 DEF RequestsFile, WriteLog, l
<1>5. CASE RecordsResult(o)
  BY <1>2, <1>5, ExampleCalls DEF RecordsResult, WriteLog, l
<1>6. CASE RequestsCheckpoint(o)
  BY <1>2, <1>6 DEF RequestsCheckpoint, WriteLog, l
<1>7. CASE Proposes(o)
  BY <1>2, <1>7, ExampleCalls DEF Proposes, WriteLog, l
<1>8. CASE Decides(o)
  <2>1. DecideCheckpoint(l, proc[o].cp, proc[o].passed)
    BY <1>8 DEF Decides, l
  <2>2. PICK c \in checkpoints : c.id = proc[o].cp
    BY <2>1 DEF DecideCheckpoint, Candidates, CheckpointsOf
  <2>3. proc[o].passed \in BOOLEAN
    BY DEF ProcsInv, ProcsTyped, ProcRow
  <2> QED
    BY <1>2, <2>1, <2>2, <2>3 DEF WriteLog
<1>9. CASE Completes(o)
  BY <1>2, <1>9 DEF Completes, HoldLease, l
<1>10. CASE Closes(o)
  BY <1>2, <1>10 DEF Closes, HoldLease, l
<1> QED
  BY <1>3, <1>4, <1>5, <1>6, <1>7, <1>8, <1>9, <1>10

\* What a step of run_agent does to its process: it goes on under its lease, or
\* ends this run.
WorksUnderLease(o) == /\ proc[o].pc \in Leased
                      /\ \E pc \in Leased : Works(o, pc)

EndsRun(o) == /\ proc[o].pc \in Leased
              /\ \E pc \in {"done", "recover"} :
                     Moves(o, pc) /\ (pc = "recover" => proc'[o].queue # <<>>)

LEMMA AdvanceIs ==
    ASSUME ProcsInv, NEW o \in Owner, Advance(o)
    PROVE  /\ [Next]_vars /\ DiskTyped'
           /\ \/ WorksUnderLease(o)
              \/ EndsRun(o)
              \/ Claims(o)
<1>1. CASE Claims(o)
  BY <1>1, ClaimsIsClaim DEF Claims, Next, ProcsInv, DiskTyped
<1>2. CASE Marks(o)
  <2>1. Works(o, "state")
    BY <1>2, GotoWorks DEF Marks, Moving
  <2>2. proc[o].pc \in Leased
    BY <1>2 DEF Marks, Leased, Moving
  <2> QED
    BY <1>2, <2>1, <2>2, CallsAreCalls
    DEF Marks, WorksUnderLease, Leased, Moving, ProcsInv, DiskTyped
<1>3. CASE ReadsState(o)
  BY <1>3, ReadsStateWorks
  DEF ReadsState, WorksUnderLease, Leased, Moving, ProcsInv, DiskTyped
<1>4. CASE ReadsPendingCheckpoint(o)
  BY <1>4, ReadsPendingCheckpointWorks
  DEF ReadsPendingCheckpoint, Reads, WorksUnderLease, Leased, Moving, ProcsInv, DiskTyped
<1>5. CASE ReadsPendingToolCalls(o)
  BY <1>5, ReadsPendingToolCallsWorks
  DEF ReadsPendingToolCalls, Reads, WorksUnderLease, Leased, Moving, ProcsInv, DiskTyped
<1>6. CASE Loops(o)
  BY <1>6, LoopsWorks
  DEF Loops, WorksUnderLease, Leased, Moving, ProcsInv, DiskTyped
<1>7. CASE Looks(o)
  BY <1>7, LooksWorks
  DEF Looks, WorksUnderLease, Leased, Moving, ProcsInv, DiskTyped
<1>8. CASE RequestsFile(o)
  <2>1. Works(o, "execute")
    BY <1>8, GotoWorks DEF RequestsFile, Moving
  <2>2. proc[o].pc \in Leased
    BY <1>8 DEF RequestsFile, Leased, Moving
  <2> QED
    BY <1>8, <2>1, <2>2, CallsAreCalls
    DEF RequestsFile, WorksUnderLease, Leased, Moving, ProcsInv, DiskTyped
<1>9. CASE FindsFile(o)
  BY <1>9, FindsFileWorks
  DEF FindsFile, WorksUnderLease, Leased, Moving, ProcsInv, DiskTyped
<1>10. CASE Publishes(o)
  BY <1>10, PublishesWorks
  DEF Publishes, WorksUnderLease, Leased, Moving
<1>18. CASE Rereads(o)
  BY <1>18, RereadsWorks
  DEF Rereads, WorksUnderLease, Leased, Moving, ProcsInv, DiskTyped
<1>11. CASE RecordsResult(o)
  <2>1. proc[o].pc \in Leased
    BY <1>11 DEF RecordsResult, Leased, Moving
  <2> QED
    BY <1>11, <2>1, RecordsResultWorks, CallsAreCalls
    DEF RecordsResult, WorksUnderLease, Leased, Moving, ProcsInv, DiskTyped
<1>12. CASE RequestsCheckpoint(o)
  <2>1. Works(o, "propose")
    BY <1>12, GotoWorks DEF RequestsCheckpoint, Moving
  <2>2. proc[o].pc \in Leased
    BY <1>12 DEF RequestsCheckpoint, Leased, Moving
  <2> QED
    BY <1>12, <2>1, <2>2, CallsAreCalls
    DEF RequestsCheckpoint, WorksUnderLease, Leased, Moving, ProcsInv, DiskTyped
<1>13. CASE Proposes(o)
  <2>1. proc[o].pc \in Leased
    BY <1>13 DEF Proposes, Leased, Moving
  <2> QED
    BY <1>13, <2>1, ProposesWorks, CallsAreCalls
    DEF Proposes, WorksUnderLease, Leased, Moving, ProcsInv, DiskTyped
<1>14. CASE Verifies(o)
  BY <1>14, VerifiesWorks
  DEF Verifies, Reads, WorksUnderLease, Leased, Moving, ProcsInv, DiskTyped
<1>15. CASE Decides(o)
  <2>1. proc[o].pc \in Leased
    BY <1>15 DEF Decides, Leased, Moving
  <2>2. proc[o].rejected \in {"close", "loop", "pending_tool_calls"}
    BY DEF ProcsInv, ProcsTyped, ProcRow
  <2>3. \E pc \in Leased : Works(o, pc)
    BY <1>15, <2>2, DecidesWorks DEF Leased, Moving
  <2> QED
    BY <1>15, <2>1, <2>3, CallsAreCalls DEF Decides, WorksUnderLease, ProcsInv, DiskTyped
<1>16. CASE Completes(o)
  <2>1. proc[o].pc \in Leased /\ proc[o].pc \in Moving
    BY <1>16 DEF Completes, Leased, Moving
  <2> QED
    BY <1>16, <2>1, FinishMoves, CallsAreCalls DEF Completes, EndsRun, ProcsInv, DiskTyped
<1>17. CASE Closes(o)
  <2>1. proc[o].pc \in Leased /\ proc[o].pc \in Moving
    BY <1>17 DEF Closes, Leased, Moving
  <2> QED
    BY <1>17, <2>1, FinishMoves, CallsAreCalls DEF Closes, EndsRun, ProcsInv, DiskTyped
<1> QED
  BY <1>1, <1>2, <1>3, <1>4, <1>5, <1>6, <1>7, <1>8, <1>9, <1>10, <1>11, <1>12, <1>13,
     <1>14, <1>15, <1>16, <1>17, <1>18 DEF Advance

LEMMA MovesKeeps ==
    ASSUME ProcsInv, [Next]_vars, DiskTyped', NEW o \in Owner, NEW pc, Moves(o, pc),
           pc \in Moving => proc'[o].queue # <<>>,
           pc \in Leased => LeaseOf(o)' \in leases'
    PROVE  ProcsInv'
<1>1. Shape'
  BY NextShape DEF ProcsInv
<1>2. ProcsTyped' /\ proc'[o].pc = pc /\ \A p \in Owner \ {o} : proc'[p] = proc[p]
  BY DEF Moves
<1>3. HaveRuns'
  BY <1>2 DEF ProcsInv, HaveRuns
<1>4. HaveLeases'
  <2> SUFFICES ASSUME NEW p \in Owner, proc'[p].pc \in Leased PROVE LeaseOf(p)' \in leases'
    BY DEF HaveLeases
  <2>1. CASE p = o
    BY <1>2, <2>1
  <2>2. CASE p # o
    <3>1. proc'[p] = proc[p]
      BY <1>2, <2>2
    <3>2. LeaseOf(p) \in leases
      BY <3>1 DEF ProcsInv, HaveLeases
    <3>3. LeaseOf(p)' = LeaseOf(p)
      BY <3>1 DEF LeaseOf, RunOf
    <3> QED
      BY <3>2, <3>3, LeasesGrow
  <2> QED
    BY <2>1, <2>2
<1> QED
  BY <1>1, <1>2, <1>3, <1>4 DEF ProcsInv

LEMMA AdvanceKeeps ==
    ASSUME ProcsInv, NEW o \in Owner, Advance(o)
    PROVE  [Next]_vars /\ ProcsInv'
<1>1. [Next]_vars /\ DiskTyped'
  BY AdvanceIs
<1>2. CASE WorksUnderLease(o)
  <2>1. PICK pc \in Leased : Moves(o, pc) /\ StaysOn(o)
    BY <1>2 DEF WorksUnderLease, Works
  <2>2. proc[o].pc \in Leased /\ proc[o].pc \in Moving
    BY <1>2 DEF WorksUnderLease, Leased
  <2>3. LeaseOf(o)' = LeaseOf(o)
    BY <2>1 DEF StaysOn, LeaseOf, RunOf
  <2>4. LeaseOf(o)' \in leases'
    BY <1>1, <2>2, <2>3, LeasesGrow DEF ProcsInv, HaveLeases
  <2>5. proc'[o].queue # <<>>
    BY <2>1, <2>2 DEF StaysOn, ProcsInv, HaveRuns
  <2> QED
    BY <1>1, <2>1, <2>4, <2>5, MovesKeeps
<1>3. CASE EndsRun(o)
  <2>1. PICK pc \in {"done", "recover"} :
            Moves(o, pc) /\ (pc = "recover" => proc'[o].queue # <<>>)
    BY <1>3 DEF EndsRun
  <2>2. pc \notin Leased /\ (pc \in Moving => pc = "recover")
    BY <2>1 DEF Leased, Moving
  <2> QED
    BY <1>1, <2>1, <2>2, MovesKeeps
<1>4. CASE Claims(o)
  <2>1. proc[o].queue # <<>> /\ proc'[o].queue = proc[o].queue /\ Moves(o, "mark")
    BY <1>4, ClaimsMoves DEF ProcsInv, HaveRuns
  <2> QED
    BY <1>1, <1>4, <2>1, ClaimsIsClaim, MovesKeeps
<1> QED
  BY <1>1, <1>2, <1>3, <1>4, AdvanceIs

\* The other steps: a process is started, ends in an error or is killed, or the
\* artifact is deleted.
LEMMA OthersKeep ==
    ASSUME ProcsInv,
           \/ \E o \in Owner : \/ \E r \in Run : Create(o, r)
                              \/ Resume(o) \/ Exits(o) \/ Crash(o)
           \/ Lose
           \/ UNCHANGED dvars
    PROVE  [Next]_vars /\ ProcsInv'
<1>1. ASSUME NEW o \in Owner, NEW r \in Run, Create(o, r)
      PROVE  [Next]_vars /\ ProcsInv'
  <2>1. [Next]_vars /\ DiskTyped'
    BY <1>1 DEF Create, Next, ProcsInv, DiskTyped
  <2>2. Moves(o, "acquire") /\ proc'[o].queue # <<>> /\ "acquire" \notin Leased
    BY <1>1, CreateMoves DEF Leased
  <2> QED
    BY <2>1, <2>2, MovesKeeps
<1>2. ASSUME NEW o \in Owner, Resume(o) PROVE [Next]_vars /\ ProcsInv'
  <2>1. [Next]_vars /\ DiskTyped'
    BY <1>2 DEF Resume, ProcsInv, DiskTyped
  <2>2. Moves(o, "recover") /\ proc'[o].queue # <<>> /\ "recover" \notin Leased
    BY <1>2, ResumeMoves DEF Leased
  <2> QED
    BY <2>1, <2>2, MovesKeeps
<1>3. ASSUME NEW o \in Owner, NEW pc \in {"exited", "dead"}, Goto(o, pc),
             UNCHANGED <<vars, disk>>
      PROVE  [Next]_vars /\ ProcsInv'
  <2>1. [Next]_vars /\ DiskTyped'
    BY <1>3 DEF ProcsInv, DiskTyped
  <2>2. pc \in Stopped /\ pc \notin Leased /\ pc \notin Moving
    BY DEF Stopped, Leased, Moving
  <2>3. Moves(o, pc)
    BY <1>3, <2>2, GotoMoves DEF ProcsInv
  <2> QED
    BY <2>1, <2>2, <2>3, MovesKeeps
<1>4. ASSUME NEW o \in Owner, Exits(o) PROVE [Next]_vars /\ ProcsInv'
  <2>1. Goto(o, "exited") /\ UNCHANGED <<vars, disk>>
    BY <1>4 DEF Exits
  <2> QED
    BY <1>3, <2>1
<1>5. ASSUME NEW o \in Owner, Crash(o) PROVE [Next]_vars /\ ProcsInv'
  BY <1>3, <1>5 DEF Crash
<1>6. ASSUME UNCHANGED <<vars, proc>>, DiskTyped' PROVE [Next]_vars /\ ProcsInv'
  <2>1. Shape'
    BY <1>6, NextShape DEF ProcsInv
  <2> QED
    BY <1>6, <2>1 DEF ProcsInv, ProcsTyped, HaveRuns, HaveLeases, LeaseOf, RunOf, vars
<1>7. CASE Lose
  BY <1>6, <1>7 DEF Lose, DiskTyped
<1>8. CASE UNCHANGED dvars
  BY <1>6, <1>8 DEF dvars, ProcsInv, DiskTyped
<1> QED
  BY <1>1, <1>2, <1>4, <1>5, <1>7, <1>8

LEMMA ProcsStep == ProcsInv /\ [DNext]_dvars => [Next]_vars /\ ProcsInv'
<1> SUFFICES ASSUME ProcsInv, [DNext]_dvars PROVE [Next]_vars /\ ProcsInv'
  OBVIOUS
<1>1. \/ \E o \in Owner : Advance(o)
      \/ \E o \in Owner : \/ \E r \in Run : Create(o, r)
                         \/ Resume(o) \/ Exits(o) \/ Crash(o)
      \/ Lose
      \/ UNCHANGED dvars
  BY DEF DNext
<1> QED
  BY <1>1, AdvanceKeeps, OthersKeep

LEMMA ProcsStart == DInit => Init /\ ProcsInv
<1> SUFFICES ASSUME DInit PROVE Init /\ ProcsInv
  OBVIOUS
<1>1. Init /\ Shape
  BY InitShape DEF DInit
<1>2. ProcsTyped /\ DiskTyped
  BY NoProcessTyped DEF DInit, ProcsTyped, DiskTyped
<1>3. NoProcess.pc = "none"
  BY DEF NoProcess
<1>4. HaveRuns /\ HaveLeases
  BY <1>3 DEF DInit, HaveRuns, HaveLeases, Leased, Moving
<1> QED
  BY <1>1, <1>2, <1>4 DEF ProcsInv

\* A process of the example that has not ended works on a run of its queue, and
\* past its claim under a lease that a claim returned.
THEOREM ProcsInvariant == DSpec => []ProcsInv
<1> QED
  BY ProcsStart, ProcsStep, PTL DEF DSpec

\* durable_agent.rs, agent.rs: whatever the processes of the example do, and
\* wherever they are killed, the database goes through steps of the run store
\* only, under leases its claims have returned; so every theorem about RunStore
\* holds of the example.
THEOREM AgentUsesStore == DSpec => Spec
<1> QED
  BY ProcsStart, ProcsStep, ProcsInvariant, PTL DEF DSpec, Spec
-----------------------------------------------------------------------------
(* The artifact.                                                              *)

LEMMA DiskKept ==
    ASSUME ProcsInv, [DNext]_dvars, disk # NoFile
    PROVE  disk' = disk \/ Lose
<1>1. ASSUME NEW o \in Owner, Advance(o) PROVE disk' = disk
  <2>1. CASE Publishes(o)
    BY <2>1, PublishesWorks
  <2>2. CASE Rereads(o)
    BY <2>2, RereadsWorks
  <2>3. CASE ~Publishes(o) /\ ~Rereads(o)
    BY <1>1, <2>3
    DEF Advance, Claims, Marks, ReadsState, ReadsPendingCheckpoint, ReadsPendingToolCalls,
        Reads, Loops, Looks, RequestsFile, FindsFile, RecordsResult, RequestsCheckpoint,
        Proposes, Verifies, Decides, Completes, Closes
  <2> QED
    BY <2>1, <2>2, <2>3
<1>2. ASSUME NEW o \in Owner,
             (\E r \in Run : Create(o, r)) \/ Resume(o) \/ Exits(o) \/ Crash(o)
      PROVE  disk' = disk
  BY <1>2 DEF Create, Resume, Exits, Crash
<1>3. CASE UNCHANGED dvars
  BY <1>3 DEF dvars
<1> QED
  BY <1>1, <1>2, <1>3 DEF DNext

\* execute_write_file: the published artifact is never replaced, however many
\* processes write it, and wherever they are killed.
THEOREM ArtifactIsKept == DSpec => EffectKept
<1>1. ProcsInv /\ [DNext]_dvars => [disk # NoFile => disk' \in {disk, NoFile}]_dvars
  BY DiskKept DEF Lose
<1> QED
  BY <1>1, ProcsInvariant, PTL DEF DSpec, EffectKept

-----------------------------------------------------------------------------
(* The path of a run: where its log may stand between two transactions, and   *)
(* which event is at which place.                                             *)

Fits(e) ==
    /\ e.place = 0 => e.type = "state_transition"
    /\ e.place \in {1, 4} => e.type = "llm_call"
    /\ e.place = 2 => e.type = "tool_call" /\ e.payload.call = WriteFile.id
                    /\ e.payload.name = "tool"
    /\ e.place = 3 => e.type = "tool_result" /\ e.payload.call = WriteFile.id
    /\ e.place = 5 => e.type = "tool_call" /\ e.payload.call = SubmitCheckpoint.id
    /\ e.place = 6 => e.type = "checkpoint_proposed"
    /\ e.place = 7 => e.type \in Verdicts
    /\ e.place = 8 => e.type = "tool_result" /\ e.payload.call = SubmitCheckpoint.id
    /\ e.place = 9 => e.type = "state_transition"

\* The tables when the log of r has n events.  A candidate is at 7 only, and
\* a run is not completed before a checkpoint is accepted.
Place(r, n) ==
    /\ n \in {0, 1, 3, 4, 6, 7, 9, 10}
    /\ n = 0 <=> runs[r].status \in {"absent", "pending"}
    /\ n \in {1, 3, 4, 6, 7, 9} <=> runs[r].status = "running"
    /\ n = 10 <=> runs[r].status = "completed"
    /\ CheckpointsOf(r) # {} <=> n \in {7, 9, 10}
    /\ \A c \in CheckpointsOf(r) : /\ c.call = SubmitCheckpoint.id
                                   /\ c.status = "candidate" <=> n = 7
    /\ n = 10 => Accepted(r) # {}

Paths == /\ \A e \in events : Fits(e)
         /\ \A r \in Run : Place(r, LogLength(r))

\* No result of the tool is recorded.
NoneRecorded == \A r \in Run :
    Results(r, WriteFile.id)' # {} => Results(r, WriteFile.id) # {}

LEMMA ExampleNames ==
    /\ WriteFile.id = "call_1" /\ WriteFile.name = "tool"
    /\ SubmitCheckpoint.id = "checkpoint_1" /\ SubmitCheckpoint.name = "submit_checkpoint"
    /\ WriteFile.id # SubmitCheckpoint.id
  BY DEF WriteFile, SubmitCheckpoint

\* The places of a log of n events are 0 to n - 1.
LEMMA LogPlaces ==
    ASSUME Shape, NEW r \in Run
    PROVE  /\ LogLength(r) \in Nat
           /\ \A e \in EventsOf(r) : e.place \in 0 .. LogLength(r) - 1
           /\ \A i \in 0 .. LogLength(r) - 1 : \E e \in EventsOf(r) : e.place = i
<1>1. PICK n \in Nat : Places(r) = 0 .. n - 1
  BY DEF Shape, EventsShape, PlacesInitial
<1>2. LogLength(r) = n
  BY <1>1, LogLengthIs
<1> QED
  BY <1>1, <1>2 DEF Places

\* The log ends after its last event.
LogEnds == \A r \in Run : \A n \in Nat :
    (/\ \A e \in EventsOf(r) : e.place < n
     /\ n > 0 => \E e \in EventsOf(r) : e.place = n - 1) => LogLength(r) = n

LEMMA LastPlace == Shape => LogEnds
<1> SUFFICES ASSUME Shape, NEW r \in Run, NEW n \in Nat,
                    \A e \in EventsOf(r) : e.place < n,
                    n > 0 => \E e \in EventsOf(r) : e.place = n - 1
             PROVE  LogLength(r) = n
  BY DEF LogEnds
<1>1. PICK m \in Nat : Places(r) = 0 .. m - 1
  BY DEF Shape, EventsShape, PlacesInitial
<1>2. LogLength(r) = m
  BY <1>1, LogLengthIs
<1>3. ASSUME m > 0 PROVE m - 1 < n
  <2>1. m - 1 \in Places(r)
    BY <1>1, <1>3
  <2> QED
    BY <2>1 DEF Places
<1>4. ASSUME n > 0 PROVE n - 1 \in 0 .. m - 1
  <2>1. n - 1 \in Places(r)
    BY <1>4 DEF Places
  <2> QED
    BY <1>1, <2>1
<1>5. n = m
  <2>1. m > 0 => m <= n
    BY <1>3
  <2>2. n > 0 => n <= m
    BY <1>4
  <2> QED
    BY <2>1, <2>2
<1> QED
  BY <1>2, <1>5

\* Rows for the next n places move the end of the log by n.
LEMMA NextAfter ==
    ASSUME Shape, Shape', NEW r \in Run, NEW rows, NEW k \in Nat \ {0},
           events' = events \cup rows,
           \A e \in rows : e.run = r /\ e.place \in LogLength(r) .. LogLength(r) + k - 1,
           \E e \in rows : e.place = LogLength(r) + k - 1
    PROVE  LogLength(r)' = LogLength(r) + k
<1>1. /\ LogLength(r) \in Nat
      /\ \A e \in EventsOf(r) : e.place \in 0 .. LogLength(r) - 1
  BY LogPlaces
<1> DEFINE n == LogLength(r) + k
<1>2. n \in Nat /\ n > 0
  BY <1>1
<1>3. EventsOf(r)' = EventsOf(r) \cup rows
  BY DEF EventsOf
<1>4. \A e \in EventsOf(r)' : e.place < n
  <2>1. \A e \in rows : e.place < n
    BY <1>1
  <2>2. \A e \in EventsOf(r) : e.place < n
    BY <1>1
  <2> QED
    BY <1>3, <2>1, <2>2
<1>5. \E e \in EventsOf(r)' : e.place = n - 1
  BY <1>1, <1>3
<1>6. LogEnds'
  BY LastPlace, PTL
<1> HIDE DEF n
<1>7. LogLength(r)' = n
  BY <1>2, <1>4, <1>5, <1>6 DEF LogEnds
<1> QED
  BY <1>7 DEF n

\* The results of the two calls are at 3 and at 8.
LEMMA ResultPlaces ==
    ASSUME NEW e, Fits(e), e.place \in 0 .. 9, e.type = "tool_result"
    PROVE  \/ e.place = 3 /\ e.payload.call = WriteFile.id
           \/ e.place = 8 /\ e.payload.call = SubmitCheckpoint.id
  BY DEF Fits, Verdicts

LEMMA RequestPlaces ==
    ASSUME NEW e, Fits(e), e.place \in 0 .. 9, e.type = "tool_call"
    PROVE  \/ e.place = 2 /\ e.payload.call = WriteFile.id /\ e.payload.name = "tool"
           \/ e.place = 5 /\ e.payload.call = SubmitCheckpoint.id
  BY DEF Fits, Verdicts

\* A run goes on from place n to place m of its path.
LEMMA PathGrows ==
    ASSUME Shape, Shape', Paths, NEW r \in Run, NEW rows, NEW n \in Nat, NEW m \in Nat,
           LogLength(r) = n, n < m, events' = events \cup rows,
           \A e \in rows : e.run = r /\ e.place \in n .. m - 1 /\ Fits(e),
           \E e \in rows : e.place = m - 1,
           \A s \in Run \ {r} : /\ runs'[s].status = runs[s].status
                                /\ CheckpointsOf(s)' = CheckpointsOf(s),
           Place(r, m)'
    PROVE  Paths' /\ (3 \notin n .. m - 1 => NoneRecorded)
<1>1. LogLength(r)' = m
  <2>1. PICK k \in Nat \ {0} : m = n + k
    <3>1. m - n \in Nat \ {0} /\ m = n + (m - n)
      OBVIOUS
    <3> QED
      BY <3>1
  <2>2. /\ \A e \in rows : e.run = r /\ e.place \in LogLength(r) .. LogLength(r) + k - 1
        /\ \E e \in rows : e.place = LogLength(r) + k - 1
    BY <2>1
  <2>3. LogLength(r)' = LogLength(r) + k
    BY <2>2, NextAfter
  <2> QED
    BY <2>1, <2>3
<1>2. ASSUME NEW s \in Run \ {r} PROVE Place(s, LogLength(s))'
  <2>1. EventsOf(s)' = EventsOf(s)
    BY DEF EventsOf
  <2>2. LogLength(s)' = LogLength(s)
    BY <2>1 DEF LogLength
  <2>3. Accepted(s)' = Accepted(s)
    BY DEF Accepted
  <2>4. Place(s, LogLength(s))
    BY DEF Paths
  <2>5. runs'[s].status = runs[s].status /\ CheckpointsOf(s)' = CheckpointsOf(s)
    OBVIOUS
  <2> QED
    BY <2>2, <2>3, <2>4, <2>5 DEF Place
<1>3. Place(r, LogLength(r))'
  BY <1>1
<1>4. Paths'
  BY <1>2, <1>3 DEF Paths
<1>5. ASSUME 3 \notin n .. m - 1 PROVE NoneRecorded
  <2> SUFFICES ASSUME NEW s \in Run, NEW e \in EventsOf(s)',
                      e.type = "tool_result", e.payload.call = WriteFile.id
               PROVE  e \in events
    BY DEF NoneRecorded, Results, EventsOf
  <2>1. CASE e \in rows
    <3>1. m <= 10
      BY DEF Place
    <3>2. e.place \in 0 .. 9 /\ e.place # 3 /\ Fits(e)
      BY <1>5, <2>1, <3>1
    <3> QED
      BY <3>2, ResultPlaces, ExampleNames
  <2> QED
    BY <2>1 DEF EventsOf
<1> QED
  BY <1>4, <1>5

\* A transaction that writes no row leaves every run where it is.
LEMMA PathQuiet ==
    ASSUME Paths, QuietStep
    PROVE  Paths' /\ NoneRecorded
<1>1. UNCHANGED <<events, checkpoints>>
  BY DEF QuietStep
<1>2. NoneRecorded
  BY <1>1 DEF NoneRecorded, Results, EventsOf
<1>3. ASSUME NEW s \in Run PROVE Place(s, LogLength(s))'
  <2>1. LogLength(s)' = LogLength(s)
    BY <1>1 DEF LogLength, EventsOf
  <2>2. CheckpointsOf(s)' = CheckpointsOf(s) /\ Accepted(s)' = Accepted(s)
    BY <1>1 DEF CheckpointsOf, Accepted
  <2>3. \/ runs'[s].status = runs[s].status
        \/ runs[s].status = "absent" /\ runs'[s].status = "pending"
    BY DEF QuietStep, SameRow
  <2>4. Place(s, LogLength(s))
    BY DEF Paths
  <2> QED
    BY <2>1, <2>2, <2>3, <2>4 DEF Place
<1> QED
  BY <1>1, <1>2, <1>3 DEF Paths

LEMMA UnchangedIsQuiet == ASSUME UNCHANGED vars PROVE QuietStep
  BY DEF vars, QuietStep, SameRow

LEMMA LeaseHeld ==
    ASSUME ProcsInv, NEW o \in Owner, proc[o].pc \in Leased
    PROVE  LeaseOf(o) \in leases /\ LeaseOf(o).run = RunOf(o) /\ RunOf(o) \in Run
  BY RunsOfProcs DEF ProcsInv, HaveLeases, Leased

\* What the steps of the example start from
OnPath == /\ ProcsInv /\ LogInvariant /\ Paths
          /\ Shape'

LEMMA OnPathIs ==
    ASSUME OnPath
    PROVE  /\ Shape /\ Shape' /\ TerminalOwnerless /\ Paths /\ KeysUnique /\ IntentsKeyed
           /\ CheckpointsUnique /\ ProcsInv
           /\ \A r \in Run : LogLength(r) \in Nat /\ Place(r, LogLength(r))
  BY LogPlaces DEF OnPath, LogInvariant, FencedShape, Fenced, Linked, Paths

\* The event at a place of the log is the one of the path.
LEMMA EventsFit ==
    ASSUME OnPath, NEW r \in Run
    PROVE  /\ \A e \in EventsOf(r) : e.place \in 0 .. LogLength(r) - 1 /\ e.place \in 0 .. 9
                                     /\ Fits(e) /\ e \in events /\ e.run = r
           /\ \A i \in 0 .. LogLength(r) - 1 : \E e \in EventsOf(r) : e.place = i
<1>1. Shape /\ Paths /\ Place(r, LogLength(r)) /\ LogLength(r) \in Nat
  BY OnPathIs
<1>2. LogLength(r) <= 10
  BY <1>1 DEF Place
<1>3. ASSUME NEW e \in EventsOf(r)
      PROVE  e.place \in 0 .. LogLength(r) - 1 /\ e.place \in 0 .. 9
  BY <1>1, <1>2, <1>3, LogPlaces
<1> QED
  BY <1>1, <1>3, LogPlaces DEF Paths, EventsOf

\* One event is written, and other runs are left alone.
LEMMA OneEventPath ==
    ASSUME OnPath, NEW r \in Run, NEW e, NEW n \in Nat, NEW m \in Nat, m = n + 1,
           LogLength(r) = n, events' = events \cup {e}, e.run = r, e.place = n, Fits(e),
           \A s \in Run \ {r} : /\ runs'[s].status = runs[s].status
                                /\ CheckpointsOf(s)' = CheckpointsOf(s),
           Place(r, m)'
    PROVE  Paths' /\ (n # 3 => NoneRecorded)
<1>1. PICK rows : rows = {e}
  OBVIOUS
<1>2. n < m /\ n \in n .. m - 1 /\ n = m - 1 /\ (n # 3 => 3 \notin n .. m - 1)
  OBVIOUS
<1>3. /\ \A f \in rows : f.run = r /\ f.place \in n .. m - 1 /\ Fits(f)
      /\ \E f \in rows : f.place = m - 1
      /\ events' = events \cup rows
  BY <1>1, <1>2
<1>4. Paths' /\ (3 \notin n .. m - 1 => NoneRecorded)
  BY <1>2, <1>3, OnPathIs, PathGrows
<1> QED
  BY <1>2, <1>4

LEMMA MarksPath ==
    ASSUME OnPath, NEW o \in Owner, Marks(o)
    PROVE  Paths' /\ NoneRecorded
<1>1. PICK r \in Run : r = RunOf(o) /\ LeaseOf(o) \in leases /\ LeaseOf(o).run = r
  BY LeaseHeld DEF Marks, Leased, Moving, OnPath
<1>2. CASE UpdateRunStatus(LeaseOf(o), "running")
  <2>1. PICK e : TransitionStep(r, e) /\ runs'[r].status = "running"
    BY <1>1, <1>2, MarkEffect, OnPathIs
  <2>2. Place(r, 0) /\ LogLength(r) = 0
    BY <2>1, OnPathIs DEF TransitionStep, Place
  <2>3. CheckpointsOf(r)' = {}
    BY <2>1, <2>2 DEF TransitionStep, Place, CheckpointsOf
  <2>4. Place(r, 1)'
    BY <2>1, <2>3 DEF Place
  <2>5. e.run = r /\ e.place = 0 /\ Fits(e)
    BY <2>1, <2>2 DEF TransitionStep, Fits
  <2>6. /\ events' = events \cup {e}
        /\ \A s \in Run \ {r} : /\ runs'[s].status = runs[s].status
                                /\ CheckpointsOf(s)' = CheckpointsOf(s)
    BY <2>1 DEF TransitionStep, InsertEvents, SameRow, CheckpointsOf
  <2> QED
    BY <2>2, <2>4, <2>5, <2>6, OneEventPath
<1>3. CASE UNCHANGED vars
  BY <1>3, UnchangedIsQuiet, PathQuiet, OnPathIs
<1> QED
  BY <1>2, <1>3 DEF Marks

LEMMA CompletesPath ==
    ASSUME OnPath, NEW o \in Owner, Completes(o), Accepted(RunOf(o)) # {}
    PROVE  Paths' /\ NoneRecorded
<1>1. PICK r \in Run : r = RunOf(o) /\ LeaseOf(o) \in leases /\ LeaseOf(o).run = r
  BY LeaseHeld DEF Completes, Leased, Moving, OnPath
<1>2. PICK e : TransitionStep(r, e) /\ runs'[r].status = "completed"
  BY <1>1, CompleteEffect, OnPathIs DEF Completes
<1>3. PICK c \in CheckpointsOf(r) : c.status = "accepted"
  BY <1>1 DEF Accepted
<1>4. Place(r, 9) /\ LogLength(r) = 9
  BY <1>2, <1>3, OnPathIs DEF TransitionStep, Place
<1>5. CheckpointsOf(r)' = CheckpointsOf(r) /\ Accepted(r)' = Accepted(r)
  BY <1>2 DEF TransitionStep, CheckpointsOf, Accepted
<1>6. Place(r, 10)'
  BY <1>1, <1>2, <1>4, <1>5 DEF Place
<1>7. e.run = r /\ e.place = 9 /\ Fits(e)
  BY <1>2, <1>4 DEF TransitionStep, Fits
<1>8. /\ events' = events \cup {e}
      /\ \A s \in Run \ {r} : /\ runs'[s].status = runs[s].status
                              /\ CheckpointsOf(s)' = CheckpointsOf(s)
  BY <1>2 DEF TransitionStep, InsertEvents, SameRow, CheckpointsOf
<1> QED
  BY <1>4, <1>6, <1>7, <1>8, OneEventPath

\* A response with one tool call: a is its row, and b the intent.
RequestStep(r, call, a, b) ==
    /\ events' = events \cup {a, b} /\ InsertEvents({a, b})
    /\ a.run = r /\ a.place = LogLength(r) /\ a.type = "llm_call"
    /\ b.run = r /\ b.place = LogLength(r) + 1 /\ b.type = "tool_call"
    /\ b.payload.call = call.id /\ b.payload.name = call.name
    /\ b.key = CallKey("tool_call", call.id)

LEMMA RequestRows ==
    ASSUME Shape, NEW l \in leases, NEW call, AppendLlmCall(l, <<call>>)
    PROVE  \E a, b : RequestStep(l.run, call, a, b)
<1>1. PICK seq, response : seq = NextSeq(l.run) /\ response = <<call>>
  OBVIOUS
<1>2. Len(response) = 1 /\ response[1] = call /\ 1 .. 1 = {1}
  BY <1>1
<1>3. PICK a : /\ a = EventRow(l.run, seq, "llm_call", NoPayload, NoKey, l.epoch)
               /\ a.run = l.run /\ a.place = seq /\ a.type = "llm_call"
  BY RowFields
<1>4. PICK b : /\ b = IntentRow(l, seq + 1, call, 1)
               /\ b.run = l.run /\ b.place = seq + 1 /\ b.type = "tool_call"
               /\ b.key = CallKey("tool_call", call.id)
               /\ b.payload.call = call.id /\ b.payload.name = call.name
  BY IntentFields
<1>5. {IntentRow(l, seq + i, response[i], Len(response)) : i \in 1 .. Len(response)} = {b}
  BY <1>2, <1>4
<1>6. InsertEvents({a} \cup {b})
  BY <1>1, <1>3, <1>5 DEF AppendLlmCall
<1>7. {a} \cup {b} = {a, b}
  OBVIOUS
<1>8. seq = LogLength(l.run)
  BY <1>1, <1>3, <1>6, Numbered DEF Shape, TokensShape, Lease
<1> QED
  BY <1>3, <1>4, <1>6, <1>7, <1>8 DEF InsertEvents, RequestStep

\* A call is requested once in a run: the unique index refuses its second intent.
LEMMA RequestedOnce ==
    ASSUME OnPath, NEW r \in Run, NEW rows, InsertEvents(rows), NEW b \in rows,
           b.run = r, b.place \in Int, b.place >= LogLength(r),
           NEW call, b.key = CallKey("tool_call", call),
           NEW i \in EventsOf(r), i.type = "tool_call", i.payload.call = call
    PROVE  FALSE
<1>1. i \in events /\ i.run = r /\ i.place \in Nat /\ i.place < LogLength(r) /\ LogLength(r) \in Nat
  BY EventsFit, OnPathIs
<1>2. b # i
  BY <1>1
<1>3. i.key = b.key /\ b.key # NoKey
  <2>1. i.key = CallKey("tool_call", call)
    BY <1>1, OnPathIs DEF IntentsKeyed
  <2>2. CallKey("tool_call", call) # NoKey
    BY DEF CallKey, NoKey
  <2> QED
    BY <2>1, <2>2
<1> QED
  BY <1>1, <1>2, <1>3 DEF InsertEvents, Conflict

\* A response with one call, which takes the run from place n to place m
LEMMA RequestPath ==
    ASSUME OnPath, NEW r \in Run, NEW a, NEW b, NEW n \in {1, 4}, NEW m \in Nat, m = n + 2,
           LogLength(r) = n, events' = events \cup {a, b},
           a.run = r, a.place = n, Fits(a), b.run = r, b.place = n + 1, Fits(b),
           \A s \in Run : /\ runs'[s].status = runs[s].status
                          /\ CheckpointsOf(s)' = CheckpointsOf(s)
    PROVE  Paths' /\ NoneRecorded
<1>1. Place(r, n)
  BY OnPathIs
<1>2. Place(r, m)'
  BY <1>1 DEF Place
<1>3. PICK rows : rows = {a, b}
  OBVIOUS
<1>4. n \in Nat /\ n < m /\ n \in n .. m - 1 /\ n + 1 \in n .. m - 1 /\ n + 1 = m - 1
      /\ 3 \notin n .. m - 1
  OBVIOUS
<1>5. /\ \A f \in rows : f.run = r /\ f.place \in n .. m - 1 /\ Fits(f)
      /\ \E f \in rows : f.place = m - 1
      /\ events' = events \cup rows
  BY <1>3, <1>4
<1>6. Paths' /\ (3 \notin n .. m - 1 => NoneRecorded)
  BY <1>2, <1>4, <1>5, OnPathIs, PathGrows
<1> QED
  BY <1>4, <1>6

LEMMA RequestsFilePath ==
    ASSUME OnPath, NEW o \in Owner, RequestsFile(o)
    PROVE  Paths' /\ NoneRecorded
<1>1. PICK r \in Run, l \in leases : l = LeaseOf(o) /\ l.run = r /\ r = RunOf(o)
  BY LeaseHeld DEF RequestsFile, Leased, Moving, OnPath
<1>2. PICK a, b : RequestStep(r, WriteFile, a, b)
  <2>1. AppendLlmCall(l, <<WriteFile>>)
    BY <1>1 DEF RequestsFile
  <2> QED
    BY <1>1, <2>1, RequestRows, OnPathIs
<1>3. UNCHANGED <<runs, checkpoints>> /\ runs[r].status = "running"
  BY <1>1 DEF RequestsFile, AppendLlmCall, ValidWritableRunLease
<1>4. LogLength(r) = 1
  <2>1. Place(r, LogLength(r)) /\ LogLength(r) \in Nat
    BY OnPathIs
  <2>2. ASSUME LogLength(r) > 2 PROVE FALSE
    <3>1. PICK i \in EventsOf(r) : i.place = 2
      BY <2>1, <2>2, EventsFit
    <3>2. i.type = "tool_call" /\ i.payload.call = WriteFile.id
      BY <3>1, EventsFit DEF Fits
    <3>3. b.place \in Int /\ b.place >= LogLength(r)
      BY <1>2, <2>1 DEF RequestStep
    <3> QED
      BY <1>2, <3>2, <3>3, RequestedOnce DEF RequestStep
  <2> QED
    BY <1>3, <2>1, <2>2 DEF Place
<1>5. Fits(a) /\ Fits(b)
  BY <1>2, <1>4, ExampleNames DEF Fits, RequestStep
<1>6. \A s \in Run : runs'[s].status = runs[s].status /\ CheckpointsOf(s)' = CheckpointsOf(s)
  BY <1>3 DEF CheckpointsOf
<1> QED
  BY <1>2, <1>4, <1>5, <1>6, RequestPath DEF RequestStep

LEMMA RequestsCheckpointPath ==
    ASSUME OnPath, NEW o \in Owner, RequestsCheckpoint(o),
           Results(RunOf(o), WriteFile.id) # {}
    PROVE  Paths' /\ NoneRecorded
<1>1. PICK r \in Run, l \in leases : l = LeaseOf(o) /\ l.run = r /\ r = RunOf(o)
  BY LeaseHeld DEF RequestsCheckpoint, Leased, Moving, OnPath
<1>2. PICK a, b : RequestStep(r, SubmitCheckpoint, a, b)
  <2>1. AppendLlmCall(l, <<SubmitCheckpoint>>)
    BY <1>1 DEF RequestsCheckpoint
  <2> QED
    BY <1>1, <2>1, RequestRows, OnPathIs
<1>3. UNCHANGED <<runs, checkpoints>> /\ runs[r].status = "running"
  BY <1>1 DEF RequestsCheckpoint, AppendLlmCall, ValidWritableRunLease
<1>4. LogLength(r) = 4
  <2>1. Place(r, LogLength(r)) /\ LogLength(r) \in Nat
    BY OnPathIs
  <2>2. LogLength(r) > 3
    <3>1. PICK e \in EventsOf(r) : e.type = "tool_result" /\ e.payload.call = WriteFile.id
      BY <1>1 DEF Results
    <3>2. e.place \in 0 .. LogLength(r) - 1 /\ e.place = 3
      BY <3>1, EventsFit, ResultPlaces, ExampleNames
    <3> QED
      BY <2>1, <3>2
  <2>3. ASSUME LogLength(r) > 5 PROVE FALSE
    <3>1. PICK i \in EventsOf(r) : i.place = 5
      BY <2>1, <2>3, EventsFit
    <3>2. i.type = "tool_call" /\ i.payload.call = SubmitCheckpoint.id
      BY <3>1, EventsFit DEF Fits
    <3>3. b.place \in Int /\ b.place >= LogLength(r)
      BY <1>2, <2>1 DEF RequestStep
    <3> QED
      BY <1>2, <3>2, <3>3, RequestedOnce DEF RequestStep
  <2> QED
    BY <1>3, <2>1, <2>2, <2>3 DEF Place
<1>5. Fits(a) /\ Fits(b)
  BY <1>2, <1>4, ExampleNames DEF Fits, RequestStep
<1>6. \A s \in Run : runs'[s].status = runs[s].status /\ CheckpointsOf(s)' = CheckpointsOf(s)
  BY <1>3 DEF CheckpointsOf
<1> QED
  BY <1>2, <1>4, <1>5, <1>6, RequestPath DEF RequestStep

LEMMA RecordsResultPath ==
    ASSUME OnPath, NEW o \in Owner, RecordsResult(o)
    PROVE  Paths'
<1>1. PICK r \in Run, l \in leases : l = LeaseOf(o) /\ l.run = r /\ r = RunOf(o)
  BY LeaseHeld DEF RecordsResult, Leased, Moving, OnPath
<1>2. CASE RecordToolResult(l, WriteFile.id)
  <2>1. PICK e : AnswerStep(l.run, e) /\ e.payload.call = WriteFile.id
    BY <1>2, AnswerEffect, ExampleCalls, OnPathIs
  <2>2. /\ e.run = r /\ e.place = LogLength(r) /\ e.type = "tool_result"
        /\ events' = events \cup {e} /\ UNCHANGED checkpoints
        /\ runs[r].status = "running" /\ \A s \in Run : SameRow(s)
    BY <1>1, <2>1 DEF AnswerStep, WorkStep, InsertEvents
  <2>3. Place(r, LogLength(r)) /\ LogLength(r) \in Nat
    BY OnPathIs
  <2>4. LogLength(r) > 2
    <3>1. PICK i \in EventsOf(r) : i.type = "tool_call" /\ i.payload.call = WriteFile.id
      BY <1>1, <2>1 DEF AnswerStep
    <3>2. i.place \in 0 .. LogLength(r) - 1 /\ i.place = 2
      BY <3>1, EventsFit, RequestPlaces, ExampleNames
    <3> QED
      BY <2>3, <3>2
  <2>5. ASSUME LogLength(r) > 3 PROVE FALSE
    <3>1. PICK f \in EventsOf(r) : f.place = 3
      BY <2>3, <2>5, EventsFit
    <3>2. f.type = "tool_result" /\ f.payload.call = WriteFile.id
      BY <3>1, EventsFit DEF Fits
    <3>3. f \in Results(r, WriteFile.id)
      BY <3>1, <3>2 DEF Results
    <3> QED
      BY <1>1, <2>1, <3>3 DEF AnswerStep
  <2>6. LogLength(r) = 3
    BY <2>3, <2>4, <2>5
  <2>7. \A s \in Run : runs'[s].status = runs[s].status /\ CheckpointsOf(s)' = CheckpointsOf(s)
    BY <2>2 DEF SameRow, CheckpointsOf
  <2>8. Place(r, 4)'
    BY <2>2, <2>3, <2>6, <2>7 DEF Place
  <2>9. Fits(e)
    BY <2>1, <2>2, <2>6 DEF Fits
  <2> QED
    BY <2>2, <2>6, <2>7, <2>8, <2>9, OneEventPath
<1>3. CASE UNCHANGED vars
  BY <1>3, UnchangedIsQuiet, PathQuiet, OnPathIs
<1> QED
  BY <1>1, <1>2, <1>3 DEF RecordsResult

LEMMA ProposesPath ==
    ASSUME OnPath, NEW o \in Owner, Proposes(o)
    PROVE  Paths' /\ NoneRecorded
<1>1. PICK r \in Run, l \in leases : l = LeaseOf(o) /\ l.run = r /\ r = RunOf(o)
  BY LeaseHeld DEF Proposes, Leased, Moving, OnPath
<1>2. PICK e, k : ProposalStep(r, e, k)
  <2>1. ProposeCheckpoint(l, SubmitCheckpoint.id)
    BY <1>1 DEF Proposes
  <2> QED
    BY <1>1, <2>1, ProposalEffect, ExampleCalls, OnPathIs
<1>3. /\ e.run = r /\ e.place = LogLength(r) /\ e.type = "checkpoint_proposed"
      /\ events' = events \cup {e} /\ checkpoints' = checkpoints \cup {k}
      /\ k.run = r /\ k.status = "candidate" /\ \A c \in CheckpointsOf(r) : c.call # k.call
      /\ runs[r].status = "running" /\ \A s \in Run : SameRow(s)
  BY <1>2 DEF ProposalStep, WorkStep, InsertEvents
<1>4. Place(r, LogLength(r)) /\ LogLength(r) \in Nat
  BY OnPathIs
<1>5. k.call = SubmitCheckpoint.id /\ LogLength(r) > 5
  <2>1. PICK i \in EventsOf(r) : /\ i.type = "tool_call" /\ i.payload.call = k.call
                                 /\ i.payload.name = "submit_checkpoint"
    BY <1>2 DEF ProposalStep, OpenCalls
  <2>2. i.place \in 0 .. LogLength(r) - 1 /\ i.place = 5 /\ i.payload.call = SubmitCheckpoint.id
    BY <2>1, EventsFit, RequestPlaces
  <2> QED
    BY <1>4, <2>1, <2>2
<1>6. CheckpointsOf(r) = {}
  BY <1>3, <1>4, <1>5 DEF Place
<1>7. LogLength(r) = 6
  BY <1>3, <1>4, <1>5, <1>6 DEF Place
<1>8. /\ CheckpointsOf(r)' = {k}
      /\ \A s \in Run \ {r} : /\ runs'[s].status = runs[s].status
                              /\ CheckpointsOf(s)' = CheckpointsOf(s)
  BY <1>3, <1>6 DEF SameRow, CheckpointsOf
<1>9. Place(r, 7)'
  BY <1>3, <1>5, <1>8 DEF Place, SameRow
<1>10. Fits(e)
  BY <1>3, <1>7 DEF Fits
<1> QED
  BY <1>3, <1>7, <1>8, <1>9, <1>10, OneEventPath

LEMMA DecidesPath ==
    ASSUME OnPath, NEW o \in Owner, Decides(o)
    PROVE  /\ Paths' /\ NoneRecorded
           /\ proc[o].passed => Accepted(RunOf(o))' # {}
<1>1. PICK r \in Run, l \in leases : l = LeaseOf(o) /\ l.run = r /\ r = RunOf(o)
  BY LeaseHeld DEF Decides, Leased, Moving, OnPath
<1>2. proc[o].passed \in BOOLEAN
  BY OnPathIs DEF ProcsInv, ProcsTyped, ProcRow
<1>3. PICK v, e, k, d : VerdictStep(r, v, e, k, d) /\ d.status = Verdict(proc[o].passed)
  <2>1. DecideCheckpoint(l, proc[o].cp, proc[o].passed)
    BY <1>1 DEF Decides
  <2> QED
    BY <1>1, <1>2, <2>1, VerdictEffect, OnPathIs
<1>4. /\ events' = events \cup {v, e} /\ checkpoints' = (checkpoints \ {k}) \cup {d}
      /\ v.run = r /\ v.place = LogLength(r) /\ v.type = VerdictType(d.status = "accepted")
      /\ e.run = r /\ e.place = LogLength(r) + 1 /\ e.type = "tool_result"
      /\ e.payload.call = k.call
      /\ k \in checkpoints /\ k.run = r /\ k.status = "candidate"
      /\ d.run = r /\ d.call = k.call /\ d.status \in {"accepted", "rejected"}
      /\ runs[r].status = "running" /\ \A s \in Run : SameRow(s)
  BY <1>3 DEF VerdictStep, WorkStep, InsertEvents, Candidates, CheckpointsOf
<1>5. Place(r, LogLength(r)) /\ LogLength(r) \in Nat /\ CheckpointsUnique
  BY OnPathIs
<1>6. k \in CheckpointsOf(r)
  BY <1>4 DEF CheckpointsOf
<1>7. LogLength(r) = 7 /\ k.call = SubmitCheckpoint.id
  BY <1>4, <1>5, <1>6 DEF Place
<1>8. CheckpointsOf(r) = {k}
  <2>1. ASSUME NEW c \in CheckpointsOf(r) PROVE c = k
    <3>1. c.call = k.call /\ c.run = k.run /\ c \in checkpoints
      BY <1>4, <1>5, <1>7 DEF Place, CheckpointsOf
    <3> QED
      BY <1>4, <1>5, <3>1 DEF CheckpointsUnique
  <2> QED
    BY <1>6, <2>1
<1>9. /\ CheckpointsOf(r)' = {d}
      /\ \A s \in Run \ {r} : /\ runs'[s].status = runs[s].status
                              /\ CheckpointsOf(s)' = CheckpointsOf(s)
  BY <1>4, <1>8 DEF SameRow, CheckpointsOf
<1>10. Place(r, 9)'
  BY <1>4, <1>7, <1>9 DEF Place, SameRow
<1>11. Fits(v) /\ Fits(e)
  BY <1>4, <1>7 DEF Fits, Verdicts, VerdictType
<1>12. Paths' /\ NoneRecorded
  <2>1. PICK rows : rows = {v, e}
    OBVIOUS
  <2>2. /\ \A f \in rows : f.run = r /\ f.place \in 7 .. 9 - 1 /\ Fits(f)
        /\ \E f \in rows : f.place = 9 - 1
        /\ events' = events \cup rows
    BY <1>4, <1>7, <1>11, <2>1
  <2>3. Paths' /\ (3 \notin 7 .. 9 - 1 => NoneRecorded)
    <3>1. 7 \in Nat /\ 9 \in Nat /\ 7 < 9
      OBVIOUS
    <3> QED
      BY <1>7, <1>9, <1>10, <2>2, <3>1, OnPathIs, PathGrows
  <2> QED
    BY <2>3
<1>13. ASSUME proc[o].passed PROVE Accepted(RunOf(o))' # {}
  <2>1. d.status = "accepted"
    BY <1>3, <1>13 DEF Verdict
  <2>2. d \in Accepted(r)'
    BY <1>9, <2>1 DEF Accepted
  <2>3. RunOf(o)' = r
    <3>1. \E pc : Works(o, pc)
      BY DecidesWorks, OnPathIs
    <3> QED
      BY <1>1, <3>1 DEF Works, StaysOn, RunOf
  <2> QED
    BY <2>2, <2>3
<1> QED
  BY <1>12, <1>13

\* What process o knows: it goes to complete() when a checkpoint is accepted,
\* and asks for the checkpoint when the result of the tool is recorded.
Knows(o) == /\ proc[o].pc = "complete" => Accepted(RunOf(o)) # {}
            /\ proc[o].pc = "request_checkpoint" => Results(RunOf(o), WriteFile.id) # {}

Knowledge == \A o \in Owner : Knows(o)

LEMMA QuietPath ==
    ASSUME OnPath, NEW o \in Owner,
           \/ Claims(o) \/ Closes(o) \/ ReadsState(o) \/ ReadsPendingCheckpoint(o)
           \/ ReadsPendingToolCalls(o) \/ Loops(o) \/ Looks(o) \/ FindsFile(o)
           \/ Publishes(o) \/ Rereads(o) \/ Verifies(o)
    PROVE  Paths' /\ NoneRecorded
<1>1. CASE Claims(o)
  <2>1. RunOf(o) \in Run
    BY <1>1, RunsOfProcs, OnPathIs DEF Claims, Moving
  <2>2. PICK ttl \in Ttl : ClaimRunLease(RunOf(o), o, ttl, proc[o].pc = "recover")
    BY <1>1 DEF Claims
  <2>3. (proc[o].pc = "recover") \in BOOLEAN
    OBVIOUS
  <2>4. QuietStep
    BY <2>1, <2>2, <2>3, ClaimRunEffect, OnPathIs
  <2> QED
    BY <2>4, PathQuiet, OnPathIs
<1>2. CASE Closes(o)
  <2>1. LeaseOf(o) \in leases
    BY <1>2, LeaseHeld, OnPathIs DEF Closes, Leased, Moving
  <2>2. QuietStep
    BY <1>2, <2>1, ReleaseEffect, OnPathIs DEF Closes
  <2> QED
    BY <2>2, PathQuiet, OnPathIs
<1>3. CASE UNCHANGED vars
  BY <1>3, UnchangedIsQuiet, PathQuiet, OnPathIs
<1>4. UNCHANGED vars \/ Claims(o) \/ Closes(o)
  BY DEF ReadsState, ReadsPendingCheckpoint, ReadsPendingToolCalls, Reads, Loops, Looks,
         FindsFile, Publishes, Rereads, Verifies
<1> QED
  BY <1>1, <1>2, <1>3, <1>4

LEMMA AdvancePath ==
    ASSUME OnPath, Knowledge, NEW o \in Owner, Advance(o)
    PROVE  Paths' /\ (NoneRecorded \/ RecordsResult(o))
<1>1. CASE Marks(o)
  BY <1>1, MarksPath
<1>2. CASE RequestsFile(o)
  BY <1>2, RequestsFilePath
<1>3. CASE RecordsResult(o)
  BY <1>3, RecordsResultPath
<1>4. CASE RequestsCheckpoint(o)
  BY <1>4, RequestsCheckpointPath DEF RequestsCheckpoint, Knowledge, Knows
<1>5. CASE Proposes(o)
  BY <1>5, ProposesPath
<1>6. CASE Decides(o)
  BY <1>6, DecidesPath
<1>7. CASE Completes(o)
  BY <1>7, CompletesPath DEF Completes, Knowledge, Knows
<1> QED
  BY <1>1, <1>2, <1>3, <1>4, <1>5, <1>6, <1>7, QuietPath DEF Advance

\* A step that is no step of run_agent writes nothing but a new run.
LEMMA OtherPath ==
    ASSUME OnPath,
           \/ \E o \in Owner : \/ \E r \in Run : Create(o, r)
                              \/ Resume(o) \/ Exits(o) \/ Crash(o)
           \/ Lose
           \/ UNCHANGED dvars
    PROVE  Paths' /\ NoneRecorded
<1>1. ASSUME NEW o \in Owner, NEW r \in Run, Create(o, r) PROVE QuietStep
  BY <1>1, CreateEffect, OnPathIs DEF Create
<1>2. ASSUME NEW o \in Owner, Resume(o) \/ Exits(o) \/ Crash(o) PROVE UNCHANGED vars
  BY <1>2 DEF Resume, Exits, Crash
<1>3. Lose \/ UNCHANGED dvars => UNCHANGED vars
  BY DEF Lose, dvars
<1>4. QuietStep
  BY <1>1, <1>2, <1>3, UnchangedIsQuiet
<1> QED
  BY <1>4, PathQuiet, OnPathIs

LEMMA PathsStep ==
    ASSUME OnPath, Knowledge, [DNext]_dvars
    PROVE  Paths' /\ (NoneRecorded \/ \E o \in Owner : RecordsResult(o))
<1>1. \/ \E o \in Owner : Advance(o)
      \/ \E o \in Owner : \/ \E r \in Run : Create(o, r)
                         \/ Resume(o) \/ Exits(o) \/ Crash(o)
      \/ Lose
      \/ UNCHANGED dvars
  BY DEF DNext
<1> QED
  BY <1>1, AdvancePath, OtherPath

-----------------------------------------------------------------------------
(* What the processes know stays true.                                        *)

LEMMA AcceptedStays ==
    ASSUME LogEffect, NEW r, Accepted(r) # {}
    PROVE  Accepted(r)' # {}
<1>1. PICK c \in checkpoints : c.run = r /\ c.status = "accepted"
  BY DEF Accepted, CheckpointsOf
<1>2. c \in checkpoints'
  <2>1. ASSUME NEW s, NEW v, NEW e, NEW k, NEW d, VerdictStep(s, v, e, k, d)
        PROVE  c \in checkpoints'
    BY <1>1, <2>1 DEF VerdictStep, Candidates
  <2>2. ASSUME NEW s, NEW e, NEW k, ProposalStep(s, e, k) PROVE c \in checkpoints'
    BY <2>2 DEF ProposalStep
  <2>3. CASE UNCHANGED checkpoints
    BY <2>3
  <2> QED
    BY <2>1, <2>2, <2>3
    DEF LogEffect, QuietStep, ReplyStep, TransitionStep, AnswerStep, RawStep
<1> QED
  BY <1>1, <1>2 DEF Accepted, CheckpointsOf

LEMMA ResultsStay ==
    ASSUME events \subseteq events', NEW r, NEW c, Results(r, c) # {}
    PROVE  Results(r, c)' # {}
  BY DEF Results, EventsOf

LEMMA SameKnows ==
    ASSUME LogEffect, NEW o, proc'[o] = proc[o], Knows(o)
    PROVE  Knows(o)'
<1>1. RunOf(o)' = RunOf(o)
  BY DEF RunOf
<1>2. events \subseteq events'
  BY LogOnlyGrows
<1> QED
  BY <1>1, <1>2, AcceptedStays, ResultsStay DEF Knows

\* A step of o that goes neither to complete() nor to the checkpoint request
\* has nothing to know.
LEMMA WorksKnows ==
    ASSUME NEW o, NEW pc, Moves(o, pc), pc \notin {"complete", "request_checkpoint"}
    PROVE  Knows(o)'
  BY DEF Moves, Knows

LEMMA AdvanceKnows ==
    ASSUME OnPath, NEW o \in Owner, Advance(o)
    PROVE  Knows(o)' /\ \A p \in Owner \ {o} : proc'[p] = proc[p]
<1> SUFFICES \E pc : /\ Moves(o, pc)
                     /\ pc \in {"complete", "request_checkpoint"} => Knows(o)'
  BY WorksKnows DEF Moves
<1>0. ProcsInv
  BY OnPathIs
<1>1. CASE Claims(o)
  BY <1>0, <1>1, ClaimsMoves
<1>2. CASE Marks(o)
  BY <1>0, <1>2, GotoWorks DEF Marks, Moving, Works
<1>3. CASE ReadsState(o)
  <2>1. CASE Works(o, "complete") /\ LatestAccepted(RunOf(o)) # {}
    <3>1. Accepted(RunOf(o)) # {} /\ UNCHANGED checkpoints
      BY <1>3, <2>1 DEF LatestAccepted, ReadsState, vars
    <3>2. RunOf(o)' = RunOf(o) /\ proc'[o].pc = "complete"
      BY <2>1 DEF Works, Moves, StaysOn, RunOf
    <3>3. Accepted(RunOf(o))' # {}
      BY <3>1, <3>2 DEF Accepted, CheckpointsOf
    <3> QED
      BY <2>1, <3>2, <3>3 DEF Works, Knows
  <2> QED
    BY <1>0, <1>3, <2>1, ReadsStateWorks DEF Works
<1>4. CASE ReadsPendingCheckpoint(o)
  BY <1>0, <1>4, ReadsPendingCheckpointWorks DEF Works
<1>5. CASE ReadsPendingToolCalls(o)
  BY <1>0, <1>5, ReadsPendingToolCallsWorks DEF Works
<1>6. CASE Loops(o)
  BY <1>0, <1>6, LoopsWorks DEF Works
<1>7. CASE Looks(o)
  <2>1. CASE Works(o, "request_checkpoint") /\ Results(RunOf(o), WriteFile.id) # {}
    <3>1. UNCHANGED events
      BY <1>7 DEF Looks, vars
    <3>2. RunOf(o)' = RunOf(o) /\ proc'[o].pc = "request_checkpoint"
      BY <2>1 DEF Works, Moves, StaysOn, RunOf
    <3>3. Results(RunOf(o), WriteFile.id)' # {}
      BY <2>1, <3>1, <3>2 DEF Results, EventsOf
    <3> QED
      BY <2>1, <3>2, <3>3 DEF Works, Knows
  <2> QED
    BY <1>0, <1>7, <2>1, LooksWorks DEF Works
<1>8. CASE RequestsFile(o)
  BY <1>0, <1>8, GotoWorks DEF RequestsFile, Moving, Works
<1>9. CASE FindsFile(o)
  BY <1>0, <1>9, FindsFileWorks DEF Works
<1>10. CASE Publishes(o)
  BY <1>0, <1>10, PublishesWorks DEF Works
<1>18. CASE Rereads(o)
  BY <1>0, <1>18, RereadsWorks DEF Works
<1>11. CASE RecordsResult(o)
  <2>1. PICK r \in Run, l \in leases : l = LeaseOf(o) /\ l.run = r /\ r = RunOf(o)
    BY <1>0, <1>11, LeaseHeld DEF RecordsResult, Leased, Moving
  <2>2. Results(r, WriteFile.id)' # {}
    <3>1. CASE RecordToolResult(l, WriteFile.id)
      <4>1. PICK e : AnswerStep(r, e) /\ e.payload.call = WriteFile.id
        BY <2>1, <3>1, AnswerEffect, ExampleCalls, OnPathIs
      <4>2. e \in events' /\ e.run = r /\ e.type = "tool_result"
        BY <4>1 DEF AnswerStep, WorkStep, InsertEvents
      <4> QED
        BY <4>1, <4>2 DEF Results, EventsOf
    <3>2. CASE Results(r, WriteFile.id) # {} /\ UNCHANGED vars
      BY <3>2 DEF Results, EventsOf, vars
    <3> QED
      BY <1>11, <2>1, <3>1, <3>2 DEF RecordsResult
  <2>3. PICK pc : Works(o, pc)
    BY <1>0, <1>11, RecordsResultWorks
  <2>4. RunOf(o)' = r
    BY <2>1, <2>3 DEF Works, StaysOn, RunOf
  <2>5. Works(o, "loop") \/ Works(o, "request_checkpoint")
    BY <1>0, <1>11, RecordsResultWorks
  <2>6. proc'[o].pc # "complete"
    BY <2>5 DEF Works, Moves
  <2> QED
    BY <2>2, <2>3, <2>4, <2>6 DEF Works, Knows
<1>12. CASE RequestsCheckpoint(o)
  BY <1>0, <1>12, GotoWorks DEF RequestsCheckpoint, Moving, Works
<1>13. CASE Proposes(o)
  BY <1>0, <1>13, ProposesWorks DEF Works
<1>14. CASE Verifies(o)
  BY <1>0, <1>14, VerifiesWorks DEF Works
<1>15. CASE Decides(o)
  <2>1. CASE Works(o, "complete") /\ proc[o].passed
    <3>1. Accepted(RunOf(o))' # {}
      BY <1>15, <2>1, DecidesPath
    <3> QED
      BY <2>1, <3>1 DEF Works, Moves, Knows
  <2>2. CASE Works(o, proc[o].rejected)
    <3>1. proc[o].rejected \in {"close", "loop", "pending_tool_calls"}
      BY <1>0 DEF ProcsInv, ProcsTyped, ProcRow
    <3> QED
      BY <2>2, <3>1 DEF Works
  <2> QED
    BY <1>0, <1>15, <2>1, <2>2, DecidesWorks
<1>16. CASE Completes(o)
  BY <1>0, <1>16, FinishMoves DEF Completes, Moving
<1>17. CASE Closes(o)
  BY <1>0, <1>17, FinishMoves DEF Closes, Moving
<1> QED
  BY <1>1, <1>2, <1>3, <1>4, <1>5, <1>6, <1>7, <1>8, <1>9, <1>10, <1>11, <1>12, <1>13,
     <1>14, <1>15, <1>16, <1>17, <1>18 DEF Advance

\* Every other step leaves each process where it is, or takes it to a place
\* where nothing needs to be known.
LEMMA OtherMoves ==
    ASSUME ProcsInv,
           \/ \E o \in Owner : \/ \E r \in Run : Create(o, r)
                              \/ Resume(o) \/ Exits(o) \/ Crash(o)
           \/ Lose
           \/ UNCHANGED dvars
    PROVE  \A p \in Owner : \/ proc'[p] = proc[p]
                            \/ proc'[p].pc \in {"acquire", "recover", "exited", "dead"}
<1>1. ASSUME NEW o \in Owner, NEW pc \in {"acquire", "recover", "exited", "dead"}, Moves(o, pc)
      PROVE  \A p \in Owner : \/ proc'[p] = proc[p]
                              \/ proc'[p].pc \in {"acquire", "recover", "exited", "dead"}
  BY <1>1 DEF Moves
<1>2. ASSUME NEW o \in Owner, NEW r \in Run, Create(o, r) PROVE Moves(o, "acquire")
  BY <1>2, CreateMoves
<1>3. ASSUME NEW o \in Owner, Resume(o) PROVE Moves(o, "recover")
  BY <1>3, ResumeMoves
<1>4. ASSUME NEW o \in Owner, Exits(o) PROVE Moves(o, "exited")
  BY <1>4, GotoMoves DEF Exits, Stopped, ProcsInv
<1>5. ASSUME NEW o \in Owner, Crash(o) PROVE Moves(o, "dead")
  BY <1>5, GotoMoves DEF Crash, Stopped, ProcsInv
<1>6. Lose \/ UNCHANGED dvars => UNCHANGED proc
  BY DEF Lose, dvars
<1> QED
  BY <1>1, <1>2, <1>3, <1>4, <1>5, <1>6

LEMMA KnowledgeStep ==
    ASSUME OnPath, LogEffect, Knowledge, [DNext]_dvars
    PROVE  Knowledge'
<1>1. ASSUME NEW o \in Owner, Advance(o), NEW p \in Owner PROVE Knows(p)'
  BY <1>1, AdvanceKnows, SameKnows DEF Knowledge
<1>2. ASSUME \/ \E o \in Owner : \/ \E r \in Run : Create(o, r)
                                \/ Resume(o) \/ Exits(o) \/ Crash(o)
             \/ Lose
             \/ UNCHANGED dvars,
             NEW p \in Owner
      PROVE  Knows(p)'
  <2>1. CASE proc'[p] = proc[p]
    BY <2>1, SameKnows DEF Knowledge
  <2>2. CASE proc'[p].pc \in {"acquire", "recover", "exited", "dead"}
    BY <2>2 DEF Knows
  <2> QED
    BY <1>2, <2>1, <2>2, OtherMoves, OnPathIs
<1> QED
  BY <1>1, <1>2 DEF DNext, Knowledge

-----------------------------------------------------------------------------
(* What is recorded was published.                                            *)

\* The result process o is about to record
Holds(o) == proc[o].pc = "record" => proc[o].result = disk /\ disk # NoFile

Published == ~lost => /\ \A o \in Owner : Holds(o)
                      /\ \A r \in Run : Results(r, WriteFile.id) # {} => disk # NoFile

\* A step of o ends before the record of a result, or with the published one.
LEMMA AdvanceHolds ==
    ASSUME OnPath, NEW o \in Owner, Advance(o)
    PROVE  Holds(o)'
<1>0. ProcsInv
  BY OnPathIs
<1>1. CASE Publishes(o) \/ Rereads(o)
  BY <1>0, <1>1, PublishesWorks, RereadsWorks DEF Works, Moves, Holds
<1>2. CASE FindsFile(o)
  <2>1. disk' = disk
    BY <1>2 DEF FindsFile
  <2> QED
    BY <1>0, <1>2, <2>1, FindsFileWorks DEF Works, Moves, Holds
<1>3. ASSUME NEW pc, pc # "record", Moves(o, pc) PROVE Holds(o)'
  BY <1>3 DEF Moves, Holds
<1>4. CASE Claims(o)
  BY <1>0, <1>3, <1>4, ClaimsMoves
<1>5. CASE Marks(o) \/ RequestsFile(o) \/ RequestsCheckpoint(o)
  BY <1>0, <1>3, <1>5, GotoWorks DEF Marks, RequestsFile, RequestsCheckpoint, Moving, Works
<1>6. CASE ReadsState(o) \/ ReadsPendingCheckpoint(o) \/ ReadsPendingToolCalls(o)
  BY <1>0, <1>3, <1>6, ReadsStateWorks, ReadsPendingCheckpointWorks,
     ReadsPendingToolCallsWorks DEF Works
<1>7. CASE Loops(o) \/ Looks(o)
  BY <1>0, <1>3, <1>7, LoopsWorks, LooksWorks DEF Works
<1>8. CASE RecordsResult(o) \/ Proposes(o) \/ Verifies(o)
  BY <1>0, <1>3, <1>8, RecordsResultWorks, ProposesWorks, VerifiesWorks DEF Works
<1>9. CASE Decides(o)
  <2>1. proc[o].rejected # "record"
    BY <1>0 DEF ProcsInv, ProcsTyped, ProcRow
  <2> QED
    BY <1>0, <1>3, <1>9, <2>1, DecidesWorks DEF Works
<1>10. CASE Completes(o) \/ Closes(o)
  BY <1>0, <1>3, <1>10, FinishMoves DEF Completes, Closes, Moving
<1> QED
  BY <1>1, <1>2, <1>4, <1>5, <1>6, <1>7, <1>8, <1>9, <1>10 DEF Advance

LEMMA PublishedStep ==
    ASSUME OnPath, Knowledge, Published, [DNext]_dvars
    PROVE  Published'
<1> SUFFICES ASSUME ~lost'
             PROVE  /\ \A o \in Owner : Holds(o)'
                    /\ \A r \in Run : Results(r, WriteFile.id)' # {} => disk' # NoFile
  BY DEF Published
<1>1. ~Lose /\ ~lost
  BY DEF DNext, Lose, dvars
<1>2. /\ \A o \in Owner : Holds(o)
      /\ \A r \in Run : Results(r, WriteFile.id) # {} => disk # NoFile
  BY <1>1 DEF Published
<1>3. disk # NoFile => disk' = disk
  BY <1>1, DiskKept, OnPathIs
<1>4. ASSUME NEW p \in Owner, proc'[p] = proc[p] PROVE Holds(p)'
  BY <1>2, <1>3, <1>4 DEF Holds
<1>5. ASSUME NEW o \in Owner, Advance(o), NEW p \in Owner PROVE Holds(p)'
  BY <1>4, <1>5, AdvanceHolds, AdvanceKnows
<1>6. ASSUME \/ \E o \in Owner : \/ \E r \in Run : Create(o, r)
                                \/ Resume(o) \/ Exits(o) \/ Crash(o)
             \/ UNCHANGED dvars,
             NEW p \in Owner
      PROVE  Holds(p)'
  <2>1. CASE proc'[p].pc \in {"acquire", "recover", "exited", "dead"}
    BY <2>1 DEF Holds
  <2> QED
    BY <1>4, <1>6, <2>1, OtherMoves, OnPathIs
<1>7. \A o \in Owner : Holds(o)'
  BY <1>1, <1>5, <1>6 DEF DNext
<1>8. ASSUME NEW r \in Run, Results(r, WriteFile.id)' # {} PROVE disk' # NoFile
  <2>1. CASE NoneRecorded
    BY <1>2, <1>3, <1>8, <2>1 DEF NoneRecorded
  <2>2. ASSUME NEW o \in Owner, RecordsResult(o) PROVE disk' # NoFile
    BY <1>2, <1>3, <2>2 DEF RecordsResult, Holds
  <2> QED
    BY <2>1, <2>2, PathsStep
<1> QED
  BY <1>7, <1>8

-----------------------------------------------------------------------------
(* The invariant of the example, and what follows from it.                    *)

ExampleInv == Knowledge /\ Paths /\ Published

LEMMA ExampleStart == DInit => ExampleInv
<1> SUFFICES ASSUME DInit PROVE ExampleInv
  OBVIOUS
<1>1. \A o \in Owner : proc[o].pc = "none"
  BY DEF DInit, NoProcess
<1>2. events = {} /\ checkpoints = {} /\ \A r \in Run : runs[r].status = "absent"
  BY DEF DInit, Init, AbsentRun
<1>3. Knowledge /\ \A o \in Owner : Holds(o)
  BY <1>1 DEF Knowledge, Knows, Holds
<1>4. Published
  BY <1>2, <1>3 DEF Published, Results, EventsOf
<1>5. ASSUME NEW r \in Run PROVE Place(r, LogLength(r))
  <2>1. LogLength(r) = 0
    BY <1>2 DEF LogLength, EventsOf
  <2>2. CheckpointsOf(r) = {}
    BY <1>2 DEF CheckpointsOf
  <2> QED
    BY <1>2, <2>1, <2>2 DEF Place
<1>6. Paths
  BY <1>2, <1>5 DEF Paths
<1> QED
  BY <1>3, <1>4, <1>6 DEF ExampleInv

LEMMA ExampleStep ==
    ProcsInv /\ ProcsInv' /\ LogInvariant /\ ExampleInv /\ [DNext]_dvars => ExampleInv'
<1> SUFFICES ASSUME ProcsInv, ProcsInv', LogInvariant, ExampleInv, [DNext]_dvars
             PROVE  ExampleInv'
  OBVIOUS
<1>1. OnPath
  BY DEF OnPath, ExampleInv, ProcsInv
<1>2. LogEffect
  <2>1. [Next]_vars
    BY ProcsStep
  <2> QED
    BY <1>1, <2>1, StepEffect, OnPathIs
<1> QED
  BY <1>1, <1>2, PathsStep, KnowledgeStep, PublishedStep DEF ExampleInv

\* durable_agent.rs, run_agent: the log of each run is at a place of its path,
\* a process completes a run only when its checkpoint is accepted, and what is
\* recorded was published.
THEOREM ExampleInvariant == DSpec => []ExampleInv
<1>1. DSpec => []LogInvariant
  BY AgentUsesStore, LogIsSound
<1> QED
  BY <1>1, ExampleStart, ExampleStep, ProcsInvariant, PTL DEF DSpec

\* execute_write_file: what a process is about to record is what was published,
\* and no result is in the log without its artifact, until somebody deletes it.
THEOREM OnlyPublishedIsRecorded == DSpec => []ResultIsPublished
<1>1. ExampleInv => ResultIsPublished
  BY DEF ExampleInv, Published, Holds, ResultIsPublished
<1> QED
  BY <1>1, ExampleInvariant, PTL

\* The verdict of a run with an accepted checkpoint is an acceptance.
LEMMA AcceptedVerdict ==
    ASSUME ProcsInv, LogInvariant, Paths, NEW r \in Run, Accepted(r) # {},
           NEW e \in EventsOf(r), e.place = 7
    PROVE  e.type = "checkpoint_accepted"
<1>1. PICK c \in checkpoints : c.run = r /\ c.status = "accepted"
  BY DEF Accepted, CheckpointsOf
<1>2. Decided(c)
  BY <1>1 DEF LogInvariant, Lineage, Recorded
<1>3. PICK f \in events : f.run = r /\ f.place = c.decision /\ f.type = "checkpoint_accepted"
  BY <1>1, <1>2 DEF Decided, EventAt, EventsOf, VerdictType
<1>4. f.place = 7
  <2>1. Place(r, LogLength(r)) /\ LogLength(r) \in Nat
    BY LogPlaces DEF Paths, ProcsInv
  <2>2. f.place \in 0 .. 9
    <3>1. f.place \in 0 .. LogLength(r) - 1
      BY <1>3, LogPlaces DEF ProcsInv, EventsOf
    <3> QED
      BY <2>1, <3>1 DEF Place
  <2>3. Fits(f)
    BY DEF Paths
  <2> QED
    BY <1>3, <2>2, <2>3 DEF Fits
<1> QED
  BY <1>3, <1>4 DEF EventsOf, ProcsInv, Shape, EventsShape, PlacesUnique

LEMMA CompletedTypes ==
    ASSUME ProcsInv, LogInvariant, Paths, NEW r \in Run, runs[r].status = "completed"
    PROVE  TypesOf(r) = <<"state_transition", "llm_call", "tool_call", "tool_result",
                          "llm_call", "tool_call", "checkpoint_proposed",
                          "checkpoint_accepted", "tool_result", "state_transition">>
<1>1. LogLength(r) = 10 /\ Accepted(r) # {}
  BY DEF Paths, Place
<1> DEFINE At(i) == CHOOSE e \in EventsOf(r) : e.place = i - 1
<1>2. ASSUME NEW i \in 1 .. 10
      PROVE  At(i) \in EventsOf(r) /\ At(i).place = i - 1 /\ Fits(At(i))
  <2>1. i - 1 \in 0 .. LogLength(r) - 1
    BY <1>1
  <2>2. \E e \in EventsOf(r) : e.place = i - 1
    BY <2>1, LogPlaces DEF ProcsInv
  <2>3. At(i) \in EventsOf(r) /\ At(i).place = i - 1
    BY <2>2
  <2> QED
    BY <2>3 DEF Paths, EventsOf
<1>3. TypesOf(r) = [i \in 1 .. 10 |-> At(i).type]
  BY <1>1 DEF TypesOf
<1> HIDE DEF At
<1>4. /\ At(1).type = "state_transition" /\ At(2).type = "llm_call"
      /\ At(3).type = "tool_call" /\ At(4).type = "tool_result"
      /\ At(5).type = "llm_call" /\ At(6).type = "tool_call"
      /\ At(7).type = "checkpoint_proposed"
      /\ At(9).type = "tool_result" /\ At(10).type = "state_transition"
  BY <1>2 DEF Fits
<1>5. At(8).type = "checkpoint_accepted"
  <2>1. At(8) \in EventsOf(r) /\ At(8).place = 7
    BY <1>2
  <2> QED
    BY <1>1, <2>1, AcceptedVerdict
<1> QED
  BY <1>3, <1>4, <1>5

\* crash_kill_resume.sh: wherever the processes were killed, however often they
\* were started, and although several may have worked at once, the log of a
\* completed run is that of an undisturbed one.
THEOREM CompletedRunsLookUndisturbed == DSpec => []CompletedOnce
<1>1. ProcsInv /\ LogInvariant /\ ExampleInv => CompletedOnce
  BY CompletedTypes DEF ExampleInv, CompletedOnce
<1>2. DSpec => []LogInvariant
  BY AgentUsesStore, LogIsSound
<1> QED
  BY <1>1, <1>2, ProcsInvariant, ExampleInvariant, PTL
=============================================================================

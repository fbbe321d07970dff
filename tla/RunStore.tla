------------------------------ MODULE RunStore ------------------------------
(* The run store of src/src/db.rs: the tables agent_runs, events and          *)
(* checkpoints, and every function that reads or writes them.  A function     *)
(* that brackets its statements in BEGIN IMMEDIATE ... COMMIT holds SQLite's  *)
(* only writer slot throughout, so it is one action here; every error path    *)
(* ends in ROLLBACK and changes nothing, so it is a disabled action.          *)
(*                                                                            *)
(* No process appears in this module.  The functions are called with a        *)
(* RunLease, a Copy value that outlives the process state it was taken for:   *)
(* any lease ever handed out may be presented again at any time, by a live    *)
(* context, a fenced one, or a heartbeat that has not noticed yet.  A crash   *)
(* is a caller that stops presenting.                                         *)
EXTENDS Integers, Sequences, FiniteSets, FiniteSetsExt

CONSTANTS
    Run,        \* run ids, drawn from Nat: a Uuid is an ordered value
    Owner,      \* owner ids a caller may bring to a claim
    NoOwner,    \* lease_owner IS NULL
    CallId,     \* tool call ids chosen by the model
    NoCall,     \* the payload has no call_id
    Response,   \* the model responses of interest: sequences of tool calls
    RawEvent,   \* the events passed to append_event_with_lease
    Forced,     \* the runs on which an operator calls recover_run_lease
    Ttl,        \* lease durations, in milliseconds after rounding
    Time,       \* the readings of the wall clock
    SecondMs,   \* clock units per second: created_at keeps whole seconds
    MaxMillis,  \* bound: i64::MAX for lease_expires_at_ms
    MaxSeq,     \* bound: i32::MAX for events.seq, past which it wraps
    MaxEpoch    \* bound: i64::MAX for lease_epoch

ToolCall == [id : CallId, name : {"tool", "submit_checkpoint"}]

ASSUME RunAssumption == Run \subseteq Nat
ASSUME OwnerAssumption == NoOwner \notin Owner
ASSUME CallAssumption == NoCall \notin CallId
ASSUME ResponseAssumption == \A response \in Response :
           response \in Seq(ToolCall) /\ Len(response) <= MaxSeq + 1
ASSUME ClockAssumption == /\ Time \subseteq Nat
                          /\ Ttl \subseteq Nat
                          /\ SecondMs \in Nat \ {0}
ASSUME BoundAssumption == /\ MaxMillis \in Nat
                          /\ MaxSeq \in Nat
                          /\ MaxEpoch \in Nat
ASSUME RawAssumption ==
    RawEvent \subseteq [type : {"llm_call", "tool_result"}, call : CallId \cup {NoCall}]
ASSUME ForcedAssumption == Forced \subseteq Run

VARIABLES
    runs,         \* table agent_runs
    events,       \* table events, as a set of rows
    checkpoints,  \* table checkpoints, as a set of rows
    now,          \* Utc::now(): the wall clock, which may be set back
    leases        \* every RunLease a claim has returned

vars == <<runs, events, checkpoints, now, leases>>

Status == {"pending", "running", "completed", "failed"}
Terminal == {"completed", "failed"}
Claimable == {"pending", "running"}
NoSeq == -1

-----------------------------------------------------------------------------
(* Rows.                                                                      *)

\* released is a history column the table does not have: the epoch of the
\* lease that was presented to clear the owner, 0 while there is one.
AbsentRun == [status |-> "absent", owner |-> NoOwner, epoch |-> 0,
              expires |-> 0, created |-> 0, released |-> 0]

NoPayload == [call |-> NoCall, name |-> "", alone |-> FALSE,
              cp |-> 0, from |-> "", to |-> ""]

NoKey == [kind |-> "none", call |-> NoCall, cp |-> 0]
CallKey(kind, c) == [NoKey EXCEPT !.kind = kind, !.call = c]
CheckpointKey(kind, id) == [NoKey EXCEPT !.kind = kind, !.cp = id]

\* insert_event's row.  writer is a history column the table does not have:
\* the epoch of the lease under which the row was written.  place is the number
\* the caller computed, before i32 bounds it; the column seq is SeqOf.
EventRow(r, place, type, payload, key, writer) ==
    [run |-> r, place |-> place, type |-> type, payload |-> payload,
     key |-> key, writer |-> writer]

\* i32 addition as a release build does it: past i32::MAX comes i32::MIN.
I32(n) == IF n > MaxSeq THEN n - 2 * (MaxSeq + 1) ELSE n

SeqOf(e) == I32(e.place)

TransitionRow(r, place, from, to, writer) ==
    EventRow(r, place, "state_transition",
             [NoPayload EXCEPT !.from = from, !.to = to], NoKey, writer)

EventsOf(r) == {e \in events : e.run = r}
CheckpointsOf(r) == {c \in checkpoints : c.run = r}

\* mutants of NextSeq: COALESCE(MAX(seq), -1), and COALESCE(MAX(seq), 0) + 1
NextSeq_NoIncrement(r) == LET seqs == {SeqOf(e) : e \in EventsOf(r)}
                          IN  IF seqs = {} THEN -1 ELSE Max(seqs)
NextSeq_FromOne(r) == LET seqs == {SeqOf(e) : e \in EventsOf(r)}
                      IN  IF seqs = {} THEN 1 ELSE Max(seqs) + 1

\* SELECT COALESCE(MAX(seq), -1) + 1
NextSeq(r) == LET seqs == {SeqOf(e) : e \in EventsOf(r)}
              IN  IF seqs = {} THEN 0 ELSE Max(seqs) + 1

\* SELECT COALESCE(MAX(round), 0) + 1
NextRound(r) == LET rounds == {c.round : c \in CheckpointsOf(r)}
                IN  IF rounds = {} THEN 1 ELSE Max(rounds) + 1

\* the rowid SQLite gives a new row of checkpoints, which are never deleted
NextCheckpointId == LET ids == {c.id : c \in checkpoints}
                    IN  IF ids = {} THEN 1 ELSE Max(ids) + 1

\* UNIQUE(run_id, seq) and the unique index on (run_id, idempotency_key)
Conflict(e, f) == /\ e # f
                  /\ e.run = f.run
                  /\ \/ SeqOf(e) = SeqOf(f)
                     \/ e.key = f.key /\ e.key # NoKey

\* A failed INSERT rolls the whole transaction back, and so does a next_event_seq
\* that i32 cannot hold.  Only the first row of a transaction is numbered by that
\* query: the others add to it, and wrap.
InsertEvents(rows) ==
    /\ \A e \in rows : NextSeq(e.run) <= MaxSeq
    /\ \A e \in rows, f \in events \cup rows : ~Conflict(e, f)
    /\ events' = events \cup rows

-----------------------------------------------------------------------------
(* Reads.                                                                     *)

Results(r, c) == {e \in EventsOf(r) : e.type = "tool_result" /\ e.payload.call = c}
Answered(i) == \E e \in Results(i.run, i.payload.call) : SeqOf(e) > SeqOf(i)

\* find_pending_tool_calls: intents with no later result
PendingToolCalls(r) == {i \in EventsOf(r) : i.type = "tool_call" /\ ~Answered(i)}

Candidates(r) == {c \in CheckpointsOf(r) : c.status = "candidate"}
Accepted(r) == {c \in CheckpointsOf(r) : c.status = "accepted"}

\* mutant of ValidRunLease: the query forgets lease_epoch
ValidRunLease_OwnerOnly(l) == /\ runs[l.run].owner = l.owner
                              /\ runs[l.run].expires > now

ValidRunLease(l) == /\ runs[l.run].owner = l.owner
                    /\ runs[l.run].epoch = l.epoch
                    /\ runs[l.run].expires > now

ValidWritableRunLease(l) == ValidRunLease(l) /\ runs[l.run].status = "running"

-----------------------------------------------------------------------------
(* Runs and leases.                                                           *)

CreateRun(r) ==
    /\ runs[r].status = "absent"
    /\ runs' = [runs EXCEPT ![r] = [AbsentRun EXCEPT !.status = "pending",
                                                     !.created = now \div SecondMs]]
    /\ UNCHANGED <<events, checkpoints, now, leases>>

\* The part every claim shares: a new owner, a new epoch, a fresh expiry.
GrantLease(r, o, ttl, status) ==
    /\ now + ttl <= MaxMillis
    /\ runs[r].epoch < MaxEpoch
    /\ runs' = [runs EXCEPT ![r].status = status,
                            ![r].owner = o,
                            ![r].epoch = @ + 1,
                            ![r].expires = now + ttl,
                            ![r].released = 0]
    /\ leases' = leases \cup {[run |-> r, owner |-> o, epoch |-> runs[r].epoch + 1]}

ClaimRunLease(r, o, ttl, recover) ==
    /\ runs[r].status \notin Terminal \cup {"absent"}
    /\ recover \/ runs[r].owner = NoOwner
    /\ GrantLease(r, o, ttl, runs[r].status)
    /\ UNCHANGED <<events, checkpoints, now>>

AcquireRunLease(r, o, ttl) == ClaimRunLease(r, o, ttl, FALSE)
RecoverRunLease(r, o, ttl) == ClaimRunLease(r, o, ttl, TRUE)

\* mutant of Recoverable: the worker's query forgets the lease
Recoverable_AnyOwner(r) == runs[r].status \in Claimable

Recoverable(r) == /\ runs[r].status \in Claimable
                  /\ runs[r].owner = NoOwner \/ runs[r].expires <= now

\* ORDER BY created_at, id
Before(r, s) == \/ runs[r].created < runs[s].created
                \/ runs[r].created = runs[s].created /\ r < s

\* mutant of ClaimNextRecoverableRun: the status changes without its event
ClaimNextRecoverableRun_NoEvent(o, ttl) ==
    \E r \in Run :
        /\ Recoverable(r)
        /\ \A s \in Run \ {r} : Recoverable(s) => Before(r, s)
        /\ GrantLease(r, o, ttl, "running")
        /\ UNCHANGED <<events, checkpoints, now>>

ClaimNextRecoverableRun(o, ttl) ==
    \E r \in Run :
        /\ Recoverable(r)
        /\ \A s \in Run \ {r} : Recoverable(s) => Before(r, s)
        /\ GrantLease(r, o, ttl, "running")
        /\ IF runs[r].status = "pending"
           THEN InsertEvents({TransitionRow(r, NextSeq(r), "pending", "running",
                                            runs[r].epoch + 1)})
           ELSE UNCHANGED events
        /\ UNCHANGED <<checkpoints, now>>

RenewRunLease(l, ttl) ==
    /\ ValidRunLease(l)
    /\ runs[l.run].status \in Claimable
    /\ now + ttl <= MaxMillis
    /\ runs' = [runs EXCEPT ![l.run].expires = now + ttl]
    /\ UNCHANGED <<events, checkpoints, now, leases>>

\* mutant of ReleaseRunLease: the epoch is cleared with the owner
ReleaseRunLease_ResetsEpoch(l) ==
    /\ runs[l.run].owner = l.owner
    /\ runs[l.run].epoch = l.epoch
    /\ runs' = [runs EXCEPT ![l.run].owner = NoOwner, ![l.run].expires = 0,
                            ![l.run].released = l.epoch, ![l.run].epoch = 0]
    /\ UNCHANGED <<events, checkpoints, now, leases>>

\* mutant of ReleaseRunLease: the statement forgets lease_epoch
ReleaseRunLease_OwnerOnly(l) ==
    /\ runs[l.run].owner = l.owner
    /\ runs' = [runs EXCEPT ![l.run].owner = NoOwner, ![l.run].expires = 0,
                            ![l.run].released = l.epoch]
    /\ UNCHANGED <<events, checkpoints, now, leases>>

\* Neither the expiry nor the status is looked at.
ReleaseRunLease(l) ==
    /\ runs[l.run].owner = l.owner
    /\ runs[l.run].epoch = l.epoch
    /\ runs' = [runs EXCEPT ![l.run].owner = NoOwner, ![l.run].expires = 0,
                            ![l.run].released = l.epoch]
    /\ UNCHANGED <<events, checkpoints, now, leases>>

UpdateRunStatus(l, status) ==
    /\ ValidRunLease(l)
    /\ runs[l.run].status # status
    /\ InsertEvents({TransitionRow(l.run, NextSeq(l.run), runs[l.run].status,
                                   status, l.epoch)})
    /\ runs' = [runs EXCEPT ![l.run].status = status]
    /\ UNCHANGED <<checkpoints, now, leases>>

\* mutant of CompleteRun: the lease is left on the row
CompleteRun_KeepsLease(l) ==
    /\ ValidWritableRunLease(l)
    /\ InsertEvents({TransitionRow(l.run, NextSeq(l.run), "running", "completed",
                                   l.epoch)})
    /\ runs' = [runs EXCEPT ![l.run].status = "completed"]
    /\ UNCHANGED <<checkpoints, now, leases>>

\* The payload's "from" is the literal Running.
CompleteRun(l) ==
    /\ ValidWritableRunLease(l)
    /\ InsertEvents({TransitionRow(l.run, NextSeq(l.run), "running", "completed",
                                   l.epoch)})
    /\ runs' = [runs EXCEPT ![l.run].status = "completed",
                            ![l.run].owner = NoOwner,
                            ![l.run].expires = 0,
                            ![l.run].released = l.epoch]
    /\ UNCHANGED <<checkpoints, now, leases>>

-----------------------------------------------------------------------------
(* Responses, tools and raw events.                                           *)

IntentRow(l, place, toolCall, count) ==
    EventRow(l.run, place, "tool_call",
             [NoPayload EXCEPT !.call = toolCall.id, !.name = toolCall.name,
                               !.alone = (count = 1)],
             CallKey("tool_call", toolCall.id), l.epoch)

\* append_llm_call_with_tool_intents_with_lease: the response and all its
\* intents, or nothing.
AppendLlmCall(l, response) ==
    /\ ValidWritableRunLease(l)
    /\ LET seq == NextSeq(l.run)
           llm == EventRow(l.run, seq, "llm_call", NoPayload, NoKey, l.epoch)
       IN  InsertEvents({llm} \cup {IntentRow(l, seq + i, response[i], Len(response)) :
                                        i \in 1 .. Len(response)})
    /\ UNCHANGED <<runs, checkpoints, now, leases>>

ResultRow(l, place, c, key) ==
    EventRow(l.run, place, "tool_result", [NoPayload EXCEPT !.call = c], key, l.epoch)

\* mutant of RecordToolResult: no refusal of submit_checkpoint
RecordToolResult_AnyTool(l, c) ==
    /\ ValidWritableRunLease(l)
    /\ \E i \in EventsOf(l.run) : i.type = "tool_call" /\ i.payload.call = c
    /\ Results(l.run, c) = {}
    /\ InsertEvents({ResultRow(l, NextSeq(l.run), c, CallKey("tool_result", c))})
    /\ UNCHANGED <<runs, checkpoints, now, leases>>

\* A call that already has a result is answered with that result, or refused
\* when the content differs: either way nothing is written.
RecordToolResult(l, c) ==
    /\ ValidWritableRunLease(l)
    /\ \E i \in EventsOf(l.run) : /\ i.type = "tool_call"
                                  /\ i.payload.call = c
                                  /\ i.payload.name # "submit_checkpoint"
    /\ Results(l.run, c) = {}
    /\ InsertEvents({ResultRow(l, NextSeq(l.run), c, CallKey("tool_result", c))})
    /\ UNCHANGED <<runs, checkpoints, now, leases>>

\* append_event_with_lease: no check but the lease.  The function takes any type
\* of event, and a key; nothing in the crate calls it, and RawAssumption keeps to
\* the responses and results an application might append, without a key.
AppendEvent(l, raw) ==
    /\ ValidWritableRunLease(l)
    /\ InsertEvents({EventRow(l.run, NextSeq(l.run), raw.type,
                              [NoPayload EXCEPT !.call = raw.call], NoKey, l.epoch)})
    /\ UNCHANGED <<runs, checkpoints, now, leases>>

-----------------------------------------------------------------------------
(* Checkpoints.                                                               *)

\* UNIQUE(run_id, round) and UNIQUE(run_id, tool_call_id)
InsertCheckpoint(row) ==
    /\ \A c \in CheckpointsOf(row.run) : c.round # row.round /\ c.call # row.call
    /\ checkpoints' = checkpoints \cup {row}

\* mutant of ProposeCheckpoint: a second candidate beside an undecided one
ProposeCheckpoint_WhileUndecided(l, c) ==
    /\ ValidWritableRunLease(l)
    /\ \E i \in PendingToolCalls(l.run) : /\ i.payload.call = c
                                          /\ i.payload.name = "submit_checkpoint"
                                          /\ i.payload.alone
    /\ LET seq == NextSeq(l.run)
           id == NextCheckpointId
       IN  /\ InsertCheckpoint([id |-> id, run |-> l.run, round |-> NextRound(l.run),
                                call |-> c, based_on |-> seq - 1, decision |-> NoSeq,
                                status |-> "candidate"])
           /\ InsertEvents({EventRow(l.run, seq, "checkpoint_proposed",
                                     [NoPayload EXCEPT !.cp = id],
                                     CheckpointKey("proposed", id), l.epoch)})
    /\ UNCHANGED <<runs, now, leases>>

\* mutant of ProposeCheckpoint: the request need not be alone in its response
ProposeCheckpoint_Mixed(l, c) ==
    /\ ValidWritableRunLease(l)
    /\ \E i \in PendingToolCalls(l.run) : /\ i.payload.call = c
                                          /\ i.payload.name = "submit_checkpoint"
    /\ Candidates(l.run) = {}
    /\ LET seq == NextSeq(l.run)
           id == NextCheckpointId
       IN  /\ InsertCheckpoint([id |-> id, run |-> l.run, round |-> NextRound(l.run),
                                call |-> c, based_on |-> seq - 1, decision |-> NoSeq,
                                status |-> "candidate"])
           /\ InsertEvents({EventRow(l.run, seq, "checkpoint_proposed",
                                     [NoPayload EXCEPT !.cp = id],
                                     CheckpointKey("proposed", id), l.epoch)})
    /\ UNCHANGED <<runs, now, leases>>

ProposeCheckpoint(l, c) ==
    /\ ValidWritableRunLease(l)
    /\ \E i \in PendingToolCalls(l.run) : /\ i.payload.call = c
                                          /\ i.payload.name = "submit_checkpoint"
                                          /\ i.payload.alone
    /\ Candidates(l.run) = {}
    /\ LET seq == NextSeq(l.run)
           id == NextCheckpointId
       IN  /\ InsertCheckpoint([id |-> id, run |-> l.run, round |-> NextRound(l.run),
                                call |-> c, based_on |-> seq - 1, decision |-> NoSeq,
                                status |-> "candidate"])
           /\ InsertEvents({EventRow(l.run, seq, "checkpoint_proposed",
                                     [NoPayload EXCEPT !.cp = id],
                                     CheckpointKey("proposed", id), l.epoch)})
    /\ UNCHANGED <<runs, now, leases>>

Verdict(accepted) == IF accepted THEN "accepted" ELSE "rejected"
VerdictType(accepted) == IF accepted THEN "checkpoint_accepted" ELSE "checkpoint_rejected"

\* mutant of DecideCheckpoint: the verdict without its tool result
DecideCheckpoint_NoResult(l, id, accepted) ==
    /\ ValidWritableRunLease(l)
    /\ \E c \in Candidates(l.run) :
         LET seq == NextSeq(l.run)
         IN  /\ c.id = id
             /\ checkpoints' = (checkpoints \ {c}) \cup
                    {[c EXCEPT !.status = Verdict(accepted), !.decision = seq]}
             /\ InsertEvents({EventRow(l.run, seq, VerdictType(accepted),
                                       [NoPayload EXCEPT !.cp = id],
                                       CheckpointKey(Verdict(accepted), id), l.epoch)})
    /\ UNCHANGED <<runs, now, leases>>

DecideCheckpoint(l, id, accepted) ==
    /\ ValidWritableRunLease(l)
    /\ \E c \in Candidates(l.run) :
         LET seq == NextSeq(l.run)
         IN  /\ c.id = id
             /\ checkpoints' = (checkpoints \ {c}) \cup
                    {[c EXCEPT !.status = Verdict(accepted), !.decision = seq]}
             /\ InsertEvents({EventRow(l.run, seq, VerdictType(accepted),
                                       [NoPayload EXCEPT !.cp = id],
                                       CheckpointKey(Verdict(accepted), id), l.epoch),
                              ResultRow(l, seq + 1, c.call,
                                        CheckpointKey("tool_result", id))})
    /\ UNCHANGED <<runs, now, leases>>

-----------------------------------------------------------------------------
(* The clock, and everything any caller may do next.                          *)

Tick(t) ==
    /\ now' = t
    /\ UNCHANGED <<runs, events, checkpoints, leases>>

Init ==
    /\ runs = [r \in Run |-> AbsentRun]
    /\ events = {}
    /\ checkpoints = {}
    /\ now \in Time
    /\ leases = {}

Claim == \E o \in Owner, ttl \in Ttl :
             \/ \E r \in Run : AcquireRunLease(r, o, ttl)
             \/ \E r \in Forced : RecoverRunLease(r, o, ttl)
             \/ ClaimNextRecoverableRun(o, ttl)

HoldLease(l) == \/ \E ttl \in Ttl : RenewRunLease(l, ttl)
                \/ ReleaseRunLease(l)
                \/ UpdateRunStatus(l, "running")
                \/ CompleteRun(l)

WriteLog(l) == \/ \E response \in Response : AppendLlmCall(l, response)
               \/ \E c \in CallId : RecordToolResult(l, c)
               \/ \E raw \in RawEvent : AppendEvent(l, raw)
               \/ \E c \in CallId : ProposeCheckpoint(l, c)
               \/ \E cp \in checkpoints, accepted \in BOOLEAN :
                      DecideCheckpoint(l, cp.id, accepted)

Next ==
    \/ \E r \in Run : CreateRun(r)
    \/ Claim
    \/ \E l \in leases : HoldLease(l) \/ WriteLog(l)
    \/ \E t \in Time : Tick(t)

Spec == Init /\ [][Next]_vars

-----------------------------------------------------------------------------
(* Types.                                                                     *)

Lease == [run : Run, owner : Owner, epoch : 1 .. MaxEpoch]

RunRow == [status : Status \cup {"absent"}, owner : Owner \cup {NoOwner},
           epoch : 0 .. MaxEpoch, expires : 0 .. MaxMillis, created : Nat,
           released : 0 .. MaxEpoch]

EventType == {"llm_call", "tool_call", "tool_result", "state_transition",
              "checkpoint_proposed", "checkpoint_accepted", "checkpoint_rejected"}

Payload == [call : CallId \cup {NoCall}, name : {"", "tool", "submit_checkpoint"},
            alone : BOOLEAN, cp : Nat, from : Status \cup {""}, to : Status \cup {""}]

Key == [kind : {"none", "tool_call", "tool_result", "proposed", "accepted", "rejected"},
        call : CallId \cup {NoCall}, cp : Nat]

Event == [run : Run, place : 0 .. 2 * MaxSeq + 1, type : EventType, payload : Payload,
          key : Key, writer : 1 .. MaxEpoch]

Checkpoint == [id : Nat \ {0}, run : Run, round : Nat \ {0}, call : CallId,
               based_on : Nat \cup {NoSeq}, decision : Nat \cup {NoSeq},
               status : {"candidate", "accepted", "rejected"}]

\* Every column keeps the type src/src/types.rs and the migrations give it.  A
\* sequence number is an i32, which it leaves by wrapping once and never twice;
\* before that it is never the -1 of an empty log.
TypeOK ==
    /\ runs \in [Run -> RunRow]
    /\ events \subseteq Event
    /\ \A e \in events : SeqOf(e) \in -(MaxSeq + 1) .. MaxSeq
    /\ checkpoints \subseteq Checkpoint
    /\ now \in Time
    /\ leases \subseteq Lease

-----------------------------------------------------------------------------
(* The log.                                                                   *)

\* The number of events in the log of a run, by the places they were given
LogLength(r) == LET places == {e.place : e \in EventsOf(r)}
                IN  IF places = {} THEN 0 ELSE Max(places) + 1

\* next_event_seq and insert_event: within a run the sequence numbers are
\* 0, 1, 2, ... without a gap, and no number is used twice, however the
\* transactions that append one, two or many events interleave.  A number that
\* wrapped is in the log only if all of 0 .. i32::MAX are, so next_event_seq
\* fails from then on and no later row can meet it.
LogContiguous == \A r \in Run :
    /\ {SeqOf(e) : e \in EventsOf(r)} \cap Nat = 0 .. NextSeq(r) - 1
    /\ \A e, f \in EventsOf(r) : SeqOf(e) = SeqOf(f) => e = f
    /\ \A e \in EventsOf(r) : SeqOf(e) < 0 => NextSeq(r) = MaxSeq + 1

\* README "append-only, sequence-ordered log": no transaction removes or
\* rewrites an event, nor a checkpoint the verifier has decided.
AppendOnly ==
    [][/\ events \subseteq events'
       /\ \A c \in checkpoints : c.status # "candidate" => c \in checkpoints']_vars

\* record_tool_result_with_lease and decide_checkpoint_with_lease: a tool call
\* has at most one result, which follows its intent; the result of a checkpoint
\* call is the one the verifier's decision wrote.  Calls whose results are
\* appended raw, outside those two functions, are excepted.
RawCalls == {raw.call : raw \in {x \in RawEvent : x.type = "tool_result"}}

ResultsJustified == \A r \in Run, c \in CallId \ RawCalls : \A e \in Results(r, c) :
    /\ \A f \in Results(r, c) : f = e
    /\ \E i \in EventsOf(r) :
        /\ i.type = "tool_call" /\ i.payload.call = c /\ i.place < e.place
        /\ i.payload.name = "submit_checkpoint" =>
               \E k \in CheckpointsOf(r) : k.call = c /\ k.decision = e.place - 1

Transitions(r) == {e \in EventsOf(r) : e.type = "state_transition"}

\* Replaying the transitions up to a point: the status they lead to.
StatusBefore(r, place) ==
    LET earlier == {t \in Transitions(r) : t.place < place}
    IN  IF earlier = {} THEN "pending"
        ELSE (CHOOSE t \in earlier : \A u \in earlier : u.place <= t.place).payload.to

\* README "Status changes update agent_runs and append their state_transition
\* event in the same transaction": replaying the log gives the status column,
\* and each transition leaves the status the one before it reached.
StatusMatchesLog == \A r \in Run :
    /\ \A t \in Transitions(r) : t.payload.from = StatusBefore(r, t.place)
    /\ IF runs[r].status = "absent"
       THEN EventsOf(r) = {}
       ELSE runs[r].status = StatusBefore(r, LogLength(r))

\* complete_run_with_lease: completion is the last event of a run.
NothingAfterCompletion == \A e, f \in events :
    e.run = f.run /\ e.payload.to = "completed" => f.place <= e.place

-----------------------------------------------------------------------------
(* Leases.                                                                    *)

\* The fencing token: however often a lease is acquired, released, recovered or
\* lost, no two claims of a run are given the same epoch, and no lease is from
\* an epoch the row has not reached.
EpochsUnique == /\ \A l, m \in leases : l.run = m.run /\ l.epoch = m.epoch => l = m
                /\ \A l \in leases : l.epoch <= runs[l.run].epoch

\* A terminal run has no owner, so that update_run_status_with_lease, which
\* does not look at the status, cannot reopen it.
TerminalOwnerless == \A r \in Run : runs[r].status \in Terminal => runs[r].owner = NoOwner

\* README "fencing tokens prevent concurrent contexts from persisting work for
\* the same run": once a newer lease has written, no older one writes again.
EpochFencing == \A e, f \in events : e.run = f.run /\ e.place < f.place => e.writer <= f.writer

\* README "Active leases and terminal runs are never dispatched": without an
\* operator's recovery an unexpired lease passes to no other claim, and its
\* owner is cleared only when this very lease is presented, to release_run_lease
\* or to complete_run_with_lease: never by a late release of an earlier lease.
Active(r) == runs[r].owner # NoOwner /\ runs[r].expires > now

ActiveLeaseHeld ==
    [][\A r \in Run \ Forced : Active(r) =>
           /\ runs'[r].epoch = runs[r].epoch
           /\ \/ runs'[r].owner = runs[r].owner
              \/ runs'[r].owner = NoOwner /\ runs'[r].released = runs[r].epoch]_vars

\* A completed run is never claimed, renewed, appended to or reopened, whatever
\* lease is presented and however late.
TerminalFinal ==
    [][\A r \in Run : runs[r].status \in Terminal =>
           /\ runs'[r] = runs[r]
           /\ \A e \in events' \ events : e.run # r
           /\ \A c \in checkpoints' \ checkpoints : c.run # r]_vars

-----------------------------------------------------------------------------
(* Checkpoints.                                                               *)

EventAt(r, place, type) == {e \in EventsOf(r) : e.place = place /\ e.type = type}

Proposed(c) == \E e \in EventAt(c.run, c.based_on + 1, "checkpoint_proposed") :
                   e.payload.cp = c.id

Decided(c) ==
    /\ \E e \in EventAt(c.run, c.decision, VerdictType(c.status = "accepted")) :
           e.payload.cp = c.id
    /\ \E e \in EventAt(c.run, c.decision + 1, "tool_result") : e.payload.call = c.call

\* README "Acceptance should record ... lineage to the event sequence it
\* summarizes": the rounds of a run are 1, 2, ...; each checkpoint has its
\* proposal in the log right after the event it is based on, and a decided one
\* its verdict and then its tool result; a round starts only after the round
\* before it was decided.
CheckpointLineage == \A r \in Run :
    /\ {c.round : c \in CheckpointsOf(r)} = 1 .. NextRound(r) - 1
    /\ \A c \in CheckpointsOf(r) :
        /\ Proposed(c)
        /\ IF c.status = "candidate" THEN c.decision = NoSeq ELSE Decided(c)
        /\ \A d \in CheckpointsOf(r) \ {c} :
               /\ d.round # c.round
               /\ d.round > c.round => /\ c.status # "candidate"
                                       /\ c.decision < d.based_on

\* A candidate can always be decided: its tool call is still pending, so the
\* decision's tool_result is the call's first, also after a takeover.  Calls
\* whose results are appended raw are excepted.
CandidatePending == \A c \in checkpoints :
    c.status = "candidate" /\ c.call \notin RawCalls =>
        \E i \in PendingToolCalls(c.run) : i.payload.call = c.call

\* propose_checkpoint_with_lease and record_tool_result_with_lease: a checkpoint
\* request that came beside other tool calls is refused by both, so it stays
\* pending for good and is never verified, whatever happens to the calls beside it.
MixedRequestsUnanswered == \A i \in events :
    (/\ i.type = "tool_call" /\ i.payload.name = "submit_checkpoint"
     /\ ~i.payload.alone /\ i.payload.call \notin RawCalls) =>
        /\ i \in PendingToolCalls(i.run)
        /\ \A c \in CheckpointsOf(i.run) : c.call # i.payload.call

\* The log of a run speaks only of checkpoints of that run: the lease of one
\* run cannot decide the candidate of another.
CheckpointsStayInRun == \A e \in events :
    e.payload.cp # 0 => \E c \in checkpoints : c.id = e.payload.cp /\ c.run = e.run

=============================================================================

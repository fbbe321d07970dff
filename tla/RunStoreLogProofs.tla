------------------------- MODULE RunStoreLogProofs -------------------------
(* Proofs about what the log of RunStore says: the status, the results, the   *)
(* checkpoints and what AgentView shows of them, for every value of the       *)
(* constants.                                                                 *)
EXTENDS AgentView, RunStoreProofs

(* The transactions of RunStore, seen as the rows they insert.  Each effect   *)
(* names the fields a reader of the log can tell apart, and what the guard of *)
(* the transaction had read before.                                           *)

SameRow(r) == runs'[r].status = runs[r].status /\ runs'[r].epoch = runs[r].epoch

\* No row is written; at most one run is created, or claimed as it is.
QuietStep ==
    /\ UNCHANGED <<events, checkpoints>>
    /\ \/ \A s \in Run : SameRow(s)
       \/ \E r \in Run :
            /\ \A s \in Run \ {r} : SameRow(s)
            /\ \/ /\ runs[r].status = "absent" /\ runs'[r].status = "pending"
                  /\ runs'[r].epoch = runs[r].epoch
               \/ /\ runs[r].status \in Claimable /\ runs'[r].status = runs[r].status
                  /\ runs'[r].epoch = runs[r].epoch + 1

\* A status change and its event.  A claim that starts a run starts it in the
\* epoch it grants.
TransitionStep(r, e) ==
    /\ InsertEvents({e}) /\ UNCHANGED checkpoints
    /\ e.run = r /\ e.place = LogLength(r) /\ e.type = "state_transition"
    /\ e.key = NoKey /\ e.writer = runs'[r].epoch /\ e.payload.cp = 0
    /\ e.payload.from = runs[r].status /\ e.payload.to = runs'[r].status
    /\ \/ /\ runs[r].status = "pending" /\ runs'[r].status = "running"
          /\ \/ runs'[r].epoch = runs[r].epoch /\ runs[r].epoch > 0
             \/ runs'[r].epoch = runs[r].epoch + 1
       \/ /\ runs[r].status = "running" /\ runs'[r].status = "completed"
          /\ runs'[r].epoch = runs[r].epoch
    /\ \A s \in Run \ {r} : SameRow(s)

\* The holder of a running run inserts rows.
WorkStep(r, rows) ==
    /\ InsertEvents(rows) /\ \A s \in Run : SameRow(s)
    /\ runs[r].status = "running"
    /\ \A e \in rows : /\ e.run = r /\ e.place >= LogLength(r)
                       /\ e.type # "state_transition" /\ e.writer = runs[r].epoch

\* A response, then its tool calls.
ReplyStep(r, rows) ==
    /\ WorkStep(r, rows) /\ UNCHANGED checkpoints
    /\ \E e \in rows : e.place = LogLength(r)
    /\ \A e \in rows :
        /\ e.payload.cp = 0
        /\ e.type = IF e.place = LogLength(r) THEN "llm_call" ELSE "tool_call"
        /\ e.type = "tool_call" =>
            /\ e.key = CallKey("tool_call", e.payload.call)
            /\ e.payload.call \in CallId
            /\ e.payload.name \in {"tool", "submit_checkpoint"}

\* A result recorded for a call that is not a checkpoint request.
AnswerStep(r, e) ==
    /\ WorkStep(r, {e}) /\ UNCHANGED checkpoints
    /\ e.place = LogLength(r) /\ e.type = "tool_result" /\ e.payload.cp = 0
    /\ Results(r, e.payload.call) = {}
    /\ \E i \in EventsOf(r) : /\ i.type = "tool_call"
                              /\ i.payload.call = e.payload.call
                              /\ i.payload.name # "submit_checkpoint"

RawStep(r, e) ==
    /\ WorkStep(r, {e}) /\ UNCHANGED checkpoints
    /\ e.place = LogLength(r) /\ e.type \in {"llm_call", "tool_result"}
    /\ e.payload.cp = 0
    /\ e.type = "tool_result" => e.payload.call \in RawCalls

\* The calls that wait for a result, by the order in which the rows were
\* inserted.  Until a number wraps this is what the query finds.
AnsweredLater(i) == \E e \in Results(i.run, i.payload.call) : e.place > i.place
OpenCalls(r) == {i \in EventsOf(r) : i.type = "tool_call" /\ ~AnsweredLater(i)}

\* Candidate k, and the event e that proposes it.
ProposalStep(r, e, k) ==
    /\ WorkStep(r, {e}) /\ checkpoints' = checkpoints \cup {k}
    /\ e.place = LogLength(r) /\ e.type = "checkpoint_proposed" /\ e.payload.cp = k.id
    /\ k.run = r /\ k.id = NextCheckpointId /\ k.round = NextRound(r)
    /\ k.based_on = LogLength(r) - 1 /\ k.decision = NoSeq /\ k.status = "candidate"
    /\ Candidates(r) = {}
    /\ \A c \in CheckpointsOf(r) : c.call # k.call
    /\ \E i \in OpenCalls(r) : /\ i.payload.call = k.call
                                      /\ i.payload.name = "submit_checkpoint"
                                      /\ i.payload.alone

\* Candidate k becomes d, with its verdict v and its tool result e.
VerdictStep(r, v, e, k, d) ==
    /\ WorkStep(r, {v, e}) /\ checkpoints' = (checkpoints \ {k}) \cup {d}
    /\ v.place = LogLength(r) /\ v.type = VerdictType(d.status = "accepted")
    /\ v.payload.cp = k.id
    /\ e.place = LogLength(r) + 1 /\ e.type = "tool_result"
    /\ e.payload.cp = 0 /\ e.payload.call = k.call
    /\ k \in Candidates(r)
    /\ d.id = k.id /\ d.run = k.run /\ d.round = k.round /\ d.call = k.call
    /\ d.based_on = k.based_on /\ d.decision = LogLength(r)
    /\ d.status \in {"accepted", "rejected"}

LogEffect ==
    \/ QuietStep
    \/ \E r \in Run :
        \/ \E rows : ReplyStep(r, rows)
        \/ \E e : TransitionStep(r, e) \/ AnswerStep(r, e) \/ RawStep(r, e)
        \/ \E e, k : ProposalStep(r, e, k)
        \/ \E v, e, k, d : VerdictStep(r, v, e, k, d)

LEMMA PendingAreOpen ==
    ASSUME EventsShape, NEW r \in Run, LogLength(r) <= MaxSeq
    PROVE  PendingToolCalls(r) = OpenCalls(r)
<1>1. ASSUME NEW e \in EventsOf(r) PROVE SeqOf(e) = e.place
  <2>1. e.place \in Places(r) /\ e.place \in Int
    BY DEF Places, EventsOf, EventsShape, Event
  <2>2. e.place <= MaxSeq
    BY <2>1, LogLengthNat, BoundAssumption DEF EventsShape
  <2> QED
    BY <2>1, <2>2, BoundAssumption DEF SeqOf, I32
<1>2. ASSUME NEW i \in EventsOf(r) PROVE Answered(i) <=> AnsweredLater(i)
  <2>1. i.run = r /\ \A e \in Results(i.run, i.payload.call) : e \in EventsOf(r)
    BY DEF Results, EventsOf
  <2> QED
    BY <1>1, <2>1 DEF Answered, AnsweredLater
<1> QED
  BY <1>2 DEF PendingToolCalls, OpenCalls

-----------------------------------------------------------------------------
(* Fields of the rows the transactions build.                                 *)

LEMMA RowFields ==
    ASSUME NEW r, NEW place, NEW type, NEW payload, NEW key, NEW w
    PROVE  \E e : /\ e = EventRow(r, place, type, payload, key, w)
                  /\ e.run = r /\ e.place = place /\ e.type = type
                  /\ e.payload = payload /\ e.key = key /\ e.writer = w
<1>1. PICK e : e = EventRow(r, place, type, payload, key, w)
  OBVIOUS
<1>2. e.run = r /\ e.place = place /\ e.type = type /\ e.key = key /\ e.writer = w
  BY <1>1 DEF EventRow
<1>3. e.payload = payload
  BY <1>1, Zenon DEF EventRow
<1> QED
  BY <1>1, <1>2, <1>3

LEMMA TransitionFields ==
    ASSUME NEW r, NEW place, NEW from, NEW to, NEW w
    PROVE  \E e : /\ e = TransitionRow(r, place, from, to, w)
                  /\ e.run = r /\ e.place = place /\ e.type = "state_transition"
                  /\ e.key = NoKey /\ e.writer = w
                  /\ e.payload.cp = 0 /\ e.payload.from = from /\ e.payload.to = to
<1>1. PICK payload : payload = [NoPayload EXCEPT !.from = from, !.to = to]
  OBVIOUS
<1>2. payload.cp = 0 /\ payload.from = from /\ payload.to = to
  BY <1>1 DEF NoPayload
<1>3. PICK e : /\ e = EventRow(r, place, "state_transition", payload, NoKey, w)
               /\ e.run = r /\ e.place = place /\ e.type = "state_transition"
               /\ e.payload = payload /\ e.key = NoKey /\ e.writer = w
  BY RowFields
<1>4. e = TransitionRow(r, place, from, to, w)
  BY <1>1, <1>3, Zenon DEF TransitionRow
<1>5. e.payload.cp = 0 /\ e.payload.from = from /\ e.payload.to = to
  BY <1>2, <1>3
<1> QED
  BY <1>3, <1>4, <1>5

LEMMA IntentFields ==
    ASSUME NEW l, NEW place, NEW call, NEW count
    PROVE  \E e : /\ e = IntentRow(l, place, call, count)
                  /\ e.run = l.run /\ e.place = place /\ e.type = "tool_call"
                  /\ e.key = CallKey("tool_call", call.id) /\ e.writer = l.epoch
                  /\ e.payload.cp = 0 /\ e.payload.call = call.id
                  /\ e.payload.name = call.name
<1>1. PICK payload, key : /\ payload = [NoPayload EXCEPT !.call = call.id,
                                                   !.name = call.name,
                                                   !.alone = (count = 1)]
                          /\ key = CallKey("tool_call", call.id)
  OBVIOUS
<1>2. payload.cp = 0 /\ payload.call = call.id /\ payload.name = call.name
  BY <1>1 DEF NoPayload
<1>3. PICK e : /\ e = EventRow(l.run, place, "tool_call", payload, key, l.epoch)
               /\ e.run = l.run /\ e.place = place /\ e.type = "tool_call"
               /\ e.payload = payload /\ e.key = key /\ e.writer = l.epoch
  BY RowFields
<1>4. e = IntentRow(l, place, call, count)
  BY <1>1, <1>3, Zenon DEF IntentRow
<1>5. e.payload.cp = 0 /\ e.payload.call = call.id /\ e.payload.name = call.name
  BY <1>2, <1>3
<1> QED
  BY <1>1, <1>3, <1>4, <1>5

LEMMA ResultFields ==
    ASSUME NEW l, NEW place, NEW c, NEW key
    PROVE  \E e : /\ e = ResultRow(l, place, c, key)
                  /\ e.run = l.run /\ e.place = place /\ e.type = "tool_result"
                  /\ e.key = key /\ e.writer = l.epoch
                  /\ e.payload.cp = 0 /\ e.payload.call = c
<1>1. PICK payload : payload = [NoPayload EXCEPT !.call = c]
  OBVIOUS
<1>2. payload.cp = 0 /\ payload.call = c
  BY <1>1 DEF NoPayload
<1>3. PICK e : /\ e = EventRow(l.run, place, "tool_result", payload, key, l.epoch)
               /\ e.run = l.run /\ e.place = place /\ e.type = "tool_result"
               /\ e.payload = payload /\ e.key = key /\ e.writer = l.epoch
  BY RowFields
<1>4. e = ResultRow(l, place, c, key)
  BY <1>1, <1>3, Zenon DEF ResultRow
<1>5. e.payload.cp = 0 /\ e.payload.call = c
  BY <1>2, <1>3
<1> QED
  BY <1>3, <1>4, <1>5

\* A row about a checkpoint: its proposal or its verdict.
LEMMA CheckpointFields ==
    ASSUME NEW id, NEW payload, payload = [NoPayload EXCEPT !.cp = id]
    PROVE  payload.cp = id
  BY DEF NoPayload

-----------------------------------------------------------------------------
(* Each action has its effect.                                                *)

LEMMA GrantRows ==
    ASSUME Shape, NEW r \in Run, NEW o, NEW ttl, NEW status, GrantLease(r, o, ttl, status)
    PROVE  /\ runs'[r].status = status /\ runs'[r].epoch = runs[r].epoch + 1
           /\ \A s \in Run \ {r} : SameRow(s)
<1>1. runs \in [Run -> RunRow]
  BY DEF Shape, RunsShape
<1>2. runs' = [runs EXCEPT ![r].status = status, ![r].owner = o,
                           ![r].epoch = @ + 1, ![r].expires = now + ttl,
                           ![r].released = 0]
  BY DEF GrantLease
<1> QED
  BY <1>1, <1>2 DEF RunRow, SameRow

\* A lease is granted on a run, and its status stays as it is.
LEMMA GrantIsQuiet ==
    ASSUME Shape, NEW r \in Run, NEW o, NEW ttl, GrantLease(r, o, ttl, runs[r].status),
           runs[r].status \in Claimable, UNCHANGED <<events, checkpoints>>
    PROVE  QuietStep
  BY GrantRows DEF QuietStep

LEMMA ClaimRunEffect ==
    ASSUME Shape, NEW r \in Run, NEW o, NEW ttl, NEW recover \in BOOLEAN,
           ClaimRunLease(r, o, ttl, recover)
    PROVE  QuietStep
<1>1. runs[r].status \in Claimable
  BY DEF ClaimRunLease, Shape, RunsShape, RunRow, Status, Terminal, Claimable
<1> QED
  BY <1>1, GrantIsQuiet DEF ClaimRunLease

LEMMA ClaimEffect == ASSUME Shape, Claim PROVE LogEffect
<1>1. PICK o \in Owner, ttl \in Ttl :
        \/ \E r \in Run : AcquireRunLease(r, o, ttl)
        \/ \E r \in Forced : RecoverRunLease(r, o, ttl)
        \/ ClaimNextRecoverableRun(o, ttl)
  BY DEF Claim
<1>2. ASSUME ClaimNextRecoverableRun(o, ttl) PROVE LogEffect
  <2>1. PICK r \in Run :
          /\ Recoverable(r)
          /\ GrantLease(r, o, ttl, "running")
          /\ IF runs[r].status = "pending"
             THEN InsertEvents({TransitionRow(r, NextSeq(r), "pending", "running",
                                              runs[r].epoch + 1)})
             ELSE UNCHANGED events
          /\ UNCHANGED checkpoints
    BY <1>2 DEF ClaimNextRecoverableRun
  <2>2. runs[r].status \in Claimable
    BY <2>1 DEF Recoverable
  <2>3. CASE runs[r].status = "pending"
    <3>1. PICK e : /\ e = TransitionRow(r, NextSeq(r), "pending", "running",
                                        runs[r].epoch + 1)
                   /\ e.run = r /\ e.place = NextSeq(r) /\ e.type = "state_transition"
                   /\ e.key = NoKey /\ e.writer = runs[r].epoch + 1
                   /\ e.payload.cp = 0 /\ e.payload.from = "pending"
                   /\ e.payload.to = "running"
      BY TransitionFields
    <3>2. InsertEvents({e})
      BY <2>1, <2>3, <3>1
    <3>3. /\ runs'[r].status = "running" /\ runs'[r].epoch = runs[r].epoch + 1
          /\ \A s \in Run \ {r} : SameRow(s)
      BY <2>1, GrantRows
    <3>a. NextSeq(r) = LogLength(r)
      BY <3>1, <3>2, Numbered DEF Shape
    <3>4. TransitionStep(r, e)
      BY <2>1, <2>3, <3>1, <3>2, <3>3, <3>a DEF TransitionStep
    <3> QED
      BY <3>4 DEF LogEffect
  <2>4. CASE runs[r].status # "pending"
    BY <2>1, <2>2, <2>4, GrantIsQuiet DEF LogEffect, Claimable
  <2> QED
    BY <2>3, <2>4
<1> QED
  BY <1>1, <1>2, ClaimRunEffect, ForcedAssumption DEF AcquireRunLease, RecoverRunLease, LogEffect

\* The row of a lease its holder may present.
LEMMA HeldRow ==
    ASSUME Shape, TerminalOwnerless, NEW l \in leases, runs[l.run].owner = l.owner
    PROVE  /\ l.run \in Run /\ l.epoch \in 1 .. MaxEpoch
           /\ runs[l.run] \in RunRow /\ runs[l.run].status \notin Terminal
           /\ runs[l.run].status \in Status
           /\ runs \in [Run -> RunRow]
  BY LeasedRun, LeasedNotTerminal DEF Shape, RunsShape

LEMMA MarkEffect ==
    ASSUME Shape, TerminalOwnerless, NEW l \in leases, UpdateRunStatus(l, "running")
    PROVE  \E e : TransitionStep(l.run, e) /\ runs'[l.run].status = "running"
<1>0. runs[l.run].owner = l.owner /\ runs[l.run].epoch = l.epoch /\ UNCHANGED checkpoints
  BY DEF UpdateRunStatus, ValidRunLease
<1> USE <1>0, HeldRow
<1>1. PICK e : /\ e = TransitionRow(l.run, NextSeq(l.run), runs[l.run].status,
                                    "running", l.epoch)
               /\ e.run = l.run /\ e.place = NextSeq(l.run) /\ e.type = "state_transition"
               /\ e.key = NoKey /\ e.writer = l.epoch /\ e.payload.cp = 0
               /\ e.payload.from = runs[l.run].status /\ e.payload.to = "running"
  BY TransitionFields
<1>2. InsertEvents({e})
  BY <1>1 DEF UpdateRunStatus
<1>3. runs' = [runs EXCEPT ![l.run].status = "running"]
  BY DEF UpdateRunStatus
<1>4. /\ runs'[l.run].status = "running" /\ runs'[l.run].epoch = l.epoch
      /\ \A s \in Run \ {l.run} : SameRow(s)
  BY <1>3 DEF SameRow, RunRow
<1>5. runs[l.run].status = "pending"
  BY DEF UpdateRunStatus, Status, Terminal
<1>6. l.epoch > 0
  BY BoundAssumption
<1>a. NextSeq(l.run) = LogLength(l.run)
  BY <1>1, <1>2, Numbered DEF Shape
<1>7. TransitionStep(l.run, e)
  BY <1>1, <1>2, <1>4, <1>5, <1>6, <1>a DEF TransitionStep
<1> QED
  BY <1>4, <1>7

LEMMA CompleteEffect ==
    ASSUME Shape, TerminalOwnerless, NEW l \in leases, CompleteRun(l)
    PROVE  \E e : TransitionStep(l.run, e) /\ runs'[l.run].status = "completed"
<1>0. runs[l.run].owner = l.owner /\ runs[l.run].epoch = l.epoch /\ UNCHANGED checkpoints
  BY DEF CompleteRun, ValidWritableRunLease, ValidRunLease
<1> USE <1>0, HeldRow
<1>1. PICK e : /\ e = TransitionRow(l.run, NextSeq(l.run), "running",
                                    "completed", l.epoch)
               /\ e.run = l.run /\ e.place = NextSeq(l.run) /\ e.type = "state_transition"
               /\ e.key = NoKey /\ e.writer = l.epoch /\ e.payload.cp = 0
               /\ e.payload.from = "running" /\ e.payload.to = "completed"
  BY TransitionFields
<1>2. InsertEvents({e}) /\ runs[l.run].status = "running"
  BY <1>1 DEF CompleteRun, ValidWritableRunLease
<1>3. runs' = [runs EXCEPT ![l.run].status = "completed",
                           ![l.run].owner = NoOwner, ![l.run].expires = 0,
                           ![l.run].released = l.epoch]
  BY DEF CompleteRun
<1>4. /\ runs'[l.run].status = "completed" /\ runs'[l.run].epoch = l.epoch
      /\ \A s \in Run \ {l.run} : SameRow(s)
  BY <1>3 DEF SameRow, RunRow
<1>a. NextSeq(l.run) = LogLength(l.run)
  BY <1>1, <1>2, Numbered DEF Shape
<1>5. TransitionStep(l.run, e)
  BY <1>1, <1>2, <1>4, <1>a DEF TransitionStep
<1> QED
  BY <1>4, <1>5

LEMMA ReleaseEffect ==
    ASSUME Shape, TerminalOwnerless, NEW l \in leases, ReleaseRunLease(l)
    PROVE  QuietStep
<1>1. runs' = [runs EXCEPT ![l.run].owner = NoOwner, ![l.run].expires = 0,
                           ![l.run].released = l.epoch]
  BY DEF ReleaseRunLease
<1>2. \A s \in Run : SameRow(s)
  BY <1>1, HeldRow DEF ReleaseRunLease, SameRow, RunRow
<1> QED
  BY <1>2 DEF ReleaseRunLease, QuietStep

LEMMA HoldEffect ==
    ASSUME Shape, TerminalOwnerless, NEW l \in leases, HoldLease(l)
    PROVE  LogEffect
<1>1. runs[l.run].owner = l.owner
  BY DEF HoldLease, RenewRunLease, ReleaseRunLease, UpdateRunStatus, CompleteRun,
         ValidWritableRunLease, ValidRunLease
<1>2. ASSUME NEW ttl \in Ttl, RenewRunLease(l, ttl) PROVE QuietStep
  <2>1. runs' = [runs EXCEPT ![l.run].expires = now + ttl]
    BY <1>2 DEF RenewRunLease
  <2>2. \A s \in Run : SameRow(s)
    BY <1>1, <2>1, HeldRow DEF SameRow, RunRow
  <2> QED
    BY <1>2, <2>2 DEF RenewRunLease, QuietStep
<1> QED
  BY <1>1, <1>2, HeldRow, MarkEffect, CompleteEffect, ReleaseEffect DEF HoldLease, LogEffect

\* What every write to the log has in common.
LEMMA WorkIs ==
    ASSUME Shape, NEW l \in leases, ValidWritableRunLease(l), UNCHANGED runs,
           NEW rows, InsertEvents(rows),
           \A e \in rows : /\ e.run = l.run /\ e.place >= LogLength(l.run)
                           /\ e.type # "state_transition" /\ e.writer = l.epoch
    PROVE  WorkStep(l.run, rows)
  BY DEF WorkStep, SameRow, ValidWritableRunLease, ValidRunLease

LEMMA ReplyEffect ==
    ASSUME Shape, NEW l \in leases, NEW response \in Response, AppendLlmCall(l, response)
    PROVE  \E rows : ReplyStep(l.run, rows)
<1>1. PICK seq, n : seq = NextSeq(l.run) /\ n = Len(response)
  OBVIOUS
<1>2. ValidWritableRunLease(l) /\ UNCHANGED <<runs, checkpoints>> /\ seq \in Nat
  BY <1>1, WritableRun DEF AppendLlmCall
<1>3. n \in Nat /\ \A i \in 1 .. n : response[i] \in ToolCall
  BY <1>1, ResponseAssumption
<1>4. PICK llm : /\ llm = EventRow(l.run, seq, "llm_call", NoPayload, NoKey, l.epoch)
                 /\ llm.run = l.run /\ llm.place = seq /\ llm.type = "llm_call"
                 /\ llm.payload = NoPayload /\ llm.key = NoKey /\ llm.writer = l.epoch
  BY RowFields
<1>5. llm.payload.cp = 0
  <2>1. NoPayload.cp = 0
    BY DEF NoPayload
  <2> QED
    BY <1>4, <2>1, Zenon
<1> DEFINE intents == {IntentRow(l, seq + i, response[i], n) : i \in 1 .. n}
<1>6. ASSUME NEW e \in intents
      PROVE  /\ e.run = l.run /\ e.place \in Nat /\ e.place > seq /\ e.type = "tool_call"
             /\ e.writer = l.epoch /\ e.payload.cp = 0
             /\ e.key = CallKey("tool_call", e.payload.call)
             /\ e.payload.call \in CallId
             /\ e.payload.name \in {"tool", "submit_checkpoint"}
  <2>1. PICK i \in 1 .. n : e = IntentRow(l, seq + i, response[i], n)
    OBVIOUS
  <2>2. /\ e.run = l.run /\ e.place = seq + i /\ e.type = "tool_call"
        /\ e.key = CallKey("tool_call", response[i].id) /\ e.writer = l.epoch
        /\ e.payload.cp = 0 /\ e.payload.call = response[i].id
        /\ e.payload.name = response[i].name
    BY <2>1, IntentFields
  <2>3. response[i] \in ToolCall
    BY <1>3
  <2>4. response[i].id \in CallId /\ response[i].name \in {"tool", "submit_checkpoint"}
    BY <2>3 DEF ToolCall
  <2>5. seq + i \in Nat /\ seq + i > seq
    BY <1>2, <1>3
  <2> QED
    BY <2>2, <2>4, <2>5
<1>7. PICK rows : rows = {llm} \cup intents
  OBVIOUS
<1>8. InsertEvents(rows)
  BY <1>1, <1>4, <1>7 DEF AppendLlmCall
<1> HIDE DEF intents
<1>a. seq = LogLength(l.run)
  BY <1>1, <1>2, <1>4, <1>7, <1>8, WritableRun, Numbered DEF Shape
<1>9. \A e \in rows : /\ e.run = l.run /\ e.place >= LogLength(l.run)
                      /\ e.type # "state_transition" /\ e.writer = l.epoch
  <2>1. llm.place >= LogLength(l.run)
    BY <1>a, <1>2, <1>4
  <2>2. \A e \in intents : e.place >= LogLength(l.run)
    BY <1>a, <1>2, <1>6
  <2> QED
    BY <1>4, <1>6, <1>7, <2>1, <2>2
<1>10. WorkStep(l.run, rows)
  BY <1>2, <1>8, <1>9, WorkIs
<1>11. \A e \in intents : e.place # seq
  BY <1>2, <1>6
<1>12. ReplyStep(l.run, rows)
  <2>1. \E e \in rows : e.place = LogLength(l.run)
    BY <1>a, <1>4, <1>7
  <2>2. ASSUME NEW e \in rows PROVE
          /\ e.payload.cp = 0
          /\ e.type = IF e.place = LogLength(l.run) THEN "llm_call" ELSE "tool_call"
          /\ e.type = "tool_call" =>
              /\ e.key = CallKey("tool_call", e.payload.call)
              /\ e.payload.call \in CallId
              /\ e.payload.name \in {"tool", "submit_checkpoint"}
    <3>1. CASE e = llm
      BY <3>1, <1>a, <1>4, <1>5
    <3>2. CASE e \in intents
      BY <3>2, <1>a, <1>6, <1>11
    <3> QED
      BY <1>7, <3>1, <3>2
  <2> QED
    BY <1>2, <1>10, <2>1, <2>2 DEF ReplyStep
<1> QED
  BY <1>12

LEMMA AnswerEffect ==
    ASSUME Shape, NEW l \in leases, NEW c \in CallId, RecordToolResult(l, c)
    PROVE  \E e : AnswerStep(l.run, e) /\ e.payload.call = c
<1>1. PICK e : /\ e = ResultRow(l, NextSeq(l.run), c, CallKey("tool_result", c))
               /\ e.run = l.run /\ e.place = NextSeq(l.run) /\ e.type = "tool_result"
               /\ e.writer = l.epoch /\ e.payload.cp = 0 /\ e.payload.call = c
  BY ResultFields
<1>2. InsertEvents({e})
  BY <1>1 DEF RecordToolResult
<1>3. ValidWritableRunLease(l) /\ UNCHANGED <<runs, checkpoints>> /\ NextSeq(l.run) \in Nat
  BY WritableRun DEF RecordToolResult
<1>a. NextSeq(l.run) = LogLength(l.run)
  BY <1>1, <1>2, <1>3, WritableRun, Numbered DEF Shape
<1>4. WorkStep(l.run, {e})
  BY <1>1, <1>2, <1>3, <1>a, WorkIs
<1>5. /\ Results(l.run, e.payload.call) = {}
      /\ \E i \in EventsOf(l.run) : /\ i.type = "tool_call"
                                    /\ i.payload.call = e.payload.call
                                    /\ i.payload.name # "submit_checkpoint"
  BY <1>1 DEF RecordToolResult
<1> QED
  BY <1>1, <1>3, <1>4, <1>5, <1>a DEF AnswerStep

LEMMA RawEffect ==
    ASSUME Shape, NEW l \in leases, NEW raw \in RawEvent, AppendEvent(l, raw)
    PROVE  \E e : RawStep(l.run, e)
<1>1. PICK payload : payload = [NoPayload EXCEPT !.call = raw.call]
  OBVIOUS
<1>2. payload.cp = 0 /\ payload.call = raw.call
  BY <1>1 DEF NoPayload
<1>3. PICK e : /\ e = EventRow(l.run, NextSeq(l.run), raw.type, payload, NoKey, l.epoch)
               /\ e.run = l.run /\ e.place = NextSeq(l.run) /\ e.type = raw.type
               /\ e.payload = payload /\ e.key = NoKey /\ e.writer = l.epoch
  BY RowFields
<1>4. InsertEvents({e})
  BY <1>1, <1>3 DEF AppendEvent
<1>5. /\ raw.type \in {"llm_call", "tool_result"}
      /\ raw.type = "tool_result" => raw.call \in RawCalls
  BY RawAssumption DEF RawCalls
<1>6. ValidWritableRunLease(l) /\ UNCHANGED <<runs, checkpoints>> /\ NextSeq(l.run) \in Nat
  BY WritableRun DEF AppendEvent
<1>7. e.payload.cp = 0 /\ e.payload.call = raw.call
  BY <1>2, <1>3
<1>a. NextSeq(l.run) = LogLength(l.run)
  BY <1>3, <1>4, <1>6, WritableRun, Numbered DEF Shape
<1>8. WorkStep(l.run, {e})
  BY <1>3, <1>4, <1>5, <1>6, <1>a, WorkIs
<1> QED
  BY <1>3, <1>5, <1>6, <1>7, <1>8, <1>a DEF RawStep

LEMMA ProposalEffect ==
    ASSUME Shape, NEW l \in leases, NEW c \in CallId, ProposeCheckpoint(l, c)
    PROVE  \E e, k : ProposalStep(l.run, e, k)
<1>1. PICK id, round, seq : id = NextCheckpointId /\ round = NextRound(l.run)
                            /\ seq = NextSeq(l.run)
  OBVIOUS
<1>0. PICK k : k = [id |-> id, run |-> l.run, round |-> round, call |-> c,
                    based_on |-> seq - 1, decision |-> NoSeq, status |-> "candidate"]
  OBVIOUS
<1>2. /\ k.id = id /\ k.run = l.run /\ k.round = round /\ k.call = c
      /\ k.based_on = seq - 1 /\ k.decision = NoSeq /\ k.status = "candidate"
  BY <1>0
<1>3. /\ checkpoints' = checkpoints \cup {k}
      /\ \A d \in CheckpointsOf(k.run) : d.round # k.round /\ d.call # k.call
  <2>1. InsertCheckpoint(k)
    BY <1>1, <1>0, Zenon DEF ProposeCheckpoint
  <2> QED
    BY <2>1 DEF InsertCheckpoint
<1>4. PICK payload : payload = [NoPayload EXCEPT !.cp = id]
  OBVIOUS
<1>5. PICK e : /\ e = EventRow(l.run, seq, "checkpoint_proposed", payload,
                               CheckpointKey("proposed", id), l.epoch)
               /\ e.run = l.run /\ e.place = seq /\ e.type = "checkpoint_proposed"
               /\ e.payload = payload /\ e.writer = l.epoch
  BY RowFields
<1>6. e.payload.cp = id
  BY <1>4, <1>5, CheckpointFields
<1>7. InsertEvents({e})
  BY <1>1, <1>4, <1>5 DEF ProposeCheckpoint
<1>8. ValidWritableRunLease(l) /\ UNCHANGED runs /\ NextSeq(l.run) \in Nat
  BY WritableRun DEF ProposeCheckpoint
<1>a. seq = LogLength(l.run) /\ LogLength(l.run) \in 0 .. MaxSeq /\ l.run \in Run
  BY <1>1, <1>5, <1>7, <1>8, WritableRun, Numbered DEF Shape
<1>9. WorkStep(l.run, {e})
  BY <1>5, <1>7, <1>8, <1>a, WorkIs
<1>10. /\ Candidates(l.run) = {}
      /\ \E i \in OpenCalls(l.run) : /\ i.payload.call = k.call
                                     /\ i.payload.name = "submit_checkpoint"
                                     /\ i.payload.alone
  <2>1. PendingToolCalls(l.run) = OpenCalls(l.run)
    BY <1>a, PendingAreOpen, BoundAssumption DEF Shape
  <2> QED
    BY <1>2, <2>1 DEF ProposeCheckpoint
<1>11. ProposalStep(l.run, e, k)
  BY <1>1, <1>2, <1>3, <1>5, <1>6, <1>9, <1>10, <1>a DEF ProposalStep
<1> QED
  BY <1>11

LEMMA VerdictEffect ==
    ASSUME Shape, NEW l \in leases, NEW id, NEW accepted \in BOOLEAN,
           DecideCheckpoint(l, id, accepted)
    PROVE  \E v, e, k, d : VerdictStep(l.run, v, e, k, d) /\ d.status = Verdict(accepted)
<1>1. PICK seq, status : seq = NextSeq(l.run) /\ status = Verdict(accepted)
  OBVIOUS
<1>2. PICK k \in Candidates(l.run) :
        /\ k.id = id
        /\ checkpoints' = (checkpoints \ {k}) \cup
               {[k EXCEPT !.status = status, !.decision = seq]}
        /\ InsertEvents({EventRow(l.run, seq, VerdictType(accepted),
                                  [NoPayload EXCEPT !.cp = id],
                                  CheckpointKey(status, id), l.epoch),
                         ResultRow(l, seq + 1, k.call,
                                   CheckpointKey("tool_result", id))})
  BY <1>1 DEF DecideCheckpoint
<1>3. k \in Checkpoint
  BY DEF Candidates, CheckpointsOf, Shape, CheckpointsShape
<1>0. PICK d : d = [k EXCEPT !.status = status, !.decision = seq]
  OBVIOUS
<1>4. /\ d.id = k.id /\ d.run = k.run /\ d.round = k.round /\ d.call = k.call
      /\ d.based_on = k.based_on /\ d.decision = seq /\ d.status = status
  BY <1>3, <1>0 DEF Checkpoint
<1>5. checkpoints' = (checkpoints \ {k}) \cup {d}
  BY <1>2, <1>0
<1>6. PICK payload : payload = [NoPayload EXCEPT !.cp = id]
  OBVIOUS
<1>7. PICK v : /\ v = EventRow(l.run, seq, VerdictType(accepted), payload,
                               CheckpointKey(status, id), l.epoch)
               /\ v.run = l.run /\ v.place = seq /\ v.type = VerdictType(accepted)
               /\ v.payload = payload /\ v.writer = l.epoch
  BY RowFields
<1>8. v.payload.cp = id
  BY <1>6, <1>7, CheckpointFields
<1>9. PICK e : /\ e = ResultRow(l, seq + 1, k.call, CheckpointKey("tool_result", id))
               /\ e.run = l.run /\ e.place = seq + 1 /\ e.type = "tool_result"
               /\ e.writer = l.epoch /\ e.payload.cp = 0 /\ e.payload.call = k.call
  BY ResultFields
<1>10. InsertEvents({v, e})
  BY <1>2, <1>6, <1>7, <1>9
<1>11. ValidWritableRunLease(l) /\ UNCHANGED runs /\ NextSeq(l.run) \in Nat
  BY WritableRun DEF DecideCheckpoint
<1>12. /\ status \in {"accepted", "rejected"}
       /\ VerdictType(accepted) = VerdictType(status = "accepted")
       /\ VerdictType(accepted) # "state_transition"
  BY <1>1 DEF Verdict, VerdictType
<1>a. seq = LogLength(l.run)
  BY <1>1, <1>7, <1>10, <1>11, WritableRun, Numbered DEF Shape
<1>13. v.place >= LogLength(l.run) /\ e.place >= LogLength(l.run)
  BY <1>1, <1>7, <1>9, <1>11, <1>a
<1>14. WorkStep(l.run, {v, e})
  BY <1>7, <1>9, <1>10, <1>11, <1>12, <1>13, WorkIs
<1>15. VerdictStep(l.run, v, e, k, d)
  BY <1>a, <1>1, <1>2, <1>4, <1>5, <1>7, <1>8, <1>9, <1>12, <1>14 DEF VerdictStep
<1> QED
  BY <1>1, <1>4, <1>15

LEMMA CreateEffect == ASSUME Shape, NEW r \in Run, CreateRun(r) PROVE QuietStep
<1>1. runs[r] = AbsentRun
  BY DEF CreateRun, Shape, RunsShape, AbsentBlank
<1>2. /\ runs'[r].status = "pending" /\ runs'[r].epoch = runs[r].epoch
      /\ \A s \in Run \ {r} : SameRow(s)
  BY <1>1 DEF CreateRun, Shape, RunsShape, AbsentRun, SameRow
<1> QED
  BY <1>2 DEF CreateRun, QuietStep

\* Every step of the specification is one of the effects.
LEMMA StepEffect == ASSUME Shape, TerminalOwnerless, [Next]_vars PROVE LogEffect
<1>1. ASSUME UNCHANGED <<runs, events, checkpoints>> PROVE QuietStep
  BY <1>1 DEF QuietStep, SameRow
<1>2. ASSUME NEW l \in leases, WriteLog(l) PROVE LogEffect
  <2>1. l.run \in Run
    BY DEF Shape, TokensShape, Lease
  <2> QED
    BY <1>2, <2>1, ReplyEffect, AnswerEffect, RawEffect, ProposalEffect, VerdictEffect
    DEF WriteLog, LogEffect
<1> QED
  BY <1>1, <1>2, CreateEffect, ClaimEffect, HoldEffect DEF Next, Tick, vars, LogEffect

-----------------------------------------------------------------------------
(* The log grows at its end.                                                  *)

Grows(r, rows) ==
    /\ InsertEvents(rows)
    /\ \A e \in rows : e.run = r /\ e.place >= LogLength(r)

LEMMA TransitionGrows ==
    ASSUME Shape, NEW r \in Run, NEW e, TransitionStep(r, e)
    PROVE  Grows(r, {e})
<1>1. LogLength(r) \in Nat
  BY LogLengthNat DEF Shape, EventsShape
<1> QED
  BY <1>1 DEF TransitionStep, Grows

LEMMA WorkGrows == ASSUME NEW r, NEW rows, WorkStep(r, rows) PROVE Grows(r, rows)
  BY DEF WorkStep, Grows

\* The effects by what they do to agent_runs.
LEMMA EffectKinds ==
    ASSUME LogEffect
    PROVE  \/ QuietStep
           \/ \E r \in Run : \E e : TransitionStep(r, e)
           \/ \E r \in Run : \E rows : WorkStep(r, rows)
<1>1. ASSUME NEW r \in Run, NEW e, AnswerStep(r, e) \/ RawStep(r, e)
      PROVE  WorkStep(r, {e})
  BY <1>1 DEF AnswerStep, RawStep
<1>2. ASSUME NEW r \in Run, NEW rows, ReplyStep(r, rows) PROVE WorkStep(r, rows)
  BY <1>2 DEF ReplyStep
<1>3. ASSUME NEW r \in Run, NEW e, NEW k, ProposalStep(r, e, k) PROVE WorkStep(r, {e})
  BY <1>3 DEF ProposalStep
<1>4. ASSUME NEW r \in Run, NEW v, NEW e, NEW k, NEW d, VerdictStep(r, v, e, k, d)
      PROVE  WorkStep(r, {v, e})
  BY <1>4 DEF VerdictStep
<1> QED
  BY <1>1, <1>2, <1>3, <1>4 DEF LogEffect

LEMMA GrownLog ==
    ASSUME Shape, Shape', NEW r \in Run, NEW rows, Grows(r, rows)
    PROVE  /\ events' = events \cup rows
           /\ \A e \in rows : e.run = r /\ e.place \in Nat /\ e.place >= LogLength(r)
           /\ \A e \in rows, f \in events : f.run = r => f.place < e.place
           /\ \A e \in events : e.run \in Run /\ e.place \in Nat
<1>1. events' = events \cup rows
  BY DEF Grows, InsertEvents
<1>2. \A e \in rows : e.run = r /\ e.place \in Nat /\ e.place >= LogLength(r)
  BY <1>1 DEF Grows, Shape, EventsShape, Event
<1>3. \A e \in rows, f \in events : f.run = r => f.place < e.place
  BY <1>2, LoggedBefore
<1> QED
  BY <1>1, <1>2, <1>3, LoggedBefore

-----------------------------------------------------------------------------
(* The status column and the transitions in the log.  StatusBefore asks for   *)
(* the last transition before a place in the log, and every place is before   *)
(* its end, so the status the whole log leads to needs no place.              *)

Last(S) == CHOOSE t \in S : \A u \in S : u.place <= t.place
LastStatus(S) == IF S = {} THEN "pending" ELSE Last(S).payload.to
Earlier(r, place) == {t \in Transitions(r) : t.place < place}

StatusReplayed == \A r \in Run :
    /\ \A t \in Transitions(r) : t.payload.from = LastStatus(Earlier(r, t.place))
    /\ IF runs[r].status = "absent"
       THEN EventsOf(r) = {}
       ELSE runs[r].status = LastStatus(Transitions(r))

LEMMA LastIs ==
    ASSUME NEW S, NEW e \in S, e.place \in Int,
           \A u \in S \ {e} : u.place \in Int /\ u.place < e.place
    PROVE  LastStatus(S) = e.payload.to
<1>1. \A u \in S : u.place <= e.place
  OBVIOUS
<1>2. \A t \in S : (\A u \in S : u.place <= t.place) => t = e
  OBVIOUS
<1>3. Last(S) = e
  BY <1>1, <1>2 DEF Last
<1> QED
  BY <1>3 DEF LastStatus

LEMMA StatusIsReplayed ==
    ASSUME Shape, StatusReplayed
    PROVE  StatusMatchesLog
<1> SUFFICES ASSUME NEW r \in Run
             PROVE  /\ \A t \in Transitions(r) : t.payload.from = StatusBefore(r, t.place)
                    /\ IF runs[r].status = "absent"
                       THEN EventsOf(r) = {}
                       ELSE runs[r].status = StatusBefore(r, LogLength(r))
  BY DEF StatusMatchesLog
<1>1. \A place : StatusBefore(r, place) = LastStatus(Earlier(r, place))
  BY Zenon DEF StatusBefore, LastStatus, Last, Earlier
<1>2. Earlier(r, LogLength(r)) = Transitions(r)
  BY LoggedBefore DEF Earlier, Transitions, EventsOf
<1> QED
  BY <1>1, <1>2 DEF StatusReplayed

\* A step without a transition leaves every replay as it was.
LEMMA SameTransitions ==
    ASSUME NEW r, NEW rows, events' = events \cup rows,
           \A e \in rows : e.run = r => e.type # "state_transition"
    PROVE  /\ Transitions(r)' = Transitions(r)
           /\ \A place : Earlier(r, place)' = Earlier(r, place)
<1>1. Transitions(r)' = Transitions(r)
  BY DEF Transitions, EventsOf
<1> QED
  BY <1>1 DEF Earlier

LEMMA StatusStep ==
    ASSUME Shape, Shape', StatusReplayed, LogEffect
    PROVE  StatusReplayed'
<1> SUFFICES ASSUME NEW s \in Run
             PROVE  /\ \A t \in Transitions(s)' : t.payload.from = LastStatus(Earlier(s, t.place)')
                    /\ IF runs'[s].status = "absent"
                       THEN EventsOf(s)' = {}
                       ELSE runs'[s].status = LastStatus(Transitions(s)')
  BY DEF StatusReplayed
<1>1. /\ \A t \in Transitions(s) : t.payload.from = LastStatus(Earlier(s, t.place))
      /\ IF runs[s].status = "absent"
         THEN EventsOf(s) = {}
         ELSE runs[s].status = LastStatus(Transitions(s))
  BY DEF StatusReplayed
<1>2. CASE QuietStep
  <2>1. /\ EventsOf(s)' = EventsOf(s) /\ Transitions(s)' = Transitions(s)
        /\ \A place : Earlier(s, place)' = Earlier(s, place)
    BY <1>2 DEF QuietStep, EventsOf, Transitions, Earlier
  <2>2. \/ runs'[s].status = runs[s].status
        \/ runs[s].status = "absent" /\ runs'[s].status = "pending"
    BY <1>2 DEF QuietStep, SameRow
  <2>3. EventsOf(s) = {} => LastStatus(Transitions(s)) = "pending"
    BY DEF Transitions, LastStatus
  <2> QED
    BY <1>1, <2>1, <2>2, <2>3
<1>3. ASSUME NEW r \in Run, NEW rows, WorkStep(r, rows)
      PROVE  /\ \A t \in Transitions(s)' : t.payload.from = LastStatus(Earlier(s, t.place)')
             /\ IF runs'[s].status = "absent"
                THEN EventsOf(s)' = {}
                ELSE runs'[s].status = LastStatus(Transitions(s)')
  <2>1. /\ Transitions(s)' = Transitions(s)
        /\ \A place : Earlier(s, place)' = Earlier(s, place)
    BY <1>3, SameTransitions DEF WorkStep, InsertEvents
  <2>2. runs'[s].status = runs[s].status /\ runs[r].status = "running"
    BY <1>3 DEF WorkStep, SameRow
  <2>3. s # r => EventsOf(s)' = EventsOf(s)
    BY <1>3 DEF WorkStep, InsertEvents, EventsOf
  <2> QED
    BY <1>1, <2>1, <2>2, <2>3
<1>4. ASSUME NEW r \in Run, NEW e, TransitionStep(r, e)
      PROVE  /\ \A t \in Transitions(s)' : t.payload.from = LastStatus(Earlier(s, t.place)')
             /\ IF runs'[s].status = "absent"
                THEN EventsOf(s)' = {}
                ELSE runs'[s].status = LastStatus(Transitions(s)')
  <2>1. /\ events' = events \cup {e} /\ e.run = r /\ e.place \in Nat
        /\ \A f \in events : f.run \in Run /\ f.place \in Nat
        /\ \A f \in events : f.run = r => f.place < e.place
    BY <1>4, TransitionGrows, GrownLog
  <2>2. CASE s # r
    <3>1. /\ EventsOf(s)' = EventsOf(s) /\ Transitions(s)' = Transitions(s)
          /\ \A place : Earlier(s, place)' = Earlier(s, place)
      BY <2>1, <2>2 DEF EventsOf, Transitions, Earlier
    <3>2. runs'[s].status = runs[s].status
      BY <1>4, <2>2 DEF TransitionStep, SameRow
    <3> QED
      BY <1>1, <3>1, <3>2
  <2>3. CASE s = r
    <3>1. /\ e.type = "state_transition" /\ e.payload.from = runs[s].status
          /\ e.payload.to = runs'[s].status
          /\ runs[s].status # "absent" /\ runs'[s].status # "absent"
      BY <1>4, <2>3 DEF TransitionStep
    <3>2. /\ Transitions(s)' = Transitions(s) \cup {e}
          /\ \A f \in Transitions(s) : f.place \in Nat /\ f.place < e.place
      BY <2>1, <2>3, <3>1 DEF EventsOf, Transitions
    <3>3. \A t \in Transitions(s) : Earlier(s, t.place)' = Earlier(s, t.place)
      BY <2>1, <3>2 DEF Earlier
    <3>4. Earlier(s, e.place)' = Transitions(s)
      BY <2>1, <3>2 DEF Earlier
    <3>5. e.payload.from = LastStatus(Earlier(s, e.place)')
      BY <1>1, <3>1, <3>4
    <3>6. LastStatus(Transitions(s)') = e.payload.to
      <4>1. e \in Transitions(s)' /\ e.place \in Int
        BY <2>1, <3>2
      <4>2. \A u \in Transitions(s)' \ {e} : u.place \in Int /\ u.place < e.place
        BY <3>2
      <4> QED
        BY <4>1, <4>2, LastIs
    <3>7. \A t \in Transitions(s)' : t.payload.from = LastStatus(Earlier(s, t.place)')
      BY <1>1, <3>2, <3>3, <3>5
    <3> QED
      BY <3>1, <3>6, <3>7
  <2> QED
    BY <2>2, <2>3
<1> QED
  BY <1>2, <1>3, <1>4, EffectKinds

-----------------------------------------------------------------------------
(* How rows refer to each other.  The unique index on idempotency keys makes  *)
(* an intent the only one of its call, and the tables name each other's rows  *)
(* as the transactions wrote them.                                            *)

KeysUnique == \A e, f \in events :
    e.run = f.run /\ e.key = f.key /\ e.key # NoKey => e = f

IntentsKeyed == \A i \in events : i.type = "tool_call" =>
    /\ i.key = CallKey("tool_call", i.payload.call)
    /\ i.payload.call \in CallId
    /\ i.payload.name \in {"tool", "submit_checkpoint"}

CheckpointsUnique == \A c, d \in checkpoints :
    c.id = d.id \/ (c.run = d.run /\ c.call = d.call) => c = d

\* A checkpoint answers a request that was alone in its response.
Request(i, c) == /\ i.run = c.run /\ i.type = "tool_call"
                 /\ i.payload.call = c.call /\ i.payload.name = "submit_checkpoint"
                 /\ i.payload.alone

Requested == \A c \in checkpoints : \E i \in events : Request(i, c)

Verdicts == {"checkpoint_accepted", "checkpoint_rejected"}

\* The record of a checkpoint: where its proposal and its verdict are.
RecordOf(e, c) == /\ c.run = e.run /\ c.id = e.payload.cp
                  /\ e.type = "checkpoint_proposed" => e.place = c.based_on + 1
                  /\ e.type \in Verdicts => e.place = c.decision

CheckpointRecords == \A e \in events :
    IF e.type \in Verdicts \cup {"checkpoint_proposed"}
    THEN \E c \in checkpoints : RecordOf(e, c)
    ELSE e.payload.cp = 0

Undecided == \A c \in checkpoints : c.status = "candidate" => c.decision = NoSeq

Linked == /\ KeysUnique /\ IntentsKeyed /\ CheckpointsUnique
          /\ Requested /\ CheckpointRecords /\ Undecided

LEMMA IntentUnique ==
    ASSUME KeysUnique, IntentsKeyed, NEW i \in events, NEW j \in events,
           i.type = "tool_call", j.type = "tool_call",
           i.run = j.run, i.payload.call = j.payload.call
    PROVE  i = j
<1>1. CallKey("tool_call", i.payload.call) # NoKey
  BY DEF CallKey, NoKey
<1>2. i.key = j.key /\ i.key # NoKey
  BY <1>1 DEF IntentsKeyed
<1> QED
  BY <1>2 DEF KeysUnique

LEMMA NewCheckpoint ==
    ASSUME Shape, NEW r \in Run, NEW e, NEW k, ProposalStep(r, e, k)
    PROVE  /\ k.id \in Nat
           /\ \A c \in checkpoints : c.id \in Nat /\ c.id < k.id
           /\ \A c \in CheckpointsOf(r) : /\ c.round \in Nat /\ k.round \in Nat
                                          /\ c.round < k.round
<1>1. PICK n \in Nat : Ids = 1 .. n
  BY DEF Shape, CheckpointsShape, IdsInitial
<1>2. PICK m \in Nat : Rounds(r) = 1 .. m
  BY DEF Shape, CheckpointsShape, RoundsInitial
<1>3. k.id = n + 1 /\ k.round = m + 1
  BY <1>1, <1>2, NextCheckpointIdIs, NextRoundIs DEF ProposalStep
<1>4. \A c \in checkpoints : c.id \in 1 .. n
  BY <1>1 DEF Ids
<1>5. \A c \in CheckpointsOf(r) : c.round \in 1 .. m
  BY <1>2 DEF Rounds
<1> QED
  BY <1>1, <1>2, <1>3, <1>4, <1>5

LEMMA LinkedInserts ==
    ASSUME KeysUnique, IntentsKeyed, LogEffect
    PROVE  KeysUnique' /\ IntentsKeyed'
<1>1. CASE UNCHANGED events
  BY <1>1 DEF KeysUnique, IntentsKeyed
<1>2. ASSUME NEW rows, InsertEvents(rows)
      PROVE  KeysUnique'
  BY <1>2 DEF KeysUnique, InsertEvents, Conflict
<1>3. ASSUME NEW rows, InsertEvents(rows),
             \A i \in rows : i.type = "tool_call" =>
                 /\ i.key = CallKey("tool_call", i.payload.call)
                 /\ i.payload.call \in CallId
                 /\ i.payload.name \in {"tool", "submit_checkpoint"}
      PROVE  IntentsKeyed'
  BY <1>3 DEF IntentsKeyed, InsertEvents
<1>4. ASSUME NEW r \in Run, NEW rows, ReplyStep(r, rows) PROVE KeysUnique' /\ IntentsKeyed'
  BY <1>2, <1>3, <1>4 DEF ReplyStep, WorkStep
<1>5. ASSUME NEW r \in Run, NEW e, TransitionStep(r, e) PROVE KeysUnique' /\ IntentsKeyed'
  BY <1>2, <1>3, <1>5 DEF TransitionStep
<1>6. ASSUME NEW r \in Run, NEW e, AnswerStep(r, e) \/ RawStep(r, e)
      PROVE  KeysUnique' /\ IntentsKeyed'
  BY <1>2, <1>3, <1>6 DEF AnswerStep, RawStep, WorkStep
<1>7. ASSUME NEW r \in Run, NEW e, NEW k, ProposalStep(r, e, k)
      PROVE  KeysUnique' /\ IntentsKeyed'
  BY <1>2, <1>3, <1>7 DEF ProposalStep, WorkStep
<1>8. ASSUME NEW r \in Run, NEW v, NEW e, NEW k, NEW d, VerdictStep(r, v, e, k, d)
      PROVE  KeysUnique' /\ IntentsKeyed'
  <2>1. v.type # "tool_call" /\ e.type # "tool_call"
    BY <1>8 DEF VerdictStep, VerdictType
  <2> QED
    BY <1>2, <1>3, <1>8, <2>1 DEF VerdictStep, WorkStep
<1> QED
  BY <1>1, <1>4, <1>5, <1>6, <1>7, <1>8 DEF LogEffect, QuietStep

LEMMA LinkedUnique ==
    ASSUME Shape, CheckpointsUnique, LogEffect
    PROVE  CheckpointsUnique'
<1>1. CASE UNCHANGED checkpoints
  BY <1>1 DEF CheckpointsUnique
<1>2. ASSUME NEW r \in Run, NEW e, NEW k, ProposalStep(r, e, k)
      PROVE  CheckpointsUnique'
  <2>1. \A c \in checkpoints : c.id # k.id
    BY <1>2, NewCheckpoint
  <2>2. /\ checkpoints' = checkpoints \cup {k} /\ k.run = r
        /\ \A c \in checkpoints : c.run = r => c.call # k.call
    BY <1>2 DEF ProposalStep, CheckpointsOf
  <2> QED
    BY <2>1, <2>2 DEF CheckpointsUnique
<1>3. ASSUME NEW r \in Run, NEW v, NEW e, NEW k, NEW d, VerdictStep(r, v, e, k, d)
      PROVE  CheckpointsUnique'
  BY <1>3 DEF VerdictStep, CheckpointsUnique, Candidates, CheckpointsOf
<1> QED
  BY <1>1, <1>2, <1>3
  DEF LogEffect, QuietStep, ReplyStep, TransitionStep, AnswerStep, RawStep

LEMMA LogOnlyGrows == ASSUME LogEffect PROVE events \subseteq events'
<1>1. CASE QuietStep
  BY <1>1 DEF QuietStep
<1>2. ASSUME NEW r, NEW e, TransitionStep(r, e) PROVE events \subseteq events'
  BY <1>2 DEF TransitionStep, InsertEvents
<1>3. ASSUME NEW r, NEW rows, WorkStep(r, rows) PROVE events \subseteq events'
  BY <1>3 DEF WorkStep, InsertEvents
<1> QED
  BY <1>1, <1>2, <1>3, EffectKinds

LEMMA LinkedRequests ==
    ASSUME Shape, Requested, LogEffect
    PROVE  Requested'
<1>1. events \subseteq events'
  BY LogOnlyGrows
<1>2. CASE UNCHANGED checkpoints
  BY <1>1, <1>2 DEF Requested
<1>3. ASSUME NEW r \in Run, NEW e, NEW k, ProposalStep(r, e, k)
      PROVE  Requested'
  <2>1. PICK i \in OpenCalls(r) : /\ i.payload.call = k.call
                                         /\ i.payload.name = "submit_checkpoint"
                                         /\ i.payload.alone
    BY <1>3 DEF ProposalStep
  <2>2. i \in events /\ Request(i, k)
    BY <1>3, <2>1 DEF ProposalStep, OpenCalls, EventsOf, Request
  <2>3. checkpoints' = checkpoints \cup {k}
    BY <1>3 DEF ProposalStep
  <2> QED
    BY <1>1, <2>2, <2>3 DEF Requested
<1>4. ASSUME NEW r \in Run, NEW v, NEW e, NEW k, NEW d, VerdictStep(r, v, e, k, d)
      PROVE  Requested'
  <2>1. /\ k \in checkpoints /\ checkpoints' = (checkpoints \ {k}) \cup {d}
        /\ d.run = k.run /\ d.call = k.call
    BY <1>4 DEF VerdictStep, Candidates, CheckpointsOf
  <2>2. PICK i \in events : Request(i, k)
    BY <2>1 DEF Requested
  <2>3. Request(i, d)
    BY <2>1, <2>2 DEF Request
  <2> QED
    BY <1>1, <2>1, <2>3 DEF Requested
<1> QED
  BY <1>2, <1>3, <1>4
  DEF LogEffect, QuietStep, ReplyStep, TransitionStep, AnswerStep, RawStep

LEMMA LinkedRecords ==
    ASSUME Shape, CheckpointRecords, Undecided, LogEffect
    PROVE  CheckpointRecords' /\ Undecided'
<1>1. CASE UNCHANGED <<events, checkpoints>>
  BY <1>1 DEF CheckpointRecords, Undecided
<1>2. ASSUME NEW rows, InsertEvents(rows), UNCHANGED checkpoints,
             \A e \in rows : /\ e.payload.cp = 0
                             /\ e.type \notin Verdicts \cup {"checkpoint_proposed"}
      PROVE  CheckpointRecords' /\ Undecided'
  BY <1>2 DEF CheckpointRecords, Undecided, InsertEvents
<1>3. ASSUME NEW r \in Run, NEW rows, ReplyStep(r, rows) PROVE  CheckpointRecords' /\ Undecided'
  <2>1. \A e \in rows : /\ e.payload.cp = 0
                        /\ e.type \notin Verdicts \cup {"checkpoint_proposed"}
    BY <1>3 DEF ReplyStep, Verdicts
  <2> QED
    BY <1>2, <1>3, <2>1 DEF ReplyStep, WorkStep
<1>4. ASSUME NEW r \in Run, NEW e, TransitionStep(r, e) PROVE  CheckpointRecords' /\ Undecided'
  BY <1>2, <1>4 DEF TransitionStep, Verdicts
<1>5. ASSUME NEW r \in Run, NEW e, AnswerStep(r, e) \/ RawStep(r, e) PROVE  CheckpointRecords' /\ Undecided'
  BY <1>2, <1>5 DEF AnswerStep, RawStep, WorkStep, Verdicts
<1>6. ASSUME NEW r \in Run, NEW e, NEW k, ProposalStep(r, e, k) PROVE  CheckpointRecords' /\ Undecided'
  <2>1. /\ events' = events \cup {e} /\ e.run = r /\ LogLength(r) \in Nat
        /\ checkpoints' = checkpoints \cup {k}
        /\ e.type = "checkpoint_proposed"
    BY <1>6, LogLengthNat DEF ProposalStep, WorkStep, InsertEvents, Shape, EventsShape
  <2>2. RecordOf(e, k)
    BY <1>6, <2>1 DEF ProposalStep, RecordOf, Verdicts
  <2>3. Undecided'
    BY <1>6, <2>1 DEF ProposalStep, Undecided
  <2> QED
    BY <2>1, <2>2, <2>3 DEF CheckpointRecords
<1>7. ASSUME NEW r \in Run, NEW v, NEW e, NEW k, NEW d, VerdictStep(r, v, e, k, d)
      PROVE  CheckpointRecords' /\ Undecided'
  <2>1. /\ events' = events \cup {v, e} /\ v.run = r
        /\ v.type \in Verdicts /\ v.type # "checkpoint_proposed"
        /\ e.type \notin Verdicts \cup {"checkpoint_proposed"} /\ e.payload.cp = 0
    BY <1>7 DEF VerdictStep, WorkStep, InsertEvents, VerdictType, Verdicts
  <2>2. /\ k \in checkpoints /\ k.run = r /\ k.status = "candidate"
        /\ checkpoints' = (checkpoints \ {k}) \cup {d}
    BY <1>7 DEF VerdictStep, Candidates, CheckpointsOf
  <2>3. RecordOf(v, d)
    BY <1>7, <2>1, <2>2 DEF VerdictStep, RecordOf
  <2>4. ASSUME NEW f \in events, NEW c \in checkpoints, RecordOf(f, c)
        PROVE  \E b \in checkpoints' : RecordOf(f, b)
    <3>1. CASE c # k
      BY <2>2, <2>4, <3>1
    <3>2. CASE c = k
      <4>1. f.place # k.decision
        BY <2>2 DEF Undecided, NoSeq, Shape, EventsShape, Event
      <4>2. d.id = k.id /\ d.run = k.run /\ d.based_on = k.based_on
        BY <1>7 DEF VerdictStep
      <4> QED
        BY <2>2, <2>4, <3>2, <4>1, <4>2 DEF RecordOf
    <3> QED
      BY <3>1, <3>2
  <2>5. Undecided'
    BY <1>7, <2>2 DEF VerdictStep, Undecided
  <2> QED
    BY <2>1, <2>2, <2>3, <2>4, <2>5 DEF CheckpointRecords
<1> QED
  BY <1>1, <1>3, <1>4, <1>5, <1>6, <1>7 DEF LogEffect, QuietStep

-----------------------------------------------------------------------------
(* The checkpoints of a run follow one another.                               *)

Recorded(c) == Proposed(c) /\ (c.status # "candidate" => Decided(c))

\* A round starts after the round before it was decided.
Succeeds(c, d) == /\ d.round # c.round
                  /\ d.round > c.round => /\ c.status # "candidate"
                                          /\ c.decision < d.based_on

Lineage == /\ \A c \in checkpoints : Recorded(c)
           /\ \A c, d \in checkpoints : c.run = d.run /\ c # d => Succeeds(c, d)

LEMMA LineageIs ==
    ASSUME Shape, Undecided, Lineage
    PROVE  CheckpointLineage
<1>1. ASSUME NEW r \in Run
      PROVE  {c.round : c \in CheckpointsOf(r)} = 1 .. NextRound(r) - 1
  <2>1. PICK n \in Nat : Rounds(r) = 1 .. n
    BY DEF Shape, CheckpointsShape, RoundsInitial
  <2>2. NextRound(r) - 1 = n
    BY <2>1, NextRoundIs
  <2> QED
    BY <2>1, <2>2, Zenon DEF Rounds
<1>2. ASSUME NEW r \in Run, NEW c \in CheckpointsOf(r)
      PROVE  /\ Proposed(c)
             /\ IF c.status = "candidate" THEN c.decision = NoSeq ELSE Decided(c)
             /\ \A d \in CheckpointsOf(r) \ {c} : Succeeds(c, d)
  BY DEF CheckpointsOf, Lineage, Recorded, Undecided
<1> QED
  BY <1>1, <1>2 DEF CheckpointLineage, Succeeds

\* The verdict and the result of a decided checkpoint are in the log.
LEMMA DecidedBefore ==
    ASSUME Shape, NEW c \in checkpoints, Decided(c)
    PROVE  c.decision \in Int /\ c.decision + 1 < LogLength(c.run) /\ LogLength(c.run) \in Nat
<1>1. PICK e \in events : e.run = c.run /\ e.place = c.decision + 1
  BY DEF Decided, EventAt, EventsOf
<1>2. c.decision \in Int
  BY DEF Shape, CheckpointsShape, Checkpoint, NoSeq
<1> QED
  BY <1>1, <1>2, LoggedBefore

LEMMA RecordStays ==
    ASSUME events \subseteq events', NEW c, Recorded(c)
    PROVE  Recorded(c)'
<1>1. \A r, place, type : EventAt(r, place, type) \subseteq EventAt(r, place, type)'
  BY DEF EventAt, EventsOf
<1> QED
  BY <1>1 DEF Recorded, Proposed, Decided

LEMMA LineageStep ==
    ASSUME Shape, Lineage, LogEffect
    PROVE  Lineage'
<1>1. \A c \in checkpoints : Recorded(c)'
  BY LogOnlyGrows, RecordStays DEF Lineage
<1>2. CASE UNCHANGED checkpoints
  BY <1>1, <1>2 DEF Lineage
<1>3. ASSUME NEW r \in Run, NEW e, NEW k, ProposalStep(r, e, k)
      PROVE  Lineage'
  <2>1. /\ checkpoints' = checkpoints \cup {k} /\ events' = events \cup {e}
        /\ k.run = r /\ e.run = r /\ LogLength(r) \in Nat
        /\ e.place = LogLength(r) /\ k.based_on = LogLength(r) - 1
        /\ e.type = "checkpoint_proposed" /\ e.payload.cp = k.id
        /\ k.status = "candidate"
    BY <1>3, LogLengthNat DEF ProposalStep, WorkStep, InsertEvents, Shape, EventsShape
  <2>2. Recorded(k)'
    <3>1. e \in EventAt(k.run, k.based_on + 1, "checkpoint_proposed")'
      BY <2>1 DEF EventAt, EventsOf
    <3> QED
      BY <2>1, <3>1 DEF Recorded, Proposed
  <2>3. ASSUME NEW c \in checkpoints, c.run = r
        PROVE  Succeeds(c, k) /\ Succeeds(k, c)
    <3>1. c \in CheckpointsOf(r)
      BY <2>3 DEF CheckpointsOf
    <3>2. c.round \in Nat /\ k.round \in Nat /\ c.round < k.round
      BY <1>3, <3>1, NewCheckpoint
    <3>3. c.status # "candidate"
      BY <1>3, <3>1 DEF ProposalStep, Candidates
    <3>4. c.decision < k.based_on
      BY <2>1, <2>3, <3>3, DecidedBefore DEF Lineage, Recorded
    <3> QED
      BY <3>2, <3>3, <3>4 DEF Succeeds
  <2> QED
    BY <1>1, <2>1, <2>2, <2>3 DEF Lineage
<1>4. ASSUME NEW r \in Run, NEW v, NEW e, NEW k, NEW d, VerdictStep(r, v, e, k, d)
      PROVE  Lineage'
  <2>1. /\ k \in checkpoints /\ k.run = r /\ k.status = "candidate"
        /\ checkpoints' = (checkpoints \ {k}) \cup {d} /\ events' = events \cup {v, e}
    BY <1>4 DEF VerdictStep, WorkStep, InsertEvents, Candidates, CheckpointsOf
  <2>2. /\ d.id = k.id /\ d.run = r /\ d.round = k.round /\ d.call = k.call
        /\ d.based_on = k.based_on /\ d.decision = LogLength(r)
    BY <1>4, <2>1 DEF VerdictStep
  <2>3. Proposed(d)'
    <3>1. Proposed(k)'
      BY <1>1, <2>1 DEF Recorded
    <3> QED
      BY <2>1, <2>2, <3>1 DEF Proposed
  <2>4. Decided(d)'
    <3>1. /\ v \in EventAt(d.run, d.decision, VerdictType(d.status = "accepted"))'
          /\ e \in EventAt(d.run, d.decision + 1, "tool_result")'
      BY <1>4, <2>1, <2>2 DEF VerdictStep, WorkStep, EventAt, EventsOf
    <3>2. v.payload.cp = d.id /\ e.payload.call = d.call
      BY <1>4, <2>2 DEF VerdictStep
    <3> QED
      BY <3>1, <3>2 DEF Decided
  <2>5. ASSUME NEW c \in checkpoints, c # k, c.run = r
        PROVE  Succeeds(c, d) /\ Succeeds(d, c)
    <3>1. Succeeds(c, k) /\ Succeeds(k, c)
      BY <2>1, <2>5 DEF Lineage
    <3> QED
      BY <2>1, <2>2, <3>1 DEF Succeeds
  <2> QED
    BY <1>1, <2>1, <2>2, <2>3, <2>4, <2>5 DEF Lineage, Recorded
<1> QED
  BY <1>2, <1>3, <1>4
  DEF LogEffect, QuietStep, ReplyStep, TransitionStep, AnswerStep, RawStep

-----------------------------------------------------------------------------
(* Results, and the calls that wait for one.                                  *)

LinkedShape == Shape /\ Linked /\ Lineage

\* A result of call c under its intent, and under the verdict of a request.
Justified(e) == \E i \in events :
    /\ i.run = e.run /\ i.type = "tool_call"
    /\ i.payload.call = e.payload.call /\ i.place < e.place
    /\ i.payload.name = "submit_checkpoint" =>
           \E k \in checkpoints : k.run = e.run /\ k.call = i.payload.call
                                  /\ k.decision = e.place - 1

CheckedResult(e) == e.type = "tool_result" /\ e.payload.call \in CallId \ RawCalls

ResultsLinked ==
    /\ \A e \in events : CheckedResult(e) => Justified(e)
    /\ \A e, f \in events : CheckedResult(e) /\ CheckedResult(f) /\ e.run = f.run
                            /\ e.payload.call = f.payload.call => e = f

LEMMA ResultsAre == ResultsLinked => ResultsJustified
<1> SUFFICES ASSUME ResultsLinked, NEW r \in Run, NEW c \in CallId \ RawCalls,
                    NEW e \in Results(r, c)
             PROVE  /\ \A f \in Results(r, c) : f = e
                    /\ \E i \in EventsOf(r) :
                        /\ i.type = "tool_call" /\ i.payload.call = c /\ i.place < e.place
                        /\ i.payload.name = "submit_checkpoint" =>
                               \E k \in CheckpointsOf(r) : k.call = c /\ k.decision = e.place - 1
  BY DEF ResultsJustified
<1>1. \A f \in Results(r, c) : f \in events /\ f.run = r /\ CheckedResult(f) /\ f.payload.call = c
  BY DEF Results, EventsOf, CheckedResult
<1>2. Justified(e)
  BY <1>1 DEF ResultsLinked
<1> QED
  BY <1>1, <1>2 DEF ResultsLinked, Justified, EventsOf, CheckpointsOf

\* CandidatePending, by the order in which the rows were inserted.
CandidateOpen == \A c \in checkpoints :
    c.status = "candidate" /\ c.call \notin RawCalls =>
        \E i \in OpenCalls(c.run) : i.payload.call = c.call

\* Until its verdict, nothing has answered the request of a candidate.
LEMMA CandidateUnanswered ==
    ASSUME LinkedShape, ResultsLinked, CandidateOpen,
           NEW c \in checkpoints, c.status = "candidate", c.call \notin RawCalls
    PROVE  \E i \in events : Request(i, c) /\ \A e \in events : ~(/\ e.run = c.run
                                                                  /\ e.type = "tool_result"
                                                                  /\ e.payload.call = c.call)
<1>1. PICK i \in events : Request(i, c)
  BY DEF LinkedShape, Linked, Requested
<1>2. PICK j \in OpenCalls(c.run) : j.payload.call = c.call
  BY DEF CandidateOpen
<1>3. j = i
  BY <1>1, <1>2, IntentUnique
  DEF LinkedShape, Linked, OpenCalls, EventsOf, Request
<1>4. c.call \in CallId
  BY DEF LinkedShape, Shape, CheckpointsShape, Checkpoint
<1>5. ASSUME NEW e \in events, e.run = c.run, e.type = "tool_result", e.payload.call = c.call
      PROVE  FALSE
  <2>1. PICK h \in events : /\ h.run = e.run /\ h.type = "tool_call"
                            /\ h.payload.call = e.payload.call /\ h.place < e.place
    BY <1>4, <1>5 DEF ResultsLinked, CheckedResult, Justified
  <2>2. h = i
    BY <1>1, <1>5, <2>1, IntentUnique DEF LinkedShape, Linked, Request
  <2>3. h.place \in Int /\ e.place \in Int
    BY LoggedBefore DEF LinkedShape
  <2>4. e \in Results(i.run, i.payload.call) /\ e.place > i.place
    BY <1>1, <1>5, <2>1, <2>2, <2>3 DEF Results, EventsOf, Request
  <2> QED
    BY <1>2, <1>3, <2>4 DEF OpenCalls, AnsweredLater
<1> QED
  BY <1>1, <1>5

LEMMA ResultsStep ==
    ASSUME LinkedShape, Shape', ResultsLinked, CandidateOpen, LogEffect
    PROVE  ResultsLinked'
<1>1. events \subseteq events'
  BY LogOnlyGrows
<1>2. ASSUME NEW e \in events, Justified(e), UNCHANGED checkpoints PROVE Justified(e)'
  BY <1>1, <1>2 DEF Justified
<1>3. CASE UNCHANGED <<events, checkpoints>>
  BY <1>2, <1>3 DEF ResultsLinked, CheckedResult
<1>4. ASSUME UNCHANGED checkpoints, \A e \in events' \ events : ~CheckedResult(e)
      PROVE  ResultsLinked'
  BY <1>1, <1>2, <1>4 DEF ResultsLinked, CheckedResult
<1>5. ASSUME NEW r \in Run, NEW rows, ReplyStep(r, rows) PROVE ResultsLinked'
  <2>1. \A e \in rows : ~CheckedResult(e)
    BY <1>5 DEF ReplyStep, CheckedResult
  <2> QED
    BY <1>4, <1>5, <2>1 DEF ReplyStep, WorkStep, InsertEvents
<1>6. ASSUME NEW r \in Run, NEW e, TransitionStep(r, e) PROVE ResultsLinked'
  <2>1. ~CheckedResult(e)
    BY <1>6 DEF TransitionStep, CheckedResult
  <2> QED
    BY <1>4, <1>6, <2>1 DEF TransitionStep, InsertEvents
<1>7. ASSUME NEW r \in Run, NEW e, RawStep(r, e) PROVE ResultsLinked'
  <2>1. ~CheckedResult(e)
    BY <1>7 DEF RawStep, CheckedResult
  <2> QED
    BY <1>4, <1>7, <2>1 DEF RawStep, WorkStep, InsertEvents
<1>8. ASSUME NEW r \in Run, NEW e, NEW k, ProposalStep(r, e, k) PROVE ResultsLinked'
  <2>1. /\ events' = events \cup {e} /\ checkpoints' = checkpoints \cup {k}
        /\ e.type = "checkpoint_proposed"
    BY <1>8 DEF ProposalStep, WorkStep, InsertEvents
  <2>2. \A f \in events : Justified(f) => Justified(f)'
    BY <2>1 DEF Justified
  <2> QED
    BY <2>1, <2>2 DEF ResultsLinked, CheckedResult
<1>9. ASSUME NEW r \in Run, NEW e, AnswerStep(r, e) PROVE ResultsLinked'
  <2>1. Grows(r, {e}) /\ UNCHANGED checkpoints
    BY <1>9, WorkGrows DEF AnswerStep
  <2>2. /\ events' = events \cup {e} /\ e.run = r
        /\ \A f \in events : f.run = r => f.place < e.place
    BY <2>1, GrownLog DEF LinkedShape
  <2>3. Justified(e)'
    <3>1. PICK i \in events : /\ i.run = r /\ i.type = "tool_call"
                              /\ i.payload.call = e.payload.call
                              /\ i.payload.name # "submit_checkpoint"
      BY <1>9 DEF AnswerStep, EventsOf
    <3> QED
      BY <2>2, <3>1 DEF Justified
  <2>4. \A f \in events : ~(f.run = r /\ f.type = "tool_result"
                            /\ f.payload.call = e.payload.call)
    BY <1>9 DEF AnswerStep, Results, EventsOf
  <2> QED
    BY <1>2, <2>1, <2>2, <2>3, <2>4 DEF ResultsLinked, CheckedResult
<1>10. ASSUME NEW r \in Run, NEW v, NEW e, NEW k, NEW d, VerdictStep(r, v, e, k, d)
       PROVE  ResultsLinked'
  <2>1. /\ k \in checkpoints /\ k.run = r /\ k.status = "candidate"
        /\ checkpoints' = (checkpoints \ {k}) \cup {d}
        /\ v.type # "tool_result" /\ e.payload.call = k.call
        /\ d.run = r /\ d.call = k.call /\ d.decision = LogLength(r)
        /\ e.place = LogLength(r) + 1 /\ LogLength(r) \in Nat
    BY <1>10, LogLengthNat
    DEF VerdictStep, VerdictType, Candidates, CheckpointsOf, LinkedShape, Shape, EventsShape
  <2>2. Grows(r, {v, e})
    BY <1>10, WorkGrows DEF VerdictStep
  <2>3. /\ events' = events \cup {v, e} /\ e.run = r
        /\ \A f \in events : f.run = r => f.place < e.place
    BY <2>2, GrownLog DEF LinkedShape
  <2>4. ASSUME NEW f \in events, Justified(f) PROVE Justified(f)'
    <3>1. PICK i \in events :
            /\ i.run = f.run /\ i.type = "tool_call"
            /\ i.payload.call = f.payload.call /\ i.place < f.place
            /\ i.payload.name = "submit_checkpoint" =>
                   \E c \in checkpoints : c.run = f.run /\ c.call = i.payload.call
                                          /\ c.decision = f.place - 1
      BY <2>4 DEF Justified
    <3>2. k.decision # f.place - 1
      <4>1. i.place \in Nat /\ f.place \in Nat
        BY DEF LinkedShape, Shape, EventsShape, Event
      <4> QED
        BY <2>1, <3>1, <4>1 DEF LinkedShape, Linked, Undecided, NoSeq
    <3> QED
      BY <2>1, <2>3, <3>1, <3>2 DEF Justified
  <2>5. ASSUME CheckedResult(e)
        PROVE  /\ Justified(e)'
               /\ \A f \in events : ~(/\ f.run = r /\ f.type = "tool_result"
                                      /\ f.payload.call = e.payload.call)
    <3>1. k.call \notin RawCalls
      BY <2>1, <2>5 DEF CheckedResult
    <3>2. PICK i \in events : Request(i, k) /\ \A f \in events : ~(/\ f.run = k.run
                                                                  /\ f.type = "tool_result"
                                                                  /\ f.payload.call = k.call)
      BY <2>1, <3>1, CandidateUnanswered
    <3>3. i.run = r /\ i.type = "tool_call" /\ i.payload.call = k.call
      BY <2>1, <3>2 DEF Request
    <3>4. i \in events' /\ i.place < e.place /\ d \in checkpoints' /\ d.decision = e.place - 1
      BY <2>1, <2>3, <3>3
    <3> QED
      BY <2>1, <2>3, <3>2, <3>3, <3>4 DEF Justified
  <2>6. ~CheckedResult(v)
    BY <2>1 DEF CheckedResult
  <2> QED
    BY <2>3, <2>4, <2>5, <2>6 DEF ResultsLinked, CheckedResult
<1> QED
  BY <1>3, <1>5, <1>6, <1>7, <1>8, <1>9, <1>10 DEF LogEffect, QuietStep

\* A call that waits goes on waiting unless its result is among the new rows.
LEMMA StillPending ==
    ASSUME events \subseteq events', NEW r, NEW i \in OpenCalls(r),
           \A e \in events' \ events : ~(/\ e.run = r /\ e.type = "tool_result"
                                        /\ e.payload.call = i.payload.call)
    PROVE  i \in OpenCalls(r)'
  BY DEF OpenCalls, AnsweredLater, Results, EventsOf

LEMMA CandidatesStep ==
    ASSUME LinkedShape, CandidateOpen, LogEffect
    PROVE  CandidateOpen'
<1>0. events \subseteq events'
  BY LogOnlyGrows
<1>1. ASSUME NEW c \in checkpoints, c.status = "candidate", c.call \notin RawCalls,
             \A e \in events' \ events : ~(/\ e.run = c.run /\ e.type = "tool_result"
                                          /\ e.payload.call = c.call)
      PROVE  \E i \in OpenCalls(c.run)' : i.payload.call = c.call
  <2>1. PICK i \in OpenCalls(c.run) : i.payload.call = c.call
    BY <1>1 DEF CandidateOpen
  <2>2. i \in OpenCalls(c.run)'
    BY <1>0, <1>1, <2>1, StillPending
  <2> QED
    BY <2>1, <2>2
<1>2. CASE UNCHANGED <<events, checkpoints>>
  BY <1>2 DEF CandidateOpen, OpenCalls, AnsweredLater, Results, EventsOf
<1>3. ASSUME NEW rows, InsertEvents(rows), UNCHANGED checkpoints,
             \A e \in rows : e.type = "tool_result" => e.payload.call \in RawCalls
      PROVE  CandidateOpen'
  <2>1. events' = events \cup rows
    BY <1>3 DEF InsertEvents
  <2> QED
    BY <1>1, <1>3, <2>1 DEF CandidateOpen
<1>4. ASSUME NEW r \in Run, NEW rows, ReplyStep(r, rows) PROVE CandidateOpen'
  BY <1>3, <1>4 DEF ReplyStep, WorkStep
<1>5. ASSUME NEW r \in Run, NEW e, TransitionStep(r, e) PROVE CandidateOpen'
  BY <1>3, <1>5 DEF TransitionStep
<1>6. ASSUME NEW r \in Run, NEW e, RawStep(r, e) PROVE CandidateOpen'
  BY <1>3, <1>6 DEF RawStep, WorkStep
<1>7. ASSUME NEW r \in Run, NEW e, AnswerStep(r, e) PROVE CandidateOpen'
  <2>1. events' = events \cup {e} /\ UNCHANGED checkpoints /\ e.run = r
    BY <1>7 DEF AnswerStep, WorkStep, InsertEvents
  <2>2. PICK j \in events : /\ j.run = r /\ j.type = "tool_call"
                            /\ j.payload.call = e.payload.call
                            /\ j.payload.name # "submit_checkpoint"
    BY <1>7 DEF AnswerStep, EventsOf
  <2>3. ASSUME NEW c \in checkpoints PROVE ~(c.run = r /\ c.call = e.payload.call)
    <3>1. PICK i \in events : Request(i, c)
      BY DEF LinkedShape, Linked, Requested
    <3> QED
      BY <2>2, <3>1, IntentUnique DEF LinkedShape, Linked, Request
  <2> QED
    BY <1>1, <2>1, <2>3 DEF CandidateOpen
<1>8. ASSUME NEW r \in Run, NEW e, NEW k, ProposalStep(r, e, k) PROVE CandidateOpen'
  <2>1. /\ events' = events \cup {e} /\ checkpoints' = checkpoints \cup {k}
        /\ k.run = r /\ e.type = "checkpoint_proposed"
    BY <1>8 DEF ProposalStep, WorkStep, InsertEvents
  <2>2. PICK i \in OpenCalls(r) : i.payload.call = k.call
    BY <1>8 DEF ProposalStep
  <2>3. i \in OpenCalls(r)'
    BY <1>0, <2>1, StillPending
  <2> QED
    BY <1>1, <2>1, <2>2, <2>3 DEF CandidateOpen
<1>9. ASSUME NEW r \in Run, NEW v, NEW e, NEW k, NEW d, VerdictStep(r, v, e, k, d)
      PROVE  CandidateOpen'
  <2>1. /\ events' = events \cup {v, e} /\ checkpoints' = (checkpoints \ {k}) \cup {d}
        /\ k \in checkpoints /\ k.run = r /\ d.status # "candidate"
        /\ v.type # "tool_result" /\ e.payload.call = k.call
    BY <1>9
    DEF VerdictStep, VerdictType, WorkStep, InsertEvents, Candidates, CheckpointsOf
  <2>2. ASSUME NEW c \in checkpoints, c # k PROVE ~(c.run = r /\ c.call = k.call)
    BY <2>1, <2>2 DEF LinkedShape, Linked, CheckpointsUnique
  <2>3. e.run = r
    BY <1>9 DEF VerdictStep, WorkStep
  <2> QED
    BY <1>1, <2>1, <2>2, <2>3 DEF CandidateOpen
<1> QED
  BY <1>2, <1>4, <1>5, <1>6, <1>7, <1>8, <1>9 DEF LogEffect, QuietStep

-----------------------------------------------------------------------------
(* The invariant of the log, and what follows from it.                        *)

LogInvariant == /\ FencedShape /\ StatusReplayed /\ Linked /\ Lineage
                /\ ResultsLinked /\ CandidateOpen

LEMMA InitLog == Init => LogInvariant
<1> SUFFICES ASSUME Init PROVE LogInvariant
  OBVIOUS
<1>1. Shape
  BY InitShape
<1>2. Fenced
  BY DEF Init, Fenced, EpochsUnique, TerminalOwnerless, EpochFencing, WritersReached,
         CompletionMarks, NothingAfterCompletion, AbsentRun, Terminal
<1>3. StatusReplayed
  BY DEF Init, StatusReplayed, Transitions, EventsOf, AbsentRun
<1>4. Linked /\ Lineage
  BY DEF Init, Linked, Lineage, KeysUnique, IntentsKeyed, CheckpointsUnique, Requested,
         CheckpointRecords, Undecided
<1>5. ResultsLinked /\ CandidateOpen
  BY DEF Init, ResultsLinked, CandidateOpen
<1> QED
  BY <1>1, <1>2, <1>3, <1>4, <1>5 DEF LogInvariant, FencedShape

LEMMA NextLog == LogInvariant /\ FencedShape' /\ [Next]_vars => LogInvariant'
<1> SUFFICES ASSUME LogInvariant, FencedShape', [Next]_vars PROVE LogInvariant'
  OBVIOUS
<1>1. /\ Shape /\ TerminalOwnerless /\ Shape' /\ StatusReplayed /\ Linked
      /\ Lineage /\ ResultsLinked /\ CandidateOpen
  BY DEF LogInvariant, FencedShape, Fenced
<1>2. LogEffect
  BY <1>1, StepEffect
<1>3. LinkedShape
  BY <1>1 DEF LinkedShape
<1>4. StatusReplayed'
  BY <1>1, <1>2, StatusStep
<1>5. Linked'
  BY <1>1, <1>2, LinkedInserts, LinkedUnique, LinkedRequests, LinkedRecords DEF Linked
<1>6. Lineage'
  BY <1>1, <1>2, LineageStep
<1>7. ResultsLinked' /\ CandidateOpen'
  BY <1>1, <1>2, <1>3, ResultsStep, CandidatesStep
<1> QED
  BY <1>4, <1>5, <1>6, <1>7 DEF LogInvariant

\* db.rs: the rows of the log, the status column and the checkpoints refer to
\* each other as their transactions wrote them.
THEOREM LogIsSound == Spec => []LogInvariant
  BY InitLog, NextLog, FencedInvariant, PTL DEF Spec

\* The status column is what replaying the state_transition events gives, and
\* each of them leaves the status the one before it reached.
THEOREM StatusIsLogged == Spec => []StatusMatchesLog
<1>1. LogInvariant => StatusMatchesLog
  BY StatusIsReplayed DEF LogInvariant, FencedShape
<1> QED
  BY <1>1, LogIsSound, PTL

\* A tool call is answered at most once, after its intent; a checkpoint request
\* only by the verdict on its checkpoint.
THEOREM ResultsAreJustified == Spec => []ResultsJustified
<1>1. LogInvariant => ResultsJustified
  BY ResultsAre DEF LogInvariant
<1> QED
  BY <1>1, LogIsSound, PTL

\* Rounds are 1, 2, ..., each checkpoint has its records in the log, and a round
\* starts only after the round before it was decided.
THEOREM CheckpointsFollow == Spec => []CheckpointLineage
<1>1. LogInvariant => CheckpointLineage
  BY LineageIs DEF LogInvariant, FencedShape, Linked
<1> QED
  BY <1>1, LogIsSound, PTL

\* The tool call of a candidate is still pending, also after a takeover, so the
\* verdict can be written.
THEOREM CandidatesCanBeDecided == Spec => []CandidatePending
<1>1. ASSUME LogInvariant, NEW c \in checkpoints, c.status = "candidate",
             c.call \notin RawCalls
      PROVE  \E i \in PendingToolCalls(c.run) : i.payload.call = c.call
  <2>1. PICK i \in events : Request(i, c) /\ \A e \in events : ~(/\ e.run = c.run
                                                            /\ e.type = "tool_result"
                                                            /\ e.payload.call = c.call)
    BY <1>1, CandidateUnanswered DEF LogInvariant, FencedShape, LinkedShape
  <2>2. i \in EventsOf(c.run) /\ i.run = c.run /\ i.type = "tool_call" /\ i.payload.call = c.call
    BY <2>1 DEF Request, EventsOf
  <2>3. Results(i.run, i.payload.call) = {}
    BY <2>1, <2>2 DEF Results, EventsOf
  <2> QED
    BY <2>2, <2>3 DEF PendingToolCalls, Answered
<1>2. LogInvariant => CandidatePending
  BY <1>1 DEF CandidatePending
<1> QED
  BY <1>2, LogIsSound, PTL

\* A checkpoint request that came beside other calls is never answered and
\* never proposed.
THEOREM MixedRequestsStay == Spec => []MixedRequestsUnanswered
<1>1. ASSUME LogInvariant, NEW i \in events, i.type = "tool_call",
             i.payload.name = "submit_checkpoint", ~i.payload.alone,
             i.payload.call \notin RawCalls
      PROVE  /\ i \in PendingToolCalls(i.run)
             /\ \A c \in CheckpointsOf(i.run) : c.call # i.payload.call
  <2>1. \A c \in CheckpointsOf(i.run) : c.call # i.payload.call
    BY <1>1, IntentUnique DEF LogInvariant, Linked, Requested, Request, CheckpointsOf
  <2>2. ASSUME NEW e \in Results(i.run, i.payload.call) PROVE FALSE
    <3>1. e \in events /\ e.run = i.run /\ e.type = "tool_result"
          /\ e.payload.call = i.payload.call
      BY DEF Results, EventsOf
    <3>2. i.payload.call \in CallId
      BY <1>1 DEF LogInvariant, Linked, IntentsKeyed
    <3>3. Justified(e)
      BY <1>1, <3>1, <3>2 DEF LogInvariant, ResultsLinked, CheckedResult
    <3>4. PICK j \in events :
            /\ j.run = e.run /\ j.type = "tool_call" /\ j.payload.call = e.payload.call
            /\ j.payload.name = "submit_checkpoint" =>
                   \E k \in checkpoints : k.run = e.run /\ k.call = j.payload.call
      BY <3>3 DEF Justified
    <3>5. j = i
      BY <1>1, <3>1, <3>4, IntentUnique DEF LogInvariant, Linked
    <3> QED
      BY <1>1, <2>1, <3>1, <3>4, <3>5 DEF CheckpointsOf
  <2>3. i \in PendingToolCalls(i.run)
    BY <1>1, <2>2 DEF PendingToolCalls, Answered, EventsOf
  <2> QED
    BY <2>1, <2>3
<1>2. LogInvariant => MixedRequestsUnanswered
  BY <1>1 DEF MixedRequestsUnanswered
<1> QED
  BY <1>2, LogIsSound, PTL

-----------------------------------------------------------------------------
(* What AgentContext::state() shows.                                          *)

\* The records of a decided checkpoint are the three events after the one it is
\* based on, when nothing came between the proposal and the verdict.
LEMMA OwnRecords ==
    ASSUME LogInvariant, NEW c \in checkpoints, c.status # "candidate",
           c.decision = c.based_on + 2, c.call \notin RawCalls, NEW e \in EventsOf(c.run)
    PROVE  OwnRecord(c, e) <=> e.place \in {c.based_on + 1, c.decision, c.decision + 1}
<1>1. /\ Shape /\ PlacesUnique /\ CheckpointsUnique /\ CheckpointRecords /\ ResultsLinked
      /\ Recorded(c)
  BY DEF LogInvariant, FencedShape, Shape, EventsShape, Linked, Lineage
<1>2. /\ e \in events /\ e.run = c.run /\ e.place \in Nat
      /\ c.based_on \in Int /\ c.decision \in Int /\ c.call \in CallId /\ c.id # 0
  BY <1>1 DEF EventsOf, Shape, EventsShape, Event, CheckpointsShape, Checkpoint, NoSeq
<1>3. PICK p \in events : /\ p.run = c.run /\ p.place = c.based_on + 1
                          /\ p.payload.cp = c.id
  BY <1>1 DEF Recorded, Proposed, EventAt, EventsOf
<1>4. PICK v \in events : /\ v.run = c.run /\ v.place = c.decision /\ v.payload.cp = c.id
  BY <1>1 DEF Recorded, Decided, EventAt, EventsOf
<1>5. PICK t \in events : /\ t.run = c.run /\ t.place = c.decision + 1
                          /\ t.type = "tool_result" /\ t.payload.call = c.call
  BY <1>1 DEF Recorded, Decided, EventAt, EventsOf
<1>6. ASSUME e.place \in {c.based_on + 1, c.decision, c.decision + 1} PROVE OwnRecord(c, e)
  <2>1. e \in {p, v, t}
    BY <1>1, <1>2, <1>3, <1>4, <1>5, <1>6 DEF PlacesUnique
  <2> QED
    BY <2>1, <1>3, <1>4, <1>5 DEF OwnRecord
<1>7. ASSUME e.payload.cp = c.id PROVE e.place \in {c.based_on + 1, c.decision}
  <2>1. PICK d \in checkpoints : RecordOf(e, d)
    BY <1>1, <1>2, <1>7 DEF CheckpointRecords
  <2>2. d = c
    BY <1>1, <1>7, <2>1 DEF RecordOf, CheckpointsUnique
  <2>3. e.type \in Verdicts \cup {"checkpoint_proposed"}
    BY <1>1, <1>2, <1>7 DEF CheckpointRecords
  <2> QED
    BY <2>1, <2>2, <2>3 DEF RecordOf
<1>8. ASSUME e.type = "tool_result", e.payload.call = c.call PROVE e.place = c.decision + 1
  BY <1>1, <1>2, <1>5, <1>8 DEF ResultsLinked, CheckedResult
<1> QED
  BY <1>6, <1>7, <1>8 DEF OwnRecord

\* After a checkpoint that was verified at once, the application is handed the
\* events the checkpoint does not summarise, and no others.
THEOREM StateIsExactWhenVerifiedAtOnce == Spec => []StateExactWhenVerifiedAtOnce
<1>1. ASSUME LogInvariant, NEW c \in checkpoints, c \in LatestAccepted(c.run),
             c.call \notin RawCalls, \A e \in EventsOf(c.run) : SeqOf(e) >= 0,
             c.decision = c.based_on + 2
      PROVE  StateEvents(c.run) = NotSummarised(c)
  <2>1. c.status = "accepted"
    BY <1>1 DEF LatestAccepted, Accepted
  <2>2. \A d \in LatestAccepted(c.run) : d = c
    <3> SUFFICES ASSUME NEW d \in LatestAccepted(c.run), d # c PROVE FALSE
      OBVIOUS
    <3>1. d \in checkpoints /\ d.run = c.run /\ d.round <= c.round /\ c.round <= d.round
      BY <1>1 DEF LatestAccepted, Accepted, CheckpointsOf
    <3>2. d.round # c.round
      BY <1>1, <3>1 DEF LogInvariant, Lineage, Succeeds
    <3>3. d.round \in Int /\ c.round \in Int
      BY <1>1, <3>1 DEF LogInvariant, FencedShape, Shape, CheckpointsShape, Checkpoint
    <3> QED
      BY <3>1, <3>2, <3>3
  <2>a. \A e \in EventsOf(c.run) : /\ e.place \in Int /\ e.place <= MaxSeq
                                  /\ SeqOf(e) = e.place
    BY <1>1, BoundAssumption
    DEF SeqOf, I32, EventsOf, LogInvariant, FencedShape, Shape, EventsShape, Event
  <2>b. I32(c.decision + 1) = c.decision + 1
    <3>1. \E t \in EventsOf(c.run) : t.place = c.decision + 1
      BY <1>1, <2>1 DEF LogInvariant, Lineage, Recorded, Decided, EventAt
    <3> QED
      BY <2>a, <3>1, BoundAssumption DEF I32
  <2>3. StateEvents(c.run) = {e \in EventsOf(c.run) : e.place > c.decision + 1}
    BY <1>1, <2>2, <2>a, <2>b DEF StateEvents
  <2>4. ASSUME NEW e \in EventsOf(c.run)
        PROVE  e.place > c.decision + 1 <=> e.place > c.based_on /\ ~OwnRecord(c, e)
    <3>1. OwnRecord(c, e) <=> e.place \in {c.based_on + 1, c.decision, c.decision + 1}
      BY <1>1, <2>1, OwnRecords
    <3>2. e.place \in Int /\ c.based_on \in Int /\ c.decision \in Int
      BY <1>1
      DEF LogInvariant, FencedShape, Shape, EventsShape, Event, EventsOf,
          CheckpointsShape, Checkpoint, NoSeq
    <3> QED
      BY <1>1, <3>1, <3>2
  <2> QED
    BY <2>3, <2>4 DEF NotSummarised
<1>2. LogInvariant => StateExactWhenVerifiedAtOnce
  BY <1>1 DEF StateExactWhenVerifiedAtOnce
<1> QED
  BY <1>2, LogIsSound, PTL

-----------------------------------------------------------------------------
(* The durability contract: what DurableLog sees of the tables.               *)

\* A longer log is the shorter one and what was added to it.
LEMMA Extension ==
    ASSUME NEW S, NEW n \in Nat, NEW m \in Nat, n <= m,
           NEW f \in [1 .. n -> S], NEW g \in [1 .. m -> S],
           \A i \in 1 .. n : g[i] = f[i],
           NEW new, new = SubSeq(g, Len(f) + 1, Len(g))
    PROVE  /\ g = f \o new
           /\ new \in Seq(S) /\ Len(new) = m - n /\ DOMAIN new = 1 .. m - n
<1>1. Len(f) = n /\ Len(g) = m /\ f \in Seq(S) /\ g \in Seq(S)
  OBVIOUS
<1>2. new = SubSeq(g, n + 1, m)
  BY <1>1
<1>3. /\ new \in Seq(S) /\ Len(new) = m - n /\ DOMAIN new = 1 .. m - n
      /\ \A j \in 1 .. m - n : new[j] = g[n + j]
  BY <1>1, <1>2
<1>4. g = f \o new
  <2>1. /\ f \o new \in Seq(S) /\ Len(f \o new) = m
        /\ \A i \in 1 .. m : (f \o new)[i] = IF i <= n THEN f[i] ELSE new[i - n]
    BY <1>1, <1>3
  <2>2. \A i \in 1 .. m : (f \o new)[i] = g[i]
    BY <1>3, <2>1
  <2> QED
    BY <1>1, <2>1, <2>2
<1> QED
  BY <1>3, <1>4

\* What the entries of the log of a run are: one for each row, in its place.
Indexed == \A r \in Run :
    /\ LogLength(r) \in Nat
    /\ AbstractLog(r) = [i \in 1 .. LogLength(r) |-> AbstractLog(r)[i]]
    /\ \A i \in 1 .. LogLength(r) : \E e \in EventsOf(r) : e.place = i - 1
    /\ \A e \in EventsOf(r) : /\ e.place \in Nat /\ e.place + 1 \in 1 .. LogLength(r)
                              /\ AbstractLog(r)[e.place + 1] = AbstractEntry(e)

LEMMA IndexedLog == Shape => Indexed
<1> SUFFICES ASSUME Shape, NEW r \in Run
             PROVE  /\ LogLength(r) \in Nat
                    /\ AbstractLog(r) = [i \in 1 .. LogLength(r) |-> AbstractLog(r)[i]]
                    /\ \A i \in 1 .. LogLength(r) : \E e \in EventsOf(r) : e.place = i - 1
                    /\ \A e \in EventsOf(r) : /\ e.place \in Nat /\ e.place + 1 \in 1 .. LogLength(r)
                                              /\ AbstractLog(r)[e.place + 1] = AbstractEntry(e)
  BY DEF Indexed
<1>1. PICK n \in Nat : Places(r) = 0 .. n - 1
  BY DEF Shape, EventsShape, PlacesInitial
<1>2. LogLength(r) = n
  BY <1>1, LogLengthIs
<1>3. \A i \in 1 .. n : i - 1 \in 0 .. n - 1
  BY <1>1
<1>4. \A i \in 1 .. n : \E e \in EventsOf(r) : e.place = i - 1
  BY <1>1, <1>3 DEF Places
<1>5. ASSUME NEW e \in EventsOf(r)
      PROVE  e.place \in Nat /\ e.place + 1 \in 1 .. n /\ (e.place + 1) - 1 = e.place
  <2>1. e.place \in 0 .. n - 1
    BY <1>1 DEF Places
  <2> QED
    BY <2>1
<1>6. AbstractLog(r) = [i \in 1 .. n |->
                           AbstractEntry(CHOOSE e \in EventsOf(r) : e.place = i - 1)]
  BY <1>2, Zenon DEF AbstractLog
<1>7. ASSUME NEW e \in EventsOf(r) PROVE AbstractLog(r)[e.place + 1] = AbstractEntry(e)
  <2>1. \A f \in EventsOf(r) : f.place = (e.place + 1) - 1 => f = e
    BY <1>5 DEF Shape, EventsShape, PlacesUnique, EventsOf
  <2>2. (CHOOSE f \in EventsOf(r) : f.place = (e.place + 1) - 1) = e
    BY <1>5, <2>1
  <2>3. AbstractLog(r)[e.place + 1] =
            AbstractEntry(CHOOSE f \in EventsOf(r) : f.place = (e.place + 1) - 1)
    BY <1>5, <1>6
  <2> QED
    BY <2>2, <2>3
<1>8. AbstractLog(r) = [i \in 1 .. n |-> AbstractLog(r)[i]]
  BY <1>6
<1> QED
  BY <1>1, <1>2, <1>4, <1>5, <1>7, <1>8

\* The call an entry about a checkpoint names.
CallsKnown == \A c \in checkpoints : CheckpointCall(c.id) = c.call

LEMMA CallsAre == CheckpointsUnique => CallsKnown
<1> SUFFICES ASSUME CheckpointsUnique, NEW c \in checkpoints
             PROVE  CheckpointCall(c.id) = c.call
  BY DEF CallsKnown
<1>1. \A d \in checkpoints : d.id = c.id => d = c
  BY DEF CheckpointsUnique
<1>2. (CHOOSE d \in checkpoints : d.id = c.id) = c
  BY <1>1
<1> QED
  BY <1>2 DEF CheckpointCall

\* The entries of rows already written do not change.
LEMMA EntriesStay ==
    ASSUME LogInvariant, CallsKnown, CallsKnown', LogEffect, NEW e \in events
    PROVE  AbstractEntry(e)' = AbstractEntry(e)
<1>1. ASSUME NEW c \in checkpoints PROVE \E d \in checkpoints' : d.id = c.id /\ d.call = c.call
  <2>1. CASE UNCHANGED checkpoints
    BY <2>1
  <2>2. ASSUME NEW r \in Run, NEW f, NEW k, ProposalStep(r, f, k)
        PROVE  \E d \in checkpoints' : d.id = c.id /\ d.call = c.call
    BY <2>2 DEF ProposalStep
  <2>3. ASSUME NEW r \in Run, NEW v, NEW f, NEW k, NEW d, VerdictStep(r, v, f, k, d)
        PROVE  \E b \in checkpoints' : b.id = c.id /\ b.call = c.call
    BY <2>3 DEF VerdictStep
  <2> QED
    BY <2>1, <2>2, <2>3
    DEF LogEffect, QuietStep, ReplyStep, TransitionStep, AnswerStep, RawStep
<1>2. CASE e.type \in Verdicts \cup {"checkpoint_proposed"}
  <2>1. PICK c \in checkpoints : c.id = e.payload.cp
    BY <1>2 DEF LogInvariant, Linked, CheckpointRecords, RecordOf
  <2>2. CheckpointCall(e.payload.cp) = c.call
    BY <2>1 DEF CallsKnown
  <2>3. CheckpointCall(e.payload.cp)' = c.call
    BY <1>1, <2>1 DEF CallsKnown
  <2> QED
    BY <2>2, <2>3 DEF AbstractEntry
<1>3. CASE e.type \notin Verdicts \cup {"checkpoint_proposed"}
  BY <1>3 DEF AbstractEntry, Verdicts
<1> QED
  BY <1>2, <1>3

\* What a step adds to the abstract log of run r.
NewEntries(r) == SubSeq(Logs'[r], Len(Logs[r]) + 1, Len(Logs'[r]))

\* One entry for each of the rows, in the order of their places.
AddedFor(r, rows) ==
    /\ Len(NewEntries(r)) \in Nat
    /\ DOMAIN NewEntries(r) = 1 .. Len(NewEntries(r))
    /\ NewEntries(r) \in Seq({NewEntries(r)[j] : j \in 1 .. Len(NewEntries(r))})
    /\ \A e \in rows : /\ e.place - LogLength(r) + 1 \in 1 .. Len(NewEntries(r))
                       /\ NewEntries(r)[e.place - LogLength(r) + 1] = AbstractEntry(e)'
    /\ \A j \in 1 .. Len(NewEntries(r)) : \E e \in rows : e.place = LogLength(r) + j - 1

LEMMA LogExtended ==
    ASSUME Shape, Indexed, Indexed', \A e \in events : AbstractEntry(e)' = AbstractEntry(e),
           NEW r \in Run, NEW rows, events' = events \cup rows,
           \A e \in rows : e.run = r /\ e.place >= LogLength(r)
    PROVE  /\ Logs' = [Logs EXCEPT ![r] = @ \o NewEntries(r)]
           /\ AddedFor(r, rows)
<1>0. PICK n, f : n = LogLength(r) /\ f = AbstractLog(r)
  OBVIOUS
<1>1. PICK m, g : m = LogLength(r)' /\ g = AbstractLog(r)'
  OBVIOUS
<1>2. n \in Nat /\ m \in Nat
  BY <1>0, <1>1 DEF Indexed
<1>3. \A e \in EventsOf(r) : e \in EventsOf(r)'
  BY DEF EventsOf
<1>4. n <= m
  <2>1. CASE n = 0
    BY <1>2, <2>1
  <2>2. CASE n # 0
    <3>1. n \in 1 .. n
      BY <1>2, <2>2
    <3>2. PICK e \in EventsOf(r) : e.place = n - 1
      BY <1>0, <3>1 DEF Indexed
    <3>3. e.place + 1 \in 1 .. m
      BY <1>1, <1>3 DEF Indexed
    <3> QED
      BY <1>2, <3>2, <3>3
  <2> QED
    BY <2>1, <2>2
<1>5. f = [i \in 1 .. n |-> f[i]] /\ g = [i \in 1 .. m |-> g[i]]
  BY <1>0, <1>1 DEF Indexed
<1>6. ASSUME NEW i \in 1 .. n PROVE g[i] = f[i]
  <2>1. PICK e \in EventsOf(r) : e.place = i - 1
    BY <1>0 DEF Indexed
  <2>2. e.place + 1 = i
    BY <2>1, <1>2
  <2>3. f[i] = AbstractEntry(e)
    BY <1>0, <2>2 DEF Indexed
  <2>4. g[i] = AbstractEntry(e)'
    BY <1>1, <1>3, <2>2 DEF Indexed
  <2>5. e \in events
    BY DEF EventsOf
  <2> QED
    BY <2>3, <2>4, <2>5
<1>7. PICK S : f \in [1 .. n -> S] /\ g \in [1 .. m -> S]
  <2>1. f \in [1 .. n -> {f[i] : i \in 1 .. n} \cup {g[i] : i \in 1 .. m}]
    BY <1>5
  <2>2. g \in [1 .. m -> {f[i] : i \in 1 .. n} \cup {g[i] : i \in 1 .. m}]
    BY <1>5
  <2> QED
    BY <2>1, <2>2
<1>8. PICK new : new = SubSeq(g, Len(f) + 1, Len(g))
  OBVIOUS
<1>9. /\ g = f \o new /\ new \in Seq(S) /\ Len(new) = m - n /\ DOMAIN new = 1 .. m - n
      /\ \A j \in 1 .. m - n : new[j] = g[n + j]
  <2>1. \A i \in 1 .. n : g[i] = f[i]
    BY <1>6
  <2>2. g = f \o new
    BY <2>1, <1>2, <1>4, <1>7, <1>8, Extension
  <2>3. Len(new) = m - n
    BY <2>1, <1>2, <1>4, <1>7, <1>8, Extension
  <2>4. new \in Seq(S)
    BY <2>1, <1>2, <1>4, <1>7, <1>8, Extension
  <2>5. DOMAIN new = 1 .. m - n
    BY <2>3, <2>4
  <2>6. Len(f) = n /\ f \in Seq(S) /\ g \in Seq(S)
    BY <1>2, <1>7
  <2>7. \A j \in 1 .. m - n : new[j] = g[n + j]
    BY <1>2, <1>4, <2>2, <2>3, <2>4, <2>6
  <2> QED
    BY <2>2, <2>3, <2>4, <2>5, <2>7
<1>10. Logs[r] = f /\ Logs'[r] = g
  BY <1>0, <1>1 DEF Logs
<1>11. new = NewEntries(r)
  BY <1>8, <1>10 DEF NewEntries
<1>12. Logs' = [Logs EXCEPT ![r] = @ \o new]
  <2>1. ASSUME NEW s \in Run, s # r PROVE AbstractLog(s)' = AbstractLog(s)
    <3>1. EventsOf(s)' = EventsOf(s)
      BY <2>1 DEF EventsOf
    <3>2. PICK p, q, h : p = LogLength(s) /\ q = LogLength(s)' /\ h = AbstractLog(s)'
      OBVIOUS
    <3>3. p \in Nat /\ q \in Nat
      BY <3>2 DEF Indexed
    <3>4. p = q
      <4>1. \A i \in 1 .. p : i \in 1 .. q
        <5> TAKE i \in 1 .. p
        <5>1. PICK e \in EventsOf(s) : e.place = i - 1
          BY <3>2 DEF Indexed
        <5>2. e.place + 1 \in 1 .. q
          BY <3>1, <3>2 DEF Indexed
        <5> QED
          BY <3>3, <5>1, <5>2
      <4>2. \A i \in 1 .. q : i \in 1 .. p
        <5> TAKE i \in 1 .. q
        <5>1. PICK e \in EventsOf(s) : e.place = i - 1
          BY <3>1, <3>2 DEF Indexed
        <5>2. e.place + 1 \in 1 .. p
          BY <3>2 DEF Indexed
        <5> QED
          BY <3>3, <5>1, <5>2
      <4> QED
        BY <3>3, <4>1, <4>2
    <3>5. ASSUME NEW i \in 1 .. p PROVE h[i] = AbstractLog(s)[i]
      <4>1. PICK e \in EventsOf(s) : e.place = i - 1
        BY <3>2 DEF Indexed
      <4>2. e.place + 1 = i /\ e \in events
        BY <4>1, <3>3 DEF EventsOf
      <4>3. AbstractLog(s)[i] = AbstractEntry(e)
        BY <4>2 DEF Indexed
      <4>4. h[i] = AbstractEntry(e)'
        BY <3>1, <3>2, <4>2 DEF Indexed
      <4> QED
        BY <4>2, <4>3, <4>4
    <3>6. AbstractLog(s) = [i \in 1 .. p |-> AbstractLog(s)[i]] /\ h = [i \in 1 .. p |-> h[i]]
      BY <3>2, <3>4 DEF Indexed
    <3> QED
      BY <3>2, <3>5, <3>6
  <2>2. \A s \in Run : Logs'[s] = IF s = r THEN Logs[s] \o new ELSE Logs[s]
    BY <1>9, <1>10, <2>1 DEF Logs
  <2>3. Logs' = [s \in Run |-> Logs'[s]] /\ Logs = [s \in Run |-> Logs[s]]
    BY DEF Logs
  <2> QED
    BY <2>2, <2>3
<1>13. ASSUME NEW e \in rows
       PROVE  e.place - n + 1 \in 1 .. Len(new) /\ new[e.place - n + 1] = AbstractEntry(e)'
  <2>1. e \in EventsOf(r)' /\ e.place >= n
    BY <1>0 DEF EventsOf
  <2>2. e.place \in Nat /\ e.place + 1 \in 1 .. m /\ g[e.place + 1] = AbstractEntry(e)'
    BY <1>1, <2>1 DEF Indexed
  <2>3. e.place - n + 1 \in 1 .. m - n /\ n + (e.place - n + 1) = e.place + 1
    BY <1>2, <2>1, <2>2
  <2> QED
    BY <1>9, <2>2, <2>3
<1>14. ASSUME NEW j \in 1 .. Len(new) PROVE \E e \in rows : e.place = n + j - 1
  <2>1. PICK i : i = n + j /\ i \in 1 .. m
    BY <1>2, <1>9
  <2>2. PICK e \in EventsOf(r)' : e.place = i - 1
    BY <1>1, <2>1 DEF Indexed
  <2>3. e \notin EventsOf(r)
    <3>1. ~(e.place + 1 \in 1 .. n)
      BY <1>2, <2>1, <2>2, <1>9
    <3> QED
      BY <1>0, <3>1 DEF Indexed
  <2> QED
    <3>1. e.place = n + j - 1
      BY <1>2, <1>9, <2>1, <2>2
    <3> QED
      BY <2>2, <2>3, <3>1 DEF EventsOf
<1>15. Len(new) \in Nat /\ DOMAIN new = 1 .. Len(new)
  BY <1>2, <1>4, <1>9
<1>16. new \in Seq({new[j] : j \in 1 .. Len(new)})
  BY <1>9
<1> QED
  BY <1>0, <1>11, <1>12, <1>13, <1>14, <1>15, <1>16 DEF AddedFor

LEMMA EntryKinds ==
    ASSUME Shape, IntentsKeyed, NEW e \in events
    PROVE  /\ AbstractEntry(e).kind \in Promise!Intent <=> e.type = "tool_call"
           /\ AbstractEntry(e).kind = "submit_checkpoint" <=>
                  e.type = "tool_call" /\ e.payload.name = "submit_checkpoint"
           /\ AbstractEntry(e).kind = "answer" <=> e.type = "tool_result"
           /\ AbstractEntry(e).kind = "proposed" <=> e.type = "checkpoint_proposed"
           /\ AbstractEntry(e).kind = "verdict" <=> e.type \in Verdicts
           /\ e.type \in {"tool_call", "tool_result"} => AbstractEntry(e).call = e.payload.call
           /\ e.type \in Verdicts \cup {"checkpoint_proposed"} =>
                  AbstractEntry(e).call = CheckpointCall(e.payload.cp)
<1>1. e.type \in EventType
  BY DEF Shape, EventsShape, Event
<1>2. e.type = "tool_call" => e.payload.name \in {"tool", "submit_checkpoint"}
  BY DEF IntentsKeyed
<1> QED
  BY <1>1, <1>2 DEF EventType, Verdicts, AbstractEntry, Promise!Intent

LEMMA LoggedIs ==
    ASSUME Indexed, NEW r \in Run, NEW kinds, NEW c
    PROVE  c \in Promise!Logged(r, kinds) <=>
               \E e \in EventsOf(r) : AbstractEntry(e).kind \in kinds /\ AbstractEntry(e).call = c
<1>1. PICK n, f : n = LogLength(r) /\ f = AbstractLog(r)
  OBVIOUS
<1>2. Logs[r] = f /\ f = [i \in 1 .. n |-> f[i]]
  BY <1>1 DEF Logs, Indexed
<1>3. Promise!Logged(r, kinds) = {e.call : e \in {x \in {f[i] : i \in 1 .. n} : x.kind \in kinds}}
  BY <1>2 DEF Promise!Logged, Promise!Range
<1>4. ASSUME NEW i \in 1 .. n PROVE \E e \in EventsOf(r) : f[i] = AbstractEntry(e)
  <2>1. PICK e \in EventsOf(r) : e.place = i - 1
    BY <1>1 DEF Indexed
  <2>2. e.place + 1 = i
    BY <2>1, <1>1 DEF Indexed
  <2> QED
    BY <1>1, <2>2 DEF Indexed
<1>5. ASSUME NEW e \in EventsOf(r) PROVE \E i \in 1 .. n : f[i] = AbstractEntry(e)
  BY <1>1 DEF Indexed
<1> QED
  BY <1>3, <1>4, <1>5

LEMMA IntentsLogged ==
    ASSUME Shape, Indexed, IntentsKeyed, NEW r \in Run, NEW c
    PROVE  /\ c \in Promise!Logged(r, Promise!Intent) <=>
                  \E i \in EventsOf(r) : i.type = "tool_call" /\ i.payload.call = c
           /\ c \in Promise!Logged(r, {"submit_checkpoint"}) <=>
                  \E i \in EventsOf(r) : /\ i.type = "tool_call" /\ i.payload.call = c
                                         /\ i.payload.name = "submit_checkpoint"
           /\ c \in Promise!Logged(r, {"answer"}) <=> Results(r, c) # {}
<1>1. \A e \in EventsOf(r) : e \in events
  BY DEF EventsOf
<1>2. c \in Promise!Logged(r, Promise!Intent) <=>
          \E i \in EventsOf(r) : i.type = "tool_call" /\ i.payload.call = c
  BY <1>1, LoggedIs, EntryKinds
<1>3. c \in Promise!Logged(r, {"submit_checkpoint"}) <=>
          \E i \in EventsOf(r) : /\ i.type = "tool_call" /\ i.payload.call = c
                                 /\ i.payload.name = "submit_checkpoint"
  BY <1>1, LoggedIs, EntryKinds
<1>4. c \in Promise!Logged(r, {"answer"}) <=>
          \E e \in EventsOf(r) : e.type = "tool_result" /\ e.payload.call = c
  BY <1>1, LoggedIs, EntryKinds
<1> QED
  BY <1>2, <1>3, <1>4 DEF Results

\* The call under verification is the call of the undecided checkpoint.
LEMMA CandidatesLogged ==
    ASSUME Shape, Indexed, Linked, Lineage, NEW r \in Run, NEW c
    PROVE  c \in Promise!UnderVerification(r) <=> \E k \in Candidates(r) : k.call = c
<1>1. CallsKnown
  BY CallsAre DEF Linked
<1>2. \A e \in EventsOf(r) : e \in events /\ e.run = r
  BY DEF EventsOf
<1>3. c \in Promise!Logged(r, {"proposed"}) <=>
          \E e \in EventsOf(r) : /\ e.type = "checkpoint_proposed"
                                 /\ CheckpointCall(e.payload.cp) = c
  BY <1>2, LoggedIs, EntryKinds DEF Linked
<1>4. c \in Promise!Logged(r, {"verdict"}) <=>
          \E e \in EventsOf(r) : e.type \in Verdicts /\ CheckpointCall(e.payload.cp) = c
  BY <1>2, LoggedIs, EntryKinds DEF Linked
<1>5. ASSUME NEW e \in EventsOf(r), e.type \in Verdicts \cup {"checkpoint_proposed"}
      PROVE  \E k \in checkpoints : /\ RecordOf(e, k) /\ k.run = r
                                    /\ CheckpointCall(e.payload.cp) = k.call
  <2>1. PICK k \in checkpoints : RecordOf(e, k)
    BY <1>2, <1>5 DEF Linked, CheckpointRecords
  <2> QED
    BY <1>1, <1>2, <2>1 DEF RecordOf, CallsKnown
<1>6. ASSUME NEW k \in CheckpointsOf(r)
      PROVE  /\ k \in checkpoints /\ k.run = r
             /\ \E e \in EventsOf(r) : /\ e.type = "checkpoint_proposed"
                                       /\ CheckpointCall(e.payload.cp) = k.call
             /\ k.status # "candidate" =>
                    \E e \in EventsOf(r) : /\ e.type \in Verdicts
                                           /\ CheckpointCall(e.payload.cp) = k.call
  <2>1. k \in checkpoints /\ k.run = r /\ Recorded(k) /\ CheckpointCall(k.id) = k.call
    BY <1>1 DEF CheckpointsOf, Lineage, CallsKnown
  <2> QED
    BY <2>1 DEF Recorded, Proposed, Decided, EventAt, VerdictType, Verdicts
<1>7. ASSUME NEW k \in Candidates(r), k.call = c PROVE c \in Promise!UnderVerification(r)
  <2>1. k \in CheckpointsOf(r) /\ k \in checkpoints /\ k.run = r /\ k.status = "candidate"
    BY DEF Candidates, CheckpointsOf
  <2>2. c \in Promise!Logged(r, {"proposed"})
    BY <1>3, <1>6, <1>7, <2>1
  <2>3. ASSUME NEW e \in EventsOf(r), e.type \in Verdicts, CheckpointCall(e.payload.cp) = c
        PROVE  FALSE
    <3>1. PICK d \in checkpoints : RecordOf(e, d) /\ d.run = r /\ d.call = c
      BY <1>5, <2>3
    <3>2. d = k
      BY <1>7, <2>1, <3>1 DEF Linked, CheckpointsUnique
    <3>3. e.place = NoSeq
      BY <2>1, <2>3, <3>1, <3>2 DEF RecordOf, Linked, Undecided
    <3>4. e.place \in Nat
      BY <1>2 DEF Shape, EventsShape, Event
    <3> QED
      BY <3>3, <3>4 DEF NoSeq
  <2> QED
    BY <1>4, <2>2, <2>3 DEF Promise!UnderVerification
<1>8. ASSUME c \in Promise!UnderVerification(r) PROVE \E k \in Candidates(r) : k.call = c
  <2>1. /\ c \in Promise!Logged(r, {"proposed"})
        /\ c \notin Promise!Logged(r, {"verdict"})
    BY <1>8 DEF Promise!UnderVerification
  <2>2. PICK e \in EventsOf(r) : /\ e.type = "checkpoint_proposed"
                                 /\ CheckpointCall(e.payload.cp) = c
    BY <1>3, <2>1
  <2>3. PICK k \in checkpoints : k.run = r /\ k.call = c
    BY <1>5, <2>2
  <2>4. k \in CheckpointsOf(r)
    BY <2>3 DEF CheckpointsOf
  <2>5. k.status = "candidate"
    BY <1>4, <1>6, <2>1, <2>3, <2>4
  <2> QED
    BY <2>3, <2>4, <2>5 DEF Candidates
<1> QED
  BY <1>7, <1>8

-----------------------------------------------------------------------------
(* What each kind of step adds.                                               *)

LEMMA SameOwners ==
    ASSUME \A s \in Run : SameRow(s)
    PROVE  Phases' = Phases /\ Epochs' = Epochs
  BY DEF SameRow, Phases, Epochs

LEMMA QuietKept == ASSUME QuietStep PROVE Promise!DNext \/ UNCHANGED Promise!dvars
<1>1. Logs' = Logs
  BY DEF QuietStep, Logs, AbstractLog, AbstractEntry, EventsOf, LogLength, CheckpointCall
<1>2. CASE \A s \in Run : SameRow(s)
  BY <1>1, <1>2, SameOwners DEF Promise!dvars
<1>3. ASSUME NEW r \in Run, \A s \in Run \ {r} : SameRow(s),
             runs[r].status = "absent", runs'[r].status = "pending",
             runs'[r].epoch = runs[r].epoch
      PROVE  Promise!DNext
  <2>1. Epochs' = Epochs
    BY <1>3 DEF SameRow, Epochs
  <2>2. Phases' = [Phases EXCEPT ![r] = "pending"] /\ Phases[r] = "absent"
    BY <1>3 DEF SameRow, Phases
  <2>3. Promise!Create(r)
    BY <1>1, <2>1, <2>2 DEF Promise!Create
  <2> QED
    BY <2>3 DEF Promise!DNext
<1>4. ASSUME NEW r \in Run, \A s \in Run \ {r} : SameRow(s),
             runs[r].status \in Claimable, runs'[r].status = runs[r].status,
             runs'[r].epoch = runs[r].epoch + 1
      PROVE  Promise!DNext
  <2>1. Phases' = Phases /\ Phases[r] \in {"pending", "running"}
    BY <1>4 DEF SameRow, Phases, Claimable
  <2>2. Epochs' = [Epochs EXCEPT ![r] = @ + 1]
    BY <1>4 DEF SameRow, Epochs
  <2>3. Promise!Claim(r)
    BY <1>1, <2>1, <2>2 DEF Promise!Claim
  <2> QED
    BY <2>3 DEF Promise!DNext
<1> QED
  BY <1>2, <1>3, <1>4 DEF QuietStep

\* A step of the store, with what the entries before and after it are.
EntriesStep ==
    /\ LogInvariant /\ LogInvariant' /\ LogEffect /\ Indexed /\ Indexed'
    /\ CallsKnown' /\ \A e \in events : AbstractEntry(e)' = AbstractEntry(e)

LEMMA OneEntry ==
    ASSUME EntriesStep, NEW r \in Run, NEW e, InsertEvents({e}),
           e.run = r, e.place = LogLength(r)
    PROVE  /\ Logs' = [Logs EXCEPT ![r] = @ \o NewEntries(r)]
           /\ NewEntries(r) = <<AbstractEntry(e)'>>
<1>1. PICK rows, n : rows = {e} /\ n = LogLength(r)
  OBVIOUS
<1>2. /\ Shape /\ Indexed /\ Indexed' /\ \A x \in events : AbstractEntry(x)' = AbstractEntry(x)
      /\ events' = events \cup rows /\ n \in Nat
  BY <1>1 DEF EntriesStep, LogInvariant, FencedShape, InsertEvents, Indexed
<1>3. \A x \in rows : x.run = r /\ x.place >= LogLength(r)
  BY <1>1, <1>2
<1>4. Logs' = [Logs EXCEPT ![r] = @ \o NewEntries(r)] /\ AddedFor(r, rows)
  BY <1>2, <1>3, LogExtended
<1>5. PICK new : new = NewEntries(r)
  OBVIOUS
<1>6. /\ Len(new) \in Nat /\ DOMAIN new = 1 .. Len(new)
      /\ new \in Seq({new[j] : j \in 1 .. Len(new)})
  BY <1>4, <1>5 DEF AddedFor
<1>7. \A x \in rows : x.place - n + 1 \in 1 .. Len(new) /\ new[x.place - n + 1] = AbstractEntry(x)'
  BY <1>1, <1>4, <1>5 DEF AddedFor
<1>8. \A j \in 1 .. Len(new) : \E x \in rows : x.place = n + j - 1
  BY <1>1, <1>4, <1>5 DEF AddedFor
<1>9. 1 \in 1 .. Len(new) /\ new[1] = AbstractEntry(e)'
  <2>1. e.place - n + 1 = 1
    BY <1>1, <1>2
  <2> QED
    BY <1>1, <1>7, <2>1
<1>10. \A j \in 1 .. Len(new) : j = 1
  BY <1>1, <1>2, <1>6, <1>8
<1>11. Len(new) = 1
  BY <1>6, <1>9, <1>10
<1>12. new = <<AbstractEntry(e)'>>
  BY <1>6, <1>9, <1>11
<1> QED
  BY <1>4, <1>5, <1>12

LEMMA LogsAreSeqs == ASSUME Indexed, NEW r \in Run PROVE \E S : Logs[r] \in Seq(S)
<1>1. PICK n, f : n = LogLength(r) /\ f = AbstractLog(r)
  OBVIOUS
<1>2. n \in Nat /\ Logs[r] = f /\ f = [i \in 1 .. n |-> f[i]]
  BY <1>1 DEF Logs, Indexed
<1>3. f \in Seq({f[i] : i \in 1 .. n})
  BY <1>2
<1> QED
  BY <1>2, <1>3

LEMMA RecordKept ==
    ASSUME NEW r \in Run, Logs' = [Logs EXCEPT ![r] = @ \o NewEntries(r)],
           Epochs' = Epochs, Phases[r] = "running", NewEntries(r) # <<>>,
           \/ Promise!Reply(r, NewEntries(r)) \/ Promise!Completion(r, NewEntries(r))
           \/ LET c == NewEntries(r)[1].call
              IN  \/ Promise!Answer(r, c, NewEntries(r))
                  \/ Promise!Proposal(r, c, NewEntries(r))
                  \/ Promise!Judgement(r, c, NewEntries(r))
    PROVE  Promise!DNext
<1>1. Promise!Record(r, NewEntries(r))
  BY DEF Promise!Record
<1> QED
  BY <1>1 DEF Promise!DNext, NewEntries

LEMMA TransitionKept ==
    ASSUME EntriesStep, NEW r \in Run, NEW e, TransitionStep(r, e)
    PROVE  Promise!DNext
<1>1. /\ Logs' = [Logs EXCEPT ![r] = @ \o NewEntries(r)]
      /\ NewEntries(r) = <<AbstractEntry(e)'>>
  BY OneEntry DEF TransitionStep
<1>2. AbstractEntry(e)' = Promise!Entry(IF runs'[r].status = "completed" THEN "finished"
                                       ELSE "started", NoCall, runs'[r].epoch)
  BY DEF TransitionStep, AbstractEntry, Promise!Entry
<1>3. /\ Phases' = [Phases EXCEPT ![r] = runs'[r].status] /\ Phases[r] = runs[r].status
      /\ Epochs' = [Epochs EXCEPT ![r] = runs'[r].epoch] /\ Epochs[r] = runs[r].epoch
  BY DEF TransitionStep, SameRow, Phases, Epochs
<1>4. CASE runs[r].status = "pending" /\ runs'[r].status = "running"
  <2>1. PICK x : x = Promise!Entry("started", NoCall, runs'[r].epoch)
    OBVIOUS
  <2>2. NewEntries(r) = <<x>>
    BY <1>1, <1>2, <1>4, <2>1
  <2>3. Logs[r] \o <<x>> = Append(Logs[r], x)
    <3>1. PICK S : Logs[r] \in Seq(S)
      BY LogsAreSeqs DEF EntriesStep
    <3>2. Logs[r] \in Seq(S \cup {x})
      BY <3>1
    <3> QED
      BY <3>2
  <2>4. Logs' = [Logs EXCEPT ![r] = Append(@, x)]
    BY <1>1, <2>2, <2>3
  <2>5. Phases' = [Phases EXCEPT ![r] = "running"] /\ Phases[r] = "pending"
    BY <1>3, <1>4
  <2>6. Promise!Start(r, runs'[r].epoch)
    BY <2>1, <2>4, <2>5 DEF Promise!Start
  <2>7. CASE runs'[r].epoch = runs[r].epoch /\ runs[r].epoch > 0
    <3>1. Epochs' = Epochs
      BY <1>3, <2>7 DEF Epochs
    <3>2. Promise!StartAsOwner(r)
      BY <1>3, <2>6, <2>7, <3>1 DEF Promise!StartAsOwner
    <3> QED
      BY <3>2 DEF Promise!DNext
  <2>8. CASE runs'[r].epoch = runs[r].epoch + 1
    <3>1. Promise!ClaimAndStart(r)
      BY <1>3, <2>6, <2>8 DEF Promise!ClaimAndStart
    <3> QED
      BY <3>1 DEF Promise!DNext
  <2> QED
    BY <1>4, <2>7, <2>8 DEF TransitionStep
<1>5. CASE runs[r].status = "running" /\ runs'[r].status = "completed"
  <2>1. runs'[r].epoch = runs[r].epoch
    BY <1>5 DEF TransitionStep
  <2>2. NewEntries(r) = <<Promise!Entry("finished", NoCall, Epochs[r])>>
    BY <1>1, <1>2, <1>3, <1>5, <2>1
  <2>3. Promise!Completion(r, NewEntries(r))
    BY <1>3, <1>5, <2>2 DEF Promise!Completion
  <2>4. Epochs' = Epochs /\ Phases[r] = "running"
    BY <1>3, <1>5, <2>1 DEF Epochs
  <2>5. NewEntries(r) # <<>>
    BY <2>2
  <2> QED
    BY <1>1, <2>3, <2>4, <2>5, RecordKept
<1> QED
  BY <1>4, <1>5 DEF TransitionStep

\* No result at all when raw events write none: the first one would be justified.
LEMMA PendingUnanswered ==
    ASSUME LogInvariant, RawCalls = {}, NEW r \in Run, NEW i \in OpenCalls(r)
    PROVE  Results(r, i.payload.call) = {}
<1> SUFFICES ASSUME NEW e \in Results(r, i.payload.call) PROVE FALSE
  OBVIOUS
<1>1. i \in events /\ i.run = r /\ i.type = "tool_call" /\ ~AnsweredLater(i)
  BY DEF OpenCalls, EventsOf
<1>2. e \in events /\ e.run = r /\ e.type = "tool_result" /\ e.payload.call = i.payload.call
  BY DEF Results, EventsOf
<1>3. Justified(e)
  BY <1>1, <1>2 DEF LogInvariant, ResultsLinked, CheckedResult, Linked, IntentsKeyed
<1>4. PICK j \in events : /\ j.run = e.run /\ j.type = "tool_call"
                          /\ j.payload.call = e.payload.call /\ j.place < e.place
  BY <1>3 DEF Justified
<1>5. j = i
  BY <1>1, <1>2, <1>4, IntentUnique DEF LogInvariant, Linked
<1>6. e.place > i.place
  BY <1>1, <1>2, <1>4, <1>5 DEF LogInvariant, FencedShape, Shape, EventsShape, Event
<1> QED
  BY <1>1, <1>6 DEF AnsweredLater

\* A step that adds one entry to the log of a running run.
LEMMA OneRecorded ==
    ASSUME EntriesStep, NEW r \in Run, NEW e, WorkStep(r, {e}), e.place = LogLength(r)
    PROVE  /\ Logs' = [Logs EXCEPT ![r] = @ \o NewEntries(r)]
           /\ NewEntries(r) = <<AbstractEntry(e)'>> /\ NewEntries(r) # <<>>
           /\ NewEntries(r)[1] = AbstractEntry(e)'
           /\ Epochs' = Epochs /\ Phases' = Phases
           /\ Phases[r] = "running" /\ e.writer = Epochs[r]
<1>1. InsertEvents({e}) /\ e.run = r /\ e.writer = runs[r].epoch
  BY DEF WorkStep
<1>2. /\ Logs' = [Logs EXCEPT ![r] = @ \o NewEntries(r)]
      /\ NewEntries(r) = <<AbstractEntry(e)'>>
  BY <1>1, OneEntry
<1>3. Epochs' = Epochs /\ Phases' = Phases /\ Phases[r] = "running" /\ e.writer = Epochs[r]
  BY <1>1, SameOwners DEF WorkStep, Phases, Epochs
<1> QED
  BY <1>2, <1>3

LEMMA AnswerKept ==
    ASSUME EntriesStep, NEW r \in Run, NEW e, AnswerStep(r, e)
    PROVE  Promise!DNext
<1>1. /\ WorkStep(r, {e}) /\ e.place = LogLength(r) /\ e.type = "tool_result"
      /\ Results(r, e.payload.call) = {}
  BY DEF AnswerStep
<1>2. /\ Logs' = [Logs EXCEPT ![r] = @ \o NewEntries(r)]
      /\ NewEntries(r) = <<AbstractEntry(e)'>> /\ NewEntries(r) # <<>>
      /\ NewEntries(r)[1] = AbstractEntry(e)'
      /\ Epochs' = Epochs /\ Phases' = Phases
      /\ Phases[r] = "running" /\ e.writer = Epochs[r]
  BY <1>1, OneRecorded
<1>3. PICK c : c = e.payload.call
  OBVIOUS
<1>4. AbstractEntry(e)' = Promise!Entry("answer", c, Epochs[r])
  BY <1>1, <1>2, <1>3 DEF AbstractEntry, Promise!Entry
<1>5. PICK i \in EventsOf(r) : /\ i.type = "tool_call" /\ i.payload.call = c
                               /\ i.payload.name # "submit_checkpoint"
  BY <1>3 DEF AnswerStep
<1>6. Shape /\ Indexed /\ IntentsKeyed /\ KeysUnique
  BY DEF EntriesStep, LogInvariant, FencedShape, Linked
<1>7. c \in Promise!Open(r)
  BY <1>1, <1>3, <1>5, <1>6, IntentsLogged DEF Promise!Open
<1>8. c \notin Promise!Logged(r, {"submit_checkpoint"})
  <2> SUFFICES ASSUME NEW j \in EventsOf(r), j.type = "tool_call", j.payload.call = c,
                      j.payload.name = "submit_checkpoint"
               PROVE  FALSE
    BY <1>6, IntentsLogged
  <2>1. i = j
    BY <1>5, <1>6, IntentUnique DEF EventsOf
  <2> QED
    BY <1>5, <2>1
<1>9. Promise!Entry("answer", c, Epochs[r]).call = c
  BY DEF Promise!Entry
<1>10. NewEntries(r)[1].call = c
  BY <1>2, <1>4, <1>9
<1>11. Promise!Answer(r, c, NewEntries(r))
  BY <1>2, <1>4, <1>7, <1>8 DEF Promise!Answer
<1> QED
  BY <1>2, <1>10, <1>11, RecordKept

LEMMA RawKept ==
    ASSUME EntriesStep, RawCalls = {}, NEW r \in Run, NEW e, RawStep(r, e)
    PROVE  Promise!DNext
<1>1. WorkStep(r, {e}) /\ e.place = LogLength(r) /\ e.type = "llm_call"
  BY DEF RawStep
<1>2. /\ Logs' = [Logs EXCEPT ![r] = @ \o NewEntries(r)]
      /\ NewEntries(r) = <<AbstractEntry(e)'>> /\ NewEntries(r) # <<>>
      /\ NewEntries(r)[1] = AbstractEntry(e)'
      /\ Epochs' = Epochs /\ Phases' = Phases
      /\ Phases[r] = "running" /\ e.writer = Epochs[r]
  BY <1>1, OneRecorded
<1>3. AbstractEntry(e)' = Promise!Entry("response", NoCall, Epochs[r])
  BY <1>1, <1>2 DEF AbstractEntry, Promise!Entry
<1>4. DOMAIN NewEntries(r) \ {1} = {}
  BY <1>2
<1>5. Promise!Reply(r, NewEntries(r))
  BY <1>2, <1>3, <1>4 DEF Promise!Reply
<1> QED
  BY <1>2, <1>5, RecordKept

LEMMA ProposalKept ==
    ASSUME EntriesStep, RawCalls = {}, NEW r \in Run, NEW e, NEW k, ProposalStep(r, e, k)
    PROVE  Promise!DNext
<1>1. /\ WorkStep(r, {e}) /\ e.place = LogLength(r) /\ e.type = "checkpoint_proposed"
      /\ e.payload.cp = k.id /\ k \in checkpoints' /\ Candidates(r) = {}
  BY DEF ProposalStep
<1>2. /\ Logs' = [Logs EXCEPT ![r] = @ \o NewEntries(r)]
      /\ NewEntries(r) = <<AbstractEntry(e)'>> /\ NewEntries(r) # <<>>
      /\ NewEntries(r)[1] = AbstractEntry(e)'
      /\ Epochs' = Epochs /\ Phases' = Phases
      /\ Phases[r] = "running" /\ e.writer = Epochs[r]
  BY <1>1, OneRecorded
<1>3. PICK c : c = k.call
  OBVIOUS
<1>4. AbstractEntry(e)' = Promise!Entry("proposed", c, Epochs[r])
  <2>1. CheckpointCall(k.id)' = c
    BY <1>1, <1>3 DEF EntriesStep, CallsKnown
  <2> QED
    BY <1>1, <1>2, <2>1 DEF AbstractEntry, Promise!Entry
<1>5. PICK i \in OpenCalls(r) : /\ i.payload.call = c
                                       /\ i.payload.name = "submit_checkpoint"
  BY <1>3 DEF ProposalStep
<1>6. i \in EventsOf(r) /\ i.type = "tool_call" /\ Results(r, c) = {}
  BY <1>5, PendingUnanswered DEF OpenCalls, EntriesStep
<1>7. Shape /\ Indexed /\ Linked /\ Lineage /\ IntentsKeyed
  BY DEF EntriesStep, LogInvariant, FencedShape, Linked
<1>8. c \in Promise!Open(r) \cap Promise!Logged(r, {"submit_checkpoint"})
  BY <1>5, <1>6, <1>7, IntentsLogged DEF Promise!Open
<1>9. Promise!UnderVerification(r) = {}
  <2>1. ASSUME NEW d, d \in Promise!UnderVerification(r) PROVE FALSE
    <3>1. \E h \in Candidates(r) : h.call = d
      BY <1>7, <2>1, CandidatesLogged
    <3> QED
      BY <1>1, <3>1
  <2> QED
    BY <2>1
<1>10. NewEntries(r)[1].call = c
  <2>1. Promise!Entry("proposed", c, Epochs[r]).call = c
    BY DEF Promise!Entry
  <2> QED
    BY <1>2, <1>4, <2>1
<1>11. Promise!Proposal(r, c, NewEntries(r))
  BY <1>2, <1>4, <1>8, <1>9 DEF Promise!Proposal
<1> QED
  BY <1>2, <1>10, <1>11, RecordKept

LEMMA VerdictKept ==
    ASSUME EntriesStep, RawCalls = {}, NEW r \in Run,
           NEW v, NEW e, NEW k, NEW d, VerdictStep(r, v, e, k, d)
    PROVE  Promise!DNext
<1>1. /\ InsertEvents({v, e}) /\ v.place = LogLength(r) /\ v.type \in Verdicts
      /\ v.payload.cp = k.id /\ d \in checkpoints' /\ d.id = k.id /\ d.call = k.call
      /\ e.place = LogLength(r) + 1 /\ e.type = "tool_result" /\ e.payload.call = k.call
      /\ v.run = r /\ e.run = r /\ v.writer = runs[r].epoch /\ e.writer = runs[r].epoch
      /\ k \in Candidates(r)
  BY DEF VerdictStep, WorkStep, VerdictType, Verdicts
<1>2. Epochs' = Epochs /\ Phases' = Phases /\ Phases[r] = "running" /\ Epochs[r] = runs[r].epoch
  BY SameOwners DEF VerdictStep, WorkStep, Phases, Epochs
<1>3. PICK c : c = k.call
  OBVIOUS
<1>4. PICK rows, n : rows = {v, e} /\ n = LogLength(r)
  OBVIOUS
<1>5. /\ Shape /\ Indexed /\ Indexed' /\ \A x \in events : AbstractEntry(x)' = AbstractEntry(x)
      /\ events' = events \cup rows /\ n \in Nat
  BY <1>1, <1>4 DEF EntriesStep, LogInvariant, FencedShape, InsertEvents, Indexed
<1>6. \A x \in rows : x.run = r /\ x.place >= LogLength(r)
  BY <1>1, <1>4, <1>5
<1>7. Logs' = [Logs EXCEPT ![r] = @ \o NewEntries(r)] /\ AddedFor(r, rows)
  BY <1>5, <1>6, LogExtended
<1>8. PICK new : new = NewEntries(r)
  OBVIOUS
<1>9. new = <<AbstractEntry(v)', AbstractEntry(e)'>>
  <2>1. /\ Len(new) \in Nat /\ DOMAIN new = 1 .. Len(new)
        /\ new \in Seq({new[j] : j \in 1 .. Len(new)})
    BY <1>7, <1>8 DEF AddedFor
  <2>2. \A x \in rows : x.place - n + 1 \in 1 .. Len(new) /\ new[x.place - n + 1] = AbstractEntry(x)'
    BY <1>4, <1>7, <1>8 DEF AddedFor
  <2>3. \A j \in 1 .. Len(new) : \E x \in rows : x.place = n + j - 1
    BY <1>4, <1>7, <1>8 DEF AddedFor
  <2>4. v.place - n + 1 = 1 /\ e.place - n + 1 = 2
    BY <1>1, <1>4, <1>5
  <2>5. /\ 1 \in 1 .. Len(new) /\ new[1] = AbstractEntry(v)'
        /\ 2 \in 1 .. Len(new) /\ new[2] = AbstractEntry(e)'
    BY <1>4, <2>2, <2>4
  <2>6. \A j \in 1 .. Len(new) : j = 1 \/ j = 2
    BY <1>1, <1>4, <1>5, <2>1, <2>3
  <2>7. Len(new) = 2
    BY <2>1, <2>5, <2>6
  <2> QED
    BY <2>1, <2>5, <2>7
<1>10. /\ AbstractEntry(v)' = Promise!Entry("verdict", c, Epochs[r])
       /\ AbstractEntry(e)' = Promise!Entry("answer", c, Epochs[r])
  <2>1. CheckpointCall(k.id)' = c
    BY <1>1, <1>3 DEF EntriesStep, CallsKnown
  <2>2. AbstractEntry(v)' = Promise!Entry("verdict", c, Epochs[r])
    BY <1>1, <1>2, <2>1 DEF AbstractEntry, Promise!Entry, Verdicts
  <2>3. AbstractEntry(e)' = Promise!Entry("answer", c, Epochs[r])
    BY <1>1, <1>2, <1>3 DEF AbstractEntry, Promise!Entry
  <2> QED
    BY <2>2, <2>3
<1>11. /\ Shape /\ Indexed /\ Linked /\ Lineage /\ IntentsKeyed /\ LinkedShape
       /\ ResultsLinked /\ CandidateOpen
  BY <1>5 DEF EntriesStep, LogInvariant, Linked, LinkedShape
<1>12. k \in checkpoints /\ k.run = r /\ k.status = "candidate"
  BY <1>1 DEF Candidates, CheckpointsOf
<1>13. c \in Promise!UnderVerification(r)
  BY <1>1, <1>3, <1>11, CandidatesLogged
<1>14. c \in Promise!Open(r)
  <2>1. PICK i \in events : /\ Request(i, k)
                            /\ \A x \in events : ~(/\ x.run = k.run
                                                   /\ x.type = "tool_result"
                                                   /\ x.payload.call = k.call)
    BY <1>11, <1>12, CandidateUnanswered
  <2>2. i \in EventsOf(r) /\ i.type = "tool_call" /\ i.payload.call = c
    BY <1>3, <1>12, <2>1 DEF Request, EventsOf
  <2>3. Results(r, c) = {}
    BY <1>3, <1>12, <2>1 DEF Results, EventsOf
  <2> QED
    BY <1>11, <2>2, <2>3, IntentsLogged DEF Promise!Open
<1>15. NewEntries(r)[1].call = c /\ NewEntries(r) # <<>>
  <2>1. Promise!Entry("verdict", c, Epochs[r]).call = c
    BY DEF Promise!Entry
  <2> QED
    BY <1>8, <1>9, <1>10, <2>1
<1>16. Promise!Judgement(r, c, NewEntries(r))
  BY <1>2, <1>8, <1>9, <1>10, <1>13, <1>14 DEF Promise!Judgement
<1> QED
  BY <1>2, <1>7, <1>15, <1>16, RecordKept

LEMMA ReplyKept ==
    ASSUME EntriesStep, NEW r \in Run, NEW rows, ReplyStep(r, rows)
    PROVE  Promise!DNext
<1>1. PICK n, new : n = LogLength(r) /\ new = NewEntries(r)
  OBVIOUS
<1>2. /\ Shape /\ Indexed /\ Indexed' /\ \A x \in events : AbstractEntry(x)' = AbstractEntry(x)
      /\ IntentsKeyed /\ KeysUnique /\ KeysUnique' /\ n \in Nat
  BY <1>1 DEF EntriesStep, LogInvariant, FencedShape, Linked, Indexed
<1>3. /\ events' = events \cup rows
      /\ \A x \in rows, y \in events \cup rows : ~Conflict(x, y)
      /\ \A x \in rows : x.run = r /\ x.place >= LogLength(r)
  BY DEF ReplyStep, WorkStep, InsertEvents
<1>4. Epochs' = Epochs /\ Phases' = Phases /\ Phases[r] = "running" /\ Epochs[r] = runs[r].epoch
  BY SameOwners DEF ReplyStep, WorkStep, Phases, Epochs
<1>5. Logs' = [Logs EXCEPT ![r] = @ \o NewEntries(r)] /\ AddedFor(r, rows)
  BY <1>2, <1>3, LogExtended
<1>6. Len(new) \in Nat /\ DOMAIN new = 1 .. Len(new)
  BY <1>1, <1>5 DEF AddedFor
<1>7. \A x \in rows : x.place - n + 1 \in 1 .. Len(new) /\ new[x.place - n + 1] = AbstractEntry(x)'
  BY <1>1, <1>5 DEF AddedFor
<1>8. \A j \in 1 .. Len(new) : \E x \in rows : x.place = n + j - 1
  BY <1>1, <1>5 DEF AddedFor
<1>9. /\ 1 \in DOMAIN new /\ new[1] = Promise!Entry("response", NoCall, Epochs[r])
  <2>1. PICK x \in rows : x.place = n
    BY <1>1 DEF ReplyStep
  <2>2. x.type = "llm_call" /\ x.writer = Epochs[r]
    BY <1>1, <1>4, <2>1 DEF ReplyStep, WorkStep
  <2>3. x.place - n + 1 = 1
    BY <1>2, <2>1
  <2>4. AbstractEntry(x)' = Promise!Entry("response", NoCall, Epochs[r])
    BY <2>2 DEF AbstractEntry, Promise!Entry
  <2> QED
    BY <1>6, <1>7, <2>3, <2>4
<1>10. ASSUME NEW j \in DOMAIN new \ {1}
       PROVE  \E x \in rows : /\ x.place = n + j - 1 /\ x.type = "tool_call"
                              /\ x.key = CallKey("tool_call", x.payload.call)
                              /\ x.payload.call \in CallId
                              /\ x.payload.name \in Promise!Intent
                              /\ new[j] = Promise!Entry(x.payload.name, x.payload.call, Epochs[r])
  <2>1. j \in 1 .. Len(new) /\ j # 1
    BY <1>6
  <2>2. PICK x \in rows : x.place = n + j - 1
    BY <1>8, <2>1
  <2>3. x.place # n /\ x.place - n + 1 = j
    BY <1>2, <1>6, <2>1, <2>2
  <2>4. x.type = "tool_call"
    BY <1>1, <2>3 DEF ReplyStep
  <2>5. /\ x.key = CallKey("tool_call", x.payload.call)
        /\ x.payload.call \in CallId /\ x.payload.name \in {"tool", "submit_checkpoint"}
    BY <2>4 DEF ReplyStep
  <2>6. x.writer = Epochs[r]
    BY <1>4 DEF ReplyStep, WorkStep
  <2>7. AbstractEntry(x)' = Promise!Entry(x.payload.name, x.payload.call, Epochs[r])
    BY <2>4, <2>6 DEF AbstractEntry, Promise!Entry
  <2>8. new[j] = AbstractEntry(x)'
    BY <1>7, <2>3
  <2> QED
    BY <2>2, <2>4, <2>5, <2>7, <2>8 DEF Promise!Intent
<1>11. \A c : CallKey("tool_call", c) # NoKey
  BY DEF CallKey, NoKey
<1>12. ASSUME NEW j \in DOMAIN new \ {1}
       PROVE  /\ new[j].kind \in Promise!Intent /\ new[j].by = Epochs[r]
              /\ new[j].call \in CallId \ Promise!Logged(r, Promise!Intent)
  <2>1. PICK x \in rows : /\ x.place = n + j - 1 /\ x.type = "tool_call"
                          /\ x.key = CallKey("tool_call", x.payload.call)
                          /\ x.payload.call \in CallId
                          /\ x.payload.name \in Promise!Intent
                          /\ new[j] = Promise!Entry(x.payload.name, x.payload.call, Epochs[r])
    BY <1>10
  <2>2. /\ new[j].kind = x.payload.name /\ new[j].call = x.payload.call
        /\ new[j].by = Epochs[r]
    BY <2>1 DEF Promise!Entry
  <2>3. ASSUME NEW i \in EventsOf(r), i.type = "tool_call", i.payload.call = x.payload.call
        PROVE  FALSE
    <3>1. i \in events /\ i.run = r /\ i.key = x.key /\ i.key # NoKey
      BY <1>2, <1>11, <2>1, <2>3 DEF EventsOf, IntentsKeyed
    <3>2. i = x
      BY <1>3, <2>1, <3>1 DEF Conflict
    <3>3. i.place + 1 \in 1 .. n
      BY <1>1, <1>2 DEF Indexed
    <3>4. j \in 1 .. Len(new)
      BY <1>6
    <3> QED
      BY <1>2, <1>6, <2>1, <3>2, <3>3, <3>4
  <2>4. x.payload.call \notin Promise!Logged(r, Promise!Intent)
    BY <1>2, <2>3, IntentsLogged
  <2> QED
    BY <2>1, <2>2, <2>4
<1>13. ASSUME NEW i \in DOMAIN new \ {1}, NEW j \in DOMAIN new \ {1}, new[i].call = new[j].call
       PROVE  i = j
  <2>1. PICK x \in rows : /\ x.place = n + i - 1 /\ x.key = CallKey("tool_call", x.payload.call)
                          /\ new[i] = Promise!Entry(x.payload.name, x.payload.call, Epochs[r])
    BY <1>10
  <2>2. PICK y \in rows : /\ y.place = n + j - 1 /\ y.key = CallKey("tool_call", y.payload.call)
                          /\ new[j] = Promise!Entry(y.payload.name, y.payload.call, Epochs[r])
    BY <1>10
  <2>3. x.payload.call = y.payload.call
    BY <1>13, <2>1, <2>2 DEF Promise!Entry
  <2>4. x = y
    BY <1>3, <1>11, <2>1, <2>2, <2>3 DEF Conflict
  <2>5. i \in 1 .. Len(new) /\ j \in 1 .. Len(new)
    BY <1>6
  <2> QED
    BY <1>2, <1>6, <2>1, <2>2, <2>4, <2>5
<1>14. Promise!Reply(r, new)
  BY <1>4, <1>9, <1>12, <1>13 DEF Promise!Reply
<1>15. NewEntries(r) # <<>>
  BY <1>1, <1>9
<1> QED
  BY <1>1, <1>4, <1>5, <1>14, <1>15, RecordKept

LEMMA StoreStepKept == ASSUME EntriesStep, RawCalls = {} PROVE [Promise!DNext]_(Promise!dvars)
<1>1. CASE QuietStep
  BY <1>1, QuietKept
<1>2. ASSUME NEW r \in Run, NEW rows, ReplyStep(r, rows) PROVE Promise!DNext
  BY <1>2, ReplyKept
<1>3. ASSUME NEW r \in Run, NEW e, TransitionStep(r, e) PROVE Promise!DNext
  BY <1>3, TransitionKept
<1>4. ASSUME NEW r \in Run, NEW e, AnswerStep(r, e) PROVE Promise!DNext
  BY <1>4, AnswerKept
<1>5. ASSUME NEW r \in Run, NEW e, RawStep(r, e) PROVE Promise!DNext
  BY <1>5, RawKept
<1>6. ASSUME NEW r \in Run, NEW e, NEW k, ProposalStep(r, e, k) PROVE Promise!DNext
  BY <1>6, ProposalKept
<1>7. ASSUME NEW r \in Run, NEW v, NEW e, NEW k, NEW d, VerdictStep(r, v, e, k, d)
      PROVE  Promise!DNext
  BY <1>7, VerdictKept
<1> QED
  BY <1>1, <1>2, <1>3, <1>4, <1>5, <1>6, <1>7 DEF EntriesStep, LogEffect

LEMMA InitKept == Init => Promise!DInit
<1> SUFFICES ASSUME Init PROVE Promise!DInit
  OBVIOUS
<1>1. Phases = [r \in Run |-> "absent"] /\ Epochs = [r \in Run |-> 0]
  BY DEF Init, AbsentRun, Phases, Epochs
<1>2. ASSUME NEW r \in Run PROVE AbstractLog(r) = <<>>
  <2>1. EventsOf(r) = {}
    BY DEF Init, EventsOf
  <2>2. LogLength(r) = 0
    BY <2>1 DEF LogLength
  <2> QED
    BY <2>2 DEF AbstractLog
<1>3. Logs = [r \in Run |-> <<>>]
  BY <1>2 DEF Logs
<1> QED
  BY <1>1, <1>3 DEF Promise!DInit

\* Every transaction of the run store is one step of the durability contract of
\* DurableLog, or leaves its state alone, when no tool_result is appended raw.
THEOREM StoreKeepsPromise == ASSUME RawCalls = {} PROVE Spec => KeepsPromise
<1>1. LogInvariant => Indexed /\ CallsKnown
  BY IndexedLog, CallsAre DEF LogInvariant, FencedShape, Linked
<1>2. LogInvariant' => Indexed' /\ CallsKnown'
  BY <1>1, PTL
<1>3. ASSUME LogInvariant, LogInvariant', [Next]_vars PROVE [Promise!DNext]_(Promise!dvars)
  <2>1. LogEffect
    BY <1>3, StepEffect DEF LogInvariant, FencedShape, Fenced
  <2>2. \A e \in events : AbstractEntry(e)' = AbstractEntry(e)
    BY <1>1, <1>2, <1>3, <2>1, EntriesStay
  <2> QED
    BY <1>1, <1>2, <1>3, <2>1, <2>2, StoreStepKept DEF EntriesStep
<1> QED
  BY <1>3, InitKept, LogIsSound, PTL DEF Spec, KeepsPromise, Promise!DSpec

=============================================================================

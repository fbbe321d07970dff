-------------------------- MODULE AgentContextProofs --------------------------
(* Proofs about AgentContext, for every value of its constants.               *)
EXTENDS AgentContext, RunStoreProofs

Pcs == {"none", "claiming", "marking"} \cup Owning \cup Consuming \cup Over
Ops == Operation \cup {"", "open", "recover", "verify", "accept", "reject", "close", "complete"}
AnyLease == [run : Nat, owner : Owner \cup {NoOwner}, epoch : Nat]

Contexts == [pc : Pcs, op : Ops, lease : AnyLease, cp : Nat,
             gate : {"free", "operation", "heartbeat"},
             beat : {"off", "sleeping", "locking", "renewing", "ended"},
             stop : BOOLEAN, failed : BOOLEAN]

(* One context x of owner id c, when the leases in L have been handed out.     *)
(* The last three conjuncts are what makes a failed heartbeat stop the writes: *)
(* it fails while it holds the gate, so that no operation is past its check,   *)
(* and complete() has waited for its end.                                      *)
Sound(c, x, L) ==
    /\ x \in Contexts
    /\ x.gate = "operation" <=> x.pc \in {"renewing", "transacting"}
    /\ x.gate = "heartbeat" <=> x.beat = "renewing"
    /\ x.beat # "off" => x.lease \in L
    /\ x.pc \in {"marking"} \cup Owning \cup Consuming => x.lease \in L
    /\ x.lease.owner \in {c, NoOwner}
    /\ x.lease.epoch = 0 \/ x.lease \in L
    /\ x.pc \in {"none", "claiming"} => x.lease.epoch = 0
    /\ x.pc = "claiming" => x.lease.run \in Run /\ (x.op = "recover" => x.lease.run \in Forced)
    /\ x.pc \in {"none", "claiming", "marking"} => x.beat = "off" /\ ~x.failed
    /\ x.pc \in {"final_renewing", "completing"} => x.beat = "ended" /\ ~x.failed
    /\ x.failed => x.beat = "ended" /\ x.pc \notin {"renewing", "transacting"}

CtxInv == ctx \in [Owner -> Contexts] /\ \A c \in Owner : Sound(c, ctx[c], leases)

CInv == Shape /\ CtxInv

StoreStep == Next \/ UNCHANGED vars

\* What an action must show besides: the context it leaves is sound.
Moved(c) == \E x : ctx' = [ctx EXCEPT ![c] = x] /\ Sound(c, x, leases')

LEMMA LeasesGrow == ASSUME StoreStep PROVE leases \subseteq leases'
<1>1. ASSUME Claim PROVE leases \subseteq leases'
  <2>1. ASSUME NEW r, NEW o, NEW ttl, NEW status, GrantLease(r, o, ttl, status)
        PROVE  leases \subseteq leases'
    BY <2>1 DEF GrantLease
  <2> QED
    BY <1>1, <2>1 DEF Claim, AcquireRunLease, RecoverRunLease, ClaimRunLease,
                      ClaimNextRecoverableRun
<1>2. ASSUME NEW l \in leases, HoldLease(l) PROVE leases \subseteq leases'
  BY <1>2 DEF HoldLease, RenewRunLease, ReleaseRunLease, UpdateRunStatus, CompleteRun
<1>3. ASSUME NEW l \in leases, WriteLog(l) PROVE leases \subseteq leases'
  BY <1>3 DEF WriteLog, AppendLlmCall, RecordToolResult, AppendEvent, ProposeCheckpoint,
              DecideCheckpoint
<1> QED
  BY <1>1, <1>2, <1>3 DEF StoreStep, Next, CreateRun, Tick, vars

LEMMA SoundLater ==
    ASSUME StoreStep, NEW c, NEW x, Sound(c, x, leases)
    PROVE  Sound(c, x, leases')
  BY LeasesGrow DEF Sound

LEMMA MovedKeeps ==
    ASSUME CInv, NEW c \in Owner, Moved(c), StoreStep
    PROVE  CInv'
<1>1. Shape'
  BY NextShape DEF CInv, StoreStep
<1>2. PICK x : ctx' = [ctx EXCEPT ![c] = x] /\ Sound(c, x, leases')
  BY DEF Moved
<1>3. ctx' \in [Owner -> Contexts] /\ ctx'[c] = x
  BY <1>2 DEF CInv, CtxInv, Sound
<1>4. ASSUME NEW d \in Owner, d # c PROVE Sound(d, ctx'[d], leases')
  <2>1. ctx'[d] = ctx[d] /\ Sound(d, ctx[d], leases)
    BY <1>2, <1>4 DEF CInv, CtxInv
  <2> QED
    BY <2>1, SoundLater
<1> QED
  BY <1>1, <1>2, <1>3, <1>4 DEF CInv, CtxInv

LEMMA ContextSound ==
    ASSUME CInv, NEW c \in Owner
    PROVE  Sound(c, ctx[c], leases) /\ ctx[c] \in Contexts
  BY DEF CInv, CtxInv

\* Every operation on a lease that was handed out is a step of the store.
LEMMA LeaseSteps ==
    ASSUME NEW l \in leases
    PROVE  /\ HoldLease(l) \/ WriteLog(l) => StoreStep
           /\ (\E ttl \in Ttl : RenewRunLease(l, ttl)) => StoreStep
           /\ ReleaseRunLease(l) \/ CompleteRun(l) \/ UpdateRunStatus(l, "running") => StoreStep
  BY DEF StoreStep, Next, HoldLease

-----------------------------------------------------------------------------
(* Contexts that come to be.                                                  *)

LEMMA CreateMoves ==
    ASSUME CInv, NEW c \in Owner, NEW r \in Run, NEW op \in {"open", "recover"},
           Create(c, r) \/ Open(c, r, op)
    PROVE  Moved(c) /\ StoreStep
<1> USE DEF Contexts, Pcs, Ops, Owning, InOperation, Consuming, Over, Operation
<1>1. Sound(c, ctx[c], leases) /\ ctx[c].pc = "none"
  BY ContextSound DEF Create, Open
<1>2. PICK l : l = [ctx[c].lease EXCEPT !.run = r]
  OBVIOUS
<1>3. l \in AnyLease /\ l.owner = ctx[c].lease.owner /\ l.run = r /\ l.epoch = 0
  BY <1>1, <1>2, RunAssumption DEF Sound, AnyLease
<1>4. PICK asked \in {"open", "recover"} :
        /\ ctx' = [ctx EXCEPT ![c].pc = "claiming", ![c].op = asked, ![c].lease.run = r]
        /\ asked = "recover" => r \in Forced
  BY DEF Create, Open
<1>5. PICK x : x = [ctx[c] EXCEPT !.pc = "claiming", !.op = asked, !.lease = l]
  OBVIOUS
<1>6. ctx' = [ctx EXCEPT ![c] = x]
  BY <1>1, <1>2, <1>4, <1>5 DEF CInv, CtxInv
<1>7. StoreStep /\ UNCHANGED leases
  BY DEF Create, Open, StoreStep, Next, CreateRun, vars
<1>8. Sound(c, x, leases)
  BY <1>1, <1>3, <1>4, <1>5 DEF Sound
<1> QED
  BY <1>6, <1>7, <1>8 DEF Moved

\* A context that has its lease, and whose heartbeat starts.
LEMMA StartMoves ==
    ASSUME CInv, NEW c \in Owner, NEW l \in AnyLease, l \in leases', l.owner = c,
           ctx[c].pc \in {"none", "marking"}, Start(c, l)
    PROVE  Moved(c)
<1> USE DEF Contexts, Pcs, Ops, Owning, InOperation, Consuming, Over, Operation
<1>1. PICK x : x = [ctx[c] EXCEPT !.pc = "idle", !.op = "", !.lease = l, !.beat = "sleeping"]
  OBVIOUS
<1>2. ctx' = [ctx EXCEPT ![c] = x]
  BY <1>1 DEF Start, CInv, CtxInv
<1>3. /\ ctx[c] \in Contexts /\ ctx[c].gate = "free" /\ ~ctx[c].failed
      /\ ctx[c].beat = "off"
  BY ContextSound DEF Sound
<1>4. Sound(c, x, leases')
  BY <1>1, <1>3 DEF Sound
<1> QED
  BY <1>2, <1>4 DEF Moved

\* A claim of run r hands out LeaseOf(c, r).
LEMMA ClaimHands ==
    ASSUME CInv, NEW c \in Owner, NEW r \in Run, NEW ttl, NEW status,
           GrantLease(r, c, ttl, status)
    PROVE  /\ LeaseOf(c, r) \in AnyLease
           /\ LeaseOf(c, r).owner = c
           /\ leases' = leases \cup {LeaseOf(c, r)}
<1>1. r \in Nat /\ runs[r].epoch \in Nat
  BY RunAssumption, BoundAssumption DEF CInv, Shape, RunsShape, RunRow
<1> QED
  BY <1>1 DEF LeaseOf, AnyLease, GrantLease

\* Only the program counter changes.
LEMMA StepMoves ==
    ASSUME CInv, NEW c \in Owner, NEW pc, Move(c, pc), StoreStep,
           Sound(c, [ctx[c] EXCEPT !.pc = pc], leases)
    PROVE  Moved(c)
<1>1. ctx' = [ctx EXCEPT ![c] = [ctx[c] EXCEPT !.pc = pc]]
  BY DEF Move, CInv, CtxInv
<1> QED
  BY <1>1, SoundLater DEF Moved

LEMMA ClaimLeaseMoves ==
    ASSUME CInv, NEW c \in Owner, ClaimLease(c) PROVE Moved(c) /\ StoreStep
<1> USE DEF Contexts, Pcs, Ops, Owning, InOperation, Consuming, Over, Operation
<1>1. Sound(c, ctx[c], leases) /\ ctx[c].pc = "claiming"
  BY ContextSound DEF ClaimLease
<1>2. PICK r : r = ctx[c].lease.run
  OBVIOUS
<1>3. r \in Run /\ (ctx[c].op = "recover" => r \in Forced)
  BY <1>1, <1>2 DEF Sound
<1>4. ASSUME NEW ttl \in Ttl, ClaimRunLease(r, c, ttl, ctx[c].op = "recover"),
             ctx' = [ctx EXCEPT ![c].pc = "marking", ![c].lease = LeaseOf(c, r)]
      PROVE  Moved(c) /\ StoreStep
  <2>1. Claim
    BY <1>3, <1>4 DEF Claim, AcquireRunLease, RecoverRunLease
  <2>2. /\ LeaseOf(c, r) \in AnyLease /\ LeaseOf(c, r).owner = c
        /\ LeaseOf(c, r) \in leases'
    BY <1>3, <1>4, ClaimHands DEF ClaimRunLease
  <2>3. PICK l : l = LeaseOf(c, r)
    OBVIOUS
  <2>4. PICK x : x = [ctx[c] EXCEPT !.pc = "marking", !.lease = l]
    OBVIOUS
  <2>5. ctx' = [ctx EXCEPT ![c] = x]
    BY <1>4, <2>3, <2>4 DEF CInv, CtxInv
  <2>6. Sound(c, x, leases')
    BY <1>1, <2>2, <2>3, <2>4 DEF Sound
  <2> QED
    BY <2>1, <2>5, <2>6 DEF Moved, StoreStep, Next
<1>5. ASSUME Fails, Move(c, "failed") PROVE Moved(c) /\ StoreStep
  <2>1. Sound(c, [ctx[c] EXCEPT !.pc = "failed"], leases)
    BY <1>1 DEF Sound
  <2> QED
    BY <1>5, <2>1, StepMoves DEF Fails, StoreStep
<1> QED
  BY <1>2, <1>4, <1>5 DEF ClaimLease

LEMMA MarkRunningMoves ==
    ASSUME CInv, NEW c \in Owner, MarkRunning(c) PROVE Moved(c) /\ StoreStep
<1> USE DEF Contexts, Pcs, Ops, Owning, InOperation, Consuming, Over, Operation
<1>1. Sound(c, ctx[c], leases) /\ ctx[c].pc = "marking"
  BY ContextSound DEF MarkRunning
<1>2. PICK l : l = ctx[c].lease
  OBVIOUS
<1>3. l \in leases /\ l \in AnyLease
  BY <1>1, <1>2 DEF Sound
<1>4. l.owner = c
  BY <1>1, <1>2, <1>3, OwnerAssumption DEF Sound, CInv, Shape, TokensShape, Lease
<1>5. ASSUME Start(c, l), StoreStep PROVE Moved(c) /\ StoreStep
  BY <1>1, <1>3, <1>4, <1>5, LeasesGrow, StartMoves
<1>6. ASSUME Fails, Move(c, "releasing") PROVE Moved(c) /\ StoreStep
  <2>1. Sound(c, [ctx[c] EXCEPT !.pc = "releasing"], leases)
    BY <1>1 DEF Sound
  <2> QED
    BY <1>6, <2>1, StepMoves DEF Fails, StoreStep
<1>7. UpdateRunStatus(l, "running") \/ UNCHANGED vars => StoreStep
  BY <1>3, LeaseSteps DEF StoreStep
<1> QED
  BY <1>2, <1>5, <1>6, <1>7 DEF MarkRunning

LEMMA ClaimNextMoves ==
    ASSUME CInv, NEW c \in Owner, ClaimNext(c) PROVE Moved(c) /\ StoreStep
<1>1. PICK ttl \in Ttl : ClaimNextRecoverableRun(c, ttl)
  BY DEF ClaimNext
<1>2. PICK l \in leases' \ leases : Start(c, l)
  BY DEF ClaimNext
<1>3. PICK r \in Run : GrantLease(r, c, ttl, "running")
  BY <1>1 DEF ClaimNextRecoverableRun
<1>4. l \in AnyLease /\ l.owner = c
  BY <1>2, <1>3, ClaimHands
<1> QED
  BY <1>1, <1>2, <1>4, StartMoves DEF ClaimNext, Claim, StoreStep, Next

-----------------------------------------------------------------------------
(* Operations, close() and complete().                                        *)

\* An operation that returns, or is dropped, leaves a sound context.
LEMMA ReturnMoves ==
    ASSUME CInv, NEW c \in Owner, ctx[c].pc \in InOperation, Return(c), StoreStep
    PROVE  Moved(c)
<1> USE DEF Contexts, Pcs, Ops, Owning, InOperation, Consuming, Over, Operation
<1>1. Sound(c, ctx[c], leases)
  BY ContextSound
<1>2. PICK gate : gate = IF ctx[c].gate = "operation" THEN "free" ELSE ctx[c].gate
  OBVIOUS
<1>3. PICK x : x = [ctx[c] EXCEPT !.pc = "idle", !.op = "", !.cp = 0, !.gate = gate]
  OBVIOUS
<1>4. ctx' = [ctx EXCEPT ![c] = x]
  BY <1>1, <1>2, <1>3 DEF Return, CInv, CtxInv
<1>5. Sound(c, x, leases)
  BY <1>1, <1>2, <1>3 DEF Sound
<1> QED
  BY <1>4, <1>5, SoundLater DEF Moved

LEMMA BeginMoves ==
    ASSUME CInv, NEW c \in Owner, Begin(c) \/ Finish(c) PROVE Moved(c) /\ StoreStep
<1> USE DEF Contexts, Pcs, Ops, Owning, InOperation, Consuming, Over, Operation
<1>1. Sound(c, ctx[c], leases) /\ ctx[c].pc = "idle" /\ UNCHANGED vars /\ StoreStep
  BY ContextSound DEF Begin, Finish, StoreStep
<1>2. PICK op \in Ops, pc \in {"locking", "joining"}, stop \in BOOLEAN :
        ctx' = [ctx EXCEPT ![c] = [ctx[c] EXCEPT !.pc = pc, !.op = op, !.stop = stop]]
  <2>1. CASE Begin(c)
    <3>1. PICK op \in Operation : ctx' = [ctx EXCEPT ![c].pc = "locking", ![c].op = op]
      BY <2>1 DEF Begin
    <3>2. ctx' = [ctx EXCEPT ![c] = [ctx[c] EXCEPT !.pc = "locking", !.op = op,
                                                   !.stop = ctx[c].stop]]
      BY <1>1, <3>1 DEF CInv, CtxInv, Sound
    <3> QED
      BY <1>1, <3>2 DEF Sound
  <2>2. CASE Finish(c)
    <3>1. PICK op \in {"close", "complete"} :
            ctx' = [ctx EXCEPT ![c].pc = "joining", ![c].op = op, ![c].stop = TRUE]
      BY <2>2 DEF Finish
    <3>2. ctx' = [ctx EXCEPT ![c] = [ctx[c] EXCEPT !.pc = "joining", !.op = op, !.stop = TRUE]]
      BY <3>1 DEF CInv, CtxInv
    <3> QED
      BY <3>2
  <2> QED
    BY <2>1, <2>2
<1>3. PICK x : x = [ctx[c] EXCEPT !.pc = pc, !.op = op, !.stop = stop]
  OBVIOUS
<1>4. Sound(c, x, leases)
  BY <1>1, <1>2, <1>3 DEF Sound
<1> QED
  BY <1>1, <1>2, <1>3, <1>4, SoundLater DEF Moved

LEMMA LockGateMoves ==
    ASSUME CInv, NEW c \in Owner, LockGate(c) PROVE Moved(c) /\ StoreStep
<1> USE DEF Contexts, Pcs, Ops, Owning, InOperation, Consuming, Over, Operation
<1>1. /\ Sound(c, ctx[c], leases) /\ ctx[c].pc = "locking" /\ ctx[c].gate = "free"
      /\ StoreStep
  BY ContextSound DEF LockGate, StoreStep
<1>2. CASE ctx[c].failed
  BY <1>1, <1>2, ReturnMoves DEF LockGate
<1>3. CASE ~ctx[c].failed
  <2>1. PICK x : x = [ctx[c] EXCEPT !.pc = "renewing", !.gate = "operation"]
    OBVIOUS
  <2>2. ctx' = [ctx EXCEPT ![c] = x]
    BY <1>3, <2>1 DEF LockGate, CInv, CtxInv
  <2>3. Sound(c, x, leases)
    BY <1>1, <1>3, <2>1 DEF Sound
  <2> QED
    BY <1>1, <2>2, <2>3, SoundLater DEF Moved
<1> QED
  BY <1>2, <1>3

LEMMA RenewMoves ==
    ASSUME CInv, NEW c \in Owner, RenewForOperation(c) PROVE Moved(c) /\ StoreStep
<1> USE DEF Contexts, Pcs, Ops, Owning, InOperation, Consuming, Over, Operation
<1>1. Sound(c, ctx[c], leases) /\ ctx[c].pc = "renewing" /\ ctx[c].lease \in leases
  BY ContextSound DEF RenewForOperation, Sound
<1>2. StoreStep
  BY <1>1, LeaseSteps DEF RenewForOperation, Fails, StoreStep
<1>3. Sound(c, [ctx[c] EXCEPT !.pc = "transacting"], leases)
  BY <1>1 DEF Sound
<1> QED
  BY <1>1, <1>2, <1>3, StepMoves, ReturnMoves DEF RenewForOperation

LEMMA TransactMoves ==
    ASSUME CInv, NEW c \in Owner, Transact(c) PROVE Moved(c) /\ StoreStep
<1> USE DEF Contexts, Pcs, Ops, Owning, InOperation, Consuming, Over, Operation
<1>1. Sound(c, ctx[c], leases) /\ ctx[c].pc = "transacting" /\ ctx[c].lease \in leases
  BY ContextSound DEF Transact, Sound
<1>2. PICK l : l = ctx[c].lease /\ l \in leases
  BY <1>1
<1>3. StoreStep
  <2>1. ASSUME NEW accepted \in BOOLEAN, DecideCheckpoint(l, ctx[c].cp, accepted)
        PROVE  WriteLog(l)
    <3>1. PICK k \in Candidates(l.run) : k.id = ctx[c].cp
      BY <2>1 DEF DecideCheckpoint
    <3>2. k \in checkpoints
      BY DEF Candidates, CheckpointsOf
    <3> QED
      BY <2>1, <3>1, <3>2 DEF WriteLog
  <2>2. \/ WriteLog(l) \/ UNCHANGED vars
    BY <1>2, <2>1 DEF Transact, Fails, WriteLog
  <2> QED
    BY <1>2, <2>2, LeaseSteps DEF StoreStep
<1>4. ASSUME NEW pc \in {"locking", "verifying"}, NEW op \in Ops, NEW cp \in Nat,
             ctx' = [ctx EXCEPT ![c].pc = pc, ![c].op = op, ![c].gate = "free", ![c].cp = cp]
      PROVE  Moved(c)
  <2>1. PICK x : x = [ctx[c] EXCEPT !.pc = pc, !.op = op, !.gate = "free", !.cp = cp]
    OBVIOUS
  <2>2. ctx' = [ctx EXCEPT ![c] = x]
    BY <1>4, <2>1 DEF CInv, CtxInv
  <2>3. Sound(c, x, leases)
    BY <1>1, <1>4, <2>1 DEF Sound
  <2> QED
    BY <1>3, <2>2, <2>3, SoundLater DEF Moved
<1>5. NextCheckpointId \in Nat
  BY NextCheckpointIdIs DEF CInv, Shape, CheckpointsShape, IdsInitial
<1>6. ASSUME NEW k \in Candidates(l.run) PROVE k.id \in Nat
  BY DEF Candidates, CheckpointsOf, CInv, Shape, CheckpointsShape, Checkpoint
<1>7. Return(c) => Moved(c)
  BY <1>1, <1>3, ReturnMoves
<1>8. \/ Return(c)
      \/ ctx' = [ctx EXCEPT ![c].pc = "locking", ![c].op = "fetch",
                            ![c].gate = "free", ![c].cp = NextCheckpointId]
      \/ \E k \in Candidates(l.run) :
            ctx' = [ctx EXCEPT ![c].pc = "verifying", ![c].op = "verify",
                               ![c].gate = "free", ![c].cp = k.id]
  BY <1>2 DEF Transact
<1> QED
  BY <1>3, <1>4, <1>5, <1>6, <1>7, <1>8

LEMMA VerifierReturnsMoves ==
    ASSUME CInv, NEW c \in Owner, VerifierReturns(c) PROVE Moved(c) /\ StoreStep
<1> USE DEF Contexts, Pcs, Ops, Owning, InOperation, Consuming, Over, Operation
<1>1. Sound(c, ctx[c], leases) /\ ctx[c].pc = "verifying" /\ UNCHANGED leases /\ StoreStep
  BY ContextSound DEF VerifierReturns, StoreStep, vars
<1>2. ASSUME NEW verdict \in {"accept", "reject"},
             ctx' = [ctx EXCEPT ![c].pc = "locking", ![c].op = verdict]
      PROVE  Moved(c)
  <2>1. PICK x : x = [ctx[c] EXCEPT !.pc = "locking", !.op = verdict]
    OBVIOUS
  <2>2. ctx' = [ctx EXCEPT ![c] = x]
    BY <1>2, <2>1 DEF CInv, CtxInv
  <2>3. Sound(c, x, leases)
    BY <1>1, <2>1 DEF Sound
  <2> QED
    BY <1>1, <2>2, <2>3 DEF Moved
<1> QED
  BY <1>1, <1>2, ReturnMoves DEF VerifierReturns

\* close() and complete() after the heartbeat has ended
LEMMA ConsumeMoves ==
    ASSUME CInv, NEW c \in Owner,
           JoinHeartbeat(c) \/ FinalRenew(c) \/ Complete(c) \/ ReleaseLease(c)
    PROVE  Moved(c) /\ StoreStep
<1> USE DEF Contexts, Pcs, Ops, Owning, InOperation, Consuming, Over, Operation
<1>1. /\ Sound(c, ctx[c], leases) /\ ctx[c].lease \in leases
      /\ ctx[c].pc \in Consuming
  BY ContextSound DEF JoinHeartbeat, FinalRenew, Complete, ReleaseLease, Sound
<1>2. StoreStep
  BY <1>1, LeaseSteps DEF JoinHeartbeat, FinalRenew, Complete, ReleaseLease, GiveUp, Fails,
                          StoreStep
<1>3. ASSUME NEW pc \in {"releasing", "completed", "closed", "failed", "leaked"}, Move(c, pc)
      PROVE  Moved(c)
  <2>1. PICK x : x = [ctx[c] EXCEPT !.pc = pc]
    OBVIOUS
  <2>2. Sound(c, x, leases)
    BY <1>1, <2>1 DEF Sound
  <2> QED
    BY <1>2, <1>3, <2>1, <2>2, StepMoves
<1>4. ASSUME NEW pc \in {"final_renewing", "completing"}, Move(c, pc),
             ctx[c].beat = "ended", ~ctx[c].failed
      PROVE  Moved(c)
  <2>1. PICK x : x = [ctx[c] EXCEPT !.pc = pc]
    OBVIOUS
  <2>2. Sound(c, x, leases)
    BY <1>1, <1>4, <2>1 DEF Sound
  <2> QED
    BY <1>2, <1>4, <2>1, <2>2, StepMoves
<1>5. CASE JoinHeartbeat(c)
  BY <1>2, <1>3, <1>4, <1>5 DEF JoinHeartbeat
<1>6. CASE FinalRenew(c)
  <2>1. ctx[c].beat = "ended" /\ ~ctx[c].failed
    BY <1>1, <1>6 DEF FinalRenew, Sound
  <2> QED
    BY <1>2, <1>3, <1>4, <1>6, <2>1 DEF FinalRenew, GiveUp
<1>7. CASE Complete(c) \/ ReleaseLease(c)
  <2>1. Released(c) \in {"closed", "failed"}
    BY DEF Released
  <2> QED
    BY <1>2, <1>3, <1>7, <2>1 DEF Complete, GiveUp, ReleaseLease
<1> QED
  BY <1>5, <1>6, <1>7

-----------------------------------------------------------------------------
(* The heartbeat, and contexts that are dropped.                              *)

LEMMA BeatMoves ==
    ASSUME CInv, NEW c \in Owner, Beat(c) PROVE Moved(c) /\ StoreStep
<1> USE DEF Contexts, Pcs, Ops, Owning, InOperation, Consuming, Over, Operation
<1>1. Sound(c, ctx[c], leases) /\ ctx[c].lease \in leases
  BY ContextSound DEF Beat, BeatWakes, BeatStops, BeatLocks, BeatRenews, Sound
<1>2. StoreStep
  BY <1>1, LeaseSteps DEF Beat, BeatWakes, BeatStops, BeatLocks, BeatRenews, Fails, StoreStep
<1>3. ASSUME NEW beat \in {"locking", "ended"}, ctx[c].beat = "sleeping",
             ctx' = [ctx EXCEPT ![c].beat = beat]
      PROVE  Moved(c)
  <2>1. PICK x : x = [ctx[c] EXCEPT !.beat = beat]
    OBVIOUS
  <2>2. ctx' = [ctx EXCEPT ![c] = x]
    BY <1>3, <2>1 DEF CInv, CtxInv
  <2>3. Sound(c, x, leases)
    BY <1>1, <1>3, <2>1 DEF Sound
  <2> QED
    BY <1>2, <2>2, <2>3, SoundLater DEF Moved
<1>4. CASE BeatLocks(c)
  <2>1. PICK x : x = [ctx[c] EXCEPT !.beat = "renewing", !.gate = "heartbeat"]
    OBVIOUS
  <2>2. ctx' = [ctx EXCEPT ![c] = x]
    BY <1>4, <2>1 DEF BeatLocks, CInv, CtxInv
  <2>3. Sound(c, x, leases)
    BY <1>1, <1>4, <2>1 DEF BeatLocks, Sound
  <2> QED
    BY <1>2, <2>2, <2>3, SoundLater DEF Moved
<1>5. CASE BeatRenews(c)
  <2>1. PICK beat \in {"sleeping", "ended"}, failed \in BOOLEAN :
          /\ ctx' = [ctx EXCEPT ![c] = [ctx[c] EXCEPT !.beat = beat, !.gate = "free",
                                                      !.failed = failed]]
          /\ failed => beat = "ended"
    <3>1. CASE ctx' = [ctx EXCEPT ![c].beat = "sleeping", ![c].gate = "free"]
      <4>1. ~ctx[c].failed
        BY <1>1, <1>5 DEF BeatRenews, Sound
      <4>2. PICK x : x = [ctx[c] EXCEPT !.beat = "sleeping", !.gate = "free"]
        OBVIOUS
      <4>3. x = [ctx[c] EXCEPT !.beat = "sleeping", !.gate = "free", !.failed = FALSE]
        BY <1>1, <4>1, <4>2 DEF Sound
      <4>4. ctx' = [ctx EXCEPT ![c] = x]
        BY <3>1, <4>2 DEF CInv, CtxInv
      <4> QED
        BY <4>3, <4>4
    <3>2. CASE ctx' = [ctx EXCEPT ![c].beat = "ended", ![c].gate = "free", ![c].failed = TRUE]
      <4>1. ctx' = [ctx EXCEPT ![c] = [ctx[c] EXCEPT !.beat = "ended", !.gate = "free",
                                                     !.failed = TRUE]]
        BY <3>2 DEF CInv, CtxInv
      <4> QED
        BY <4>1
    <3> QED
      BY <1>5, <3>1, <3>2 DEF BeatRenews
  <2>2. PICK x : x = [ctx[c] EXCEPT !.beat = beat, !.gate = "free", !.failed = failed]
    OBVIOUS
  <2>3. Sound(c, x, leases)
    BY <1>1, <1>5, <2>1, <2>2 DEF BeatRenews, Sound
  <2> QED
    BY <1>2, <2>1, <2>2, <2>3, SoundLater DEF Moved
<1> QED
  BY <1>2, <1>3, <1>4, <1>5 DEF Beat, BeatWakes, BeatStops

LEMMA DropMoves ==
    ASSUME CInv, NEW c \in Owner, CancelOperation(c) \/ Drop(c) \/ Crash(c)
    PROVE  Moved(c) /\ StoreStep
<1> USE DEF Contexts, Pcs, Ops, Owning, InOperation, Consuming, Over, Operation
<1>1. Sound(c, ctx[c], leases) /\ StoreStep
  BY ContextSound DEF CancelOperation, Drop, Crash, StoreStep
<1>2. CASE CancelOperation(c)
  BY <1>1, <1>2, ReturnMoves DEF CancelOperation
<1>3. CASE Drop(c)
  <2>1. PICK x : x = [ctx[c] EXCEPT !.pc = "dropped", !.stop = TRUE]
    OBVIOUS
  <2>2. ctx' = [ctx EXCEPT ![c] = x]
    BY <1>3, <2>1 DEF Drop, CInv, CtxInv
  <2>3. Sound(c, x, leases)
    BY <1>1, <1>3, <2>1 DEF Drop, Sound
  <2> QED
    BY <1>1, <2>2, <2>3, SoundLater DEF Moved
<1>4. CASE Crash(c)
  <2>1. PICK beat : beat = IF ctx[c].beat = "off" THEN "off" ELSE "ended"
    OBVIOUS
  <2>2. PICK x : x = [ctx[c] EXCEPT !.pc = "dropped", !.gate = "free", !.beat = beat]
    OBVIOUS
  <2>3. ctx' = [ctx EXCEPT ![c] = x]
    BY <1>1, <1>4, <2>1, <2>2 DEF Crash, CInv, CtxInv, Sound
  <2>4. Sound(c, x, leases)
    BY <1>1, <1>4, <2>1, <2>2 DEF Sound
  <2> QED
    BY <1>1, <2>3, <2>4, SoundLater DEF Moved
<1> QED
  BY <1>2, <1>3, <1>4

-----------------------------------------------------------------------------

LEMMA ContextStep ==
    ASSUME CInv, NEW c \in Owner, Ask(c) \/ Advance(c) \/ Beat(c)
    PROVE  Moved(c) /\ StoreStep
<1>1. CASE Ask(c)
  BY <1>1, CreateMoves, ClaimNextMoves, BeginMoves, DropMoves DEF Ask
<1>2. CASE Advance(c)
  BY <1>2, ClaimLeaseMoves, MarkRunningMoves, LockGateMoves, RenewMoves, TransactMoves,
     VerifierReturnsMoves, ConsumeMoves DEF Advance
<1> QED
  BY <1>1, <1>2, BeatMoves

LEMMA ContextsInitial == AInit => CInv
<1> SUFFICES ASSUME AInit PROVE CInv
  OBVIOUS
<1>1. Shape
  BY InitShape DEF AInit
<1>2. NoContext \in Contexts
  BY DEF NoContext, NoLease, Contexts, Pcs, Ops, AnyLease
<1>3. ASSUME NEW c \in Owner PROVE Sound(c, NoContext, leases)
  BY <1>2 DEF Sound, NoContext, NoLease, Owning, InOperation, Consuming
<1> QED
  BY <1>1, <1>2, <1>3 DEF CInv, CtxInv, AInit

LEMMA ContextsStep ==
    ASSUME CInv, [ANext]_avars PROVE CInv' /\ StoreStep
<1>1. ASSUME NEW c \in Owner, Ask(c) \/ Advance(c) \/ Beat(c) PROVE CInv' /\ StoreStep
  BY <1>1, ContextStep, MovedKeeps
<1>2. ASSUME StoreStep, UNCHANGED ctx PROVE CInv'
  <2>1. Shape'
    BY <1>2, NextShape DEF CInv, StoreStep
  <2>2. ASSUME NEW c \in Owner PROVE Sound(c, ctx[c], leases')
    BY <1>2, ContextSound, SoundLater
  <2> QED
    BY <1>2, <2>1, <2>2 DEF CInv, CtxInv
<1>3. ASSUME (\E t \in Time : Tick(t)) /\ UNCHANGED ctx PROVE CInv' /\ StoreStep
  BY <1>2, <1>3 DEF StoreStep, Next
<1>4. ASSUME UNCHANGED avars PROVE CInv' /\ StoreStep
  BY <1>2, <1>4 DEF StoreStep, avars
<1> QED
  BY <1>1, <1>3, <1>4 DEF ANext

\* Contexts and heartbeats stay in the states of Sound, for every number of
\* runs and owner ids.
THEOREM ContextInvariant == ASpec => []CInv
<1>1. CInv /\ [ANext]_avars => CInv'
  BY ContextsStep
<1> QED
  BY ContextsInitial, <1>1, PTL DEF ASpec

\* The gate is held exactly by the operation that renews or transacts, or by
\* the heartbeat that renews (agent.rs, prepare_lease_operation and the
\* heartbeat's task).
THEOREM ContextsAreOK == ASpec => []ContextsOK
<1>1. CInv => ContextsOK
  BY DEF CInv, CtxInv, Sound, Contexts, Pcs, Ops, ContextsOK
<1> QED
  BY <1>1, ContextInvariant, PTL

\* AgentContext implements the run store: every step of a context or of its
\* heartbeat is a transaction of db.rs with a lease a claim returned, or none.
THEOREM ContextsUseTheStore == ASpec => UsesTheStore
<1>1. CInv /\ [ANext]_avars => [Next]_vars
  BY ContextsStep DEF StoreStep
<1>2. AInit => Init
  BY DEF AInit
<1> QED
  BY <1>1, <1>2, ContextInvariant, PTL DEF ASpec, UsesTheStore, Spec

-----------------------------------------------------------------------------
(* Who writes what.                                                           *)

\* The rows of a status transaction carry the token of its lease.
LEMMA StatusRows ==
    ASSUME NEW l, UpdateRunStatus(l, "running") \/ CompleteRun(l),
           NEW e \in events' \ events
    PROVE  /\ e.run = l.run /\ e.writer = l.epoch
           /\ e.payload.to = "completed" => CompleteRun(l)
<1>1. ASSUME NEW from, NEW to,
             InsertEvents({TransitionRow(l.run, NextSeq(l.run), from, to, l.epoch)})
      PROVE  e.run = l.run /\ e.writer = l.epoch /\ e.payload.to = to
  <2>1. e = TransitionRow(l.run, NextSeq(l.run), from, to, l.epoch)
    BY <1>1 DEF InsertEvents
  <2> QED
    BY <2>1, TransitionRowBy
<1>2. CASE UpdateRunStatus(l, "running")
  <2>1. InsertEvents({TransitionRow(l.run, NextSeq(l.run), runs[l.run].status, "running",
                                    l.epoch)})
    BY <1>2 DEF UpdateRunStatus
  <2> QED
    BY <1>1, <2>1
<1>3. CASE CompleteRun(l)
  <2>1. InsertEvents({TransitionRow(l.run, NextSeq(l.run), "running", "completed", l.epoch)})
    BY <1>3 DEF CompleteRun
  <2> QED
    BY <1>1, <1>3, <2>1
<1> QED
  BY <1>2, <1>3

LEMMA LogRows ==
    ASSUME CInv, NEW l \in leases, WriteLog(l), NEW e \in events' \ events
    PROVE  e.run = l.run /\ e.writer = l.epoch /\ e.payload.to # "completed"
<1>1. PICK rows : InsertEvents(rows) /\ \A f \in rows : OwnRow(l, f)
  BY WriteLogRows DEF CInv
<1> QED
  BY <1>1 DEF InsertEvents, OwnRow

\* An event that a step of context d appends carries the token of d's lease,
\* and is appended by one of the four transactions that append.
Signed(d, e) ==
    /\ e.run = ctx'[d].lease.run /\ e.writer = ctx'[d].lease.epoch
    /\ ctx'[d].lease \in leases'
    /\ ctx[d].pc \in {"none", "marking", "transacting", "completing"}
    /\ e.payload.to = "completed" => ctx'[d].pc = "completed"

LEMMA ClaimNextSigns ==
    ASSUME CInv, Fenced, NEW d \in Owner, ClaimNext(d), NEW e \in events' \ events
    PROVE  Signed(d, e)
<1>1. PICK ttl \in Ttl : ClaimNextRecoverableRun(d, ttl)
  BY DEF ClaimNext
<1>2. PICK r \in Run :
        /\ GrantLease(r, d, ttl, "running")
        /\ \/ UNCHANGED events
           \/ InsertEvents({TransitionRow(r, NextSeq(r), "pending", "running",
                                          runs[r].epoch + 1)})
  BY <1>1 DEF ClaimNextRecoverableRun
<1>3. e = TransitionRow(r, NextSeq(r), "pending", "running", runs[r].epoch + 1)
  BY <1>2 DEF InsertEvents
<1>4. e.run = r /\ e.writer = runs[r].epoch + 1 /\ e.payload.to = "running"
  BY <1>3, TransitionRowBy
<1>5. PICK l \in leases' \ leases : Start(d, l)
  BY DEF ClaimNext
<1>6. l = LeaseOf(d, r)
  BY <1>2, <1>5, ClaimHands
<1>7. ctx'[d].lease = l
  BY <1>5 DEF Start, CInv, CtxInv, Contexts
<1>8. l.run = r /\ l.epoch = runs[r].epoch + 1
  BY <1>6 DEF LeaseOf
<1> QED
  BY <1>4, <1>5, <1>7, <1>8 DEF Signed, ClaimNext

LEMMA ContextSigns ==
    ASSUME CInv, Fenced, NEW d \in Owner, Ask(d) \/ Advance(d) \/ Beat(d),
           NEW e \in events' \ events
    PROVE  Signed(d, e)
<1> USE DEF Owning, InOperation, Consuming
<1>1. Sound(d, ctx[d], leases) /\ ctx \in [Owner -> Contexts]
  BY ContextSound DEF CInv, CtxInv
<1>2. CASE Ask(d)
  <2>1. ClaimNext(d)
    BY <1>2 DEF Ask, Create, CreateRun, Open, Begin, Finish, CancelOperation, Drop, Crash, vars
  <2> QED
    BY <2>1, ClaimNextSigns
<1>3. CASE MarkRunning(d)
  <2>1. PICK l : l = ctx[d].lease
    OBVIOUS
  <2>2. UpdateRunStatus(l, "running") /\ Start(d, l) /\ ctx[d].pc = "marking"
    BY <1>3, <2>1 DEF MarkRunning, Fails, vars
  <2>3. l \in leases'
    BY <1>1, <2>1, <2>2 DEF Sound, UpdateRunStatus
  <2>4. ctx'[d].lease = l
    BY <1>1, <2>2 DEF Start, Contexts
  <2>5. ~CompleteRun(l)
    <3>1. PICK seq, from : InsertEvents({TransitionRow(l.run, seq, from, "running", l.epoch)})
      BY <2>2 DEF UpdateRunStatus
    <3>2. e = TransitionRow(l.run, seq, from, "running", l.epoch)
      BY <3>1 DEF InsertEvents
    <3>3. ASSUME CompleteRun(l) PROVE FALSE
      <4>1. e = TransitionRow(l.run, NextSeq(l.run), "running", "completed", l.epoch)
        BY <3>3 DEF CompleteRun, InsertEvents
      <4> QED
        BY <3>2, <4>1, TransitionRowBy
    <3> QED
      BY <3>3
  <2> QED
    BY <2>2, <2>3, <2>4, <2>5, StatusRows DEF Signed
<1>4. CASE Transact(d)
  <2>1. PICK l : l = ctx[d].lease
    OBVIOUS
  <2>2. l \in leases /\ ctx[d].pc = "transacting"
    BY <1>1, <1>4, <2>1 DEF Transact, Sound
  <2>3. WriteLog(l)
    <3>1. ASSUME NEW accepted \in BOOLEAN, DecideCheckpoint(l, ctx[d].cp, accepted)
          PROVE  WriteLog(l)
      <4>1. PICK k \in Candidates(l.run) : k.id = ctx[d].cp
        BY <3>1 DEF DecideCheckpoint
      <4>2. k \in checkpoints
        BY DEF Candidates, CheckpointsOf
      <4> QED
        BY <3>1, <4>1, <4>2 DEF WriteLog
    <3> QED
      BY <1>4, <2>1, <3>1 DEF Transact, Fails, WriteLog, vars
  <2>4. leases' = leases
    BY <2>3 DEF WriteLog, AppendLlmCall, RecordToolResult, AppendEvent, ProposeCheckpoint,
                DecideCheckpoint
  <2>5. ctx'[d].lease = l
    <3>1. ASSUME NEW pc, NEW op, NEW gate, NEW cp,
                 ctx' = [ctx EXCEPT ![d].pc = pc, ![d].op = op, ![d].gate = gate, ![d].cp = cp]
          PROVE  ctx'[d].lease = l
      BY <1>1, <2>1, <3>1 DEF Contexts
    <3>2. ASSUME Return(d) PROVE ctx'[d].lease = l
      BY <1>1, <2>1, <3>2 DEF Return, Contexts
    <3>3. \/ Return(d)
          \/ ctx' = [ctx EXCEPT ![d].pc = "locking", ![d].op = "fetch",
                                ![d].gate = "free", ![d].cp = NextCheckpointId]
          \/ \E k \in Candidates(l.run) :
                ctx' = [ctx EXCEPT ![d].pc = "verifying", ![d].op = "verify",
                                   ![d].gate = "free", ![d].cp = k.id]
      BY <1>4, <2>1 DEF Transact
    <3> QED
      BY <3>1, <3>2, <3>3
  <2> QED
    BY <2>2, <2>3, <2>4, <2>5, LogRows DEF Signed
<1>5. CASE Complete(d)
  <2>1. PICK l : l = ctx[d].lease
    OBVIOUS
  <2>2. CompleteRun(l) /\ Move(d, "completed") /\ ctx[d].pc = "completing"
    BY <1>5, <2>1 DEF Complete, GiveUp, Fails, vars
  <2>3. l \in leases'
    BY <1>1, <2>1, <2>2 DEF Sound, CompleteRun
  <2>4. ctx'[d].lease = l /\ ctx'[d].pc = "completed"
    BY <1>1, <2>1, <2>2 DEF Move, Contexts
  <2> QED
    BY <2>2, <2>3, <2>4, StatusRows DEF Signed
<1>6. CASE Advance(d)
  <2>1. UNCHANGED events \/ MarkRunning(d) \/ Transact(d) \/ Complete(d)
    BY <1>6 DEF Advance, ClaimLease, ClaimRunLease, LockGate, RenewForOperation, RenewRunLease,
                VerifierReturns, JoinHeartbeat, FinalRenew, GiveUp, Fails, ReleaseLease,
                ReleaseRunLease, vars
  <2> QED
    BY <1>3, <1>4, <1>5, <2>1
<1>7. CASE Beat(d)
  BY <1>7 DEF Beat, BeatWakes, BeatStops, BeatLocks, BeatRenews, RenewRunLease, Fails, vars
<1> QED
  BY <1>2, <1>6, <1>7

LEMMA OthersStay ==
    ASSUME CInv, NEW d \in Owner, Ask(d) \/ Advance(d) \/ Beat(d), NEW c \in Owner, c # d
    PROVE  ctx'[c] = ctx[c]
<1>1. PICK x : ctx' = [ctx EXCEPT ![d] = x]
  BY ContextStep DEF Moved
<1> QED
  BY <1>1 DEF CInv, CtxInv

\* No other context appends under the token of c's lease.
LEMMA OnlyOwnWrites ==
    ASSUME CInv, FencedShape, [ANext]_avars, NEW c \in Owner, ctx[c].lease \in leases,
           NEW e \in events' \ events,
           e.run = ctx[c].lease.run, e.writer = ctx[c].lease.epoch
    PROVE  (Ask(c) \/ Advance(c) \/ Beat(c)) /\ Signed(c, e)
<1>1. CInv' /\ StoreStep
  BY ContextsStep
<1>2. EpochsUnique'
  <2>1. [Next]_vars
    BY <1>1 DEF StoreStep
  <2> QED
    BY <2>1, StepSummary, TokensStayUnique DEF FencedShape, Fenced
<1>3. PICK d \in Owner : Ask(d) \/ Advance(d) \/ Beat(d)
  BY DEF ANext, Tick, avars, vars
<1>4. Signed(d, e)
  BY <1>3, ContextSigns DEF FencedShape
<1>5. ASSUME d # c PROVE FALSE
  <2>1. ctx'[c] = ctx[c] /\ ctx[c].lease \in leases'
    BY <1>1, <1>3, <1>5, OthersStay, LeasesGrow
  <2>2. ctx'[c].lease = ctx'[d].lease
    BY <1>2, <1>4, <2>1 DEF Signed, EpochsUnique
  <2>3. ctx'[c].lease.owner \in {c, NoOwner} /\ ctx'[d].lease.owner \in {d, NoOwner}
    BY <1>1 DEF CInv, CtxInv, Sound
  <2>4. ctx'[d].lease.owner \in Owner
    BY <1>1, <1>4 DEF Signed, CInv, Shape, TokensShape, Lease
  <2> QED
    BY <1>5, <2>2, <2>3, <2>4, OwnerAssumption
<1> QED
  BY <1>3, <1>4, <1>5

\* README "surfaces heartbeat failure before accepting more writes": a failed
\* heartbeat ends the writes of its context for every number of contexts.
THEOREM FailedContextsAreSilent == ASpec => FailureStopsWrites
<1>1. ASSUME CInv, FencedShape, [ANext]_avars, NEW c \in Owner, ctx[c].failed,
             NEW e \in events' \ events,
             e.run = ctx[c].lease.run, e.writer = ctx[c].lease.epoch
      PROVE  FALSE
  <2>1. Sound(c, ctx[c], leases)
    BY <1>1, ContextSound
  <2>2. ctx[c].lease \in leases /\ ctx[c].pc \notin {"none", "marking", "transacting", "completing"}
    BY <1>1, <2>1 DEF Sound
  <2>3. Signed(c, e)
    BY <1>1, <2>2, OnlyOwnWrites
  <2> QED
    BY <2>2, <2>3 DEF Signed
<1>2. CInv /\ FencedShape /\ [ANext]_avars =>
        [\A c \in Owner : ctx[c].failed =>
            \A e \in events' \ events : ~(/\ e.run = ctx[c].lease.run
                                          /\ e.writer = ctx[c].lease.epoch)]_avars
  BY <1>1
<1> QED
  BY <1>2, ContextInvariant, ContextsUseTheStore, FencedInvariant, PTL
     DEF ASpec, UsesTheStore, FailureStopsWrites

-----------------------------------------------------------------------------
(* Who owns what.                                                             *)

\* The states of a context that may own its run.
Holding == {"marking", "leaked", "dropped"} \cup Owning \cup Consuming

\* A step of d changes owners only to d, of the run d has claimed, or to none,
\* and leaves a context that may own its run as long as it owns it.
OwnersKept(d) == \A r \in Run : runs'[r].owner \in Owner =>
    \/ /\ runs'[r].owner = runs[r].owner
       /\ runs[r].owner = d => ctx'[d].pc \in Holding /\ ctx'[d].lease.run = ctx[d].lease.run
    \/ /\ runs'[r].owner = d
       /\ ctx'[d].pc \in Holding /\ ctx'[d].lease.run = r

\* An action that touches no owner, of a context that may own its run before
\* and after.
LEMMA HoldingKeeps ==
    ASSUME NEW d \in Owner, \A r \in Run : runs'[r].owner = runs[r].owner,
           ctx'[d].pc \in Holding, ctx'[d].lease = ctx[d].lease
    PROVE  OwnersKept(d)
  BY DEF OwnersKept

LEMMA GrantOwns ==
    ASSUME CInv, NoOrphanLease, NEW d \in Owner, NEW r \in Run, NEW ttl, NEW status,
           GrantLease(r, d, ttl, status), ctx[d].pc \in {"none", "claiming"},
           ctx'[d].pc \in Holding, ctx'[d].lease.run = r
    PROVE  OwnersKept(d)
<1>1. \A s \in Run : s # r => runs'[s] = runs[s]
  BY DEF GrantLease, CInv, Shape, RunsShape
<1>2. runs'[r].owner = d
  BY DEF GrantLease, CInv, Shape, RunsShape, RunRow
<1>3. \A s \in Run : runs[s].owner # d
  BY DEF NoOrphanLease, Owning, InOperation, Consuming
<1> QED
  BY <1>1, <1>2, <1>3 DEF OwnersKept

\* What the updates of ctx leave.
LEMMA Leaves ==
    ASSUME CInv, NEW d \in Owner
    PROVE  /\ Return(d) => ctx'[d].pc = "idle" /\ ctx'[d].lease = ctx[d].lease
           /\ \A pc : Move(d, pc) => ctx'[d].pc = pc /\ ctx'[d].lease = ctx[d].lease
           /\ \A l : Start(d, l) => ctx'[d].pc = "idle" /\ ctx'[d].lease = l
           /\ \A pc, op, gate, cp :
                 ctx' = [ctx EXCEPT ![d].pc = pc, ![d].op = op, ![d].gate = gate, ![d].cp = cp]
                 => ctx'[d].pc = pc /\ ctx'[d].lease = ctx[d].lease
<1>1. ctx \in [Owner -> Contexts] /\ ctx[d] \in Contexts
  BY DEF CInv, CtxInv
<1>2. ASSUME Return(d) PROVE ctx'[d].pc = "idle" /\ ctx'[d].lease = ctx[d].lease
  <2>1. PICK gate : ctx' = [ctx EXCEPT ![d].pc = "idle", ![d].op = "", ![d].cp = 0,
                                       ![d].gate = gate]
    <3>1. PICK gate : gate = IF ctx[d].gate = "operation" THEN "free" ELSE ctx[d].gate
      OBVIOUS
    <3>2. ctx' = [ctx EXCEPT ![d] = [ctx[d] EXCEPT !.pc = "idle", !.op = "", !.cp = 0,
                                                   !.gate = gate]]
      BY <1>1, <1>2, <3>1 DEF Return
    <3> QED
      BY <1>1, <3>2
  <2> QED
    BY <1>1, <2>1 DEF Contexts
<1>3. ASSUME NEW pc, Move(d, pc) PROVE ctx'[d].pc = pc /\ ctx'[d].lease = ctx[d].lease
  BY <1>1, <1>3 DEF Move, Contexts
<1>4. ASSUME NEW l, Start(d, l) PROVE ctx'[d].pc = "idle" /\ ctx'[d].lease = l
  BY <1>1, <1>4 DEF Start, Contexts
<1>5. ASSUME NEW pc, NEW op, NEW gate, NEW cp,
             ctx' = [ctx EXCEPT ![d].pc = pc, ![d].op = op, ![d].gate = gate, ![d].cp = cp]
      PROVE  ctx'[d].pc = pc /\ ctx'[d].lease = ctx[d].lease
  BY <1>1, <1>5 DEF Contexts
<1> QED
  BY <1>2, <1>3, <1>4, <1>5

\* The steps that keep a context on its lease, and at work or dropped.
Quiet(d) ==
    \/ Begin(d) \/ Finish(d) \/ CancelOperation(d) \/ Drop(d) \/ Crash(d)
    \/ MarkRunning(d) \/ LockGate(d) \/ RenewForOperation(d) \/ Transact(d)
    \/ VerifierReturns(d) \/ JoinHeartbeat(d) \/ FinalRenew(d)

LEMMA QuietCourse ==
    ASSUME CInv, NEW d \in Owner, Quiet(d)
    PROVE  ctx'[d].pc \in Holding /\ ctx'[d].lease = ctx[d].lease
<1> USE DEF Holding, Owning, InOperation, Consuming
<1>1. ctx[d] \in Contexts /\ ctx \in [Owner -> Contexts]
  BY DEF CInv, CtxInv
<1>2. PICK l : l = ctx[d].lease
  OBVIOUS
<1>3. \A pc \in Holding : Move(d, pc) => ctx'[d].pc \in Holding /\ ctx'[d].lease = l
  BY <1>2, Leaves
<1>4. Return(d) => ctx'[d].pc \in Holding /\ ctx'[d].lease = l
  BY <1>2, Leaves
<1>5. CASE Begin(d) \/ Finish(d)
  BY <1>1, <1>2, <1>5 DEF Begin, Finish, Contexts
<1>6. CASE CancelOperation(d)
  BY <1>2, <1>4, <1>6 DEF CancelOperation
<1>7. CASE Drop(d)
  BY <1>1, <1>2, <1>7 DEF Drop, Contexts
<1>8. CASE Crash(d)
  <2>1. PICK beat : beat = IF ctx[d].beat = "off" THEN "off" ELSE "ended"
    OBVIOUS
  <2>2. ctx' = [ctx EXCEPT ![d] = [ctx[d] EXCEPT !.pc = "dropped", !.gate = "free",
                                                 !.beat = beat]]
    BY <1>1, <1>8, <2>1 DEF Crash, Contexts
  <2> QED
    BY <1>1, <2>2 DEF Contexts
<1>9. CASE MarkRunning(d)
  BY <1>2, <1>3, <1>9, Leaves DEF MarkRunning
<1>10. CASE LockGate(d)
  <2>1. ASSUME ctx' = [ctx EXCEPT ![d].pc = "renewing", ![d].gate = "operation"]
        PROVE  ctx'[d].pc = "renewing" /\ ctx'[d].lease = ctx[d].lease
    BY <1>1, <2>1 DEF Contexts
  <2> QED
    BY <1>2, <1>4, <1>10, <2>1 DEF LockGate
<1>11. CASE Transact(d)
  <2>1. \/ Return(d)
        \/ ctx' = [ctx EXCEPT ![d].pc = "locking", ![d].op = "fetch",
                              ![d].gate = "free", ![d].cp = NextCheckpointId]
        \/ \E k \in Candidates(l.run) :
              ctx' = [ctx EXCEPT ![d].pc = "verifying", ![d].op = "verify",
                                 ![d].gate = "free", ![d].cp = k.id]
    BY <1>2, <1>11 DEF Transact
  <2>2. ASSUME NEW pc \in {"locking", "verifying"}, NEW op, NEW gate, NEW cp,
               ctx' = [ctx EXCEPT ![d].pc = pc, ![d].op = op, ![d].gate = gate, ![d].cp = cp]
        PROVE  ctx'[d].pc \in Holding /\ ctx'[d].lease = l
    BY <1>2, <2>2, Leaves
  <2>3. ctx'[d].pc \in Holding /\ ctx'[d].lease = l
    BY <1>4, <2>1, <2>2
  <2> QED
    BY <1>2, <2>3
<1>12. CASE RenewForOperation(d) \/ FinalRenew(d) \/ JoinHeartbeat(d)
  BY <1>2, <1>3, <1>4, <1>12 DEF RenewForOperation, FinalRenew, GiveUp, JoinHeartbeat
<1>13. CASE VerifierReturns(d)
  <2>1. ASSUME NEW verdict, ctx' = [ctx EXCEPT ![d].pc = "locking", ![d].op = verdict]
        PROVE  ctx'[d].pc = "locking" /\ ctx'[d].lease = ctx[d].lease
    BY <1>1, <2>1 DEF Contexts
  <2> QED
    BY <1>2, <1>4, <1>13, <2>1 DEF VerifierReturns
<1> QED
  BY <1>5, <1>6, <1>7, <1>8, <1>9, <1>10, <1>11, <1>12, <1>13 DEF Quiet

LEMMA HoldersStay ==
    ASSUME CInv, NEW l \in leases,
           (\E ttl \in Ttl : RenewRunLease(l, ttl)) \/ UpdateRunStatus(l, "running")
    PROVE  \A r \in Run : runs'[r].owner = runs[r].owner
<1>1. l.run \in Run
  BY DEF CInv, Shape, TokensShape, Lease
<1>2. runs \in [Run -> RunRow] /\ runs[l.run] \in RunRow
  BY <1>1 DEF CInv, Shape, RunsShape
<1>3. ASSUME NEW row, row.owner = runs[l.run].owner, runs' = [runs EXCEPT ![l.run] = row]
      PROVE  \A r \in Run : runs'[r].owner = runs[r].owner
  BY <1>1, <1>2, <1>3
<1>4. ASSUME NEW ttl \in Ttl, RenewRunLease(l, ttl)
      PROVE  \A r \in Run : runs'[r].owner = runs[r].owner
  <2>1. PICK row : row = [runs[l.run] EXCEPT !.expires = now + ttl]
    OBVIOUS
  <2>2. row.owner = runs[l.run].owner
    BY <1>2, <2>1 DEF RunRow
  <2>3. runs' = [runs EXCEPT ![l.run] = row]
    BY <1>4, <2>1 DEF RenewRunLease
  <2> QED
    BY <1>3, <2>2, <2>3
<1>5. ASSUME UpdateRunStatus(l, "running")
      PROVE  \A r \in Run : runs'[r].owner = runs[r].owner
  <2>1. PICK row : row = [runs[l.run] EXCEPT !.status = "running"]
    OBVIOUS
  <2>2. row.owner = runs[l.run].owner
    BY <1>2, <2>1 DEF RunRow
  <2>3. runs' = [runs EXCEPT ![l.run] = row]
    BY <1>5, <2>1 DEF UpdateRunStatus
  <2> QED
    BY <1>3, <2>2, <2>3
<1> QED
  BY <1>4, <1>5

LEMMA AskOwners ==
    ASSUME CInv, NoOrphanLease, NEW d \in Owner, Ask(d) PROVE OwnersKept(d)
<1> USE DEF Holding, Owning, InOperation, Consuming
<1>1. ctx[d] \in Contexts /\ ctx \in [Owner -> Contexts]
  BY DEF CInv, CtxInv
<1>2. ASSUME NEW r \in Run, Create(d, r) \/ \E op \in {"open", "recover"} : Open(d, r, op)
      PROVE  OwnersKept(d)
  <2>1. \A s \in Run : runs[s].owner # d
    BY <1>2 DEF NoOrphanLease, Create, Open
  <2>2. \A s \in Run : runs'[s].owner \in {runs[s].owner, NoOwner}
    BY <1>2 DEF Create, CreateRun, Open, AbsentRun, vars, CInv, Shape, RunsShape
  <2> QED
    BY <2>1, <2>2, OwnerAssumption DEF OwnersKept
<1>3. CASE ClaimNext(d)
  <2>1. PICK ttl \in Ttl : ClaimNextRecoverableRun(d, ttl)
    BY <1>3 DEF ClaimNext
  <2>2. PICK r \in Run : GrantLease(r, d, ttl, "running")
    BY <2>1 DEF ClaimNextRecoverableRun
  <2>3. PICK l \in leases' \ leases : Start(d, l)
    BY <1>3 DEF ClaimNext
  <2>4. l = LeaseOf(d, r)
    BY <2>2, <2>3, ClaimHands
  <2>5. l.run = r
    BY <2>4 DEF LeaseOf
  <2>6. ctx'[d].pc = "idle" /\ ctx'[d].lease = l
    BY <2>3, Leaves
  <2> QED
    BY <1>3, <2>2, <2>5, <2>6, GrantOwns DEF ClaimNext
<1>4. ASSUME Begin(d) \/ Finish(d) \/ CancelOperation(d) \/ Drop(d) \/ Crash(d)
      PROVE  OwnersKept(d)
  <2>1. UNCHANGED runs
    BY <1>4 DEF Begin, Finish, CancelOperation, Drop, Crash, vars
  <2> QED
    BY <1>4, <2>1, HoldingKeeps, QuietCourse DEF Quiet
<1> QED
  BY <1>2, <1>3, <1>4 DEF Ask

\* A context that owns a run owns the one its lease names.
LEMMA OwnsItsRun ==
    ASSUME CInv, NoOrphanLease, NEW d \in Owner, NEW r \in Run, runs[r].owner = d
    PROVE  ctx[d].lease.run = r
  BY DEF NoOrphanLease

LEMMA AdvanceOwners ==
    ASSUME CInv, NoOrphanLease, NEW d \in Owner, Advance(d) PROVE OwnersKept(d)
<1> USE DEF Holding, Owning, InOperation, Consuming
<1>1. Sound(d, ctx[d], leases) /\ ctx[d] \in Contexts /\ ctx \in [Owner -> Contexts]
  BY ContextSound DEF CInv, CtxInv
<1>2. runs \in [Run -> RunRow] /\ \A r \in Run : runs[r] \in RunRow
  BY DEF CInv, Shape, RunsShape
<1>3. PICK l : l = ctx[d].lease
  OBVIOUS
<1>4. CASE ClaimLease(d)
  <2>1. ctx[d].pc = "claiming" /\ l.run \in Run
    BY <1>1, <1>3, <1>4 DEF ClaimLease, Sound
  <2>2. ASSUME NEW ttl \in Ttl, ClaimRunLease(l.run, d, ttl, ctx[d].op = "recover"),
               ctx' = [ctx EXCEPT ![d].pc = "marking", ![d].lease = LeaseOf(d, l.run)]
        PROVE  OwnersKept(d)
    <3>1. ctx'[d].pc = "marking" /\ ctx'[d].lease.run = l.run
      BY <1>1, <2>2 DEF LeaseOf, Contexts
    <3> QED
      BY <2>1, <2>2, <3>1, GrantOwns DEF ClaimRunLease
  <2>3. ASSUME Fails PROVE OwnersKept(d)
    <3>1. \A s \in Run : runs[s].owner # d
      BY <2>1 DEF NoOrphanLease
    <3> QED
      BY <2>3, <3>1 DEF OwnersKept, Fails, vars
  <2> QED
    BY <1>3, <1>4, <2>2, <2>3 DEF ClaimLease
<1>5. CASE ReleaseLease(d)
  <2>1. l \in leases /\ l.run \in Run
    BY <1>1, <1>3, <1>5 DEF ReleaseLease, Sound, CInv, Shape, TokensShape, Lease
  <2>2. CASE ReleaseRunLease(l)
    <3>1. runs'[l.run].owner = NoOwner /\ \A s \in Run : s # l.run => runs'[s] = runs[s]
      BY <1>2, <2>1, <2>2 DEF ReleaseRunLease, RunRow
    <3>2. \A s \in Run : s # l.run => runs[s].owner # d
      BY <1>3, OwnsItsRun
    <3> QED
      BY <3>1, <3>2, OwnerAssumption DEF OwnersKept
  <2>3. CASE Fails /\ Move(d, "leaked")
    <3>1. ctx'[d].pc = "leaked" /\ ctx'[d].lease = ctx[d].lease
      BY <1>1, <2>3 DEF Move, Contexts
    <3> QED
      BY <2>3, <3>1, HoldingKeeps DEF Fails, vars
  <2>4. CASE Fails /\ ~Owned(d)
    <3>1. \A s \in Run : runs[s].owner # d
      BY <1>3, <2>1, <2>4, OwnsItsRun DEF Owned
    <3> QED
      BY <2>4, <3>1 DEF OwnersKept, Fails, vars
  <2> QED
    BY <1>3, <1>5, <2>2, <2>3, <2>4 DEF ReleaseLease
<1>6. CASE Complete(d)
  <2>1. l \in leases /\ l.run \in Run
    BY <1>1, <1>3, <1>6 DEF Complete, Sound, CInv, Shape, TokensShape, Lease
  <2>2. CASE CompleteRun(l)
    <3>1. runs'[l.run].owner = NoOwner /\ \A s \in Run : s # l.run => runs'[s] = runs[s]
      BY <1>2, <2>1, <2>2 DEF CompleteRun, RunRow
    <3>2. \A s \in Run : s # l.run => runs[s].owner # d
      BY <1>3, OwnsItsRun
    <3> QED
      BY <3>1, <3>2, OwnerAssumption DEF OwnersKept
  <2>3. CASE GiveUp(d)
    <3>1. ctx'[d].pc = "releasing" /\ ctx'[d].lease = ctx[d].lease
      BY <1>1, <2>3 DEF GiveUp, Move, Contexts
    <3> QED
      BY <2>3, <3>1, HoldingKeeps DEF GiveUp, Fails, vars
  <2> QED
    BY <1>3, <1>6, <2>2, <2>3 DEF Complete
<1>7. ASSUME MarkRunning(d) \/ LockGate(d) \/ RenewForOperation(d) \/ Transact(d)
             \/ VerifierReturns(d) \/ JoinHeartbeat(d) \/ FinalRenew(d)
      PROVE  OwnersKept(d)
  <2>3. ctx'[d].pc \in Holding /\ ctx'[d].lease = l
    BY <1>3, <1>7, QuietCourse DEF Quiet
  <2>4. \/ UNCHANGED runs
        \/ /\ l \in leases
           /\ (\E ttl \in Ttl : RenewRunLease(l, ttl)) \/ UpdateRunStatus(l, "running")
    BY <1>1, <1>3, <1>7 DEF Sound, MarkRunning, LockGate, RenewForOperation,
       Transact, AppendLlmCall, RecordToolResult, ProposeCheckpoint, DecideCheckpoint,
       VerifierReturns, JoinHeartbeat, FinalRenew, GiveUp, Fails, vars
  <2>5. \A r \in Run : runs'[r].owner = runs[r].owner
    BY <2>4, HoldersStay
  <2> QED
    BY <1>3, <2>3, <2>5, HoldingKeeps
<1> QED
  BY <1>4, <1>5, <1>6, <1>7 DEF Advance

LEMMA BeatOwners ==
    ASSUME CInv, NoOrphanLease, NEW d \in Owner, Beat(d) PROVE OwnersKept(d)
<1>1. ctx[d] \in Contexts /\ ctx \in [Owner -> Contexts]
  BY DEF CInv, CtxInv
<1>2. ctx'[d].pc = ctx[d].pc /\ ctx'[d].lease = ctx[d].lease
  BY <1>1 DEF Beat, BeatWakes, BeatStops, BeatLocks, BeatRenews, Contexts
<1>3. UNCHANGED runs \/ BeatRenews(d)
  BY DEF Beat, BeatWakes, BeatStops, BeatLocks, vars
<1>4. \A r \in Run : runs'[r].owner = runs[r].owner
  <2>1. ctx[d].beat = "renewing" => ctx[d].lease \in leases
    BY ContextSound DEF Sound
  <2> QED
    BY <1>3, <2>1, HoldersStay DEF BeatRenews, Fails, vars
<1> QED
  BY <1>2, <1>4 DEF OwnersKept, NoOrphanLease, Holding

\* Every failure of a claim, of close() or of complete() gives the lease back,
\* unless the release itself fails (agent.rs, claim, close and complete).
THEOREM LeasesAreNotOrphaned == ASpec => []NoOrphanLease
<1>1. AInit => NoOrphanLease
  BY OwnerAssumption DEF AInit, Init, AbsentRun, NoOrphanLease
<1>2. ASSUME CInv, NoOrphanLease, NEW d \in Owner, Ask(d) \/ Advance(d) \/ Beat(d)
      PROVE  NoOrphanLease'
  <2>1. OwnersKept(d)
    BY <1>2, AskOwners, AdvanceOwners, BeatOwners
  <2>2. \A c \in Owner : c # d => ctx'[c] = ctx[c]
    BY <1>2, OthersStay
  <2> QED
    BY <1>2, <2>1, <2>2 DEF NoOrphanLease, OwnersKept, Holding
<1>3. ASSUME NoOrphanLease, UNCHANGED <<runs, ctx>> PROVE NoOrphanLease'
  BY <1>3 DEF NoOrphanLease
<1>4. CInv /\ NoOrphanLease /\ [ANext]_avars => NoOrphanLease'
  BY <1>2, <1>3 DEF ANext, Tick, avars, vars
<1> QED
  BY <1>1, <1>4, ContextInvariant, PTL DEF ASpec

-----------------------------------------------------------------------------
(* What complete() reports.                                                   *)

Completion(c) == {e \in events : /\ e.payload.to = "completed"
                                 /\ e.run = ctx[c].lease.run
                                 /\ e.writer = ctx[c].lease.epoch}

\* A context is completed exactly when the log has a completion by its lease.
Reported == \A c \in Owner : ctx[c].pc = "completed" <=> Completion(c) # {}

\* Leases change only where a context comes to be, and a context is completed
\* only by its transaction.
Course(d) ==
    \/ /\ ctx'[d].lease = ctx[d].lease
       /\ ctx'[d].pc = "completed" <=> ctx[d].pc = "completed"
    \/ /\ ctx'[d].lease = ctx[d].lease
       /\ ctx'[d].pc = "completed" /\ ctx[d].pc = "completing" /\ CompleteRun(ctx[d].lease)
    \/ ctx'[d].lease.epoch = 0 /\ ctx'[d].pc = "claiming"
    \/ /\ \E r \in Run : ctx'[d].lease = LeaseOf(d, r)
       /\ ctx'[d].pc \in {"marking", "idle"}

LEMMA ContextCourse ==
    ASSUME CInv, NEW d \in Owner, Ask(d) \/ Advance(d) \/ Beat(d)
    PROVE  Course(d)
<1>1. Sound(d, ctx[d], leases) /\ ctx[d] \in Contexts /\ ctx \in [Owner -> Contexts]
  BY ContextSound DEF CInv, CtxInv
<1>2. CASE Quiet(d)
  <2>1. ctx[d].pc # "completed"
    BY <1>2 DEF Quiet, Begin, Finish, CancelOperation, Drop, Crash, MarkRunning, LockGate,
       RenewForOperation, Transact, VerifierReturns, JoinHeartbeat, FinalRenew, Over,
       InOperation, Consuming
  <2>2. "completed" \notin Holding
    BY DEF Holding, Owning, InOperation, Consuming
  <2> QED
    BY <1>2, <2>1, <2>2, QuietCourse DEF Course
<1>3. ASSUME NEW r, Create(d, r) \/ \E op \in {"open", "recover"} : Open(d, r, op)
      PROVE  Course(d)
  <2>1. PICK op : ctx' = [ctx EXCEPT ![d].pc = "claiming", ![d].op = op, ![d].lease.run = r]
    BY <1>3 DEF Create, Open
  <2>2. ctx[d].lease.epoch = 0
    BY <1>1, <1>3 DEF Create, Open, Sound
  <2>3. PICK l : l = [ctx[d].lease EXCEPT !.run = r]
    OBVIOUS
  <2>4. l.epoch = 0
    BY <1>1, <2>2, <2>3 DEF Contexts, AnyLease
  <2>5. ctx' = [ctx EXCEPT ![d] = [ctx[d] EXCEPT !.pc = "claiming", !.op = op, !.lease = l]]
    BY <1>1, <2>1, <2>3
  <2>6. ctx'[d].lease = l /\ ctx'[d].pc = "claiming"
    BY <1>1, <2>5 DEF Contexts
  <2> QED
    BY <2>4, <2>6 DEF Course
<1>4. CASE ClaimNext(d)
  <2>1. PICK ttl \in Ttl, r \in Run : GrantLease(r, d, ttl, "running")
    BY <1>4 DEF ClaimNext, ClaimNextRecoverableRun
  <2>2. PICK l \in leases' \ leases : Start(d, l)
    BY <1>4 DEF ClaimNext
  <2>3. l = LeaseOf(d, r)
    BY <2>1, <2>2, ClaimHands
  <2> QED
    BY <2>2, <2>3, Leaves DEF Course
<1>5. CASE ClaimLease(d)
  <2>1. PICK r : r = ctx[d].lease.run
    OBVIOUS
  <2>2. r \in Run
    BY <1>1, <1>5, <2>1 DEF ClaimLease, Sound
  <2>3. ASSUME ctx' = [ctx EXCEPT ![d].pc = "marking", ![d].lease = LeaseOf(d, r)]
        PROVE  Course(d)
    <3>1. ctx'[d].lease = LeaseOf(d, r) /\ ctx'[d].pc = "marking"
      BY <1>1, <2>3 DEF Contexts
    <3> QED
      BY <2>2, <3>1 DEF Course
  <2>4. ASSUME Move(d, "failed") PROVE Course(d)
    <3>1. ctx[d].pc = "claiming"
      BY <1>5 DEF ClaimLease
    <3>2. ctx'[d].pc = "failed" /\ ctx'[d].lease = ctx[d].lease
      BY <2>4, Leaves
    <3> QED
      BY <3>1, <3>2 DEF Course
  <2> QED
    BY <1>5, <2>1, <2>3, <2>4 DEF ClaimLease
<1>6. CASE Complete(d)
  <2>1. ctx[d].pc = "completing"
    BY <1>6 DEF Complete
  <2>2. CASE CompleteRun(ctx[d].lease) /\ Move(d, "completed")
    <3>1. ctx'[d].pc = "completed" /\ ctx'[d].lease = ctx[d].lease
      BY <2>2, Leaves
    <3> QED
      BY <2>1, <2>2, <3>1 DEF Course
  <2>3. CASE Move(d, "releasing")
    <3>1. ctx'[d].pc = "releasing" /\ ctx'[d].lease = ctx[d].lease
      BY <2>3, Leaves
    <3> QED
      BY <2>1, <3>1 DEF Course
  <2> QED
    BY <1>6, <2>2, <2>3 DEF Complete, GiveUp
<1>7. CASE ReleaseLease(d)
  <2>1. PICK pc : Move(d, pc) /\ pc # "completed"
    BY <1>7 DEF ReleaseLease, Released
  <2> QED
    BY <1>7, <2>1, Leaves DEF ReleaseLease, Course
<1>8. CASE Beat(d)
  <2>1. ctx'[d].pc = ctx[d].pc /\ ctx'[d].lease = ctx[d].lease
    BY <1>1, <1>8 DEF Beat, BeatWakes, BeatStops, BeatLocks, BeatRenews, Contexts
  <2> QED
    BY <2>1 DEF Course
<1> QED
  BY <1>2, <1>3, <1>4, <1>5, <1>6, <1>7, <1>8 DEF Ask, Advance, Quiet

LEMMA ReportedStep ==
    ASSUME CInv, FencedShape, Reported, [ANext]_avars
    PROVE  Reported'
<1>1. CInv' /\ StoreStep
  BY ContextsStep
<1>2. events \subseteq events'
  <2>1. [Next]_vars
    BY <1>1 DEF StoreStep
  <2> QED
    BY <2>1, StepSummary DEF FencedShape, Fenced, LogStep, LogStepOf
<1>3. \A e \in events' : e.writer \in Nat \ {0}
  BY <1>1, BoundAssumption DEF CInv, Shape, EventsShape, Event
<1>4. ASSUME NEW c \in Owner, ctx'[c].lease = ctx[c].lease,
             ctx'[c].pc = "completed" <=> ctx[c].pc = "completed"
      PROVE  ctx'[c].pc = "completed" <=> Completion(c)' # {}
  <2>1. Completion(c) \subseteq Completion(c)'
    BY <1>2, <1>4 DEF Completion
  <2>2. ASSUME NEW e \in Completion(c)', e \notin Completion(c) PROVE ctx'[c].pc = "completed"
    <3>1. /\ e \in events' \ events /\ e.payload.to = "completed"
          /\ e.run = ctx[c].lease.run /\ e.writer = ctx[c].lease.epoch
      BY <1>4, <2>2 DEF Completion
    <3>2. ctx[c].lease \in leases
      BY <1>3, <3>1, ContextSound DEF Sound
    <3> QED
      BY <3>1, <3>2, OnlyOwnWrites DEF Signed
  <2> QED
    BY <1>4, <2>1, <2>2 DEF Reported
<1>5. ASSUME NEW d \in Owner, Ask(d) \/ Advance(d) \/ Beat(d), Course(d)
      PROVE  ctx'[d].pc = "completed" <=> Completion(d)' # {}
  <2>1. CASE /\ ctx'[d].lease = ctx[d].lease /\ ctx'[d].pc = "completed"
             /\ CompleteRun(ctx[d].lease)
    <3>1. PICK l : l = ctx[d].lease
      OBVIOUS
    <3>2. PICK e : e = TransitionRow(l.run, NextSeq(l.run), "running", "completed", l.epoch)
      OBVIOUS
    <3>3. e \in events'
      BY <2>1, <3>1, <3>2 DEF CompleteRun, InsertEvents
    <3>4. e.run = l.run /\ e.writer = l.epoch /\ e.payload.to = "completed"
      BY <3>2, TransitionRowBy
    <3>5. e \in Completion(d)'
      BY <2>1, <3>1, <3>3, <3>4 DEF Completion
    <3> QED
      BY <2>1, <3>5
  <2>2. CASE ctx'[d].lease.epoch = 0 /\ ctx'[d].pc = "claiming"
    BY <1>3, <2>2 DEF Completion
  <2>3. CASE /\ \E r \in Run : ctx'[d].lease = LeaseOf(d, r)
             /\ ctx'[d].pc \in {"marking", "idle"}
    <3>1. PICK r \in Run : ctx'[d].lease = LeaseOf(d, r)
      BY <2>3
    <3>2. ctx'[d].lease.run = r /\ ctx'[d].lease.epoch = runs[r].epoch + 1
      BY <3>1 DEF LeaseOf
    <3>3. ASSUME NEW e \in Completion(d)' PROVE FALSE
      <4>1. /\ e \in events' /\ e.run = r /\ e.writer = runs[r].epoch + 1
            /\ e.payload.to = "completed"
        BY <3>2, <3>3 DEF Completion
      <4>2. CASE e \in events
        <5>1. e.writer <= runs[r].epoch /\ runs[r].epoch \in Nat
          BY <4>1, <4>2, LoggedBefore DEF FencedShape, Fenced, WritersReached
        <5> QED
          BY <4>1, <5>1
      <4>3. CASE e \notin events
        <5>1. Signed(d, e)
          BY <1>5, <4>1, <4>3, ContextSigns DEF FencedShape
        <5> QED
          BY <2>3, <4>1, <5>1 DEF Signed
      <4> QED
        BY <4>2, <4>3
    <3> QED
      BY <2>3, <3>3
  <2> QED
    BY <1>4, <1>5, <2>1, <2>2, <2>3 DEF Course
<1>6. ASSUME NEW d \in Owner, Ask(d) \/ Advance(d) \/ Beat(d) PROVE Reported'
  <2>1. \A c \in Owner : c # d => ctx'[c] = ctx[c]
    BY <1>6, OthersStay
  <2> QED
    BY <1>4, <1>5, <1>6, <2>1, ContextCourse DEF Reported
<1>7. ASSUME UNCHANGED ctx PROVE Reported'
  BY <1>4, <1>7 DEF Reported
<1> QED
  BY <1>6, <1>7 DEF ANext, avars

\* complete() tells the truth: it returns Ok when its transaction committed,
\* and the log of a context that ends otherwise has no completion by its lease
\* (agent.rs, complete).
THEOREM CompletionIsReported == ASpec => []CompletionReported
<1>1. AInit => Reported
  <2> SUFFICES ASSUME AInit, NEW c \in Owner
               PROVE  ctx[c].pc # "completed" /\ Completion(c) = {}
    BY DEF Reported
  <2>1. ctx[c] = NoContext /\ events = {}
    BY DEF AInit, Init
  <2>2. Completion(c) = {}
    BY <2>1 DEF Completion
  <2>3. NoContext.pc = "none"
    BY DEF NoContext
  <2> QED
    BY <2>1, <2>2, <2>3
<1>2. CInv /\ FencedShape /\ Reported /\ [ANext]_avars => Reported'
  BY ReportedStep
<1>3. Reported => CompletionReported
  BY DEF Reported, Completion, CompletionReported
<1> QED
  BY <1>1, <1>2, <1>3, ContextInvariant, ContextsUseTheStore, FencedInvariant, PTL
     DEF ASpec, UsesTheStore

=============================================================================

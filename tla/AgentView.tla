----------------------------- MODULE AgentView ------------------------------
(* What the run store shows a resuming application: AgentContext::state() of  *)
(* src/src/agent.rs, and the run store seen as the promise of DurableLog.     *)
EXTENDS RunStore

\* get_latest_accepted_checkpoint: ORDER BY round DESC LIMIT 1
LatestAccepted(r) == {c \in Accepted(r) : \A d \in Accepted(r) : d.round <= c.round}

\* mutant of StateEvents: the verdict's tool_result counted as new
StateEvents_FromVerdict(r) ==
    {e \in EventsOf(r) : \A c \in LatestAccepted(r) : SeqOf(e) > c.decision}

\* AgentContext::state(): the events after the verdict and its tool_result,
\* or all of them when no checkpoint was accepted
StateEvents(r) == {e \in EventsOf(r) :
                     \A c \in LatestAccepted(r) : SeqOf(e) > I32(c.decision + 1)}

\* The rows the checkpoint machinery wrote about c itself.
OwnRecord(c, e) == e.payload.cp = c.id \/ (e.type = "tool_result" /\ e.payload.call = c.call)

\* The events the accepted checkpoint c cannot have summarised: those after the
\* one it is based on.
NotSummarised(c) == {e \in EventsOf(c.run) : e.place > c.based_on /\ ~OwnRecord(c, e)}

\* AgentContext::state() after a checkpoint that was verified at once: exactly
\* the events that the checkpoint does not summarise, its own records aside,
\* are handed to the application.  Excepted are a checkpoint request whose result
\* was also appended raw, outside the decision, and a log that is full, in which
\* numbers have wrapped.
StateExactWhenVerifiedAtOnce == \A c \in checkpoints :
    (/\ c \in LatestAccepted(c.run) /\ c.call \notin RawCalls
     /\ \A e \in EventsOf(c.run) : SeqOf(e) >= 0
     /\ c.decision = c.based_on + 2) => StateEvents(c.run) = NotSummarised(c)

\* README "AgentContext::state() returns the latest accepted checkpoint plus
\* subsequent events" and "Replay of persisted LLM responses and tool results":
\* whatever the latest accepted checkpoint does not summarise is in the events.
StateLosesNothing == \A c \in checkpoints :
    c \in LatestAccepted(c.run) => NotSummarised(c) \subseteq StateEvents(c.run)

-----------------------------------------------------------------------------
(* The refinement mapping to DurableLog.                                      *)

CheckpointCall(id) == (CHOOSE c \in checkpoints : c.id = id).call

AbstractEntry(e) ==
    LET entry(kind, c) == [kind |-> kind, call |-> c, by |-> e.writer]
    IN  CASE e.type = "llm_call" -> entry("response", NoCall)
          [] e.type = "tool_call" -> entry(e.payload.name, e.payload.call)
          [] e.type = "tool_result" -> entry("answer", e.payload.call)
          [] e.type = "checkpoint_proposed" -> entry("proposed", CheckpointCall(e.payload.cp))
          [] e.type \in {"checkpoint_accepted", "checkpoint_rejected"} ->
                 entry("verdict", CheckpointCall(e.payload.cp))
          [] e.type = "state_transition" ->
                 entry(IF e.payload.to = "completed" THEN "finished" ELSE "started", NoCall)

AbstractLog(r) ==
    LET rows == EventsOf(r)
    IN  [i \in 1 .. LogLength(r) |-> AbstractEntry(CHOOSE e \in rows : e.place = i - 1)]

Phases == [r \in Run |-> runs[r].status]
Epochs == [r \in Run |-> runs[r].epoch]
Logs == [r \in Run |-> AbstractLog(r)]

Promise == INSTANCE DurableLog WITH phase <- Phases, epoch <- Epochs, log <- Logs

\* The run store keeps the durability contract: every transaction of db.rs is
\* one step of DurableLog, or leaves its state alone.
KeepsPromise == Promise!DSpec
=============================================================================

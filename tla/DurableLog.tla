----------------------------- MODULE DurableLog -----------------------------
(* What the run store promises, with the tables, keys, clock and lease tokens *)
(* left out (README, "Durability contract").  A run is a phase, the epoch of  *)
(* its present owner, and a log that only grows:                              *)
(*   - an entry is written by the present owner, while the run is running;    *)
(*   - a tool intent is recorded once, with the response that asked for it;   *)
(*   - an intent is answered at most once, a checkpoint request only by the   *)
(*     verdict on its proposal, in the same step as the verdict;              *)
(*   - one proposal at a time is under verification;                          *)
(*   - completion is the last entry.                                          *)
EXTENDS Integers, Sequences, SequencesExt

CONSTANTS Run, CallId, NoCall

VARIABLES phase, epoch, log

dvars == <<phase, epoch, log>>

Entry(kind, c, by) == [kind |-> kind, call |-> c, by |-> by]

Intent == {"tool", "submit_checkpoint"}

Logged(r, kinds) == {e.call : e \in {x \in Range(log[r]) : x.kind \in kinds}}

Open(r) == Logged(r, Intent) \ Logged(r, {"answer"})
UnderVerification(r) == Logged(r, {"proposed"}) \ Logged(r, {"verdict"})

-----------------------------------------------------------------------------

Create(r) ==
    /\ phase[r] = "absent"
    /\ phase' = [phase EXCEPT ![r] = "pending"]
    /\ UNCHANGED <<epoch, log>>

\* A new owner.  A claim may also start the run, in its own epoch.
Claim(r) ==
    /\ phase[r] \in {"pending", "running"}
    /\ epoch' = [epoch EXCEPT ![r] = @ + 1]
    /\ UNCHANGED <<phase, log>>

Start(r, by) ==
    /\ phase[r] = "pending"
    /\ phase' = [phase EXCEPT ![r] = "running"]
    /\ log' = [log EXCEPT ![r] = Append(@, Entry("started", NoCall, by))]

StartAsOwner(r) == epoch[r] > 0 /\ Start(r, epoch[r]) /\ UNCHANGED epoch
ClaimAndStart(r) == Start(r, epoch[r] + 1) /\ epoch' = [epoch EXCEPT ![r] = @ + 1]

-----------------------------------------------------------------------------
(* What one step may add to the log of a running run: new is all of it.       *)

\* A response with any number of intents, all new to the run
Reply(r, new) ==
    /\ new[1] = Entry("response", NoCall, epoch[r])
    /\ \A i \in DOMAIN new \ {1} :
           /\ new[i].kind \in Intent /\ new[i].by = epoch[r]
           /\ new[i].call \in CallId \ Logged(r, Intent)
           /\ \A j \in DOMAIN new \ {1} : new[i].call = new[j].call => i = j
    /\ UNCHANGED phase

Answer(r, c, new) ==
    /\ new = <<Entry("answer", c, epoch[r])>>
    /\ c \in Open(r) \ Logged(r, {"submit_checkpoint"})
    /\ UNCHANGED phase

Proposal(r, c, new) ==
    /\ new = <<Entry("proposed", c, epoch[r])>>
    /\ c \in Open(r) \cap Logged(r, {"submit_checkpoint"})
    /\ UnderVerification(r) = {}
    /\ UNCHANGED phase

Judgement(r, c, new) ==
    /\ new = <<Entry("verdict", c, epoch[r]), Entry("answer", c, epoch[r])>>
    /\ c \in UnderVerification(r) \cap Open(r)
    /\ UNCHANGED phase

Completion(r, new) ==
    /\ new = <<Entry("finished", NoCall, epoch[r])>>
    /\ phase' = [phase EXCEPT ![r] = "completed"]

Record(r, new) ==
    /\ new # <<>> /\ phase[r] = "running"
    /\ \/ Reply(r, new) \/ Completion(r, new)
       \/ LET c == new[1].call
          IN  Answer(r, c, new) \/ Proposal(r, c, new) \/ Judgement(r, c, new)
    /\ log' = [log EXCEPT ![r] = @ \o new]
    /\ UNCHANGED epoch

-----------------------------------------------------------------------------

DInit ==
    /\ phase = [r \in Run |-> "absent"]
    /\ epoch = [r \in Run |-> 0]
    /\ log = [r \in Run |-> <<>>]

DNext == \E r \in Run :
    \/ Create(r) \/ Claim(r) \/ StartAsOwner(r) \/ ClaimAndStart(r)
    \/ Record(r, SubSeq(log'[r], Len(log[r]) + 1, Len(log'[r])))

DSpec == DInit /\ [][DNext]_dvars
=============================================================================

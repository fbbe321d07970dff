------------------------- MODULE ResumeWorkerProofs -------------------------
(* Theorems about ResumeWorker, for every set of runs and of workers, every   *)
(* limit on their handlers, every TTL and every slack that the TTL allows.    *)
EXTENDS ResumeWorker, FiniteSetTheorems, WellFoundedInduction, TLAPS

USE RunAssumption, WorkerAssumption, OwnerAssumption, TimeAssumption

RunRow == [completed : BOOLEAN, holder : Handler \cup {Nobody, Gone},
           left : 0 .. Ttl, late : BOOLEAN]

TaskRow == [state : {"empty", "busy", "ok", "error"}, run : Run \cup {0},
            beat : 0 .. Interval + Slack, healthy : BOOLEAN]

WorkerRow == [pc : {"polling", "claiming", "draining", "returned"}, shutdown : BOOLEAN]

WorkersTyped == /\ run \in [Run -> RunRow]
                /\ task \in [Handler -> TaskRow]
                /\ worker \in [Worker -> WorkerRow]

HandlersHaveRuns == \A h \in Handler : Busy(h) => task[h].run \in Run

\* What is left of a lease covers the time until the next renewal must have
\* been made, because what a renewal grants is more than that.
LeasesOutlastBeats == \A h \in Handler :
    Beating(h) => Holds(h) /\ run[task[h].run].left + task[h].beat >= Ttl

\* The owner of a lease is a handler that is at work on that run.
HoldersWork == \A r \in Run : \A h \in Handler :
    run[r].holder = h => Busy(h) /\ task[h].run = r

\* A worker only claims a run while it has a place for its handler.
ClaimersHaveRoom == \A w \in Worker : worker[w].pc = "claiming" => Free(w) # {}

ReturnedAreIdle == \A w \in Worker : worker[w].pc = "returned" => Unjoined(w) = {}

Tables == HandlersHaveRuns /\ LeasesOutlastBeats /\ HoldersWork

WorkerInv == WorkersTyped /\ Tables /\ ClaimersHaveRoom /\ ReturnedAreIdle

-----------------------------------------------------------------------------
(* Handlers, and the least free one.                                          *)

LEMMA Handlers == \A h \in Handler : h[1] \in Worker /\ h[2] \in Nat
  BY DEF Handler

LEMMA Intervals == /\ Interval \in Nat /\ Interval + Slack < Ttl
                   /\ Ttl \in Nat /\ Slack \in Nat
  BY DEF Interval

LEMMA LeastNumber ==
    ASSUME NEW S \in SUBSET Nat, S # {}
    PROVE  \E x \in S : \A y \in S : x <= y
<1> DEFINE Less == {ss \in Nat \X Nat : ss[1] < ss[2]}
<1>1. IsWellFoundedOn(Less, Nat)
  BY NatLessThanWellFounded DEF OpToRel
<1>2. \A x, y \in Nat : <<y, x>> \in Less <=> y < x
  OBVIOUS
<1> HIDE DEF Less
<1>3. PICK x \in S : \A y \in S : ~(<<y, x>> \in Less)
  BY <1>1, WFMin
<1>4. \A y \in S : ~(y < x)
  BY <1>2, <1>3
<1> QED
  BY <1>4

\* The handler a claim is given to, the free one with the least number
Place(w) == CHOOSE h \in Free(w) : \A g \in Free(w) : h[2] <= g[2]

LEMMA PlaceIsFree ==
    ASSUME NEW w \in Worker, Free(w) # {}
    PROVE  Place(w) \in Free(w)
<1> DEFINE Numbers == {h[2] : h \in Free(w)}
<1>1. Numbers \in SUBSET Nat /\ Numbers # {}
  BY Handlers DEF Free
<1>2. PICK n \in Numbers : \A m \in Numbers : n <= m
  BY <1>1, LeastNumber
<1>3. PICK h \in Free(w) : h[2] = n
  BY <1>2
<1>4. \A g \in Free(w) : h[2] <= g[2]
  BY <1>2, <1>3
<1> QED
  BY <1>3, <1>4 DEF Place

-----------------------------------------------------------------------------
(* Steps that leave the tables alone.                                         *)

LEMMA TablesKept ==
    ASSUME Tables, UNCHANGED <<run, task>>
    PROVE  Tables'
  BY DEF Tables, HandlersHaveRuns, LeasesOutlastBeats, HoldersWork, Holds, Beating, Busy

LEMMA GotoMoves ==
    ASSUME WorkersTyped, NEW w \in Worker, NEW pc \in {"polling", "claiming", "draining",
                                                       "returned"},
           Goto(w, pc)
    PROVE  /\ worker' \in [Worker -> WorkerRow]
           /\ worker'[w].pc = pc
           /\ \A v \in Worker : v # w => worker'[v] = worker[v]
  BY DEF WorkersTyped, WorkerRow, Goto

\* A worker that goes on to poll, or to wait for its handlers
LEMMA GoesOn ==
    ASSUME WorkerInv, NEW w \in Worker, NEW pc \in {"polling", "draining"},
           Goto(w, pc), UNCHANGED <<run, task>>
    PROVE  WorkerInv'
<1>1. /\ worker' \in [Worker -> WorkerRow]
      /\ worker'[w].pc = pc
      /\ \A v \in Worker : v # w => worker'[v] = worker[v]
  BY GotoMoves DEF WorkerInv
<1>2. WorkersTyped'
  BY <1>1 DEF WorkerInv, WorkersTyped
<1>3. ClaimersHaveRoom'
  BY <1>1 DEF WorkerInv, ClaimersHaveRoom, Free
<1>4. ReturnedAreIdle'
  BY <1>1 DEF WorkerInv, ReturnedAreIdle, Unjoined
<1> QED
  BY <1>2, <1>3, <1>4, TablesKept DEF WorkerInv

LEMMA PollStep ==
    ASSUME WorkerInv, NEW w \in Worker, Poll(w)
    PROVE  WorkerInv'
<1>1. /\ worker' \in [Worker -> WorkerRow]
      /\ worker'[w].pc = "claiming"
      /\ \A v \in Worker : v # w => worker'[v] = worker[v]
  BY GotoMoves DEF WorkerInv, Poll
<1>2. WorkersTyped'
  BY <1>1 DEF WorkerInv, WorkersTyped, Poll
<1>3. ClaimersHaveRoom'
  BY <1>1 DEF WorkerInv, ClaimersHaveRoom, Free, Poll
<1>4. ReturnedAreIdle'
  BY <1>1 DEF WorkerInv, ReturnedAreIdle, Unjoined, Poll
<1> QED
  BY <1>2, <1>3, <1>4, TablesKept DEF WorkerInv, Poll

LEMMA NothingToClaimStep ==
    ASSUME WorkerInv, NEW w \in Worker, NothingToClaim(w)
    PROVE  WorkerInv'
  BY GoesOn DEF NothingToClaim

LEMMA ClaimFailsStep ==
    ASSUME WorkerInv, NEW w \in Worker, ClaimFails(w)
    PROVE  WorkerInv'
  BY GoesOn DEF ClaimFails

LEMMA BreakStep ==
    ASSUME WorkerInv, NEW w \in Worker, Break(w)
    PROVE  WorkerInv'
  BY GoesOn DEF Break

LEMMA ShutdownStep ==
    ASSUME WorkerInv, NEW w \in Worker, Shutdown(w)
    PROVE  WorkerInv'
<1>1. /\ worker' \in [Worker -> WorkerRow]
      /\ \A v \in Worker : worker'[v].pc = worker[v].pc
  BY DEF WorkerInv, WorkersTyped, WorkerRow, Shutdown
<1>2. WorkersTyped'
  BY <1>1 DEF WorkerInv, WorkersTyped, Shutdown
<1>3. ClaimersHaveRoom'
  BY <1>1 DEF WorkerInv, ClaimersHaveRoom, Free, Shutdown
<1>4. ReturnedAreIdle'
  BY <1>1 DEF WorkerInv, ReturnedAreIdle, Unjoined, Shutdown
<1> QED
  BY <1>2, <1>3, <1>4, TablesKept DEF WorkerInv, Shutdown

\* run() returns when it has joined all of its tasks.
LEMMA ReturnStep ==
    ASSUME WorkerInv, NEW w \in Worker, Return(w)
    PROVE  WorkerInv'
<1>1. /\ worker' \in [Worker -> WorkerRow]
      /\ worker'[w].pc = "returned"
      /\ \A v \in Worker : v # w => worker'[v] = worker[v]
  BY GotoMoves DEF WorkerInv, Return
<1>2. WorkersTyped'
  BY <1>1 DEF WorkerInv, WorkersTyped, Return
<1>3. ClaimersHaveRoom'
  BY <1>1 DEF WorkerInv, ClaimersHaveRoom, Free, Return
<1>4. ReturnedAreIdle'
  BY <1>1 DEF WorkerInv, ReturnedAreIdle, Unjoined, Return
<1> QED
  BY <1>2, <1>3, <1>4, TablesKept DEF WorkerInv, Return

-----------------------------------------------------------------------------
(* Steps of one handler leave the workers where they are.                     *)

\* What ends or starts no task but this one, which is in use before and after,
\* leaves every worker as much room, and as many tasks to join.
LEMMA RoomKept ==
    ASSUME WorkerInv, UNCHANGED worker, NEW h \in Handler, task[h].state # "empty",
           task'[h].state # "empty",
           \A g \in Handler : g # h => task'[g] = task[g]
    PROVE  ClaimersHaveRoom' /\ ReturnedAreIdle'
<1>1. \A w \in Worker : Free(w)' = Free(w) /\ Unjoined(w)' = Unjoined(w)
  BY DEF Free, Unjoined
<1> QED
  BY <1>1 DEF WorkerInv, ClaimersHaveRoom, ReturnedAreIdle

LEMMA JoinStep ==
    ASSUME WorkerInv, NEW w \in Worker, Join(w)
    PROVE  WorkerInv'
<1>1. PICK h \in Unjoined(w) : Ended(h) /\ task' = [task EXCEPT ![h] = NoTask]
  BY DEF Join
<1>2. h \in Handler /\ task[h].state # "empty" /\ ~Busy(h)
  BY <1>1 DEF Unjoined, Ended, Busy
<1>3. NoTask \in TaskRow
  BY Intervals DEF NoTask, TaskRow
<1>4. /\ task' \in [Handler -> TaskRow]
      /\ task'[h] = NoTask
      /\ \A g \in Handler : g # h => task'[g] = task[g]
  BY <1>1, <1>2, <1>3 DEF WorkerInv, WorkersTyped
<1>5. UNCHANGED <<run, worker>>
  BY DEF Join
<1>6. task'[h].state = "empty"
  BY <1>4 DEF NoTask
<1>7. WorkersTyped'
  BY <1>4, <1>5 DEF WorkerInv, WorkersTyped
<1>8. Tables'
  BY <1>2, <1>4, <1>5, <1>6 DEF WorkerInv, Tables, HandlersHaveRuns,
     LeasesOutlastBeats, HoldersWork, Holds, Beating, Busy
<1>9. \A v \in Worker : Free(v) \subseteq Free(v)' /\ Unjoined(v)' \subseteq Unjoined(v)
  BY <1>4, <1>6 DEF Free, Unjoined
<1> QED
  BY <1>5, <1>7, <1>8, <1>9 DEF WorkerInv, ClaimersHaveRoom, ReturnedAreIdle

\* A claim takes a run that nobody holds, or that a handler holds whose
\* heartbeat has stopped, and gives it to a handler that had no run.
LEMMA ClaimStep ==
    ASSUME WorkerInv, NEW w \in Worker, Claim(w)
    PROVE  WorkerInv'
<1> DEFINE h == Place(w)
           fresh == [FreshRun EXCEPT !.holder = h, !.left = Ttl]
           busy(r) == [NoTask EXCEPT !.state = "busy", !.run = r]
<1>1. PICK r \in Run :
          /\ Recoverable(r)
          /\ run' = [run EXCEPT ![r] = fresh]
          /\ task' = [task EXCEPT ![h] = busy(r)]
          /\ Goto(w, IF Cardinality(Free(w)) = 1 THEN "polling" ELSE "claiming")
  BY DEF Claim, Place
<1>2. h \in Free(w)
  BY PlaceIsFree DEF WorkerInv, ClaimersHaveRoom, Claim
<1>3. h \in Handler /\ h[1] = w /\ task[h].state = "empty"
  BY <1>2 DEF Free
<1> HIDE DEF h
<1>4. /\ fresh \in RunRow /\ fresh.holder = h /\ fresh.left = Ttl
      /\ busy(r) \in TaskRow /\ busy(r).state = "busy" /\ busy(r).run = r
      /\ busy(r).beat = 0
  <2>1. 0 \in 0 .. Interval + Slack /\ {0, Ttl} \subseteq 0 .. Ttl
    BY Intervals
  <2>2. FreshRun \in RunRow /\ NoTask \in TaskRow
    BY <2>1 DEF FreshRun, RunRow, NoTask, TaskRow
  <2>3. fresh \in RunRow /\ fresh.holder = h /\ fresh.left = Ttl
    BY <1>3, <2>1, <2>2 DEF RunRow
  <2>4. busy(r) \in TaskRow /\ busy(r).state = "busy" /\ busy(r).run = r
    BY <2>2 DEF TaskRow
  <2>5. busy(r).beat = NoTask.beat /\ NoTask.beat = 0
    BY <2>2 DEF TaskRow, NoTask
  <2> QED
    BY <2>3, <2>4, <2>5
<1> HIDE DEF fresh, busy
<1>5. /\ run' \in [Run -> RunRow] /\ run'[r] = fresh
      /\ \A s \in Run : s # r => run'[s] = run[s]
  BY <1>1, <1>4 DEF WorkerInv, WorkersTyped
<1>6. /\ task' \in [Handler -> TaskRow] /\ task'[h] = busy(r)
      /\ \A g \in Handler : g # h => task'[g] = task[g]
  BY <1>1, <1>3, <1>4 DEF WorkerInv, WorkersTyped
<1> DEFINE next == IF Cardinality(Free(w)) = 1 THEN "polling" ELSE "claiming"
<1>7. /\ worker' \in [Worker -> WorkerRow] /\ worker'[w].pc = next
      /\ \A v \in Worker : v # w => worker'[v] = worker[v]
  <2>1. next \in {"polling", "claiming", "draining", "returned"}
    OBVIOUS
  <2> QED
    BY <1>1, <2>1, GotoMoves DEF WorkerInv
<1>8. WorkersTyped'
  BY <1>5, <1>6, <1>7 DEF WorkersTyped
<1>9. HandlersHaveRuns'
  BY <1>4, <1>6 DEF WorkerInv, Tables, HandlersHaveRuns, Busy
\* No beating handler holds the run that is claimed.
<1>10. \A g \in Handler : Beating(g) => g # h /\ task[g].run # r
  <2> SUFFICES ASSUME NEW g \in Handler, Beating(g) PROVE g # h /\ task[g].run # r
    OBVIOUS
  <2>1. g # h
    BY <1>3 DEF Beating, Busy
  <2>2. /\ task[g].run \in Run /\ Holds(g)
        /\ run[task[g].run].left + task[g].beat >= Ttl
    BY DEF WorkerInv, Tables, HandlersHaveRuns, LeasesOutlastBeats, Beating
  <2>3. task[g].beat \in 0 .. Interval + Slack /\ run[task[g].run].left \in 0 .. Ttl
    BY <2>2 DEF WorkerInv, WorkersTyped, TaskRow, RunRow
  <2>4. run[task[g].run].left # 0
    BY <2>2, <2>3, Intervals
  <2>5. run[task[g].run].holder # Nobody
    BY <2>2 DEF Holds
  <2> QED
    BY <1>1, <2>1, <2>4, <2>5 DEF Recoverable
<1>11. LeasesOutlastBeats'
  <2> SUFFICES ASSUME NEW g \in Handler, Beating(g)'
               PROVE  Holds(g)' /\ run'[task'[g].run].left + task'[g].beat >= Ttl
    BY DEF LeasesOutlastBeats
  <2>1. CASE g = h
    BY <1>4, <1>5, <1>6, <2>1, Intervals DEF Holds
  <2>2. CASE g # h
    <3>1. task'[g] = task[g] /\ Beating(g)
      BY <1>6, <2>2 DEF Beating, Busy
    <3>2. /\ task[g].run \in Run /\ Holds(g) /\ task[g].run # r
          /\ run[task[g].run].left + task[g].beat >= Ttl
      BY <1>10, <3>1 DEF WorkerInv, Tables, HandlersHaveRuns, LeasesOutlastBeats, Beating
    <3> QED
      BY <1>5, <3>1, <3>2 DEF Holds
  <2> QED
    BY <2>1, <2>2
<1>12. HoldersWork'
  <2> SUFFICES ASSUME NEW s \in Run, NEW g \in Handler, run'[s].holder = g
               PROVE  task'[g].state = "busy" /\ task'[g].run = s
    BY DEF HoldersWork, Busy
  <2>1. CASE s = r
    BY <1>4, <1>5, <1>6, <2>1
  <2>2. CASE s # r
    <3>1. run[s].holder = g
      BY <1>5, <2>2
    <3>2. Busy(g) /\ task[g].run = s
      BY <3>1 DEF WorkerInv, Tables, HoldersWork
    <3>3. g # h
      BY <1>3, <3>2 DEF Busy
    <3> QED
      BY <1>6, <3>2, <3>3 DEF Busy
  <2> QED
    BY <2>1, <2>2
<1>13. ClaimersHaveRoom'
  <2> SUFFICES ASSUME NEW v \in Worker, worker'[v].pc = "claiming" PROVE Free(v)' # {}
    BY DEF ClaimersHaveRoom
  <2>1. CASE v = w
    <3>1. Cardinality(Free(w)) # 1
      BY <1>7, <2>1
    <3>2. Free(w) # {h}
      BY <3>1, FS_Singleton
    <3>3. PICK g \in Free(w) : g # h
      BY <1>2, <3>2
    <3> QED
      BY <1>6, <2>1, <3>3 DEF Free
  <2>2. CASE v # w
    <3>1. Free(v) # {}
      BY <1>7, <2>2 DEF WorkerInv, ClaimersHaveRoom
    <3>2. \A g \in Free(v) : g \in Handler /\ g # h
      BY <1>3, <2>2 DEF Free
    <3> QED
      BY <1>6, <3>1, <3>2 DEF Free
  <2> QED
    BY <2>1, <2>2
<1>14. ReturnedAreIdle'
  <2> SUFFICES ASSUME NEW v \in Worker, worker'[v].pc = "returned" PROVE Unjoined(v)' = {}
    BY DEF ReturnedAreIdle
  <2>1. v # w
    BY <1>7
  <2>2. Unjoined(v) = {}
    BY <1>7, <2>1 DEF WorkerInv, ReturnedAreIdle
  <2>3. \A g \in Handler : g[1] = v => task'[g] = task[g]
    BY <1>3, <1>6, <2>1
  <2> QED
    BY <2>2, <2>3 DEF Unjoined
<1> QED
  BY <1>8, <1>9, <1>11, <1>12, <1>13, <1>14 DEF WorkerInv, Tables

\* A handler that ends gives up the lease it holds, and no other.
LEMMA HandlerEnds ==
    ASSUME WorkerInv, NEW h \in Handler, Busy(h), NEW result \in {"ok", "error"},
           End(h, result), UNCHANGED worker,
           run' \in [Run -> RunRow],
           \A s \in Run : s # task[h].run => run'[s] = run[s],
           IF Holds(h) THEN run'[task[h].run].holder \notin Handler ELSE UNCHANGED run
    PROVE  WorkerInv'
<1> DEFINE ended == [NoTask EXCEPT !.state = result, !.run = task[h].run]
           r == task[h].run
<1>1. r \in Run
  BY DEF WorkerInv, Tables, HandlersHaveRuns
<1>2. ended \in TaskRow /\ ended.state = result
  <2>1. NoTask \in TaskRow
    BY Intervals DEF NoTask, TaskRow
  <2> QED
    BY <1>1, <2>1 DEF TaskRow
<1>3. /\ task' \in [Handler -> TaskRow] /\ task'[h] = ended
      /\ \A g \in Handler : g # h => task'[g] = task[g]
  BY <1>2 DEF WorkerInv, WorkersTyped, End
<1> HIDE DEF ended
<1>4. WorkersTyped'
  BY <1>3 DEF WorkerInv, WorkersTyped
<1>5. HandlersHaveRuns'
  BY <1>2, <1>3 DEF WorkerInv, Tables, HandlersHaveRuns, Busy
<1>6. LeasesOutlastBeats'
  <2> SUFFICES ASSUME NEW g \in Handler, Beating(g)'
               PROVE  Holds(g)' /\ run'[task'[g].run].left + task'[g].beat >= Ttl
    BY DEF LeasesOutlastBeats
  <2>1. g # h
    BY <1>2, <1>3 DEF Beating, Busy
  <2>2. task'[g] = task[g] /\ Beating(g)
    BY <1>3, <2>1 DEF Beating, Busy
  <2>3. /\ task[g].run \in Run /\ Holds(g)
        /\ run[task[g].run].left + task[g].beat >= Ttl
    BY <2>2 DEF WorkerInv, Tables, HandlersHaveRuns, LeasesOutlastBeats, Beating
  <2>4. run'[task[g].run] = run[task[g].run]
    BY <2>1, <2>3 DEF Holds
  <2> QED
    BY <2>2, <2>3, <2>4 DEF Holds
<1>7. HoldersWork'
  <2> SUFFICES ASSUME NEW s \in Run, NEW g \in Handler, run'[s].holder = g
               PROVE  task'[g].state = "busy" /\ task'[g].run = s
    BY DEF HoldersWork, Busy
  <2>1. run'[s] = run[s]
    BY <1>1
  <2>2. Busy(g) /\ task[g].run = s
    BY <2>1 DEF WorkerInv, Tables, HoldersWork
  <2>3. g # h
    BY <2>1, <2>2 DEF Holds
  <2> QED
    BY <1>3, <2>2, <2>3 DEF Busy
<1>8. ClaimersHaveRoom' /\ ReturnedAreIdle'
  BY <1>2, <1>3, RoomKept DEF Busy
<1> QED
  BY <1>4, <1>5, <1>6, <1>7, <1>8 DEF WorkerInv, Tables

\* release_run_lease clears the owner, of the run of this handler only.
LEMMA ReleasedRuns ==
    ASSUME WorkerInv, NEW h \in Handler, Busy(h)
    PROVE  /\ Released(h) \in [Run -> RunRow]
           /\ \A s \in Run : s # task[h].run => Released(h)[s] = run[s]
           /\ IF Holds(h) THEN Released(h)[task[h].run].holder \notin Handler
                          ELSE Released(h) = run
<1>1. task[h].run \in Run /\ run \in [Run -> RunRow] /\ 0 \in 0 .. Ttl
  BY Intervals DEF WorkerInv, WorkersTyped, Tables, HandlersHaveRuns
<1>2. CASE Holds(h)
  <2> DEFINE row == [run[task[h].run] EXCEPT !.holder = Nobody, !.left = 0]
  <2>1. row \in RunRow /\ row.holder = Nobody
    BY <1>1 DEF RunRow
  <2>2. Released(h) = [run EXCEPT ![task[h].run] = row]
    BY <1>1, <1>2 DEF Released, RunRow
  <2> QED
    BY <1>1, <1>2, <2>1, <2>2
<1>3. CASE ~Holds(h)
  BY <1>1, <1>3 DEF Released
<1> QED
  BY <1>2, <1>3

LEMMA HandlerCompletesStep ==
    ASSUME WorkerInv, NEW h \in Handler, HandlerCompletes(h)
    PROVE  WorkerInv'
<1>1. Busy(h) /\ UNCHANGED worker
  BY DEF HandlerCompletes
<1>2. task[h].run \in Run /\ run \in [Run -> RunRow] /\ 0 \in 0 .. Ttl
  BY <1>1, Intervals DEF WorkerInv, WorkersTyped, Tables, HandlersHaveRuns
<1>3. CASE Holds(h) /\ run' = [run EXCEPT ![task[h].run] = [FreshRun EXCEPT !.completed = TRUE]]
           /\ End(h, "ok")
  <2> DEFINE row == [FreshRun EXCEPT !.completed = TRUE]
  <2>1. row \in RunRow /\ row.holder = Nobody
    BY <1>2 DEF FreshRun, RunRow
  <2> HIDE DEF row
  <2>2. run' \in [Run -> RunRow] /\ run'[task[h].run].holder \notin Handler
    BY <1>2, <1>3, <2>1 DEF row
  <2>3. \A s \in Run : s # task[h].run => run'[s] = run[s]
    BY <1>2, <1>3
  <2> QED
    BY <1>1, <1>3, <2>2, <2>3, HandlerEnds
<1>4. CASE run' = Released(h) /\ End(h, "error")
  BY <1>1, <1>4, ReleasedRuns, HandlerEnds
<1> QED
  BY <1>3, <1>4 DEF HandlerCompletes

LEMMA HandlerClosesStep ==
    ASSUME WorkerInv, NEW h \in Handler, HandlerCloses(h)
    PROVE  WorkerInv'
<1>1. PICK result \in {"ok", "error"} : End(h, result)
  BY DEF HandlerCloses
<1>2. Busy(h) /\ UNCHANGED worker /\ run' = Released(h)
  BY DEF HandlerCloses
<1> QED
  BY <1>1, <1>2, ReleasedRuns, HandlerEnds

LEMMA CompletionFailsStep ==
    ASSUME WorkerInv, NEW h \in Handler, CompletionFails(h)
    PROVE  WorkerInv'
<1>1. Busy(h) /\ UNCHANGED worker /\ run' = Released(h) /\ End(h, "error")
  BY DEF CompletionFails, Beating
<1> QED
  BY <1>1, ReleasedRuns, HandlerEnds

LEMMA HandlerFailsStep ==
    ASSUME WorkerInv, NEW h \in Handler, HandlerFails(h)
    PROVE  WorkerInv'
<1>1. PICK late \in {FALSE, Beating(h)} : run' = Abandoned(h, late)
  BY DEF HandlerFails
<1>2. Busy(h) /\ UNCHANGED worker /\ End(h, "error")
  BY DEF HandlerFails
<1>3. task[h].run \in Run /\ run \in [Run -> RunRow] /\ task[h] \in TaskRow
  BY <1>2 DEF WorkerInv, WorkersTyped, Tables, HandlersHaveRuns
<1>4. late \in BOOLEAN
  BY <1>1, <1>3, Zenon DEF Beating, Busy, TaskRow
<1>5. CASE Holds(h)
  <2> DEFINE row == [run[task[h].run] EXCEPT !.holder = Gone, !.late = late]
  <2>1. row \in RunRow /\ row.holder = Gone
    BY <1>3, <1>4 DEF RunRow
  <2>2. run' = [run EXCEPT ![task[h].run] = row]
    BY <1>1, <1>3, <1>5 DEF Abandoned, RunRow
  <2>3. /\ run' \in [Run -> RunRow] /\ run'[task[h].run].holder \notin Handler
        /\ \A s \in Run : s # task[h].run => run'[s] = run[s]
    BY <1>3, <2>1, <2>2
  <2> QED
    BY <1>2, <1>5, <2>3, HandlerEnds
<1>6. CASE ~Holds(h)
  <2>1. UNCHANGED run
    BY <1>1, <1>6 DEF Abandoned
  <2> QED
    BY <1>2, <1>3, <1>6, <2>1, HandlerEnds
<1> QED
  BY <1>5, <1>6

-----------------------------------------------------------------------------
(* Renewals, which give a lease all of its time again.                        *)

\* A row that gets as much time as a lease can have serves its handler as well.
LEMMA RenewedRow ==
    ASSUME WorkerInv, NEW r \in Run, run' = [run EXCEPT ![r].left = Ttl]
    PROVE  /\ run' \in [Run -> RunRow]
           /\ run'[r].left = Ttl
           /\ \A s \in Run : run'[s].holder = run[s].holder
           /\ \A s \in Run : s # r => run'[s] = run[s]
  BY Intervals DEF WorkerInv, WorkersTyped, RunRow

LEMMA RenewedTables ==
    ASSUME WorkerInv, NEW r \in Run, UNCHANGED task, run' \in [Run -> RunRow],
           \A s \in Run : run'[s].holder \in {run[s].holder},
           \A s \in Run : run'[s].left >= run[s].left
    PROVE  Tables'
<1>1. HandlersHaveRuns' /\ HoldersWork'
  BY DEF WorkerInv, Tables, HandlersHaveRuns, HoldersWork, Busy
<1>2. LeasesOutlastBeats'
  <2> SUFFICES ASSUME NEW h \in Handler, Beating(h)
               PROVE  Holds(h)' /\ run'[task[h].run].left + task[h].beat >= Ttl
    BY DEF LeasesOutlastBeats, Beating, Busy
  <2>1. /\ task[h].run \in Run /\ Holds(h)
        /\ run[task[h].run].left + task[h].beat >= Ttl
    BY DEF WorkerInv, Tables, HandlersHaveRuns, LeasesOutlastBeats, Beating
  <2>2. /\ task[h].beat \in Int /\ run[task[h].run].left \in Int
        /\ run'[task[h].run].left \in Int
    <3>1. task[h] \in TaskRow /\ run[task[h].run] \in RunRow /\ run'[task[h].run] \in RunRow
      BY <2>1 DEF WorkerInv, WorkersTyped
    <3> QED
      BY <3>1, Intervals DEF TaskRow, RunRow
  <2>3. run'[task[h].run].left >= run[task[h].run].left
    BY <2>1
  <2>4. run'[task[h].run].left + task[h].beat >= Ttl
    BY <2>1, <2>2, <2>3, Intervals
  <2> QED
    BY <2>1, <2>4 DEF Holds
<1> QED
  BY <1>1, <1>2 DEF Tables

\* What no task and no worker notices leaves the room and the joins as they are.
LEMMA OnlyRuns ==
    ASSUME WorkerInv, UNCHANGED <<task, worker>>, run' \in [Run -> RunRow], Tables'
    PROVE  WorkerInv'
  BY DEF WorkerInv, WorkersTyped, ClaimersHaveRoom, ReturnedAreIdle, Free, Unjoined

LEMMA LateRenewalStep ==
    ASSUME WorkerInv, NEW r \in Run, LateRenewal(r)
    PROVE  WorkerInv'
<1> DEFINE row == [run[r] EXCEPT !.left = IF @ > 0 THEN Ttl ELSE 0, !.late = FALSE]
<1>1. run \in [Run -> RunRow]
  BY DEF WorkerInv, WorkersTyped
<1>2. /\ row \in RunRow /\ row.holder = run[r].holder /\ row.left >= run[r].left
  <2>1. run[r] \in RunRow /\ run[r].left \in 0 .. Ttl
    BY <1>1 DEF RunRow
  <2>2. row.left = IF run[r].left > 0 THEN Ttl ELSE 0
    BY <2>1 DEF RunRow
  <2>3. row.left \in 0 .. Ttl /\ row.left >= run[r].left
    BY <2>1, <2>2, Intervals
  <2>4. row.holder = run[r].holder /\ row \in RunRow
    BY <2>1, <2>2, <2>3 DEF RunRow
  <2> QED
    BY <2>3, <2>4
<1>3. run' = [run EXCEPT ![r] = row]
  BY <1>1 DEF LateRenewal, RunRow
<1> HIDE DEF row
<1>4. /\ run' \in [Run -> RunRow]
      /\ \A s \in Run : run'[s].holder \in {run[s].holder}
  BY <1>1, <1>2, <1>3
<1>5. \A s \in Run : run'[s].left >= run[s].left
  <2>1. \A s \in Run : run[s].left \in 0 .. Ttl
    BY <1>1 DEF RunRow
  <2> QED
    BY <1>1, <1>2, <1>3, <2>1
<1> QED
  BY <1>4, <1>5, RenewedTables, OnlyRuns DEF LateRenewal

LEMMA OperateStep ==
    ASSUME WorkerInv, NEW h \in Handler, Operate(h)
    PROVE  WorkerInv'
<1>1. task[h].run \in Run /\ run \in [Run -> RunRow]
  BY DEF Operate, Beating, WorkerInv, WorkersTyped, Tables, HandlersHaveRuns
<1>2. run' = [run EXCEPT ![task[h].run].left = Ttl] /\ UNCHANGED <<task, worker>>
  BY DEF Operate
<1>3. /\ run' \in [Run -> RunRow] /\ run'[task[h].run].left = Ttl
      /\ \A s \in Run : run'[s].holder = run[s].holder
      /\ \A s \in Run : s # task[h].run => run'[s] = run[s]
  BY <1>1, <1>2, RenewedRow
<1>4. \A s \in Run : run'[s].left >= run[s].left
  <2>1. \A s \in Run : run[s].left \in 0 .. Ttl
    BY <1>1 DEF RunRow
  <2> QED
    BY <1>3, <2>1, Intervals
<1> QED
  BY <1>2, <1>3, <1>4, RenewedTables, OnlyRuns

\* A renewal that succeeds starts the interval again; one that fails stops the
\* heartbeat, and its handler is no longer trusted to hold the run.
LEMMA RenewStep ==
    ASSUME WorkerInv, NEW h \in Handler, Renew(h)
    PROVE  WorkerInv'
<1>1. Busy(h) /\ Beating(h) /\ UNCHANGED worker
  BY DEF Renew, Beating
<1>2. /\ task[h].run \in Run /\ run \in [Run -> RunRow] /\ task \in [Handler -> TaskRow]
      /\ Holds(h)
  BY <1>1 DEF WorkerInv, WorkersTyped, Tables, HandlersHaveRuns, LeasesOutlastBeats
<1>3. CASE /\ run' = [run EXCEPT ![task[h].run].left = Ttl]
           /\ task' = [task EXCEPT ![h].beat = 0]
  <2>1. /\ run' \in [Run -> RunRow] /\ run'[task[h].run].left = Ttl
        /\ \A s \in Run : run'[s].holder = run[s].holder
        /\ \A s \in Run : s # task[h].run => run'[s] = run[s]
    BY <1>2, <1>3, RenewedRow
  <2>2. /\ task' \in [Handler -> TaskRow] /\ task'[h].beat = 0
        /\ \A g \in Handler : /\ task'[g].state = task[g].state
                              /\ task'[g].run = task[g].run
                              /\ task'[g].healthy = task[g].healthy
        /\ \A g \in Handler : g # h => task'[g] = task[g]
    BY <1>2, <1>3, Intervals DEF TaskRow
  <2>3. \A g \in Handler : Busy(g)' = Busy(g) /\ Beating(g)' = Beating(g)
    BY <2>2 DEF Busy, Beating
  <2>4. HandlersHaveRuns' /\ HoldersWork'
    BY <2>1, <2>2, <2>3 DEF WorkerInv, Tables, HandlersHaveRuns, HoldersWork
  <2>5. LeasesOutlastBeats'
    <3> SUFFICES ASSUME NEW g \in Handler, Beating(g)
                 PROVE  Holds(g)' /\ run'[task'[g].run].left + task'[g].beat >= Ttl
      BY <2>3 DEF LeasesOutlastBeats
    <3>1. /\ task[g].run \in Run /\ Holds(g) /\ task'[g].run = task[g].run
          /\ run[task[g].run].left + task[g].beat >= Ttl
      BY <2>2 DEF WorkerInv, Tables, HandlersHaveRuns, LeasesOutlastBeats, Beating
    <3>2. Holds(g)'
      BY <2>1, <3>1 DEF Holds
    <3>3. CASE g = h
      BY <2>1, <2>2, <3>1, <3>2, <3>3, Intervals
    <3>4. CASE g # h
      <4>1. task[g].run # task[h].run
        BY <1>2, <3>1, <3>4 DEF Holds
      <4> QED
        BY <2>1, <2>2, <3>1, <3>2, <3>4, <4>1
    <3> QED
      BY <3>3, <3>4
  <2>6. ClaimersHaveRoom' /\ ReturnedAreIdle'
    BY <1>1, <2>2, RoomKept DEF Busy
  <2> QED
    BY <1>1, <2>1, <2>2, <2>4, <2>5, <2>6 DEF WorkerInv, WorkersTyped, Tables
<1>4. CASE task' = [task EXCEPT ![h].healthy = FALSE] /\ UNCHANGED run
  <2>1. /\ task' \in [Handler -> TaskRow]
        /\ \A g \in Handler : /\ task'[g].state = task[g].state
                              /\ task'[g].run = task[g].run
        /\ ~task'[h].healthy
        /\ \A g \in Handler : g # h => task'[g] = task[g]
    BY <1>2, <1>4 DEF TaskRow
  <2>2. HandlersHaveRuns' /\ HoldersWork'
    BY <1>4, <2>1 DEF WorkerInv, Tables, HandlersHaveRuns, HoldersWork, Busy
  <2>3. LeasesOutlastBeats'
    BY <1>4, <2>1 DEF WorkerInv, Tables, LeasesOutlastBeats, Beating, Busy, Holds
  <2>4. ClaimersHaveRoom' /\ ReturnedAreIdle'
    BY <1>1, <2>1, RoomKept DEF Busy
  <2> QED
    BY <1>1, <1>4, <2>1, <2>2, <2>3, <2>4 DEF WorkerInv, WorkersTyped, Tables
<1> QED
  BY <1>3, <1>4 DEF Renew

-----------------------------------------------------------------------------
(* Time, and the death of a process.                                          *)

\* A lease loses no more time than its heartbeat gets nearer to its next renewal.
LEMMA TickStep ==
    ASSUME WorkerInv, Tick
    PROVE  WorkerInv'
<1>1. /\ run \in [Run -> RunRow] /\ task \in [Handler -> TaskRow] /\ UNCHANGED worker
  BY DEF WorkerInv, WorkersTyped, Tick
<1>2. /\ run' \in [Run -> RunRow]
      /\ \A r \in Run : /\ run'[r].holder = run[r].holder
                        /\ run'[r].left \in Int /\ run[r].left \in Int
                        /\ run'[r].left >= run[r].left - 1
  <2>1. run' = [r \in Run |-> [run[r] EXCEPT !.left = IF @ > 0 THEN @ - 1 ELSE 0]]
    BY DEF Tick
  <2>2. SUFFICES ASSUME NEW r \in Run
                 PROVE  /\ run'[r] \in RunRow /\ run'[r].holder = run[r].holder
                        /\ run'[r].left \in Int /\ run[r].left \in Int
                        /\ run'[r].left >= run[r].left - 1
    BY <2>1
  <2> DEFINE left == IF run[r].left > 0 THEN run[r].left - 1 ELSE 0
  <2>3. run[r] \in RunRow /\ run[r].left \in 0 .. Ttl
    BY <1>1 DEF RunRow
  <2>4. left \in 0 .. Ttl /\ left >= run[r].left - 1 /\ left \in Int /\ run[r].left \in Int
    BY <2>3, Intervals
  <2>5. run'[r] = [run[r] EXCEPT !.left = left]
    BY <2>1
  <2> HIDE DEF left
  <2>6. run'[r] \in RunRow /\ run'[r].holder = run[r].holder /\ run'[r].left = left
    BY <2>3, <2>4, <2>5 DEF RunRow
  <2> QED
    BY <2>4, <2>6
<1>3. \A h \in Handler : Beating(h) => task[h].beat < Interval + Slack
  BY DEF Tick
<1>4. /\ task' \in [Handler -> TaskRow]
      /\ \A h \in Handler : /\ task'[h].state = task[h].state
                            /\ task'[h].run = task[h].run
                            /\ task'[h].healthy = task[h].healthy
                            /\ Beating(h) => /\ task'[h].beat = task[h].beat + 1
                                             /\ task[h].beat \in Int
  <2>1. task' = [h \in Handler |-> IF Beating(h) THEN [task[h] EXCEPT !.beat = @ + 1]
                                                 ELSE task[h]]
    BY DEF Tick
  <2>2. SUFFICES ASSUME NEW h \in Handler
                 PROVE  /\ task'[h] \in TaskRow
                        /\ task'[h].state = task[h].state
                        /\ task'[h].run = task[h].run
                        /\ task'[h].healthy = task[h].healthy
                        /\ Beating(h) => /\ task'[h].beat = task[h].beat + 1
                                         /\ task[h].beat \in Int
    BY <2>1
  <2>3. CASE Beating(h)
    <3>1. task[h] \in TaskRow /\ task[h].beat \in 0 .. Interval + Slack
      BY <1>1 DEF TaskRow
    <3>2. task[h].beat + 1 \in 0 .. Interval + Slack /\ task[h].beat \in Int
      BY <1>3, <2>3, <3>1, Intervals
    <3>3. task'[h] = [task[h] EXCEPT !.beat = @ + 1]
      BY <2>1, <2>3
    <3> QED
      BY <3>1, <3>2, <3>3 DEF TaskRow
  <2>4. CASE ~Beating(h)
    BY <1>1, <2>1, <2>4
  <2> QED
    BY <2>3, <2>4
<1>5. \A h \in Handler : /\ Busy(h)' = Busy(h) /\ Beating(h)' = Beating(h)
                         /\ (task'[h].state = "empty") = (task[h].state = "empty")
  BY <1>4 DEF Busy, Beating
<1>6. HandlersHaveRuns' /\ HoldersWork'
  BY <1>2, <1>4, <1>5 DEF WorkerInv, Tables, HandlersHaveRuns, HoldersWork
<1>7. LeasesOutlastBeats'
  <2> SUFFICES ASSUME NEW h \in Handler, Beating(h)
               PROVE  Holds(h)' /\ run'[task'[h].run].left + task'[h].beat >= Ttl
    BY <1>5 DEF LeasesOutlastBeats
  <2>1. /\ task[h].run \in Run /\ Holds(h) /\ task'[h].run = task[h].run
        /\ run[task[h].run].left + task[h].beat >= Ttl
    BY <1>4 DEF WorkerInv, Tables, HandlersHaveRuns, LeasesOutlastBeats, Beating
  <2>2. Holds(h)'
    BY <1>2, <2>1 DEF Holds
  <2>3. /\ run'[task[h].run].left \in Int /\ run[task[h].run].left \in Int
        /\ run'[task[h].run].left >= run[task[h].run].left - 1
    BY <1>2, <2>1
  <2>4. task'[h].beat = task[h].beat + 1 /\ task[h].beat \in Int
    BY <1>4
  <2> QED
    BY <2>1, <2>2, <2>3, <2>4, Intervals
<1>8. \A w \in Worker : Free(w)' = Free(w) /\ Unjoined(w)' = Unjoined(w)
  BY <1>5 DEF Free, Unjoined
<1> QED
  BY <1>1, <1>2, <1>4, <1>6, <1>7, <1>8 DEF WorkerInv, WorkersTyped, Tables,
     ClaimersHaveRoom, ReturnedAreIdle

\* A process that dies leaves its leases to expire.
LEMMA CrashStep ==
    ASSUME WorkerInv, NEW w \in Worker, Crash(w)
    PROVE  WorkerInv'
<1> DEFINE Held(r) == \E h \in Handler : h[1] = w /\ Busy(h) /\ run[r].holder = h
<1>1. /\ run \in [Run -> RunRow] /\ task \in [Handler -> TaskRow]
      /\ worker \in [Worker -> WorkerRow]
  BY DEF WorkerInv, WorkersTyped
<1>2. /\ run' \in [Run -> RunRow]
      /\ \A r \in Run : IF Held(r) THEN run'[r].holder = Gone ELSE run'[r] = run[r]
  <2>1. run' = [r \in Run |-> IF Held(r) THEN [run[r] EXCEPT !.holder = Gone] ELSE run[r]]
    BY DEF Crash
  <2> HIDE DEF Held
  <2> QED
    BY <1>1, <2>1 DEF RunRow
<1>3. NoTask \in TaskRow /\ NoTask.state = "empty"
  BY Intervals DEF NoTask, TaskRow
<1>4. /\ task' \in [Handler -> TaskRow]
      /\ \A h \in Handler : IF h[1] = w THEN task'[h].state = "empty" ELSE task'[h] = task[h]
  BY <1>1, <1>3 DEF Crash
<1>5. /\ worker' \in [Worker -> WorkerRow] /\ worker'[w].pc = "polling"
      /\ \A v \in Worker : v # w => worker'[v] = worker[v]
  BY <1>1 DEF Crash, FreshWorker, WorkerRow
<1>6. HandlersHaveRuns'
  BY <1>4 DEF WorkerInv, Tables, HandlersHaveRuns, Busy
<1>7. \A r \in Run, h \in Handler : /\ run'[r].holder = h => h[1] # w /\ run[r].holder = h
                                    /\ run[r].holder = h /\ h[1] # w => run'[r] = run[r]
  <2> SUFFICES ASSUME NEW r \in Run, NEW h \in Handler
               PROVE  /\ run'[r].holder = h => h[1] # w /\ run[r].holder = h
                      /\ run[r].holder = h /\ h[1] # w => run'[r] = run[r]
    OBVIOUS
  <2>1. ASSUME run'[r].holder = h PROVE h[1] # w /\ run[r].holder = h
    <3>1. ~Held(r) /\ run[r].holder = h
      BY <1>2, <2>1
    <3>2. Busy(h)
      BY <3>1 DEF WorkerInv, Tables, HoldersWork
    <3> QED
      BY <3>1, <3>2
  <2>2. ASSUME run[r].holder = h, h[1] # w PROVE run'[r] = run[r]
    BY <1>2, <2>2
  <2> QED
    BY <2>1, <2>2
<1>8. HoldersWork'
  BY <1>4, <1>7 DEF WorkerInv, Tables, HoldersWork, Busy
<1>9. LeasesOutlastBeats'
  <2> SUFFICES ASSUME NEW h \in Handler, Beating(h)'
               PROVE  Holds(h)' /\ run'[task'[h].run].left + task'[h].beat >= Ttl
    BY DEF LeasesOutlastBeats
  <2>1. h[1] # w /\ task'[h] = task[h] /\ Beating(h)
    BY <1>4 DEF Beating, Busy
  <2>2. /\ task[h].run \in Run /\ Holds(h)
        /\ run[task[h].run].left + task[h].beat >= Ttl
    BY <2>1 DEF WorkerInv, Tables, HandlersHaveRuns, LeasesOutlastBeats, Beating
  <2>3. run'[task[h].run] = run[task[h].run]
    BY <1>7, <2>1, <2>2 DEF Holds
  <2> QED
    BY <2>1, <2>2, <2>3 DEF Holds
<1>10. \A v \in Worker : v # w => Free(v)' = Free(v) /\ Unjoined(v)' = Unjoined(v)
  BY <1>4 DEF Free, Unjoined
<1> QED
  BY <1>2, <1>4, <1>5, <1>6, <1>8, <1>9, <1>10 DEF WorkerInv, WorkersTyped, Tables,
     ClaimersHaveRoom, ReturnedAreIdle

-----------------------------------------------------------------------------

LEMMA WorkersStart == WInit => WorkerInv
<1> SUFFICES ASSUME WInit PROVE WorkerInv
  OBVIOUS
<1>1. FreshRun \in RunRow /\ NoTask \in TaskRow /\ FreshWorker \in WorkerRow
  BY Intervals DEF FreshRun, RunRow, NoTask, TaskRow, FreshWorker, WorkerRow
<1>2. WorkersTyped
  BY <1>1 DEF WInit, WorkersTyped
<1>3. Tables
  BY DEF WInit, FreshRun, NoTask, Tables, HandlersHaveRuns, LeasesOutlastBeats,
         HoldersWork, Beating, Busy
<1>4. ClaimersHaveRoom /\ ReturnedAreIdle
  BY DEF WInit, FreshWorker, ClaimersHaveRoom, ReturnedAreIdle
<1> QED
  BY <1>2, <1>3, <1>4 DEF WorkerInv

LEMMA WorkersStep == WorkerInv /\ [WNext]_wvars => WorkerInv'
<1> SUFFICES ASSUME WorkerInv, [WNext]_wvars PROVE WorkerInv'
  OBVIOUS
<1>1. ASSUME NEW w \in Worker, Poll(w) PROVE WorkerInv'
  BY <1>1, PollStep
<1>2. ASSUME NEW w \in Worker, Claim(w) PROVE WorkerInv'
  BY <1>2, ClaimStep
<1>3. ASSUME NEW w \in Worker, NothingToClaim(w) PROVE WorkerInv'
  BY <1>3, NothingToClaimStep
<1>4. ASSUME NEW w \in Worker, ClaimFails(w) PROVE WorkerInv'
  BY <1>4, ClaimFailsStep
<1>5. ASSUME NEW w \in Worker, Join(w) PROVE WorkerInv'
  BY <1>5, JoinStep
<1>6. ASSUME NEW w \in Worker, Shutdown(w) PROVE WorkerInv'
  BY <1>6, ShutdownStep
<1>7. ASSUME NEW w \in Worker, Break(w) PROVE WorkerInv'
  BY <1>7, BreakStep
<1>8. ASSUME NEW w \in Worker, Return(w) PROVE WorkerInv'
  BY <1>8, ReturnStep
<1>9. ASSUME NEW w \in Worker, Crash(w) PROVE WorkerInv'
  BY <1>9, CrashStep
<1>10. ASSUME NEW h \in Handler, HandlerReturns(h) PROVE WorkerInv'
  BY <1>10, HandlerCompletesStep, HandlerClosesStep DEF HandlerReturns
<1>11. ASSUME NEW h \in Handler, HandlerFails(h) PROVE WorkerInv'
  BY <1>11, HandlerFailsStep
<1>12. ASSUME NEW h \in Handler, CompletionFails(h) PROVE WorkerInv'
  BY <1>12, CompletionFailsStep
<1>13. ASSUME NEW h \in Handler, Renew(h) PROVE WorkerInv'
  BY <1>13, RenewStep
<1>14. ASSUME NEW h \in Handler, Operate(h) PROVE WorkerInv'
  BY <1>14, OperateStep
<1>15. ASSUME NEW r \in Run, LateRenewal(r) PROVE WorkerInv'
  BY <1>15, LateRenewalStep
<1>16. CASE Tick
  BY <1>16, TickStep
<1>17. CASE UNCHANGED wvars
  BY <1>17 DEF wvars, WorkerInv, WorkersTyped, Tables, HandlersHaveRuns,
     LeasesOutlastBeats, HoldersWork, ClaimersHaveRoom, ReturnedAreIdle, Beating, Busy,
     Holds, Free, Unjoined
<1> QED
  BY <1>1, <1>2, <1>3, <1>4, <1>5, <1>6, <1>7, <1>8, <1>9, <1>10, <1>11, <1>12, <1>13,
     <1>14, <1>15, <1>16, <1>17 DEF WNext

\* worker.rs, agent.rs LeaseHeartbeat: the invariant of the workers.  The time a lease
\* has left and the time since its last renewal together are never less than
\* the TTL, as long as the heartbeat is healthy.
THEOREM WorkersInvariant == WSpec => []WorkerInv
<1> QED
  BY WorkersStart, WorkersStep, PTL DEF WSpec

\* README "Active leases ... are never dispatched": a handler whose heartbeat
\* has not failed holds an unexpired lease of its run, with any number of
\* workers and handlers and any slack that leaves a renewal in time.
THEOREM HandlersHold == WSpec => []HandlersHoldTheirRuns
<1>1. WorkerInv => HandlersHoldTheirRuns
  <2> SUFFICES ASSUME WorkerInv, NEW h \in Handler, Beating(h)
               PROVE  Holds(h) /\ run[task[h].run].left > 0
    BY DEF HandlersHoldTheirRuns
  <2>1. /\ task[h].run \in Run /\ Holds(h)
        /\ run[task[h].run].left + task[h].beat >= Ttl
    BY DEF WorkerInv, Tables, HandlersHaveRuns, LeasesOutlastBeats, Beating
  <2>2. task[h].beat \in 0 .. Interval + Slack /\ run[task[h].run].left \in 0 .. Ttl
    BY <2>1 DEF WorkerInv, WorkersTyped, TaskRow, RunRow
  <2> QED
    BY <2>1, <2>2, Intervals
<1> QED
  BY <1>1, WorkersInvariant, PTL

\* worker.rs:35 "waits for active handlers": when run() has returned, no run is
\* held by one of its handlers, whichever of its loop's exits it took.
THEOREM NothingLeftBehind == WSpec => []NoneLeftBehind
<1>1. WorkerInv => NoneLeftBehind
  <2> SUFFICES ASSUME WorkerInv, NEW r \in Run, NEW h \in Handler, run[r].holder = h,
                      worker[h[1]].pc = "returned"
               PROVE  FALSE
    BY DEF NoneLeftBehind
  <2>1. Busy(h) /\ h[1] \in Worker
    BY Handlers DEF WorkerInv, Tables, HoldersWork
  <2>2. Unjoined(h[1]) = {}
    BY <2>1 DEF WorkerInv, ReturnedAreIdle
  <2> QED
    BY <2>1, <2>2 DEF Unjoined, Busy
<1> QED
  BY <1>1, WorkersInvariant, PTL
=============================================================================

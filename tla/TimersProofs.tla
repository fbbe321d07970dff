---------------------------- MODULE TimersProofs ----------------------------
(* Theorems about Timers, for every unit, delay, setting of the wall clock    *)
(* and number of sleepers and timers.                                         *)
EXTENDS Timers, TLAPS

USE DelayAssumption, JumpAssumption, NoWakeAssumption

TimerRow == [wake : Int \cup {NoWake}, completed : Int \cup {NoWake}, asked : Nat, delay : Nat]

AnyName == Name \cup {""}

CallRow == [pc : {"idle", "scheduling", "scheduled", "waiting", "completing"},
            name : AnyName, delay : Nat, asked : Nat, wake : Int, due : Int,
            setback : BOOLEAN]

TimersTyped == /\ timer \in [Name -> TimerRow] /\ call \in [Sleeper -> CallRow]
               /\ passed \in Nat /\ offset \in Int
               /\ steady \in BOOLEAN /\ (steady => offset = 0)

\* A wake time that is enough for the delay that was asked for, to the
\* millisecond.
Enough(wake, asked, delay) == wake * UnitMs > asked + delay - UnitMs

\* What a row of the table owes the call that wrote it.
RowOK(n) ==
    /\ timer[n].completed # NoWake => timer[n].wake # NoWake
    /\ steady /\ timer[n].wake # NoWake =>
           Enough(timer[n].wake, timer[n].asked, timer[n].delay)
    /\ steady /\ timer[n].completed # NoWake =>
           timer[n].completed > timer[n].asked + timer[n].delay - UnitMs

\* What a call knows at each of its stages.
CallOK(s) ==
    LET c == call[s]
    IN  /\ c.pc # "idle" => c.name \in Name
        /\ c.pc \in {"scheduled", "waiting", "completing"} => c.wake = timer[c.name].wake
        /\ steady => ~c.setback
        /\ steady /\ c.pc = "scheduling" => Enough(c.wake, c.asked, c.delay)
        /\ steady /\ c.pc = "waiting" => c.due <= passed \/ c.due < (c.wake + 1) * UnitMs
        /\ c.pc = "waiting" /\ ~c.setback => c.due + offset >= c.wake * UnitMs
        /\ c.pc = "completing" /\ ~c.setback => Wall >= c.wake * UnitMs

TimerInv == /\ TimersTyped
            /\ \A n \in Name : RowOK(n)
            /\ \A s \in Sleeper : CallOK(s)

LEMMA Names == "" \in AnyName /\ Name \subseteq AnyName
  BY Zenon DEF AnyName

-----------------------------------------------------------------------------
(* Whole milliseconds.                                                        *)

LEMMA WholeUnits ==
    ASSUME NEW a \in Int
    PROVE  /\ a \div UnitMs \in Int
           /\ (a \div UnitMs) * UnitMs \in Int
           /\ (a \div UnitMs) * UnitMs <= a
           /\ a < (a \div UnitMs) * UnitMs + UnitMs
  OBVIOUS

LEMMA RoundedUp ==
    ASSUME NEW d \in Nat
    PROVE  /\ DurationToMillis(d) \in Int
           /\ DurationToMillis(d) * UnitMs \in Int
           /\ DurationToMillis(d) * UnitMs >= d
<1>1. /\ d \div UnitMs \in Int /\ (d \div UnitMs) * UnitMs \in Int
      /\ d < (d \div UnitMs) * UnitMs + UnitMs
  BY WholeUnits
<1>2. CASE d % UnitMs = 0
  <2>1. d = (d \div UnitMs) * UnitMs
    BY <1>2
  <2> QED
    BY <1>1, <1>2, <2>1 DEF DurationToMillis
<1>3. CASE d % UnitMs # 0
  <2>1. DurationToMillis(d) = d \div UnitMs + 1
    BY <1>3 DEF DurationToMillis
  <2>2. (d \div UnitMs + 1) * UnitMs = (d \div UnitMs) * UnitMs + UnitMs
    BY <1>1
  <2> QED
    BY <1>1, <2>1, <2>2
<1> QED
  BY <1>2, <1>3

LEMMA Sums ==
    ASSUME NEW a \in Int, NEW b \in Int
    PROVE  /\ (a + b) * UnitMs = a * UnitMs + b * UnitMs
           /\ (a - b) * UnitMs = a * UnitMs - b * UnitMs
           /\ a * UnitMs \in Int
           /\ a <= b => a * UnitMs <= b * UnitMs
  OBVIOUS

-----------------------------------------------------------------------------
(* What a step leaves alone stays as it was.                                  *)

\* A row that has a wake time keeps it.
WakesKept == \A n \in Name : timer[n].wake # NoWake => timer'[n].wake = timer[n].wake

\* A call that is left alone, on a wall clock that is not set.
LEMMA OtherCalls ==
    ASSUME TimerInv, WakesKept, NEW s \in Sleeper, call'[s] = call[s],
           steady' => steady, UNCHANGED offset, passed' \in Nat, passed <= passed'
    PROVE  CallOK(s)'
<1>1. PICK c : c = call[s]
  OBVIOUS
<1>2. /\ c.wake \in Int /\ c.due \in Int
      /\ passed \in Int /\ passed' \in Int /\ offset \in Int
  <2>1. c \in CallRow /\ passed \in Nat /\ offset \in Int
    BY <1>1 DEF TimerInv, TimersTyped
  <2> QED
    BY <2>1 DEF CallRow
<1>3. c.wake * UnitMs \in Int /\ (c.wake + 1) * UnitMs \in Int
  BY <1>2, Sums
<1>4. CallOK(s)
  BY DEF TimerInv
<1>5. c.pc \in {"scheduled", "waiting", "completing"} => c.wake = timer'[c.name].wake
  BY <1>1, <1>2, <1>4 DEF CallOK, WakesKept
<1>6. steady' /\ c.pc = "waiting" => c.due <= passed' \/ c.due < (c.wake + 1) * UnitMs
  <2>1. steady' /\ c.pc = "waiting" => c.due <= passed \/ c.due < (c.wake + 1) * UnitMs
    BY <1>1, <1>4 DEF CallOK
  <2> QED
    BY <1>2, <2>1
<1>7. c.pc = "waiting" /\ ~c.setback => c.due + offset >= c.wake * UnitMs
  BY <1>1, <1>4 DEF CallOK
<1>8. c.pc = "completing" /\ ~c.setback => passed' + offset >= c.wake * UnitMs
  <2>1. c.pc = "completing" /\ ~c.setback => passed + offset >= c.wake * UnitMs
    BY <1>1, <1>4 DEF CallOK, Wall
  <2> QED
    BY <1>2, <1>3, <2>1
<1>9. /\ c.pc # "idle" => c.name \in Name
      /\ steady' => ~c.setback
      /\ steady' /\ c.pc = "scheduling" => Enough(c.wake, c.asked, c.delay)
  BY <1>1, <1>4 DEF CallOK
<1> QED
  BY <1>1, <1>5, <1>6, <1>7, <1>8, <1>9 DEF CallOK, Wall, Enough

LEMMA OtherRows ==
    ASSUME TimerInv, NEW n \in Name, timer'[n] = timer[n], steady' => steady
    PROVE  RowOK(n)'
  BY DEF TimerInv, RowOK, Enough

LEMMA NoCallTyped == NoCall \in CallRow
<1>1. \A none \in AnyName :
          [pc |-> "idle", name |-> none, delay |-> 0, asked |-> 0, wake |-> 0,
           due |-> 0, setback |-> FALSE] \in CallRow
  BY DEF CallRow
<1> QED
  BY <1>1, Names, Zenon DEF NoCall

LEMMA IdleCall ==
    ASSUME NEW s \in Sleeper, call'[s] = NoCall
    PROVE  NoCall \in CallRow /\ CallOK(s)'
<1>1. NoCall.pc = "idle"
  BY DEF NoCall
<1>2. ~NoCall.setback
  BY DEF NoCall
<1> QED
  BY <1>1, <1>2, NoCallTyped DEF CallOK

\* A step that moves one call, and leaves the table and the clocks alone.
LEMMA OneCallMoves ==
    ASSUME TimerInv, NEW s \in Sleeper, NEW c \in CallRow, call' = [call EXCEPT ![s] = c],
           UNCHANGED <<timer, passed, offset, steady>>, CallOK(s)'
    PROVE  TimerInv'
<1>1. call \in [Sleeper -> CallRow] /\ \A r \in Sleeper \ {s} : call'[r] = call[r]
  BY DEF TimerInv, TimersTyped
<1>2. TimersTyped'
  BY <1>1 DEF TimerInv, TimersTyped
<1>3. WakesKept /\ (steady' => steady) /\ passed' \in Nat /\ passed <= passed'
  BY DEF WakesKept, TimerInv, TimersTyped
<1>4. \A r \in Sleeper \ {s} : CallOK(r)'
  BY <1>1, <1>3, OtherCalls
<1>5. \A n \in Name : RowOK(n)'
  BY <1>3, OtherRows
<1> QED
  BY <1>2, <1>4, <1>5 DEF TimerInv

-----------------------------------------------------------------------------
(* One lemma per action.                                                      *)

LEMMA SleepKeeps ==
    ASSUME TimerInv, NEW s \in Sleeper, NEW n \in Name, NEW d \in Delay, Sleep(s, n, d)
    PROVE  TimerInv'
<1>1. PICK wake : wake = NowMs + DurationToMillis(d)
  OBVIOUS
<1>2. PICK c : c = [NoCall EXCEPT !.pc = "scheduling", !.name = n, !.delay = d,
                                  !.asked = passed, !.wake = wake]
  OBVIOUS
<1>3. call' = [call EXCEPT ![s] = c] /\ UNCHANGED <<timer, passed, offset, steady>>
  BY <1>1, <1>2 DEF Sleep
<1>4. /\ call \in [Sleeper -> CallRow] /\ d \in Nat /\ passed \in Nat /\ offset \in Int
      /\ Wall \in Int /\ (steady => Wall = passed)
  BY DEF TimerInv, TimersTyped, Wall
<1>5. /\ NowMs \in Int /\ NowMs * UnitMs \in Int /\ Wall < NowMs * UnitMs + UnitMs
  BY <1>4, WholeUnits DEF NowMs
<1>6. /\ DurationToMillis(d) \in Int /\ DurationToMillis(d) * UnitMs \in Int
      /\ DurationToMillis(d) * UnitMs >= d
  BY <1>4, RoundedUp
<1>7. wake \in Int /\ wake * UnitMs = NowMs * UnitMs + DurationToMillis(d) * UnitMs
  BY <1>1, <1>5, <1>6, Sums
<1>8. steady => Enough(wake, passed, d)
  BY <1>4, <1>5, <1>6, <1>7 DEF Enough
<1>9. /\ c \in CallRow /\ c.pc = "scheduling" /\ c.name = n /\ c.wake = wake
      /\ c.asked = passed /\ c.delay = d /\ ~c.setback
  <2>1. /\ c.pc = "scheduling" /\ c.name = n /\ c.wake = wake
        /\ c.asked = passed /\ c.delay = d
    BY <1>2 DEF NoCall
  <2>2. ~c.setback
    BY <1>2 DEF NoCall
  <2>3. c \in CallRow
    <3>1. c = [pc |-> "scheduling", name |-> n, delay |-> d, asked |-> passed,
               wake |-> wake, due |-> 0, setback |-> FALSE]
      BY <1>2, Zenon DEF NoCall
    <3>2. n \in AnyName
      BY Names
    <3> QED
      BY <1>4, <1>7, <3>1, <3>2 DEF CallRow
  <2> QED
    BY <2>1, <2>2, <2>3
<1>10. call'[s] = c
  BY <1>3, <1>4
<1>11. CallOK(s)'
  BY <1>3, <1>8, <1>9, <1>10 DEF CallOK, Enough
<1> QED
  BY <1>3, <1>9, <1>11, OneCallMoves

LEMMA WaitKeeps == ASSUME TimerInv, NEW s \in Sleeper, Wait(s) PROVE TimerInv'
<1>1. PICK c, left, due : /\ c = call[s] /\ left = Remaining(s)
                          /\ due = passed + (IF left > 0 THEN left * UnitMs ELSE 0)
  OBVIOUS
<1>2. PICK d : d = [c EXCEPT !.pc = "waiting", !.due = due]
  OBVIOUS
<1>3. /\ c \in CallRow /\ c.pc = "scheduled" /\ c.wake \in Int
      /\ passed \in Nat /\ offset \in Int /\ Wall \in Int /\ Wall = passed + offset
      /\ (steady => offset = 0) /\ CallOK(s)
  <2>1. /\ c \in CallRow /\ c.pc = "scheduled" /\ passed \in Nat /\ offset \in Int
        /\ (steady => offset = 0) /\ CallOK(s)
    BY <1>1 DEF TimerInv, TimersTyped, Wait
  <2> QED
    BY <2>1 DEF CallRow, Wall
<1>4. /\ NowMs \in Int /\ NowMs * UnitMs \in Int
      /\ NowMs * UnitMs <= Wall /\ Wall < NowMs * UnitMs + UnitMs
  BY <1>3, WholeUnits DEF NowMs
<1>5. left \in Int /\ left * UnitMs = c.wake * UnitMs - NowMs * UnitMs
  BY <1>1, <1>3, <1>4, Sums DEF Remaining
<1>6. /\ c.wake * UnitMs \in Int /\ left * UnitMs \in Int
      /\ (c.wake + 1) * UnitMs = c.wake * UnitMs + UnitMs
      /\ (left <= 0 => left * UnitMs <= 0)
  BY <1>3, <1>5, Sums
<1>7. due \in Int /\ due + offset >= c.wake * UnitMs
  BY <1>1, <1>3, <1>4, <1>5, <1>6
<1>8. steady => due <= passed \/ due < (c.wake + 1) * UnitMs
  BY <1>1, <1>3, <1>4, <1>5, <1>6
<1>9. /\ d \in CallRow /\ d.pc = "waiting" /\ d.due = due /\ d.name = c.name
      /\ d.wake = c.wake /\ d.setback = c.setback
  BY <1>2, <1>3, <1>7 DEF CallRow
<1>10. call' = [call EXCEPT ![s] = d] /\ UNCHANGED <<timer, passed, offset, steady>>
  BY <1>1, <1>2 DEF Wait, TimerInv, TimersTyped
<1>11. call'[s] = d
  BY <1>10 DEF TimerInv, TimersTyped
<1>12. CallOK(s)'
  BY <1>1, <1>3, <1>7, <1>8, <1>9, <1>10, <1>11 DEF CallOK
<1> QED
  BY <1>9, <1>10, <1>12, OneCallMoves

LEMMA WakeKeeps == ASSUME TimerInv, NEW s \in Sleeper, Wake(s) PROVE TimerInv'
<1>1. PICK c, d : c = call[s] /\ d = [c EXCEPT !.pc = "completing"]
  OBVIOUS
<1>2. /\ c \in CallRow /\ c.pc = "waiting" /\ c.due <= passed /\ c.due \in Int /\ c.wake \in Int
      /\ passed \in Nat /\ offset \in Int /\ CallOK(s)
  BY <1>1 DEF TimerInv, TimersTyped, CallRow, Wake
<1>3. /\ d \in CallRow /\ d.pc = "completing" /\ d.name = c.name
      /\ d.wake = c.wake /\ d.setback = c.setback
  BY <1>1, <1>2 DEF CallRow
<1>4. ~c.setback => passed + offset >= c.wake * UnitMs
  <2>1. c.wake * UnitMs \in Int
    BY <1>2, Sums
  <2>2. ~c.setback => c.due + offset >= c.wake * UnitMs
    BY <1>1, <1>2 DEF CallOK
  <2> QED
    BY <1>2, <2>1, <2>2
<1>5. call' = [call EXCEPT ![s] = d] /\ UNCHANGED <<timer, passed, offset, steady>>
  BY <1>1 DEF Wake, TimerInv, TimersTyped
<1>6. call'[s] = d
  BY <1>5 DEF TimerInv, TimersTyped
<1>7. CallOK(s)'
  BY <1>1, <1>2, <1>3, <1>4, <1>5, <1>6 DEF CallOK, Wall
<1> QED
  BY <1>3, <1>5, <1>7, OneCallMoves

LEMMA InterruptedKeeps == ASSUME TimerInv, NEW s \in Sleeper, Interrupted(s) PROVE TimerInv'
<1>1. call' = [call EXCEPT ![s] = NoCall] /\ UNCHANGED <<timer, passed, offset, steady>>
  BY DEF Interrupted
<1>2. call'[s] = NoCall
  BY <1>1 DEF TimerInv, TimersTyped
<1> QED
  BY <1>1, <1>2, IdleCall, OneCallMoves

\* A step that writes one row and moves the call that writes it.
LEMMA OneRowWritten ==
    ASSUME TimerInv, NEW s \in Sleeper, NEW c \in CallRow, call' = [call EXCEPT ![s] = c],
           NEW n \in Name, NEW row \in TimerRow, timer' = [timer EXCEPT ![n] = row],
           timer[n].wake # NoWake => row.wake = timer[n].wake,
           UNCHANGED <<passed, offset, steady>>, CallOK(s)', RowOK(n)'
    PROVE  TimerInv'
<1>1. /\ call \in [Sleeper -> CallRow] /\ \A r \in Sleeper \ {s} : call'[r] = call[r]
      /\ timer \in [Name -> TimerRow] /\ \A m \in Name \ {n} : timer'[m] = timer[m]
      /\ timer'[n] = row
  BY DEF TimerInv, TimersTyped
<1>2. TimersTyped'
  BY <1>1 DEF TimerInv, TimersTyped
<1>3. WakesKept /\ (steady' => steady) /\ passed' \in Nat /\ passed <= passed'
  BY <1>1 DEF WakesKept, TimerInv, TimersTyped
<1>4. \A r \in Sleeper \ {s} : CallOK(r)'
  BY <1>1, <1>3, OtherCalls
<1>5. \A m \in Name \ {n} : RowOK(m)'
  BY <1>1, <1>3, OtherRows
<1> QED
  BY <1>2, <1>4, <1>5 DEF TimerInv

LEMMA ScheduleKeeps == ASSUME TimerInv, NEW s \in Sleeper, ScheduleTimer(s) PROVE TimerInv'
<1>1. PICK c, n, row : c = call[s] /\ n = c.name /\ row = timer[n]
  OBVIOUS
<1>2. /\ c \in CallRow /\ c.pc = "scheduling" /\ CallOK(s) /\ n \in Name /\ row \in TimerRow
      /\ UNCHANGED <<passed, offset, steady>>
  BY <1>1 DEF TimerInv, TimersTyped, ScheduleTimer, CallOK
<1>3. c.wake \in Int /\ c.asked \in Nat /\ c.delay \in Nat
  BY <1>2 DEF CallRow
<1>4. CASE row.wake # NoWake
  <2>1. PICK d : d = [c EXCEPT !.pc = "scheduled", !.wake = row.wake]
    OBVIOUS
  <2>2. row.wake \in Int
    BY <1>2, <1>4 DEF TimerRow
  <2>3. /\ d \in CallRow /\ d.pc = "scheduled" /\ d.name = n /\ d.wake = row.wake
        /\ d.setback = c.setback
    BY <1>1, <1>2, <2>1, <2>2 DEF CallRow
  <2>4. call' = [call EXCEPT ![s] = d] /\ UNCHANGED timer
    BY <1>1, <1>4, <2>1 DEF ScheduleTimer, TimerInv, TimersTyped
  <2>5. call'[s] = d
    BY <2>4 DEF TimerInv, TimersTyped
  <2>6. CallOK(s)'
    BY <1>1, <1>2, <2>3, <2>4, <2>5 DEF CallOK
  <2> QED
    BY <1>2, <2>3, <2>4, <2>6, OneCallMoves
<1>5. CASE row.wake = NoWake
  <2>1. PICK d, new : /\ d = [c EXCEPT !.pc = "scheduled"]
                      /\ new = [NoRow EXCEPT !.wake = c.wake, !.asked = c.asked,
                                             !.delay = c.delay]
    OBVIOUS
  <2>2. /\ d \in CallRow /\ d.pc = "scheduled" /\ d.name = n /\ d.wake = c.wake
        /\ d.setback = c.setback
    BY <1>1, <1>2, <2>1 DEF CallRow
  <2>3. new = [wake |-> c.wake, completed |-> NoWake, asked |-> c.asked, delay |-> c.delay]
    BY <2>1 DEF NoRow
  <2>4. new \in TimerRow
    BY <1>3, <2>3 DEF TimerRow
  <2>5. timer' = [timer EXCEPT ![n] = new]
    BY <1>1, <1>5, <2>1 DEF ScheduleTimer
  <2>6. call' = [call EXCEPT ![s] = d]
    BY <1>1, <1>2, <1>5, <2>1 DEF ScheduleTimer, TimerInv, TimersTyped, CallRow
  <2>7. call'[s] = d /\ timer'[n] = new
    BY <1>2, <2>5, <2>6 DEF TimerInv, TimersTyped
  <2>8. CallOK(s)'
    BY <1>1, <1>2, <2>2, <2>3, <2>7 DEF CallOK
  <2>9. steady' => Enough(c.wake, c.asked, c.delay)
    BY <1>1, <1>2 DEF CallOK
  <2>10. RowOK(n)'
    BY <1>3, <2>3, <2>7, <2>9 DEF RowOK, Enough
  <2>11. timer[n].wake # NoWake => new.wake = timer[n].wake
    BY <1>1, <1>5
  <2> QED
    BY <1>2, <2>2, <2>4, <2>5, <2>6, <2>8, <2>10, <2>11, OneRowWritten
<1> QED
  BY <1>4, <1>5

LEMMA CompleteKeeps == ASSUME TimerInv, NEW s \in Sleeper, CompleteTimer(s) PROVE TimerInv'
<1>1. PICK c, n, row : c = call[s] /\ n = c.name /\ row = timer[n]
  OBVIOUS
<1>2. /\ c \in CallRow /\ c.pc = "completing" /\ CallOK(s) /\ n \in Name /\ row \in TimerRow
      /\ RowOK(n) /\ passed \in Nat /\ offset \in Int /\ UNCHANGED <<passed, offset, steady>>
  BY <1>1 DEF TimerInv, TimersTyped, CompleteTimer, CallOK
<1>3. c.wake \in Int /\ row.asked \in Nat /\ row.delay \in Nat /\ row.wake = c.wake
  <2>1. c.wake \in Int
    BY <1>2 DEF CallRow
  <2>2. row.asked \in Nat /\ row.delay \in Nat
    BY <1>2 DEF TimerRow
  <2>3. row.wake = c.wake
    BY <1>1, <1>2 DEF CallOK
  <2> QED
    BY <2>1, <2>2, <2>3
<1>4. PICK at : at = CompletedAt(n)
  OBVIOUS
<1>5. Wall \in Int /\ at \in Int /\ at = IF row.completed = NoWake THEN Wall ELSE row.completed
  <2>1. Wall \in Int
    BY <1>2 DEF Wall
  <2> QED
    BY <1>1, <1>2, <1>4, <2>1 DEF CompletedAt, TimerRow
<1>6. PICK new : new = [row EXCEPT !.completed = at]
  OBVIOUS
<1>7. /\ new \in TimerRow /\ new.wake = row.wake /\ new.asked = row.asked
      /\ new.delay = row.delay /\ new.completed = at
  BY <1>2, <1>5, <1>6 DEF TimerRow
<1>8. timer' = [timer EXCEPT ![n] = new] /\ call' = [call EXCEPT ![s] = NoCall]
  BY <1>1, <1>4, <1>6 DEF CompleteTimer, TimerInv, TimersTyped
<1>9. timer'[n] = new /\ call'[s] = NoCall
  BY <1>2, <1>8 DEF TimerInv, TimersTyped
<1>10. steady => at > row.asked + row.delay - UnitMs
  <2>1. CASE row.completed = NoWake
    <3>1. steady => Enough(row.wake, row.asked, row.delay) /\ ~c.setback
      BY <1>1, <1>2, <1>3 DEF RowOK, CallOK
    <3>2. ~c.setback => Wall >= c.wake * UnitMs
      BY <1>1, <1>2 DEF CallOK
    <3>3. c.wake * UnitMs \in Int
      BY <1>3, Sums
    <3> QED
      BY <1>3, <1>5, <2>1, <3>1, <3>2, <3>3 DEF Enough
  <2>2. CASE row.completed # NoWake
    BY <1>1, <1>2, <1>5, <2>2 DEF RowOK
  <2> QED
    BY <2>1, <2>2
<1>11. RowOK(n)'
  <2>1. row.wake # NoWake
    BY <1>3
  <2>2. steady => Enough(row.wake, row.asked, row.delay)
    BY <1>1, <1>2, <2>1 DEF RowOK
  <2> QED
    BY <1>2, <1>7, <1>9, <1>10, <2>1, <2>2 DEF RowOK, Enough
<1>12. NoCall \in CallRow /\ CallOK(s)'
  BY <1>9, IdleCall
<1> QED
  BY <1>1, <1>2, <1>7, <1>8, <1>11, <1>12, OneRowWritten

LEMMA SetClockKeeps == ASSUME TimerInv, NEW jump \in Jump, SetClock(jump) PROVE TimerInv'
<1>1. /\ steady' = FALSE /\ offset' = offset + jump /\ UNCHANGED <<timer, passed>>
      /\ offset \in Int /\ jump \in Int /\ passed \in Nat
  BY DEF SetClock, TimerInv, TimersTyped
<1>2. ASSUME NEW s \in Sleeper PROVE call'[s] \in CallRow /\ CallOK(s)'
  <2>1. PICK c, d : c = call[s] /\ d = call'[s]
    OBVIOUS
  <2>2. c \in CallRow /\ CallOK(s)
    BY <2>1 DEF TimerInv, TimersTyped
  <2>3. PICK b \in BOOLEAN :
            b = (c.setback \/ (jump < 0 /\ c.pc \in {"waiting", "completing"}))
    OBVIOUS
  <2>4. d = [c EXCEPT !.setback = b]
    BY <2>1, <2>3 DEF SetClock
  <2>5. /\ d \in CallRow /\ d.pc = c.pc /\ d.name = c.name /\ d.wake = c.wake /\ d.due = c.due
        /\ d.setback = b
    BY <2>2, <2>4 DEF CallRow
  <2>6. c.wake \in Int /\ c.due \in Int /\ c.wake * UnitMs \in Int
    <3>1. c.wake \in Int /\ c.due \in Int
      BY <2>2 DEF CallRow
    <3> QED
      BY <3>1, Sums
  <2>7. ~b /\ c.pc \in {"waiting", "completing"} => ~c.setback /\ jump >= 0
    <3>1. ~b /\ c.pc \in {"waiting", "completing"} => ~c.setback /\ ~(jump < 0)
      BY <2>3, Zenon
    <3> QED
      BY <1>1, <3>1
  <2>8. c.pc = "waiting" /\ ~b => c.due + offset' >= c.wake * UnitMs
    <3>1. c.pc = "waiting" /\ ~c.setback => c.due + offset >= c.wake * UnitMs
      BY <2>1, <2>2 DEF CallOK
    <3> QED
      BY <1>1, <2>6, <2>7, <3>1
  <2>9. c.pc = "completing" /\ ~b => passed' + offset' >= c.wake * UnitMs
    <3>1. c.pc = "completing" /\ ~c.setback => passed + offset >= c.wake * UnitMs
      BY <2>1, <2>2 DEF CallOK, Wall
    <3> QED
      BY <1>1, <2>6, <2>7, <3>1
  <2>10. /\ c.pc # "idle" => c.name \in Name
         /\ c.pc \in {"scheduled", "waiting", "completing"} => c.wake = timer'[c.name].wake
    BY <1>1, <2>1, <2>2 DEF CallOK
  <2> QED
    BY <1>1, <2>1, <2>5, <2>8, <2>9, <2>10 DEF CallOK, Wall
<1>3. TimersTyped'
  <2>1. call' \in [Sleeper -> CallRow]
    BY <1>2 DEF SetClock
  <2>2. offset' \in Int
    BY <1>1
  <2>3. steady' \in BOOLEAN /\ ~steady'
    BY <1>1, Zenon
  <2> QED
    BY <1>1, <2>1, <2>2, <2>3 DEF TimerInv, TimersTyped
<1>4. \A n \in Name : RowOK(n)'
  BY <1>1, OtherRows
<1> QED
  BY <1>2, <1>3, <1>4 DEF TimerInv

LEMMA TimersInit == TInit => TimerInv
<1> SUFFICES ASSUME TInit PROVE TimerInv
  OBVIOUS
<1>1. NoCall \in CallRow /\ \A s \in Sleeper : CallOK(s)
  <2>1. NoCall.pc = "idle" /\ ~NoCall.setback
    BY DEF NoCall
  <2>2. \A s \in Sleeper : call[s] = NoCall
    BY DEF TInit
  <2> QED
    BY <2>1, <2>2, NoCallTyped DEF CallOK
<1>2. NoRow \in TimerRow /\ \A n \in Name : RowOK(n)
  BY DEF TInit, NoRow, TimerRow, RowOK
<1> QED
  BY <1>1, <1>2 DEF TInit, TimerInv, TimersTyped

LEMMA TimersStep == TimerInv /\ [TNext]_tvars => TimerInv'
<1> SUFFICES ASSUME TimerInv, [TNext]_tvars PROVE TimerInv'
  OBVIOUS
<1>1. ASSUME NEW s \in Sleeper,
             \/ \E n \in Name, d \in Delay : Sleep(s, n, d)
             \/ ScheduleTimer(s) \/ Wait(s) \/ Wake(s) \/ CompleteTimer(s)
             \/ Interrupted(s)
      PROVE  TimerInv'
  BY <1>1, SleepKeeps, ScheduleKeeps, WaitKeeps, WakeKeeps, CompleteKeeps, InterruptedKeeps
<1>2. ASSUME UNCHANGED <<timer, call, offset, steady>>, passed' \in Nat, passed <= passed'
      PROVE  TimerInv'
  <2>1. TimersTyped' /\ WakesKept /\ (steady' => steady)
    BY <1>2 DEF TimerInv, TimersTyped, WakesKept
  <2>2. \A s \in Sleeper : CallOK(s)'
    BY <1>2, <2>1, OtherCalls
  <2>3. \A n \in Name : RowOK(n)'
    BY <1>2, <2>1, OtherRows
  <2> QED
    BY <2>1, <2>2, <2>3 DEF TimerInv
<1>3. CASE TimePasses
  BY <1>2, <1>3 DEF TimePasses, TimerInv, TimersTyped
<1>4. CASE UNCHANGED tvars
  BY <1>2, <1>4 DEF tvars, TimerInv, TimersTyped
<1> QED
  BY <1>1, <1>3, <1>4, SetClockKeeps DEF TNext

\* Every reachable state satisfies the inductive invariant.
THEOREM TimersInvariant == TSpec => []TimerInv
  BY TimersInit, TimersStep, PTL DEF TSpec

\* sleep() is not over before the wall clock shows the persisted wake time,
\* unless the clock was set back, and by a steady clock it is not due a
\* millisecond later.
THEOREM SleepersWakeWhenDue == TSpec => []WakesWhenDue
<1>1. ASSUME TimerInv, NEW s \in Sleeper, call[s].pc = "completing", ~call[s].setback
      PROVE  timer[call[s].name].wake # NoWake /\ Wall >= timer[call[s].name].wake * UnitMs
  <2>1. call[s].wake \in Int
    BY <1>1 DEF TimerInv, TimersTyped, CallRow
  <2> QED
    BY <1>1, <2>1 DEF TimerInv, CallOK
<1>2. ASSUME TimerInv, NEW s \in Sleeper, call[s].pc = "waiting", steady, passed < call[s].due
      PROVE  call[s].due < (timer[call[s].name].wake + 1) * UnitMs
  <2>1. call[s].due \in Int /\ passed \in Int
    BY <1>2 DEF TimerInv, TimersTyped, CallRow
  <2> QED
    BY <1>2, <2>1 DEF TimerInv, CallOK
<1>3. TimerInv => WakesWhenDue
  BY <1>1, <1>2 DEF WakesWhenDue
<1> QED
  BY <1>3, TimersInvariant, PTL

\* By a steady clock a timer is not completed a millisecond or more before the
\* delay that was asked for is over.
THEOREM DelaysAreWhole == TSpec => []WholeDelay
<1>1. TimerInv => WholeDelay
  BY DEF TimerInv, RowOK, WholeDelay
<1> QED
  BY <1>1, TimersInvariant, PTL

\* A timer keeps its first wake time and its first completion, whoever asks
\* again and with whatever delay.
THEOREM FirstAnswersStay == TSpec => TimersKeepFirst
<1>1. ASSUME TimerInv, [TNext]_tvars, NEW n \in Name
      PROVE  /\ timer[n].wake # NoWake => timer'[n].wake = timer[n].wake
             /\ timer[n].completed # NoWake => timer'[n].completed = timer[n].completed
  <2>1. /\ timer \in [Name -> TimerRow]
        /\ timer[n].completed # NoWake => timer[n].wake # NoWake
    BY <1>1 DEF TimerInv, TimersTyped, RowOK
  <2>2. CASE UNCHANGED timer
    BY <2>2
  <2>3. ASSUME NEW s \in Sleeper, ScheduleTimer(s)
        PROVE  timer'[n] = timer[n] \/ timer[n].wake = NoWake
    BY <2>1, <2>3 DEF ScheduleTimer
  <2>4. ASSUME NEW s \in Sleeper, CompleteTimer(s)
        PROVE  /\ timer'[n].wake = timer[n].wake
               /\ timer[n].completed # NoWake => timer'[n].completed = timer[n].completed
    <3>1. PICK m, at : m = call[s].name /\ at = CompletedAt(m)
      OBVIOUS
    <3>2. timer' = [timer EXCEPT ![m].completed = at]
      BY <2>4, <3>1 DEF CompleteTimer
    <3>3. CASE m # n
      BY <2>1, <3>2, <3>3
    <3>4. CASE m = n
      <4>1. timer'[n] = [timer[n] EXCEPT !.completed = at]
        BY <2>1, <3>2, <3>4
      <4>2. timer'[n].wake = timer[n].wake /\ timer'[n].completed = at
        BY <2>1, <4>1 DEF TimerRow
      <4> QED
        BY <3>1, <3>4, <4>2 DEF CompletedAt
    <3> QED
      BY <3>3, <3>4
  <2> QED
    BY <1>1, <2>1, <2>2, <2>3, <2>4
    DEF TNext, tvars, Sleep, Wait, Wake, Interrupted, SetClock, TimePasses
<1>2. TimerInv /\ [TNext]_tvars =>
          [\A n \in Name :
              /\ timer[n].wake # NoWake => timer'[n].wake = timer[n].wake
              /\ timer[n].completed # NoWake =>
                     timer'[n].completed = timer[n].completed]_tvars
  BY <1>1
<1> QED
  BY <1>2, TimersInvariant, PTL DEF TSpec, TimersKeepFirst

=============================================================================

------------------------------- MODULE Timers -------------------------------
(* The durable timers of src/src/workflow.rs and src/src/db.rs: sleep(),      *)
(* schedule_timer() and complete_timer(), called by several contexts of one   *)
(* run and again after a crash.                                               *)
(*                                                                            *)
(* Time is counted in units finer than the millisecond the table keeps.  Two  *)
(* clocks matter: the wall clock, which sets the wake time and the remaining  *)
(* time and which somebody may set, and the monotonic clock tokio sleeps by.  *)
EXTENDS Integers, FiniteSets

CONSTANTS
    Name,      \* timer names
    Sleeper,   \* calls of sleep(), by contexts of the run
    Delay,     \* the delays they ask for, in units
    UnitMs,    \* units per millisecond
    Jump,      \* by how much the wall clock may be set, in units
    NoWake,    \* the timer has no row
    MaxWake,   \* bound: i64::MAX for wake_at_ms
    MaxTime,   \* bound: units of time that pass
    MaxFaults  \* bound: crashes and clock settings

ASSUME DelayAssumption == Delay \subseteq Nat /\ UnitMs \in Nat \ {0}
ASSUME JumpAssumption == Jump \subseteq Int \ {0}
ASSUME LimitAssumption == {MaxWake, MaxTime, MaxFaults} \subseteq Nat
ASSUME NoWakeAssumption == NoWake \notin Int

VARIABLES
    timer,   \* table timers: wake_at_ms and completed_at; asked and delay are
             \* history: the call that wrote the row
    call,    \* where each sleep() is
    passed,  \* the monotonic clock
    offset,  \* wall clock minus monotonic clock
    steady,  \* history: nobody has set the wall clock
    faults

tvars == <<timer, call, passed, offset, steady, faults>>

NoRow == [wake |-> NoWake, completed |-> NoWake, asked |-> 0, delay |-> 0]
NoCall == [pc |-> "idle", name |-> "", delay |-> 0, asked |-> 0, wake |-> 0,
           due |-> 0, setback |-> FALSE]

Wall == passed + offset

\* Utc::now().timestamp_millis()
NowMs == Wall \div UnitMs

\* mutant of DurationToMillis: as_millis() alone
DurationToMillis_Down(d) == d \div UnitMs

\* duration_to_millis
DurationToMillis(d) == IF d % UnitMs = 0 THEN d \div UnitMs ELSE d \div UnitMs + 1

-----------------------------------------------------------------------------

\* sleep() and the first half of schedule_timer(): the wake time is computed
\* before the transaction; when it does not fit, sleep() returns an error.
Sleep(s, n, d) ==
    /\ call[s].pc = "idle"
    /\ NowMs + DurationToMillis(d) <= MaxWake
    /\ call' = [call EXCEPT ![s] = [NoCall EXCEPT
                    !.pc = "scheduling", !.name = n, !.delay = d, !.asked = passed,
                    !.wake = NowMs + DurationToMillis(d)]]
    /\ UNCHANGED <<timer, passed, offset, steady, faults>>

\* mutant of ScheduleTimer: the last writer wins
ScheduleTimer_Upsert(s) ==
    /\ call[s].pc = "scheduling"
    /\ timer' = [timer EXCEPT ![call[s].name] =
                     [NoRow EXCEPT !.wake = call[s].wake, !.asked = call[s].asked,
                                   !.delay = call[s].delay]]
    /\ call' = [call EXCEPT ![s].pc = "scheduled"]
    /\ UNCHANGED <<passed, offset, steady, faults>>

\* The transaction: the first writer wins.
ScheduleTimer(s) ==
    LET row == timer[call[s].name]
    IN  /\ call[s].pc = "scheduling"
        /\ timer' = IF row.wake # NoWake THEN timer
                    ELSE [timer EXCEPT ![call[s].name] =
                              [NoRow EXCEPT !.wake = call[s].wake, !.asked = call[s].asked,
                                            !.delay = call[s].delay]]
        /\ call' = [call EXCEPT ![s].pc = "scheduled",
                                ![s].wake = IF row.wake # NoWake THEN row.wake ELSE @]
        /\ UNCHANGED <<passed, offset, steady, faults>>

\* mutant of Remaining: a restarted context waits for its whole delay
Remaining_WholeDelay(s) == DurationToMillis(call[s].delay)

\* The remaining milliseconds, by the wall clock
Remaining(s) == call[s].wake - NowMs

\* tokio::time::sleep, by the monotonic clock; due is now when nothing remains
Wait(s) ==
    /\ call[s].pc = "scheduled"
    /\ call' = [call EXCEPT ![s].pc = "waiting",
                            ![s].due = passed + (IF Remaining(s) > 0
                                                 THEN Remaining(s) * UnitMs ELSE 0)]
    /\ UNCHANGED <<timer, passed, offset, steady, faults>>

Wake(s) ==
    /\ call[s].pc = "waiting"
    /\ call[s].due <= passed
    /\ call' = [call EXCEPT ![s].pc = "completing"]
    /\ UNCHANGED <<timer, passed, offset, steady, faults>>

\* COALESCE(completed_at, CURRENT_TIMESTAMP).  The table keeps the second of this
\* reading, and only the inspector shows it: what matters is that it stays.
CompletedAt(n) == IF timer[n].completed = NoWake THEN Wall ELSE timer[n].completed

CompleteTimer(s) ==
    /\ call[s].pc = "completing"
    /\ timer' = [timer EXCEPT ![call[s].name].completed = CompletedAt(call[s].name)]
    /\ call' = [call EXCEPT ![s] = NoCall]
    /\ UNCHANGED <<passed, offset, steady, faults>>

\* The process dies, or the future is dropped; the application may ask again.
Interrupted(s) ==
    /\ call[s].pc # "idle"
    /\ faults < MaxFaults
    /\ faults' = faults + 1
    /\ call' = [call EXCEPT ![s] = NoCall]
    /\ UNCHANGED <<timer, passed, offset, steady>>

SetClock(jump) ==
    /\ faults < MaxFaults
    /\ faults' = faults + 1
    /\ offset' = offset + jump
    /\ steady' = FALSE
    /\ call' = [s \in Sleeper |-> [call[s] EXCEPT
                    !.setback = @ \/ (jump < 0 /\ call[s].pc \in {"waiting", "completing"})]]
    /\ UNCHANGED <<timer, passed>>

TimePasses ==
    /\ passed < MaxTime
    /\ passed' = passed + 1
    /\ UNCHANGED <<timer, call, offset, steady, faults>>

-----------------------------------------------------------------------------

TInit ==
    /\ timer = [n \in Name |-> NoRow]
    /\ call = [s \in Sleeper |-> NoCall]
    /\ passed = 0
    /\ offset = 0
    /\ steady = TRUE
    /\ faults = 0

TNext ==
    \/ \E s \in Sleeper : \/ \E n \in Name, d \in Delay : Sleep(s, n, d)
                          \/ ScheduleTimer(s) \/ Wait(s) \/ Wake(s) \/ CompleteTimer(s)
                          \/ Interrupted(s)
    \/ \E jump \in Jump : SetClock(jump)
    \/ TimePasses

TSpec == TInit /\ [][TNext]_tvars

-----------------------------------------------------------------------------

\* schedule_timer and complete_timer: whoever asks again, before or after a
\* crash, with whatever delay, a timer keeps its first wake time and its first
\* completion.
TimersKeepFirst ==
    [][\A n \in Name :
        /\ timer[n].wake # NoWake => timer'[n].wake = timer[n].wake
        /\ timer[n].completed # NoWake => timer'[n].completed = timer[n].completed]_tvars

\* sleep() "Waits until a persisted absolute wake time. Resuming waits only the
\* remaining duration": it is not over before the wall clock shows the wake time
\* in the table, unless that clock was set back after the remaining time was
\* computed; and by a steady clock no wait is due a millisecond or more after
\* the wake time, unless that is over.
WakesWhenDue == \A s \in Sleeper :
    LET wake == timer[call[s].name].wake
    IN  /\ call[s].pc = "completing" /\ ~call[s].setback =>
               wake # NoWake /\ Wall >= wake * UnitMs
        /\ steady /\ call[s].pc = "waiting" /\ passed < call[s].due =>
               call[s].due < (wake + 1) * UnitMs

\* duration_to_millis rounds up what timestamp_millis() cut off: by a steady
\* clock a timer is not completed a millisecond or more before the delay that
\* was asked for is over, although both ends are whole milliseconds.
WholeDelay == steady => \A n \in Name : timer[n].completed # NoWake =>
    timer[n].completed > timer[n].asked + timer[n].delay - UnitMs
=============================================================================

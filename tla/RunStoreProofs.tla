--------------------------- MODULE RunStoreProofs ---------------------------
(* Proofs about RunStore, for every value of its constants.                   *)
EXTENDS RunStore, TLAPS

(* MAX over a set is only as good as the set: it names its largest element    *)
(* when there is one.  What the log needs for its next sequence number is     *)
(* therefore part of the invariant: the places used so far are 0 .. n-1.      *)
(* From them the numbers in the column follow, those that wrapped included.   *)

Places(r) == {e.place : e \in EventsOf(r)}
Rounds(r) == {c.round : c \in CheckpointsOf(r)}
Ids == {c.id : c \in checkpoints}

PlacesInitial == \A r \in Run : \E n \in Nat : Places(r) = 0 .. n - 1
PlacesUnique == \A e, f \in events : e.run = f.run /\ e.place = f.place => e = f
RoundsInitial == \A r \in Run : \E n \in Nat : Rounds(r) = 1 .. n
IdsInitial == \E n \in Nat : Ids = 1 .. n

AbsentBlank == \A r \in Run : runs[r].status = "absent" => runs[r] = AbsentRun

RunsShape == runs \in [Run -> RunRow] /\ AbsentBlank
EventsShape == events \subseteq Event /\ PlacesInitial /\ PlacesUnique
CheckpointsShape == checkpoints \subseteq Checkpoint /\ RoundsInitial /\ IdsInitial
TokensShape == now \in Time /\ leases \subseteq Lease

Shape == RunsShape /\ EventsShape /\ CheckpointsShape /\ TokensShape

-----------------------------------------------------------------------------
(* The three MAX + 1 queries.                                                 *)

LEMMA MaxOfInterval ==
    ASSUME NEW a \in Int, NEW b \in Int, a <= b
    PROVE  Max(a .. b) = b
<1>1. b \in a .. b /\ \A y \in a .. b : b >= y
  OBVIOUS
<1>2. \A x \in a .. b : (\A y \in a .. b : x >= y) => x = b
  OBVIOUS
<1> QED
  BY <1>1, <1>2 DEF Max

LEMMA LogLengthIs ==
    ASSUME NEW r \in Run, NEW n \in Nat, Places(r) = 0 .. n - 1
    PROVE  LogLength(r) = n
<1>0. LogLength(r) = IF Places(r) = {} THEN 0 ELSE Max(Places(r)) + 1
  BY Zenon DEF LogLength, Places
<1>1. CASE n = 0
  <2>1. Places(r) = {}
    BY <1>1
  <2> QED
    BY <1>0, <2>1, <1>1
<1>2. CASE n > 0
  <2>1. Places(r) # {} /\ Max(Places(r)) = n - 1
    BY <1>2, MaxOfInterval
  <2> QED
    BY <1>0, <2>1
<1> QED
  BY <1>1, <1>2

LEMMA LogLengthNat ==
    ASSUME PlacesInitial, NEW r \in Run
    PROVE  LogLength(r) \in Nat /\ Places(r) = 0 .. LogLength(r) - 1
<1>1. PICK n \in Nat : Places(r) = 0 .. n - 1
  BY DEF PlacesInitial
<1> QED
  BY <1>1, LogLengthIs

LEMMA MaxIs ==
    ASSUME NEW S \in SUBSET Int, NEW m \in S, \A x \in S : x <= m
    PROVE  Max(S) = m
<1>1. \A x \in S : (\A y \in S : x >= y) => x = m
  OBVIOUS
<1>2. \A y \in S : m >= y
  OBVIOUS
<1> QED
  BY <1>1, <1>2 DEF Max

\* The number next_event_seq returns for a log of n events is n, until all of
\* 0 .. i32::MAX are taken.
LEMMA NextSeqIs ==
    ASSUME EventsShape, NEW r \in Run
    PROVE  NextSeq(r) = IF LogLength(r) <= MaxSeq THEN LogLength(r) ELSE MaxSeq + 1
<1> DEFINE n == LogLength(r)
           S == {SeqOf(e) : e \in EventsOf(r)}
<1>0. NextSeq(r) = IF S = {} THEN 0 ELSE Max(S) + 1
  BY Zenon DEF NextSeq
<1>1. n \in Nat /\ Places(r) = 0 .. n - 1
  BY LogLengthNat DEF EventsShape
<1>2. \A e \in EventsOf(r) : e.place \in 0 .. 2 * MaxSeq + 1 /\ e.place < n
  BY <1>1 DEF EventsOf, EventsShape, Event, Places
<1>3. \A p \in 0 .. n - 1 : \E e \in EventsOf(r) : e.place = p
  BY <1>1 DEF Places
<1> HIDE DEF n
<1>4. S \in SUBSET Int /\ \A x \in S : x <= MaxSeq /\ x < n
  BY <1>1, <1>2, BoundAssumption DEF SeqOf, I32
<1>5. CASE n = 0
  <2>1. S = {}
    BY <1>4, <1>5, <1>2
  <2> QED
    BY <1>0, <2>1, <1>5, BoundAssumption DEF n
<1>6. CASE n > 0 /\ n <= MaxSeq
  <2>1. n - 1 \in S
    BY <1>1, <1>3, <1>6, BoundAssumption DEF SeqOf, I32
  <2>a. \A x \in S : x <= n - 1
    BY <1>1, <1>4
  <2>2. Max(S) = n - 1
    BY <2>1, <2>a, <1>4, MaxIs
  <2> QED
    BY <1>0, <2>1, <2>2, <1>6, <1>1 DEF n
<1>7. CASE n > MaxSeq
  <2>1. MaxSeq \in S
    BY <1>1, <1>3, <1>7, BoundAssumption DEF SeqOf, I32
  <2>2. Max(S) = MaxSeq
    BY <2>1, <1>4, MaxIs
  <2> QED
    BY <1>0, <2>1, <2>2, <1>7, <1>1, BoundAssumption DEF n
<1> QED
  BY <1>1, <1>5, <1>6, <1>7, BoundAssumption

LEMMA NextSeqNat == ASSUME EventsShape, NEW r \in Run PROVE NextSeq(r) \in Nat
  BY NextSeqIs, LogLengthNat, BoundAssumption DEF EventsShape

\* A transaction that got its number read the length of the log.
LEMMA Numbered ==
    ASSUME EventsShape, NEW rows, InsertEvents(rows), NEW e \in rows, e.run \in Run
    PROVE  NextSeq(e.run) = LogLength(e.run) /\ LogLength(e.run) \in 0 .. MaxSeq
<1>1. NextSeq(e.run) <= MaxSeq
  BY DEF InsertEvents
<1> QED
  BY <1>1, NextSeqIs, LogLengthNat, BoundAssumption DEF EventsShape

LEMMA NextRoundIs ==
    ASSUME NEW r \in Run, NEW n \in Nat, Rounds(r) = 1 .. n
    PROVE  NextRound(r) = n + 1
<1>0. NextRound(r) = IF Rounds(r) = {} THEN 1 ELSE Max(Rounds(r)) + 1
  BY Zenon DEF NextRound, Rounds
<1>1. CASE n = 0
  <2>1. Rounds(r) = {}
    BY <1>1
  <2> QED
    BY <1>0, <2>1, <1>1
<1>2. CASE n > 0
  <2>1. Rounds(r) # {} /\ Max(Rounds(r)) = n
    BY <1>2, MaxOfInterval
  <2> QED
    BY <1>0, <2>1
<1> QED
  BY <1>1, <1>2

LEMMA NextCheckpointIdIs ==
    ASSUME NEW n \in Nat, Ids = 1 .. n
    PROVE  NextCheckpointId = n + 1
<1>0. NextCheckpointId = IF Ids = {} THEN 1 ELSE Max(Ids) + 1
  BY Zenon DEF NextCheckpointId, Ids
<1>1. CASE n = 0
  <2>1. Ids = {}
    BY <1>1
  <2> QED
    BY <1>0, <2>1, <1>1
<1>2. CASE n > 0
  <2>1. Ids # {} /\ Max(Ids) = n
    BY <1>2, MaxOfInterval
  <2> QED
    BY <1>0, <2>1
<1> QED
  BY <1>1, <1>2

-----------------------------------------------------------------------------
(* What one INSERT into events keeps.                                         *)

LEMMA InsertKeepsUnique ==
    ASSUME PlacesUnique, NEW rows, InsertEvents(rows)
    PROVE  PlacesUnique'
  BY DEF PlacesUnique, InsertEvents, Conflict, SeqOf

\* Rows placed from the end of the log on, k of them, leave no gap.
LEMMA InsertKeepsInitial ==
    ASSUME PlacesInitial, NEW r \in Run, NEW k \in Nat, NEW rows, InsertEvents(rows),
           \A e \in rows : e.run = r,
           {e.place : e \in rows} = LogLength(r) .. LogLength(r) + k - 1
    PROVE  PlacesInitial'
<1> SUFFICES ASSUME NEW s \in Run PROVE \E n \in Nat : Places(s)' = 0 .. n - 1
  BY DEF PlacesInitial
<1>1. PICK n \in Nat : Places(s) = 0 .. n - 1
  BY DEF PlacesInitial
<1>2. events' = events \cup rows
  BY DEF InsertEvents
<1>3. CASE s # r
  <2>1. Places(s)' = Places(s)
    BY <1>2, <1>3 DEF Places, EventsOf
  <2> QED
    BY <2>1, <1>1
<1>4. CASE s = r
  <2>1. Places(r)' = Places(r) \cup {e.place : e \in rows}
    BY <1>2 DEF Places, EventsOf
  <2>2. LogLength(r) = n
    BY <1>1, <1>4, LogLengthIs
  <2>3. Places(r)' = 0 .. (n + k) - 1
    BY <2>1, <2>2, <1>1, <1>4
  <2> QED
    BY <2>3, <1>4
<1> QED
  BY <1>3, <1>4

\* A row as a transaction builds it, at any place.
NewRow == [run : Run, place : Nat, type : EventType, payload : Payload,
           key : Key, writer : 1 .. MaxEpoch]

\* Rows numbered from next_event_seq on, k of them, no more than i32 can number
\* before it comes back to where it was.
LEMMA InsertKeepsShape ==
    ASSUME EventsShape, NEW r \in Run, NEW k \in 1 .. MaxSeq + 2,
           NEW rows, InsertEvents(rows),
           rows \subseteq NewRow, \A e \in rows : e.run = r,
           {e.place : e \in rows} = NextSeq(r) .. NextSeq(r) + k - 1
    PROVE  EventsShape'
<1>1. NextSeq(r) = LogLength(r) /\ LogLength(r) \in 0 .. MaxSeq
  <2>1. NextSeq(r) \in {e.place : e \in rows}
    BY NextSeqNat, BoundAssumption
  <2>2. PICK e \in rows : e.run = r
    BY <2>1
  <2> QED
    BY <2>2, Numbered
<1>2. events' \subseteq Event
  <2>1. \A e \in rows : e.place \in 0 .. 2 * MaxSeq + 1
    <3> SUFFICES ASSUME NEW e \in rows PROVE e.place \in 0 .. 2 * MaxSeq + 1
      OBVIOUS
    <3>1. e.place \in NextSeq(r) .. NextSeq(r) + k - 1
      OBVIOUS
    <3> QED
      BY <3>1, <1>1, BoundAssumption
  <2>2. \A e \in rows : e \in Event
    BY <2>1 DEF NewRow, Event
  <2> QED
    BY <2>2 DEF InsertEvents, EventsShape
<1>3. PlacesInitial'
  BY <1>1, BoundAssumption, InsertKeepsInitial DEF EventsShape
<1>4. PlacesUnique'
  BY InsertKeepsUnique DEF EventsShape
<1> QED
  BY <1>2, <1>3, <1>4 DEF EventsShape

LEMMA InsertOneKeepsShape ==
    ASSUME EventsShape, NEW row \in NewRow, row.place = NextSeq(row.run),
           InsertEvents({row})
    PROVE  EventsShape'
<1>1. row.run \in Run /\ NextSeq(row.run) \in Nat
  BY NextSeqNat DEF NewRow
<1>2. {e.place : e \in {row}} = NextSeq(row.run) .. NextSeq(row.run) + 1 - 1
  BY <1>1
<1> QED
  BY <1>1, <1>2, BoundAssumption, InsertKeepsShape

LEMMA TransitionRowType ==
    ASSUME NEW r \in Run, NEW seq \in Nat, NEW from \in Status, NEW to \in Status,
           NEW w \in 1 .. MaxEpoch
    PROVE  LET row == TransitionRow(r, seq, from, to, w)
           IN  row \in NewRow /\ row.run = r /\ row.place = seq
  BY DEF TransitionRow, EventRow, NewRow, NoPayload, NoKey, Payload, Key, EventType

LEMMA IntentRowType ==
    ASSUME NEW l \in Lease, NEW seq \in Nat, NEW call \in ToolCall, NEW count
    PROVE  LET row == IntentRow(l, seq, call, count)
           IN  row \in NewRow /\ row.run = l.run /\ row.place = seq
  BY DEF IntentRow, EventRow, NewRow, NoPayload, NoKey, CallKey, Payload, Key,
         EventType, ToolCall, Lease

LEMMA ResultRowType ==
    ASSUME NEW l \in Lease, NEW seq \in Nat, NEW c \in CallId, NEW key \in Key
    PROVE  LET row == ResultRow(l, seq, c, key)
           IN  row \in NewRow /\ row.run = l.run /\ row.place = seq
  BY DEF ResultRow, EventRow, NewRow, NoPayload, Payload, EventType, Lease

LEMMA CheckpointRowType ==
    ASSUME NEW l \in Lease, NEW seq \in Nat, NEW id \in Nat,
           NEW type \in EventType, NEW key \in Key
    PROVE  LET row == EventRow(l.run, seq, type, [NoPayload EXCEPT !.cp = id], key, l.epoch)
           IN  row \in NewRow /\ row.run = l.run /\ row.place = seq
  BY DEF EventRow, NewRow, NoPayload, Payload, Lease

LEMMA KeyTypes ==
    /\ NoKey \in Key
    /\ \A c \in CallId : CallKey("tool_call", c) \in Key /\ CallKey("tool_result", c) \in Key
    /\ \A id \in Nat, kind \in {"proposed", "accepted", "rejected", "tool_result"} :
           CheckpointKey(kind, id) \in Key
  BY DEF NoKey, CallKey, CheckpointKey, Key

-----------------------------------------------------------------------------
(* Each transaction keeps the shape of the tables.                            *)

LEMMA InitShape == Init => Shape
<1> SUFFICES ASSUME Init PROVE Shape
  OBVIOUS
<1>1. RunsShape
  BY BoundAssumption DEF Init, RunsShape, RunRow, AbsentRun, AbsentBlank
<1>2. EventsShape
  <2>1. \A r \in Run : Places(r) = 0 .. 0 - 1
    BY DEF Init, Places, EventsOf
  <2> QED
    BY <2>1 DEF Init, EventsShape, PlacesInitial, PlacesUnique
<1>3. CheckpointsShape
  <2>1. Ids = 1 .. 0 /\ \A r \in Run : Rounds(r) = 1 .. 0
    BY DEF Init, Ids, Rounds, CheckpointsOf
  <2> QED
    BY <2>1 DEF Init, CheckpointsShape, RoundsInitial, IdsInitial
<1>4. TokensShape
  BY DEF Init, TokensShape
<1> QED
  BY <1>1, <1>2, <1>3, <1>4 DEF Shape

LEMMA SameEvents == ASSUME EventsShape, UNCHANGED events PROVE EventsShape'
  BY DEF EventsShape, PlacesInitial, PlacesUnique, Places, EventsOf

LEMMA SameCheckpoints == ASSUME CheckpointsShape, UNCHANGED checkpoints PROVE CheckpointsShape'
  BY DEF CheckpointsShape, RoundsInitial, IdsInitial, Rounds, Ids, CheckpointsOf

LEMMA SameRuns == ASSUME RunsShape, UNCHANGED runs PROVE RunsShape'
  BY DEF RunsShape, AbsentBlank

LEMMA SameTokens == ASSUME TokensShape, UNCHANGED <<now, leases>> PROVE TokensShape'
  BY DEF TokensShape

LEMMA CreateRunShape == ASSUME Shape, NEW r \in Run, CreateRun(r) PROVE Shape'
<1>1. now \div SecondMs \in Nat
  BY ClockAssumption DEF Shape, TokensShape
<1>2. RunsShape'
  BY <1>1, BoundAssumption
  DEF CreateRun, Shape, RunsShape, RunRow, AbsentRun, AbsentBlank, Status
<1> QED
  BY <1>2, SameEvents, SameCheckpoints, SameTokens DEF Shape, CreateRun

LEMMA GrantLeaseShape ==
    ASSUME Shape, NEW r \in Run, NEW o \in Owner, NEW ttl \in Ttl,
           NEW status \in Status, runs[r].status # "absent",
           GrantLease(r, o, ttl, status), UNCHANGED now
    PROVE  RunsShape' /\ TokensShape' /\ runs[r].epoch + 1 \in 1 .. MaxEpoch
<1>1. /\ now + ttl \in 0 .. MaxMillis
      /\ runs[r] \in RunRow /\ runs[r].epoch \in 0 .. MaxEpoch
  BY ClockAssumption, BoundAssumption DEF GrantLease, Shape, TokensShape, RunsShape, RunRow
<1>2. runs[r].epoch + 1 \in 1 .. MaxEpoch
  BY <1>1, BoundAssumption DEF GrantLease
<1>3. RunsShape'
  BY <1>1, <1>2 DEF GrantLease, Shape, RunsShape, RunRow, AbsentBlank, Status
<1>4. TokensShape'
  BY <1>2 DEF GrantLease, Shape, TokensShape, Lease
<1> QED
  BY <1>2, <1>3, <1>4

LEMMA ClaimRunLeaseShape ==
    ASSUME Shape, NEW r \in Run, NEW o \in Owner, NEW ttl \in Ttl, NEW recover \in BOOLEAN,
           ClaimRunLease(r, o, ttl, recover)
    PROVE  Shape'
<1>1. runs[r].status \in Status /\ runs[r].status # "absent"
  BY DEF ClaimRunLease, Shape, RunsShape, RunRow
<1>2. RunsShape' /\ TokensShape'
  BY <1>1, GrantLeaseShape DEF ClaimRunLease
<1> QED
  BY <1>2, SameEvents, SameCheckpoints DEF Shape, ClaimRunLease

LEMMA ClaimNextShape ==
    ASSUME Shape, NEW o \in Owner, NEW ttl \in Ttl, ClaimNextRecoverableRun(o, ttl)
    PROVE  Shape'
<1>1. PICK r \in Run :
        /\ Recoverable(r)
        /\ GrantLease(r, o, ttl, "running")
        /\ \/ UNCHANGED events
           \/ InsertEvents({TransitionRow(r, NextSeq(r), "pending", "running",
                                          runs[r].epoch + 1)})
        /\ UNCHANGED <<checkpoints, now>>
  BY DEF ClaimNextRecoverableRun
<1>2. RunsShape' /\ TokensShape' /\ runs[r].epoch + 1 \in 1 .. MaxEpoch
  BY <1>1, GrantLeaseShape DEF Recoverable, Claimable, Status
<1>3. EventsShape'
  <2> DEFINE row == TransitionRow(r, NextSeq(r), "pending", "running", runs[r].epoch + 1)
  <2>1. NextSeq(r) \in Nat
    BY NextSeqNat DEF Shape, EventsShape
  <2>2. row \in NewRow /\ row.run = r /\ row.place = NextSeq(r)
    BY <2>1, <1>2, TransitionRowType DEF Status
  <2> HIDE DEF row
  <2>3. CASE InsertEvents({row})
    BY <2>2, <2>3, InsertOneKeepsShape DEF Shape
  <2> QED
    BY <1>1, <2>3, SameEvents DEF Shape, row
<1> QED
  BY <1>1, <1>2, <1>3, SameCheckpoints DEF Shape

\* A row of agent_runs with an owner is not the row of a run yet to be created.
LEMMA LeasedRun ==
    ASSUME Shape, NEW l \in leases, runs[l.run].owner = l.owner
    PROVE  /\ l \in Lease /\ l.run \in Run /\ l.owner \in Owner /\ l.epoch \in 1 .. MaxEpoch
           /\ runs[l.run] \in RunRow
           /\ runs[l.run].status \in Status /\ runs[l.run].status # "absent"
<1>1. l \in Lease /\ l.run \in Run /\ l.owner \in Owner /\ l.epoch \in 1 .. MaxEpoch
  BY DEF Shape, TokensShape, Lease
<1>2. runs[l.run] \in RunRow /\ runs[l.run].owner # NoOwner
  BY <1>1, OwnerAssumption DEF Shape, RunsShape
<1>3. runs[l.run].status # "absent"
  BY <1>1, <1>2 DEF Shape, RunsShape, AbsentBlank, AbsentRun
<1> QED
  BY <1>1, <1>2, <1>3 DEF RunRow

LEMMA RenewShape ==
    ASSUME Shape, NEW l \in leases, NEW ttl \in Ttl, RenewRunLease(l, ttl)
    PROVE  Shape'
<1>1. runs[l.run].status # "absent" /\ l.run \in Run
  BY LeasedRun DEF RenewRunLease, ValidRunLease
<1>2. now + ttl \in 0 .. MaxMillis
  BY ClockAssumption, BoundAssumption DEF RenewRunLease, Shape, TokensShape
<1>3. RunsShape'
  BY <1>1, <1>2 DEF RenewRunLease, Shape, RunsShape, RunRow, AbsentBlank
<1> QED
  BY <1>3, SameEvents, SameCheckpoints, SameTokens DEF Shape, RenewRunLease

LEMMA ReleaseShape ==
    ASSUME Shape, NEW l \in leases, ReleaseRunLease(l)
    PROVE  Shape'
<1>1. runs[l.run].status # "absent" /\ l.run \in Run
  BY LeasedRun DEF ReleaseRunLease
<1>2. RunsShape'
  BY <1>1, BoundAssumption DEF ReleaseRunLease, Shape, RunsShape, RunRow, AbsentBlank
<1> QED
  BY <1>2, SameEvents, SameCheckpoints, SameTokens DEF Shape, ReleaseRunLease

\* Both status changes under a lease: one transition event, one new status.
LEMMA TransitionShape ==
    ASSUME Shape, NEW l \in leases, runs[l.run].owner = l.owner,
           NEW from \in Status, NEW to \in Status,
           InsertEvents({TransitionRow(l.run, NextSeq(l.run), from, to, l.epoch)})
    PROVE  EventsShape'
<1>1. l.run \in Run /\ l.epoch \in 1 .. MaxEpoch
  BY LeasedRun
<1>2. NextSeq(l.run) \in Nat
  BY <1>1, NextSeqNat DEF Shape, EventsShape
<1> DEFINE row == TransitionRow(l.run, NextSeq(l.run), from, to, l.epoch)
<1>3. row \in NewRow /\ row.run = l.run /\ row.place = NextSeq(l.run)
  BY <1>1, <1>2, TransitionRowType
<1>4. InsertEvents({row})
  OBVIOUS
<1> HIDE DEF row
<1> QED
  BY <1>3, <1>4, InsertOneKeepsShape DEF Shape

LEMMA UpdateStatusShape ==
    ASSUME Shape, NEW l \in leases, NEW status \in Status, UpdateRunStatus(l, status)
    PROVE  Shape'
<1>1. /\ l.run \in Run /\ runs[l.run].status \in Status
      /\ runs[l.run].owner = l.owner /\ status # "absent"
  BY LeasedRun DEF UpdateRunStatus, ValidRunLease, Status
<1>2. RunsShape'
  BY <1>1 DEF UpdateRunStatus, Shape, RunsShape, RunRow, AbsentBlank
<1>3. EventsShape'
  BY <1>1, TransitionShape DEF UpdateRunStatus
<1> QED
  BY <1>2, <1>3, SameCheckpoints, SameTokens DEF Shape, UpdateRunStatus

LEMMA CompleteShape ==
    ASSUME Shape, NEW l \in leases, CompleteRun(l)
    PROVE  Shape'
<1>1. l.run \in Run /\ runs[l.run].owner = l.owner
  BY LeasedRun DEF CompleteRun, ValidWritableRunLease, ValidRunLease
<1>2. RunsShape'
  BY <1>1, BoundAssumption
  DEF CompleteRun, Shape, RunsShape, RunRow, AbsentBlank, Status
<1>3. EventsShape'
  BY <1>1, TransitionShape DEF CompleteRun, Status
<1> QED
  BY <1>2, <1>3, SameCheckpoints, SameTokens DEF Shape, CompleteRun

\* What the guard of every write to the log gives.
LEMMA WritableRun ==
    ASSUME Shape, NEW l \in leases, ValidWritableRunLease(l)
    PROVE  /\ l \in Lease /\ l.run \in Run /\ l.epoch \in 1 .. MaxEpoch
           /\ NextSeq(l.run) \in Nat
<1>1. l \in Lease /\ l.run \in Run /\ l.epoch \in 1 .. MaxEpoch
  BY LeasedRun DEF ValidWritableRunLease, ValidRunLease
<1>2. NextSeq(l.run) \in Nat
  BY <1>1, NextSeqNat DEF Shape, EventsShape
<1> QED
  BY <1>1, <1>2

LEMMA AppendLlmCallShape ==
    ASSUME Shape, NEW l \in leases, NEW response \in Response, AppendLlmCall(l, response)
    PROVE  Shape'
<1> DEFINE seq == NextSeq(l.run)
           n == Len(response)
           llm == EventRow(l.run, seq, "llm_call", NoPayload, NoKey, l.epoch)
           intents == {IntentRow(l, seq + i, response[i], n) : i \in 1 .. n}
           rows == {llm} \cup intents
<1>1. l \in Lease /\ l.run \in Run /\ seq \in Nat /\ l.epoch \in 1 .. MaxEpoch
  BY WritableRun DEF AppendLlmCall
<1>2. n \in Nat /\ n <= MaxSeq + 1 /\ \A i \in 1 .. n : response[i] \in ToolCall
  BY ResponseAssumption
<1>3. llm \in NewRow /\ llm.run = l.run /\ llm.place = seq
  BY <1>1, KeyTypes DEF EventRow, NewRow, NoPayload, Payload, EventType
<1>4. \A i \in 1 .. n : LET row == IntentRow(l, seq + i, response[i], n)
                        IN  row \in NewRow /\ row.run = l.run /\ row.place = seq + i
  <2> TAKE i \in 1 .. n
  <2>1. seq + i \in Nat
    BY <1>1, <1>2
  <2> QED
    BY <2>1, <1>1, <1>2, IntentRowType
<1>5. rows \subseteq NewRow /\ \A e \in rows : e.run = l.run
  BY <1>3, <1>4
<1>6. {e.place : e \in rows} = seq .. seq + (n + 1) - 1
  <2>1. ASSUME NEW j \in seq .. seq + (n + 1) - 1 PROVE \E e \in rows : e.place = j
    <3>1. CASE j = seq
      BY <3>1, <1>3
    <3>2. CASE j # seq
      <4>1. j - seq \in 1 .. n /\ seq + (j - seq) = j
        BY <3>2, <1>1, <1>2
      <4> QED
        BY <4>1, <1>4
    <3> QED
      BY <3>1, <3>2
  <2>2. ASSUME NEW e \in rows PROVE e.place \in seq .. seq + (n + 1) - 1
    <3>1. CASE e = llm
      BY <3>1, <1>3, <1>1, <1>2
    <3>2. CASE e \in intents
      <4>1. PICK i \in 1 .. n : e.place = seq + i
        BY <3>2, <1>4
      <4> QED
        BY <4>1, <1>1, <1>2
    <3> QED
      BY <3>1, <3>2
  <2> QED
    BY <2>1, <2>2
<1>7. InsertEvents(rows)
  BY DEF AppendLlmCall
<1>8. n + 1 \in 1 .. MaxSeq + 2
  BY <1>2, BoundAssumption
<1> HIDE DEF rows, seq, n
<1>9. EventsShape'
  BY <1>1, <1>5, <1>6, <1>7, <1>8, InsertKeepsShape DEF Shape, seq
<1> QED
  BY <1>9, SameRuns, SameCheckpoints, SameTokens DEF Shape, AppendLlmCall

LEMMA RecordToolResultShape ==
    ASSUME Shape, NEW l \in leases, NEW c \in CallId, RecordToolResult(l, c)
    PROVE  Shape'
<1> DEFINE row == ResultRow(l, NextSeq(l.run), c, CallKey("tool_result", c))
<1>1. row \in NewRow /\ row.run = l.run /\ row.place = NextSeq(l.run)
  BY WritableRun, KeyTypes, ResultRowType DEF RecordToolResult
<1>2. InsertEvents({row})
  BY DEF RecordToolResult
<1> HIDE DEF row
<1>3. EventsShape'
  BY <1>1, <1>2, InsertOneKeepsShape DEF Shape
<1> QED
  BY <1>3, SameRuns, SameCheckpoints, SameTokens DEF Shape, RecordToolResult

LEMMA AppendEventShape ==
    ASSUME Shape, NEW l \in leases, NEW raw \in RawEvent, AppendEvent(l, raw)
    PROVE  Shape'
<1> DEFINE payload == [NoPayload EXCEPT !.call = raw.call]
           row == EventRow(l.run, NextSeq(l.run), raw.type, payload, NoKey, l.epoch)
<1>1. raw.type \in EventType /\ payload \in Payload
  BY RawAssumption DEF EventType, Payload, NoPayload
<1>2. row \in NewRow /\ row.run = l.run /\ row.place = NextSeq(l.run)
  BY <1>1, WritableRun, KeyTypes DEF AppendEvent, EventRow, NewRow
<1>3. InsertEvents({row})
  BY DEF AppendEvent
<1> HIDE DEF row
<1>4. EventsShape'
  BY <1>2, <1>3, InsertOneKeepsShape DEF Shape
<1> QED
  BY <1>4, SameRuns, SameCheckpoints, SameTokens DEF Shape, AppendEvent

LEMMA ProposeShape ==
    ASSUME Shape, NEW l \in leases, NEW c \in CallId, ProposeCheckpoint(l, c)
    PROVE  Shape'
<1> DEFINE seq == NextSeq(l.run)
           id == NextCheckpointId
           row == [id |-> id, run |-> l.run, round |-> NextRound(l.run), call |-> c,
                   based_on |-> seq - 1, decision |-> NoSeq, status |-> "candidate"]
           event == EventRow(l.run, seq, "checkpoint_proposed",
                             [NoPayload EXCEPT !.cp = id],
                             CheckpointKey("proposed", id), l.epoch)
<1>1. l \in Lease /\ l.run \in Run /\ seq \in Nat
  BY WritableRun DEF ProposeCheckpoint
<1>2. PICK n \in Nat : Ids = 1 .. n
  BY DEF Shape, CheckpointsShape, IdsInitial
<1>3. PICK m \in Nat : Rounds(l.run) = 1 .. m
  BY <1>1 DEF Shape, CheckpointsShape, RoundsInitial
<1>4. id = n + 1 /\ NextRound(l.run) = m + 1
  BY <1>1, <1>2, <1>3, NextCheckpointIdIs, NextRoundIs
<1>5. EventsShape'
  <2>1. event \in NewRow /\ event.run = l.run /\ event.place = seq
    <3>1. id \in Nat /\ "checkpoint_proposed" \in EventType
      BY <1>4 DEF EventType
    <3>2. CheckpointKey("proposed", id) \in Key
      BY <3>1, KeyTypes
    <3> HIDE DEF seq, id
    <3> QED
      BY <1>1, <3>1, <3>2, CheckpointRowType
  <2>2. InsertEvents({event})
    BY DEF ProposeCheckpoint
  <2> HIDE DEF event
  <2> QED
    BY <2>1, <2>2, InsertOneKeepsShape DEF Shape
<1>6. checkpoints' = checkpoints \cup {row}
  BY DEF ProposeCheckpoint, InsertCheckpoint
<1>7. row \in Checkpoint
  BY <1>1, <1>2, <1>3, <1>4 DEF Checkpoint, NoSeq
<1>8. row.run = l.run /\ row.id = n + 1 /\ row.round = m + 1
  BY <1>4
<1> HIDE DEF row
<1>9. IdsInitial'
  <2>1. Ids' = Ids \cup {row.id}
    BY <1>6 DEF Ids
  <2>2. Ids' = 1 .. n + 1
    BY <2>1, <1>2, <1>8
  <2> QED
    BY <2>2 DEF IdsInitial
<1>10. RoundsInitial'
  <2> SUFFICES ASSUME NEW s \in Run PROVE \E k \in Nat : Rounds(s)' = 1 .. k
    BY DEF RoundsInitial
  <2>1. CASE s = l.run
    <3>1. Rounds(s)' = Rounds(s) \cup {row.round}
      BY <2>1, <1>6, <1>8 DEF Rounds, CheckpointsOf
    <3>2. Rounds(s)' = 1 .. m + 1
      BY <3>1, <2>1, <1>3, <1>8
    <3> QED
      BY <3>2
  <2>2. CASE s # l.run
    <3>1. Rounds(s)' = Rounds(s)
      BY <2>2, <1>6, <1>8 DEF Rounds, CheckpointsOf
    <3> QED
      BY <3>1 DEF Shape, CheckpointsShape, RoundsInitial
  <2> QED
    BY <2>1, <2>2
<1>11. CheckpointsShape'
  BY <1>6, <1>7, <1>9, <1>10 DEF Shape, CheckpointsShape
<1> QED
  BY <1>5, <1>11, SameRuns, SameTokens DEF Shape, ProposeCheckpoint

LEMMA VerdictTypes ==
    \A accepted \in BOOLEAN :
        /\ Verdict(accepted) \in {"accepted", "rejected"}
        /\ VerdictType(accepted) \in EventType
  BY DEF Verdict, VerdictType, EventType

LEMMA DecideShape ==
    ASSUME Shape, NEW l \in leases, NEW id, NEW accepted \in BOOLEAN,
           DecideCheckpoint(l, id, accepted)
    PROVE  Shape'
<1> DEFINE seq == NextSeq(l.run)
<1>1. l \in Lease /\ l.run \in Run /\ seq \in Nat
  BY WritableRun DEF DecideCheckpoint
<1>2. PICK c \in Candidates(l.run) :
        /\ c.id = id
        /\ checkpoints' = (checkpoints \ {c}) \cup
               {[c EXCEPT !.status = Verdict(accepted), !.decision = seq]}
        /\ InsertEvents({EventRow(l.run, seq, VerdictType(accepted),
                                  [NoPayload EXCEPT !.cp = id],
                                  CheckpointKey(Verdict(accepted), id), l.epoch),
                         ResultRow(l, seq + 1, c.call,
                                   CheckpointKey("tool_result", id))})
  BY DEF DecideCheckpoint
<1>3. c \in checkpoints /\ c \in Checkpoint /\ c.run = l.run
  BY DEF Candidates, CheckpointsOf, Shape, CheckpointsShape
<1>4. id \in Nat /\ c.call \in CallId
  BY <1>2, <1>3 DEF Checkpoint
<1>5. EventsShape'
  <2> DEFINE verdict == EventRow(l.run, seq, VerdictType(accepted),
                                 [NoPayload EXCEPT !.cp = id],
                                 CheckpointKey(Verdict(accepted), id), l.epoch)
             result == ResultRow(l, seq + 1, c.call, CheckpointKey("tool_result", id))
             rows == {verdict, result}
  <2>1. verdict \in NewRow /\ verdict.run = l.run /\ verdict.place = seq
    BY <1>1, <1>4, KeyTypes, VerdictTypes, CheckpointRowType
  <2>2. result \in NewRow /\ result.run = l.run /\ result.place = seq + 1
    <3>1. seq + 1 \in Nat /\ CheckpointKey("tool_result", id) \in Key
      BY <1>1, <1>4, KeyTypes
    <3> QED
      BY <1>1, <1>4, <3>1, ResultRowType
  <2>3. InsertEvents(rows)
    BY <1>2
  <2> HIDE DEF verdict, result
  <2>4. {e.place : e \in rows} = seq .. seq + 2 - 1
    BY <2>1, <2>2, <1>1
  <2>5. rows \subseteq NewRow /\ \A e \in rows : e.run = l.run
    BY <2>1, <2>2
  <2> HIDE DEF rows
  <2> QED
    BY <1>1, <2>3, <2>4, <2>5, InsertKeepsShape, BoundAssumption DEF Shape
<1> DEFINE decided == [c EXCEPT !.status = Verdict(accepted), !.decision = seq]
<1>6. /\ decided \in Checkpoint
      /\ decided.id = c.id /\ decided.run = c.run /\ decided.round = c.round
  BY <1>1, <1>3, VerdictTypes DEF Checkpoint
<1>7. checkpoints' = (checkpoints \ {c}) \cup {decided}
  BY <1>2
<1> HIDE DEF decided
<1>8. Ids' = Ids /\ \A r \in Run : Rounds(r)' = Rounds(r)
  BY <1>3, <1>6, <1>7 DEF Ids, Rounds, CheckpointsOf
<1>9. CheckpointsShape'
  BY <1>6, <1>7, <1>8 DEF Shape, CheckpointsShape, IdsInitial, RoundsInitial
<1> QED
  BY <1>5, <1>9, SameRuns, SameTokens DEF Shape, DecideCheckpoint

LEMMA TickShape == ASSUME Shape, NEW t \in Time, Tick(t) PROVE Shape'
  BY SameRuns, SameEvents, SameCheckpoints DEF Tick, Shape, TokensShape

LEMMA NextShape == Shape /\ [Next]_vars => Shape'
<1> SUFFICES ASSUME Shape, [Next]_vars PROVE Shape'
  OBVIOUS
<1>1. ASSUME NEW r \in Run, CreateRun(r) PROVE Shape'
  BY <1>1, CreateRunShape
<1>2. CASE Claim
  <2>1. PICK o \in Owner, ttl \in Ttl :
          \/ \E r \in Run : AcquireRunLease(r, o, ttl)
          \/ \E r \in Forced : RecoverRunLease(r, o, ttl)
          \/ ClaimNextRecoverableRun(o, ttl)
    BY <1>2 DEF Claim
  <2>2. CASE \E r \in Run : AcquireRunLease(r, o, ttl)
    BY <2>2, ClaimRunLeaseShape DEF AcquireRunLease
  <2>3. CASE \E r \in Forced : RecoverRunLease(r, o, ttl)
    BY <2>3, ClaimRunLeaseShape, ForcedAssumption DEF RecoverRunLease
  <2>4. CASE ClaimNextRecoverableRun(o, ttl)
    BY <2>4, ClaimNextShape
  <2> QED
    BY <2>1, <2>2, <2>3, <2>4
<1>3. ASSUME NEW l \in leases, HoldLease(l) PROVE Shape'
  BY <1>3, RenewShape, ReleaseShape, UpdateStatusShape, CompleteShape DEF HoldLease, Status
<1>4. ASSUME NEW l \in leases, WriteLog(l) PROVE Shape'
  BY <1>4, AppendLlmCallShape, RecordToolResultShape, AppendEventShape, ProposeShape,
     DecideShape DEF WriteLog
<1>5. ASSUME NEW t \in Time, Tick(t) PROVE Shape'
  BY <1>5, TickShape
<1>6. CASE UNCHANGED vars
  BY <1>6, SameRuns, SameEvents, SameCheckpoints, SameTokens DEF vars, Shape
<1> QED
  BY <1>1, <1>2, <1>3, <1>4, <1>5, <1>6 DEF Next

THEOREM ShapeInvariant == Spec => []Shape
<1> QED
  BY InitShape, NextShape, PTL DEF Spec

\* Every column keeps its type, the sequence numbers that wrapped included: a
\* transaction that adds past i32::MAX ends below zero and goes no further.
THEOREM TypeCorrect == Spec => []TypeOK
<1>1. \A e \in Event : SeqOf(e) \in -(MaxSeq + 1) .. MaxSeq
  BY BoundAssumption DEF Event, SeqOf, I32
<1>2. Shape => TypeOK
  BY <1>1 DEF Shape, RunsShape, EventsShape, CheckpointsShape, TokensShape, TypeOK
<1> QED
  BY <1>2, ShapeInvariant, PTL

\* next_event_seq with insert_event: the log of every run is numbered 0, 1, 2,
\* ... without a gap and without a repetition; a number that wrapped is there
\* only in a log that next_event_seq has closed.
THEOREM LogIsContiguous == Spec => []LogContiguous
<1>1. ASSUME Shape, NEW r \in Run
      PROVE  /\ {SeqOf(e) : e \in EventsOf(r)} \cap Nat = 0 .. NextSeq(r) - 1
             /\ \A e, f \in EventsOf(r) : SeqOf(e) = SeqOf(f) => e = f
             /\ \A e \in EventsOf(r) : SeqOf(e) < 0 => NextSeq(r) = MaxSeq + 1
  <2>1. PICK n : n = LogLength(r)
    OBVIOUS
  <2>2. n \in Nat /\ Places(r) = 0 .. n - 1
    BY <1>1, <2>1, LogLengthNat DEF Shape, EventsShape
  <2>3. NextSeq(r) = IF n <= MaxSeq THEN n ELSE MaxSeq + 1
    BY <1>1, <2>1, NextSeqIs DEF Shape
  <2>4. \A e \in EventsOf(r) : e.place \in 0 .. 2 * MaxSeq + 1 /\ e.place < n
    BY <1>1, <2>2 DEF EventsOf, Shape, EventsShape, Event, Places
  <2>5. \A p \in 0 .. n - 1 : \E e \in EventsOf(r) : e.place = p
    BY <2>2 DEF Places
  <2>6. \A e \in EventsOf(r) :
            SeqOf(e) = IF e.place <= MaxSeq THEN e.place ELSE e.place - 2 * (MaxSeq + 1)
    BY <2>4, BoundAssumption DEF SeqOf, I32
  <2>7. \A e \in EventsOf(r) : SeqOf(e) \in Nat => SeqOf(e) \in 0 .. NextSeq(r) - 1
    BY <2>2, <2>3, <2>4, <2>6, BoundAssumption
  <2>8. \A p \in 0 .. NextSeq(r) - 1 : \E e \in EventsOf(r) : SeqOf(e) = p
    BY <2>2, <2>3, <2>5, <2>6, BoundAssumption
  <2>9. \A e, f \in EventsOf(r) : SeqOf(e) = SeqOf(f) => e.place = f.place
    BY <2>4, <2>6, BoundAssumption
  <2>10. \A e, f \in EventsOf(r) : e.place = f.place => e = f
    BY <1>1 DEF Shape, EventsShape, PlacesUnique, EventsOf
  <2>11. \A e \in EventsOf(r) : SeqOf(e) < 0 => NextSeq(r) = MaxSeq + 1
    BY <2>2, <2>3, <2>4, <2>6, BoundAssumption
  <2>12. {SeqOf(e) : e \in EventsOf(r)} \cap Nat = 0 .. NextSeq(r) - 1
    BY <2>7, <2>8, <2>3, <2>2, BoundAssumption
  <2> QED
    BY <2>9, <2>10, <2>11, <2>12
<1>2. Shape => LogContiguous
  BY <1>1, Zenon DEF LogContiguous
<1> QED
  BY <1>2, ShapeInvariant, PTL

-----------------------------------------------------------------------------
(* Fencing.  What a step may do is summed up in three facts: about the row of *)
(* a run, about the tokens handed out, and about the log.                     *)

RowStep(r) ==
    /\ runs'[r].epoch \in {runs[r].epoch, runs[r].epoch + 1}
    /\ runs[r].status \in Terminal => runs'[r] = runs[r]
    /\ runs'[r].status \in Terminal => runs'[r].owner = NoOwner

TokenStep ==
    \/ UNCHANGED leases
    \/ \E r \in Run, o \in Owner :
           /\ runs'[r].epoch = runs[r].epoch + 1
           /\ leases' = leases \cup {[run |-> r, owner |-> o, epoch |-> runs'[r].epoch]}

LogStepOf(r, rows) ==
    /\ events' = events \cup rows
    /\ runs[r].status \notin Terminal
    /\ \A e \in rows :
        /\ e.run = r /\ e.place >= LogLength(r) /\ e.writer = runs'[r].epoch
        /\ e.payload.to = "completed" => runs'[r].status = "completed" /\ rows = {e}

LogStep == UNCHANGED events \/ \E r \in Run : \E rows : LogStepOf(r, rows)

\* The epochs seen in the log have been reached, and only a completed run has a
\* completion in its log.
WritersReached == \A e \in events : e.writer <= runs[e.run].epoch
CompletionMarks == \A e \in events : e.payload.to = "completed" => runs[e.run].status = "completed"

Fenced == /\ EpochsUnique /\ TerminalOwnerless /\ EpochFencing
          /\ WritersReached /\ CompletionMarks /\ NothingAfterCompletion

FencedShape == Shape /\ Fenced

LEMMA GrantStep ==
    ASSUME Shape, TerminalOwnerless, NEW r \in Run, NEW o \in Owner, NEW ttl \in Ttl,
           NEW status, status \notin Terminal, runs[r].status \notin Terminal,
           GrantLease(r, o, ttl, status)
    PROVE  /\ \A s \in Run : RowStep(s)
           /\ TokenStep
           /\ runs'[r].epoch = runs[r].epoch + 1
<1>1. /\ runs \in [Run -> RunRow]
      /\ \A s \in Run : runs[s] \in RunRow /\ runs[s].epoch \in Int
  BY BoundAssumption DEF Shape, RunsShape, RunRow
<1>2. runs' = [runs EXCEPT ![r].status = status, ![r].owner = o,
                           ![r].epoch = @ + 1, ![r].expires = now + ttl,
                           ![r].released = 0]
  BY DEF GrantLease
<1>3. /\ runs'[r].epoch = runs[r].epoch + 1 /\ runs'[r].status = status
      /\ \A s \in Run \ {r} : runs'[s] = runs[s]
  BY <1>1, <1>2 DEF RunRow
<1>4. ASSUME NEW s \in Run PROVE RowStep(s)
  BY <1>1, <1>3 DEF RowStep, TerminalOwnerless
<1>5. TokenStep
  BY <1>3 DEF TokenStep, GrantLease
<1> QED
  BY <1>3, <1>4, <1>5

\* A run whose lease can be presented is not terminal.
LEMMA LeasedNotTerminal ==
    ASSUME Shape, TerminalOwnerless, NEW l \in leases, runs[l.run].owner = l.owner
    PROVE  l.run \in Run /\ runs[l.run].status \notin Terminal
  BY LeasedRun, OwnerAssumption DEF TerminalOwnerless

\* A step that only touches the row of a leased run, and not its epoch.
LEMMA LeasedStep ==
    ASSUME Shape, TerminalOwnerless, NEW l \in leases, runs[l.run].owner = l.owner,
           NEW row, runs' = [runs EXCEPT ![l.run] = row],
           row.epoch = runs[l.run].epoch,
           row.status \in Terminal => row.owner = NoOwner
    PROVE  \A s \in Run : RowStep(s)
<1>1. l.run \in Run /\ runs[l.run].status \notin Terminal
  BY LeasedNotTerminal
<1>2. /\ runs'[l.run] = row
      /\ \A s \in Run \ {l.run} : runs'[s] = runs[s]
  BY <1>1 DEF Shape, RunsShape
<1> QED
  BY <1>1, <1>2 DEF RowStep, TerminalOwnerless

\* Author, number and effect on the status of the rows a transaction builds.
LEMMA TransitionRowBy ==
    ASSUME NEW r, NEW seq, NEW from, NEW to, NEW w
    PROVE  LET row == TransitionRow(r, seq, from, to, w)
           IN  row.run = r /\ row.place = seq /\ row.writer = w /\ row.payload.to = to
  BY DEF TransitionRow, EventRow, NoPayload

\* A row the holder of l may append: next in the log, and no status change.
OwnRow(l, e) == /\ e.run = l.run /\ e.place >= LogLength(l.run)
                /\ e.writer = l.epoch /\ e.payload.to = ""

LEMMA IntentRowOwn ==
    ASSUME NEW l, NEW seq, seq >= LogLength(l.run), NEW call, NEW count
    PROVE  OwnRow(l, IntentRow(l, seq, call, count))
  BY DEF IntentRow, OwnRow, EventRow, NoPayload

LEMMA ResultRowOwn ==
    ASSUME NEW l, NEW seq, seq >= LogLength(l.run), NEW c, NEW key
    PROVE  OwnRow(l, ResultRow(l, seq, c, key))
  BY DEF ResultRow, OwnRow, EventRow, NoPayload

\* A write under a lease that leaves agent_runs alone.
LEMMA WriteStep ==
    ASSUME Shape, TerminalOwnerless, NEW l \in leases, ValidWritableRunLease(l),
           UNCHANGED <<runs, leases>>, NEW rows, InsertEvents(rows),
           \A e \in rows : OwnRow(l, e)
    PROVE  (\A r \in Run : RowStep(r)) /\ TokenStep /\ LogStep
<1>1. l.run \in Run /\ runs[l.run].status \notin Terminal /\ runs[l.run].epoch = l.epoch
  BY LeasedNotTerminal DEF ValidWritableRunLease, ValidRunLease
<1>2. LogStepOf(l.run, rows)
  BY <1>1 DEF LogStepOf, InsertEvents, OwnRow
<1>3. \A r \in Run : RowStep(r)
  BY DEF RowStep, TerminalOwnerless
<1> QED
  BY <1>1, <1>2, <1>3 DEF LogStep, TokenStep

LEMMA ClaimStep ==
    ASSUME Shape, TerminalOwnerless, Claim
    PROVE  (\A r \in Run : RowStep(r)) /\ TokenStep /\ LogStep
<1>1. PICK o \in Owner, ttl \in Ttl :
        \/ \E r \in Run : AcquireRunLease(r, o, ttl)
        \/ \E r \in Forced : RecoverRunLease(r, o, ttl)
        \/ ClaimNextRecoverableRun(o, ttl)
  BY DEF Claim
<1>2. ASSUME NEW r \in Run, NEW recover \in BOOLEAN, ClaimRunLease(r, o, ttl, recover)
      PROVE  (\A s \in Run : RowStep(s)) /\ TokenStep /\ LogStep
  <2>1. GrantLease(r, o, ttl, runs[r].status) /\ runs[r].status \notin Terminal
    BY <1>2 DEF ClaimRunLease
  <2>2. UNCHANGED events
    BY <1>2 DEF ClaimRunLease
  <2> QED
    BY <2>1, <2>2, GrantStep DEF LogStep
<1>3. CASE ClaimNextRecoverableRun(o, ttl)
  <2>1. PICK r \in Run :
          /\ Recoverable(r)
          /\ GrantLease(r, o, ttl, "running")
          /\ \/ UNCHANGED events
             \/ InsertEvents({TransitionRow(r, NextSeq(r), "pending", "running",
                                            runs[r].epoch + 1)})
    BY <1>3 DEF ClaimNextRecoverableRun
  <2>2. runs[r].status \notin Terminal
    BY <2>1 DEF Recoverable, Claimable, Terminal
  <2>3. /\ \A s \in Run : RowStep(s)
        /\ TokenStep
        /\ runs'[r].epoch = runs[r].epoch + 1
    BY <2>1, <2>2, GrantStep DEF Terminal
  <2>5. ASSUME InsertEvents({TransitionRow(r, NextSeq(r), "pending", "running",
                                           runs[r].epoch + 1)})
        PROVE  LogStep
    <3> DEFINE row == TransitionRow(r, NextSeq(r), "pending", "running", runs[r].epoch + 1)
    <3>1. /\ row.run = r /\ row.place = NextSeq(r)
          /\ row.writer = runs[r].epoch + 1 /\ row.payload.to = "running"
      BY TransitionRowBy
    <3>2. InsertEvents({row})
      BY <2>5
    <3> HIDE DEF row
    <3>3. NextSeq(r) = LogLength(r) /\ LogLength(r) \in Nat
      BY <3>1, <3>2, Numbered, BoundAssumption DEF Shape
    <3>4. LogStepOf(r, {row})
      BY <3>1, <3>2, <3>3, <2>2, <2>3 DEF LogStepOf, InsertEvents
    <3> QED
      BY <3>4 DEF LogStep
  <2> QED
    BY <2>1, <2>3, <2>5 DEF LogStep
<1> QED
  BY <1>1, <1>2, <1>3, ForcedAssumption DEF AcquireRunLease, RecoverRunLease

LEMMA HoldStep ==
    ASSUME Shape, TerminalOwnerless, NEW l \in leases, HoldLease(l)
    PROVE  (\A r \in Run : RowStep(r)) /\ TokenStep /\ LogStep
<1>1. runs[l.run].owner = l.owner /\ runs[l.run].epoch = l.epoch /\ UNCHANGED leases
  BY DEF HoldLease, RenewRunLease, ReleaseRunLease, UpdateRunStatus, CompleteRun,
         ValidWritableRunLease, ValidRunLease
<1>2. /\ l.run \in Run /\ l.epoch \in 1 .. MaxEpoch
      /\ runs[l.run] \in RunRow /\ runs[l.run].status \notin Terminal
  BY <1>1, LeasedRun, LeasedNotTerminal
<1>3. \A row : InsertEvents({row}) /\ row.run = l.run =>
                NextSeq(l.run) = LogLength(l.run) /\ LogLength(l.run) \in Nat
  BY <1>2, Numbered, BoundAssumption DEF Shape
<1>4. TokenStep
  BY <1>1 DEF TokenStep
<1>5. ASSUME NEW ttl \in Ttl, RenewRunLease(l, ttl)
      PROVE  (\A r \in Run : RowStep(r)) /\ LogStep
  <2>1. runs' = [runs EXCEPT ![l.run] = [@ EXCEPT !.expires = now + ttl]]
    BY <1>5 DEF RenewRunLease
  <2> QED
    BY <1>1, <1>2, <1>5, <2>1, LeasedStep DEF RenewRunLease, LogStep, RunRow
<1>6. ASSUME ReleaseRunLease(l) PROVE (\A r \in Run : RowStep(r)) /\ LogStep
  <2>1. runs' = [runs EXCEPT ![l.run] = [@ EXCEPT !.owner = NoOwner, !.expires = 0,
                                                  !.released = l.epoch]]
    BY <1>6 DEF ReleaseRunLease
  <2> QED
    BY <1>1, <1>2, <1>6, <2>1, LeasedStep DEF ReleaseRunLease, LogStep, RunRow
<1>7. ASSUME UpdateRunStatus(l, "running") PROVE (\A r \in Run : RowStep(r)) /\ LogStep
  <2> DEFINE row == TransitionRow(l.run, NextSeq(l.run), runs[l.run].status, "running", l.epoch)
  <2>1. runs' = [runs EXCEPT ![l.run] = [@ EXCEPT !.status = "running"]]
    BY <1>7 DEF UpdateRunStatus
  <2>2. /\ row.run = l.run /\ row.place = NextSeq(l.run)
        /\ row.writer = l.epoch /\ row.payload.to = "running"
    BY TransitionRowBy
  <2>3. InsertEvents({row})
    BY <1>7 DEF UpdateRunStatus
  <2>4. runs'[l.run].epoch = l.epoch
    BY <2>1, <1>1, <1>2 DEF Shape, RunsShape, RunRow
  <2> HIDE DEF row
  <2>5. LogStepOf(l.run, {row})
    BY <1>2, <1>3, <2>2, <2>3, <2>4 DEF LogStepOf, InsertEvents
  <2>6. \A r \in Run : RowStep(r)
    BY <1>1, <1>2, <2>1, LeasedStep DEF RunRow, Terminal
  <2> QED
    BY <1>2, <2>5, <2>6 DEF LogStep
<1>8. ASSUME CompleteRun(l) PROVE (\A r \in Run : RowStep(r)) /\ LogStep
  <2> DEFINE row == TransitionRow(l.run, NextSeq(l.run), "running", "completed", l.epoch)
  <2>1. runs' = [runs EXCEPT ![l.run] = [@ EXCEPT !.status = "completed",
                                                  !.owner = NoOwner, !.expires = 0,
                                                  !.released = l.epoch]]
    BY <1>8 DEF CompleteRun
  <2>2. /\ row.run = l.run /\ row.place = NextSeq(l.run)
        /\ row.writer = l.epoch /\ row.payload.to = "completed"
    BY TransitionRowBy
  <2>3. InsertEvents({row})
    BY <1>8 DEF CompleteRun
  <2>4. runs'[l.run].epoch = l.epoch /\ runs'[l.run].status = "completed"
    BY <2>1, <1>1, <1>2 DEF Shape, RunsShape, RunRow
  <2> HIDE DEF row
  <2>5. LogStepOf(l.run, {row})
    BY <1>2, <1>3, <2>2, <2>3, <2>4 DEF LogStepOf, InsertEvents
  <2>6. \A r \in Run : RowStep(r)
    BY <1>1, <1>2, <2>1, LeasedStep DEF RunRow
  <2> QED
    BY <1>2, <2>5, <2>6 DEF LogStep
<1> QED
  BY <1>4, <1>5, <1>6, <1>7, <1>8 DEF HoldLease

\* The rows of a log transaction are rows its lease may append.
LEMMA WriteLogNumbered ==
    ASSUME Shape, NEW l \in leases, WriteLog(l)
    PROVE  NextSeq(l.run) = LogLength(l.run) /\ LogLength(l.run) \in Nat
<1>1. ValidWritableRunLease(l)
  BY DEF WriteLog, AppendLlmCall, RecordToolResult, AppendEvent, ProposeCheckpoint,
         DecideCheckpoint
<1>2. ASSUME NEW place, NEW type, NEW payload, NEW key,
             NEW rows, EventRow(l.run, place, type, payload, key, l.epoch) \in rows,
             InsertEvents(rows)
      PROVE  \E e \in rows : InsertEvents(rows) /\ e.run = l.run
  BY <1>2 DEF EventRow
<1>3. \E rows : \E e \in rows : InsertEvents(rows) /\ e.run = l.run
  <2>1. ASSUME NEW response \in Response, AppendLlmCall(l, response)
        PROVE  \E rows : \E e \in rows : InsertEvents(rows) /\ e.run = l.run
    BY <1>2, <2>1 DEF AppendLlmCall
  <2>2. ASSUME NEW c \in CallId, RecordToolResult(l, c)
        PROVE  \E rows : \E e \in rows : InsertEvents(rows) /\ e.run = l.run
    BY <1>2, <2>2 DEF RecordToolResult, ResultRow
  <2>3. ASSUME NEW raw \in RawEvent, AppendEvent(l, raw)
        PROVE  \E rows : \E e \in rows : InsertEvents(rows) /\ e.run = l.run
    BY <1>2, <2>3 DEF AppendEvent
  <2>4. ASSUME NEW c \in CallId, ProposeCheckpoint(l, c)
        PROVE  \E rows : \E e \in rows : InsertEvents(rows) /\ e.run = l.run
    BY <1>2, <2>4 DEF ProposeCheckpoint
  <2>5. ASSUME NEW id, NEW accepted \in BOOLEAN, DecideCheckpoint(l, id, accepted)
        PROVE  \E rows : \E e \in rows : InsertEvents(rows) /\ e.run = l.run
    BY <1>2, <2>5 DEF DecideCheckpoint
  <2> QED
    BY <2>1, <2>2, <2>3, <2>4, <2>5 DEF WriteLog
<1> QED
  BY <1>1, <1>3, WritableRun, Numbered, BoundAssumption DEF Shape

LEMMA WriteLogRows ==
    ASSUME Shape, NEW l \in leases, WriteLog(l)
    PROVE  \E rows : InsertEvents(rows) /\ \A e \in rows : OwnRow(l, e)
<1>1. ValidWritableRunLease(l)
  BY DEF WriteLog, AppendLlmCall, RecordToolResult, AppendEvent, ProposeCheckpoint,
         DecideCheckpoint
<1>2. PICK seq \in Nat : seq = NextSeq(l.run) /\ seq = LogLength(l.run)
  BY WriteLogNumbered
<1>4. ASSUME NEW response \in Response, AppendLlmCall(l, response)
      PROVE  \E rows : InsertEvents(rows) /\ \A e \in rows : OwnRow(l, e)
  <2>1. PICK n : n = Len(response)
    OBVIOUS
  <2> DEFINE llm == EventRow(l.run, seq, "llm_call", NoPayload, NoKey, l.epoch)
             intents == {IntentRow(l, seq + i, response[i], n) : i \in 1 .. n}
  <2>2. InsertEvents({llm} \cup intents)
    BY <1>4, <1>2, <2>1 DEF AppendLlmCall
  <2>3. OwnRow(l, llm)
    <3>1. NoPayload.to = ""
      BY DEF NoPayload
    <3>2. seq >= LogLength(l.run)
      BY <1>2
    <3> QED
      BY <3>1, <3>2, Zenon DEF OwnRow, EventRow
  <2>4. ASSUME NEW i \in 1 .. n PROVE OwnRow(l, IntentRow(l, seq + i, response[i], n))
    <3>1. seq + i >= LogLength(l.run)
      BY <1>2, <2>1, ResponseAssumption
    <3> QED
      BY <3>1, IntentRowOwn
  <2> QED
    BY <2>2, <2>3, <2>4
<1>5. ASSUME NEW c \in CallId, RecordToolResult(l, c)
      PROVE  \E rows : InsertEvents(rows) /\ \A e \in rows : OwnRow(l, e)
  <2>1. InsertEvents({ResultRow(l, seq, c, CallKey("tool_result", c))})
    BY <1>5, <1>2 DEF RecordToolResult
  <2>2. OwnRow(l, ResultRow(l, seq, c, CallKey("tool_result", c)))
    BY <1>2, ResultRowOwn
  <2> QED
    BY <2>1, <2>2
<1>6. ASSUME NEW raw \in RawEvent, AppendEvent(l, raw)
      PROVE  \E rows : InsertEvents(rows) /\ \A e \in rows : OwnRow(l, e)
  <2>1. PICK payload : payload = [NoPayload EXCEPT !.call = raw.call]
    OBVIOUS
  <2>2. InsertEvents({EventRow(l.run, seq, raw.type, payload, NoKey, l.epoch)})
    BY <1>6, <1>2, <2>1 DEF AppendEvent
  <2>3. OwnRow(l, EventRow(l.run, seq, raw.type, payload, NoKey, l.epoch))
    <3>1. payload.to = ""
      BY <2>1 DEF NoPayload
    <3>2. seq >= LogLength(l.run)
      BY <1>2
    <3> QED
      BY <3>1, <3>2, Zenon DEF OwnRow, EventRow
  <2> QED
    BY <2>2, <2>3
<1>7. ASSUME NEW c \in CallId, ProposeCheckpoint(l, c)
      PROVE  \E rows : InsertEvents(rows) /\ \A e \in rows : OwnRow(l, e)
  <2>1. PICK payload, key : InsertEvents({EventRow(l.run, seq, "checkpoint_proposed",
                                                   payload, key, l.epoch)})
                            /\ payload = [NoPayload EXCEPT !.cp = NextCheckpointId]
    BY <1>7, <1>2 DEF ProposeCheckpoint
  <2>2. OwnRow(l, EventRow(l.run, seq, "checkpoint_proposed", payload, key, l.epoch))
    <3>1. payload.to = ""
      BY <2>1 DEF NoPayload
    <3>2. seq >= LogLength(l.run)
      BY <1>2
    <3> QED
      BY <3>1, <3>2, Zenon DEF OwnRow, EventRow
  <2> QED
    BY <2>1, <2>2
<1>8. ASSUME NEW id, NEW accepted \in BOOLEAN, DecideCheckpoint(l, id, accepted)
      PROVE  \E rows : InsertEvents(rows) /\ \A e \in rows : OwnRow(l, e)
  <2>1. PICK c, payload, key, rkey :
          /\ InsertEvents({EventRow(l.run, seq, VerdictType(accepted), payload, key, l.epoch),
                           ResultRow(l, seq + 1, c.call, rkey)})
          /\ payload = [NoPayload EXCEPT !.cp = id]
    BY <1>8, <1>2 DEF DecideCheckpoint
  <2>2. OwnRow(l, EventRow(l.run, seq, VerdictType(accepted), payload, key, l.epoch))
    <3>1. payload.to = ""
      BY <2>1 DEF NoPayload
    <3>2. seq >= LogLength(l.run)
      BY <1>2
    <3> QED
      BY <3>1, <3>2, Zenon DEF OwnRow, EventRow
  <2>3. seq + 1 >= LogLength(l.run)
    BY <1>2
  <2>4. OwnRow(l, ResultRow(l, seq + 1, c.call, rkey))
    BY <2>3, ResultRowOwn
  <2> QED
    BY <2>1, <2>2, <2>4
<1> QED
  BY <1>4, <1>5, <1>6, <1>7, <1>8 DEF WriteLog

LEMMA WriteLogStep ==
    ASSUME Shape, TerminalOwnerless, NEW l \in leases, WriteLog(l)
    PROVE  (\A r \in Run : RowStep(r)) /\ TokenStep /\ LogStep
<1>1. ValidWritableRunLease(l) /\ UNCHANGED <<runs, leases>>
  BY DEF WriteLog, AppendLlmCall, RecordToolResult, AppendEvent, ProposeCheckpoint,
         DecideCheckpoint
<1> QED
  BY <1>1, WriteLogRows, WriteStep

LEMMA StepSummary ==
    ASSUME Shape, TerminalOwnerless, [Next]_vars
    PROVE  (\A r \in Run : RowStep(r)) /\ TokenStep /\ LogStep
<1>1. ASSUME NEW r \in Run, CreateRun(r)
      PROVE  (\A s \in Run : RowStep(s)) /\ TokenStep /\ LogStep
  <2>1. runs[r] = AbsentRun
    BY <1>1 DEF CreateRun, Shape, RunsShape, AbsentBlank
  <2>2. \A s \in Run : RowStep(s)
    BY <1>1, <2>1 DEF CreateRun, Shape, RunsShape, RowStep, TerminalOwnerless, AbsentRun, Terminal
  <2> QED
    BY <1>1, <2>2 DEF CreateRun, TokenStep, LogStep
<1>2. ASSUME UNCHANGED <<runs, events, leases>>
      PROVE  (\A s \in Run : RowStep(s)) /\ TokenStep /\ LogStep
  BY <1>2 DEF RowStep, TerminalOwnerless, TokenStep, LogStep
<1> QED
  BY <1>1, <1>2, ClaimStep, HoldStep, WriteLogStep DEF Next, Tick, vars

-----------------------------------------------------------------------------
(* The fencing invariant, and what follows from it.                           *)

LEMMA LoggedBefore ==
    ASSUME Shape, NEW e \in events
    PROVE  /\ e.run \in Run /\ e.place \in Nat /\ e.writer \in Nat
           /\ e.place < LogLength(e.run) /\ LogLength(e.run) \in Nat
           /\ runs[e.run].epoch \in Nat
<1>1. e.run \in Run /\ e.place \in Nat /\ e.writer \in Nat
  BY DEF Shape, EventsShape, Event
<1>2. PICK n \in Nat : Places(e.run) = 0 .. n - 1
  BY <1>1 DEF Shape, EventsShape, PlacesInitial
<1>3. e.place \in Places(e.run) /\ LogLength(e.run) = n
  BY <1>1, <1>2, LogLengthIs DEF Places, EventsOf
<1>4. runs[e.run].epoch \in Nat
  BY <1>1, BoundAssumption DEF Shape, RunsShape, RunRow
<1> QED
  BY <1>1, <1>2, <1>3, <1>4

LEMMA TokensStayUnique ==
    ASSUME Shape, EpochsUnique, TokenStep, \A r \in Run : RowStep(r)
    PROVE  EpochsUnique'
<1>1. \A r \in Run : runs[r].epoch \in Nat /\ runs'[r].epoch \in Nat
                     /\ runs[r].epoch <= runs'[r].epoch
  BY BoundAssumption DEF Shape, RunsShape, RunRow, RowStep
<1>2. \A l \in leases : l.run \in Run /\ l.epoch \in Nat
  BY BoundAssumption DEF Shape, TokensShape, Lease
<1>3. CASE UNCHANGED leases
  <2>1. \A l \in leases : l.epoch <= runs'[l.run].epoch
    BY <1>1, <1>2 DEF EpochsUnique
  <2> QED
    BY <1>3, <2>1 DEF EpochsUnique
<1>4. ASSUME NEW r \in Run, NEW o \in Owner,
             runs'[r].epoch = runs[r].epoch + 1,
             leases' = leases \cup {[run |-> r, owner |-> o, epoch |-> runs'[r].epoch]}
      PROVE  EpochsUnique'
  <2>1. PICK token : token = [run |-> r, owner |-> o, epoch |-> runs'[r].epoch]
    OBVIOUS
  <2>2. token.run = r /\ token.epoch = runs'[r].epoch /\ leases' = leases \cup {token}
    BY <1>4, <2>1
  <2>3. \A l \in leases : l.run = r => l.epoch < token.epoch
    BY <1>1, <1>2, <1>4, <2>2 DEF EpochsUnique
  <2>4. \A l \in leases' : l.epoch <= runs'[l.run].epoch
    BY <1>1, <1>2, <2>2 DEF EpochsUnique
  <2>5. \A l, m \in leases' : l.run = m.run /\ l.epoch = m.epoch => l = m
    BY <1>1, <1>2, <2>2, <2>3 DEF EpochsUnique
  <2> QED
    BY <2>4, <2>5 DEF EpochsUnique
<1> QED
  BY <1>3, <1>4 DEF TokenStep

LEMMA LogStaysFenced ==
    ASSUME Shape, Shape', Fenced, \A r \in Run : RowStep(r), LogStep
    PROVE  /\ EpochFencing' /\ WritersReached'
           /\ CompletionMarks' /\ NothingAfterCompletion'
<1>1. \A r \in Run : runs[r].epoch \in Nat /\ runs'[r].epoch \in Nat
                     /\ runs[r].epoch <= runs'[r].epoch
  BY BoundAssumption DEF Shape, RunsShape, RunRow, RowStep
<1>2. \A e \in events : e.writer <= runs'[e.run].epoch
  BY <1>1, LoggedBefore DEF Fenced, WritersReached
<1>3. \A e \in events : e.payload.to = "completed" => runs'[e.run].status = "completed"
  BY LoggedBefore DEF Fenced, CompletionMarks, RowStep, Terminal
<1>4. CASE UNCHANGED events
  BY <1>2, <1>3, <1>4
  DEF Fenced, EpochFencing, WritersReached, CompletionMarks, NothingAfterCompletion
<1>5. ASSUME NEW r \in Run, NEW rows, LogStepOf(r, rows)
      PROVE  /\ EpochFencing' /\ WritersReached'
             /\ CompletionMarks' /\ NothingAfterCompletion'
  <2>1. events' = events \cup rows
    BY <1>5 DEF LogStepOf
  <2>2. \A e \in rows : /\ e.run = r /\ e.place >= LogLength(r)
                        /\ e.writer = runs'[r].epoch
                        /\ e.payload.to = "completed" =>
                               runs'[r].status = "completed" /\ rows = {e}
    BY <1>5 DEF LogStepOf
  <2>3. \A e \in rows : e.place \in Nat
    BY <2>1 DEF Shape, EventsShape, Event
  <2>4. \A e \in rows, f \in events : f.run = r => f.place < e.place
    BY <2>2, <2>3, LoggedBefore
  <2>5. WritersReached'
    BY <1>1, <1>2, <2>1, <2>2 DEF WritersReached
  <2>6. CompletionMarks'
    BY <1>3, <2>1, <2>2 DEF CompletionMarks
  <2>7. EpochFencing'
    <3> SUFFICES ASSUME NEW e \in events', NEW f \in events',
                        e.run = f.run, e.place < f.place
                 PROVE  e.writer <= f.writer
      BY DEF EpochFencing
    <3>1. CASE e \in events /\ f \in events
      BY <3>1 DEF Fenced, EpochFencing
    <3>2. CASE e \in events /\ f \in rows
      BY <3>2, <1>2, <2>2
    <3>3. CASE e \in rows /\ f \in events
      BY <3>3, <2>2, <2>3, <2>4, LoggedBefore
    <3>4. CASE e \in rows /\ f \in rows
      BY <3>4, <2>2, <1>1
    <3> QED
      BY <2>1, <3>1, <3>2, <3>3, <3>4
  <2>8. NothingAfterCompletion'
    <3> SUFFICES ASSUME NEW e \in events', NEW f \in events',
                        e.run = f.run, e.payload.to = "completed"
                 PROVE  f.place <= e.place
      BY DEF NothingAfterCompletion
    <3>1. CASE e \in events /\ f \in events
      BY <3>1 DEF Fenced, NothingAfterCompletion
    <3>2. CASE e \in events /\ f \in rows
      BY <3>2, <1>5, <2>2 DEF Fenced, CompletionMarks, LogStepOf, Terminal
    <3>3. CASE e \in rows /\ f \in events
      BY <3>3, <2>2, <2>3, <2>4, LoggedBefore
    <3>4. CASE e \in rows /\ f \in rows
      BY <3>4, <2>2, <2>3
    <3> QED
      BY <2>1, <3>1, <3>2, <3>3, <3>4
  <2> QED
    BY <2>5, <2>6, <2>7, <2>8
<1> QED
  BY <1>4, <1>5 DEF LogStep

THEOREM FencedInvariant == Spec => []FencedShape
<1>1. Init => Fenced
  BY DEF Init, Fenced, EpochsUnique, TerminalOwnerless, EpochFencing, WritersReached,
         CompletionMarks, NothingAfterCompletion, AbsentRun, Terminal
<1>2. ASSUME FencedShape, [Next]_vars PROVE FencedShape'
  <2>1. Shape'
    BY <1>2, NextShape DEF FencedShape
  <2>2. (\A r \in Run : RowStep(r)) /\ TokenStep /\ LogStep
    BY <1>2, StepSummary DEF FencedShape, Fenced
  <2>3. TerminalOwnerless'
    BY <2>2 DEF RowStep, TerminalOwnerless
  <2>4. EpochsUnique'
    BY <1>2, <2>2, TokensStayUnique DEF FencedShape, Fenced
  <2>5. EpochFencing' /\ WritersReached' /\ CompletionMarks' /\ NothingAfterCompletion'
    BY <1>2, <2>1, <2>2, LogStaysFenced DEF FencedShape
  <2> QED
    BY <2>1, <2>3, <2>4, <2>5 DEF FencedShape, Fenced
<1> QED
  BY <1>1, <1>2, InitShape, PTL DEF Spec, FencedShape

\* No two claims of a run are ever given the same fencing token.
THEOREM TokensAreUnique == Spec => []EpochsUnique
  BY FencedInvariant, PTL DEF FencedShape, Fenced

\* A completed run has no owner, whoever still holds a lease on it.
THEOREM TerminalRunsAreOwnerless == Spec => []TerminalOwnerless
  BY FencedInvariant, PTL DEF FencedShape, Fenced

\* Writes of a run are in the order of the epochs that made them: once a newer
\* owner has written, no fenced context writes again.
THEOREM StaleOwnersAreFenced == Spec => []EpochFencing
  BY FencedInvariant, PTL DEF FencedShape, Fenced

\* The completion of a run is the last event of its log.
THEOREM CompletionIsLast == Spec => []NothingAfterCompletion
  BY FencedInvariant, PTL DEF FencedShape, Fenced

-----------------------------------------------------------------------------
(* What a step may never do.                                                  *)

\* Every write to checkpoints adds a candidate or decides one, in a run whose
\* lease is valid.
LEMMA CheckpointStep ==
    ASSUME [Next]_vars
    PROVE  \/ UNCHANGED checkpoints
           \/ \E l \in leases : \E row :
                  /\ runs[l.run].owner = l.owner
                  /\ row.run = l.run
                  /\ \/ checkpoints' = checkpoints \cup {row}
                     \/ \E c \in checkpoints : /\ c.status = "candidate"
                                               /\ checkpoints' = (checkpoints \ {c}) \cup {row}
<1>1. ASSUME NEW l \in leases, NEW c \in CallId, ProposeCheckpoint(l, c)
      PROVE  \E row : /\ runs[l.run].owner = l.owner /\ row.run = l.run
                      /\ checkpoints' = checkpoints \cup {row}
  <2>1. runs[l.run].owner = l.owner
    BY <1>1 DEF ProposeCheckpoint, ValidWritableRunLease, ValidRunLease
  <2> DEFINE row == [id |-> NextCheckpointId, run |-> l.run, round |-> NextRound(l.run),
                     call |-> c, based_on |-> NextSeq(l.run) - 1, decision |-> NoSeq,
                     status |-> "candidate"]
  <2>2. checkpoints' = checkpoints \cup {row}
    BY <1>1 DEF ProposeCheckpoint, InsertCheckpoint
  <2>3. row.run = l.run
    OBVIOUS
  <2> QED
    BY <2>1, <2>2, <2>3
<1>2. ASSUME NEW l \in leases, NEW id, NEW accepted \in BOOLEAN,
             DecideCheckpoint(l, id, accepted)
      PROVE  \E row : \E c \in checkpoints :
                 /\ runs[l.run].owner = l.owner /\ row.run = l.run
                 /\ c.status = "candidate"
                 /\ checkpoints' = (checkpoints \ {c}) \cup {row}
  <2>1. runs[l.run].owner = l.owner
    BY <1>2 DEF DecideCheckpoint, ValidWritableRunLease, ValidRunLease
  <2>2. PICK c \in Candidates(l.run) :
          checkpoints' = (checkpoints \ {c}) \cup
              {[c EXCEPT !.status = Verdict(accepted), !.decision = NextSeq(l.run)]}
    BY <1>2 DEF DecideCheckpoint
  <2>3. c \in checkpoints /\ c.status = "candidate" /\ c.run = l.run
    BY DEF Candidates, CheckpointsOf
  <2>4. [c EXCEPT !.status = Verdict(accepted), !.decision = NextSeq(l.run)].run = l.run
    BY <2>3
  <2> QED
    BY <2>1, <2>2, <2>3, <2>4
<1>3. ASSUME NEW l \in leases, WriteLog(l) PROVE
        \/ UNCHANGED checkpoints
        \/ \E c \in CallId : ProposeCheckpoint(l, c)
        \/ \E id : \E accepted \in BOOLEAN : DecideCheckpoint(l, id, accepted)
  BY <1>3 DEF WriteLog, AppendLlmCall, RecordToolResult, AppendEvent
<1>4. CASE UNCHANGED vars
  BY <1>4 DEF vars
<1>5. CASE Claim
  BY <1>5 DEF Claim, AcquireRunLease, RecoverRunLease, ClaimRunLease, ClaimNextRecoverableRun
<1>6. ASSUME NEW l \in leases, HoldLease(l) PROVE UNCHANGED checkpoints
  BY <1>6 DEF HoldLease, RenewRunLease, ReleaseRunLease, UpdateRunStatus, CompleteRun
<1> QED
  BY <1>1, <1>2, <1>3, <1>4, <1>5, <1>6 DEF Next, CreateRun, Tick

\* The event log is append-only and a verifier's decision is never revised.
THEOREM LogIsAppendOnly == Spec => AppendOnly
<1>1. ASSUME FencedShape, [Next]_vars
      PROVE  [/\ events \subseteq events'
              /\ \A c \in checkpoints : c.status # "candidate" => c \in checkpoints']_vars
  <2>1. LogStep
    BY <1>1, StepSummary DEF FencedShape, Fenced
  <2>2. events \subseteq events'
    BY <2>1 DEF LogStep, LogStepOf
  <2>3. \A c \in checkpoints : c.status # "candidate" => c \in checkpoints'
    BY <1>1, CheckpointStep
  <2> QED
    BY <2>2, <2>3
<1> QED
  BY <1>1, FencedInvariant, PTL DEF Spec, AppendOnly

\* A terminal run is beyond the reach of every operation, whatever lease is
\* presented and however late.
THEOREM TerminalRunsAreFinal == Spec => TerminalFinal
<1>1. ASSUME FencedShape, [Next]_vars
      PROVE  \A r \in Run : runs[r].status \in Terminal =>
                 /\ runs'[r] = runs[r]
                 /\ \A e \in events' \ events : e.run # r
                 /\ \A c \in checkpoints' \ checkpoints : c.run # r
  <2> SUFFICES ASSUME NEW r \in Run, runs[r].status \in Terminal
               PROVE  /\ runs'[r] = runs[r]
                      /\ \A e \in events' \ events : e.run # r
                      /\ \A c \in checkpoints' \ checkpoints : c.run # r
    OBVIOUS
  <2>1. (\A s \in Run : RowStep(s)) /\ LogStep
    BY <1>1, StepSummary DEF FencedShape, Fenced
  <2>2. runs'[r] = runs[r]
    BY <2>1 DEF RowStep
  <2>3. \A e \in events' \ events : e.run # r
    BY <2>1 DEF LogStep, LogStepOf
  <2>4. \A l \in leases : runs[l.run].owner = l.owner => l.run # r
    BY <1>1, LeasedNotTerminal DEF FencedShape, Fenced
  <2>5. \A c \in checkpoints' \ checkpoints : c.run # r
    BY <1>1, <2>4, CheckpointStep
  <2> QED
    BY <2>2, <2>3, <2>5
<1> QED
  BY <1>1, FencedInvariant, PTL DEF Spec, TerminalFinal

\* What a step may do to the owner of an active lease
StaysHeld(r) == \/ runs'[r].owner = runs[r].owner
                \/ runs'[r].owner = NoOwner /\ runs'[r].released = runs[r].epoch

\* Only an operator's recovery takes an unexpired lease from its owner, and only
\* the lease itself, presented for release or completion, gives it up.
THEOREM ActiveLeasesAreHeld == Spec => ActiveLeaseHeld
<1>1. ASSUME FencedShape, [Next]_vars, NEW r \in Run \ Forced, Active(r)
      PROVE  /\ runs'[r].epoch = runs[r].epoch
             /\ StaysHeld(r)
  <2>1. runs \in [Run -> RunRow] /\ now \in Nat /\ runs[r].expires \in Nat
    BY <1>1, ClockAssumption, BoundAssumption
    DEF FencedShape, Shape, RunsShape, TokensShape, RunRow
  <2>2. ASSUME NEW s \in Run, NEW o, NEW ttl, NEW status, s # r, GrantLease(s, o, ttl, status)
        PROVE  runs'[r] = runs[r]
    BY <2>1, <2>2 DEF GrantLease
  <2>3. ~Recoverable(r)
    BY <1>1, <2>1 DEF Active, Recoverable
  <2>4. CASE Claim
    <3>1. PICK o \in Owner, ttl \in Ttl :
            \/ \E s \in Run : AcquireRunLease(s, o, ttl)
            \/ \E s \in Forced : RecoverRunLease(s, o, ttl)
            \/ ClaimNextRecoverableRun(o, ttl)
      BY <2>4 DEF Claim
    <3>2. \E s \in Run : \E status : s # r /\ GrantLease(s, o, ttl, status)
      BY <1>1, <2>3, <3>1, ForcedAssumption
      DEF AcquireRunLease, RecoverRunLease, ClaimRunLease, ClaimNextRecoverableRun, Active
    <3> QED
      BY <2>2, <3>2 DEF StaysHeld
  <2>5. ASSUME NEW s \in Run, CreateRun(s) PROVE runs'[r] = runs[r]
    <3>1. s # r
      BY <1>1, <2>5 DEF CreateRun, Active, FencedShape, Shape, RunsShape, AbsentBlank, AbsentRun
    <3> QED
      BY <2>1, <2>5, <3>1 DEF CreateRun
  <2>6. ASSUME NEW l \in leases, HoldLease(l)
        PROVE  /\ runs'[r].epoch = runs[r].epoch
               /\ StaysHeld(r)
    <3>1. runs[r] \in RunRow
      BY <1>1, <2>1
    <3>2. ASSUME NEW ttl, RenewRunLease(l, ttl)
          PROVE  /\ runs'[r].epoch = runs[r].epoch
                 /\ StaysHeld(r)
      BY <2>1, <3>1, <3>2 DEF RenewRunLease, RunRow, StaysHeld
    <3>3. CASE ReleaseRunLease(l)
      BY <2>1, <3>1, <3>3 DEF ReleaseRunLease, RunRow, StaysHeld
    <3>4. CASE UpdateRunStatus(l, "running")
      BY <2>1, <3>1, <3>4 DEF UpdateRunStatus, RunRow, StaysHeld
    <3>5. CASE CompleteRun(l)
      BY <2>1, <3>1, <3>5 DEF CompleteRun, RunRow, StaysHeld
    <3> QED
      BY <2>6, <3>2, <3>3, <3>4, <3>5 DEF HoldLease
  <2>7. ASSUME NEW l \in leases, WriteLog(l) PROVE runs' = runs
    BY <2>7 DEF WriteLog, AppendLlmCall, RecordToolResult, AppendEvent, ProposeCheckpoint,
                DecideCheckpoint
  <2> QED
    BY <1>1, <2>4, <2>5, <2>6, <2>7 DEF Next, Tick, vars, StaysHeld
<1>2. FencedShape /\ [Next]_vars =>
          [\A r \in Run \ Forced : Active(r) =>
               /\ runs'[r].epoch = runs[r].epoch
               /\ \/ runs'[r].owner = runs[r].owner
                  \/ runs'[r].owner = NoOwner /\ runs'[r].released = runs[r].epoch]_vars
  BY <1>1 DEF StaysHeld
<1> QED
  BY <1>2, FencedInvariant, PTL DEF Spec, ActiveLeaseHeld

-----------------------------------------------------------------------------
(* Checkpoints and the log.  A row that names a checkpoint is written only by *)
(* the two transactions that touch the checkpoint in the same run.            *)

Kept == \A c \in checkpoints : \E d \in checkpoints' : d.id = c.id /\ d.run = c.run
Named(rows) == \A e \in rows : e.payload.cp # 0 =>
                   \E c \in checkpoints' : c.id = e.payload.cp /\ c.run = e.run
NamedStep == UNCHANGED events \/ \E rows : InsertEvents(rows) /\ Named(rows)

\* Which run and checkpoint a row names.
LEMMA RowNames ==
    ASSUME NEW r, NEW seq, NEW type, NEW payload, NEW key, NEW w
    PROVE  LET e == EventRow(r, seq, type, payload, key, w)
           IN  e.run = r /\ e.payload = payload
  BY DEF EventRow

LEMMA ResultNames ==
    ASSUME NEW l, NEW seq, NEW c, NEW key
    PROVE  ResultRow(l, seq, c, key).payload.cp = 0
<1>1. PICK payload : payload = [NoPayload EXCEPT !.call = c]
  OBVIOUS
<1>2. payload.cp = 0
  BY <1>1 DEF NoPayload
<1>3. PICK row : row = EventRow(l.run, seq, "tool_result", payload, key, l.epoch)
  OBVIOUS
<1>4. row.payload.cp = 0
  BY <1>2, <1>3, RowNames
<1> QED
  BY <1>1, <1>3, <1>4, Zenon DEF ResultRow

LEMMA ProposeNamed ==
    ASSUME NEW l \in leases, NEW c \in CallId, ProposeCheckpoint(l, c)
    PROVE  Kept /\ NamedStep
<1>1. PICK id : id = NextCheckpointId
  OBVIOUS
<1>2. PICK payload : payload = [NoPayload EXCEPT !.cp = id]
  OBVIOUS
<1>3. PICK seq, key : InsertEvents({EventRow(l.run, seq, "checkpoint_proposed",
                                             payload, key, l.epoch)})
  BY <1>1, <1>2 DEF ProposeCheckpoint
<1> DEFINE row == [id |-> id, run |-> l.run, round |-> NextRound(l.run),
                   call |-> c, based_on |-> NextSeq(l.run) - 1, decision |-> NoSeq,
                   status |-> "candidate"]
           event == EventRow(l.run, seq, "checkpoint_proposed", payload, key, l.epoch)
<1>4. checkpoints' = checkpoints \cup {row}
  BY <1>1 DEF ProposeCheckpoint, InsertCheckpoint
<1>5. row.id = id /\ row.run = l.run
  OBVIOUS
<1>6. payload.cp = id
  BY <1>2 DEF NoPayload
<1>7. event.run = l.run /\ event.payload.cp = id
  BY <1>6, RowNames
<1> HIDE DEF row, event
<1>8. Named({event})
  BY <1>4, <1>5, <1>7 DEF Named
<1>9. Kept
  BY <1>4 DEF Kept
<1> QED
  BY <1>3, <1>8, <1>9 DEF NamedStep, event

LEMMA DecideNamed ==
    ASSUME NEW l \in leases, NEW id, NEW accepted \in BOOLEAN, DecideCheckpoint(l, id, accepted)
    PROVE  Kept /\ NamedStep
<1>1. PICK payload : payload = [NoPayload EXCEPT !.cp = id]
  OBVIOUS
<1>2. PICK c, seq, type, key, after, rkey :
        /\ c \in Candidates(l.run) /\ c.id = id
        /\ checkpoints' = (checkpoints \ {c}) \cup
               {[c EXCEPT !.status = Verdict(accepted), !.decision = seq]}
        /\ InsertEvents({EventRow(l.run, seq, type, payload, key, l.epoch),
                         ResultRow(l, after, c.call, rkey)})
  BY <1>1 DEF DecideCheckpoint
<1>3. c.id = id /\ c.run = l.run
  BY <1>2 DEF Candidates, CheckpointsOf
<1> DEFINE row == [c EXCEPT !.status = Verdict(accepted), !.decision = seq]
<1>4. row.id = id /\ row.run = l.run
  BY <1>3
<1>5. checkpoints' = (checkpoints \ {c}) \cup {row}
  BY <1>2
<1>6. payload.cp = id
  BY <1>1 DEF NoPayload
<1> DEFINE verdict == EventRow(l.run, seq, type, payload, key, l.epoch)
           result == ResultRow(l, after, c.call, rkey)
<1>7. /\ verdict.run = l.run /\ verdict.payload.cp = id
      /\ result.payload.cp = 0
  BY <1>6, RowNames, ResultNames
<1>8. InsertEvents({verdict, result})
  BY <1>2
<1> HIDE DEF row, verdict, result
<1>9. Named({verdict, result})
  BY <1>4, <1>5, <1>7 DEF Named
<1>10. Kept
  BY <1>3, <1>4, <1>5 DEF Kept
<1> QED
  BY <1>8, <1>9, <1>10 DEF NamedStep

LEMMA StepNamed ==
    ASSUME [Next]_vars
    PROVE  Kept /\ NamedStep
<1>1. ASSUME UNCHANGED checkpoints PROVE Kept
  BY <1>1 DEF Kept
<1>2. ASSUME UNCHANGED <<events, checkpoints>> PROVE Kept /\ NamedStep
  BY <1>1, <1>2 DEF NamedStep
<1>3. ASSUME NEW r, NEW seq, NEW from, NEW to, NEW w, UNCHANGED checkpoints,
             InsertEvents({TransitionRow(r, seq, from, to, w)})
      PROVE  Kept /\ NamedStep
  <2>1. TransitionRow(r, seq, from, to, w).payload.cp = 0
    BY DEF TransitionRow, EventRow, NoPayload
  <2> QED
    BY <1>1, <1>3, <2>1 DEF NamedStep, Named
<1>4. ASSUME Claim PROVE Kept /\ NamedStep
  BY <1>2, <1>3, <1>4 DEF Claim, AcquireRunLease, RecoverRunLease, ClaimRunLease,
                          ClaimNextRecoverableRun
<1>5. ASSUME NEW l \in leases, HoldLease(l) PROVE Kept /\ NamedStep
  BY <1>2, <1>3, <1>5 DEF HoldLease, RenewRunLease, ReleaseRunLease, UpdateRunStatus, CompleteRun
<1>6. ASSUME NEW l \in leases, NEW response \in Response, AppendLlmCall(l, response)
      PROVE  Kept /\ NamedStep
  <2>1. PICK seq, n : seq = NextSeq(l.run) /\ n = Len(response)
    OBVIOUS
  <2> DEFINE llm == EventRow(l.run, seq, "llm_call", NoPayload, NoKey, l.epoch)
             intents == {IntentRow(l, seq + i, response[i], n) : i \in 1 .. n}
  <2>2. InsertEvents({llm} \cup intents) /\ UNCHANGED checkpoints
    BY <1>6, <2>1 DEF AppendLlmCall
  <2>3. llm.payload.cp = 0
    <3>1. NoPayload.cp = 0
      BY DEF NoPayload
    <3>2. llm.payload = NoPayload
      BY RowNames
    <3> QED
      BY <3>1, <3>2, Zenon
  <2>4. ASSUME NEW i, NEW call PROVE IntentRow(l, i, call, n).payload.cp = 0
    BY DEF IntentRow, EventRow, NoPayload
  <2> HIDE DEF llm
  <2>5. \A e \in {llm} \cup intents : e.payload.cp = 0
    BY <2>3, <2>4
  <2> HIDE DEF intents
  <2> QED
    BY <1>1, <2>2, <2>5 DEF NamedStep, Named
<1>7. ASSUME NEW l \in leases, NEW c \in CallId, RecordToolResult(l, c)
      PROVE  Kept /\ NamedStep
  <2>1. PICK seq, key : InsertEvents({ResultRow(l, seq, c, key)})
    BY <1>7 DEF RecordToolResult
  <2>2. ResultRow(l, seq, c, key).payload.cp = 0
    BY ResultNames
  <2>3. UNCHANGED checkpoints
    BY <1>7 DEF RecordToolResult
  <2> QED
    BY <1>1, <2>1, <2>2, <2>3 DEF NamedStep, Named
<1>8. ASSUME NEW l \in leases, NEW raw \in RawEvent, AppendEvent(l, raw)
      PROVE  Kept /\ NamedStep
  <2>1. PICK payload : payload = [NoPayload EXCEPT !.call = raw.call]
    OBVIOUS
  <2>2. PICK seq, type : InsertEvents({EventRow(l.run, seq, type, payload, NoKey, l.epoch)})
    BY <1>8, <2>1 DEF AppendEvent
  <2>3. payload.cp = 0
    BY <2>1 DEF NoPayload
  <2>4. PICK row : /\ row = EventRow(l.run, seq, type, payload, NoKey, l.epoch)
                   /\ row.payload = payload
    BY RowNames
  <2>5. InsertEvents({row}) /\ UNCHANGED checkpoints
    BY <1>8, <2>2, <2>4 DEF AppendEvent
  <2> QED
    BY <1>1, <2>3, <2>4, <2>5 DEF NamedStep, Named
<1>9. ASSUME NEW l \in leases, WriteLog(l) PROVE Kept /\ NamedStep
  BY <1>6, <1>7, <1>8, <1>9, ProposeNamed, DecideNamed DEF WriteLog
<1>10. ASSUME NEW r \in Run, CreateRun(r) PROVE Kept /\ NamedStep
  BY <1>2, <1>10 DEF CreateRun
<1> QED
  BY <1>2, <1>4, <1>5, <1>9, <1>10 DEF Next, Tick, vars

\* No run's log names a checkpoint of another run: the lease of one run cannot
\* decide the candidate of another, although the ids are the table's.
THEOREM CheckpointsStay == Spec => []CheckpointsStayInRun
<1>1. Init => CheckpointsStayInRun
  BY DEF Init, CheckpointsStayInRun
<1>2. ASSUME CheckpointsStayInRun, [Next]_vars PROVE CheckpointsStayInRun'
  <2>1. Kept /\ NamedStep
    BY <1>2, StepNamed
  <2>2. ASSUME NEW e \in events, e.payload.cp # 0
        PROVE  \E c \in checkpoints' : c.id = e.payload.cp /\ c.run = e.run
    BY <1>2, <2>1, <2>2 DEF CheckpointsStayInRun, Kept
  <2>3. ASSUME NEW rows, InsertEvents(rows), Named(rows), NEW e \in events', e.payload.cp # 0
        PROVE  \E c \in checkpoints' : c.id = e.payload.cp /\ c.run = e.run
    BY <2>2, <2>3 DEF InsertEvents, Named
  <2> QED
    BY <2>1, <2>2, <2>3 DEF NamedStep, CheckpointsStayInRun
<1> QED
  BY <1>1, <1>2, PTL DEF Spec

=============================================================================

-------------------------------- MODULE Jobs --------------------------------
(***************************************************************************)
(* The persistent job engine: JobService (apps/api/src/jobs.ts) on top of  *)
(* SqliteJobRepository (packages/db/src/index.ts) and the indexes of       *)
(* migration 0006.                                                         *)
(*                                                                         *)
(* The step of this module is the database transaction.  A state change is *)
(* two of them: JobService.transition reads the row and checks the         *)
(* transition table, then the repository updates the row on condition that *)
(* its state is still the one read, and appends the state event in the     *)
(* same transaction.  Clients are the users of the repository whose reads  *)
(* and writes interleave at that granularity: every feature of the API     *)
(* opens a connection of its own to the one database file, and so does an  *)
(* API process that is still closing when its successor starts.            *)
(*                                                                         *)
(* The target and the kind of a job never change after the insert, so they *)
(* are functions of the job.                                               *)
(***************************************************************************)
EXTENDS JobStates, Naturals, Sequences

CONSTANTS
    Jobs,       \* job identifiers
    Targets,    \* Ollama targets
    Clients,    \* users of the job repository
    NoCall,     \* a client that is not inside JobService.transition
    TargetOf,   \* the target a job is created for
    Mutating,   \* the jobs that take the mutation lock of their target
    MaxEvents   \* bound: no stage event is appended to a longer journal

\* The timestamps of a row are abstracted to "set" or "null".
Row == [state : JobState \cup {"absent"}, startedAt : BOOLEAN, finishedAt : BOOLEAN]

\* What JobService.transition holds between its read and its write.
Call == [job : Jobs, read : Row, next : JobState]

ASSUME JobsAssumption ==
    /\ TargetOf \in [Jobs -> Targets]
    /\ Mutating \in [Jobs -> BOOLEAN]
    /\ MaxEvents \in Nat
    /\ NoCall \notin Call

VARIABLES
    row,        \* the jobs table
    journal,    \* job_events in order of sequence: a state event is its state
    call        \* the transition each client is in the middle of

vars == <<row, journal, call>>

-----------------------------------------------------------------------------

AbsentRow == [state |-> "absent", startedAt |-> FALSE, finishedAt |-> FALSE]

Init ==
    /\ row = [j \in Jobs |-> AbsentRow]
    /\ journal = [j \in Jobs |-> <<>>]
    /\ call = [c \in Clients |-> NoCall]

Exists(j) == row[j].state # "absent"

\* A row of the partial unique index: the mutation lock of a target.
HoldsLock(j) == Mutating[j] /\ row[j].state \in ACTIVE_STATES

LockTaken(t) == \E k \in Jobs : TargetOf[k] = t /\ HoldsLock(k)

\* Mutant of Create: a cancelling job no longer holds the lock.
CreateLockedByQueuedOnly(j) ==
    /\ ~Exists(j)
    /\ Mutating[j] => ~(\E k \in Jobs : /\ TargetOf[k] = TargetOf[j]
                                        /\ Mutating[k]
                                        /\ row[k].state \in {"queued", "running"})
    /\ row' = [row EXCEPT ![j] = [AbsentRow EXCEPT !.state = "queued"]]
    /\ journal' = [journal EXCEPT ![j] = <<"queued">>]
    /\ UNCHANGED call

\* JobService.create: INSERT OR IGNORE and the first event in one transaction;
\* a violated lock index means that no row is inserted (JOB_CONFLICT).
Create(j) ==
    /\ ~Exists(j)
    /\ Mutating[j] => ~LockTaken(TargetOf[j])
    /\ row' = [row EXCEPT ![j] = [AbsentRow EXCEPT !.state = "queued"]]
    /\ journal' = [journal EXCEPT ![j] = <<"queued">>]
    /\ UNCHANGED call

\* The first half of JobService.transition: read the row, refuse a state that
\* the table does not allow.
BeginTransition(c, j, next) ==
    /\ call[c] = NoCall
    /\ Exists(j)
    /\ CanTransition(row[j].state, next)
    /\ call' = [call EXCEPT ![c] = [job |-> j, read |-> row[j], next |-> next]]
    /\ UNCHANGED <<row, journal>>

\* Mutant of UpdatedRow: started_at is not carried over.
UpdatedRowDropsStart(read, next) ==
    [state |-> next,
     startedAt |-> next = "running",
     finishedAt |-> next \in TERMINAL_STATES]

\* The row transition() writes: computed from the row it read, not from the
\* row it replaces.
UpdatedRow(read, next) ==
    [state |-> next,
     startedAt |-> read.startedAt \/ next = "running",
     finishedAt |-> next \in TERMINAL_STATES]

\* Mutant of TransitionWithEvent: the update is not conditional on the state read.
TransitionUnconditional(c) ==
    /\ call[c] # NoCall
    /\ LET j == call[c].job IN
         /\ row' = [row EXCEPT ![j] = UpdatedRow(call[c].read, call[c].next)]
         /\ journal' = [journal EXCEPT ![j] = Append(@, call[c].next)]
    /\ call' = [call EXCEPT ![c] = NoCall]

\* Mutant of TransitionWithEvent: the update asks only whether the job is still active.
TransitionIfActive(c) ==
    /\ call[c] # NoCall
    /\ row[call[c].job].state \in ACTIVE_STATES
    /\ LET j == call[c].job IN
         /\ row' = [row EXCEPT ![j] = UpdatedRow(call[c].read, call[c].next)]
         /\ journal' = [journal EXCEPT ![j] = Append(@, call[c].next)]
    /\ call' = [call EXCEPT ![c] = NoCall]

\* transitionWithEvent: UPDATE ... WHERE id = ? AND state = ?, with the state
\* event in the same transaction.
TransitionWithEvent(c) ==
    /\ call[c] # NoCall
    /\ row[call[c].job].state = call[c].read.state
    /\ LET j == call[c].job IN
         /\ row' = [row EXCEPT ![j] = UpdatedRow(call[c].read, call[c].next)]
         /\ journal' = [journal EXCEPT ![j] = Append(@, call[c].next)]
    /\ call' = [call EXCEPT ![c] = NoCall]

\* Mutant of StateConflict: the event of a refused transition stays.
StateConflictKeepsEvent(c) ==
    /\ call[c] # NoCall
    /\ row[call[c].job].state # call[c].read.state
    /\ journal' = [journal EXCEPT ![call[c].job] = Append(@, call[c].next)]
    /\ call' = [call EXCEPT ![c] = NoCall]
    /\ UNCHANGED row

\* The update matched no row: ROLLBACK, and the caller gets JOB_STATE_CONFLICT.
StateConflict(c) ==
    /\ call[c] # NoCall
    /\ row[call[c].job].state # call[c].read.state
    /\ call' = [call EXCEPT ![c] = NoCall]
    /\ UNCHANGED <<row, journal>>

\* JobService.appendEvent: allowed in every state of the job, a terminal one
\* included.
AppendEvent(j) ==
    /\ Exists(j)
    /\ Len(journal[j]) < MaxEvents
    /\ journal' = [journal EXCEPT ![j] = Append(@, "stage")]
    /\ UNCHANGED <<row, call>>

\* The process of a client dies between its read and its write.
Crash(c) ==
    /\ call[c] # NoCall
    /\ call' = [call EXCEPT ![c] = NoCall]
    /\ UNCHANGED <<row, journal>>

Next ==
    \/ \E j \in Jobs : Create(j) \/ AppendEvent(j)
    \/ \E c \in Clients, j \in Jobs, next \in JobState : BeginTransition(c, j, next)
    \/ \E c \in Clients : TransitionWithEvent(c) \/ StateConflict(c) \/ Crash(c)

Spec == Init /\ [][Next]_vars

-----------------------------------------------------------------------------

\* Every variable keeps its type.
TypeOK ==
    /\ row \in [Jobs -> Row]
    /\ journal \in [Jobs -> Seq(JobState \cup {"stage"})]
    /\ call \in [Clients -> Call \cup {NoCall}]

\* The persistent mutation lock: two mutating jobs of one target are never both
\* queued, running or cancelling, however creations and transitions interleave.
MutationLock ==
    \A j, k \in Jobs :
        HoldsLock(j) /\ HoldsLock(k) /\ TargetOf[j] = TargetOf[k] => j = k

\* i is the last state event among the first n entries of journal s.
LastState(s, n, i) ==
    /\ i \in 1 .. n
    /\ s[i] # "stage"
    /\ \A k \in i + 1 .. n : s[k] = "stage"

\* A reader that replays the events of a job arrives at its row: the first event
\* is the creation, each state event is a legal successor of the one before it,
\* the last one is the state of the row.
JournalMatchesRow ==
    \A j \in Jobs : LET s == journal[j] IN
        IF row[j].state = "absent" THEN s = <<>>
        ELSE /\ s # <<>> /\ s[1] = "queued"
             /\ \A i \in 1 .. Len(s) : LastState(s, Len(s), i) => s[i] = row[j].state
             /\ \A n \in 2 .. Len(s), i \in 1 .. Len(s) :
                    s[n] # "stage" /\ LastState(s, n - 1, i) => CanTransition(s[i], s[n])

\* The timestamps agree with the life cycle: finished_at is set exactly on
\* terminal jobs, started_at as long as a started job is active and never before.
\* transition() computes both from a row that may be stale when it is written.
TimesMatchState ==
    \A j \in Jobs :
        /\ row[j].finishedAt <=> row[j].state \in TERMINAL_STATES
        /\ row[j].state \in {"running", "cancelling", "succeeded"} => row[j].startedAt
        /\ row[j].startedAt => row[j].state \notin {"absent", "queued"}

\* A terminal row is final: no racing transition reopens, re-finishes or relabels
\* a job that has ended.
TerminalIsFinal ==
    [][\A j \in Jobs : row[j].state \in TERMINAL_STATES => row'[j] = row[j]]_vars

\* The column that the features read, and the rows of the partial unique index.
StateColumn == [j \in Jobs |-> row[j].state]

LocksTaken == [j \in Jobs |-> IF Mutating[j] THEN {TargetOf[j]} ELSE {}]

Table == INSTANCE JobTable WITH state <- StateColumn, locks <- LocksTaken

\* A read and a write that race with others amount to one legal move of one job, or to
\* nothing: the engine implements JobTable.
ActsAtOnce == Table!TableSpec

=============================================================================

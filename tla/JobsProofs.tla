----------------------------- MODULE JobsProofs -----------------------------
(***************************************************************************)
(* Proofs about the job engine, for every set of jobs, targets and clients *)
(* and every bound on the journal.                                         *)
(*                                                                         *)
(* The inductive invariant is the conjunction of the properties with       *)
(* CallOK: what a client holds between its read and its write is a         *)
(* transition that the table allows, from a row whose timestamps agree     *)
(* with its state.  The row in the database may have moved on since; the   *)
(* compare-and-swap on the state is what carries the facts about the row   *)
(* that was read over to the row that is written.                          *)
(***************************************************************************)
EXTENDS Jobs, TLAPS

\* The timestamps of row r agree with its state.
TimesOK(r) ==
    /\ r.finishedAt <=> r.state \in TERMINAL_STATES
    /\ r.state \in {"running", "cancelling", "succeeded"} => r.startedAt
    /\ r.startedAt => r.state \notin {"absent", "queued"}

CallOK ==
    \A c \in Clients : call[c] # NoCall =>
        /\ CanTransition(call[c].read.state, call[c].next)
        /\ TimesOK(call[c].read)

IInv == TypeOK /\ CallOK /\ MutationLock /\ TimesMatchState

-----------------------------------------------------------------------------
(* Facts about the transition table.                                       *)

\* The table leads from an active state to a state that a job does not start in.
LEMMA TransitionShape ==
    ASSUME NEW from, NEW to, CanTransition(from, to)
    PROVE  /\ from \in ACTIVE_STATES /\ from \notin TERMINAL_STATES
           /\ to \in JobState /\ to # "queued" /\ to # "absent"
           /\ to \in {"cancelling", "succeeded"} => from = "running"
           /\ from = "cancelling" => to \in TERMINAL_STATES
           /\ to = "running" => from = "queued"
BY DEF CanTransition, TRANSITIONS, ACTIVE_STATES, TERMINAL_STATES, JobState

\* What transition() writes has consistent timestamps if what it read had.
LEMMA UpdatedRowOK ==
    ASSUME NEW r \in Row, NEW next, CanTransition(r.state, next), TimesOK(r)
    PROVE  UpdatedRow(r, next) \in Row /\ TimesOK(UpdatedRow(r, next))
<1>1. /\ r.state \notin TERMINAL_STATES
      /\ next \in JobState /\ next # "queued" /\ next # "absent"
      /\ next \in {"cancelling", "succeeded"} => r.state = "running"
  BY TransitionShape
<1>2. UpdatedRow(r, next) \in Row
  BY <1>1 DEF UpdatedRow, Row
<1>3. TimesOK(UpdatedRow(r, next))
  BY <1>1 DEF UpdatedRow, Row, TimesOK, TERMINAL_STATES
<1> QED BY <1>2, <1>3

-----------------------------------------------------------------------------
(* The inductive invariant.                                                *)

\* The initial states satisfy the inductive invariant.
LEMMA InitIInv == Init => IInv
<1> SUFFICES ASSUME Init PROVE IInv
  OBVIOUS
<1> USE JobsAssumption DEF Init, AbsentRow
<1>1. TypeOK
  BY DEF TypeOK, Row
<1>2. CallOK
  BY DEF CallOK
<1>3. MutationLock
  BY DEF MutationLock, HoldsLock, ACTIVE_STATES
<1>4. TimesMatchState
  BY DEF TimesMatchState, TERMINAL_STATES
<1> QED BY <1>1, <1>2, <1>3, <1>4 DEF IInv

\* Every step keeps the types.
LEMMA TypeStep == ASSUME TypeOK, CallOK, [Next]_vars PROVE TypeOK'
<1> USE JobsAssumption DEF TypeOK
<1>1. ASSUME NEW j \in Jobs, Create(j) PROVE TypeOK'
  <2>1. [AbsentRow EXCEPT !.state = "queued"] \in Row
    BY DEF AbsentRow, Row, JobState
  <2>2. <<"queued">> \in Seq(JobState \cup {"stage"})
    BY DEF JobState
  <2> QED BY <1>1, <2>1, <2>2 DEF Create
<1>2. ASSUME NEW j \in Jobs, AppendEvent(j) PROVE TypeOK'
  BY <1>2 DEF AppendEvent
<1>3. ASSUME NEW c \in Clients, NEW j \in Jobs, NEW next \in JobState,
             BeginTransition(c, j, next)
      PROVE TypeOK'
  BY <1>3 DEF BeginTransition, Call
<1>4. ASSUME NEW c \in Clients, TransitionWithEvent(c) PROVE TypeOK'
  <2>1. call[c] \in Call
    BY <1>4 DEF TransitionWithEvent
  <2>2. UpdatedRow(call[c].read, call[c].next) \in Row
    BY <2>1, <1>4, UpdatedRowOK DEF Call, CallOK, TransitionWithEvent
  <2>3. call[c].next \in JobState /\ call[c].job \in Jobs
    BY <2>1 DEF Call
  <2> QED BY <1>4, <2>2, <2>3 DEF TransitionWithEvent
<1>5. ASSUME NEW c \in Clients, StateConflict(c) \/ Crash(c) PROVE TypeOK'
  BY <1>5 DEF StateConflict, Crash
<1>6. CASE UNCHANGED vars
  BY <1>6 DEF vars
<1> QED BY <1>1, <1>2, <1>3, <1>4, <1>5, <1>6 DEF Next

\* A call in progress has read a row from which its transition was legal, and keeps it.
LEMMA CallStep == ASSUME IInv, [Next]_vars PROVE CallOK'
<1> USE JobsAssumption DEF IInv, TypeOK, CallOK
<1>1. ASSUME NEW j \in Jobs, Create(j) \/ AppendEvent(j) PROVE CallOK'
  BY <1>1 DEF Create, AppendEvent
<1>2. ASSUME NEW c \in Clients, NEW j \in Jobs, NEW next \in JobState,
             BeginTransition(c, j, next)
      PROVE CallOK'
  <2>1. TimesOK(row[j])
    BY DEF TimesOK, TimesMatchState
  <2> QED BY <1>2, <2>1 DEF BeginTransition
<1>3. ASSUME NEW c \in Clients, TransitionWithEvent(c) \/ StateConflict(c) \/ Crash(c)
      PROVE CallOK'
  BY <1>3 DEF TransitionWithEvent, StateConflict, Crash
<1>4. CASE UNCHANGED vars
  BY <1>4 DEF vars
<1> QED BY <1>1, <1>2, <1>3, <1>4 DEF Next

\* Every step keeps the mutation lock exclusive.
LEMMA LockStep == ASSUME IInv, [Next]_vars PROVE MutationLock'
<1> USE JobsAssumption DEF IInv, TypeOK, MutationLock, HoldsLock
<1>1. ASSUME NEW j \in Jobs, Create(j) PROVE MutationLock'
  BY <1>1 DEF Create, LockTaken, AbsentRow, Exists, ACTIVE_STATES
<1>2. ASSUME NEW c \in Clients, TransitionWithEvent(c) PROVE MutationLock'
  <2> DEFINE j == call[c].job
  <2>1. j \in Jobs /\ row[j].state \in ACTIVE_STATES
    BY <1>2, TransitionShape DEF TransitionWithEvent, CallOK, Call
  <2>2. \A k \in Jobs : k # j => row'[k] = row[k]
    BY <1>2 DEF TransitionWithEvent
  <2>3. \A k \in Jobs : HoldsLock(k)' => HoldsLock(k)
    BY <2>1, <2>2
  <2> QED BY <2>3
<1>3. CASE UNCHANGED row
  BY <1>3
<1> QED BY <1>1, <1>2, <1>3
        DEF Next, AppendEvent, BeginTransition, StateConflict, Crash, vars

\* Every step keeps the timestamps in agreement with the states.
LEMMA TimesStep == ASSUME IInv, [Next]_vars PROVE TimesMatchState'
<1> USE JobsAssumption DEF IInv, TypeOK
<1>0. TimesMatchState <=> \A j \in Jobs : TimesOK(row[j])
  BY DEF TimesMatchState, TimesOK
<1>00. TimesMatchState' <=> \A j \in Jobs : TimesOK(row'[j])
  BY DEF TimesMatchState, TimesOK
<1>1. ASSUME NEW j \in Jobs, Create(j) PROVE TimesMatchState'
  BY <1>1 DEF Create, AbsentRow, TimesMatchState, TERMINAL_STATES
<1>2. ASSUME NEW c \in Clients, TransitionWithEvent(c) PROVE TimesMatchState'
  <2>1. call[c] \in Call /\ call[c] # NoCall
    BY <1>2 DEF TransitionWithEvent
  <2>2. TimesOK(UpdatedRow(call[c].read, call[c].next))
    BY <2>1, UpdatedRowOK DEF Call, CallOK
  <2>3. row' = [row EXCEPT ![call[c].job] = UpdatedRow(call[c].read, call[c].next)]
    BY <1>2 DEF TransitionWithEvent
  <2>4. \A j \in Jobs : TimesOK(row'[j])
    BY <2>1, <2>2, <2>3, <1>0 DEF Call
  <2> QED BY <2>4, <1>00
<1>3. CASE UNCHANGED row
  BY <1>3 DEF TimesMatchState
<1> QED BY <1>1, <1>2, <1>3
        DEF Next, AppendEvent, BeginTransition, StateConflict, Crash, vars

\* The inductive invariant holds in every reachable state.
THEOREM InductiveInvariant == Spec => []IInv
<1>1. IInv /\ [Next]_vars => IInv'
  BY TypeStep, CallStep, LockStep, TimesStep DEF IInv
<1> QED BY InitIInv, <1>1, PTL DEF Spec

\* Type correctness of the job engine: rows, journals and calls in progress keep
\* their types.
THEOREM TypeCorrect == Spec => []TypeOK
BY InductiveInvariant, PTL DEF IInv

\* The mutation lock of a target has at most one holder, for any number of clients
\* of the repository: the partial unique index and the conditional update suffice.
THEOREM LockIsExclusive == Spec => []MutationLock
BY InductiveInvariant, PTL DEF IInv

\* The timestamps of every row agree with its state, although transition() computes
\* them from a row that may be stale by the time it writes.
THEOREM TimesAgree == Spec => []TimesMatchState
BY InductiveInvariant, PTL DEF IInv

\* A terminal row never changes again, whatever transitions were in progress when
\* it became terminal.
THEOREM TerminalRowsAreFinal == Spec => TerminalIsFinal
<1> DEFINE Final == \A j \in Jobs : row[j].state \in TERMINAL_STATES => row'[j] = row[j]
<1>1. IInv /\ [Next]_vars => [Final]_vars
  <2> SUFFICES ASSUME IInv, Next PROVE Final
    OBVIOUS
  <2> USE JobsAssumption DEF IInv, TypeOK
  <2>1. ASSUME NEW j \in Jobs, Create(j) PROVE Final
    BY <2>1 DEF Create, Exists, TERMINAL_STATES
  <2>2. ASSUME NEW c \in Clients, TransitionWithEvent(c) PROVE Final
    <3>1. /\ row[call[c].job].state \notin TERMINAL_STATES
          /\ \A k \in Jobs : k # call[c].job => row'[k] = row[k]
      BY <2>2, TransitionShape DEF TransitionWithEvent, CallOK, Call
    <3> QED BY <3>1
  <2>3. CASE UNCHANGED row
    BY <2>3
  <2> QED BY <2>1, <2>2, <2>3
          DEF Next, AppendEvent, BeginTransition, StateConflict, Crash
<1> QED BY InductiveInvariant, <1>1, PTL DEF Spec, TerminalIsFinal

-----------------------------------------------------------------------------
(* The journal agrees with the row.                                        *)

\* Journal s tells the life of a job that is now in state st.
Tells(s, st) ==
    /\ s # <<>> /\ s[1] = "queued"
    /\ \A i \in 1 .. Len(s) : LastState(s, Len(s), i) => s[i] = st
    /\ \A n \in 2 .. Len(s), i \in 1 .. Len(s) :
           s[n] # "stage" /\ LastState(s, n - 1, i) => CanTransition(s[i], s[n])

Event == JobState \cup {"stage"}

\* The state events among the first entries of a journal are not affected by what
\* is appended to it.
LEMMA LastStateAppend ==
    ASSUME NEW s \in Seq(Event), NEW e \in Event, NEW n \in 0 .. Len(s), NEW i \in Nat
    PROVE  LastState(Append(s, e), n, i) <=> LastState(s, n, i)
<1>1. \A k \in 1 .. n : Append(s, e)[k] = s[k]
  OBVIOUS
<1>2. i \in 1 .. n => \A k \in i + 1 .. n : k \in 1 .. n
  OBVIOUS
<1> QED BY <1>1, <1>2 DEF LastState

\* A stage event leaves the story as it is.
LEMMA TellsStage ==
    ASSUME NEW s \in Seq(Event), NEW st, Tells(s, st)
    PROVE  Tells(Append(s, "stage"), st)
<1> DEFINE t == Append(s, "stage")
<1>1. /\ Len(s) \in Nat /\ Len(s) > 0 /\ Len(t) = Len(s) + 1
      /\ \A k \in 1 .. Len(s) : t[k] = s[k]
      /\ t[Len(t)] = "stage" /\ t # <<>>
  BY DEF Tells
<1>2. t[1] = "queued"
  BY <1>1 DEF Tells
<1>3. ASSUME NEW i \in 1 .. Len(t), LastState(t, Len(t), i) PROVE t[i] = st
  <2>1. i \in 1 .. Len(s) /\ LastState(t, Len(s), i)
    BY <1>1, <1>3 DEF LastState
  <2>2. LastState(s, Len(s), i)
    BY <2>1, <1>1, LastStateAppend DEF Event
  <2> QED BY <2>1, <2>2, <1>1 DEF Tells
<1>4. ASSUME NEW n \in 2 .. Len(t), NEW i \in 1 .. Len(t),
             t[n] # "stage", LastState(t, n - 1, i)
      PROVE CanTransition(t[i], t[n])
  <2>1. n \in 2 .. Len(s) /\ n - 1 \in 0 .. Len(s)
    BY <1>1, <1>4
  <2>2. LastState(s, n - 1, i)
    BY <2>1, <1>1, <1>4, LastStateAppend DEF Event
  <2>3. i \in 1 .. Len(s)
    BY <2>1, <2>2 DEF LastState
  <2> QED BY <2>1, <2>2, <2>3, <1>1, <1>4 DEF Tells
<1> QED BY <1>1, <1>2, <1>3, <1>4 DEF Tells

\* A state event that the transition table allows continues the story.
LEMMA TellsState ==
    ASSUME NEW s \in Seq(Event), NEW st, NEW next, Tells(s, st), CanTransition(st, next)
    PROVE  Tells(Append(s, next), next)
<1> DEFINE t == Append(s, next)
<1>0. next \in JobState /\ next # "stage" /\ next \in Event
  BY TransitionShape DEF JobState, Event
<1>1. /\ Len(s) \in Nat /\ Len(s) > 0 /\ Len(t) = Len(s) + 1
      /\ \A k \in 1 .. Len(s) : t[k] = s[k]
      /\ t[Len(t)] = next /\ t # <<>>
  BY <1>0 DEF Tells
<1>2. t[1] = "queued"
  BY <1>1 DEF Tells
<1>3. ASSUME NEW i \in 1 .. Len(t), LastState(t, Len(t), i) PROVE t[i] = next
  <2>1. CASE i = Len(t)
    BY <2>1, <1>1
  <2>2. CASE i # Len(t)
    <3>1. Len(t) \in i + 1 .. Len(t)
      BY <2>2, <1>1
    <3> QED BY <3>1, <1>0, <1>1, <1>3 DEF LastState
  <2> QED BY <2>1, <2>2
<1>4. ASSUME NEW n \in 2 .. Len(t), NEW i \in 1 .. Len(t),
             t[n] # "stage", LastState(t, n - 1, i)
      PROVE CanTransition(t[i], t[n])
  <2>1. n - 1 \in 0 .. Len(s)
    BY <1>1
  <2>2. LastState(s, n - 1, i)
    BY <2>1, <1>0, <1>4, LastStateAppend
  <2>3. i \in 1 .. Len(s)
    BY <2>1, <2>2 DEF LastState
  <2>4. CASE n = Len(t)
    <3>1. LastState(s, Len(s), i)
      BY <2>2, <2>4, <1>1
    <3>2. s[i] = st
      BY <3>1, <2>3 DEF Tells
    <3> QED BY <3>2, <2>3, <2>4, <1>1
  <2>5. CASE n # Len(t)
    <3>1. n \in 2 .. Len(s)
      BY <2>5, <1>1
    <3> QED BY <3>1, <2>2, <2>3, <1>1, <1>4 DEF Tells
  <2> QED BY <2>4, <2>5
<1> QED BY <1>1, <1>2, <1>3, <1>4 DEF Tells

\* Every step keeps the journals in agreement with the rows.
LEMMA JournalStep ==
    ASSUME IInv, JournalMatchesRow, [Next]_vars PROVE JournalMatchesRow'
<1> USE JobsAssumption DEF IInv, TypeOK
<1>0. JournalMatchesRow <=>
         \A j \in Jobs : IF row[j].state = "absent" THEN journal[j] = <<>>
                         ELSE Tells(journal[j], row[j].state)
  BY DEF JournalMatchesRow, Tells
<1>00. JournalMatchesRow' <=>
         \A j \in Jobs : IF row'[j].state = "absent" THEN journal'[j] = <<>>
                         ELSE Tells(journal'[j], row'[j].state)
  BY DEF JournalMatchesRow, Tells
<1>1. ASSUME NEW j \in Jobs, Create(j) PROVE JournalMatchesRow'
  <2>1. Tells(<<"queued">>, "queued")
    BY DEF Tells, LastState
  <2>2. \A k \in Jobs : k # j => row'[k] = row[k] /\ journal'[k] = journal[k]
    BY <1>1 DEF Create
  <2>3. row'[j].state = "queued" /\ journal'[j] = <<"queued">>
    BY <1>1 DEF Create, AbsentRow
  <2> QED BY <2>1, <2>2, <2>3, <1>0, <1>00
<1>2. ASSUME NEW j \in Jobs, AppendEvent(j) PROVE JournalMatchesRow'
  <2>1. journal[j] \in Seq(Event)
    BY DEF Event
  <2>2. row[j].state # "absent" /\ Tells(journal[j], row[j].state)
    BY <1>0, <1>2 DEF AppendEvent, Exists
  <2>3. Tells(journal'[j], row[j].state)
    BY <2>1, <2>2, <1>2, TellsStage DEF AppendEvent
  <2>4. row' = row /\ \A k \in Jobs : k # j => journal'[k] = journal[k]
    BY <1>2 DEF AppendEvent
  <2> QED BY <2>2, <2>3, <2>4, <1>0, <1>00
<1>3. ASSUME NEW c \in Clients, TransitionWithEvent(c) PROVE JournalMatchesRow'
  <2> DEFINE j == call[c].job
             next == call[c].next
  <2>1. j \in Jobs /\ CanTransition(row[j].state, next)
    BY <1>3 DEF TransitionWithEvent, CallOK, Call
  <2>2. journal[j] \in Seq(Event)
    BY <2>1 DEF Event
  <2>3. row[j].state # "absent" /\ next # "absent"
    BY <2>1, TransitionShape DEF ACTIVE_STATES
  <2>4. Tells(Append(journal[j], next), next)
    BY <2>1, <2>2, <2>3, <1>0, TellsState
  <2>5. row'[j].state = next /\ journal'[j] = Append(journal[j], next)
    BY <1>3, <2>1 DEF TransitionWithEvent, UpdatedRow
  <2>6. \A k \in Jobs : k # j => row'[k] = row[k] /\ journal'[k] = journal[k]
    BY <1>3 DEF TransitionWithEvent
  <2> QED BY <2>3, <2>4, <2>5, <2>6, <1>0, <1>00
<1>4. CASE UNCHANGED <<row, journal>>
  BY <1>4 DEF JournalMatchesRow
<1> QED BY <1>1, <1>2, <1>3, <1>4
        DEF Next, BeginTransition, StateConflict, Crash, vars

\* The journal of a job and its row never disagree: the update of the row and the
\* insertion of the event are one transaction, and the conditional update keeps a
\* transition that lost a race out of both.
THEOREM JournalAgrees == Spec => []JournalMatchesRow
<1>1. Init => JournalMatchesRow
  BY DEF Init, AbsentRow, JournalMatchesRow
<1>2. IInv /\ JournalMatchesRow /\ [Next]_vars => JournalMatchesRow'
  BY JournalStep
<1> QED BY InductiveInvariant, <1>1, <1>2, PTL DEF Spec

-----------------------------------------------------------------------------
(* The engine implements the job table.                                    *)

\* A new database is an empty table.
LEMMA InitStartsTable == Init => Table!TableInit
<1> SUFFICES ASSUME Init PROVE Table!TableInit
  OBVIOUS
<1>1. StateColumn = [j \in Jobs |-> "absent"]
  BY DEF Init, AbsentRow, StateColumn
<1>2. LocksTaken \in [Jobs -> SUBSET Targets]
  BY JobsAssumption DEF LocksTaken
<1> QED
  BY <1>1, <1>2 DEF Table!TableInit

\* A creation is an acceptance, and a conditional update is a move: what its client has read
\* is what it replaces.  Everything else leaves the states as they are.
LEMMA StepActsAtOnce ==
    ASSUME IInv, [Next]_vars
    PROVE  [Table!TableNext]_(<<StateColumn, LocksTaken>>)
<1> USE JobsAssumption DEF IInv, TypeOK
<1>0. LocksTaken' = LocksTaken
  BY DEF LocksTaken
<1>1. ASSUME NEW j \in Jobs, Create(j) PROVE Table!Accept(j)
  <2>1. StateColumn[j] = "absent"
    BY <1>1 DEF Create, Exists, StateColumn
  <2>2. ASSUME NEW k \in Jobs, StateColumn[k] \in ACTIVE_STATES
        PROVE  LocksTaken[k] \cap LocksTaken[j] = {}
    BY <1>1, <2>2 DEF Create, LockTaken, HoldsLock, StateColumn, LocksTaken
  <2>3. StateColumn' = [StateColumn EXCEPT ![j] = "queued"]
    BY <1>1 DEF Create, AbsentRow, StateColumn
  <2> QED
    BY <1>0, <2>1, <2>2, <2>3 DEF Table!Accept, Table!ACTIVE_STATES, ACTIVE_STATES
<1>2. ASSUME NEW c \in Clients, TransitionWithEvent(c)
      PROVE  Table!Move(call[c].job, call[c].next) /\ call[c].job \in Jobs
                                                    /\ call[c].next \in JobState
  <2>1. call[c] \in Call /\ CanTransition(call[c].read.state, call[c].next)
    BY <1>2 DEF TransitionWithEvent, CallOK
  <2>2. call[c].job \in Jobs /\ call[c].next \in JobState
    BY <2>1 DEF Call
  <2>3. StateColumn[call[c].job] = call[c].read.state
    BY <1>2, <2>2 DEF TransitionWithEvent, StateColumn
  <2>4. row' = [row EXCEPT ![call[c].job] = UpdatedRow(call[c].read, call[c].next)]
    BY <1>2 DEF TransitionWithEvent
  <2>5. StateColumn' = [StateColumn EXCEPT ![call[c].job] = call[c].next]
    BY <2>2, <2>4 DEF StateColumn, UpdatedRow
  <2>6. Table!CanTransition(StateColumn[call[c].job], call[c].next)
    BY <2>1, <2>3 DEF CanTransition, TRANSITIONS, Table!CanTransition, Table!TRANSITIONS
  <2> QED
    BY <1>0, <2>2, <2>5, <2>6 DEF Table!Move
<1>3. CASE UNCHANGED row
  BY <1>0, <1>3 DEF StateColumn
<1>4. JobState = Table!JobState
  BY DEF JobState, Table!JobState
<1> QED
  BY <1>1, <1>2, <1>3, <1>4
     DEF Next, AppendEvent, BeginTransition, StateConflict, Crash, vars, Table!TableNext

\* Any number of clients that read a row, and write it later on condition that its state is
\* the one they read, act as if each had moved its job in one step: a job is accepted only
\* while its lock is free, and no job ever makes a move that the table does not have.
THEOREM EngineActsAtOnce == Spec => ActsAtOnce
<1>1. Init => Table!TableInit
  BY InitStartsTable
<1>2. IInv /\ [Next]_vars => [Table!TableNext]_(<<StateColumn, LocksTaken>>)
  BY StepActsAtOnce
<1> QED
  BY <1>1, <1>2, InductiveInvariant, PTL
     DEF Spec, ActsAtOnce, Table!TableSpec

=============================================================================

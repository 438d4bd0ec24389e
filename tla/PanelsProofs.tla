---------------------------- MODULE PanelsProofs ----------------------------
(***************************************************************************)
(* The panels of MCPanels keep what its invariants say of them, for every  *)
(* number of events, lines, breaks, pages and targets.  Each part has an   *)
(* inductive invariant of its own (PullInv, CreateInv, DashboardInv,       *)
(* AuditInv, LogsInv), and ScenesInv puts them together:                   *)
(*   - pull: what is on its way to the panel is what it misses of the job, *)
(*     in order (OnItsWay, Flow);                                          *)
(*   - create: an answer that tells a final state tells the one the job is *)
(*     in (AnswersOK);                                                     *)
(*   - dashboard: a control is disabled for exactly the request that a     *)
(*     panel waits for (WaitingOK, BusyOK);                                *)
(*   - audit: what a walk has not seen ranks behind the pages it has read, *)
(*     and a purge, which takes the last ranks, keeps it so (WalkOK);      *)
(*   - logs: the lines of a stream, from those shown to those on the host, *)
(*     follow each other (FlowOK).                                         *)
(***************************************************************************)
EXTENDS MCPanels, FiniteSetTheorems, TLAPS

-----------------------------------------------------------------------------
(* Ranks.                                                                  *)

\* The elements of M that a strict order R puts before y.
Before(M, R, y) == {x \in M : <<x, y>> \in R}

\* A finite set under a total order: every element has a rank of its own, and every rank is
\* somebody's.
LEMMA Ranked ==
    ASSUME NEW M, IsFiniteSet(M), NEW R,
           \A x \in M : <<x, x>> \notin R,
           \A x, y, z \in M : <<x, y>> \in R /\ <<y, z>> \in R => <<x, z>> \in R,
           \A x, y \in M : x # y => <<x, y>> \in R \/ <<y, x>> \in R
    PROVE  /\ Cardinality(M) \in Nat
           /\ \A y \in M : /\ IsFiniteSet(Before(M, R, y))
                           /\ Cardinality(Before(M, R, y)) \in 0..(Cardinality(M) - 1)
           /\ \A x, y \in M : <<x, y>> \in R =>
                  Cardinality(Before(M, R, x)) < Cardinality(Before(M, R, y))
           /\ \A n \in 0..(Cardinality(M) - 1) : \E y \in M : Cardinality(Before(M, R, y)) = n
<1>1. Cardinality(M) \in Nat
  BY FS_CardinalityType
<1>2. ASSUME NEW y \in M
      PROVE  /\ IsFiniteSet(Before(M, R, y))
             /\ Cardinality(Before(M, R, y)) \in 0..(Cardinality(M) - 1)
  <2>1. Before(M, R, y) \subseteq M \ {y}
    BY DEF Before
  <2>2. IsFiniteSet(M \ {y}) /\ Cardinality(M \ {y}) = Cardinality(M) - 1
    BY FS_RemoveElement
  <2>3. IsFiniteSet(Before(M, R, y)) /\ Cardinality(Before(M, R, y)) <= Cardinality(M) - 1
    BY <2>1, <2>2, FS_Subset
  <2> QED
    BY <1>1, <2>3, FS_CardinalityType
<1>3. ASSUME NEW x \in M, NEW y \in M, <<x, y>> \in R
      PROVE  Cardinality(Before(M, R, x)) < Cardinality(Before(M, R, y))
  <2>1. Before(M, R, x) \cup {x} \subseteq Before(M, R, y) /\ x \notin Before(M, R, x)
    BY <1>3 DEF Before
  <2>2. Cardinality(Before(M, R, x) \cup {x}) = Cardinality(Before(M, R, x)) + 1
    BY <1>2, <2>1, FS_AddElement
  <2>3. Cardinality(Before(M, R, x) \cup {x}) <= Cardinality(Before(M, R, y))
    BY <1>2, <2>1, FS_Subset
  <2> QED
    BY <1>2, <2>2, <2>3
<1>4. ASSUME NEW n \in 0..(Cardinality(M) - 1), \A y \in M : Cardinality(Before(M, R, y)) # n
      PROVE  FALSE
  <2> DEFINE T == (0..(Cardinality(M) - 1)) \ {n}
             f == [y \in M |-> Cardinality(Before(M, R, y))]
  <2>1. IsFiniteSet(0..(Cardinality(M) - 1))
        /\ Cardinality(0..(Cardinality(M) - 1)) = Cardinality(M)
    BY <1>1, FS_Interval
  <2>2. IsFiniteSet(T) /\ Cardinality(T) = Cardinality(M) - 1
    BY <2>1, FS_RemoveElement
  <2>3. f \in [M -> T]
    BY <1>2, <1>4
  <2>4. \A y \in M : f[y] = Cardinality(Before(M, R, y))
    OBVIOUS
  <2> HIDE DEF T, f
  <2>5. PICK x \in M, y \in M : x # y /\ f[x] = f[y]
    BY <1>1, <2>2, <2>3, FS_PigeonHole
  <2>6. <<x, y>> \in R \/ <<y, x>> \in R
    BY <2>5
  <2> QED
    BY <1>2, <1>3, <2>4, <2>5, <2>6
<1> QED
  BY <1>1, <1>2, <1>3, <1>4

\* Numbers in their order: the n-th of S is the one up to which there are n.
UpTo(S, i) == {h \in S : h <= i}

Sorted(S) == [n \in 1..Cardinality(S) |-> CHOOSE i \in S : Cardinality(UpTo(S, i)) = n]

LEMMA SortedIs ==
    ASSUME NEW S \in SUBSET Nat, IsFiniteSet(S)
    PROVE  /\ Sorted(S) \in Seq(S) /\ Cardinality(S) \in Nat /\ Len(Sorted(S)) = Cardinality(S)
           /\ \A n \in 1..Cardinality(S) : /\ Sorted(S)[n] \in S
                                           /\ Cardinality(UpTo(S, Sorted(S)[n])) = n
           /\ \A x \in S : /\ Cardinality(UpTo(S, x)) \in 1..Cardinality(S)
                           /\ Sorted(S)[Cardinality(UpTo(S, x))] = x
<1> DEFINE R == {p \in S \X S : p[1] < p[2]}
<1>1. /\ \A x \in S : <<x, x>> \notin R
      /\ \A x, y, z \in S : <<x, y>> \in R /\ <<y, z>> \in R => <<x, z>> \in R
      /\ \A x, y \in S : x # y => <<x, y>> \in R \/ <<y, x>> \in R
  OBVIOUS
<1>2. \A x, y \in S : <<x, y>> \in R <=> x < y
  OBVIOUS
<1> HIDE DEF R
<1>3. /\ Cardinality(S) \in Nat
      /\ \A y \in S : /\ IsFiniteSet(Before(S, R, y))
                      /\ Cardinality(Before(S, R, y)) \in 0..(Cardinality(S) - 1)
      /\ \A x, y \in S : <<x, y>> \in R =>
             Cardinality(Before(S, R, x)) < Cardinality(Before(S, R, y))
      /\ \A n \in 0..(Cardinality(S) - 1) : \E y \in S : Cardinality(Before(S, R, y)) = n
  BY <1>1, Ranked
<1>4. \A x \in S : Cardinality(UpTo(S, x)) = Cardinality(Before(S, R, x)) + 1
  <2> SUFFICES ASSUME NEW x \in S PROVE Cardinality(UpTo(S, x)) = Cardinality(Before(S, R, x)) + 1
    OBVIOUS
  <2>1. \A h \in S : h <= x <=> <<h, x>> \in R \/ h = x
    <3>1. \A h \in S : h <= x <=> h < x \/ h = x
      OBVIOUS
    <3> QED
      BY <1>2, <3>1
  <2>2. UpTo(S, x) = Before(S, R, x) \cup {x} /\ x \notin Before(S, R, x)
    <3>1. \A h : h \in UpTo(S, x) <=> h \in S /\ (<<h, x>> \in R \/ h = x)
      BY <2>1 DEF UpTo
    <3>2. \A h : h \in Before(S, R, x) <=> h \in S /\ <<h, x>> \in R
      BY DEF Before
    <3>3. \A h : h \in UpTo(S, x) <=> h \in Before(S, R, x) \cup {x}
      BY <3>1, <3>2
    <3>4. UpTo(S, x) = Before(S, R, x) \cup {x}
      BY <3>3
    <3> QED
      BY <1>1, <3>2, <3>4
  <2> QED
    BY <1>3, <2>2, FS_AddElement
<1>5. \A n \in 1..Cardinality(S) : \E y \in S : Cardinality(UpTo(S, y)) = n
  <2> SUFFICES ASSUME NEW n \in 1..Cardinality(S) PROVE \E y \in S : Cardinality(UpTo(S, y)) = n
    OBVIOUS
  <2>1. n - 1 \in 0..(Cardinality(S) - 1)
    BY <1>3
  <2>2. PICK y \in S : Cardinality(Before(S, R, y)) = n - 1
    BY <1>3, <2>1
  <2> QED
    BY <1>3, <1>4, <2>2
<1>6. \A x, y \in S : Cardinality(UpTo(S, x)) = Cardinality(UpTo(S, y)) => x = y
  <2> SUFFICES ASSUME NEW x \in S, NEW y \in S, x # y
               PROVE  Cardinality(UpTo(S, x)) # Cardinality(UpTo(S, y))
    OBVIOUS
  <2> DEFINE a == Cardinality(Before(S, R, x)) b == Cardinality(Before(S, R, y))
  <2>1. a < b \/ b < a
    BY <1>1, <1>3
  <2>2. a \in Nat /\ b \in Nat
    BY <1>3
  <2>3. Cardinality(UpTo(S, x)) = a + 1 /\ Cardinality(UpTo(S, y)) = b + 1
    BY <1>4
  <2> HIDE DEF a, b
  <2> QED
    BY <2>1, <2>2, <2>3
<1>7. \A n \in 1..Cardinality(S) : Sorted(S)[n] \in S /\ Cardinality(UpTo(S, Sorted(S)[n])) = n
  BY <1>5 DEF Sorted
<1>8. \A x \in S : Cardinality(UpTo(S, x)) \in 1..Cardinality(S)
  BY <1>3, <1>4
<1>9. \A x \in S : Sorted(S)[Cardinality(UpTo(S, x))] = x
  BY <1>6, <1>7, <1>8
<1>10. Sorted(S) \in Seq(S) /\ Len(Sorted(S)) = Cardinality(S)
  BY <1>3, <1>7 DEF Sorted
<1> QED
  BY <1>3, <1>7, <1>8, <1>9, <1>10

\* What comes after all others is the last.
LEMMA SortedAppend ==
    ASSUME NEW S \in SUBSET Nat, IsFiniteSet(S), NEW m \in Nat, \A x \in S : x < m
    PROVE  Sorted(S \cup {m}) = Append(Sorted(S), m)
<1> DEFINE T == S \cup {m}
<1>1. T \in SUBSET Nat /\ IsFiniteSet(T) /\ Cardinality(T) = Cardinality(S) + 1
      /\ Cardinality(S) \in Nat
  <2>1. m \notin S
    OBVIOUS
  <2> QED
    BY <2>1, FS_AddElement, FS_CardinalityType
<1>2. UpTo(T, m) = T /\ \A x \in S : UpTo(T, x) = UpTo(S, x)
  <2>1. \A x \in S : x \in Nat /\ x <= m /\ ~ (m <= x)
    OBVIOUS
  <2>2. m <= m
    OBVIOUS
  <2> QED
    BY <2>1, <2>2 DEF UpTo
<1> HIDE DEF T
<1>3. m \in T /\ S \subseteq T
  BY DEF T
<1>4. /\ Sorted(T) \in Seq(T) /\ Len(Sorted(T)) = Cardinality(T)
      /\ \A x \in T : Sorted(T)[Cardinality(UpTo(T, x))] = x
  BY <1>1, SortedIs
<1>5. /\ Sorted(S) \in Seq(S) /\ Len(Sorted(S)) = Cardinality(S)
      /\ \A n \in 1..Cardinality(S) : Sorted(S)[n] \in S /\ Cardinality(UpTo(S, Sorted(S)[n])) = n
  BY SortedIs
<1>6. Sorted(T)[Cardinality(S) + 1] = m
  BY <1>1, <1>2, <1>3, <1>4
<1>7. \A n \in 1..Cardinality(S) : Sorted(T)[n] = Sorted(S)[n]
  BY <1>2, <1>3, <1>4, <1>5
<1> HIDE DEF Sorted
<1>8. Append(Sorted(S), m) \in Seq(T) /\ Len(Append(Sorted(S), m)) = Cardinality(S) + 1
      /\ \A n \in 1..Cardinality(S) : Append(Sorted(S), m)[n] = Sorted(S)[n]
      /\ Append(Sorted(S), m)[Cardinality(S) + 1] = m
  <2> DEFINE q == Sorted(S)
  <2>1. q \in Seq(S) /\ Len(q) = Cardinality(S) /\ Cardinality(S) \in Nat
    BY <1>1, <1>5
  <2> HIDE DEF q
  <2>3. q \in Seq(T)
    <3>1. \A n \in 1..Len(q) : q[n] \in T
      <4>1. \A n \in 1..Len(q) : q[n] \in S
        BY <2>1
      <4> QED
        BY <1>3, <4>1
    <3>2. q = [n \in 1..Len(q) |-> q[n]] /\ Len(q) \in Nat
      BY <2>1
    <3> QED
      BY <3>1, <3>2
  <2>2. /\ Append(q, m) \in Seq(T) /\ Len(Append(q, m)) = Cardinality(S) + 1
        /\ \A n \in 1..Cardinality(S) : Append(q, m)[n] = q[n]
        /\ Append(q, m)[Cardinality(S) + 1] = m
    BY <1>3, <2>1, <2>3
  <2> QED
    BY <2>2 DEF q
<1>9. \A n \in 1..(Cardinality(S) + 1) : Sorted(T)[n] = Append(Sorted(S), m)[n]
  BY <1>1, <1>6, <1>7, <1>8
<1> HIDE DEF Sorted
<1>10. Sorted(T) = Append(Sorted(S), m)
  BY <1>1, <1>4, <1>8, <1>9
<1> QED
  BY <1>10 DEF T

\* What comes after a is what is left when the others have been taken.
LEMMA SortedSplit ==
    ASSUME NEW S \in SUBSET Nat, IsFiniteSet(S), NEW a \in Nat
    PROVE  LET T == {x \in S : x > a} c == Cardinality(UpTo(S, a)) IN
           /\ IsFiniteSet(T) /\ c \in Nat /\ Cardinality(S) = c + Cardinality(T)
                /\ Cardinality(T) \in Nat
           /\ \A k \in 1..Cardinality(T) : Sorted(T)[k] \in T /\ Sorted(S)[c + k] = Sorted(T)[k]
<1> DEFINE T == {x \in S : x > a}
           A == UpTo(S, a)
<1>1. T \subseteq S /\ A \subseteq S /\ S = A \cup T /\ A \cap T = {}
  <2>1. \A h \in S : (h <= a \/ h > a) /\ ~ (h <= a /\ h > a)
    OBVIOUS
  <2> QED
    BY <2>1 DEF UpTo
<1>2. IsFiniteSet(T) /\ IsFiniteSet(A) /\ Cardinality(A) \in Nat /\ Cardinality(T) \in Nat
      /\ Cardinality(S) \in Nat
  BY <1>1, FS_Subset, FS_CardinalityType
<1>3. ASSUME NEW B, IsFiniteSet(B), A \cap B = {}
      PROVE  Cardinality(A \cup B) = Cardinality(A) + Cardinality(B)
  <2>1. Cardinality(A \cup B) = Cardinality(A) + Cardinality(B) - Cardinality(A \cap B)
    BY <1>2, <1>3, FS_Union
  <2> QED
    <3>1. Cardinality(A \cap B) = 0 /\ Cardinality(B) \in Nat
      BY <1>3, FS_EmptySet, FS_CardinalityType
    <3> QED
      BY <1>2, <2>1, <3>1
<1>4. \A x \in T : UpTo(S, x) = A \cup UpTo(T, x) /\ A \cap UpTo(T, x) = {}
      /\ UpTo(T, x) \subseteq T
  <2> SUFFICES ASSUME NEW x \in T
               PROVE  /\ UpTo(S, x) = A \cup UpTo(T, x) /\ A \cap UpTo(T, x) = {}
                      /\ UpTo(T, x) \subseteq T
    OBVIOUS
  <2>1. \A h \in S : (h <= a \/ h > a) /\ (h <= a => h <= x /\ ~ (h > a))
    OBVIOUS
  <2> QED
    BY <2>1 DEF UpTo
<1> HIDE DEF T, A
<1>5. ASSUME NEW k \in 1..Cardinality(T) PROVE Sorted(T)[k] \in T
      /\ Sorted(S)[Cardinality(A) + k] = Sorted(T)[k]
  <2> DEFINE x == Sorted(T)[k]
  <2>1. x \in T /\ Cardinality(UpTo(T, x)) = k
    BY <1>1, <1>2, SortedIs
  <2> HIDE DEF x
  <2>2. IsFiniteSet(UpTo(T, x))
    BY <1>2, <1>4, <2>1, FS_Subset
  <2>3. Cardinality(UpTo(S, x)) = Cardinality(A) + k
    BY <1>3, <1>4, <2>1, <2>2
  <2>4. x \in S
    BY <1>1, <2>1
  <2>5. Sorted(S)[Cardinality(UpTo(S, x))] = x
    BY <2>4, SortedIs
  <2> QED
    BY <2>1, <2>3, <2>5 DEF x
<1>6. Cardinality(S) = Cardinality(A) + Cardinality(T)
  BY <1>1, <1>2, <1>3
<1> QED
  BY <1>2, <1>5, <1>6 DEF T, A

-----------------------------------------------------------------------------
(* The panel of a pull.                                                    *)

PullMessage == [type : {"ready", "event", "end"}, id : Nat, payload : Pull!Payload]

PullStreamOK ==
    /\ jobState \in Pull!JobState
    /\ log \in Seq(Pull!Payload) /\ Len(log) > 0
    /\ conn \in [open : BOOLEAN, cursor : 0..Len(log), pipe : Seq(PullMessage)]
    /\ breaks \in 0..MaxBreaks

PullPanelOK ==
    /\ shown \in Pull!JobState \cup {None}
    /\ source \in {"none", "open", "waiting", "closed", "refused"}
    /\ reopened \in 0..MaxReopens
    /\ received \in Seq(Nat)
    /\ reply \in Pull!JobState \cup {"asked", None}
    /\ asking \in BOOLEAN

\* The sequence numbers of what a panel can be shown.
PullPublic == {i \in DOMAIN log : log[i] \in Pull!Visible}

\* What was received is a beginning of what was recorded.
ReceivedOK ==
    /\ Len(received) <= Len(Pull!Recorded)
    /\ \A n \in 1..Len(received) : received[n] = Pull!Recorded[n]

\* On the way of a panel that has received n events of those recorded: at most the state at
\* the beginning (r), then the m events that follow, then perhaps the end (e).
OnItsWay(pipe, n, all, r, m, e) ==
    /\ Len(pipe) = r + m + e
    /\ r = 1 => pipe[1].type = "ready" /\ pipe[1].id = 0 /\ pipe[1].payload \in Pull!JobState
    /\ \A k \in 1..m :
           n + k <= Len(all) /\ pipe[r + k].type = "event" /\ pipe[r + k].id = all[n + k]
    /\ e = 1 => LET last == pipe[r + m + 1] IN
                last.type = "end" /\ last.id = 0 /\ last.payload \in Pull!JobState

\* The cursor stands after what is on its way; the end is written when the job has ended.
PullFlow(r, m, e) ==
    /\ OnItsWay(conn.pipe, Len(received), Pull!Recorded, r, m, e)
    /\ e = 1 => Pull!Terminal /\ conn.cursor = Len(log)
    /\ conn.open <=> e = 0
    /\ Cardinality(UpTo(PullPublic, conn.cursor)) = Len(received) + m

FlightOK ==
    IF source = "open" THEN \E r \in {0, 1}, m \in Nat, e \in {0, 1} : PullFlow(r, m, e)
    ELSE conn = Pull!Closed

\* Nothing is received without a source.
NoSourceOK == source = "none" => received = <<>>

PullInv == PullStreamOK /\ PullPanelOK /\ ReceivedOK /\ FlightOK /\ NoSourceOK
      /\ Pull!EndIsComplete

\* The number of elements is the same operator under every name.
LEMMA PullCounts == \A S : Pull!Cardinality(S) = Cardinality(S)
  BY DEF Pull!Cardinality, Cardinality

LEMMA PullStatesAre ==
    /\ Pull!TERMINAL_STATES \subseteq Pull!JobState /\ Pull!ACTIVE_STATES \subseteq Pull!JobState
    /\ Pull!TERMINAL_STATES \cap Pull!ACTIVE_STATES = {}
         /\ Pull!JobState = Pull!TERMINAL_STATES \cup Pull!ACTIVE_STATES
    /\ \A a, b : Pull!CanTransition(a, b) => a \in Pull!ACTIVE_STATES /\ b \in Pull!JobState
    /\ Pull!JobState \subseteq Pull!Visible /\ "progress" \in Pull!Visible
         /\ "progress" \notin Pull!JobState
    /\ Pull!Visible \subseteq Pull!Payload
  BY DEF Pull!TERMINAL_STATES, Pull!ACTIVE_STATES, Pull!JobState, Pull!CanTransition,
     Pull!TRANSITIONS, Pull!Visible, Pull!Payload

LEMMA PullInOrderIs == ASSUME NEW S PROVE Pull!InOrder(S) = Sorted(S)
  BY PullCounts DEF Pull!InOrder, Sorted, UpTo

\* The numbers of what can be shown are a finite set.
LEMMA PublicIs ==
    ASSUME PullStreamOK
    PROVE  /\ Len(log) \in Nat /\ DOMAIN log = 1..Len(log)
           /\ PullPublic \subseteq 1..Len(log) /\ PullPublic \in SUBSET Nat
                /\ IsFiniteSet(PullPublic)
           /\ Pull!Recorded = Sorted(PullPublic)
           /\ Pull!Recorded \in Seq(1..Len(log)) /\ Pull!Recorded \in Seq(Nat)
           /\ Len(Pull!Recorded) = Cardinality(PullPublic)
<1>1. Len(log) \in Nat /\ DOMAIN log = 1..Len(log)
  BY DEF PullStreamOK
<1>2. PullPublic \subseteq 1..Len(log)
  BY <1>1 DEF PullPublic
<1>3. IsFiniteSet(1..Len(log))
  BY <1>1, FS_Interval
<1>4. \A i \in PullPublic : i \in Nat
  BY <1>1, <1>2
<1>5. IsFiniteSet(PullPublic)
  BY <1>2, <1>3, FS_Subset
<1>6. Pull!Recorded = Sorted(PullPublic)
  BY PullInOrderIs DEF Pull!Recorded, PullPublic
<1>7. Pull!Recorded \in Seq(PullPublic) /\ Len(Pull!Recorded) = Cardinality(PullPublic)
  BY <1>4, <1>5, <1>6, SortedIs
<1>8. /\ \A n \in 1..Len(Pull!Recorded) : Pull!Recorded[n] \in PullPublic
      /\ Pull!Recorded = [n \in 1..Len(Pull!Recorded) |-> Pull!Recorded[n]]
           /\ Len(Pull!Recorded) \in Nat
  BY <1>7
<1>9. \A n \in 1..Len(Pull!Recorded) : Pull!Recorded[n] \in 1..Len(log)
      /\ Pull!Recorded[n] \in Nat
  BY <1>2, <1>4, <1>8
<1>10. Pull!Recorded \in Seq(1..Len(log)) /\ Pull!Recorded \in Seq(Nat)
  BY <1>8, <1>9
<1> QED
  BY <1>1, <1>2, <1>4, <1>5, <1>6, <1>7, <1>10

\* How many events a cursor has passed.
LEMMA PassedIs ==
    ASSUME PullStreamOK
    PROVE  /\ Cardinality(UpTo(PullPublic, 0)) = 0
           /\ Cardinality(UpTo(PullPublic, Len(log))) = Len(Pull!Recorded)
           /\ \A n \in 1..Len(Pull!Recorded) : Cardinality(UpTo(PullPublic, Pull!Recorded[n])) = n
<1>1. UpTo(PullPublic, 0) = {}
  BY PublicIs DEF UpTo
<1>2. UpTo(PullPublic, Len(log)) = PullPublic
  BY PublicIs DEF UpTo
<1>3. \A n \in 1..Len(Pull!Recorded) : Cardinality(UpTo(PullPublic, Pull!Recorded[n])) = n
  BY PublicIs, SortedIs
<1> QED
  BY <1>1, <1>2, <1>3, PublicIs, FS_EmptySet

\* What the loop writes is what follows the cursor.
LEMMA PullNewEventsAre ==
    ASSUME PullStreamOK
    PROVE  LET c == Cardinality(UpTo(PullPublic, conn.cursor)) IN
           /\ Pull!NewEvents \in Seq(PullMessage) /\ c \in Nat
           /\ Len(Pull!Recorded) = c + Len(Pull!NewEvents)
           /\ \A k \in 1..Len(Pull!NewEvents) : /\ Pull!NewEvents[k].type = "event"
                                                /\ Pull!NewEvents[k].id = Pull!Recorded[c + k]
<1> DEFINE S == {i \in DOMAIN log : i > conn.cursor /\ log[i] \in Pull!Visible}
           T == {x \in PullPublic : x > conn.cursor}
           ids == Sorted(T)
           c == Cardinality(UpTo(PullPublic, conn.cursor))
<1>1. S = T
  BY DEF PullPublic
<1>2. conn.cursor \in Nat
  BY PublicIs DEF PullStreamOK
<1>3. /\ IsFiniteSet(T) /\ c \in Nat /\ Cardinality(PullPublic) = c + Cardinality(T)
           /\ Cardinality(T) \in Nat
      /\ \A k \in 1..Cardinality(T) : ids[k] \in T /\ Sorted(PullPublic)[c + k] = ids[k]
  BY <1>2, PublicIs, SortedSplit
<1>4. T \in SUBSET Nat /\ T \subseteq 1..Len(log)
  BY PublicIs
<1>5. Len(ids) = Cardinality(T)
  BY <1>3, <1>4, SortedIs
<1>6. Pull!NewEvents = [k \in 1..Len(ids) |->
      [type |-> "event", id |-> ids[k], payload |-> log[ids[k]]]]
  BY <1>1, PullInOrderIs DEF Pull!NewEvents
<1> HIDE DEF ids, S, c
<1>7. \A k \in 1..Len(ids) : ids[k] \in 1..Len(log) /\ ids[k] \in Nat
      /\ log[ids[k]] \in Pull!Payload
  <2>1. \A i \in 1..Len(log) : log[i] \in Pull!Payload
    BY DEF PullStreamOK
  <2> HIDE DEF T
  <2> QED
    BY <1>3, <1>4, <1>5, <2>1
<1>8. \A k \in 1..Len(ids) :
          [type |-> "event", id |-> ids[k], payload |-> log[ids[k]]] \in PullMessage
  BY <1>7 DEF PullMessage
<1> HIDE DEF T
<1>9. Pull!NewEvents \in Seq(PullMessage) /\ Len(Pull!NewEvents) = Len(ids)
  BY <1>3, <1>5, <1>6, <1>8
<1> QED
  BY <1>3, <1>5, <1>6, <1>9, PublicIs DEF c

LEMMA PullInitially == Pull!Init => PullInv
<1> SUFFICES ASSUME Pull!Init PROVE PullInv
  OBVIOUS
<1>1. jobState = "queued" /\ log = <<"queued">> /\ conn = Pull!Closed /\ breaks = 0
  BY DEF Pull!Init, Pull!StreamInit
<1>2. "queued" \in Pull!JobState /\ "queued" \in Pull!Payload
  BY DEF Pull!JobState, Pull!Payload, Pull!Visible
<1>3. log \in Seq(Pull!Payload) /\ Len(log) = 1
  BY <1>1, <1>2
<1>4. PullStreamOK
  BY <1>1, <1>2, <1>3, PullPanelAssumption DEF PullStreamOK, Pull!Closed
<1>5. Len(received) = 0 /\ received \in Seq(Nat) /\ received = <<>>
  BY DEF Pull!Init
<1>6. ReceivedOK
  BY <1>4, <1>5, PublicIs DEF ReceivedOK
<1> QED
  BY <1>1, <1>4, <1>5, <1>6, PullPanelAssumption DEF Pull!Init, PullInv, PullPanelOK, FlightOK,
     NoSourceOK, Pull!EndIsComplete

\* The job records one more event.
LEMMA Records ==
    ASSUME PullStreamOK, NEW p \in Pull!Payload, log' = Append(log, p), PullStreamOK'
    PROVE  /\ Pull!Recorded' \in {Pull!Recorded, Append(Pull!Recorded, Len(log) + 1)}
           /\ \A n \in 1..Len(Pull!Recorded) : Pull!Recorded'[n] = Pull!Recorded[n]
           /\ Len(Pull!Recorded') >= Len(Pull!Recorded)
           /\ \A a \in 0..Len(log) : UpTo(PullPublic', a) = UpTo(PullPublic, a)
<1> DEFINE m == Len(log) + 1
<1>1. /\ DOMAIN log' = 1..m /\ log'[m] = p /\ m \in Nat
      /\ \A i \in 1..Len(log) : log'[i] = log[i]
  BY PublicIs DEF PullStreamOK
<1>2. PullPublic' = IF p \in Pull!Visible THEN PullPublic \cup {m} ELSE PullPublic
  <2>1. \A i : i \in DOMAIN log' <=> i \in DOMAIN log \/ i = m
    BY <1>1, PublicIs
  <2>2. m \notin DOMAIN log
    BY PublicIs
  <2> QED
    BY <1>1, <2>1, <2>2, PublicIs DEF PullPublic
<1>3. \A x \in PullPublic : x < m
  BY PublicIs
<1>4. Pull!Recorded' = Sorted(PullPublic')
  BY PullInOrderIs DEF Pull!Recorded, PullPublic
<1>5. Pull!Recorded' = IF p \in Pull!Visible THEN Append(Pull!Recorded, m) ELSE Pull!Recorded
  BY <1>1, <1>2, <1>3, <1>4, PublicIs, SortedAppend
<1>6. \A a \in 0..Len(log) : UpTo(PullPublic', a) = UpTo(PullPublic, a)
  BY <1>1, <1>2, PublicIs DEF UpTo
<1> HIDE DEF m
<1>7. Pull!Recorded \in Seq(Nat) /\ Len(Pull!Recorded) \in Nat
  BY PublicIs
<1>8. \A n \in 1..Len(Pull!Recorded) : Append(Pull!Recorded, m)[n] = Pull!Recorded[n]
  BY <1>1, <1>7
<1>9. Len(Append(Pull!Recorded, m)) = Len(Pull!Recorded) + 1
  BY <1>1, <1>7
<1> QED
  BY <1>5, <1>6, <1>7, <1>8, <1>9 DEF m

\* More events are recorded.
LEMMA RecordedSince ==
    ASSUME NEW p, NEW n \in Nat, NEW all \in Seq(Nat), NEW more \in Seq(Nat),
           NEW r \in {0, 1}, NEW m \in Nat, NEW e \in {0, 1}, OnItsWay(p, n, all, r, m, e),
           Len(more) >= Len(all), \A k \in 1..Len(all) : more[k] = all[k]
    PROVE  OnItsWay(p, n, more, r, m, e)
<1>1. ASSUME NEW k \in 1..m
      PROVE  n + k <= Len(more) /\ p[r + k].type = "event" /\ p[r + k].id = more[n + k]
  <2>1. n + k <= Len(all) /\ p[r + k].type = "event" /\ p[r + k].id = all[n + k]
    BY DEF OnItsWay
  <2>2. n + k \in 1..Len(all) /\ Len(all) \in Nat /\ Len(more) \in Nat
    BY <2>1
  <2> QED
    BY <2>1, <2>2
<1> QED
  BY <1>1 DEF OnItsWay

\* The job takes a step, while the panel and the connection stay.
LEMMA PullJobSteps ==
    ASSUME PullInv, ~Pull!Terminal, NEW p \in Pull!Payload, log' = Append(log, p),
          jobState' \in Pull!JobState,
           UNCHANGED <<conn, breaks, shown, source, reopened, received, asking>>,
           reply' \in {reply} \cup Pull!JobState
    PROVE  PullInv'
<1>1. PullStreamOK'
  <2>1. log' \in Seq(Pull!Payload) /\ Len(log') = Len(log) + 1 /\ Len(log) \in Nat
    BY PublicIs DEF PullInv, PullStreamOK
  <2> QED
    BY <2>1 DEF PullInv, PullStreamOK
<1>2. PullPanelOK' /\ NoSourceOK'
  BY DEF PullInv, PullPanelOK, NoSourceOK
<1>3. Pull!EndIsComplete'
  BY DEF PullInv, Pull!EndIsComplete
<1>4. /\ Pull!Recorded' \in {Pull!Recorded, Append(Pull!Recorded, Len(log) + 1)}
      /\ \A n \in 1..Len(Pull!Recorded) : Pull!Recorded'[n] = Pull!Recorded[n]
      /\ Len(Pull!Recorded') >= Len(Pull!Recorded)
      /\ \A a \in 0..Len(log) : UpTo(PullPublic', a) = UpTo(PullPublic, a)
  BY <1>1, Records DEF PullInv
<1>5. Len(Pull!Recorded) \in Nat /\ Len(Pull!Recorded') \in Nat /\ Len(received) \in Nat
  BY <1>1, PublicIs DEF PullInv, PullPanelOK
<1>6. ReceivedOK'
  BY <1>4, <1>5 DEF PullInv, ReceivedOK
<1>7. ASSUME NEW r \in {0, 1}, NEW m \in Nat, NEW e \in {0, 1}, PullFlow(r, m, e)
      PROVE PullFlow(r, m, e)'
  <2>1. e = 0
    BY <1>7 DEF PullFlow
  <2>2. conn.cursor \in 0..Len(log)
    BY DEF PullInv, PullStreamOK
  <2>3. OnItsWay(conn.pipe, Len(received), Pull!Recorded', r, m, e)
    <3>1. Pull!Recorded \in Seq(Nat) /\ Pull!Recorded' \in Seq(Nat)
      <4>1. Pull!Recorded \in Seq(Nat) /\ Len(log) + 1 \in Nat
        BY PublicIs DEF PullInv
      <4> QED
        BY <1>4, <4>1
    <3>2. OnItsWay(conn.pipe, Len(received), Pull!Recorded, r, m, e)
      BY <1>7 DEF PullFlow
    <3> QED
      <4> DEFINE n == Len(received) all == Pull!Recorded more == Pull!Recorded'
      <4>1. /\ n \in Nat /\ all \in Seq(Nat) /\ more \in Seq(Nat) /\ Len(more) >= Len(all)
            /\ \A k \in 1..Len(all) : more[k] = all[k]
            /\ OnItsWay(conn.pipe, n, all, r, m, e)
        BY <1>4, <1>5, <3>1, <3>2
      <4> HIDE DEF n, all, more
      <4>2. OnItsWay(conn.pipe, n, more, r, m, e)
        BY <4>1, RecordedSince
      <4> QED
        BY <4>2 DEF n, more
  <2>4. Cardinality(UpTo(PullPublic', conn.cursor)) = Len(received) + m
    BY <1>4, <1>7, <2>2 DEF PullFlow
  <2> QED
    BY <1>7, <2>1, <2>3, <2>4 DEF PullFlow
<1>8. FlightOK'
  BY <1>7 DEF PullInv, FlightOK
<1> QED
  BY <1>1, <1>2, <1>3, <1>6, <1>8 DEF PullInv

LEMMA PullTransitionIs ==
    ASSUME PullStreamOK, NEW to, Pull!Transition(to)
    PROVE  /\ jobState' = to /\ jobState' \in Pull!JobState /\ to \in Pull!Payload
                /\ ~Pull!Terminal
           /\ log' = Append(log, to) /\ UNCHANGED <<conn, breaks>>
  BY PullStatesAre DEF PullStreamOK, Pull!Transition, Pull!Terminal

LEMMA PullJobNextStep == ASSUME PullInv, Pull!JobNext /\ UNCHANGED Pull!panelVars PROVE PullInv'
<1>1. CASE \E to \in Pull!JobState : Pull!Transition(to)
  <2>1. PICK to \in Pull!JobState : Pull!Transition(to)
    BY <1>1
  <2> QED
    BY <2>1, PullTransitionIs, PullJobSteps DEF PullInv, Pull!panelVars
<1>2. CASE \E payload \in {"progress", "hidden"} : Pull!AppendEvent(payload)
  <2>1. PICK payload \in {"progress", "hidden"} : Pull!AppendEvent(payload)
    BY <1>2
  <2>2. payload \in Pull!Payload
    BY <2>1, PullStatesAre DEF Pull!Payload
  <2> QED
    BY <2>1, <2>2, PullJobSteps, PullCounts DEF Pull!AppendEvent, Pull!panelVars, PullInv,
       PullStreamOK
<1> QED
  BY <1>1, <1>2 DEF Pull!JobNext

\* Neither the job nor what was received changes.
LEMMA Quiet ==
    ASSUME PullInv, UNCHANGED <<jobState, log>>
    PROVE  /\ Pull!Recorded' = Pull!Recorded /\ PullPublic' = PullPublic
                /\ (Pull!Terminal' <=> Pull!Terminal)
           /\ (received' = received => ReceivedOK')
<1>1. PullPublic' = PullPublic /\ (Pull!Terminal' <=> Pull!Terminal)
  BY DEF PullPublic, Pull!Terminal
<1>2. Pull!Recorded' = Sorted(PullPublic')
  BY PullInOrderIs DEF Pull!Recorded, PullPublic
<1>3. Pull!Recorded' = Pull!Recorded
  BY <1>1, <1>2, PublicIs DEF PullInv
<1> QED
  BY <1>1, <1>3 DEF PullInv, ReceivedOK

\* Two sequences, one after the other.
LEMMA Joined ==
    ASSUME NEW S, NEW a \in Seq(S), NEW b \in Seq(S)
    PROVE  /\ a \o b \in Seq(S) /\ Len(a \o b) = Len(a) + Len(b)
           /\ \A k \in 1..Len(a) : (a \o b)[k] = a[k]
           /\ \A k \in 1..Len(b) : (a \o b)[Len(a) + k] = b[k]
<1>1. /\ a \o b \in Seq(S) /\ Len(a \o b) = Len(a) + Len(b)
      /\ \A k \in 1..Len(a) : (a \o b)[k] = a[k]
  OBVIOUS
<1>2. ASSUME NEW k \in 1..Len(b) PROVE (a \o b)[Len(a) + k] = b[k]
  <2>1. (Len(a) + k) - Len(a) = k
    OBVIOUS
  <2> QED
    BY <2>1
<1> QED
  BY <1>1, <1>2

\* All events that follow the first c, and at most the end.
Following(q, all, c) ==
    /\ Len(all) = c + Len(q)
    /\ \A k \in 1..Len(q) : q[k].type = "event" /\ q[k].id = all[c + k]

AtMostEnd(t, e) ==
    /\ Len(t) = e
    /\ e = 1 => t[1].type = "end" /\ t[1].id = 0 /\ t[1].payload \in Pull!JobState

\* More events, and perhaps the end, are written after what is on its way.
LEMMA Written ==
    ASSUME NEW p \in Seq(PullMessage), NEW q \in Seq(PullMessage), NEW t \in Seq(PullMessage),
           NEW n \in Nat, NEW all \in Seq(Nat), NEW r \in {0, 1}, NEW m \in Nat, NEW e \in {0, 1},
           OnItsWay(p, n, all, r, m, 0), Following(q, all, n + m), AtMostEnd(t, e)
    PROVE  p \o q \o t \in Seq(PullMessage) /\ OnItsWay(p \o q \o t, n, all, r, m + Len(q), e)
<1> DEFINE d == p \o q
           w == d \o t
           l == Len(q)
<1>0. /\ Len(all) = n + m + Len(q)
      /\ \A k \in 1..Len(q) : q[k].type = "event" /\ q[k].id = all[n + m + k]
      /\ Len(t) = e
      /\ e = 1 => t[1].type = "end" /\ t[1].id = 0 /\ t[1].payload \in Pull!JobState
  BY DEF Following, AtMostEnd
<1>1. /\ d \in Seq(PullMessage) /\ Len(d) = Len(p) + l /\ l \in Nat /\ Len(p) \in Nat
      /\ \A k \in 1..Len(p) : d[k] = p[k]
      /\ \A k \in 1..l : d[Len(p) + k] = q[k]
  BY Joined
<1> HIDE DEF d
<1>2. /\ w \in Seq(PullMessage) /\ Len(w) = Len(d) + e
      /\ \A k \in 1..Len(d) : w[k] = d[k]
      /\ \A k \in 1..Len(t) : w[Len(d) + k] = t[k]
  <2>1. /\ w \in Seq(PullMessage) /\ Len(w) = Len(d) + Len(t)
        /\ \A k \in 1..Len(d) : w[k] = d[k]
        /\ \A k \in 1..Len(t) : w[Len(d) + k] = t[k]
    <3>1. d \in Seq(PullMessage)
      BY <1>1
    <3> QED
      BY <3>1, Joined
  <2> QED
    BY <1>0, <2>1
<1>3. Len(p) = r + m
  BY DEF OnItsWay
<1> HIDE DEF w, l
<1>4. Len(w) = r + (m + l) + e
  BY <1>1, <1>2, <1>3
<1>5. ASSUME NEW k \in 1..(r + m) PROVE w[k] = p[k]
  <2>1. k \in 1..Len(p) /\ k \in 1..Len(d)
    BY <1>1, <1>3
  <2> QED
    BY <1>1, <1>2, <2>1
<1>6. r = 1 => w[1].type = "ready" /\ w[1].id = 0 /\ w[1].payload \in Pull!JobState
  BY <1>5 DEF OnItsWay
<1>7. ASSUME NEW k \in 1..(m + l)
      PROVE  n + k <= Len(all) /\ w[r + k].type = "event" /\ w[r + k].id = all[n + k]
  <2>1. CASE k <= m
    <3>1. k \in 1..m /\ r + k \in 1..(r + m)
      BY <2>1
    <3>2. n + k <= Len(all) /\ p[r + k].type = "event" /\ p[r + k].id = all[n + k]
      BY <3>1 DEF OnItsWay
    <3> QED
      BY <1>5, <3>1, <3>2
  <2>2. CASE ~(k <= m)
    <3> DEFINE i == k - m
    <3>1. i \in 1..l /\ r + k = Len(p) + i /\ n + k = n + m + i /\ r + k \in 1..Len(d)
      <4>1. Len(p) = r + m /\ Len(d) = r + m + l /\ l \in Nat /\ k \in 1..(m + l)
        BY <1>1, <1>3
      <4> QED
        BY <2>2, <4>1
    <3> HIDE DEF i
    <3>2. w[r + k] = d[Len(p) + i]
      BY <1>2, <3>1
    <3>3. w[r + k] = q[i]
      BY <1>1, <3>1, <3>2
    <3>4. q[i].type = "event" /\ q[i].id = all[n + m + i]
      BY <1>0, <3>1 DEF l
    <3>5. n + k <= Len(all)
      BY <1>0, <1>1, <3>1 DEF l
    <3> QED
      BY <3>1, <3>3, <3>4, <3>5
  <2> QED
    BY <2>1, <2>2
<1>8. e = 1 => w[r + (m + l) + 1] = t[1]
  <2> SUFFICES ASSUME e = 1 PROVE w[r + (m + l) + 1] = t[1]
    OBVIOUS
  <2>1. r + (m + l) + 1 = Len(d) + 1 /\ 1 \in 1..Len(t)
    BY <1>0, <1>1, <1>3
  <2> QED
    BY <1>2, <2>1
<1>9. OnItsWay(w, n, all, r, m + l, e)
  BY <1>0, <1>4, <1>6, <1>7, <1>8 DEF OnItsWay
<1> QED
  BY <1>2, <1>9 DEF d, w, l

\* What the first message is, and what is on its way after it.
LEMMA Dispatched ==
    ASSUME NEW p \in Seq(PullMessage), p # <<>>, NEW n \in Nat, NEW all \in Seq(Nat),
           NEW r \in {0, 1}, NEW m \in Nat, NEW e \in {0, 1}, OnItsWay(p, n, all, r, m, e)
    PROVE  LET h == Head(p) IN
           \/ /\ r = 1 /\ h.type = "ready" /\ h.id = 0 /\ h.payload \in Pull!JobState
              /\ OnItsWay(Tail(p), n, all, 0, m, e)
           \/ /\ r = 0 /\ m > 0 /\ h.type = "event" /\ n + 1 <= Len(all) /\ h.id = all[n + 1]
              /\ OnItsWay(Tail(p), n + 1, all, 0, m - 1, e)
           \/ /\ r = 0 /\ m = 0 /\ e = 1
              /\ h.type = "end" /\ h.id = 0 /\ h.payload \in Pull!JobState
<1> DEFINE t == Tail(p)
<1>1. /\ Head(p) = p[1] /\ Len(p) \in Nat /\ Len(p) > 0 /\ Len(t) = Len(p) - 1
      /\ \A k \in 1..(Len(p) - 1) : t[k] = p[k + 1]
  OBVIOUS
<1> HIDE DEF t
<1>2. Len(p) = r + m + e
  BY DEF OnItsWay
<1>3. CASE r = 1
  <2>1. p[1].type = "ready" /\ p[1].id = 0 /\ p[1].payload \in Pull!JobState
    BY <1>3 DEF OnItsWay
  <2>2. ASSUME NEW k \in 1..m
        PROVE  n + k <= Len(all) /\ t[0 + k].type = "event" /\ t[0 + k].id = all[n + k]
    <3>1. k \in 1..(Len(p) - 1) /\ k + 1 = r + k /\ 0 + k = k
      BY <1>2, <1>3
    <3>2. n + k <= Len(all) /\ p[r + k].type = "event" /\ p[r + k].id = all[n + k]
      BY DEF OnItsWay
    <3> QED
      BY <1>1, <3>1, <3>2
  <2>3. e = 1 => t[0 + m + 1] = p[r + m + 1]
    <3> SUFFICES ASSUME e = 1 PROVE t[0 + m + 1] = p[r + m + 1]
      OBVIOUS
    <3>1. m + 1 \in 1..(Len(p) - 1) /\ 0 + m + 1 = m + 1 /\ r + m + 1 = (m + 1) + 1
      BY <1>2, <1>3
    <3> QED
      BY <1>1, <3>1
  <2>4. Len(t) = 0 + m + e
    BY <1>1, <1>2, <1>3
  <2>5. OnItsWay(t, n, all, 0, m, e)
    BY <2>2, <2>3, <2>4 DEF OnItsWay
  <2> QED
    BY <1>1, <1>3, <2>1, <2>5 DEF t
<1>4. CASE r = 0 /\ m > 0
  <2>1. n + 1 <= Len(all) /\ p[1].type = "event" /\ p[1].id = all[n + 1]
    <3>1. 1 \in 1..m /\ r + 1 = 1
      BY <1>4
    <3> QED
      BY <3>1 DEF OnItsWay
  <2>2. ASSUME NEW k \in 1..(m - 1)
        PROVE  /\ (n + 1) + k <= Len(all)
               /\ t[0 + k].type = "event" /\ t[0 + k].id = all[(n + 1) + k]
    <3> DEFINE i == k + 1
    <3>1. k \in 1..(Len(p) - 1) /\ i \in 1..m /\ 0 + k = k /\ r + i = k + 1 /\ (n + 1) + k = n + i
      BY <1>2, <1>4
    <3> HIDE DEF i
    <3>2. n + i <= Len(all) /\ p[r + i].type = "event" /\ p[r + i].id = all[n + i]
      BY <3>1 DEF OnItsWay
    <3> QED
      BY <1>1, <3>1, <3>2
  <2>3. e = 1 => t[0 + (m - 1) + 1] = p[r + m + 1]
    <3> SUFFICES ASSUME e = 1 PROVE t[0 + (m - 1) + 1] = p[r + m + 1]
      OBVIOUS
    <3>1. m \in 1..(Len(p) - 1) /\ 0 + (m - 1) + 1 = m /\ r + m + 1 = m + 1
      BY <1>2, <1>4
    <3> QED
      BY <1>1, <3>1
  <2>4. Len(t) = 0 + (m - 1) + e
    BY <1>1, <1>2, <1>4
  <2>5. OnItsWay(t, n + 1, all, 0, m - 1, e)
    BY <2>2, <2>3, <2>4 DEF OnItsWay
  <2> QED
    BY <1>1, <1>4, <2>1, <2>5 DEF t
<1>5. CASE r = 0 /\ m = 0
  <2>1. e = 1 /\ r + m + 1 = 1
    BY <1>1, <1>2, <1>5
  <2> QED
    BY <1>1, <1>5, <2>1 DEF OnItsWay
<1> QED
  BY <1>3, <1>4, <1>5

LEMMA PullPollStep == ASSUME PullInv, Pull!PollPullStream PROVE PullInv'
<1>1. PullStreamOK /\ conn.open /\ UNCHANGED <<jobState, log, breaks, Pull!panelVars>>
  BY DEF PullInv, Pull!PollPullStream, Pull!PollStream
<1>2. source = "open"
  BY <1>1 DEF PullInv, FlightOK, Pull!Closed
<1>3. PICK r \in {0, 1}, m \in Nat, e \in {0, 1} : PullFlow(r, m, e)
  BY <1>2 DEF PullInv, FlightOK
<1> DEFINE c == Cardinality(UpTo(PullPublic, conn.cursor))
           k0 == Len(Pull!NewEvents)
           tail == IF Pull!Terminal THEN <<Pull!End>> ELSE <<>>
           e1 == IF Pull!Terminal THEN 1 ELSE 0
           pipe == conn.pipe \o Pull!NewEvents \o tail
<1>4. /\ Pull!NewEvents \in Seq(PullMessage) /\ c \in Nat /\ k0 \in Nat
      /\ Len(Pull!Recorded) = c + k0
      /\ \A k \in 1..k0 : Pull!NewEvents[k].type = "event"
           /\ Pull!NewEvents[k].id = Pull!Recorded[c + k]
  BY <1>1, PullNewEventsAre
<1>5. /\ Pull!Terminal => Pull!End \in PullMessage /\ Pull!End.type = "end" /\ Pull!End.id = 0
           /\ Pull!End.payload \in Pull!JobState
      /\ tail \in Seq(PullMessage) /\ Len(tail) = e1 /\ (Pull!Terminal => tail[1] = Pull!End)
  <2>1. Pull!Terminal => Pull!End \in PullMessage /\ Pull!End.type = "end" /\ Pull!End.id = 0
        /\ Pull!End.payload \in Pull!JobState
    BY <1>1, PullStatesAre DEF PullStreamOK, Pull!End, PullMessage
  <2> QED
    BY <2>1
<1>6. conn' = [conn EXCEPT !.cursor = Len(log), !.open = ~Pull!Terminal, !.pipe = pipe]
  BY DEF Pull!PollPullStream, Pull!PollStream, tail
<1>7. conn.pipe \in Seq(PullMessage) /\ c = Len(received) + m /\ Len(received) \in Nat
  BY <1>1, <1>3 DEF PullStreamOK, PullFlow, PullInv, PullPanelOK
<1>8. e = 0
  BY <1>1, <1>3 DEF PullFlow
<1> HIDE DEF tail, e1, c, k0
<1>16. OnItsWay(conn.pipe, Len(received), Pull!Recorded, r, m, 0)
  BY <1>3, <1>8 DEF PullFlow
<1>17. Pull!Recorded \in Seq(Nat) /\ e1 \in {0, 1} /\ (e1 = 1 <=> Pull!Terminal)
      /\ (e1 = 0 <=> ~Pull!Terminal)
  BY <1>1, PublicIs DEF e1
<1>9. pipe \in Seq(PullMessage) /\ OnItsWay(pipe, Len(received), Pull!Recorded, r, m + k0, e1)
  <2> DEFINE n == Len(received) all == Pull!Recorded p == conn.pipe q == Pull!NewEvents
  <2>1. /\ p \in Seq(PullMessage) /\ q \in Seq(PullMessage) /\ tail \in Seq(PullMessage)
        /\ n \in Nat /\ all \in Seq(Nat) /\ OnItsWay(p, n, all, r, m, 0) /\ k0 = Len(q)
        /\ Following(q, all, n + m)
    BY <1>4, <1>5, <1>7, <1>16, <1>17 DEF k0, Following
  <2>2. AtMostEnd(tail, e1) /\ e1 \in {0, 1}
    BY <1>5, <1>17 DEF AtMostEnd
  <2> HIDE DEF n, all, p, q
  <2>3. p \o q \o tail \in Seq(PullMessage) /\ OnItsWay(p \o q \o tail, n, all, r, m + Len(q), e1)
    BY <2>1, <2>2, Written
  <2> QED
    BY <2>1, <2>3 DEF n, all, p, q
<1> HIDE DEF pipe
<1>18. PICK m1 \in Nat, e2 \in {0, 1} : m1 = m + k0 /\ e2 = e1
  <2>1. m + k0 \in Nat
    BY <1>4
  <2> QED
    BY <1>17, <2>1
<1>10. conn' \in [open : BOOLEAN, cursor : 0..Len(log), pipe : Seq(PullMessage)]
       /\ conn'.pipe = pipe /\ conn'.cursor = Len(log) /\ (conn'.open <=> ~Pull!Terminal)
  <2>1. conn' = [open |-> ~Pull!Terminal, cursor |-> Len(log), pipe |-> pipe]
    BY <1>1, <1>6 DEF PullStreamOK
  <2>2. Len(log) \in 0..Len(log)
    BY <1>1 DEF PullStreamOK
  <2>3. (~Pull!Terminal) \in BOOLEAN
    BY Zenon DEF Pull!Terminal
  <2> QED
    BY <1>9, <2>1, <2>2, <2>3
<1>11. PullStreamOK' /\ PullPanelOK' /\ NoSourceOK'
  BY <1>1, <1>10, <1>2 DEF PullStreamOK, PullInv, PullPanelOK, NoSourceOK, Pull!panelVars
<1>12. Pull!Recorded' = Pull!Recorded /\ PullPublic' = PullPublic
      /\ (Pull!Terminal' <=> Pull!Terminal) /\ ReceivedOK'
  BY <1>1, Quiet DEF Pull!panelVars
<1>13. PullFlow(r, m1, e2)'
  <2>1. Cardinality(UpTo(PullPublic, Len(log))) = Len(received) + m1
    BY <1>1, <1>4, <1>7, <1>18, PassedIs
  <2>2. received' = received /\ log' = log
    BY <1>1 DEF Pull!panelVars
  <2>3. OnItsWay(conn'.pipe, Len(received'), Pull!Recorded', r, m1, e2)
    BY <1>9, <1>10, <1>12, <1>18, <2>2
  <2> QED
    BY <1>10, <1>12, <1>17, <1>18, <2>1, <2>2, <2>3 DEF PullFlow
<1>14. FlightOK'
  <2>1. source' = "open"
    BY <1>1, <1>2 DEF Pull!panelVars
  <2> QED
    BY <1>13, <2>1 DEF FlightOK
<1>15. Pull!EndIsComplete'
  BY <1>1, <1>2 DEF Pull!EndIsComplete, Pull!panelVars
<1> QED
  BY <1>11, <1>12, <1>14, <1>15 DEF PullInv

\* A connection is opened after the events that the source has received.
LEMMA Opens ==
    ASSUME PullStreamOK, PullPanelOK', NEW after \in 0..Len(log),
           Cardinality(UpTo(PullPublic, after)) = Len(received'),
           conn' = Pull!Opened(after), source' = "open", UNCHANGED <<jobState, log, breaks>>,
           Pull!Recorded' = Pull!Recorded, PullPublic' = PullPublic
    PROVE  PullStreamOK' /\ FlightOK'
<1>1. Pull!Ready \in PullMessage /\ Pull!Ready.type = "ready" /\ Pull!Ready.id = 0
      /\ Pull!Ready.payload \in Pull!JobState
  BY PullStatesAre DEF PullStreamOK, Pull!Ready, PullMessage
<1> DEFINE pipe == <<Pull!Ready>>
<1>2. conn' = [open |-> TRUE, cursor |-> after, pipe |-> pipe]
  BY DEF Pull!Opened
<1>3. pipe \in Seq(PullMessage) /\ Len(pipe) = 1 /\ pipe[1] = Pull!Ready
  BY <1>1
<1> HIDE DEF pipe
<1>4. TRUE \in BOOLEAN
  OBVIOUS
<1>5. PullStreamOK'
  BY <1>2, <1>3, <1>4 DEF PullStreamOK
<1>6. PullFlow(1, 0, 0)'
  <2>1. OnItsWay(conn'.pipe, Len(received'), Pull!Recorded', 1, 0, 0)
    BY <1>1, <1>2, <1>3 DEF OnItsWay
  <2>2. Cardinality(UpTo(PullPublic', conn'.cursor)) = Len(received') + 0
    BY <1>2 DEF PullPanelOK
  <2> QED
    BY <1>2, <2>1, <2>2 DEF PullFlow
<1> QED
  BY <1>5, <1>6 DEF FlightOK

\* The job and the connection stay.
LEMMA PullPanelSteps ==
    ASSUME PullInv, UNCHANGED <<Pull!streamVars, received>>, PullPanelOK',
           source' = source \/ (source = "waiting" /\ source' = "refused")
    PROVE  PullInv'
<1>1. UNCHANGED <<jobState, log, conn, breaks, received>>
  BY DEF Pull!streamVars
<1>2. /\ Pull!Recorded' = Pull!Recorded /\ PullPublic' = PullPublic
           /\ (Pull!Terminal' <=> Pull!Terminal)
      /\ ReceivedOK'
  BY <1>1, Quiet
<1>3. ASSUME NEW r, NEW m, NEW e, PullFlow(r, m, e) PROVE PullFlow(r, m, e)'
  BY <1>1, <1>2, <1>3 DEF PullFlow
<1>4. FlightOK'
  BY <1>1, <1>3 DEF PullInv, FlightOK
<1>5. Pull!EndIsComplete' /\ NoSourceOK'
  BY <1>1, <1>2 DEF PullInv, Pull!EndIsComplete, NoSourceOK
<1> QED
  BY <1>1, <1>2, <1>4, <1>5 DEF PullInv, PullStreamOK

\* The panel makes a request, and has it answered.
LEMMA PullRequestStep ==
    ASSUME PullInv, \/ Pull!ReadActive \/ Pull!NoActiveJob \/ Pull!CancelHandled
                         \/ Pull!Answered \/ Pull!Unanswered \/ Pull!Cancel
                    \/ Pull!Refused \/ UNCHANGED Pull!vars
    PROVE  PullInv'
<1>1. CASE Pull!ReadActive \/ Pull!NoActiveJob \/ Pull!Answered \/ Pull!Unanswered
      \/ Pull!Cancel \/ Pull!Refused \/ UNCHANGED Pull!vars
  <2>1. UNCHANGED <<Pull!streamVars, received>>
        /\ (source' = source \/ (source = "waiting" /\ source' = "refused"))
    BY <1>1 DEF Pull!ReadActive, Pull!NoActiveJob, Pull!Answered, Pull!Unanswered,
       Pull!Cancel, Pull!Refused, Pull!vars, Pull!panelVars
  <2>2. PullPanelOK'
    BY <1>1, PullStatesAre DEF Pull!ReadActive, Pull!NoActiveJob, Pull!Answered,
       Pull!Unanswered, Pull!Cancel, Pull!Refused, Pull!vars, Pull!panelVars, PullInv,
       PullPanelOK, PullStreamOK
  <2> QED
    BY <2>1, <2>2, PullPanelSteps
<1>2. CASE Pull!CancelHandled /\ \E to : Pull!Transition(to) /\ reply' = to
  <2>1. PICK to : Pull!Transition(to) /\ reply' = to
    BY <1>2
  <2> QED
    BY <1>2, <2>1, PullTransitionIs, PullJobSteps DEF PullInv, Pull!CancelHandled
<1>3. CASE Pull!CancelHandled /\ reply' = "cancelling" /\ UNCHANGED Pull!streamVars
  <2>1. "cancelling" \in Pull!JobState
    BY DEF Pull!JobState
  <2>2. PullPanelOK' /\ source' = source /\ received' = received
    BY <1>3, <2>1 DEF Pull!CancelHandled, PullInv, PullPanelOK
  <2> QED
    BY <1>3, <2>2, PullPanelSteps
<1>4. Pull!CancelHandled => \/ \E to : Pull!Transition(to) /\ reply' = to
                            \/ reply' = "cancelling" /\ UNCHANGED Pull!streamVars
  BY DEF Pull!CancelHandled
<1> QED
  BY <1>1, <1>2, <1>3, <1>4

\* Another source takes the place of this one.
LEMMA PullReopenStep == ASSUME PullInv, Pull!Reopen PROVE PullInv'
<1>1. /\ UNCHANGED <<jobState, log, breaks, shown, reply, asking>>
      /\ received' = <<>> /\ Len(received') = 0
      /\ source' = "open" /\ conn' = Pull!Opened(0)
      /\ reopened < MaxReopens /\ reopened' = reopened + 1
  BY DEF Pull!Reopen
<1>2. Pull!Recorded' = Pull!Recorded /\ PullPublic' = PullPublic
  BY <1>1, Quiet
<1>3. PullPanelOK' /\ NoSourceOK' /\ Pull!EndIsComplete'
  BY <1>1, PullPanelAssumption DEF PullInv, PullPanelOK, NoSourceOK, Pull!EndIsComplete
<1>4. ReceivedOK'
  BY <1>1, <1>2, PublicIs DEF ReceivedOK, PullInv
<1>5. 0 \in 0..Len(log) /\ Cardinality(UpTo(PullPublic, 0)) = Len(received')
  BY <1>1, PublicIs, PassedIs DEF PullInv
<1> QED
  BY <1>1, <1>2, <1>3, <1>4, <1>5, Opens DEF PullInv

LEMMA PullConnectStep == ASSUME PullInv, Pull!Connect \/ Pull!Reconnect \/ Pull!Interrupted
      PROVE PullInv'
<1>1. UNCHANGED <<jobState, log, received, reopened, shown, reply, asking>>
  BY DEF Pull!Connect, Pull!Reconnect, Pull!Interrupted
<1>2. /\ Pull!Recorded' = Pull!Recorded /\ PullPublic' = PullPublic
           /\ (Pull!Terminal' <=> Pull!Terminal)
      /\ ReceivedOK'
  BY <1>1, Quiet
<1>3. PullPanelOK' /\ NoSourceOK' /\ Pull!EndIsComplete'
  BY <1>1, <1>2 DEF Pull!Connect, Pull!Reconnect, Pull!Interrupted, PullInv, PullPanelOK,
     NoSourceOK, Pull!EndIsComplete
<1>4. CASE Pull!Connect
  <2>1. received = <<>> /\ Len(received) = 0 /\ 0 \in 0..Len(log)
    BY <1>4, PublicIs DEF Pull!Connect, PullInv, NoSourceOK
  <2>2. Cardinality(UpTo(PullPublic, 0)) = Len(received)
    BY <2>1, PassedIs DEF PullInv
  <2>3. conn' = Pull!Opened(0) /\ source' = "open" /\ breaks' = breaks
    BY <1>4 DEF Pull!Connect
  <2> QED
    BY <1>1, <1>2, <1>3, <2>1, <2>2, <2>3, Opens DEF PullInv
<1>5. CASE Pull!Reconnect
  <2>1. Pull!LastEventId \in 0..Len(log)
        /\ Cardinality(UpTo(PullPublic, Pull!LastEventId)) = Len(received)
    <3>1. CASE received = <<>>
      BY <3>1, PublicIs, PassedIs DEF Pull!LastEventId, PullInv
    <3>2. CASE received # <<>>
      <4>1. Len(received) \in 1..Len(received) /\ Pull!LastEventId = received[Len(received)]
        BY <3>2 DEF Pull!LastEventId, PullInv, PullPanelOK
      <4>2. Len(received) \in 1..Len(Pull!Recorded)
            /\ Pull!LastEventId = Pull!Recorded[Len(received)]
        BY <4>1, PublicIs DEF PullInv, ReceivedOK, PullPanelOK
      <4> QED
        BY <4>2, PublicIs, PassedIs DEF PullInv
    <3> QED
      BY <3>1, <3>2
  <2>2. conn' = Pull!Opened(Pull!LastEventId) /\ source' = "open" /\ breaks' = breaks
    BY <1>5 DEF Pull!Reconnect
  <2> QED
    BY <1>1, <1>2, <1>3, <2>1, <2>2, Opens DEF PullInv
<1>6. CASE Pull!Interrupted
  <2>1. breaks' \in 0..MaxBreaks
    BY <1>6, PullPanelAssumption DEF Pull!Interrupted, PullInv, PullStreamOK
  <2>2. conn' = Pull!Closed /\ source' # "open"
    BY <1>6 DEF Pull!Interrupted
  <2>3. conn' \in [open : BOOLEAN, cursor : 0..Len(log), pipe : Seq(PullMessage)]
    BY <2>2, PublicIs DEF Pull!Closed, PullInv
  <2> QED
    BY <1>1, <1>2, <1>3, <2>1, <2>2, <2>3 DEF PullInv, PullStreamOK, FlightOK
<1> QED
  BY <1>4, <1>5, <1>6

\* Two sequences of which one goes on with the other up to its length are equal.
LEMMA SameSeq ==
    ASSUME NEW S, NEW a \in Seq(S), NEW b \in Seq(S), Len(a) = Len(b),
           \A n \in 1..Len(a) : a[n] = b[n]
    PROVE  a = b
  OBVIOUS

LEMMA PullReceiveStep == ASSUME PullInv, Pull!Receive PROVE PullInv'
<1> DEFINE h == Head(conn.pipe)
<1>1. /\ conn.pipe # <<>> /\ UNCHANGED <<jobState, log, breaks, reopened, reply, asking>>
      /\ shown' = Pull!Shows(h)
      /\ received' = IF h.id > 0 THEN Append(received, h.id) ELSE received
      /\ IF h.type = "end" THEN source' = "closed" /\ conn' = Pull!Closed
         ELSE conn' = [conn EXCEPT !.pipe = Tail(@)] /\ UNCHANGED source
  BY DEF Pull!Receive
<1>3. source = "open"
  BY <1>1 DEF PullInv, FlightOK, Pull!Closed
<1>8. PICK r \in {0, 1}, m \in Nat, e \in {0, 1} : PullFlow(r, m, e)
  BY <1>3 DEF PullInv, FlightOK
<1>9. conn.pipe \in Seq(PullMessage) /\ Pull!Recorded \in Seq(Nat) /\ Len(received) \in Nat
      /\ OnItsWay(conn.pipe, Len(received), Pull!Recorded, r, m, e)
  BY <1>8, PublicIs DEF PullInv, PullStreamOK, PullPanelOK, PullFlow
<1>10. \/ /\ r = 1 /\ h.type = "ready" /\ h.id = 0 /\ h.payload \in Pull!JobState
          /\ OnItsWay(Tail(conn.pipe), Len(received), Pull!Recorded, 0, m, e)
       \/ /\ r = 0 /\ m > 0 /\ h.type = "event"
          /\ Len(received) + 1 <= Len(Pull!Recorded) /\ h.id = Pull!Recorded[Len(received) + 1]
          /\ OnItsWay(Tail(conn.pipe), Len(received) + 1, Pull!Recorded, 0, m - 1, e)
       \/ /\ r = 0 /\ m = 0 /\ e = 1
          /\ h.type = "end" /\ h.id = 0 /\ h.payload \in Pull!JobState
  <2> DEFINE p == conn.pipe
             n == Len(received)
             all == Pull!Recorded
  <2>1. p \in Seq(PullMessage) /\ p # <<>> /\ n \in Nat /\ all \in Seq(Nat)
    BY <1>1, <1>9
  <2>2. OnItsWay(p, n, all, r, m, e)
    BY <1>9
  <2> HIDE DEF p, n, all
  <2>3. \/ /\ r = 1 /\ Head(p).type = "ready" /\ Head(p).id = 0
                /\ Head(p).payload \in Pull!JobState
           /\ OnItsWay(Tail(p), n, all, 0, m, e)
        \/ /\ r = 0 /\ m > 0 /\ Head(p).type = "event"
           /\ n + 1 <= Len(all) /\ Head(p).id = all[n + 1]
           /\ OnItsWay(Tail(p), n + 1, all, 0, m - 1, e)
        \/ /\ r = 0 /\ m = 0 /\ e = 1
           /\ Head(p).type = "end" /\ Head(p).id = 0 /\ Head(p).payload \in Pull!JobState
    BY <2>1, <2>2, Dispatched
  <2> QED
    BY <2>3 DEF p, n, all
<1>11. m = 0 /\ e = 1 => Len(received) = Len(Pull!Recorded) /\ Pull!Terminal
  BY <1>8, <1>9, PassedIs DEF PullFlow, PullInv
<1>2. \/ /\ r = 1 /\ h.type = "ready" /\ h.id = 0 /\ h.payload \in Pull!JobState
         /\ OnItsWay(Tail(conn.pipe), Len(received), Pull!Recorded, 0, m, e)
      \/ /\ r = 0 /\ m > 0 /\ h.type = "event"
         /\ Len(received) + 1 <= Len(Pull!Recorded) /\ h.id = Pull!Recorded[Len(received) + 1]
         /\ OnItsWay(Tail(conn.pipe), Len(received) + 1, Pull!Recorded, 0, m - 1, e)
      \/ /\ h.type = "end" /\ h.id = 0 /\ h.payload \in Pull!JobState /\ Pull!Terminal
         /\ Len(received) = Len(Pull!Recorded)
  BY <1>10, <1>11
<1> HIDE DEF h
<1>4. /\ Pull!Recorded' = Pull!Recorded /\ PullPublic' = PullPublic
           /\ (Pull!Terminal' <=> Pull!Terminal)
      /\ Pull!Recorded \in Seq(Nat) /\ received \in Seq(Nat) /\ PullStreamOK
      /\ \A n \in 1..Len(Pull!Recorded) : Pull!Recorded[n] > 0
  <2>1. Pull!Recorded \in Seq(1..Len(log)) /\ Pull!Recorded \in Seq(Nat) /\ Len(log) \in Nat
    BY PublicIs DEF PullInv
  <2>2. \A n \in 1..Len(Pull!Recorded) : Pull!Recorded[n] > 0
    BY <2>1
  <2> QED
    BY <1>1, <2>1, <2>2, Quiet DEF PullInv, PullPanelOK
<1>5. shown' \in Pull!JobState \cup {None}
  BY <1>1, <1>2 DEF Pull!Shows, PullInv, PullPanelOK
<1>6. CASE h.type = "end"
  <2>1. received' = received /\ source' = "closed" /\ conn' = Pull!Closed
    BY <1>1, <1>2, <1>6
  <2>2. received = Pull!Recorded /\ Pull!Terminal
    BY <1>2, <1>4, <1>6, SameSeq DEF PullInv, ReceivedOK
  <2>3. conn' \in [open : BOOLEAN, cursor : 0..Len(log), pipe : Seq(PullMessage)]
    BY <2>1, PublicIs DEF Pull!Closed, PullInv
  <2> QED
    BY <1>1, <1>4, <1>5, <2>1, <2>2, <2>3 DEF PullInv, PullStreamOK, PullPanelOK, ReceivedOK,
       FlightOK, NoSourceOK, Pull!EndIsComplete
<1>7. CASE h.type # "end"
  <2>1. conn' = [conn EXCEPT !.pipe = Tail(@)] /\ source' = source
    BY <1>1, <1>7
  <2> DEFINE pipe == Tail(conn.pipe)
  <2>2. pipe \in Seq(PullMessage)
    BY <1>1, <1>4 DEF PullStreamOK
  <2> HIDE DEF pipe
  <2>3. /\ conn' \in [open : BOOLEAN, cursor : 0..Len(log), pipe : Seq(PullMessage)]
        /\ conn'.pipe = pipe /\ conn'.open = conn.open /\ conn'.cursor = conn.cursor
    BY <1>4, <2>1, <2>2 DEF PullStreamOK, pipe
  <2>4. PullStreamOK'
    BY <1>1, <1>4, <2>3 DEF PullStreamOK
  <2>5. CASE h.type = "ready"
    <3>1. received' = received /\ OnItsWay(pipe, Len(received), Pull!Recorded, 0, m, e)
      BY <1>1, <1>2, <2>5 DEF pipe
    <3>2. ReceivedOK'
      BY <1>4, <3>1 DEF PullInv, ReceivedOK
    <3>3. PullFlow(0, m, e)'
      <4>1. OnItsWay(conn'.pipe, Len(received'), Pull!Recorded', 0, m, e)
        BY <1>4, <2>3, <3>1
      <4> QED
        BY <1>1, <1>4, <1>8, <2>3, <3>1, <4>1 DEF PullFlow
    <3> QED
      BY <1>1, <1>3, <1>5, <2>1, <2>4, <3>1, <3>2, <3>3 DEF PullInv, PullPanelOK, FlightOK,
         NoSourceOK, Pull!EndIsComplete
  <2>6. CASE h.type = "event"
    <3> DEFINE n == Len(received)
    <3>1. /\ m > 0 /\ n \in Nat /\ Len(Pull!Recorded) \in Nat
          /\ n + 1 <= Len(Pull!Recorded) /\ h.id = Pull!Recorded[n + 1]
          /\ OnItsWay(pipe, n + 1, Pull!Recorded, 0, m - 1, e)
      BY <1>2, <1>4, <2>6 DEF pipe
    <3>2. received' = Append(received, h.id) /\ h.id \in Nat
      <4>1. n + 1 \in 1..Len(Pull!Recorded)
        BY <3>1
      <4> QED
        BY <1>1, <1>4, <3>1, <4>1
    <3>3. /\ received' \in Seq(Nat) /\ Len(received') = n + 1
          /\ \A k \in 1..n : received'[k] = received[k]
          /\ received'[n + 1] = h.id
      BY <1>4, <3>2
    <3>4. ReceivedOK'
      <4>1. \A k \in 1..(n + 1) : received'[k] = Pull!Recorded[k]
        BY <3>1, <3>3 DEF PullInv, ReceivedOK
      <4> QED
        BY <1>4, <3>1, <3>3, <4>1 DEF ReceivedOK
    <3>5. PullFlow(0, m - 1, e)'
      <4>1. OnItsWay(conn'.pipe, Len(received'), Pull!Recorded', 0, m - 1, e)
        BY <1>4, <2>3, <3>1, <3>3
      <4>2. Cardinality(UpTo(PullPublic', conn'.cursor)) = Len(received') + (m - 1)
        BY <1>4, <1>8, <2>3, <3>1, <3>3 DEF PullFlow
      <4> QED
        BY <1>1, <1>4, <1>8, <2>3, <4>1, <4>2 DEF PullFlow
    <3>6. m - 1 \in Nat
      BY <3>1
    <3> QED
      BY <1>1, <1>3, <1>5, <2>1, <2>4, <3>3, <3>4, <3>5, <3>6 DEF PullInv, PullPanelOK,
         FlightOK, NoSourceOK, Pull!EndIsComplete
  <2> QED
    BY <1>2, <1>7, <2>5, <2>6
<1> QED
  BY <1>6, <1>7

LEMMA PullPanelStep == PullInv /\ [Pull!Next]_(Pull!vars) => PullInv'
  BY PullJobNextStep, PullPollStep, PullRequestStep, PullConnectStep, PullReopenStep, PullReceiveStep
     DEF Pull!Next, Pull!PanelNext

LEMMA PullPanelIsRight == PullInv => Pull!TypeOK /\ Pull!EndIsComplete
<1> SUFFICES ASSUME PullInv PROVE Pull!TypeOK
  BY DEF PullInv
<1>1. ASSUME NEW k \in DOMAIN conn.pipe PROVE conn.pipe[k].id \in 0..Len(log)
  <2>1. source = "open"
    BY DEF PullInv, FlightOK, Pull!Closed
  <2>2. PICK r \in {0, 1}, m \in Nat, e \in {0, 1} : PullFlow(r, m, e)
    BY <2>1 DEF PullInv, FlightOK
  <2>6. conn.pipe \in Seq(PullMessage) /\ Len(conn.pipe) = r + m + e
    BY <2>2 DEF PullInv, PullStreamOK, PullFlow, OnItsWay
  <2>7. Len(received) \in Nat /\ Len(Pull!Recorded) \in Nat
    BY PublicIs DEF PullInv, PullPanelOK
  <2>3. k \in 1..(r + m + e) /\ Len(received) \in Nat /\ Len(Pull!Recorded) \in Nat
    BY <2>6, <2>7
  <2>4. CASE k <= r
    <3>1. r = 1 /\ k = 1
      BY <2>3, <2>4
    <3> QED
      BY <2>2, <2>3, <3>1, PublicIs DEF PullFlow, OnItsWay, PullInv
  <2>5. CASE k > r /\ k <= r + m
    <3> DEFINE l == k - r
    <3>1. l \in 1..m /\ k = r + l
      BY <2>3, <2>5
    <3> HIDE DEF l
    <3>2. Len(received) + l \in 1..Len(Pull!Recorded)
          /\ conn.pipe[k].id = Pull!Recorded[Len(received) + l]
      BY <2>2, <2>3, <3>1 DEF PullFlow, OnItsWay
    <3>3. Pull!Recorded[Len(received) + l] \in 1..Len(log)
      BY <3>2, PublicIs DEF PullInv
    <3> QED
      BY <3>2, <3>3, PublicIs DEF PullInv
  <2>8. CASE k > r + m
    <3>1. e = 1 /\ k = r + m + 1
      BY <2>3, <2>8
    <3> QED
      BY <2>2, <2>3, <3>1, PublicIs DEF PullFlow, OnItsWay, PullInv
  <2> QED
    BY <2>3, <2>4, <2>5, <2>8
<1>2. received \in Seq(1..Len(log))
  <2>1. \A n \in 1..Len(received) : received[n] \in 1..Len(log)
    BY PublicIs DEF PullInv, ReceivedOK, PullPanelOK
  <2>2. received = [n \in 1..Len(received) |-> received[n]] /\ Len(received) \in Nat
    BY DEF PullInv, PullPanelOK
  <2> QED
    BY <2>1, <2>2
<1> QED
  BY <1>1, <1>2 DEF PullInv, PullStreamOK, PullPanelOK, Pull!TypeOK, Pull!StreamTypeOK

\* The feed takes a step with the job, one with the panel, and starts over with its source.
FeedSteps ==
    \/ Pull!Recorded' = Pull!Recorded /\ received' = received /\ reopened' = reopened
    \/ /\ Len(Pull!Recorded') = Len(Pull!Recorded) + 1
            /\ Pull!Recorded'[Len(Pull!Recorded) + 1] \in Nat
       /\ Pull!Recorded = SubSeq(Pull!Recorded', 1, Len(Pull!Recorded))
       /\ received' = received /\ reopened' = reopened
    \/ /\ Len(received) < Len(Pull!Recorded)
       /\ received' = Append(received, Pull!Recorded[Len(received) + 1])
       /\ Pull!Recorded' = Pull!Recorded /\ reopened' = reopened
    \/ /\ received' = <<>> /\ reopened' = reopened + 1
       /\ Pull!Recorded' = Pull!Recorded

\* What is recorded is the next event of the feed.
LEMMA RecordsNext ==
    ASSUME PullInv, PullInv', NEW p \in Pull!Payload, log' = Append(log, p),
           received' = received, reopened' = reopened
    PROVE  FeedSteps
<1> DEFINE a == Pull!Recorded
           i == Len(log) + 1
           b == Append(a, i)
<1>1. Pull!Recorded' \in {a, b}
  BY Records DEF PullInv
<1>2. a \in Seq(Nat) /\ i \in Nat
  BY PublicIs DEF PullInv
<1> HIDE DEF a, i
<1>3. /\ b \in Seq(Nat) /\ Len(b) = Len(a) + 1 /\ b[Len(a) + 1] = i /\ Len(a) \in Nat
      /\ \A k \in 1..Len(a) : b[k] = a[k]
  BY <1>2
<1> HIDE DEF b
<1>4. /\ SubSeq(b, 1, Len(a)) \in Seq(Nat) /\ Len(SubSeq(b, 1, Len(a))) = Len(a)
      /\ \A k \in 1..Len(a) : SubSeq(b, 1, Len(a))[k] = a[k]
  BY <1>3
<1>5. SubSeq(b, 1, Len(a)) = a
  BY <1>2, <1>4, SameSeq
<1>6. Len(b) = Len(a) + 1 /\ b[Len(a) + 1] \in Nat
  BY <1>2, <1>3
<1> QED
  BY <1>1, <1>5, <1>6 DEF FeedSteps, a

LEMMA PullFeeds == ASSUME PullInv, PullInv', [Pull!Next]_(Pull!vars) PROVE FeedSteps
<1>1. CASE \E to : Pull!Transition(to) /\ UNCHANGED <<received, reopened>>
  BY <1>1, PullTransitionIs, RecordsNext DEF PullInv
<1>2. CASE \E payload \in {"progress", "hidden"} : Pull!AppendEvent(payload)
      /\ UNCHANGED <<received, reopened>>
  <2>1. \A payload \in {"progress", "hidden"} : payload \in Pull!Payload
    BY DEF Pull!Payload, Pull!Visible
  <2> QED
    BY <1>2, <2>1, RecordsNext, PullCounts DEF Pull!AppendEvent
<1>3. CASE UNCHANGED <<jobState, log, received, reopened>>
  BY <1>3, Quiet DEF FeedSteps
<1>4. CASE Pull!Receive
  <2> DEFINE h == Head(conn.pipe)
  <2>1. /\ UNCHANGED <<jobState, log, reopened>> /\ conn.pipe # <<>>
        /\ received' = IF h.id > 0 THEN Append(received, h.id) ELSE received
    BY <1>4 DEF Pull!Receive
  <2>2. source = "open"
    BY <2>1 DEF PullInv, FlightOK, Pull!Closed
  <2>3. PICK r \in {0, 1}, m \in Nat, e \in {0, 1} : PullFlow(r, m, e)
    BY <2>2 DEF PullInv, FlightOK
  <2>4. conn.pipe \in Seq(PullMessage) /\ Pull!Recorded \in Seq(Nat) /\ Len(received) \in Nat
        /\ OnItsWay(conn.pipe, Len(received), Pull!Recorded, r, m, e)
    BY <2>3, PublicIs DEF PullInv, PullStreamOK, PullPanelOK, PullFlow
  <2>5. \/ h.id = 0
        \/ Len(received) + 1 <= Len(Pull!Recorded) /\ h.id = Pull!Recorded[Len(received) + 1]
    <3>1. \/ /\ r = 1 /\ h.type = "ready" /\ h.id = 0 /\ h.payload \in Pull!JobState
             /\ OnItsWay(Tail(conn.pipe), Len(received), Pull!Recorded, 0, m, e)
          \/ /\ r = 0 /\ m > 0 /\ h.type = "event"
             /\ Len(received) + 1 <= Len(Pull!Recorded) /\ h.id = Pull!Recorded[Len(received) + 1]
             /\ OnItsWay(Tail(conn.pipe), Len(received) + 1, Pull!Recorded, 0, m - 1, e)
          \/ /\ r = 0 /\ m = 0 /\ e = 1
             /\ h.type = "end" /\ h.id = 0 /\ h.payload \in Pull!JobState
      <4> DEFINE p == conn.pipe
                 n == Len(received)
                 all == Pull!Recorded
      <4>1. p \in Seq(PullMessage) /\ p # <<>> /\ n \in Nat /\ all \in Seq(Nat)
            /\ OnItsWay(p, n, all, r, m, e)
        BY <2>1, <2>4
      <4> HIDE DEF p, n, all
      <4>2. \/ /\ r = 1 /\ Head(p).type = "ready" /\ Head(p).id = 0
               /\ Head(p).payload \in Pull!JobState
               /\ OnItsWay(Tail(p), n, all, 0, m, e)
            \/ /\ r = 0 /\ m > 0 /\ Head(p).type = "event"
               /\ n + 1 <= Len(all) /\ Head(p).id = all[n + 1]
               /\ OnItsWay(Tail(p), n + 1, all, 0, m - 1, e)
            \/ /\ r = 0 /\ m = 0 /\ e = 1
               /\ Head(p).type = "end" /\ Head(p).id = 0 /\ Head(p).payload \in Pull!JobState
        BY <4>1, Dispatched
      <4> QED
        BY <4>2 DEF p, n, all
    <3> QED
      BY <3>1
  <2>6. Pull!Recorded' = Pull!Recorded
    BY <2>1, Quiet
  <2> HIDE DEF h
  <2>7. Len(Pull!Recorded) \in Nat
    BY <2>4
  <2>8. \/ received' = received
        \/ Len(received) < Len(Pull!Recorded)
             /\ received' = Append(received, Pull!Recorded[Len(received) + 1])
    BY <2>1, <2>4, <2>5, <2>7
  <2> QED
    BY <2>1, <2>6, <2>8 DEF FeedSteps
<1>5. CASE Pull!Reopen
  <2>1. UNCHANGED <<jobState, log>> /\ received' = <<>> /\ reopened' = reopened + 1
    BY <1>5 DEF Pull!Reopen
  <2> QED
    BY <2>1, Quiet DEF FeedSteps
<1>6. \/ \E to : Pull!Transition(to) /\ UNCHANGED <<received, reopened>>
      \/ \E payload \in {"progress", "hidden"} :
              Pull!AppendEvent(payload) /\ UNCHANGED <<received, reopened>>
      \/ UNCHANGED <<jobState, log, received, reopened>>
      \/ Pull!Receive \/ Pull!Reopen
  <2>1. CASE Pull!JobNext /\ UNCHANGED Pull!panelVars
    BY <2>1 DEF Pull!JobNext, Pull!panelVars
  <2>2. CASE Pull!PollPullStream
    BY <2>2 DEF Pull!PollPullStream, Pull!PollStream, Pull!panelVars
  <2>3. CASE Pull!PanelNext
    BY <2>3 DEF Pull!PanelNext, Pull!ReadActive, Pull!NoActiveJob, Pull!CancelHandled,
       Pull!Answered, Pull!Unanswered, Pull!Cancel, Pull!Connect, Pull!Interrupted,
       Pull!Reconnect, Pull!Refused, Pull!streamVars
  <2>4. CASE UNCHANGED Pull!vars
    BY <2>4 DEF Pull!vars, Pull!streamVars, Pull!panelVars
  <2> QED
    BY <2>1, <2>2, <2>3, <2>4 DEF Pull!Next
<1> QED
  BY <1>1, <1>2, <1>3, <1>4, <1>5, <1>6

-----------------------------------------------------------------------------
(* The panel of a create.                                                  *)

CreateMessage == [type : {"ready", "event", "end"}, id : Nat, payload : Create!Payload]

\* What is on its way: events that were recorded, and the end of a job that has ended.
Sound(m) ==
    /\ m.id \in 0..Len(log)
    /\ m.type = "event" => m.id > 0
    /\ m.type = "end" => Create!Terminal /\ m.payload = jobState

CreateStreamOK ==
    /\ jobState \in Create!JobState
    /\ log \in Seq(Create!Payload) /\ Len(log) > 0
    /\ conn \in [open : BOOLEAN, cursor : 0..Len(log), pipe : Seq(CreateMessage)]
    /\ \A k \in DOMAIN conn.pipe : Sound(conn.pipe[k])
    /\ breaks \in 0..MaxBreaks

CreatePanelOK ==
    /\ shown \in Create!JobState \cup {None}
    /\ source \in {"none", "open", "closed"}
    /\ reads \subseteq Create!JobState \cup {"asked"}
    /\ cancel \in Create!JobState \cup {"asked", None}
    /\ failed \in 0..MaxFailedReads
    /\ \A i \in DOMAIN lines : i \in 1..Len(log) /\ lines[i] \in 1..Create!MaxLines

\* Only an open source has a connection.
SourceOK == source # "open" => conn = Create!Closed

\* An answer that tells of a final state tells of the final state.
AnswersOK == \A s \in Create!TERMINAL_STATES : s \in reads \cup {cancel} => s = jobState

CreateInv == CreateStreamOK /\ CreatePanelOK /\ SourceOK /\ AnswersOK /\ Create!OutcomeIsFinal
      /\ Create!NeverDeaf

\* The number of elements is the same operator under every name.
LEMMA CreateCounts == \A S : Create!Cardinality(S) = Cardinality(S)
  BY DEF Create!Cardinality, Cardinality

LEMMA CreateStatesAre ==
    /\ Create!TERMINAL_STATES \subseteq Create!JobState
         /\ Create!ACTIVE_STATES \subseteq Create!JobState
    /\ Create!TERMINAL_STATES \cap Create!ACTIVE_STATES = {}
         /\ Create!JobState = Create!TERMINAL_STATES \cup Create!ACTIVE_STATES
    /\ \A a, b : Create!CanTransition(a, b) => a \in Create!ACTIVE_STATES /\ b \in Create!JobState
    /\ Create!JobState \subseteq Create!Visible /\ "progress" \in Create!Visible
         /\ "progress" \notin Create!JobState
    /\ Create!Visible \subseteq Create!Payload
  BY DEF Create!TERMINAL_STATES, Create!ACTIVE_STATES, Create!JobState, Create!CanTransition,
     Create!TRANSITIONS, Create!Visible, Create!Payload

LEMMA CreateInOrderIs == ASSUME NEW S PROVE Create!InOrder(S) = Sorted(S)
  BY CreateCounts DEF Create!InOrder, Sorted, UpTo

LEMMA CreateNewEventsAre ==
    ASSUME CreateStreamOK
    PROVE  /\ Create!NewEvents \in Seq(CreateMessage)
           /\ \A k \in DOMAIN Create!NewEvents : Sound(Create!NewEvents[k])
<1> DEFINE S == {i \in DOMAIN log : i > conn.cursor /\ log[i] \in Create!Visible}
           ids == Create!InOrder(S)
<1>1. Len(log) \in Nat /\ DOMAIN log = 1..Len(log)
      /\ \A i \in DOMAIN log : log[i] \in Create!Payload
  BY DEF CreateStreamOK
<1>2. S \subseteq 1..Len(log) /\ S \in SUBSET Nat /\ IsFiniteSet(S)
  <2>1. S \subseteq 1..Len(log)
    BY <1>1
  <2>2. IsFiniteSet(1..Len(log))
    BY <1>1, FS_Interval
  <2> HIDE DEF S
  <2>3. \A i \in S : i \in Nat
    BY <1>1, <2>1
  <2> QED
    BY <2>1, <2>2, <2>3, FS_Subset
<1>3. ids \in Seq(S)
  BY <1>2, CreateInOrderIs, SortedIs
<1>4. \A k \in 1..Len(ids) : ids[k] \in 1..Len(log) /\ log[ids[k]] \in Create!Payload
  BY <1>1, <1>2, <1>3
<1>5. Create!NewEvents =
      [k \in 1..Len(ids) |-> [type |-> "event", id |-> ids[k], payload |-> log[ids[k]]]]
  BY DEF Create!NewEvents
<1>6. Len(ids) \in Nat
  BY <1>3
<1> HIDE DEF ids, S
<1>7. \A k \in 1..Len(ids) :
          /\ [type |-> "event", id |-> ids[k], payload |-> log[ids[k]]] \in CreateMessage
          /\ Sound([type |-> "event", id |-> ids[k], payload |-> log[ids[k]]])
  BY <1>1, <1>4 DEF CreateMessage, Sound
<1> QED
  BY <1>5, <1>6, <1>7

\* The messages of a connection stay sound while the job goes on.
LEMMA StaysSound ==
    ASSUME CreateStreamOK, NEW m \in CreateMessage, Sound(m),
           log' \in Seq(Create!Payload), Len(log') >= Len(log), Create!Terminal =>
                 jobState' = jobState
    PROVE  Sound(m)'
  BY DEF CreateStreamOK, Sound, Create!Terminal, CreateMessage

LEMMA CreateInitially == Create!Init => CreateInv
<1> SUFFICES ASSUME Create!Init PROVE CreateInv
  OBVIOUS
<1>1. jobState = "queued" /\ log = <<"queued">> /\ conn = Create!Closed /\ breaks = 0
  BY DEF Create!Init, Create!StreamInit
<1>2. "queued" \in Create!JobState /\ "queued" \in Create!Payload
      /\ "asked" \notin Create!JobState
  BY DEF Create!JobState, Create!Payload, Create!Visible
<1>3. log \in Seq(Create!Payload) /\ Len(log) = 1
  BY <1>1, <1>2
<1>4. CreateStreamOK
  BY <1>1, <1>2, <1>3, CreatePanelAssumption DEF CreateStreamOK, Create!Closed
<1>5. "asked" \notin Create!TERMINAL_STATES /\ None \notin Create!TERMINAL_STATES
      /\ None \notin Create!ACTIVE_STATES
  BY <1>2, CreateStatesAre, CreatePanelAssumption
<1> QED
  BY <1>1, <1>3, <1>4, <1>5, CreatePanelAssumption DEF Create!Init, CreateInv, CreatePanelOK,
     SourceOK, AnswersOK, Create!OutcomeIsFinal, Create!NeverDeaf

\* The job takes a step.
LEMMA CreateJobSteps ==
    ASSUME CreateInv,
           jobState' \in Create!JobState, log' \in Seq(Create!Payload), Len(log') >= Len(log),
           Create!Terminal => jobState' = jobState,
           UNCHANGED <<conn, breaks, shown, source, reads, failed, lines>>,
           \/ cancel' = cancel
           \/ cancel' = jobState' 
    PROVE  CreateInv'
<1>1. CreateStreamOK'
  BY StaysSound DEF CreateInv, CreateStreamOK
<1>2. CreatePanelOK'
  BY DEF CreateInv, CreatePanelOK, CreateStreamOK
<1>3. \A s \in Create!TERMINAL_STATES : s = jobState => s = jobState'
  BY DEF Create!Terminal
<1> QED
  BY <1>1, <1>2, <1>3 DEF CreateInv, SourceOK, AnswersOK, Create!OutcomeIsFinal,
     Create!NeverDeaf

LEMMA CreateTransitionIs ==
    ASSUME CreateStreamOK, NEW to, Create!Transition(to)
    PROVE  /\ jobState' \in Create!JobState /\ log' \in Seq(Create!Payload)
                /\ Len(log') >= Len(log)
           /\ ~Create!Terminal /\ jobState' = to /\ UNCHANGED <<conn, breaks>>
  BY CreateStatesAre DEF CreateStreamOK, Create!Transition, Create!Terminal

LEMMA CreateJobNextStep == ASSUME CreateInv, Create!JobNext /\ UNCHANGED Create!panelVars
      PROVE CreateInv'
<1>1. CASE \E to \in Create!JobState : Create!Transition(to)
  BY <1>1, CreateTransitionIs, CreateJobSteps DEF CreateInv, Create!panelVars
<1>2. CASE \E payload \in {"progress", "hidden"} : Create!AppendEvent(payload)
  <2>1. log' \in Seq(Create!Payload) /\ Len(log') >= Len(log) /\ jobState' \in Create!JobState
    BY <1>2, CreateStatesAre, CreateCounts DEF Create!AppendEvent, CreateInv, CreateStreamOK,
       Create!Payload
  <2> QED
    BY <1>2, <2>1, CreateJobSteps, CreateCounts DEF Create!AppendEvent, Create!panelVars,
       CreateInv
<1> QED
  BY <1>1, <1>2 DEF Create!JobNext

LEMMA CreatePollStep == ASSUME CreateInv, Create!PollCreateStream PROVE CreateInv'
<1>1. CreateStreamOK
  BY DEF CreateInv
<1> DEFINE tail == IF Create!Terminal THEN <<Create!End>> ELSE <<>>
<1>2. tail \in Seq(CreateMessage) /\ \A k \in DOMAIN tail : Sound(tail[k])
  <2>1. Create!Terminal => Create!End \in CreateMessage /\ Sound(Create!End)
    BY <1>1, CreateStatesAre DEF CreateStreamOK, Create!End, CreateMessage, Sound
  <2> QED
    BY <2>1
<1>3. Create!NewEvents \in Seq(CreateMessage)
      /\ \A k \in DOMAIN Create!NewEvents : Sound(Create!NewEvents[k])
  BY <1>1, CreateNewEventsAre
<1>4. conn.pipe \in Seq(CreateMessage) /\ \A k \in DOMAIN conn.pipe : Sound(conn.pipe[k])
  BY <1>1 DEF CreateStreamOK
<1> HIDE DEF tail
<1>5. ASSUME NEW a \in Seq(CreateMessage), NEW b \in Seq(CreateMessage),
             \A k \in DOMAIN a : Sound(a[k]), \A k \in DOMAIN b : Sound(b[k])
      PROVE  a \o b \in Seq(CreateMessage) /\ \A k \in DOMAIN (a \o b) : Sound((a \o b)[k])
  <2>1. \A k \in DOMAIN (a \o b) :
            \/ k \in DOMAIN a /\ (a \o b)[k] = a[k]
            \/ k - Len(a) \in DOMAIN b /\ (a \o b)[k] = b[k - Len(a)]
    OBVIOUS
  <2>2. ASSUME NEW k \in DOMAIN (a \o b) PROVE Sound((a \o b)[k])
    BY <1>5, <2>1
  <2> QED
    BY <2>2
<1> DEFINE pipe == conn.pipe \o Create!NewEvents \o tail
<1>6. pipe \in Seq(CreateMessage) /\ \A k \in DOMAIN pipe : Sound(pipe[k])
  <2>1. conn.pipe \o Create!NewEvents \in Seq(CreateMessage)
        /\ \A k \in DOMAIN (conn.pipe \o Create!NewEvents) :
             Sound((conn.pipe \o Create!NewEvents)[k])
    BY <1>3, <1>4, <1>5
  <2> QED
    BY <1>2, <1>5, <2>1
<1>7. conn' = [conn EXCEPT !.cursor = Len(log), !.open = ~Create!Terminal, !.pipe = pipe]
  BY DEF Create!PollCreateStream, Create!PollStream, tail
<1> HIDE DEF pipe
<1>8. conn' \in [open : BOOLEAN, cursor : 0..Len(log), pipe : Seq(CreateMessage)]
      /\ conn'.pipe = pipe
  <2>1. conn' = [open |-> ~Create!Terminal, cursor |-> Len(log), pipe |-> pipe]
    BY <1>1, <1>7 DEF CreateStreamOK
  <2>2. Len(log) \in 0..Len(log)
    BY <1>1 DEF CreateStreamOK
  <2>3. (~Create!Terminal) \in BOOLEAN
    BY Zenon DEF Create!Terminal
  <2> QED
    BY <1>6, <2>1, <2>2, <2>3
<1>9. UNCHANGED <<jobState, log, breaks, Create!panelVars>>
  BY DEF Create!PollCreateStream, Create!PollStream
<1>10. \A m : Sound(m)' <=> Sound(m)
  BY <1>9 DEF Sound, Create!Terminal
<1>11. CreateStreamOK'
  BY <1>1, <1>6, <1>8, <1>9, <1>10 DEF CreateStreamOK
<1>12. source = "open"
  BY DEF CreateInv, SourceOK, Create!PollCreateStream, Create!PollStream, Create!Closed
<1> QED
  BY <1>9, <1>11, <1>12 DEF CreateInv, CreatePanelOK, SourceOK, AnswersOK,
     Create!OutcomeIsFinal, Create!NeverDeaf, Create!panelVars

\* A connection is closed, opened, or gives up its first message.
LEMMA ConnectionSteps ==
    ASSUME CreateStreamOK, UNCHANGED <<jobState, log>>, breaks' \in 0..MaxBreaks,
           \/ conn' = conn
           \/ conn' = Create!Closed
           \/ \E after \in 0..Len(log) : conn' = Create!Opened(after)
           \/ conn.pipe # <<>> /\ conn' = [conn EXCEPT !.pipe = Tail(@)]
    PROVE  CreateStreamOK'
<1>1. \A m : Sound(m)' <=> Sound(m)
  BY DEF Sound, Create!Terminal
<1>2. conn'.pipe \in Seq(CreateMessage) /\ \A k \in DOMAIN conn'.pipe : Sound(conn'.pipe[k])
  <2>1. CASE conn' = conn
    BY <2>1 DEF CreateStreamOK
  <2>2. CASE conn' = Create!Closed
    BY <2>2 DEF Create!Closed
  <2>3. CASE \E after \in 0..Len(log) : conn' = Create!Opened(after)
    <3>1. Create!Ready \in CreateMessage /\ Sound(Create!Ready)
      BY CreateStatesAre DEF CreateStreamOK, Create!Ready, CreateMessage, Sound
    <3> QED
      BY <2>3, <3>1 DEF Create!Opened
  <2>4. CASE conn.pipe # <<>> /\ conn' = [conn EXCEPT !.pipe = Tail(@)]
    <3>1. conn'.pipe = Tail(conn.pipe) /\ conn.pipe \in Seq(CreateMessage)
      BY <2>4 DEF CreateStreamOK
    <3>2. \A k \in DOMAIN Tail(conn.pipe) :
              k + 1 \in DOMAIN conn.pipe /\ Tail(conn.pipe)[k] = conn.pipe[k + 1]
      BY <2>4, <3>1
    <3> QED
      BY <2>4, <3>1, <3>2 DEF CreateStreamOK
  <2> QED
    BY <2>1, <2>2, <2>3, <2>4
<1>3. conn' \in [open : BOOLEAN, cursor : 0..Len(log), pipe : Seq(CreateMessage)]
  <2>1. 0 \in 0..Len(log) /\ FALSE \in BOOLEAN /\ TRUE \in BOOLEAN
    BY DEF CreateStreamOK
  <2>2. CASE conn' = Create!Closed
    BY <1>2, <2>1, <2>2 DEF Create!Closed
  <2>4. CASE \E after \in 0..Len(log) : conn' = Create!Opened(after)
    <3>1. PICK after \in 0..Len(log) : conn' = Create!Opened(after)
      BY <2>4
    <3> DEFINE pipe == <<Create!Ready>>
    <3>2. conn' = [open |-> TRUE, cursor |-> after, pipe |-> pipe]
      BY <3>1 DEF Create!Opened
    <3>3. conn'.pipe = pipe
      BY <3>2
    <3> HIDE DEF pipe
    <3> QED
      BY <1>2, <2>1, <3>2, <3>3
  <2>3. CASE conn' = conn \/ (conn.pipe # <<>> /\ conn' = [conn EXCEPT !.pipe = Tail(@)])
    BY <1>2, <2>3 DEF CreateStreamOK
  <2> QED
    BY <2>2, <2>3, <2>4
<1> QED
  BY <1>1, <1>2, <1>3 DEF CreateStreamOK

\* A new effect of the panel.
LEMMA RenderStep ==
    ASSUME CreateInv, NEW state \in Create!JobState, Create!Render(state),
          state \in Create!TERMINAL_STATES => state = jobState,
           UNCHANGED <<jobState, log, breaks, failed, lines>>, cancel' \in {cancel, None}
    PROVE  CreateInv'
<1>1. CreateStreamOK'
  BY ConnectionSteps DEF CreateInv, CreateStreamOK, Create!Render
<1>2. CreatePanelOK'
  BY DEF CreateInv, CreatePanelOK, Create!Render
<1>3. state \in Create!TERMINAL_STATES <=> state \notin Create!ACTIVE_STATES
  BY CreateStatesAre
<1>4. None \notin Create!TERMINAL_STATES
  BY CreateStatesAre, CreatePanelAssumption
<1> QED
  BY <1>1, <1>2, <1>3, <1>4 DEF CreateInv, SourceOK, AnswersOK, Create!OutcomeIsFinal,
     Create!NeverDeaf, Create!Render

LEMMA CreateRequestStep ==
    ASSUME CreateInv, Create!ReadHandled \/ Create!ReadAnswered \/ Create!ReadFails
          \/ Create!Cancel \/ Create!CancelHandled \/ Create!CancelAnswered
                \/ Create!CancelFails
    PROVE  CreateInv'
<1>1. CASE Create!ReadHandled
  <2>1. CreateStreamOK'
    BY <1>1, ConnectionSteps DEF CreateInv, CreateStreamOK, Create!ReadHandled,
       Create!streamVars
  <2>2. "asked" \in reads /\ jobState \in reads'
    BY <1>1 DEF Create!ReadHandled
  <2> QED
    BY <1>1, <2>1, <2>2 DEF CreateInv, CreateStreamOK, CreatePanelOK, SourceOK, AnswersOK,
       Create!OutcomeIsFinal, Create!NeverDeaf, Create!ReadHandled, Create!streamVars
<1>2. CASE Create!ReadAnswered
  BY <1>2, RenderStep DEF Create!ReadAnswered, CreateInv, AnswersOK
<1>3. CASE Create!ReadFails
  <2>1. CreateStreamOK'
    BY <1>3, ConnectionSteps DEF CreateInv, CreateStreamOK, Create!ReadFails, Create!streamVars
  <2>2. failed' \in 0..MaxFailedReads /\ failed' > 0
    BY <1>3, CreatePanelAssumption DEF Create!ReadFails, CreateInv, CreatePanelOK
  <2> QED
    BY <1>3, <2>1, <2>2 DEF CreateInv, CreatePanelOK, SourceOK, AnswersOK,
       Create!OutcomeIsFinal, Create!NeverDeaf, Create!ReadFails, Create!streamVars
<1>4. CASE Create!Cancel
  <2>1. CreateStreamOK'
    BY <1>4, ConnectionSteps DEF CreateInv, CreateStreamOK, Create!Cancel, Create!streamVars
  <2>2. "asked" \notin Create!TERMINAL_STATES
    BY DEF Create!TERMINAL_STATES
  <2> QED
    BY <1>4, <2>1, <2>2 DEF CreateInv, CreatePanelOK, SourceOK, AnswersOK,
       Create!OutcomeIsFinal, Create!NeverDeaf, Create!Cancel, Create!streamVars
<1>5. CASE Create!CancelHandled
  <2>1. CASE \E to \in Create!JobState : Create!Transition(to) /\ cancel' = to
    BY <1>5, <2>1, CreateTransitionIs, CreateJobSteps DEF CreateInv, Create!CancelHandled
  <2>2. CASE jobState = "cancelling" /\ cancel' = "cancelling" /\ UNCHANGED Create!streamVars
    BY <1>5, <2>2, CreateJobSteps DEF CreateInv, CreateStreamOK, Create!CancelHandled,
       Create!streamVars
  <2>3. "cancelled" \in Create!JobState /\ "cancelling" \in Create!JobState
    BY DEF Create!JobState
  <2> QED
    BY <1>5, <2>1, <2>2, <2>3 DEF Create!CancelHandled
<1>6. CASE Create!CancelAnswered
  BY <1>6, RenderStep DEF Create!CancelAnswered, CreateInv, AnswersOK
<1>7. CASE Create!CancelFails
  <2>1. CreateStreamOK'
    BY <1>7, ConnectionSteps DEF CreateInv, CreateStreamOK, Create!CancelFails,
       Create!streamVars
  <2>2. None \notin Create!TERMINAL_STATES
    BY CreateStatesAre, CreatePanelAssumption
  <2> QED
    BY <1>7, <2>1, <2>2 DEF CreateInv, CreatePanelOK, SourceOK, AnswersOK,
       Create!OutcomeIsFinal, Create!NeverDeaf, Create!CancelFails, Create!streamVars
<1> QED
  BY <1>1, <1>2, <1>3, <1>4, <1>5, <1>6, <1>7

LEMMA SourceStep == ASSUME CreateInv, Create!Receive \/ Create!Interrupted PROVE CreateInv'
<1>1. CASE Create!Receive
  <2> DEFINE m == Head(conn.pipe)
             counted == [i \in DOMAIN lines \cup {m.id} |->
                           IF i # m.id THEN lines[i]
                           ELSE IF i \in DOMAIN lines /\ lines[i] < Create!MaxLines
                                 THEN lines[i] + 1
                           ELSE IF i \in DOMAIN lines THEN Create!MaxLines ELSE 1]
  <2>1. m \in CreateMessage /\ Sound(m) /\ conn.pipe # <<>> /\ conn.pipe \in Seq(CreateMessage)
    BY <1>1 DEF Create!Receive, CreateInv, CreateStreamOK
  <2>2. source = "open"
    BY <1>1 DEF Create!Receive, CreateInv, SourceOK, Create!Closed
  <2> HIDE DEF m, counted
  <2>3. CASE m.type = "end" /\ Create!Render(m.payload) /\ UNCHANGED lines
    BY <1>1, <2>1, <2>3, RenderStep DEF Create!Receive, Sound, Create!Terminal, CreateInv,
       CreateStreamOK
  <2>4. CASE conn' = [conn EXCEPT !.pipe = Tail(@)] /\ UNCHANGED <<shown, source>>
             /\ reads' \in {reads, reads \cup {"asked"}}
             /\ (lines' = lines \/ (m.type = "event" /\ lines' = counted))
    <3>1. CreateStreamOK'
      BY <1>1, <2>1, <2>4, ConnectionSteps DEF Create!Receive, CreateInv, CreateStreamOK
    <3>2. \A i \in DOMAIN lines' : i \in 1..Len(log) /\ lines'[i] \in 1..Create!MaxLines
      BY <2>1, <2>4 DEF CreateInv, CreatePanelOK, CreateStreamOK, Sound, Create!MaxLines,
         counted
    <3>5. UNCHANGED <<log, cancel, failed, shown, source>>
          /\ reads' \subseteq Create!JobState \cup {"asked"}
      BY <1>1, <2>4 DEF Create!Receive, CreateInv, CreatePanelOK
    <3>3. CreatePanelOK'
      BY <3>2, <3>5 DEF CreateInv, CreatePanelOK
    <3>4. "asked" \notin Create!TERMINAL_STATES
      BY DEF Create!TERMINAL_STATES
    <3> QED
      BY <1>1, <2>2, <2>4, <3>1, <3>3, <3>4 DEF Create!Receive, CreateInv, SourceOK,
         AnswersOK, Create!OutcomeIsFinal, Create!NeverDeaf
  <2>5. \/ m.type = "end" /\ Create!Render(m.payload) /\ UNCHANGED lines
        \/ /\ m.type = "event"
           /\ lines' = counted
           /\ conn' = [conn EXCEPT !.pipe = Tail(@)] /\ UNCHANGED <<shown, source, reads>>
        \/ /\ reads' \in {reads, reads \cup {"asked"}}
           /\ conn' = [conn EXCEPT !.pipe = Tail(@)] /\ UNCHANGED <<shown, source, lines>>
    BY <1>1, Zenon DEF Create!Receive, m, counted
  <2> QED
    BY <2>3, <2>4, <2>5
<1>2. CASE Create!Interrupted
  <2>1. breaks' \in 0..MaxBreaks
    BY <1>2, CreatePanelAssumption DEF Create!Interrupted, CreateInv, CreateStreamOK
  <2>2. CreateStreamOK'
    BY <1>2, <2>1, ConnectionSteps DEF Create!Interrupted, CreateInv
  <2>3. "asked" \notin Create!TERMINAL_STATES
    BY DEF Create!TERMINAL_STATES
  <2> QED
    BY <1>2, <2>2, <2>3 DEF Create!Interrupted, CreateInv, CreatePanelOK, SourceOK, AnswersOK,
       Create!OutcomeIsFinal, Create!NeverDeaf
<1> QED
  BY <1>1, <1>2

LEMMA CreateStutterStep == ASSUME CreateInv, UNCHANGED Create!vars PROVE CreateInv'
  BY CreateJobSteps DEF CreateInv, CreateStreamOK, Create!vars, Create!streamVars,
     Create!panelVars

LEMMA CreatePanelStep == CreateInv /\ [Create!Next]_(Create!vars) => CreateInv'
  BY CreateJobNextStep, CreatePollStep, CreateRequestStep, SourceStep, CreateStutterStep
     DEF Create!Next, Create!PanelNext

LEMMA CreatePanelIsRight == CreateInv => Create!TypeOK /\ Create!OutcomeIsFinal
      /\ Create!NeverDeaf
<1> SUFFICES ASSUME CreateInv PROVE Create!TypeOK
  BY DEF CreateInv
<1>1. \A k \in DOMAIN conn.pipe : conn.pipe[k].id \in 0..Len(log)
  BY DEF CreateInv, CreateStreamOK, Sound
<1> QED
  BY <1>1 DEF CreateInv, CreateStreamOK, CreatePanelOK, Create!TypeOK, Create!StreamTypeOK

-----------------------------------------------------------------------------
(* The dashboard.                                                          *)

OpPhase == {"idle", "preparing", "review", "intent-creating", "confirm", "executing", "shown"}

\* A request: what a panel waits for, a status and an operation are about a target.
ARequest ==
    {r \in [type : {"catalog", "status", "operation"}, target : Target \cup {None},
            panel : Dashboard!Panel \cup {None}, live : BOOLEAN, done : BOOLEAN, from : Nat] :
        /\ r.live => r.panel \in Dashboard!Panel
        /\ r.live \/ r.type # "catalog" => r.target \in Target}

\* The type of every variable, the requests with it.
DashboardTypeOK ==
    /\ phase \in {"loading", "bootstrap", "login", "authenticated", "fatal"}
    /\ selected \in Target \cup {None}
    /\ status \in [target : Target, container : 0..MaxRebinds] \cup {None}
    /\ loading \in [catalog : BOOLEAN, status : BOOLEAN]
    /\ requests \in Seq(ARequest)
    /\ op \in [Dashboard!Panel -> OpPhase]
    /\ busy \in [lifecycle : BOOLEAN, update : BOOLEAN]
    /\ bound \in [Target -> 0..MaxRebinds]

\* The requests that a panel waits for.
DashboardWaiting(rs) == {rs[i] : i \in {k \in DOMAIN rs : rs[k].live}}

OneLive(rs) == \A i, k \in DOMAIN rs : rs[i].live /\ rs[k].live => i = k

\* A dashboard that is not there has nothing under way.
ShownOK ==
    phase # "authenticated" => requests = <<>> /\ status = None /\ ~Dashboard!OperationBusy

\* A panel waits for one request at most; the panel is mounted for the selected target, in
\* the phase of an operation, and it is why the controls are disabled.
WaitingOK ==
    /\ OneLive(requests)
    /\ \A r \in DashboardWaiting(requests) :
           /\ r.panel \in Dashboard!Panel /\ r.target = selected /\ r.target \in Target
                /\ Dashboard!Key # None
           /\ r.panel = "lifecycle" => busy.lifecycle
           /\ r.panel # "lifecycle" => busy.update
           /\ r.panel = "update" =>
                  op["update"] \in {"preparing", "intent-creating", "executing"}
           /\ r.panel = "rollback" => op["rollback"] = "executing"

\* Controls are disabled for a panel that waits.
BusyOK ==
    /\ busy.lifecycle => \E r \in DashboardWaiting(requests) : r.panel = "lifecycle"
    /\ busy.update => \E r \in DashboardWaiting(requests) : r.panel # "lifecycle"

DashboardInv == DashboardTypeOK /\ ShownOK /\ WaitingOK /\ BusyOK

\* The number of elements is the same operator under every name.
LEMMA DashboardCounts == \A S : Dashboard!Cardinality(S) = Cardinality(S)
  BY DEF Dashboard!Cardinality, Cardinality

\* What is left of a sequence when an element is removed.
LEMMA WithoutIs ==
    ASSUME NEW S, NEW rs \in Seq(S), NEW i \in DOMAIN rs
    PROVE  /\ Dashboard!Without(rs, i) \in Seq(S)
           /\ DOMAIN Dashboard!Without(rs, i) = 1..(Len(rs) - 1)
           /\ \A k \in 1..(Len(rs) - 1) :
                  Dashboard!Without(rs, i)[k] = IF k < i THEN rs[k] ELSE rs[k + 1]
<1>1. i \in 1..Len(rs) /\ Len(rs) \in Nat
  OBVIOUS
<1> DEFINE a == SubSeq(rs, 1, i - 1)
           b == SubSeq(rs, i + 1, Len(rs))
<1>2. /\ a \in Seq(S) /\ Len(a) = i - 1
      /\ \A k \in 1..(i - 1) : a[k] = rs[k]
  BY <1>1
<1>3. /\ b \in Seq(S) /\ Len(b) = Len(rs) - i
      /\ \A k \in 1..(Len(rs) - i) : b[k] = rs[i + k]
  BY <1>1
<1>4. Dashboard!Without(rs, i) = a \o b
  BY DEF Dashboard!Without
<1> HIDE DEF a, b
<1>5. a \o b \in Seq(S) /\ Len(a \o b) = Len(rs) - 1
  BY <1>1, <1>2, <1>3
<1>6. ASSUME NEW k \in 1..(Len(rs) - 1)
      PROVE  (a \o b)[k] = IF k < i THEN rs[k] ELSE rs[k + 1]
  <2>1. CASE k < i
    BY <1>1, <1>2, <1>3, <2>1
  <2>2. CASE ~(k < i)
    <3>1. k - Len(a) \in 1..Len(b) /\ (a \o b)[k] = b[k - Len(a)]
      BY <1>1, <1>2, <1>3, <2>2
    <3>2. i + (k - Len(a)) = k + 1
      BY <1>1, <1>2
    <3>3. b[k - Len(a)] = rs[i + (k - Len(a))]
      BY <1>3, <3>1
    <3> QED
      BY <2>2, <3>1, <3>2, <3>3
  <2> QED
    BY <2>1, <2>2
<1> DEFINE w == Dashboard!Without(rs, i)
<1>7. w \in Seq(S) /\ Len(w) = Len(rs) - 1
  BY <1>4, <1>5
<1>8. ASSUME NEW k \in 1..(Len(rs) - 1) PROVE w[k] = IF k < i THEN rs[k] ELSE rs[k + 1]
  BY <1>4, <1>6
<1> HIDE DEF w
<1>9. w \in Seq(S) /\ DOMAIN w = 1..(Len(rs) - 1)
  BY <1>7
<1>10. \A k \in 1..(Len(rs) - 1) : w[k] = IF k < i THEN rs[k] ELSE rs[k + 1]
  BY <1>8
<1> QED
  BY <1>9, <1>10 DEF w

\* A request that is made.
LEMMA AppendWaits ==
    ASSUME NEW rs \in Seq(ARequest), NEW r \in ARequest, r.live =>
          DashboardWaiting(rs) = {}, OneLive(rs)
    PROVE  /\ OneLive(Append(rs, r))
           /\ DashboardWaiting(Append(rs, r)) = IF r.live THEN {r} ELSE DashboardWaiting(rs)
<1> DEFINE s == Append(rs, r)
<1>1. /\ DOMAIN s = 1..(Len(rs) + 1) /\ DOMAIN rs = 1..Len(rs) /\ Len(rs) \in Nat
      /\ \A k \in 1..Len(rs) : s[k] = rs[k]
      /\ s[Len(rs) + 1] = r
  OBVIOUS
<1> HIDE DEF s
<1>2. r.live => \A k \in DOMAIN rs : ~rs[k].live
  BY DEF DashboardWaiting
<1>3. OneLive(s)
  BY <1>1, <1>2 DEF OneLive
<1>4. \A q \in DashboardWaiting(s) : q \in IF r.live THEN {r} ELSE DashboardWaiting(rs)
  BY <1>1, <1>2 DEF DashboardWaiting
<1>5. \A q \in IF r.live THEN {r} ELSE DashboardWaiting(rs) : q \in DashboardWaiting(s)
  <2>1. Len(rs) + 1 \in DOMAIN s
    BY <1>1
  <2> QED
    BY <1>1, <1>2, <2>1 DEF DashboardWaiting
<1> QED
  BY <1>3, <1>4, <1>5 DEF s

\* A request that is answered.
LEMMA RemoveWaits ==
    ASSUME NEW rs \in Seq(ARequest), NEW i \in DOMAIN rs, OneLive(rs)
    PROVE  /\ OneLive(Dashboard!Without(rs, i))
           /\ DashboardWaiting(Dashboard!Without(rs, i)) = IF rs[i].live THEN {}
                ELSE DashboardWaiting(rs)
<1> DEFINE s == Dashboard!Without(rs, i)
<1>1. /\ DOMAIN s = 1..(Len(rs) - 1) /\ DOMAIN rs = 1..Len(rs) /\ Len(rs) \in Nat
           /\ i \in 1..Len(rs)
      /\ \A k \in 1..(Len(rs) - 1) : s[k] = IF k < i THEN rs[k] ELSE rs[k + 1]
  BY WithoutIs
<1> HIDE DEF s
<1>2. \A k \in DOMAIN s : LET m == IF k < i THEN k ELSE k + 1 IN m \in DOMAIN rs /\ m # i
      /\ s[k] = rs[m]
  BY <1>1
<1>3. \A m \in DOMAIN rs : m # i => LET k == IF m < i THEN m ELSE m - 1 IN k \in DOMAIN s
      /\ s[k] = rs[m]
  BY <1>1
<1>4. OneLive(s)
  <2> SUFFICES ASSUME NEW k \in DOMAIN s, NEW l \in DOMAIN s, s[k].live, s[l].live PROVE k = l
    BY DEF OneLive
  <2>1. (IF k < i THEN k ELSE k + 1) = (IF l < i THEN l ELSE l + 1)
    BY <1>2 DEF OneLive
  <2> QED
    BY <1>1, <2>1
<1>5. \A q \in DashboardWaiting(s) : q \in DashboardWaiting(rs) /\ ~rs[i].live
  <2> SUFFICES ASSUME NEW k \in DOMAIN s, s[k].live PROVE s[k] \in DashboardWaiting(rs)
        /\ ~rs[i].live
    BY DEF DashboardWaiting
  <2> DEFINE m == IF k < i THEN k ELSE k + 1
  <2>1. m \in DOMAIN rs /\ m # i /\ s[k] = rs[m]
    BY <1>2
  <2> HIDE DEF m
  <2> QED
    BY <2>1 DEF DashboardWaiting, OneLive
<1>6. ASSUME ~rs[i].live, NEW q \in DashboardWaiting(rs) PROVE q \in DashboardWaiting(s)
  <2>1. PICK m \in DOMAIN rs : rs[m].live /\ q = rs[m]
    BY DEF DashboardWaiting
  <2> DEFINE k == IF m < i THEN m ELSE m - 1
  <2>2. k \in DOMAIN s /\ s[k] = rs[m]
    BY <1>3, <1>6, <2>1
  <2> HIDE DEF k
  <2> QED
    BY <2>1, <2>2 DEF DashboardWaiting
<1> QED
  BY <1>4, <1>5, <1>6 DEF s

\* Nobody waits for the requests of panels that are discarded.
LEMMA OrphanWaits ==
    ASSUME NEW rs \in Seq(ARequest)
    PROVE  /\ Dashboard!Orphan(rs, Dashboard!Panel) \in Seq(ARequest)
           /\ DOMAIN Dashboard!Orphan(rs, Dashboard!Panel) = DOMAIN rs
           /\ \A i \in DOMAIN rs : Dashboard!Orphan(rs, Dashboard!Panel)[i] =
                [rs[i] EXCEPT !.live = FALSE]
           /\ OneLive(Dashboard!Orphan(rs, Dashboard!Panel))
                /\ DashboardWaiting(Dashboard!Orphan(rs, Dashboard!Panel)) = {}
<1>1. ASSUME NEW i \in DOMAIN rs
      PROVE  [rs[i] EXCEPT !.live = @ /\ rs[i].panel \notin Dashboard!Panel] =
            [rs[i] EXCEPT !.live = FALSE]
  <2>1. rs[i] \in ARequest
    OBVIOUS
  <2>2. (rs[i].live /\ rs[i].panel \notin Dashboard!Panel) = FALSE
    BY <2>1 DEF ARequest
  <2> QED
    BY <2>1, <2>2, Zenon DEF ARequest
<1>2. \A i \in DOMAIN rs : [rs[i] EXCEPT !.live = FALSE] \in ARequest
      /\ [rs[i] EXCEPT !.live = FALSE].live = FALSE
  <2>1. \A i \in DOMAIN rs : rs[i] \in ARequest
    OBVIOUS
  <2> QED
    BY <2>1 DEF ARequest
<1>3. /\ DOMAIN Dashboard!Orphan(rs, Dashboard!Panel) = DOMAIN rs
      /\ \A i \in DOMAIN rs : Dashboard!Orphan(rs, Dashboard!Panel)[i] =
           [rs[i] EXCEPT !.live = FALSE]
  BY <1>1 DEF Dashboard!Orphan
<1>4. Dashboard!Orphan(rs, Dashboard!Panel) \in Seq(ARequest)
  <2>1. Dashboard!Orphan(rs, Dashboard!Panel) =
        [i \in 1..Len(rs) |-> Dashboard!Orphan(rs, Dashboard!Panel)[i]]
    BY <1>3 DEF Dashboard!Orphan
  <2>2. \A i \in 1..Len(rs) : Dashboard!Orphan(rs, Dashboard!Panel)[i] \in ARequest
    BY <1>2, <1>3
  <2> QED
    BY <2>1, <2>2
<1> QED
  BY <1>2, <1>3, <1>4 DEF OneLive, DashboardWaiting


\* A panel that is mounted anew waits for nothing, and the controls are enabled; otherwise
\* the dashboard shows the same target and container.
LEMMA RenderIs ==
    ASSUME DashboardTypeOK, NEW sel \in Target \cup {None},
           NEW st \in [target : Target, container : 0..MaxRebinds] \cup {None},
           NEW rs \in Seq(ARequest),
           NEW over \in SUBSET Dashboard!Panel, Dashboard!Render(sel, st, rs, over)
    PROVE  /\ selected' = sel /\ status' = st
           /\ op' \in [Dashboard!Panel -> OpPhase]
                /\ busy' \in [lifecycle : BOOLEAN, update : BOOLEAN]
           /\ requests' \in Seq(ARequest) /\ DOMAIN requests' = DOMAIN rs
           /\ \A i \in DOMAIN rs :
                  requests'[i] = rs[i] \/ requests'[i] = [rs[i] EXCEPT !.live = FALSE]
           /\ \/ /\ Dashboard!Key' = Dashboard!Key /\ requests' = rs
                 /\ \A p \in Dashboard!Panel \ over : op'[p] = op[p]
                 /\ over = {} => busy' = busy
                 /\ over # {} => busy' = [lifecycle |-> FALSE, update |-> FALSE]
              \/ /\ OneLive(requests') /\ DashboardWaiting(requests') = {}
                 /\ busy' = [lifecycle |-> FALSE, update |-> FALSE]
<1>1. selected' = sel /\ status' = st
  BY DEF Dashboard!Render
<1>2. Dashboard!Key' = Dashboard!KeyOf(sel, st)
  BY <1>1 DEF Dashboard!Key, Dashboard!KeyOf
<1>3. op' \in [Dashboard!Panel -> OpPhase] /\ busy' \in [lifecycle : BOOLEAN, update : BOOLEAN]
  BY DEF Dashboard!Render, DashboardTypeOK, OpPhase
<1>4. CASE Dashboard!KeyOf(sel, st) = Dashboard!Key
  <2>1. requests' = rs
    BY <1>4 DEF Dashboard!Render
  <2>2. \A p \in Dashboard!Panel \ over : op'[p] = op[p]
    BY <1>4 DEF Dashboard!Render
  <2>3. /\ over = {} => busy' = busy
        /\ over # {} => busy' = [lifecycle |-> FALSE, update |-> FALSE]
    BY <1>4 DEF Dashboard!Render
  <2> QED
    BY <1>1, <1>2, <1>3, <1>4, <2>1, <2>2, <2>3
<1>5. CASE Dashboard!KeyOf(sel, st) # Dashboard!Key
  <2>1. requests' = Dashboard!Orphan(rs, Dashboard!Panel)
        /\ busy' = [lifecycle |-> FALSE, update |-> FALSE]
    BY <1>5 DEF Dashboard!Render
  <2> QED
    BY <1>1, <1>3, <2>1, OrphanWaits
<1> QED
  BY <1>4, <1>5

\* A new request has its type.
LEMMA DashboardRequestIs ==
    ASSUME DashboardTypeOK, NEW t \in Target \cup {None}, NEW p \in Dashboard!Panel \cup {None},
           NEW type \in {"catalog", "status", "operation"},
           p # None \/ type # "catalog" => t \in Target
    PROVE  /\ Dashboard!Request(type, t, p) \in ARequest
           /\ Dashboard!Request(type, t, p).live = (p # None)
           /\ Dashboard!Request(type, t, p).panel = p /\ Dashboard!Request(type, t, p).target = t
           /\ Dashboard!Request(type, t, p).type = type
<1>1. (IF t = None THEN 0 ELSE bound[t]) \in Nat
  BY DashboardAssumption DEF DashboardTypeOK
<1>2. (p # None) \in BOOLEAN
  OBVIOUS
<1> QED
  BY <1>1, <1>2 DEF Dashboard!Request, ARequest

\* A request that is made again on behalf of another.
LEMMA RequestAgain ==
    ASSUME DashboardTypeOK, NEW t \in Target, NEW p \in Dashboard!Panel \cup {None},
           NEW type \in {"catalog", "status", "operation"},
           NEW b \in BOOLEAN, b => p \in Dashboard!Panel
    PROVE  LET r == [Dashboard!Request(type, t, p) EXCEPT !.live = b] IN
           /\ r \in ARequest /\ r.live = b /\ r.panel = p /\ r.target = t /\ r.type = type
<1>1. (IF t = None THEN 0 ELSE bound[t]) \in Nat
  BY DashboardAssumption DEF DashboardTypeOK
<1>2. (p # None) \in BOOLEAN
  OBVIOUS
<1> QED
  BY <1>1, <1>2 DEF Dashboard!Request, ARequest

\* The invariant holds initially.
LEMMA DashboardInitially == Dashboard!Init => DashboardInv
<1> SUFFICES ASSUME Dashboard!Init PROVE DashboardInv
  OBVIOUS
<1>1. requests \in Seq(ARequest) /\ DashboardWaiting(requests) = {} /\ OneLive(requests)
  BY DEF Dashboard!Init, DashboardWaiting, OneLive
<1> QED
  BY <1>1, DashboardAssumption DEF Dashboard!Init, DashboardInv, DashboardTypeOK, ShownOK,
     WaitingOK, BusyOK, Dashboard!OperationBusy, OpPhase

\* Nobody waits while the controls are enabled.
LEMMA IdleMeansNobodyWaits ==
    ASSUME DashboardInv, ~Dashboard!OperationBusy
    PROVE  DashboardWaiting(requests) = {}
BY DEF DashboardInv, WaitingOK, Dashboard!OperationBusy, Dashboard!Panel

\* A sequence of one request that nobody waits for.
LEMMA FirstRequest ==
    ASSUME NEW r \in ARequest, ~r.live
    PROVE  <<r>> \in Seq(ARequest) /\ OneLive(<<r>>) /\ DashboardWaiting(<<r>>) = {}
BY DEF OneLive, DashboardWaiting

\* App shows the dashboard, or takes it away.
LEMMA AppStep ==
    ASSUME DashboardInv, Dashboard!Boot \/ Dashboard!Authenticate \/ Dashboard!SignedOut
    PROVE  DashboardInv'
<1> DEFINE r == Dashboard!Request("catalog", None, None)
<1>1. r \in ARequest /\ ~r.live
  BY DashboardRequestIs DEF DashboardInv
<1> HIDE DEF r
<1>2. /\ <<r>> \in Seq(ARequest) /\ DashboardWaiting(<<r>>) = {} /\ OneLive(<<r>>)
  BY <1>1, FirstRequest
<1>3. <<>> \in Seq(ARequest) /\ DashboardWaiting(<<>>) = {} /\ OneLive(<<>>)
  BY DEF DashboardWaiting, OneLive
<1>4. CASE (Dashboard!Boot \/ Dashboard!Authenticate) /\ phase' = "authenticated"
  <2>1. requests' = <<r>> /\ UNCHANGED <<selected, status, op, busy, bound>>
        /\ loading' = [catalog |-> TRUE, status |-> FALSE]
    BY <1>4 DEF Dashboard!Boot, Dashboard!Authenticate, r
  <2>2. ~Dashboard!OperationBusy
    BY <1>4 DEF Dashboard!Boot, Dashboard!Authenticate, DashboardInv, ShownOK
  <2>3. DashboardTypeOK'
    BY <1>2, <1>4, <2>1 DEF DashboardInv, DashboardTypeOK
  <2>4. DashboardWaiting(requests)' = {} /\ OneLive(requests)'
    BY <1>2, <2>1 DEF DashboardWaiting, OneLive
  <2> QED
    BY <1>4, <2>1, <2>2, <2>3, <2>4 DEF DashboardInv, ShownOK, WaitingOK, BusyOK,
       Dashboard!OperationBusy
<1>5. CASE Dashboard!Boot /\ phase' # "authenticated"
  BY <1>5 DEF Dashboard!Boot, DashboardInv, DashboardTypeOK, ShownOK, WaitingOK, BusyOK,
     Dashboard!OperationBusy, Dashboard!Key, Dashboard!KeyOf
<1>6. CASE Dashboard!SignedOut
  <2>1. /\ phase' = "login" /\ requests' = <<>> /\ status' = None /\ selected' = None
             /\ bound' = bound
        /\ loading' = [catalog |-> FALSE, status |-> FALSE]
        /\ op' = [p \in Dashboard!Panel |-> "idle"]
             /\ busy' = [lifecycle |-> FALSE, update |-> FALSE]
    BY <1>6 DEF Dashboard!SignedOut, Dashboard!Nothing
  <2>2. DashboardTypeOK'
    BY <1>3, <2>1 DEF DashboardInv, DashboardTypeOK, OpPhase
  <2>3. DashboardWaiting(requests)' = {} /\ OneLive(requests)'
    BY <2>1 DEF DashboardWaiting, OneLive
  <2> QED
    BY <2>1, <2>2, <2>3 DEF DashboardInv, ShownOK, WaitingOK, BusyOK, Dashboard!OperationBusy
<1> QED
  BY <1>4, <1>5, <1>6 DEF Dashboard!Authenticate

\* The user selects a target, or refreshes the status.
LEMMA LoadStep ==
    ASSUME DashboardInv, NEW t, (t \in Target /\ Dashboard!Select(t)) \/ Dashboard!Refresh
    PROVE  DashboardInv'
<1>1. DashboardTypeOK /\ ~Dashboard!OperationBusy /\ phase = "authenticated" /\ phase' = phase
      /\ bound' = bound
      /\ DashboardWaiting(requests) = {} /\ OneLive(requests) /\ ~busy.lifecycle /\ ~busy.update
  BY IdleMeansNobodyWaits DEF DashboardInv, Dashboard!Select, Dashboard!Refresh, WaitingOK,
     Dashboard!OperationBusy
<1>2. loading' \in [catalog : BOOLEAN, status : BOOLEAN]
  BY <1>1 DEF Dashboard!Select, Dashboard!Refresh, DashboardTypeOK
<1>3. CASE t \in Target /\ Dashboard!Select(t)
  <2> DEFINE r == Dashboard!Request("status", t, None)
             rs == Append(requests, r)
  <2>1. r \in ARequest /\ ~r.live
    BY <1>1, <1>3, DashboardRequestIs
  <2> HIDE DEF r
  <2>2. rs \in Seq(ARequest) /\ OneLive(rs) /\ DashboardWaiting(rs) = {}
    BY <1>1, <2>1, AppendWaits DEF DashboardTypeOK
  <2> HIDE DEF rs
  <2>3. Dashboard!Render(t, status, rs, {})
    BY <1>3 DEF Dashboard!Select, rs, r
  <2>4. /\ selected' = t /\ status' = status
        /\ op' \in [Dashboard!Panel -> OpPhase]
             /\ busy' \in [lifecycle : BOOLEAN, update : BOOLEAN]
        /\ requests' \in Seq(ARequest)
        /\ \/ requests' = rs /\ busy' = busy
           \/ /\ OneLive(requests') /\ DashboardWaiting(requests') = {}
              /\ busy' = [lifecycle |-> FALSE, update |-> FALSE]
    BY <1>1, <1>3, <2>2, <2>3, RenderIs DEF DashboardTypeOK
  <2>5. OneLive(requests') /\ DashboardWaiting(requests') = {} /\ ~busy'.lifecycle
        /\ ~busy'.update
    BY <1>1, <2>2, <2>4
  <2>6. DashboardTypeOK'
    BY <1>1, <1>2, <1>3, <2>4 DEF DashboardTypeOK
  <2> QED
    BY <1>1, <2>5, <2>6 DEF DashboardInv, ShownOK, WaitingOK, BusyOK, DashboardWaiting, OneLive
<1>4. CASE Dashboard!Refresh
  <2> DEFINE r == Dashboard!Request("status", selected, None)
  <2>1. r \in ARequest /\ ~r.live
    BY <1>1, <1>4, DashboardRequestIs DEF Dashboard!Refresh, DashboardTypeOK
  <2> HIDE DEF r
  <2>2. requests' = Append(requests, r) /\ UNCHANGED <<selected, status, op, busy>>
    BY <1>4 DEF Dashboard!Refresh, r
  <2>3. requests' \in Seq(ARequest) /\ OneLive(requests') /\ DashboardWaiting(requests') = {}
    BY <1>1, <2>1, <2>2, AppendWaits DEF DashboardTypeOK
  <2>4. DashboardTypeOK'
    BY <1>1, <1>2, <2>2, <2>3 DEF DashboardTypeOK
  <2> QED
    BY <1>1, <2>2, <2>3, <2>4 DEF DashboardInv, ShownOK, WaitingOK, BusyOK, DashboardWaiting,
       OneLive
<1> QED
  BY <1>3, <1>4

\* A panel starts an operation.
LEMMA StartStep ==
    ASSUME DashboardInv, Dashboard!StartLifecycle \/ Dashboard!StartUpdate
          \/ Dashboard!StartRollback
    PROVE  DashboardInv'
<1>1. DashboardTypeOK /\ Dashboard!Key # None /\ Dashboard!Key.target = selected
      /\ Dashboard!Key.target \in Target /\ OneLive(requests)
  BY DashboardAssumption DEF DashboardInv, WaitingOK, Dashboard!StartLifecycle,
     Dashboard!StartUpdate, Dashboard!StartRollback, Dashboard!Key, Dashboard!KeyOf,
     DashboardTypeOK
<1>2. DashboardWaiting(requests) = {}
  BY DEF DashboardInv, WaitingOK, Dashboard!StartLifecycle, Dashboard!StartUpdate,
     Dashboard!StartRollback, Dashboard!UpdateStep, Dashboard!Panel
<1>3. phase = "authenticated"
  BY <1>1 DEF DashboardInv, ShownOK, Dashboard!Key, Dashboard!KeyOf
<1>4. PICK p \in Dashboard!Panel :
         /\ requests' = Append(requests, Dashboard!Request("operation", Dashboard!Key.target, p))
         /\ UNCHANGED <<phase, selected, status, loading, bound>>
         /\ op' \in [Dashboard!Panel -> OpPhase]
              /\ busy' \in [lifecycle : BOOLEAN, update : BOOLEAN]
         /\ p = "lifecycle" => busy'.lifecycle /\ ~busy'.update
         /\ p # "lifecycle" => busy'.update /\ ~busy'.lifecycle
         /\ p = "update" => op'["update"] \in {"preparing", "intent-creating", "executing"}
         /\ p = "rollback" => op'["rollback"] = "executing"
  <2>1. CASE Dashboard!StartLifecycle
    BY <1>1, <2>1 DEF Dashboard!StartLifecycle, Dashboard!Panel, OpPhase, DashboardTypeOK
  <2>2. CASE Dashboard!StartUpdate
    <3>1. Dashboard!UpdateStep[op["update"]] \in {"preparing", "intent-creating", "executing"}
      BY <2>2 DEF Dashboard!StartUpdate, Dashboard!UpdateStep
    <3>2. /\ op' = [op EXCEPT !["update"] = Dashboard!UpdateStep[op["update"]],
               !["rollback"] = "idle"]
          /\ busy' = [busy EXCEPT !.update = TRUE] /\ ~busy.lifecycle
          /\ requests' = Append(requests,
               Dashboard!Request("operation", Dashboard!Key.target, "update"))
          /\ UNCHANGED <<phase, selected, status, loading, bound>>
      BY <2>2 DEF Dashboard!StartUpdate
    <3>3. op' \in [Dashboard!Panel -> OpPhase]
          /\ op'["update"] = Dashboard!UpdateStep[op["update"]]
      BY <1>1, <3>1, <3>2 DEF DashboardTypeOK, Dashboard!Panel, OpPhase
    <3> QED
      BY <1>1, <3>1, <3>2, <3>3 DEF Dashboard!Panel, DashboardTypeOK
  <2>3. CASE Dashboard!StartRollback
    BY <1>1, <2>3 DEF Dashboard!StartRollback, Dashboard!Panel, OpPhase, DashboardTypeOK
  <2> QED
    BY <2>1, <2>2, <2>3
<1> DEFINE r == Dashboard!Request("operation", Dashboard!Key.target, p)
<1>5. r \in ARequest /\ r.live /\ r.panel = p /\ r.target = selected
  BY <1>1, <1>4, DashboardRequestIs, DashboardAssumption
<1> HIDE DEF r
<1>6. requests' \in Seq(ARequest) /\ OneLive(requests') /\ DashboardWaiting(requests') = {r}
  BY <1>1, <1>2, <1>4, <1>5, AppendWaits DEF DashboardTypeOK, r
<1>7. DashboardTypeOK'
  BY <1>1, <1>4, <1>6 DEF DashboardTypeOK
<1>8. Dashboard!Key' = Dashboard!Key
  BY <1>4 DEF Dashboard!Key, Dashboard!KeyOf
<1>9. WaitingOK'
  <2>1. OneLive(requests)' /\ DashboardWaiting(requests)' = {r}
    BY <1>6 DEF OneLive, DashboardWaiting
  <2>2. r.panel = p /\ r.target = selected' /\ r.target \in Target /\ Dashboard!Key' # None
    BY <1>1, <1>4, <1>5, <1>8
  <2> QED
    BY <1>4, <2>1, <2>2 DEF WaitingOK
<1>10. BusyOK'
  BY <1>4, <1>5, <1>6 DEF BusyOK, DashboardWaiting
<1> QED
  BY <1>3, <1>4, <1>7, <1>9, <1>10 DEF DashboardInv, ShownOK

\* A request is answered: the panels stay, and wait on, or they are mounted anew.
LEMMA AnswerStep ==
    ASSUME DashboardInv, NEW sel \in Target \cup {None},
           NEW st \in [target : Target, container : 0..MaxRebinds] \cup {None},
           NEW rs \in Seq(ARequest), NEW over \in SUBSET Dashboard!Panel,
                 Dashboard!Render(sel, st, rs, over),
           OneLive(rs),
           over # {} => DashboardWaiting(rs) = {},
           over = {} =>
               \/ DashboardWaiting(rs) = DashboardWaiting(requests)
               \/ \E r \in DashboardWaiting(requests), q \in ARequest :
                      /\ DashboardWaiting(requests) = {r} /\ DashboardWaiting(rs) = {q}
                      /\ q.panel = r.panel /\ q.target = r.target,
           phase = "authenticated", phase' = phase, bound' = bound,
           loading' \in [catalog : BOOLEAN, status : BOOLEAN]
    PROVE  DashboardInv'
<1>1. DashboardTypeOK /\ WaitingOK /\ BusyOK
  BY DEF DashboardInv
<1>2. /\ selected' = sel /\ status' = st
      /\ op' \in [Dashboard!Panel -> OpPhase] /\ busy' \in [lifecycle : BOOLEAN, update : BOOLEAN]
      /\ requests' \in Seq(ARequest)
      /\ \/ /\ Dashboard!Key' = Dashboard!Key /\ requests' = rs
            /\ \A p \in Dashboard!Panel \ over : op'[p] = op[p]
            /\ over = {} => busy' = busy
            /\ over # {} => busy' = [lifecycle |-> FALSE, update |-> FALSE]
         \/ /\ OneLive(requests') /\ DashboardWaiting(requests') = {}
            /\ busy' = [lifecycle |-> FALSE, update |-> FALSE]
  BY <1>1, RenderIs
<1>3. DashboardTypeOK'
  BY <1>1, <1>2 DEF DashboardTypeOK
<1>4. CASE DashboardWaiting(requests') = {} /\ OneLive(requests')
      /\ busy' = [lifecycle |-> FALSE, update |-> FALSE]
  <2>1. OneLive(requests)' /\ DashboardWaiting(requests)' = {}
    BY <1>4 DEF OneLive, DashboardWaiting
  <2> QED
    BY <1>3, <1>4, <2>1 DEF DashboardInv, ShownOK, WaitingOK, BusyOK
<1>5. CASE /\ Dashboard!Key' = Dashboard!Key /\ requests' = rs /\ over = {} /\ busy' = busy
           /\ \A p \in Dashboard!Panel : op'[p] = op[p]
  <2>1. OneLive(requests)' /\ DashboardWaiting(requests)' = DashboardWaiting(rs)
    BY <1>5 DEF OneLive, DashboardWaiting
  <2>2. \A q \in DashboardWaiting(rs) : \E r \in DashboardWaiting(requests) : q.panel = r.panel
        /\ q.target = r.target
    BY <1>5
  <2>3. \A r \in DashboardWaiting(requests) : \E q \in DashboardWaiting(rs) : q.panel = r.panel
    BY <1>5
  <2>4. DashboardWaiting(rs) # {} => sel = selected
    <3> SUFFICES ASSUME DashboardWaiting(rs) # {} PROVE sel = selected
      OBVIOUS
    <3>1. Dashboard!Key # None
      BY <1>1, <2>2 DEF WaitingOK
    <3> QED
      BY <1>2, <1>5, <3>1 DEF Dashboard!Key, Dashboard!KeyOf
  <2>5. WaitingOK'
    BY <1>1, <1>2, <1>5, <2>1, <2>2, <2>4 DEF WaitingOK, Dashboard!Panel
  <2>6. BusyOK'
    BY <1>1, <1>5, <2>1, <2>3 DEF BusyOK
  <2> QED
    BY <1>3, <2>5, <2>6 DEF DashboardInv, ShownOK
<1> QED
  BY <1>2, <1>4, <1>5

\* The status of a target arrives, or does not.
LEMMA StatusStep ==
    ASSUME DashboardInv, NEW i \in DOMAIN requests, Dashboard!StatusAnswered(i)
    PROVE  DashboardInv'
<1> DEFINE r == requests[i]
           rs == Dashboard!Without(requests, i)
           over == IF r.live THEN {r.panel} ELSE {}
<1>1. DashboardTypeOK /\ OneLive(requests) /\ phase = "authenticated" /\ r \in ARequest
      /\ r.target \in Target
  BY DEF DashboardInv, ShownOK, WaitingOK, Dashboard!StatusAnswered, DashboardTypeOK, ARequest
<1>2. phase' = phase /\ bound' = bound /\ loading' \in [catalog : BOOLEAN, status : BOOLEAN]
  BY <1>1 DEF Dashboard!StatusAnswered, DashboardTypeOK
<1>3. PICK st \in {None} \cup [target : {r.target}, container : r.from..bound[r.target]] :
          Dashboard!Render(selected, st, rs, over)
  BY DEF Dashboard!StatusAnswered
<1>4. st \in [target : Target, container : 0..MaxRebinds] \cup {None}
  <2>1. r.from \in Nat /\ bound[r.target] \in 0..MaxRebinds
    BY <1>1 DEF DashboardTypeOK, ARequest
  <2>2. \A c \in r.from..bound[r.target] : c \in 0..MaxRebinds
    BY <2>1, DashboardAssumption
  <2> QED
    BY <1>1, <2>2
<1>5. /\ rs \in Seq(ARequest) /\ OneLive(rs)
      /\ DashboardWaiting(rs) = IF r.live THEN {} ELSE DashboardWaiting(requests)
  BY <1>1, WithoutIs, RemoveWaits DEF DashboardTypeOK
<1>6. over \in SUBSET Dashboard!Panel /\ selected \in Target \cup {None}
  BY <1>1 DEF ARequest, DashboardTypeOK
<1>7. /\ over # {} => DashboardWaiting(rs) = {}
      /\ over = {} => DashboardWaiting(rs) = DashboardWaiting(requests)
  BY <1>5
<1> HIDE DEF r, rs, over
<1> QED
  BY <1>1, <1>2, <1>3, <1>4, <1>5, <1>6, <1>7, AnswerStep

\* The catalog of targets arrives, or does not.
LEMMA CatalogStep ==
    ASSUME DashboardInv, NEW i \in DOMAIN requests, Dashboard!CatalogAnswered(i)
    PROVE  DashboardInv'
<1> DEFINE r == requests[i]
           rest == Dashboard!Without(requests, i)
           then(sel) == IF sel # selected /\ sel # None
                 THEN <<Dashboard!Request("status", sel, None)>> ELSE <<>>
           after == IF r.target = None THEN <<>>
                    ELSE <<[Dashboard!Request("status", r.target, r.panel) EXCEPT !.live =
                          r.live]>>
<1>1. DashboardTypeOK /\ OneLive(requests) /\ phase = "authenticated" /\ r \in ARequest
  BY DEF DashboardInv, ShownOK, WaitingOK, Dashboard!CatalogAnswered, DashboardTypeOK
<1>2. PICK sel \in IF r.target # None THEN {r.target, selected}
                   ELSE IF selected = None THEN Target \cup {None} ELSE {selected} :
          /\ loading' = [catalog |-> FALSE, status |-> then(sel) \o after # <<>>
               \/ loading.status]
          /\ Dashboard!Render(sel, status, rest \o then(sel) \o after, {})
  BY DEF Dashboard!CatalogAnswered
<1>3. sel \in Target \cup {None} /\ phase' = phase /\ bound' = bound
      /\ status \in [target : Target, container : 0..MaxRebinds] \cup {None}
  BY <1>1, <1>2 DEF Dashboard!CatalogAnswered, ARequest, DashboardTypeOK
<1>4. loading' \in [catalog : BOOLEAN, status : BOOLEAN]
  <2>1. (then(sel) \o after # <<>> \/ loading.status) \in BOOLEAN
    OBVIOUS
  <2> HIDE DEF then, after
  <2> QED
    BY <1>2, <2>1
<1>5. /\ rest \in Seq(ARequest) /\ OneLive(rest)
      /\ DashboardWaiting(rest) = IF r.live THEN {} ELSE DashboardWaiting(requests)
  BY <1>1, WithoutIs, RemoveWaits DEF DashboardTypeOK
<1> HIDE DEF rest
<1>6. rest \o then(sel) \in Seq(ARequest) /\ OneLive(rest \o then(sel))
      /\ DashboardWaiting(rest \o then(sel)) = DashboardWaiting(rest)
  <2>1. CASE ~(sel # selected /\ sel # None)
    <3>1. then(sel) = <<>>
      BY <2>1
    <3> HIDE DEF then
    <3> QED
      BY <1>5, <3>1
  <2>2. CASE sel # selected /\ sel # None
    <3> DEFINE q == Dashboard!Request("status", sel, None)
    <3>1. q \in ARequest /\ ~q.live
      BY <1>1, <1>3, <2>2, DashboardRequestIs
    <3>2. then(sel) = <<q>>
      BY <2>2
    <3> HIDE DEF q, then
    <3>3. rest \o then(sel) = Append(rest, q)
      BY <1>5, <3>1, <3>2
    <3> QED
      BY <1>5, <3>1, <3>3, AppendWaits
  <2> QED
    BY <2>1, <2>2
<1> DEFINE s == rest \o then(sel)
<1> HIDE DEF then
<1>7. /\ s \o after \in Seq(ARequest) /\ OneLive(s \o after)
      /\ \/ DashboardWaiting(s \o after) = DashboardWaiting(requests)
         \/ \E q \in ARequest : /\ DashboardWaiting(requests) = {r}
                                     /\ DashboardWaiting(s \o after) = {q}
                                /\ q.panel = r.panel /\ q.target = r.target
  <2>0. s \in Seq(ARequest) /\ OneLive(s) /\ DashboardWaiting(s) = IF r.live THEN {}
        ELSE DashboardWaiting(requests)
    BY <1>5, <1>6
  <2>1. CASE r.target = None
    <3>1. ~r.live /\ after = <<>>
      BY <1>1, <2>1, DashboardAssumption DEF ARequest
    <3> HIDE DEF s, after
    <3> QED
      BY <2>0, <3>1
  <2>2. CASE r.target # None
    <3> DEFINE q == [Dashboard!Request("status", r.target, r.panel) EXCEPT !.live = r.live]
    <3>1. r.target \in Target /\ r.panel \in Dashboard!Panel \cup {None} /\ r.live \in BOOLEAN
          /\ (r.live => r.panel \in Dashboard!Panel)
      BY <1>1, <2>2 DEF ARequest
    <3>2. q \in ARequest /\ q.live = r.live /\ q.panel = r.panel /\ q.target = r.target
      BY <1>1, <3>1, RequestAgain
    <3>3. after = <<q>>
      BY <2>2
    <3> HIDE DEF q, s, after
    <3>4. s \o after = Append(s, q)
      BY <2>0, <3>2, <3>3
    <3>5. Append(s, q) \in Seq(ARequest) /\ OneLive(Append(s, q))
          /\ DashboardWaiting(Append(s, q)) = IF q.live THEN {q} ELSE DashboardWaiting(s)
      BY <2>0, <3>2, AppendWaits
    <3>6. r.live => DashboardWaiting(requests) = {r}
      BY <1>1 DEF DashboardWaiting, OneLive
    <3> QED
      BY <2>0, <3>2, <3>4, <3>5, <3>6
  <2> QED
    BY <2>1, <2>2
<1>8. Dashboard!Render(sel, status, s \o after, {})
  BY <1>2 DEF then
<1>9. \A q : q \in ARequest /\ DashboardWaiting(requests) = {r} =>
      r \in DashboardWaiting(requests)
  OBVIOUS
<1> HIDE DEF s, after, r
<1>10. \/ DashboardWaiting(s \o after) = DashboardWaiting(requests)
       \/ \E r0 \in DashboardWaiting(requests), q \in ARequest :
              /\ DashboardWaiting(requests) = {r0} /\ DashboardWaiting(s \o after) = {q}
              /\ q.panel = r0.panel /\ q.target = r0.target
  BY <1>7, <1>9
<1> DEFINE over == {}
<1>11. over \in SUBSET Dashboard!Panel /\ over = {}
      /\ Dashboard!Render(sel, status, s \o after, over)
  BY <1>8
<1> HIDE DEF over
<1> QED
  BY <1>1, <1>3, <1>4, <1>7, <1>10, <1>11, AnswerStep

\* The server executes an operation, whether or not a panel waits for it.
LEMMA ExecutedStep ==
    ASSUME DashboardInv, NEW i \in DOMAIN requests, Dashboard!Executed(i)
    PROVE  DashboardInv'
<1>1. DashboardTypeOK /\ WaitingOK /\ requests[i] \in ARequest
  BY DEF DashboardInv, DashboardTypeOK
<1>2. /\ requests' = [requests EXCEPT ![i].done = TRUE]
           /\ bound' = [bound EXCEPT ![requests[i].target] = @ + 1]
      /\ bound[requests[i].target] < MaxRebinds /\ requests[i].target \in Target
      /\ UNCHANGED <<phase, selected, status, loading, op, busy>>
  BY <1>1 DEF Dashboard!Executed, ARequest
<1>3. bound' \in [Target -> 0..MaxRebinds]
  BY <1>1, <1>2, DashboardAssumption DEF DashboardTypeOK
<1>4. /\ requests' \in Seq(ARequest) /\ DOMAIN requests' = DOMAIN requests
      /\ \A k \in DOMAIN requests : LET r == requests[k] q == requests'[k] IN
             q \in ARequest /\ q.live = r.live /\ q.panel = r.panel /\ q.target = r.target
  <2>1. [requests[i] EXCEPT !.done = TRUE] \in ARequest
    BY <1>1 DEF ARequest
  <2>2. requests' = [requests EXCEPT ![i] = [requests[i] EXCEPT !.done = TRUE]]
    BY <1>2
  <2>3. \A k \in DOMAIN requests : requests'[k] = IF k = i
        THEN [requests[i] EXCEPT !.done = TRUE] ELSE requests[k]
    BY <2>2
  <2>4. requests' \in Seq(ARequest) /\ DOMAIN requests' = DOMAIN requests
    BY <1>1, <2>1, <2>2 DEF DashboardTypeOK
  <2> QED
    BY <1>1, <2>1, <2>3, <2>4 DEF ARequest, DashboardTypeOK
<1>5. DashboardTypeOK'
  BY <1>1, <1>2, <1>3, <1>4 DEF DashboardTypeOK
<1>6. ShownOK'
  BY <1>2, <1>4 DEF DashboardInv, ShownOK, Dashboard!OperationBusy
<1>7. OneLive(requests)'
  BY <1>1, <1>4 DEF OneLive, WaitingOK
<1>8. \A q \in DashboardWaiting(requests)' : \E r \in DashboardWaiting(requests) : q.panel =
      r.panel /\ q.target = r.target
  BY <1>4 DEF DashboardWaiting
<1>9. \A r \in DashboardWaiting(requests) : \E q \in DashboardWaiting(requests)' : q.panel =
      r.panel
  BY <1>4 DEF DashboardWaiting
<1>10. Dashboard!Key' = Dashboard!Key
  BY <1>2 DEF Dashboard!Key, Dashboard!KeyOf
<1>11. WaitingOK'
  <2> SUFFICES ASSUME NEW q \in DashboardWaiting(requests)'
               PROVE  /\ q.panel \in Dashboard!Panel /\ q.target = selected
                           /\ q.target \in Target /\ Dashboard!Key # None
                      /\ q.panel = "lifecycle" => busy.lifecycle
                      /\ q.panel # "lifecycle" => busy.update
                      /\ q.panel = "update" =>
                             op["update"] \in {"preparing", "intent-creating", "executing"}
                      /\ q.panel = "rollback" => op["rollback"] = "executing"
    BY <1>2, <1>7, <1>10 DEF WaitingOK
  <2>1. PICK r \in DashboardWaiting(requests) : q.panel = r.panel /\ q.target = r.target
    BY <1>8
  <2> QED
    BY <1>1, <2>1 DEF WaitingOK
<1>12. BusyOK'
  BY <1>2, <1>9 DEF DashboardInv, BusyOK
<1> QED
  BY <1>5, <1>6, <1>11, <1>12 DEF DashboardInv

\* A step of an update that only prepares is answered.
LEMMA PreparedStep ==
    ASSUME DashboardInv, NEW i \in DOMAIN requests, Dashboard!Prepared(i)
    PROVE  DashboardInv'
<1>1. DashboardTypeOK /\ WaitingOK /\ BusyOK /\ OneLive(requests) /\ requests[i].live
      /\ requests[i].panel = "update"
  BY DEF DashboardInv, WaitingOK, Dashboard!Prepared
<1>2. requests[i] \in DashboardWaiting(requests)
      /\ \A r \in DashboardWaiting(requests) : r = requests[i]
  BY <1>1 DEF DashboardWaiting, OneLive
<1>3. ~busy.lifecycle /\ phase = "authenticated"
  BY <1>1, <1>2 DEF BusyOK, DashboardInv, ShownOK
<1>4. /\ requests' = Dashboard!Without(requests, i) /\ busy' = [busy EXCEPT !.update = FALSE]
      /\ UNCHANGED <<phase, selected, status, loading, bound>>
      /\ op' \in [Dashboard!Panel -> OpPhase]
  BY <1>1 DEF Dashboard!Prepared, DashboardTypeOK, OpPhase, Dashboard!Panel
<1>5. requests' \in Seq(ARequest) /\ OneLive(requests)' /\ DashboardWaiting(requests)' = {}
  <2>1. OneLive(Dashboard!Without(requests, i))
        /\ DashboardWaiting(Dashboard!Without(requests, i)) = {}
             /\ Dashboard!Without(requests, i) \in Seq(ARequest)
    BY <1>1, WithoutIs, RemoveWaits DEF DashboardTypeOK
  <2> QED
    BY <1>4, <2>1 DEF OneLive, DashboardWaiting
<1>6. DashboardTypeOK'
  BY <1>1, <1>4, <1>5 DEF DashboardTypeOK
<1>7. ~busy'.lifecycle /\ ~busy'.update
  BY <1>1, <1>3, <1>4 DEF DashboardTypeOK
<1> QED
  BY <1>3, <1>4, <1>5, <1>6, <1>7 DEF DashboardInv, ShownOK, WaitingOK, BusyOK

\* An operation is answered: a panel that waits, other than the one of an update, waits for
\* the refreshed target.
LEMMA DashboardAnsweredStep ==
    ASSUME DashboardInv, NEW i \in DOMAIN requests, Dashboard!Answered(i)
    PROVE  DashboardInv'
<1> DEFINE r == requests[i]
           update == r.live /\ r.panel = "update"
           q == [Dashboard!Request("catalog", r.target, r.panel) EXCEPT !.live = r.live
                 /\ ~update]
           rest == Dashboard!Without(requests, i)
<1>1. DashboardTypeOK /\ WaitingOK /\ BusyOK /\ OneLive(requests) /\ r \in ARequest
      /\ r.type = "operation"
  BY DEF DashboardInv, WaitingOK, Dashboard!Answered, DashboardTypeOK
<1>2. /\ r.target \in Target /\ r.panel \in Dashboard!Panel \cup {None} /\ r.live \in BOOLEAN
      /\ r.live => r.panel \in Dashboard!Panel /\ r \in DashboardWaiting(requests)
           /\ \A p \in DashboardWaiting(requests) : p = r
  BY <1>1 DEF ARequest, DashboardWaiting, OneLive
<1>3. phase = "authenticated"
  BY DEF DashboardInv, ShownOK
<1>4. /\ op' = IF update THEN [op EXCEPT !["update"] = "shown"] ELSE op
      /\ busy' = IF update THEN [busy EXCEPT !.update = FALSE] ELSE busy
      /\ loading' = [loading EXCEPT !.catalog = TRUE]
      /\ requests' = Append(rest, q)
      /\ UNCHANGED <<phase, selected, status, bound>>
  BY DEF Dashboard!Answered
<1>5. q \in ARequest /\ q.live = (r.live /\ ~update) /\ q.panel = r.panel /\ q.target = r.target
  <2> DEFINE b == r.live /\ ~update
  <2>1. b \in BOOLEAN /\ (b => r.panel \in Dashboard!Panel)
    BY <1>2
  <2>2. q = [Dashboard!Request("catalog", r.target, r.panel) EXCEPT !.live = b]
    OBVIOUS
  <2> HIDE DEF b, q
  <2>3. q \in ARequest /\ q.live = b /\ q.panel = r.panel /\ q.target = r.target
    BY <1>1, <1>2, <2>1, <2>2, RequestAgain
  <2> QED
    BY <2>3 DEF b
<1>6. /\ rest \in Seq(ARequest) /\ OneLive(rest)
      /\ DashboardWaiting(rest) = IF r.live THEN {} ELSE DashboardWaiting(requests)
  BY <1>1, WithoutIs, RemoveWaits DEF DashboardTypeOK
<1> HIDE DEF q, rest
<1>7. /\ Append(rest, q) \in Seq(ARequest) /\ OneLive(Append(rest, q))
      /\ DashboardWaiting(Append(rest, q)) = IF q.live THEN {q} ELSE DashboardWaiting(rest)
  BY <1>2, <1>5, <1>6, AppendWaits
<1>8. /\ requests' \in Seq(ARequest) /\ OneLive(requests)'
      /\ DashboardWaiting(requests)' = IF q.live THEN {q} ELSE IF r.live THEN {}
           ELSE DashboardWaiting(requests)
  BY <1>4, <1>6, <1>7 DEF OneLive, DashboardWaiting
<1>9. DashboardTypeOK'
  <2>1. op' \in [Dashboard!Panel -> OpPhase] /\ busy' \in [lifecycle : BOOLEAN, update : BOOLEAN]
    BY <1>1, <1>4 DEF DashboardTypeOK, OpPhase, Dashboard!Panel
  <2>2. loading' \in [catalog : BOOLEAN, status : BOOLEAN]
    BY <1>1, <1>4 DEF DashboardTypeOK
  <2> QED
    BY <1>1, <1>4, <1>8, <2>1, <2>2 DEF DashboardTypeOK
<1>10. Dashboard!Key' = Dashboard!Key
  BY <1>4 DEF Dashboard!Key, Dashboard!KeyOf
<1>11. CASE update
  <2>1. ~busy.lifecycle
    BY <1>1, <1>2, <1>11 DEF BusyOK
  <2>2. ~busy'.lifecycle /\ ~busy'.update
    BY <1>1, <1>4, <1>11, <2>1 DEF DashboardTypeOK
  <2>3. DashboardWaiting(requests)' = {}
    BY <1>5, <1>8, <1>11
  <2> QED
    BY <1>3, <1>4, <1>8, <1>9, <2>2, <2>3 DEF DashboardInv, ShownOK, WaitingOK, BusyOK
<1>12. CASE ~update
  <2>1. \A p \in DashboardWaiting(requests)' : \E o \in DashboardWaiting(requests) : p.panel =
        o.panel /\ p.target = o.target
    BY <1>2, <1>5, <1>8, <1>12
  <2>2. \A o \in DashboardWaiting(requests) : \E p \in DashboardWaiting(requests)' : p.panel =
        o.panel
    BY <1>2, <1>5, <1>8, <1>12
  <2>3. UNCHANGED <<op, busy, selected>>
    BY <1>4, <1>12
  <2>4. WaitingOK'
    BY <1>1, <1>8, <1>10, <2>1, <2>3 DEF WaitingOK
  <2>5. BusyOK'
    BY <1>1, <2>2, <2>3 DEF BusyOK
  <2> QED
    BY <1>3, <1>4, <1>9, <2>4, <2>5 DEF DashboardInv, ShownOK
<1> QED
  BY <1>11, <1>12

\* Nothing happens.
LEMMA DashboardStutters == DashboardInv /\ UNCHANGED Dashboard!vars => DashboardInv'
BY DEF Dashboard!vars, DashboardInv, DashboardTypeOK, ShownOK, WaitingOK, BusyOK,
   DashboardWaiting, OneLive, Dashboard!OperationBusy, Dashboard!Key, Dashboard!KeyOf

\* Every step of the dashboard keeps the invariant.
LEMMA DashboardStep == DashboardInv /\ [Dashboard!Next]_(Dashboard!vars) => DashboardInv'
BY AppStep, LoadStep, StartStep, StatusStep, CatalogStep, ExecutedStep, PreparedStep,
   DashboardAnsweredStep, DashboardStutters DEF Dashboard!Next

\* What it implies.
LEMMA DashboardIsSafe ==
    ASSUME DashboardInv
    PROVE  Dashboard!TypeOK /\ Dashboard!OneLiveOperation /\ Dashboard!BusyIsLive
          /\ Dashboard!LiveIsSelected
<1>1. Dashboard!TypeOK
  BY DEF DashboardInv, DashboardTypeOK, Dashboard!TypeOK, OpPhase
<1>2. Dashboard!OneLiveOperation
  <2>1. CASE Dashboard!LiveOperations = {}
    BY <2>1, FS_EmptySet, DashboardCounts DEF Dashboard!OneLiveOperation
  <2>2. ASSUME NEW i \in Dashboard!LiveOperations PROVE Dashboard!OneLiveOperation
    <3>1. Dashboard!LiveOperations = {i}
      BY <2>2 DEF Dashboard!LiveOperations, DashboardInv, WaitingOK, OneLive
    <3> QED
      BY <3>1, FS_Singleton, DashboardCounts DEF Dashboard!OneLiveOperation
  <2> QED
    BY <2>1, <2>2
<1>3. Dashboard!BusyIsLive
  BY DEF Dashboard!BusyIsLive, Dashboard!LiveOperations, DashboardInv, BusyOK,
     Dashboard!OperationBusy, DashboardWaiting
<1>4. Dashboard!LiveIsSelected
  BY DEF Dashboard!LiveIsSelected, Dashboard!LiveOperations, DashboardInv, WaitingOK,
     DashboardWaiting
<1> QED
  BY <1>1, <1>2, <1>3, <1>4

-----------------------------------------------------------------------------
(* The audit events.                                                       *)

\* The table: identifiers are used once.
TableOK ==
    /\ now \in 0..MaxTime
    /\ events \subseteq Audit!Event /\ \A d, e \in events : d.id = e.id => d = e
    /\ IsFiniteSet(events) /\ Cardinality(events) <= Cardinality(recorded)
    /\ recorded \subseteq 1..MaxRecorded /\ \A e \in events : e.id \in recorded

\* A purge knows what it may remove, and counts what it has removed.
PurgeOK ==
    purge # None =>
        /\ purge \in [cutoff : Nat, batches : 0..MaxBatches, purged : Nat, complete : BOOLEAN]
        /\ purge.cutoff = Audit!Cutoff
        /\ purge.complete => Audit!Expired(purge.cutoff) = {}
        /\ ~purge.complete => purge.purged = purge.batches * BatchSize

\* What may be listed under a filter.
AuditGood(filter, listed) ==
    /\ listed \in Seq(Audit!Event) /\ Len(listed) <= PageSize
    /\ \A i \in DOMAIN listed : filter \in {All, listed[i].action}
    /\ \A i, k \in DOMAIN listed : i < k => Audit!Older(listed[i], listed[k])

PagesOK ==
    /\ panel \in [filter : Action \cup {All}, offset : Nat, shown : Seq(Audit!Event),
                  hasMore : BOOLEAN, busy : BOOLEAN, error : BOOLEAN]
    /\ panel.offset \in {PageSize * k : k \in 0..MaxRecorded}
    /\ Len(panel.shown) <= PageSize
    /\ ~panel.busy => AuditGood(panel.filter, panel.shown)
    /\ ~panel.busy /\ panel.hasMore => panel.offset + PageSize < MaxRecorded /\ ~panel.error
    /\ panel.busy => ~panel.error

AnswerOK ==
    answer # None =>
        /\ answer \in [filter : Action \cup {All}, shown : Seq(Audit!Event), hasMore : BOOLEAN]
        /\ panel.busy
        /\ AuditGood(panel.filter, answer.shown)
        /\ answer.hasMore => panel.offset + PageSize < MaxRecorded

Elements(s) == {s[i] : i \in DOMAIN s}

\* How many of a set of events are before e under a filter.
AuditRank(es, filter, e) == Cardinality({d \in es : filter \in {All, d.action}
      /\ Audit!Older(d, e)})

\* What the walk has not seen yet.
Unseen == (walk.due \cap events) \ walk.seen

\* The page was read by the walk.
AuditRead == answer # None \/ (~panel.busy /\ ~panel.error)

\* What was not seen yet comes after the pages that were read, and is not there when they
\* are the last ones.
WalkOK ==
    /\ \A e \in walk.due : /\ e \in Audit!Event /\ e.id \in recorded
                           /\ panel.filter \in {All, e.action}
    /\ \A e \in Unseen : AuditRank(events, panel.filter, e) >=
         panel.offset + (IF AuditRead THEN PageSize ELSE 0)
    /\ answer # None /\ ~answer.hasMore => Unseen = {}
    /\ ~panel.busy /\ ~panel.error /\ ~panel.hasMore => Unseen = {}

AuditInv == TableOK /\ PurgeOK /\ PagesOK /\ AnswerOK /\ WalkOK

\* The number of elements is the same operator under every name.
LEMMA AuditCounts == \A S : Audit!Cardinality(S) = Cardinality(S)
  BY DEF Audit!Cardinality, Cardinality

\* Newest first is a strict order, in which two events are always comparable.
LEMMA OlderIs ==
    ASSUME TableOK
    PROVE  /\ \A d \in Audit!Event : ~Audit!Older(d, d)
           /\ \A c, d, e \in Audit!Event : Audit!Older(c, d) /\ Audit!Older(d, e) =>
                Audit!Older(c, e)
           /\ \A d, e \in Audit!Event : ~(Audit!Older(d, e) /\ Audit!Older(e, d))
           /\ \A d, e \in events : d # e => Audit!Older(d, e) \/ Audit!Older(e, d)
  BY AuditAssumption DEF Audit!Older, Audit!Event, TableOK

\* The rows of a query: every matching event stands where its rank says.
LEMMA RowsAre ==
    ASSUME TableOK, NEW filter
    PROVE  LET M == Audit!Matching(filter) IN
           /\ IsFiniteSet(M) /\ Cardinality(M) \in Nat /\ Cardinality(M) <= MaxRecorded
           /\ Audit!Rows(filter) \in Seq(M) /\ Len(Audit!Rows(filter)) = Cardinality(M)
           /\ \A e \in M : /\ AuditRank(events, filter, e) \in 0..(Cardinality(M) - 1)
                           /\ Audit!Rows(filter)[AuditRank(events, filter, e) + 1] = e
           /\ \A i, k \in 1..Cardinality(M) : i < k =>
                Audit!Older(Audit!Rows(filter)[i], Audit!Rows(filter)[k])
<1> DEFINE M == Audit!Matching(filter)
           R == {p \in M \X M : Audit!Older(p[1], p[2])}
<1>1. M \subseteq events /\ M \subseteq Audit!Event
  BY DEF Audit!Matching, TableOK
<1>2. /\ \A x \in M : <<x, x>> \notin R
      /\ \A x, y, z \in M : <<x, y>> \in R /\ <<y, z>> \in R => <<x, z>> \in R
      /\ \A x, y \in M : x # y => <<x, y>> \in R \/ <<y, x>> \in R
  <2>1. \A x \in M : ~Audit!Older(x, x)
    BY <1>1, OlderIs
  <2>2. \A x, y, z \in M : Audit!Older(x, y) /\ Audit!Older(y, z) => Audit!Older(x, z)
    BY <1>1, OlderIs
  <2>3. \A x, y \in M : x # y => Audit!Older(x, y) \/ Audit!Older(y, x)
    BY <1>1, OlderIs
  <2> HIDE DEF M
  <2> QED
    BY <2>1, <2>2, <2>3
<1>3. \A x, y \in M : <<x, y>> \in R <=> Audit!Older(x, y)
  OBVIOUS
<1>4. \A y \in M : Before(M, R, y) = {d \in M : Audit!Older(d, y)}
  <2> SUFFICES ASSUME NEW y \in M PROVE Before(M, R, y) = {d \in M : Audit!Older(d, y)}
    OBVIOUS
  <2> HIDE DEF R, M
  <2> QED
    BY <1>3 DEF Before
<1>5. IsFiniteSet(M) /\ Cardinality(M) <= Cardinality(events) /\ Cardinality(events) \in Nat
  BY <1>1, FS_Subset, FS_CardinalityType DEF TableOK
<1>6. IsFiniteSet(1..MaxRecorded) /\ Cardinality(1..MaxRecorded) = MaxRecorded
  BY AuditAssumption, FS_Interval
<1>7. Cardinality(recorded) <= MaxRecorded /\ Cardinality(recorded) \in Nat
  <2>1. recorded \in SUBSET (1..MaxRecorded)
    BY DEF TableOK
  <2>2. IsFiniteSet(recorded) /\ Cardinality(recorded) <= MaxRecorded
    BY <1>6, <2>1, FS_Subset
  <2> QED
    BY <2>2, FS_CardinalityType
<1> HIDE DEF R
<1>8. /\ Cardinality(M) \in Nat
      /\ \A y \in M : Cardinality(Before(M, R, y)) \in 0..(Cardinality(M) - 1)
      /\ \A x, y \in M : <<x, y>> \in R =>
             Cardinality(Before(M, R, x)) < Cardinality(Before(M, R, y))
      /\ \A n \in 0..(Cardinality(M) - 1) : \E y \in M : Cardinality(Before(M, R, y)) = n
  <2> HIDE DEF M
  <2> QED
    BY <1>2, <1>5, Ranked
<1>9. \A y \in M : AuditRank(events, filter, y) = Cardinality(Before(M, R, y))
  <2> SUFFICES ASSUME NEW y \in M
        PROVE AuditRank(events, filter, y) = Cardinality(Before(M, R, y))
    OBVIOUS
  <2>1. {d \in events : filter \in {All, d.action} /\ Audit!Older(d, y)} =
        {d \in M : Audit!Older(d, y)}
    BY DEF Audit!Matching
  <2> QED
    BY <1>4, <2>1 DEF AuditRank
<1>10. Audit!Rows(filter) =
      [n \in 1..Cardinality(M) |-> CHOOSE e \in M : AuditRank(events, filter, e) = n - 1]
  <2>1. \A e : {d \in events : filter \in {All, d.action} /\ Audit!Older(d, e)} =
        {d \in M : Audit!Older(d, e)}
    BY DEF Audit!Matching
  <2>2. \A e : AuditRank(events, filter, e) = Cardinality({d \in M : Audit!Older(d, e)})
    BY <2>1 DEF AuditRank
  <2>3. Audit!Rows(filter) = [n \in 1..Cardinality(M) |->
                           CHOOSE e \in M : Cardinality({d \in M : Audit!Older(d, e)}) = n - 1]
    BY DEF Audit!Rows, Audit!Cardinality, Cardinality
  <2> HIDE DEF M
  <2> QED
    BY <2>2, <2>3
<1>11. Cardinality(M) <= MaxRecorded
  BY <1>5, <1>7, <1>8, AuditAssumption DEF TableOK
<1> HIDE DEF M
<1>12. \A n \in 1..Cardinality(M) : Audit!Rows(filter)[n] \in M
      /\ AuditRank(events, filter, Audit!Rows(filter)[n]) = n - 1
  <2> SUFFICES ASSUME NEW n \in 1..Cardinality(M)
               PROVE  Audit!Rows(filter)[n] \in M
                     /\ AuditRank(events, filter, Audit!Rows(filter)[n]) = n - 1
    OBVIOUS
  <2>1. n - 1 \in 0..(Cardinality(M) - 1)
    BY <1>8
  <2>2. \E y \in M : AuditRank(events, filter, y) = n - 1
    BY <1>8, <1>9, <2>1
  <2>3. Audit!Rows(filter)[n] = CHOOSE e \in M : AuditRank(events, filter, e) = n - 1
    BY <1>10
  <2> QED
    BY <2>2, <2>3
<1>13. \A x, y \in M : Audit!Older(x, y) =>
      AuditRank(events, filter, x) < AuditRank(events, filter, y)
  BY <1>3, <1>8, <1>9
<1>14. \A y \in M : AuditRank(events, filter, y) \in 0..(Cardinality(M) - 1)
  BY <1>8, <1>9
<1>15. \A x, y \in M : x # y => Audit!Older(x, y) \/ Audit!Older(y, x)
  BY <1>2, <1>3
<1>16. ASSUME NEW e \in M PROVE Audit!Rows(filter)[AuditRank(events, filter, e) + 1] = e
  <2> DEFINE n == AuditRank(events, filter, e) + 1
             x == Audit!Rows(filter)[n]
  <2>1. n \in 1..Cardinality(M)
    BY <1>8, <1>14
  <2>2. x \in M /\ AuditRank(events, filter, x) = n - 1
    BY <1>12, <2>1
  <2>3. AuditRank(events, filter, x) = AuditRank(events, filter, e)
        /\ AuditRank(events, filter, e) \in Int
    BY <1>14, <2>2
  <2> HIDE DEF x, n
  <2>4. x = e
    BY <1>13, <1>15, <2>2, <2>3
  <2> QED
    BY <2>4 DEF x, n
<1>17. ASSUME NEW i \in 1..Cardinality(M), NEW k \in 1..Cardinality(M), i < k
       PROVE  Audit!Older(Audit!Rows(filter)[i], Audit!Rows(filter)[k])
  <2> DEFINE x == Audit!Rows(filter)[i] y == Audit!Rows(filter)[k]
  <2>1. x \in M /\ y \in M /\ AuditRank(events, filter, x) = i - 1
        /\ AuditRank(events, filter, y) = k - 1
    BY <1>12
  <2> HIDE DEF x, y
  <2>2. AuditRank(events, filter, x) < AuditRank(events, filter, y)
        /\ ~(AuditRank(events, filter, y) < AuditRank(events, filter, x))
        /\ AuditRank(events, filter, x) # AuditRank(events, filter, y)
    BY <1>8, <1>17, <2>1
  <2>3. Audit!Older(x, y)
    BY <1>13, <1>15, <2>1, <2>2
  <2> QED
    BY <2>3 DEF x, y
<1>18. Audit!Rows(filter) \in Seq(M) /\ Len(Audit!Rows(filter)) = Cardinality(M)
  <2>1. Audit!Rows(filter) = [n \in 1..Cardinality(M) |-> Audit!Rows(filter)[n]]
    BY <1>10
  <2> QED
    BY <1>8, <1>12, <2>1
<1> QED
  BY <1>5, <1>8, <1>11, <1>14, <1>16, <1>17, <1>18 DEF M

\* A page holds the matching events of its ranks, and tells whether there are others.
LEMMA PageIs ==
    ASSUME TableOK, NEW filter, NEW offset \in Nat
    PROVE  LET page == Audit!Page(filter, offset) M == Audit!Matching(filter) IN
           /\ page.filter = filter /\ page.hasMore \in BOOLEAN
           /\ page = [filter |-> filter, shown |-> page.shown, hasMore |-> page.hasMore]
           /\ AuditGood(filter, page.shown)
           /\ page.hasMore => offset + PageSize < MaxRecorded
           /\ \A e \in M : /\ AuditRank(events, filter, e) \in Nat
                           /\ AuditRank(events, filter, e) \in offset..(offset + PageSize - 1) =>
                                  e \in Elements(page.shown)
                           /\ ~page.hasMore => AuditRank(events, filter, e) < offset + PageSize
           /\ Elements(page.shown) \subseteq Audit!Event
<1> DEFINE M == Audit!Matching(filter)
           rows == Audit!Rows(filter)
           c == Cardinality(M)
           last == Audit!AtMost(offset + PageSize, Len(rows))
           listed == SubSeq(rows, offset + 1, last)
<1>1. /\ c \in Nat /\ c <= MaxRecorded /\ rows \in Seq(M) /\ Len(rows) = c
      /\ \A e \in M : AuditRank(events, filter, e) \in 0..(c - 1)
           /\ rows[AuditRank(events, filter, e) + 1] = e
      /\ \A i, k \in 1..c : i < k => Audit!Older(rows[i], rows[k])
  BY RowsAre
<1>2. last = IF offset + PageSize <= c THEN offset + PageSize ELSE c
  BY <1>1, AuditAssumption DEF Audit!AtMost
<1>3. last \in Nat /\ last <= offset + PageSize /\ last <= c
  BY <1>1, <1>2, AuditAssumption
<1>4. Audit!Page(filter, offset) =
      [filter |-> filter, shown |-> listed, hasMore |-> c > offset + PageSize]
  BY <1>1 DEF Audit!Page
<1>5. \A e \in M : e \in Audit!Event /\ filter \in {All, e.action}
  BY DEF Audit!Matching, TableOK
<1> HIDE DEF rows, c, last, M
<1>6. /\ listed \in Seq(M)
      /\ Len(listed) = IF offset + 1 <= last THEN last - offset ELSE 0
      /\ \A i \in 1..Len(listed) : listed[i] = rows[offset + i]
  <2>1. CASE offset + 1 <= last
    <3>1. /\ offset + 1 \in 1..Len(rows) /\ last \in 1..Len(rows) /\ rows \in Seq(M)
      BY <1>1, <1>3, <2>1
    <3>2. /\ SubSeq(rows, offset + 1, last) \in Seq(M)
          /\ Len(SubSeq(rows, offset + 1, last)) = last - (offset + 1) + 1
          /\ \A i \in 1..(last - (offset + 1) + 1) :
                 SubSeq(rows, offset + 1, last)[i] = rows[offset + 1 + i - 1]
      BY <1>3, <3>1, <2>1
    <3> QED
      BY <1>3, <3>2, <2>1
  <2>2. CASE ~(offset + 1 <= last)
    BY <1>1, <1>3, <2>2
  <2> QED
    BY <2>1, <2>2
<1> HIDE DEF listed
<1>7. Len(listed) \in Nat /\ Len(listed) <= PageSize /\ DOMAIN listed = 1..Len(listed)
      /\ \A i \in 1..Len(listed) : offset + i \in 1..c /\ listed[i] \in M
  BY <1>1, <1>3, <1>6, AuditAssumption
<1>8. listed \in Seq(Audit!Event)
  <2>1. listed = [i \in 1..Len(listed) |-> listed[i]]
    BY <1>6
  <2>2. \A i \in 1..Len(listed) : listed[i] \in Audit!Event
    BY <1>5, <1>7
  <2> QED
    BY <1>7, <2>1, <2>2
<1>9. \A i, k \in DOMAIN listed : i < k => Audit!Older(listed[i], listed[k])
  <2> SUFFICES ASSUME NEW i \in 1..Len(listed), NEW k \in 1..Len(listed), i < k
               PROVE  Audit!Older(listed[i], listed[k])
    BY <1>7
  <2>1. offset + i \in 1..c /\ offset + k \in 1..c /\ offset + i < offset + k
    BY <1>7
  <2>2. Audit!Older(rows[offset + i], rows[offset + k])
    BY <1>1, <2>1
  <2> QED
    BY <1>6, <2>2
<1>10. AuditGood(filter, listed)
  BY <1>5, <1>7, <1>8, <1>9 DEF AuditGood
<1>11. ASSUME NEW e \in M, AuditRank(events, filter, e) \in offset..(offset + PageSize - 1)
       PROVE  e \in Elements(listed)
  <2> DEFINE i == AuditRank(events, filter, e) + 1 - offset
  <2>1. AuditRank(events, filter, e) \in 0..(c - 1) /\ rows[AuditRank(events, filter, e) + 1] = e
    BY <1>1
  <2>4. AuditRank(events, filter, e) \in Nat /\ AuditRank(events, filter, e) + 1 <= last
        /\ offset <= AuditRank(events, filter, e)
    BY <1>1, <1>2, <1>11, <2>1, AuditAssumption
  <2>5. offset + 1 <= last /\ Len(listed) = last - offset
    BY <1>3, <1>6, <2>4
  <2>2. i \in 1..Len(listed) /\ offset + i = AuditRank(events, filter, e) + 1
    BY <1>3, <2>4, <2>5
  <2> HIDE DEF i
  <2>3. listed[i] = e
    BY <1>6, <2>1, <2>2
  <2> QED
    BY <1>7, <2>2, <2>3 DEF Elements
<1>12. Elements(listed) \subseteq Audit!Event
  BY <1>5, <1>7 DEF Elements
<1>13. (c > offset + PageSize) \in BOOLEAN
  OBVIOUS
<1>14. c > offset + PageSize => offset + PageSize < MaxRecorded
  BY <1>1, AuditAssumption
<1>15. \A e \in M : ~(c > offset + PageSize) => AuditRank(events, filter, e) < offset + PageSize
  BY <1>1, AuditAssumption
<1>16. \A e \in M : AuditRank(events, filter, e) \in Nat
  BY <1>1
<1> DEFINE page == Audit!Page(filter, offset)
<1>17. page.filter = filter /\ page.shown = listed /\ page.hasMore = (c > offset + PageSize)
       /\ page = [filter |-> filter, shown |-> page.shown, hasMore |-> page.hasMore]
  BY <1>4
<1> HIDE DEF page
<1>18. page.hasMore \in BOOLEAN /\ (page.hasMore => offset + PageSize < MaxRecorded)
       /\ \A e \in M : ~page.hasMore => AuditRank(events, filter, e) < offset + PageSize
  BY <1>13, <1>14, <1>15, <1>17
<1>19. /\ AuditGood(filter, page.shown) /\ Elements(page.shown) \subseteq Audit!Event
       /\ \A e \in M : AuditRank(events, filter, e) \in offset..(offset + PageSize - 1) =>
            e \in Elements(page.shown)
  BY <1>10, <1>11, <1>12, <1>17
<1> QED
  BY <1>16, <1>17, <1>18, <1>19 DEF M, page

LEMMA RankIsNat == ASSUME NEW es, IsFiniteSet(es)
      PROVE \A filter, e : AuditRank(es, filter, e) \in Nat
<1> SUFFICES ASSUME NEW filter, NEW e PROVE AuditRank(es, filter, e) \in Nat
  OBVIOUS
<1>1. IsFiniteSet({d \in es : filter \in {All, d.action} /\ Audit!Older(d, e)})
  BY FS_Subset
<1> QED
  BY <1>1, FS_CardinalityType DEF AuditRank

\* A request that fails shows nothing.
LEMMA FailedPage ==
    ASSUME PagesOK,
           panel' = IF panel.busy
                    THEN [panel EXCEPT !.busy = FALSE, !.error = TRUE, !.shown = <<>>,
                          !.hasMore = FALSE]
                    ELSE panel
    PROVE  PagesOK'
<1>1. CASE ~panel.busy
  BY <1>1 DEF PagesOK
<1>2. CASE panel.busy
  <2>1. <<>> \in Seq(Audit!Event) /\ Len(<<>>) = 0 /\ DOMAIN <<>> = {}
    OBVIOUS
  <2>2. AuditGood(panel.filter, <<>>) /\ 0 <= PageSize
    BY <2>1, AuditAssumption DEF AuditGood
  <2> DEFINE none == <<>>
  <2>3. none \in Seq(Audit!Event) /\ Len(none) <= PageSize /\ AuditGood(panel.filter, none)
    BY <2>1, <2>2
  <2>4. panel' = [panel EXCEPT !.busy = FALSE, !.error = TRUE, !.shown = none, !.hasMore = FALSE]
    BY <1>2
  <2> HIDE DEF none
  <2> QED
    BY <2>3, <2>4 DEF PagesOK
<1> QED
  BY <1>1, <1>2

\* The walk is where it was when a request fails.
LEMMA WalkStops ==
    ASSUME AuditInv, UNCHANGED <<events, recorded, walk>>, answer' = None,
           panel' = IF panel.busy
                    THEN [panel EXCEPT !.busy = FALSE, !.error = TRUE, !.shown = <<>>,
                          !.hasMore = FALSE]
                    ELSE panel
    PROVE  WalkOK'
<1>1. Unseen' = Unseen
  BY DEF Unseen
<1>2. panel'.filter = panel.filter /\ panel'.offset = panel.offset
      /\ (panel'.busy => panel.busy) /\ (panel.busy => panel'.error /\ ~panel'.busy)
      /\ (~panel.busy => panel' = panel)
  BY DEF AuditInv, PagesOK
<1>3. AuditRead' => AuditRead
  BY <1>2 DEF AuditRead
<1>4. \A e \in Unseen : AuditRank(events, panel.filter, e) \in Nat
  BY RankIsNat DEF AuditInv, TableOK
<1>5. panel.offset \in Nat /\ PageSize \in Nat
  BY AuditAssumption DEF AuditInv, PagesOK
<1>6. \A e \in Unseen : AuditRank(events, panel.filter, e) >=
      panel.offset + (IF AuditRead' THEN PageSize ELSE 0)
  BY <1>3, <1>4, <1>5 DEF AuditInv, WalkOK
<1> QED
  BY <1>1, <1>2, <1>6 DEF AuditInv, WalkOK

LEMMA AuditInitially == Audit!Init => AuditInv
<1> SUFFICES ASSUME Audit!Init PROVE AuditInv
  OBVIOUS
<1>1. IsFiniteSet({}) /\ Cardinality({}) = 0
  BY FS_EmptySet
<1>2. TableOK
  BY <1>1, AuditAssumption DEF Audit!Init, TableOK
<1>3. PurgeOK /\ AnswerOK /\ WalkOK
  BY DEF Audit!Init, PurgeOK, AnswerOK, WalkOK, Unseen, Audit!NoWalk
<1>4. PagesOK
  <2>1. panel.shown = <<>> /\ <<>> \in Seq(Audit!Event) /\ Len(<<>>) = 0
    BY DEF Audit!Init
  <2>2. panel.offset = PageSize * 0 /\ 0 \in 0..MaxRecorded
    BY AuditAssumption DEF Audit!Init
  <2>3. panel.offset \in {PageSize * k : k \in 0..MaxRecorded}
    BY <2>2
  <2>4. panel = [filter |-> All, offset |-> 0, shown |-> <<>>, hasMore |-> FALSE,
                 busy |-> TRUE, error |-> FALSE]
    BY DEF Audit!Init
  <2> QED
    BY <2>1, <2>3, <2>4, AuditAssumption DEF PagesOK
<1> QED
  BY <1>2, <1>3, <1>4 DEF AuditInv

LEMMA RecordedFinite ==
    ASSUME TableOK PROVE IsFiniteSet(recorded) /\ Cardinality(recorded) \in Nat
<1>1. IsFiniteSet(1..MaxRecorded)
  BY FS_Interval, AuditAssumption
<1>2. IsFiniteSet(recorded)
  BY <1>1, FS_Subset DEF TableOK
<1> QED
  BY <1>2, FS_CardinalityType

\* A new event only puts events further down.
LEMMA RecordStep == ASSUME AuditInv, Audit!Record PROVE AuditInv'
<1>1. PICK id \in (1..MaxRecorded) \ recorded, action \in Action :
          /\ events' = events \cup {[id |-> id, time |-> now, action |-> action]}
          /\ recorded' = recorded \cup {id}
  BY DEF Audit!Record
<1>2. purge = None /\ UNCHANGED <<now, purge, panel, answer, walk>>
  BY DEF Audit!Record
<1> DEFINE new == [id |-> id, time |-> now, action |-> action]
<1>3. new \in Audit!Event /\ new.id = id
  BY DEF Audit!Event, AuditInv, TableOK
<1>4. events' = events \cup {new}
  BY <1>1
<1> HIDE DEF new
<1>5. IsFiniteSet(recorded)
  BY RecordedFinite DEF AuditInv
<1>6. new \notin events /\ id \notin recorded
  BY <1>1, <1>3 DEF AuditInv, TableOK
<1>7. /\ IsFiniteSet(events') /\ Cardinality(events') = Cardinality(events) + 1
      /\ Cardinality(recorded') = Cardinality(recorded) + 1
      /\ Cardinality(events) \in Nat /\ Cardinality(recorded) \in Nat
  <2>1. IsFiniteSet(events)
    BY DEF AuditInv, TableOK
  <2>2. IsFiniteSet(events') /\ Cardinality(events') = Cardinality(events) + 1
    BY <1>4, <1>6, <2>1, FS_AddElement
  <2>3. Cardinality(recorded') = Cardinality(recorded) + 1
    BY <1>1, <1>5, <1>6, FS_AddElement
  <2> QED
    BY <1>5, <2>1, <2>2, <2>3, FS_CardinalityType
<1>8. TableOK'
  <2>1. events' \subseteq Audit!Event /\ \A d, e \in events' : d.id = e.id => d = e
    BY <1>3, <1>4, <1>6 DEF AuditInv, TableOK
  <2>2. Cardinality(events') <= Cardinality(recorded')
    BY <1>7 DEF AuditInv, TableOK
  <2>3. recorded' \subseteq 1..MaxRecorded /\ \A e \in events' : e.id \in recorded'
    BY <1>1, <1>3, <1>4 DEF AuditInv, TableOK
  <2> QED
    BY <1>2, <1>7, <2>1, <2>2, <2>3 DEF AuditInv, TableOK
<1>9. PurgeOK' /\ PagesOK' /\ AnswerOK'
  BY <1>2 DEF AuditInv, PurgeOK, PagesOK, AnswerOK
<1>10. Unseen' = Unseen
  <2>1. new \notin walk.due
    BY <1>3, <1>6 DEF AuditInv, WalkOK
  <2> QED
    BY <1>2, <1>4, <2>1 DEF Unseen
<1>11. \A filter, e : AuditRank(events, filter, e) <= AuditRank(events', filter, e)
  <2> SUFFICES ASSUME NEW filter, NEW e
        PROVE AuditRank(events, filter, e) <= AuditRank(events', filter, e)
    OBVIOUS
  <2> DEFINE S == {d \in events : filter \in {All, d.action} /\ Audit!Older(d, e)}
             T == {d \in events' : filter \in {All, d.action} /\ Audit!Older(d, e)}
  <2>1. S \subseteq T /\ T \subseteq events'
    BY <1>4
  <2>2. IsFiniteSet(T)
    BY <1>7, <2>1, FS_Subset
  <2>3. Cardinality(S) <= Cardinality(T)
    BY <2>1, <2>2, FS_Subset
  <2> QED
    BY <2>3 DEF AuditRank
<1>12. \A filter, e : AuditRank(events, filter, e) \in Nat
      /\ AuditRank(events', filter, e) \in Nat
  BY <1>8, RankIsNat DEF AuditInv, TableOK
<1>13. WalkOK'
  <2> DEFINE low == panel.offset + (IF AuditRead THEN PageSize ELSE 0)
  <2>1. low \in Nat /\ (panel.offset + (IF AuditRead THEN PageSize ELSE 0))' = low
    BY <1>2, AuditAssumption DEF AuditInv, PagesOK, AuditRead
  <2> HIDE DEF low
  <2>2. \A e \in Unseen' : AuditRank(events', panel.filter, e) >= low
    BY <1>10, <1>11, <1>12, <2>1 DEF AuditInv, WalkOK, low
  <2>3. \A e \in walk'.due : e \in Audit!Event /\ e.id \in recorded'
        /\ panel'.filter \in {All, e.action}
    BY <1>1, <1>2 DEF AuditInv, WalkOK
  <2> QED
    BY <1>2, <1>10, <2>1, <2>2, <2>3 DEF AuditInv, WalkOK
<1> QED
  BY <1>8, <1>9, <1>13 DEF AuditInv

LEMMA TickStep == ASSUME AuditInv, Audit!Tick PROVE AuditInv'
<1>1. now' \in 0..MaxTime
  BY AuditAssumption DEF AuditInv, TableOK, Audit!Tick
<1>2. UNCHANGED <<events, recorded, purge, panel, answer, walk>> /\ purge = None
  BY DEF Audit!Tick
<1>3. Unseen' = Unseen /\ AuditRead' = AuditRead
  BY <1>2 DEF Unseen, AuditRead
<1> QED
  BY <1>1, <1>2, <1>3 DEF AuditInv, TableOK, PurgeOK, PagesOK, AnswerOK, WalkOK

\* The panel and the walk when the table stays.
LEMMA AuditPanelSteps ==
    ASSUME AuditInv, UNCHANGED <<now, events, recorded>>, PurgeOK', PagesOK', AnswerOK', WalkOK'
    PROVE  AuditInv'
  BY DEF AuditInv, TableOK

LEMMA RestartStep == ASSUME AuditInv, Audit!Restart PROVE AuditInv'
<1>1. /\ UNCHANGED <<now, events, recorded, walk>> /\ answer' = None
      /\ purge' = [cutoff |-> Audit!Cutoff, batches |-> 0, purged |-> 0, complete |-> FALSE]
      /\ panel' = IF panel.busy
                  THEN [panel EXCEPT !.busy = FALSE, !.error = TRUE, !.shown = <<>>,
                        !.hasMore = FALSE]
                  ELSE panel
  BY DEF Audit!Restart
<1>2. Audit!Cutoff \in Nat /\ Audit!Cutoff' = Audit!Cutoff
  BY <1>1, AuditAssumption DEF Audit!Cutoff, AuditInv, TableOK
<1>3. PurgeOK'
  BY <1>1, <1>2, AuditAssumption DEF PurgeOK
<1>4. PagesOK'
  BY <1>1, FailedPage DEF AuditInv
<1>5. AnswerOK'
  BY <1>1 DEF AnswerOK
<1>6. WalkOK'
  BY <1>1, WalkStops DEF AuditInv
<1> QED
  BY <1>1, <1>3, <1>4, <1>5, <1>6, AuditPanelSteps

LEMMA ListenStep == ASSUME AuditInv, Audit!Listen PROVE AuditInv'
<1>1. UNCHANGED <<now, events, recorded, panel, answer, walk>> /\ purge' = None
  BY DEF Audit!Listen
<1>2. Unseen' = Unseen /\ AuditRead' = AuditRead
  BY <1>1 DEF Unseen, AuditRead
<1> QED
  BY <1>1, <1>2 DEF AuditInv, TableOK, PurgeOK, PagesOK, AnswerOK, WalkOK

\* What a batch of a purge removes, and what it keeps.
LEMMA BatchIs ==
    ASSUME AuditInv, Audit!PurgeBatch
    PROVE  \E removed \in SUBSET events :
               /\ events' = events \ removed
               /\ \A e \in removed : e.time < purge.cutoff
               /\ \A e \in removed, d \in events \ removed : Audit!Older(d, e)
               /\ purge' = [purge EXCEPT !.batches = @ + 1, !.purged = @ + Cardinality(removed),
                                         !.complete = (Cardinality(removed) < BatchSize)]
               /\ IF Cardinality(removed) < BatchSize THEN Audit!Expired(purge.cutoff) = removed
                  ELSE Cardinality(removed) = BatchSize
<1>1. purge # None /\ ~purge.complete /\ purge.batches < MaxBatches
  BY AuditCounts DEF Audit!PurgeBatch, Audit!Purging
<1> DEFINE expired == Audit!Expired(purge.cutoff)
<1>2. PICK removed \in Audit!Oldest(expired) :
      Audit!Purged(removed, Cardinality(removed) < BatchSize)
  BY AuditCounts DEF Audit!PurgeBatch
<1>3. /\ expired \subseteq events /\ IsFiniteSet(events)
      /\ \A e \in events : e \in expired <=> e.time < purge.cutoff
  BY DEF Audit!Expired, AuditInv, TableOK
<1> HIDE DEF expired
<1>4. IsFiniteSet(expired) /\ Cardinality(expired) \in Nat
  BY <1>3, FS_Subset, FS_CardinalityType
<1> DEFINE size == Audit!AtMost(BatchSize, Cardinality(expired))
<1>5. size = IF BatchSize <= Cardinality(expired) THEN BatchSize ELSE Cardinality(expired)
  BY <1>4, AuditAssumption DEF Audit!AtMost
<1>6. /\ removed \subseteq expired /\ Cardinality(removed) = size
      /\ \A e \in removed, d \in expired \ removed : Audit!Older(d, e)
  BY <1>2, AuditCounts DEF Audit!Oldest, Audit!Batches
<1> HIDE DEF size
<1>7. \A e \in removed, d \in events \ removed : Audit!Older(d, e)
  <2> SUFFICES ASSUME NEW e \in removed, NEW d \in events \ removed PROVE Audit!Older(d, e)
    OBVIOUS
  <2>1. CASE d \in expired
    BY <1>6, <2>1
  <2>2. CASE d \notin expired
    <3>1. e.time < purge.cutoff /\ ~(d.time < purge.cutoff)
      BY <1>3, <1>6, <2>2
    <3>2. d.time \in Int /\ e.time \in Int /\ purge.cutoff \in Int
      BY <1>1, <1>3, <1>6 DEF AuditInv, TableOK, Audit!Event, PurgeOK
    <3> QED
      BY <3>1, <3>2 DEF Audit!Older
  <2> QED
    BY <2>1, <2>2
<1>8. IF Cardinality(removed) < BatchSize THEN expired = removed
      ELSE Cardinality(removed) = BatchSize
  <2>1. CASE BatchSize <= Cardinality(expired)
    BY <1>5, <1>6, <2>1, AuditAssumption
  <2>2. CASE ~(BatchSize <= Cardinality(expired))
    <3>1. Cardinality(expired) = Cardinality(removed)
      BY <1>5, <1>6, <2>2
    <3>2. expired = removed
      BY <1>4, <1>6, <3>1, FS_Subset
    <3> QED
      BY <1>4, <2>2, <3>1, <3>2, AuditAssumption
  <2> QED
    BY <2>1, <2>2
<1>9. /\ events' = events \ removed
      /\ purge' = [purge EXCEPT !.batches = @ + 1, !.purged = @ + Cardinality(removed),
                                !.complete = (Cardinality(removed) < BatchSize)]
  BY <1>2, AuditCounts DEF Audit!Purged
<1> QED
  BY <1>3, <1>6, <1>7, <1>8, <1>9 DEF expired

LEMMA PurgeBatchStep == ASSUME AuditInv, Audit!PurgeBatch PROVE AuditInv'
<1>1. PICK removed \in SUBSET events :
          /\ events' = events \ removed
          /\ \A e \in removed : e.time < purge.cutoff
          /\ \A e \in removed, d \in events \ removed : Audit!Older(d, e)
          /\ purge' = [purge EXCEPT !.batches = @ + 1, !.purged = @ + Cardinality(removed),
                                    !.complete = (Cardinality(removed) < BatchSize)]
          /\ IF Cardinality(removed) < BatchSize THEN Audit!Expired(purge.cutoff) = removed
             ELSE Cardinality(removed) = BatchSize
  BY BatchIs
<1>2. /\ UNCHANGED <<now, recorded, panel, answer, walk>>
      /\ purge # None /\ ~purge.complete /\ purge.batches < MaxBatches
  BY AuditCounts DEF Audit!PurgeBatch, Audit!Purging, Audit!Purged
<1>3. IsFiniteSet(events') /\ Cardinality(events') <= Cardinality(events)
  BY <1>1, FS_Subset DEF AuditInv, TableOK
<1>4. TableOK'
  <2>1. Cardinality(events') \in Int /\ Cardinality(events) \in Int
        /\ Cardinality(recorded) \in Int
    <3>1. IsFiniteSet(recorded) /\ IsFiniteSet(events)
      BY RecordedFinite DEF AuditInv, TableOK
    <3> QED
      BY <1>3, <3>1, FS_CardinalityType
  <2> QED
    BY <1>1, <1>2, <1>3, <2>1 DEF AuditInv, TableOK
<1>5. PurgeOK'
  <2> DEFINE n == Cardinality(removed)
  <2>1. n \in Nat
    BY <1>1, FS_Subset, FS_CardinalityType DEF AuditInv, TableOK
  <2>2. /\ purge \in [cutoff : Nat, batches : 0..MaxBatches, purged : Nat, complete : BOOLEAN]
        /\ purge.cutoff = Audit!Cutoff /\ purge.purged = purge.batches * BatchSize
    BY <1>2 DEF AuditInv, PurgeOK
  <2>3. (n < BatchSize) \in BOOLEAN
    OBVIOUS
  <2>4. purge' = [purge EXCEPT !.batches = @ + 1, !.purged = @ + n, !.complete = (n < BatchSize)]
    BY <1>1
  <2>5. n < BatchSize \/ n = BatchSize
    BY <1>1
  <2>6. n < BatchSize => {e \in events' : e.time < purge.cutoff} = {}
    BY <1>1 DEF Audit!Expired
  <2> HIDE DEF n
  <2>7. /\ purge'.cutoff = purge.cutoff /\ purge'.batches = purge.batches + 1
        /\ purge'.purged = purge.purged + n /\ purge'.complete = (n < BatchSize)
        /\ purge' \in [cutoff : Nat, batches : 0..MaxBatches, purged : Nat, complete : BOOLEAN]
    <3>1. purge = [cutoff |-> purge.cutoff, batches |-> purge.batches, purged |-> purge.purged,
                   complete |-> purge.complete]
      BY <2>2
    <3>2. purge' = [cutoff |-> purge.cutoff, batches |-> purge.batches + 1,
                    purged |-> purge.purged + n, complete |-> (n < BatchSize)]
      BY <2>4, <3>1
    <3>3. purge.cutoff \in Nat /\ purge.batches \in 0..MaxBatches /\ purge.purged \in Nat
      BY <2>2
    <3>4. purge.batches + 1 \in 0..MaxBatches /\ purge.purged + n \in Nat
      BY <1>2, <2>1, <3>3, AuditAssumption
    <3> QED
      BY <2>3, <3>2, <3>3, <3>4
  <2>8. (purge.batches + 1) * BatchSize = purge.batches * BatchSize + BatchSize
    BY <2>2, AuditAssumption
  <2>9. Audit!Cutoff' = Audit!Cutoff
    BY <1>2 DEF Audit!Cutoff
  <2> QED
    BY <2>2, <2>5, <2>6, <2>7, <2>8, <2>9 DEF PurgeOK, Audit!Expired
<1>6. PagesOK' /\ AnswerOK'
  BY <1>2 DEF AuditInv, PagesOK, AnswerOK
<1>7. Unseen' \subseteq Unseen /\ AuditRead' = AuditRead /\ Unseen' \subseteq events'
  BY <1>1, <1>2 DEF Unseen, AuditRead
<1>8. ASSUME NEW filter, NEW e \in events'
      PROVE AuditRank(events', filter, e) = AuditRank(events, filter, e)
  <2>1. \A x \in removed : ~Audit!Older(x, e)
    BY <1>1, OlderIs DEF AuditInv, TableOK
  <2>2. {d \in events' : filter \in {All, d.action} /\ Audit!Older(d, e)}
        = {d \in events : filter \in {All, d.action} /\ Audit!Older(d, e)}
    BY <1>1, <2>1
  <2> QED
    BY <2>2 DEF AuditRank
<1>9. WalkOK'
  BY <1>2, <1>7, <1>8 DEF AuditInv, WalkOK
<1> QED
  BY <1>4, <1>5, <1>6, <1>9 DEF AuditInv

\* A page is asked for.
LEMMA LoadIs ==
    ASSUME AuditInv, NEW filter \in Action \cup {All},
          NEW offset \in {PageSize * k : k \in 0..MaxRecorded},
           Audit!Load(filter, offset), ~panel.busy
    PROVE  /\ UNCHANGED <<now, events, recorded, purge>> /\ answer = None /\ answer' = None
           /\ panel'.filter = filter /\ panel'.offset = offset /\ panel'.busy
           /\ PurgeOK' /\ PagesOK' /\ AnswerOK' /\ ~AuditRead'
<1>1. /\ UNCHANGED <<now, events, recorded, purge, answer>>
      /\ panel' = [panel EXCEPT !.filter = filter, !.offset = offset, !.busy = TRUE,
           !.error = FALSE]
  BY DEF Audit!Load
<1>2. answer = None
  BY DEF AuditInv, AnswerOK
<1>3. PurgeOK'
  BY <1>1 DEF AuditInv, PurgeOK, Audit!Cutoff, Audit!Expired
<1>4. offset \in Nat
  BY AuditAssumption
<1>5. /\ panel'.filter = filter /\ panel'.offset = offset /\ panel'.busy /\ ~panel'.error
      /\ panel'.shown = panel.shown
      /\ panel' \in [filter : Action \cup {All}, offset : Nat, shown : Seq(Audit!Event),
                     hasMore : BOOLEAN, busy : BOOLEAN, error : BOOLEAN]
  <2>1. TRUE \in BOOLEAN /\ FALSE \in BOOLEAN
    OBVIOUS
  <2> QED
    BY <1>1, <1>4, <2>1 DEF AuditInv, PagesOK
<1>6. PagesOK'
  BY <1>5 DEF AuditInv, PagesOK
<1> QED
  BY <1>1, <1>2, <1>3, <1>5, <1>6 DEF AnswerOK, AuditRead

LEMMA ApplyStep == ASSUME AuditInv, NEW filter \in Action \cup {All}, Audit!Apply(filter)
      PROVE AuditInv'
<1>1. 0 \in {PageSize * k : k \in 0..MaxRecorded}
  <2>1. 0 = PageSize * 0 /\ 0 \in 0..MaxRecorded
    BY AuditAssumption
  <2> QED
    BY <2>1
<1>2. ~panel.busy /\ Audit!Load(filter, 0) /\ walk' = Audit!NoWalk
  BY DEF Audit!Apply
<1>3. /\ UNCHANGED <<now, events, recorded, purge>> /\ answer' = None /\ panel'.busy
      /\ PurgeOK' /\ PagesOK' /\ AnswerOK'
  BY <1>1, <1>2, LoadIs
<1>4. WalkOK'
  BY <1>2, <1>3 DEF WalkOK, Unseen, Audit!NoWalk
<1> QED
  BY <1>3, <1>4, AuditPanelSteps

\* The walk goes on with a page that is not after what was not seen.
LEMMA TurnStep ==
    ASSUME AuditInv, NEW offset \in {PageSize * k : k \in 0..MaxRecorded},
           Audit!Load(panel.filter, offset), ~panel.busy, walk' = walk,
           offset <= panel.offset + (IF AuditRead THEN PageSize ELSE 0)
    PROVE  AuditInv'
<1>1. /\ UNCHANGED <<now, events, recorded, purge>> /\ answer' = None /\ panel'.busy
      /\ panel'.filter = panel.filter /\ panel'.offset = offset
      /\ PurgeOK' /\ PagesOK' /\ AnswerOK' /\ ~AuditRead'
  <2>1. panel.filter \in Action \cup {All}
    BY DEF AuditInv, PagesOK
  <2> QED
    BY <2>1, LoadIs
<1>2. Unseen' = Unseen
  BY <1>1 DEF Unseen
<1>3. \A e \in Unseen : AuditRank(events, panel.filter, e) \in Nat
  BY RankIsNat DEF AuditInv, TableOK
<1>4. offset \in Nat /\ panel.offset \in Nat
  BY AuditAssumption DEF AuditInv, PagesOK
<1>5. \A e \in Unseen : AuditRank(events, panel.filter, e) >= offset + 0
  BY <1>3, <1>4, AuditAssumption DEF AuditInv, WalkOK
<1>6. WalkOK'
  BY <1>1, <1>2, <1>5 DEF AuditInv, WalkOK
<1> QED
  BY <1>1, <1>6, AuditPanelSteps

LEMMA TimesGrows == ASSUME NEW a \in Nat \ {0}, NEW b \in Nat PROVE a * b \in Nat /\ b <= a * b
<1> DEFINE c == a - 1
<1>1. c \in Nat /\ a = c + 1
  OBVIOUS
<1> HIDE DEF c
<1>2. c * b \in Nat
  BY <1>1
<1>3. (c + 1) * b = c * b + b
  BY <1>1
<1> QED
  BY <1>1, <1>2, <1>3

LEMMA PreviousStep == ASSUME AuditInv, Audit!Previous PROVE AuditInv'
<1>1. ~panel.busy /\ panel.offset > 0 /\ Audit!Load(panel.filter, panel.offset - PageSize)
      /\ walk' = walk
  BY DEF Audit!Previous
<1>2. PICK k \in 0..MaxRecorded : panel.offset = PageSize * k
  BY DEF AuditInv, PagesOK
<1>3. k # 0
  BY <1>1, <1>2, AuditAssumption
<1>4. k - 1 \in 0..MaxRecorded /\ panel.offset - PageSize = PageSize * (k - 1)
  BY <1>2, <1>3, AuditAssumption
<1>5. panel.offset - PageSize \in {PageSize * i : i \in 0..MaxRecorded}
  BY <1>4
<1>6. panel.offset - PageSize <= panel.offset + (IF AuditRead THEN PageSize ELSE 0)
  BY AuditAssumption DEF AuditInv, PagesOK
<1> QED
  BY <1>1, <1>5, <1>6, TurnStep

LEMMA ForwardStep == ASSUME AuditInv, Audit!Forward PROVE AuditInv'
<1>1. ~panel.busy /\ panel.hasMore /\ Audit!Load(panel.filter, panel.offset + PageSize)
      /\ walk' = walk
  BY DEF Audit!Forward
<1>2. PICK k \in 0..MaxRecorded : panel.offset = PageSize * k
  BY DEF AuditInv, PagesOK
<1>3. panel.offset + PageSize < MaxRecorded /\ AuditRead
  BY <1>1 DEF AuditInv, PagesOK, AuditRead
<1>4. k + 1 \in Nat /\ panel.offset + PageSize = PageSize * (k + 1)
  BY <1>2, AuditAssumption
<1>5. k + 1 \in 0..MaxRecorded
  BY <1>3, <1>4, TimesGrows, AuditAssumption
<1>6. panel.offset + PageSize \in {PageSize * i : i \in 0..MaxRecorded}
  BY <1>4, <1>5
<1>7. panel.offset + PageSize <= panel.offset + (IF AuditRead THEN PageSize ELSE 0)
  BY <1>3, AuditAssumption DEF AuditInv, PagesOK
<1> QED
  BY <1>1, <1>6, <1>7, TurnStep

LEMMA HandledStep == ASSUME AuditInv, Audit!Handled PROVE AuditInv'
<1> DEFINE filter == panel.filter
           offset == panel.offset
           page == Audit!Page(filter, offset)
           M == Audit!Matching(filter)
           seen == Elements(page.shown)
<1>1. /\ panel.busy /\ answer = None /\ answer' = page
      /\ walk' = [due |-> IF offset = 0 THEN M ELSE walk.due,
                  seen |-> (IF offset = 0 THEN {} ELSE walk.seen) \cup seen]
      /\ UNCHANGED <<now, events, recorded, purge, panel>>
  BY DEF Audit!Handled, Elements
<1>2. offset \in Nat /\ filter \in Action \cup {All}
  BY DEF AuditInv, PagesOK
<1>3. /\ page.filter = filter /\ page.hasMore \in BOOLEAN
      /\ page = [filter |-> filter, shown |-> page.shown, hasMore |-> page.hasMore]
      /\ AuditGood(filter, page.shown)
      /\ page.hasMore => offset + PageSize < MaxRecorded
      /\ \A e \in M : /\ AuditRank(events, filter, e) \in Nat
                      /\ AuditRank(events, filter, e) \in offset..(offset + PageSize - 1) =>
                           e \in seen
                      /\ ~page.hasMore => AuditRank(events, filter, e) < offset + PageSize
      /\ seen \subseteq Audit!Event
  BY <1>2, PageIs DEF AuditInv
<1>4. \A e \in events : e \in M <=> filter \in {All, e.action}
  BY DEF Audit!Matching
<1>5. M \subseteq events
  BY DEF Audit!Matching
<1> HIDE DEF page, M, seen, filter, offset
<1>6. AnswerOK'
  BY <1>1, <1>2, <1>3 DEF AnswerOK, AuditGood, filter, offset
<1>7. PurgeOK' /\ PagesOK'
  BY <1>1 DEF AuditInv, PurgeOK, PagesOK, Audit!Cutoff, Audit!Expired
<1>8. ~AuditRead
  BY <1>1 DEF AuditRead
<1>9. \A e \in Unseen' : e \in M /\ AuditRank(events, filter, e) >= offset /\ e \notin seen
  <2>1. CASE offset = 0
    BY <1>1, <1>3, <2>1 DEF Unseen
  <2>2. CASE offset # 0
    <3>1. \A e \in Unseen' : e \in Unseen /\ e \notin seen
      BY <1>1, <2>2 DEF Unseen
    <3>2. \A e \in Unseen : AuditRank(events, filter, e) >= offset + 0 /\ e \in M
      BY <1>4, <1>8 DEF AuditInv, WalkOK, Unseen, filter, offset
    <3> QED
      BY <1>2, <1>3, <3>1, <3>2
  <2> QED
    BY <2>1, <2>2
<1>10. \A e \in Unseen' : AuditRank(events, filter, e) >= offset + PageSize
  BY <1>2, <1>3, <1>9, AuditAssumption
<1>11. ~page.hasMore => Unseen' = {}
  BY <1>2, <1>3, <1>9, <1>10, AuditAssumption
<1>12. \A e \in walk'.due : e \in Audit!Event /\ e.id \in recorded /\ filter \in {All, e.action}
  BY <1>1, <1>4, <1>5 DEF AuditInv, WalkOK, TableOK, filter
<1>13. \A e \in Unseen' : AuditRank(events, filter, e) >=
      offset + (IF AuditRead' THEN PageSize ELSE 0)
  BY <1>2, <1>3, <1>9, <1>10, AuditAssumption
<1>14. WalkOK'
  BY <1>1, <1>11, <1>12, <1>13 DEF WalkOK, filter, offset
<1> QED
  BY <1>1, <1>6, <1>7, <1>14, AuditPanelSteps

LEMMA AuditAnsweredStep == ASSUME AuditInv, Audit!Answered PROVE AuditInv'
<1>1. /\ answer # None /\ answer' = None /\ UNCHANGED <<now, events, recorded, purge, walk>>
      /\ panel' = [panel EXCEPT !.shown = answer.shown, !.hasMore = answer.hasMore,
           !.busy = FALSE]
  BY DEF Audit!Answered
<1>2. /\ answer \in [filter : Action \cup {All}, shown : Seq(Audit!Event), hasMore : BOOLEAN]
      /\ panel.busy /\ AuditGood(panel.filter, answer.shown)
      /\ answer.hasMore => panel.offset + PageSize < MaxRecorded
  BY <1>1 DEF AuditInv, AnswerOK
<1>3. /\ panel'.filter = panel.filter /\ panel'.offset = panel.offset /\ ~panel'.busy
      /\ panel'.error = panel.error /\ panel'.shown = answer.shown
           /\ panel'.hasMore = answer.hasMore
      /\ panel' \in [filter : Action \cup {All}, offset : Nat, shown : Seq(Audit!Event),
                     hasMore : BOOLEAN, busy : BOOLEAN, error : BOOLEAN]
  <2>1. FALSE \in BOOLEAN
    OBVIOUS
  <2> QED
    BY <1>1, <1>2, <2>1 DEF AuditInv, PagesOK
<1>4. PagesOK'
  BY <1>2, <1>3 DEF AuditInv, PagesOK, AuditGood
<1>5. PurgeOK' /\ AnswerOK'
  BY <1>1 DEF AuditInv, PurgeOK, AnswerOK, Audit!Cutoff, Audit!Expired
<1>6. Unseen' = Unseen /\ AuditRead
  BY <1>1 DEF Unseen, AuditRead
<1>7. ~panel.error
  BY <1>2 DEF AuditInv, PagesOK
<1>8. AuditRead'
  BY <1>3, <1>7 DEF AuditRead
<1>9. WalkOK'
  BY <1>1, <1>3, <1>6, <1>8 DEF AuditInv, WalkOK
<1> QED
  BY <1>1, <1>4, <1>5, <1>9, AuditPanelSteps

LEMMA FailsStep == ASSUME AuditInv, Audit!Fails PROVE AuditInv'
<1>1. /\ answer' = None /\ UNCHANGED <<now, events, recorded, purge, walk>>
      /\ panel' = IF panel.busy
                  THEN [panel EXCEPT !.busy = FALSE, !.error = TRUE, !.shown = <<>>,
                        !.hasMore = FALSE]
                  ELSE panel
  <2>1. /\ panel.busy /\ answer' = None /\ UNCHANGED <<now, events, recorded, purge, walk>>
        /\ panel' = [panel EXCEPT !.shown = <<>>, !.hasMore = FALSE, !.busy = FALSE,
             !.error = TRUE]
    BY DEF Audit!Fails
  <2> QED
    BY <2>1 DEF AuditInv, PagesOK
<1>2. PagesOK' /\ WalkOK'
  BY <1>1, FailedPage, WalkStops DEF AuditInv
<1>3. PurgeOK' /\ AnswerOK'
  BY <1>1 DEF AuditInv, PurgeOK, AnswerOK, Audit!Cutoff, Audit!Expired
<1> QED
  BY <1>1, <1>2, <1>3, AuditPanelSteps

LEMMA AuditStutterStep == ASSUME AuditInv, UNCHANGED Audit!vars PROVE AuditInv'
<1>1. Unseen' = Unseen /\ AuditRead' = AuditRead /\ Audit!Cutoff' = Audit!Cutoff
  BY DEF Audit!vars, Unseen, AuditRead, Audit!Cutoff
<1> QED
  BY <1>1 DEF Audit!vars, AuditInv, TableOK, PurgeOK, PagesOK, AnswerOK, WalkOK, Audit!Expired

LEMMA AuditStep == AuditInv /\ [Audit!Next]_(Audit!vars) => AuditInv'
  BY RecordStep, TickStep, RestartStep, PurgeBatchStep, ListenStep, ApplyStep, PreviousStep,
     ForwardStep, HandledStep, AuditAnsweredStep, FailsStep, AuditStutterStep DEF Audit!Next

LEMMA AuditIsRight == AuditInv => Audit!TypeOK /\ Audit!NothingSkipped /\ Audit!ShownMatches
      /\ Audit!PurgeIsComplete
<1> SUFFICES ASSUME AuditInv PROVE Audit!TypeOK /\ Audit!NothingSkipped /\ Audit!ShownMatches
      /\ Audit!PurgeIsComplete
  OBVIOUS
<1>1. Audit!TypeOK
  BY DEF AuditInv, TableOK, PurgeOK, PagesOK, Audit!TypeOK
<1>2. Audit!NothingSkipped
  BY DEF AuditInv, WalkOK, Unseen, Audit!NothingSkipped
<1>3. Audit!ShownMatches
  BY DEF AuditInv, PagesOK, AuditGood, Audit!ShownMatches
<1>4. Audit!PurgeIsComplete
  BY AuditAssumption DEF AuditInv, PurgeOK, Audit!PurgeIsComplete, Audit!Purging
<1> QED
  BY <1>1, <1>2, <1>3, <1>4

LEMMA PurgedAreOld == ASSUME AuditInv, [Audit!Next]_(Audit!vars) PROVE Audit!OldestPurged
<1>1. CASE Audit!PurgeBatch
  <2>1. PICK removed \in SUBSET events :
            /\ events' = events \ removed
            /\ \A e \in removed : e.time < purge.cutoff
            /\ \A e \in removed, d \in events \ removed : Audit!Older(d, e)
    BY <1>1, BatchIs
  <2>2. purge # None /\ purge.cutoff = Audit!Cutoff
    BY <1>1, AuditCounts DEF Audit!PurgeBatch, Audit!Purging, AuditInv, PurgeOK
  <2>3. \A e \in events : e.time \in Nat /\ now \in Nat
    BY DEF AuditInv, TableOK, Audit!Event
  <2>4. \A e \in removed : e.time + Retention < now
    BY <2>1, <2>2, <2>3, AuditAssumption DEF Audit!Cutoff
  <2> QED
    BY <2>1, <2>4 DEF Audit!OldestPurged
<1>2. ~Audit!PurgeBatch => events \ events' = {}
  BY DEF Audit!Next, Audit!vars, Audit!Record, Audit!Tick, Audit!Restart, Audit!Listen,
     Audit!Apply, Audit!Load, Audit!Previous, Audit!Forward, Audit!Handled, Audit!Answered,
     Audit!Fails
<1> QED
  BY <1>1, <1>2 DEF Audit!OldestPurged

-----------------------------------------------------------------------------
(* The live logs.                                                          *)

LogEvent == [type : {"ready", "log", "end", "error", "refused", "eof"}, n : 0..MaxChunks]
LogsReady == Logs!Event("ready")
LogsEof == Logs!Event("eof")

LogsVariablesOK ==
    /\ viewer \in [state : {"idle", "connecting", "connected", "ended", "error", "left"},
                  entries : Seq(Stream \X (1..MaxChunks)), controller : Stream \cup {None},
                  last : [Stream -> 0..MaxChunks]]
    /\ Len(viewer.entries) <= MaxEntries
    /\ browser \in [Stream -> {"none", "here", "gone"}]
    /\ route \in [Stream -> {"none", "opening", "streaming", "over"}]
    /\ ssh \in [Stream -> [state : {"none", "connecting", "starting", "open", "ended"},
                           sent : 0..MaxChunks, read : 0..MaxChunks, exited : BOOLEAN]]
    /\ written \in [Stream -> Seq(LogEvent)]

\* A handler and its command go together.
HandlerOK(s) ==
    /\ route[s] = "none" <=> browser[s] = "none"
    /\ route[s] = "none" => ssh[s].state = "none"
    /\ route[s] = "opening" => ssh[s].state \in {"connecting", "starting"}
    /\ route[s] = "streaming" => ssh[s].state = "open"
    /\ route[s] = "over" => ssh[s].state = "ended"
    /\ route[s] \in {"none", "opening"} =>
           ssh[s].sent = 0 /\ ssh[s].read = 0 /\ viewer.last[s] = 0
    /\ ssh[s].read <= ssh[s].sent
    /\ browser[s] # "here" => written[s] = <<>>

\* On the way are a first event at most, then the lines from the last one that was received
\* to the last one that was forwarded, then the m events of an end.
LogsFlow(q, last, read, r, m) ==
    /\ r \in {0, 1} /\ Len(q) = r + (read - last) + m
    /\ r = 1 => q[1] = LogsReady
    /\ \A i \in 1..(read - last) : q[r + i] = Logs!Log(last + i)

\* The end is told after the last of the lines.
LogsClosed(q, whole) ==
    /\ q[Len(q)] = LogsEof
    /\ q[Len(q) - 1] \in {Logs!Event("end"), Logs!Event("error")}
    /\ q[Len(q) - 1] = Logs!Event("end") => whole

FlowOK(s) ==
    browser[s] = "here" =>
        /\ viewer.last[s] <= ssh[s].read
        /\ route[s] = "opening" => written[s] = <<>>
        /\ route[s] = "streaming" =>
               \E r \in {0, 1} : LogsFlow(written[s], viewer.last[s], ssh[s].read, r, 0)
        /\ route[s] = "over" =>
               \/ written[s] = <<Logs!Event("refused")>>
               \/ written[s] = <<LogsEof>>
               \/ \E r \in {0, 1} : /\ LogsFlow(written[s], viewer.last[s], ssh[s].read, r, 2)
                                    /\ LogsClosed(written[s], ssh[s].read = ssh[s].sent)

\* The streams that are open are that of the controller, and those that are at their end.
ControllerOK ==
    /\ viewer.controller # None => browser[viewer.controller] = "here"
    /\ Logs!Connected => viewer.controller # None /\ written[viewer.controller] # <<LogsEof>>
    /\ viewer.state \in {"idle", "left"} => viewer.controller = None
    /\ viewer.state \in {"ended", "error"} /\ viewer.controller # None =>
           written[viewer.controller] = <<LogsEof>>
    /\ \A s \in Stream : browser[s] = "here" /\ s # viewer.controller => written[s] = <<LogsEof>>

LogsInv ==
    /\ LogsVariablesOK /\ ControllerOK /\ Logs!EntriesAreNewest
    /\ \A s \in Stream : HandlerOK(s) /\ FlowOK(s)

\* The number of elements is the same operator under every name.
LEMMA LogsCounts == \A S : Logs!Cardinality(S) = Cardinality(S)
  BY DEF Logs!Cardinality, Cardinality

LEMMA EventsDiffer ==
    /\ \A type \in {"ready", "log", "end", "error", "refused", "eof"} :
           Logs!Event(type) \in LogEvent /\ Logs!Event(type).type = type
    /\ \A n \in 0..MaxChunks : Logs!Log(n) \in LogEvent /\ Logs!Log(n).type = "log"
         /\ Logs!Log(n).n = n
    /\ LogsReady.type = "ready" /\ LogsEof.type = "eof"
<1>1. 0 \in 0..MaxChunks
  BY LogsAssumption
<1> QED
  BY <1>1 DEF Logs!Event, Logs!Log, LogEvent, LogsReady, LogsEof

\* What is known of one stream.
LEMMA StreamTypes ==
    ASSUME LogsVariablesOK, NEW s \in Stream
    PROVE  /\ 0..MaxChunks \subseteq Nat
           /\ viewer.last[s] \in 0..MaxChunks /\ ssh[s].sent \in 0..MaxChunks
           /\ ssh[s].read \in 0..MaxChunks /\ written[s] \in Seq(LogEvent)
<1>1. 0..MaxChunks \subseteq Nat
  BY LogsAssumption
<1>2. viewer.last \in [Stream -> 0..MaxChunks]
  BY DEF LogsVariablesOK
<1>3. ssh[s] \in [state : {"none", "connecting", "starting", "open", "ended"},
                 sent : 0..MaxChunks, read : 0..MaxChunks, exited : BOOLEAN]
  BY DEF LogsVariablesOK
<1>4. written[s] \in Seq(LogEvent)
  BY DEF LogsVariablesOK
<1> QED
  BY <1>1, <1>2, <1>3, <1>4

\* What is told when the response ends.
LEMMA EndIsTold ==
    ASSUME LogsInv PROVE Logs!TypeOK /\ Logs!EndIsWhole /\ Logs!ConnectedIsHeld
          /\ Logs!OverReleases
<1>1. Logs!TypeOK
  BY DEF LogsInv, LogsVariablesOK, Logs!TypeOK, HandlerOK
<1>2. Logs!EndIsWhole
  <2> SUFFICES ASSUME NEW s \in Stream, written[s] # <<>>, Head(written[s]).type = "end"
               PROVE  viewer.last[s] = ssh[s].sent
    BY DEF Logs!EndIsWhole
  <2> DEFINE q == written[s] last == viewer.last[s] read == ssh[s].read
  <2>0. browser[s] = "here" /\ last <= read
    BY DEF LogsInv, HandlerOK, FlowOK
  <2>1. /\ browser[s] = "here" /\ last <= read /\ last \in Nat /\ read \in Nat
             /\ q \in Seq(LogEvent)
        /\ read \in 0..MaxChunks
    BY <2>0, StreamTypes DEF LogsInv
  <2>2. q # <<>> /\ q[1].type = "end"
    BY <2>1
  <2>3. route[s] \in {"streaming", "over"}
    BY <2>1 DEF LogsInv, LogsVariablesOK, HandlerOK, FlowOK
  <2>4. PICK r \in {0, 1}, m \in {0, 2} :
           LogsFlow(q, last, read, r, m) /\ (m = 2 => LogsClosed(q, ssh[s].read = ssh[s].sent))
    BY <2>1, <2>2, <2>3, EventsDiffer DEF LogsInv, FlowOK
  <2> HIDE DEF q, last, read
  <2>5. r = 0
    BY <2>2, <2>4, EventsDiffer DEF LogsFlow
  <2>6. last = read
    <3> SUFFICES ASSUME last # read PROVE FALSE
      OBVIOUS
    <3>1. 1 \in 1..(read - last)
      BY <2>1
    <3>2. q[1] = Logs!Log(last + 1)
      BY <2>1, <2>4, <2>5, <3>1 DEF LogsFlow
    <3>3. last + 1 \in 0..MaxChunks
      BY <2>1, <3>1, LogsAssumption
    <3> QED
      BY <2>2, <3>2, <3>3, EventsDiffer
  <2>7. Len(q) = m /\ m = 2
    BY <2>1, <2>2, <2>4, <2>5, <2>6 DEF LogsFlow
  <2>8. LogsClosed(q, ssh[s].read = ssh[s].sent)
    BY <2>4, <2>7
  <2>9. q[1] = Logs!Event("end")
    BY <2>2, <2>7, <2>8, EventsDiffer DEF LogsClosed
  <2> QED
    BY <2>6, <2>7, <2>8, <2>9 DEF LogsClosed, last, read
<1>3. Logs!ConnectedIsHeld
  BY DEF LogsInv, ControllerOK, Logs!ConnectedIsHeld
<1>4. Logs!OverReleases
  BY DEF LogsInv, HandlerOK, Logs!OverReleases
<1> QED
  BY <1>1, <1>2, <1>3, <1>4

\* A command whose output nobody reads is one that started after its browser had gone.
LEMMA LogsAbandoned ==
    ASSUME LogsVariablesOK, \A s \in Stream : HandlerOK(s), [Logs!Next]_(Logs!vars)
          PROVE Logs!AbandonedEarly
<1> SUFFICES ASSUME NEW t \in Stream, browser'[t] = "gone", route'[t] = "streaming"
             PROVE  browser[t] = "gone" /\ route[t] \in {"opening", "streaming"}
  BY DEF Logs!AbandonedEarly
<1> DEFINE Gone(s) == Logs!BrowserGone(s)
<1>1. ASSUME NEW s \in Stream, Logs!BrowserGone(s)
      PROVE  browser[t] = "gone" /\ route[t] \in {"opening", "streaming"}
  BY <1>1 DEF Logs!BrowserGone, LogsVariablesOK
<1>2. CASE UNCHANGED Logs!vars
  BY <1>2 DEF Logs!vars
<1>3. CASE Logs!Disconnect \/ Logs!Leave
  BY <1>1, <1>3 DEF Logs!Disconnect, Logs!Leave, LogsVariablesOK
<1>4. ASSUME NEW s \in Stream, Logs!Ends(s) \/ Logs!Lost(s)
      PROVE  browser[t] = "gone" /\ route[t] \in {"opening", "streaming"}
  BY <1>1, <1>4 DEF Logs!Ends, Logs!Lost
<1>5. ASSUME NEW s \in Stream, Logs!Connect(s)
      PROVE  browser[t] = "gone" /\ route[t] \in {"opening", "streaming"}
  BY <1>5 DEF Logs!Connect, LogsVariablesOK
<1>6. ASSUME NEW s \in Stream,
             \/ Logs!SshReady(s) \/ Logs!SshFails(s) \/ Logs!StartFails(s) \/ Logs!Starts(s)
                  \/ Logs!Receive(s)
             \/ Logs!Writes(s) \/ Logs!Exits(s) \/ Logs!Forwards(s) \/ Logs!Completes(s)
                  \/ Logs!Breaks(s)
      PROVE  browser[t] = "gone" /\ route[t] \in {"opening", "streaming"}
  BY <1>6 DEF Logs!SshReady, Logs!SshFails, Logs!StartFails, Logs!Refuse, Logs!Starts,
     Logs!Receive, Logs!Writes, Logs!Exits, Logs!Forwards, Logs!Completes, Logs!Breaks,
     LogsVariablesOK
<1>7. CASE Logs!Clear
  BY <1>7 DEF Logs!Clear
<1> QED
  BY <1>2, <1>3, <1>4, <1>5, <1>6, <1>7 DEF Logs!Next

-----------------------------------------------------------------------------
(* The entries.                                                            *)

Later(entries, i) == {k \in DOMAIN entries : k > i /\ entries[k][1] = entries[i][1]}

Newest(entries, last) ==
    \A i \in DOMAIN entries : entries[i][2] = last[entries[i][1]] - Cardinality(Later(entries, i))

LEMMA EntriesAre == Logs!EntriesAreNewest <=> Newest(viewer.entries, viewer.last)
  BY LogsCounts DEF Logs!EntriesAreNewest, Newest, Later

LEMMA EntriesAreThen ==
    Logs!EntriesAreNewest' <=> Newest(viewer'.entries, viewer'.last)
<1>1. (Logs!EntriesAreNewest <=> Newest(viewer.entries, viewer.last))'
  BY EntriesAre, PTL
<1> QED
  BY <1>1 DEF Newest, Later

LEMMA LaterFinite ==
    ASSUME NEW S, NEW entries \in Seq(S), NEW i \in DOMAIN entries
    PROVE  IsFiniteSet(Later(entries, i)) /\ Cardinality(Later(entries, i)) \in Nat
<1>1. Later(entries, i) \subseteq 1..Len(entries)
  BY DEF Later
<1>2. IsFiniteSet(Later(entries, i))
  BY <1>1, FS_Interval, FS_Subset
<1> QED
  BY <1>2, FS_CardinalityType

\* The line that follows comes to the end.
LEMMA NewestAppend ==
    ASSUME NEW entries \in Seq(Stream \X (1..MaxChunks)), NEW last \in [Stream -> 0..MaxChunks],
           Newest(entries, last), NEW s \in Stream
    PROVE  Newest(Append(entries, <<s, last[s] + 1>>), [last EXCEPT ![s] = last[s] + 1])
<1> DEFINE e == <<s, last[s] + 1>>
           all == Append(entries, e)
           next == [last EXCEPT ![s] = last[s] + 1]
           L == Len(entries)
<1>1. /\ L \in Nat /\ DOMAIN entries = 1..L /\ DOMAIN all = 1..(L + 1) /\ all[L + 1] = e
      /\ \A i \in 1..L : all[i] = entries[i] /\ entries[i][1] \in Stream
           /\ entries[i][2] \in 1..MaxChunks
  OBVIOUS
<1>2. next[s] = last[s] + 1 /\ \A t \in Stream : t # s => next[t] = last[t]
  OBVIOUS
<1>3. e[1] = s /\ e[2] = last[s] + 1 /\ last[s] \in Nat /\ \A t \in Stream : last[t] \in Nat
  BY LogsAssumption
<1> HIDE DEF e, all, next, L
<1>4. ASSUME NEW i \in 1..L PROVE all[i][2] = next[all[i][1]] - Cardinality(Later(all, i))
  <2>1. /\ IsFiniteSet(Later(entries, i)) /\ Cardinality(Later(entries, i)) \in Nat
        /\ entries[i][2] = last[entries[i][1]] - Cardinality(Later(entries, i))
    BY <1>1, LaterFinite DEF Newest
  <2>2. CASE entries[i][1] = s
    <3>1. Later(all, i) = Later(entries, i) \cup {L + 1}
      BY <1>1, <1>3, <2>2 DEF Later
    <3>2. L + 1 \notin Later(entries, i)
      BY <1>1 DEF Later
    <3>3. Cardinality(Later(all, i)) = Cardinality(Later(entries, i)) + 1
      BY <2>1, <3>1, <3>2, FS_AddElement
    <3> QED
      BY <1>1, <1>2, <1>3, <2>1, <2>2, <3>3
  <2>3. CASE entries[i][1] # s
    <3>1. Later(all, i) = Later(entries, i)
      BY <1>1, <1>3, <2>3 DEF Later
    <3> QED
      BY <1>1, <1>2, <2>1, <2>3, <3>1
  <2> QED
    BY <2>2, <2>3
<1>5. all[L + 1][2] = next[all[L + 1][1]] - Cardinality(Later(all, L + 1))
  <2>1. Later(all, L + 1) = {}
    BY <1>1 DEF Later
  <2>2. Cardinality(Later(all, L + 1)) = 0
    BY <2>1, FS_EmptySet
  <2> QED
    BY <1>1, <1>2, <1>3, <2>2
<1>6. Newest(all, next)
  <2>1. \A i \in 1..(L + 1) : i \in 1..L \/ i = L + 1
    BY <1>1
  <2> QED
    BY <1>1, <1>4, <1>5, <2>1 DEF Newest
<1> QED
  BY <1>6 DEF all, next, e

\* The oldest entry may go.
LEMMA NewestTail ==
    ASSUME NEW S, NEW entries \in Seq(S), NEW last, Newest(entries, last), entries # <<>>
    PROVE  Newest(Tail(entries), last)
<1> DEFINE rest == Tail(entries)
           L == Len(rest)
<1>1. /\ rest \in Seq(S) /\ L \in Nat /\ DOMAIN rest = 1..L /\ DOMAIN entries = 1..(L + 1)
      /\ \A i \in 1..L : rest[i] = entries[i + 1]
  OBVIOUS
<1> HIDE DEF rest, L
<1>2. ASSUME NEW i \in 1..L PROVE Cardinality(Later(rest, i)) = Cardinality(Later(entries, i + 1))
  <2> DEFINE A == Later(rest, i)
             B == Later(entries, i + 1)
             f == [k \in A |-> k + 1]
  <2>1. \A k \in A : k \in 1..L /\ k > i /\ k + 1 \in B
    BY <1>1 DEF Later
  <2>2. \A k \in B : k - 1 \in A /\ k \in 1..(L + 1)
    <3> SUFFICES ASSUME NEW k \in B PROVE k - 1 \in A /\ k \in 1..(L + 1)
      OBVIOUS
    <3>1. k \in 1..(L + 1) /\ k > i + 1 /\ entries[k][1] = entries[i + 1][1]
      BY <1>1 DEF Later
    <3>2. k - 1 \in 1..L /\ k - 1 > i /\ (k - 1) + 1 = k
      BY <1>1, <3>1
    <3>3. rest[k - 1] = entries[k] /\ rest[i] = entries[i + 1]
      BY <1>1, <3>2
    <3> QED
      BY <1>1, <3>1, <3>2, <3>3 DEF Later
  <2>3. IsFiniteSet(A)
    BY <1>1, LaterFinite
  <2> HIDE DEF A, B
  <2>4. f \in Bijection(A, B)
    <3>1. f \in [A -> B]
      BY <2>1
    <3>2. \A j, k \in A : f[j] = f[k] => j = k
      BY <1>1, <2>1
    <3>3. \A k \in B : \E j \in A : f[j] = k
      <4> SUFFICES ASSUME NEW k \in B PROVE f[k - 1] = k /\ k - 1 \in A
        OBVIOUS
      <4> QED
        BY <1>1, <2>2
    <3> QED
      BY <3>1, <3>2, <3>3 DEF Bijection, Injection, IsInjective, Surjection
  <2>5. Cardinality(B) = Cardinality(A)
    BY <2>3, <2>4, FS_Bijection DEF ExistsBijection
  <2> QED
    BY <2>5 DEF A, B
<1>3. Newest(rest, last)
  <2>1. \A i \in 1..L : i + 1 \in 1..(L + 1)
    BY <1>1
  <2> QED
    BY <1>1, <1>2, <2>1 DEF Newest
<1> QED
  BY <1>3 DEF rest

-----------------------------------------------------------------------------
(* The steps.                                                              *)

LEMMA LogsInitially == Logs!Init => LogsInv
<1> SUFFICES ASSUME Logs!Init PROVE LogsInv
  OBVIOUS
<1>1. 0 \in 0..MaxChunks
  BY LogsAssumption
<1>2. LogsVariablesOK
  <2>1. <<>> \in Seq(Stream \X (1..MaxChunks)) /\ Len(<<>>) = 0 /\ <<>> \in Seq(LogEvent)
    OBVIOUS
  <2>2. viewer = [state |-> "idle", entries |-> <<>>, controller |-> None,
                 last |-> [s \in Stream |-> 0]]
    BY DEF Logs!Init
  <2>3. Len(viewer.entries) <= MaxEntries
    BY <2>1, <2>2, LogsAssumption
  <2>4. viewer \in [state : {"idle", "connecting", "connected", "ended", "error", "left"},
                   entries : Seq(Stream \X (1..MaxChunks)), controller : Stream \cup {None},
                   last : [Stream -> 0..MaxChunks]]
    BY <1>1, <2>1, <2>2
  <2> QED
    BY <1>1, <2>1, <2>3, <2>4 DEF Logs!Init, LogsVariablesOK
<1>3. ControllerOK
  BY LogsAssumption DEF Logs!Init, ControllerOK, Logs!Connected
<1>4. Logs!EntriesAreNewest
  BY LogsCounts DEF Logs!Init, Logs!EntriesAreNewest
<1>5. \A s \in Stream : HandlerOK(s) /\ FlowOK(s)
  BY DEF Logs!Init, HandlerOK, FlowOK
<1> QED
  BY <1>2, <1>3, <1>4, <1>5 DEF LogsInv

\* A step leaves alone what is known of a stream that it does not touch.
LEMMA OthersStay ==
    ASSUME LogsInv, NEW t \in Stream, browser'[t] = browser[t], route'[t] = route[t],
          ssh'[t] = ssh[t],
           written'[t] = written[t], viewer'.last[t] = viewer.last[t]
    PROVE  HandlerOK(t)' /\ FlowOK(t)'
<1>1. HandlerOK(t) /\ FlowOK(t)
  BY DEF LogsInv
<1>2. HandlerOK(t)'
  BY <1>1 DEF HandlerOK
<1>3. FlowOK(t)'
  BY <1>1 DEF FlowOK
<1> QED
  BY <1>2, <1>3

\* While lines are on the way, the end of the response is not all that is.
LEMMA FlowIsNotOver ==
    ASSUME NEW q \in Seq(LogEvent), NEW last \in 0..MaxChunks, NEW read \in 0..MaxChunks,
           last <= read, NEW r, NEW m \in {0, 2}, LogsFlow(q, last, read, r, m)
    PROVE  q # <<LogsEof>>
<1> SUFFICES ASSUME q = <<LogsEof>> PROVE FALSE
  OBVIOUS
<1>1. Len(q) = 1 /\ q[1] = LogsEof /\ m = 0
  BY LogsAssumption DEF LogsFlow
<1>2. r = 0 /\ read - last = 1
  BY <1>1, EventsDiffer, LogsAssumption DEF LogsFlow
<1>3. q[1] = Logs!Log(last + 1)
  BY <1>2 DEF LogsFlow
<1>4. last + 1 \in 0..MaxChunks
  BY <1>2, LogsAssumption
<1> QED
  BY <1>1, <1>3, <1>4, EventsDiffer

\* Whose handler is not over is the stream that the panel is connected to.
LEMMA Speaks ==
    ASSUME LogsInv, NEW s \in Stream, browser[s] = "here", written[s] # <<LogsEof>>
    PROVE  s = viewer.controller /\ Logs!Connected
<1>1. s = viewer.controller /\ viewer.controller # None
  BY LogsAssumption DEF LogsInv, ControllerOK
<1>2. viewer.state \in {"connecting", "connected"}
  BY <1>1 DEF LogsInv, ControllerOK, LogsVariablesOK
<1> QED
  BY <1>1, <1>2 DEF Logs!Connected

LEMMA Streams ==
    ASSUME LogsInv, NEW s \in Stream, browser[s] = "here", route[s] \in {"opening", "streaming"}
    PROVE  written[s] # <<LogsEof>> /\ s = viewer.controller /\ Logs!Connected
<1>1. written[s] # <<LogsEof>>
  <2>1. CASE route[s] = "opening"
    <3>1. written[s] = <<>>
      BY <2>1 DEF LogsInv, FlowOK
    <3> QED
      BY <3>1
  <2>2. CASE route[s] = "streaming"
    <3>1. PICK r \in {0, 1} : LogsFlow(written[s], viewer.last[s], ssh[s].read, r, 0)
      BY <2>2 DEF LogsInv, FlowOK
    <3>2. viewer.last[s] <= ssh[s].read
      BY DEF LogsInv, FlowOK
    <3> QED
      BY <3>1, <3>2, StreamTypes, FlowIsNotOver DEF LogsInv
  <2> QED
    BY <2>1, <2>2
<1> QED
  BY <1>1, Speaks

\* What the handler of a stream writes.
LEMMA WriteIs ==
    ASSUME LogsVariablesOK, NEW s \in Stream, NEW es \in Seq(LogEvent), Logs!Write(s, es)
    PROVE  /\ written' \in [Stream -> Seq(LogEvent)]
           /\ \A t \in Stream : t # s => written'[t] = written[t]
           /\ written'[s] = IF browser[s] = "here" THEN written[s] \o es ELSE written[s]
  BY DEF LogsVariablesOK, Logs!Write

\* A step of a handler keeps the invariant when it keeps what is known of its stream.
LEMMA HandlerStep ==
    ASSUME LogsInv, NEW s \in Stream, UNCHANGED <<viewer, browser>>,
           route[s] \in {"opening", "streaming"},
           \A t \in Stream : t # s => route'[t] = route[t] /\ ssh'[t] = ssh[t]
                 /\ written'[t] = written[t],
           route' \in [Stream -> {"none", "opening", "streaming", "over"}],
           ssh' \in [Stream -> [state : {"none", "connecting", "starting", "open", "ended"},
                                sent : 0..MaxChunks, read : 0..MaxChunks, exited : BOOLEAN]],
           written' \in [Stream -> Seq(LogEvent)],
           browser[s] = "here" => written'[s] # <<LogsEof>>, HandlerOK(s)', FlowOK(s)'
    PROVE  LogsInv'
<1>1. LogsVariablesOK'
  BY DEF LogsInv, LogsVariablesOK
<1>2. ControllerOK'
  <2>1. Logs!Connected' = Logs!Connected
    BY DEF Logs!Connected
  <2>2. browser[s] = "here" => s = viewer.controller /\ Logs!Connected
    BY Streams
  <2>3. viewer.controller # None => viewer.controller \in Stream
    BY DEF LogsInv, LogsVariablesOK
  <2>4. Logs!Connected => viewer.controller # None /\ written'[viewer.controller] # <<LogsEof>>
    <3>1. CASE s = viewer.controller
      BY <3>1, LogsAssumption DEF LogsInv, ControllerOK
    <3>2. CASE s # viewer.controller
      BY <2>3, <3>2 DEF LogsInv, ControllerOK
    <3> QED
      BY <3>1, <3>2
  <2>5. ASSUME viewer.state \in {"ended", "error"}, viewer.controller # None
        PROVE  written'[viewer.controller] = <<LogsEof>>
    BY <2>2, <2>3, <2>5 DEF LogsInv, ControllerOK, Logs!Connected
  <2>6. \A t \in Stream : browser[t] = "here" /\ t # viewer.controller =>
        written'[t] = <<LogsEof>>
    BY <2>2 DEF LogsInv, ControllerOK
  <2> QED
    BY <2>1, <2>4, <2>5, <2>6 DEF LogsInv, ControllerOK
<1>3. Logs!EntriesAreNewest'
  <2>1. viewer' = viewer
    OBVIOUS
  <2>2. Newest(viewer.entries, viewer.last)
    BY EntriesAre DEF LogsInv
  <2> QED
    BY <2>1, <2>2, EntriesAreThen
<1>4. \A t \in Stream : t # s => HandlerOK(t)' /\ FlowOK(t)'
  BY OthersStay
<1> QED
  BY <1>1, <1>2, <1>3, <1>4 DEF LogsInv

LEMMA SshReadyStep == ASSUME LogsInv, NEW s \in Stream, Logs!SshReady(s) PROVE LogsInv'
<1>1. /\ UNCHANGED <<viewer, browser, route, written>> /\ route[s] = "opening"
      /\ ssh' = [ssh EXCEPT ![s].state = "starting"]
      /\ HandlerOK(s) /\ FlowOK(s) /\ LogsVariablesOK
  BY DEF Logs!SshReady, LogsInv
<1>2. ssh[s] \in [state : {"none", "connecting", "starting", "open", "ended"},
                 sent : 0..MaxChunks, read : 0..MaxChunks, exited : BOOLEAN]
  BY <1>1 DEF LogsVariablesOK
<1>3. /\ ssh' \in [Stream -> [state : {"none", "connecting", "starting", "open", "ended"},
                             sent : 0..MaxChunks, read : 0..MaxChunks, exited : BOOLEAN]]
      /\ \A t \in Stream : t # s => ssh'[t] = ssh[t]
      /\ ssh'[s].state = "starting" /\ ssh'[s].read = ssh[s].read /\ ssh'[s].sent = ssh[s].sent
  BY <1>1, <1>2 DEF LogsVariablesOK
<1>4. HandlerOK(s)'
  BY <1>1, <1>3 DEF HandlerOK
<1>5. FlowOK(s)'
  BY <1>1, <1>3 DEF FlowOK
<1>6. browser[s] = "here" => written'[s] # <<LogsEof>>
  BY <1>1, Streams
<1>7. /\ route' \in [Stream -> {"none", "opening", "streaming", "over"}]
      /\ written' \in [Stream -> Seq(LogEvent)]
  BY <1>1 DEF LogsVariablesOK
<1> QED
  BY <1>1, <1>3, <1>4, <1>5, <1>6, <1>7, HandlerStep

\* The handler ends, or begins to stream: the states of a stream and of its command.
LEMMA HandlerStates ==
    ASSUME LogsVariablesOK, NEW s \in Stream,
           NEW r \in {"streaming", "over"}, NEW c \in {"open", "ended"},
           route' = [route EXCEPT ![s] = r], ssh' = [ssh EXCEPT ![s].state = c]
    PROVE  /\ route' \in [Stream -> {"none", "opening", "streaming", "over"}]
           /\ ssh' \in [Stream -> [state : {"none", "connecting", "starting", "open", "ended"},
                                   sent : 0..MaxChunks, read : 0..MaxChunks, exited : BOOLEAN]]
           /\ \A t \in Stream : t # s => route'[t] = route[t] /\ ssh'[t] = ssh[t]
           /\ route'[s] = r /\ ssh'[s].state = c
           /\ ssh'[s].read = ssh[s].read /\ ssh'[s].sent = ssh[s].sent
<1>1. ssh[s] \in [state : {"none", "connecting", "starting", "open", "ended"},
                 sent : 0..MaxChunks, read : 0..MaxChunks, exited : BOOLEAN]
  BY DEF LogsVariablesOK
<1> QED
  BY <1>1 DEF LogsVariablesOK

LEMMA RefuseStep == ASSUME LogsInv, NEW s \in Stream, Logs!SshFails(s) \/ Logs!StartFails(s)
      PROVE LogsInv'
<1>1. /\ UNCHANGED <<viewer, browser>> /\ route[s] = "opening"
      /\ route' = [route EXCEPT ![s] = "over"] /\ ssh' = [ssh EXCEPT ![s].state = "ended"]
      /\ Logs!Write(s, <<Logs!Event("refused")>>)
      /\ HandlerOK(s) /\ FlowOK(s) /\ LogsVariablesOK
  BY DEF Logs!SshFails, Logs!StartFails, Logs!Refuse, LogsInv
<1>2. <<Logs!Event("refused")>> \in Seq(LogEvent)
  BY EventsDiffer
<1>3. /\ written' \in [Stream -> Seq(LogEvent)]
      /\ \A t \in Stream : t # s => written'[t] = written[t]
      /\ written'[s] = IF browser[s] = "here" THEN written[s] \o <<Logs!Event("refused")>>
           ELSE written[s]
  BY <1>1, <1>2, WriteIs
<1>4. browser[s] = "here" => written'[s] = <<Logs!Event("refused")>> /\ written'[s] # <<LogsEof>>
  <2>1. browser[s] = "here" => written[s] = <<>>
    BY <1>1 DEF FlowOK
  <2>2. <<>> \o <<Logs!Event("refused")>> = <<Logs!Event("refused")>>
    OBVIOUS
  <2>3. <<Logs!Event("refused")>> # <<LogsEof>>
    <3>1. Logs!Event("refused") # LogsEof
      BY EventsDiffer
    <3>2. <<Logs!Event("refused")>>[1] # <<LogsEof>>[1]
      BY <3>1
    <3> QED
      BY <3>2
  <2> QED
    BY <1>3, <2>1, <2>2, <2>3
<1>5. /\ route' \in [Stream -> {"none", "opening", "streaming", "over"}]
      /\ ssh' \in [Stream -> [state : {"none", "connecting", "starting", "open", "ended"},
                              sent : 0..MaxChunks, read : 0..MaxChunks, exited : BOOLEAN]]
      /\ \A t \in Stream : t # s => route'[t] = route[t] /\ ssh'[t] = ssh[t]
      /\ route'[s] = "over" /\ ssh'[s].state = "ended"
      /\ ssh'[s].read = ssh[s].read /\ ssh'[s].sent = ssh[s].sent
  BY <1>1, HandlerStates
<1>6. HandlerOK(s)'
  BY <1>1, <1>3, <1>5 DEF HandlerOK
<1>7. FlowOK(s)'
  BY <1>1, <1>4, <1>5 DEF FlowOK
<1> QED
  BY <1>1, <1>3, <1>4, <1>5, <1>6, <1>7, HandlerStep

LEMMA StartsStep == ASSUME LogsInv, NEW s \in Stream, Logs!Starts(s) PROVE LogsInv'
<1>1. /\ UNCHANGED <<viewer, browser>> /\ route[s] = "opening"
      /\ route' = [route EXCEPT ![s] = "streaming"] /\ ssh' = [ssh EXCEPT ![s].state = "open"]
      /\ Logs!Write(s, <<LogsReady>>)
      /\ HandlerOK(s) /\ FlowOK(s) /\ LogsVariablesOK
  BY DEF Logs!Starts, LogsInv, LogsReady
<1>2. <<LogsReady>> \in Seq(LogEvent)
  BY EventsDiffer DEF LogsReady
<1>3. /\ written' \in [Stream -> Seq(LogEvent)]
      /\ \A t \in Stream : t # s => written'[t] = written[t]
      /\ written'[s] = IF browser[s] = "here" THEN written[s] \o <<LogsReady>> ELSE written[s]
  BY <1>1, <1>2, WriteIs
<1>4. browser[s] = "here" => written'[s] = <<LogsReady>>
  <2>1. browser[s] = "here" => written[s] = <<>>
    BY <1>1 DEF FlowOK
  <2>2. <<>> \o <<LogsReady>> = <<LogsReady>>
    OBVIOUS
  <2> QED
    BY <1>3, <2>1, <2>2
<1>5. /\ route' \in [Stream -> {"none", "opening", "streaming", "over"}]
      /\ ssh' \in [Stream -> [state : {"none", "connecting", "starting", "open", "ended"},
                              sent : 0..MaxChunks, read : 0..MaxChunks, exited : BOOLEAN]]
      /\ \A t \in Stream : t # s => route'[t] = route[t] /\ ssh'[t] = ssh[t]
      /\ route'[s] = "streaming" /\ ssh'[s].state = "open"
      /\ ssh'[s].read = ssh[s].read /\ ssh'[s].sent = ssh[s].sent
  BY <1>1, HandlerStates
<1>6. HandlerOK(s)'
  BY <1>1, <1>3, <1>5 DEF HandlerOK
<1>7. ssh[s].read = 0 /\ viewer.last[s] = 0
  BY <1>1 DEF HandlerOK
<1>8. LogsFlow(<<LogsReady>>, 0, 0, 1, 0)
  BY DEF LogsFlow
<1>9. FlowOK(s)'
  BY <1>1, <1>4, <1>5, <1>7, <1>8 DEF FlowOK
<1>10. <<LogsReady>> # <<LogsEof>>
  <2>1. <<LogsReady>>[1] # <<LogsEof>>[1]
    BY EventsDiffer
  <2> QED
    BY <2>1
<1> QED
  BY <1>1, <1>3, <1>4, <1>5, <1>6, <1>9, <1>10, HandlerStep

\* A command that is open has a handler that streams.
LEMMA OpenIs ==
    ASSUME LogsInv, NEW s \in Stream, ssh[s].state = "open"
    PROVE  /\ route[s] = "streaming" /\ HandlerOK(s) /\ FlowOK(s) /\ LogsVariablesOK
           /\ ssh[s] \in [state : {"none", "connecting", "starting", "open", "ended"},
                          sent : 0..MaxChunks, read : 0..MaxChunks, exited : BOOLEAN]
           /\ browser[s] = "here" =>
                  \E r \in {0, 1} : LogsFlow(written[s], viewer.last[s], ssh[s].read, r, 0)
  BY DEF LogsInv, HandlerOK, LogsVariablesOK, FlowOK

LEMMA CommandStep == ASSUME LogsInv, NEW s \in Stream, Logs!Writes(s) \/ Logs!Exits(s)
      PROVE LogsInv'
<1>1. UNCHANGED <<viewer, browser, route, written>> /\ ssh[s].state = "open"
  BY DEF Logs!Writes, Logs!Exits
<1>2. /\ route[s] = "streaming" /\ HandlerOK(s) /\ FlowOK(s) /\ LogsVariablesOK
      /\ ssh[s] \in [state : {"none", "connecting", "starting", "open", "ended"},
                     sent : 0..MaxChunks, read : 0..MaxChunks, exited : BOOLEAN]
  BY <1>1, OpenIs
<1>3. /\ ssh' \in [Stream -> [state : {"none", "connecting", "starting", "open", "ended"},
                             sent : 0..MaxChunks, read : 0..MaxChunks, exited : BOOLEAN]]
      /\ \A t \in Stream : t # s => ssh'[t] = ssh[t]
      /\ ssh'[s].state = "open" /\ ssh'[s].read = ssh[s].read /\ ssh'[s].sent >= ssh[s].sent
  <2>1. CASE Logs!Writes(s)
    <3>1. ssh[s].sent + 1 \in 0..MaxChunks /\ ssh[s].sent + 1 >= ssh[s].sent
      BY <1>2, <2>1, LogsAssumption DEF Logs!Writes
    <3> QED
      BY <1>1, <1>2, <2>1, <3>1 DEF Logs!Writes, LogsVariablesOK
  <2>2. CASE Logs!Exits(s)
    <3>1. ssh[s].sent >= ssh[s].sent
      BY <1>2, LogsAssumption
    <3> QED
      BY <1>1, <1>2, <2>2, <3>1 DEF Logs!Exits, LogsVariablesOK
  <2> QED
    BY <2>1, <2>2
<1>4. ssh'[s].sent \in Nat /\ ssh[s].sent \in Nat /\ ssh[s].read \in Nat
  BY <1>2, <1>3, LogsAssumption
<1>5. HandlerOK(s)'
  BY <1>1, <1>2, <1>3, <1>4 DEF HandlerOK
<1>6. FlowOK(s)'
  BY <1>1, <1>2, <1>3 DEF FlowOK
<1>7. browser[s] = "here" => written'[s] # <<LogsEof>>
  BY <1>1, <1>2, Streams
<1>8. /\ route' \in [Stream -> {"none", "opening", "streaming", "over"}]
      /\ written' \in [Stream -> Seq(LogEvent)]
  BY <1>1, <1>2 DEF LogsVariablesOK
<1> QED
  BY <1>1, <1>2, <1>3, <1>5, <1>6, <1>7, <1>8, HandlerStep

LEMMA ConcatIs ==
    ASSUME NEW p \in Seq(LogEvent), NEW q \in Seq(LogEvent)
    PROVE  /\ Len(p \o q) = Len(p) + Len(q)
           /\ \A i \in 1..Len(p) : (p \o q)[i] = p[i]
           /\ \A i \in 1..Len(q) : (p \o q)[Len(p) + i] = q[i]
<1>1. Len(p) \in Nat /\ Len(q) \in Nat
  OBVIOUS
<1>2. Len(p \o q) = Len(p) + Len(q)
  OBVIOUS
<1>3. \A i \in 1..Len(p) : (p \o q)[i] = p[i]
  BY <1>1
<1>4. ASSUME NEW i \in 1..Len(q) PROVE (p \o q)[Len(p) + i] = q[i]
  <2>1. Len(p) + i \in 1..(Len(p) + Len(q)) /\ ~(Len(p) + i <= Len(p)) /\ Len(p) + i - Len(p) = i
    BY <1>1
  <2> QED
    BY <1>1, <2>1
<1> QED
  BY <1>2, <1>3, <1>4

\* The lines that follow come behind those that are on the way.
LEMMA FlowAppend ==
    ASSUME NEW q \in Seq(LogEvent), NEW last \in Nat, NEW read \in Nat, NEW n \in Nat,
          last <= read,
           read <= n, NEW r \in {0, 1}, LogsFlow(q, last, read, r, 0), NEW new \in Seq(LogEvent),
           Len(new) = n - read, \A i \in 1..(n - read) : new[i] = Logs!Log(read + i)
    PROVE  LogsFlow(q \o new, last, n, r, 0)
<1> DEFINE k == read - last
<1>1. k \in Nat /\ n - read \in Nat /\ n - last = k + (n - read) /\ read = last + k
  OBVIOUS
<1>3. /\ Len(q) = r + k /\ (r = 1 => q[1] = LogsReady)
      /\ \A i \in 1..k : q[r + i] = Logs!Log(last + i)
  BY DEF LogsFlow
<1> HIDE DEF k
<1> DEFINE p == q \o new
<1>4. /\ Len(p) = Len(q) + Len(new)
      /\ \A i \in 1..Len(q) : p[i] = q[i]
      /\ \A i \in 1..Len(new) : p[Len(q) + i] = new[i]
  BY ConcatIs
<1> HIDE DEF p
<1>5. Len(p) = r + (n - last) + 0
  BY <1>1, <1>3, <1>4
<1>6. r = 1 => p[1] = LogsReady
  BY <1>1, <1>3, <1>4
<1>7. ASSUME NEW i \in 1..(n - last) PROVE p[r + i] = Logs!Log(last + i)
  <2>1. CASE i \in 1..k
    <3>1. r + i \in 1..Len(q)
      BY <1>1, <1>3, <2>1
    <3> QED
      BY <1>3, <1>4, <2>1, <3>1
  <2>2. CASE i \notin 1..k
    <3>1. i - k \in 1..(n - read) /\ r + i = Len(q) + (i - k) /\ read + (i - k) = last + i
      BY <1>1, <1>3, <2>2
    <3> QED
      BY <1>4, <3>1
  <2> QED
    BY <2>1, <2>2
<1> QED
  BY <1>5, <1>6, <1>7 DEF LogsFlow, p

LEMMA ForwardsStep == ASSUME LogsInv, NEW s \in Stream, Logs!Forwards(s) PROVE LogsInv'
<1>1. PICK n \in (ssh[s].read + 1)..ssh[s].sent :
         /\ ssh' = [ssh EXCEPT ![s].read = n]
         /\ Logs!Write(s, [i \in 1..(n - ssh[s].read) |-> Logs!Log(ssh[s].read + i)])
  BY DEF Logs!Forwards
<1>2. UNCHANGED <<viewer, browser, route>> /\ ssh[s].state = "open"
  BY DEF Logs!Forwards
<1>3. /\ route[s] = "streaming" /\ HandlerOK(s) /\ FlowOK(s) /\ LogsVariablesOK
      /\ ssh[s] \in [state : {"none", "connecting", "starting", "open", "ended"},
                     sent : 0..MaxChunks, read : 0..MaxChunks, exited : BOOLEAN]
      /\ browser[s] = "here" =>
             \E r \in {0, 1} : LogsFlow(written[s], viewer.last[s], ssh[s].read, r, 0)
  BY <1>2, OpenIs
<1>4. /\ n \in 0..MaxChunks /\ n \in Nat /\ ssh[s].read \in Nat /\ ssh[s].read <= n
           /\ n <= ssh[s].sent
      /\ n - ssh[s].read \in Nat
  BY <1>1, <1>3, LogsAssumption
<1> DEFINE new == [i \in 1..(n - ssh[s].read) |-> Logs!Log(ssh[s].read + i)]
<1>5. new \in Seq(LogEvent)
  <2>1. \A i \in 1..(n - ssh[s].read) : ssh[s].read + i \in 0..MaxChunks
    BY <1>4, LogsAssumption
  <2>2. \A i \in 1..(n - ssh[s].read) : Logs!Log(ssh[s].read + i) \in LogEvent
    BY <2>1, EventsDiffer
  <2> QED
    BY <1>4, <2>2
<1>6. /\ written' \in [Stream -> Seq(LogEvent)]
      /\ \A t \in Stream : t # s => written'[t] = written[t]
      /\ written'[s] = IF browser[s] = "here" THEN written[s] \o new ELSE written[s]
  <2>1. Logs!Write(s, new)
    BY <1>1
  <2> HIDE DEF new
  <2> QED
    BY <1>3, <1>5, <2>1, WriteIs
<1>7. /\ ssh' \in [Stream -> [state : {"none", "connecting", "starting", "open", "ended"},
                             sent : 0..MaxChunks, read : 0..MaxChunks, exited : BOOLEAN]]
      /\ \A t \in Stream : t # s => ssh'[t] = ssh[t]
      /\ ssh'[s].state = "open" /\ ssh'[s].read = n /\ ssh'[s].sent = ssh[s].sent
  BY <1>1, <1>2, <1>3, <1>4 DEF LogsVariablesOK
<1>8. HandlerOK(s)'
  BY <1>2, <1>3, <1>4, <1>6, <1>7 DEF HandlerOK
<1>9. ASSUME browser[s] = "here"
      PROVE  /\ viewer.last[s] <= n /\ written'[s] # <<LogsEof>>
             /\ \E r \in {0, 1} : LogsFlow(written'[s], viewer.last[s], n, r, 0)
  <2>1. PICK r \in {0, 1} : LogsFlow(written[s], viewer.last[s], ssh[s].read, r, 0)
    BY <1>3, <1>9
  <2>2. /\ viewer.last[s] \in Nat /\ viewer.last[s] \in 0..MaxChunks
             /\ written[s] \in Seq(LogEvent)
        /\ viewer.last[s] <= ssh[s].read
    BY <1>3, <1>9, StreamTypes DEF FlowOK
  <2>3. LogsFlow(written'[s], viewer.last[s], n, r, 0)
    <3>1. Len(new) = n - ssh[s].read
          /\ \A i \in 1..(n - ssh[s].read) : new[i] = Logs!Log(ssh[s].read + i)
      BY <1>4
    <3> HIDE DEF new
    <3> QED
      BY <1>4, <1>5, <1>6, <1>9, <2>1, <2>2, <3>1, FlowAppend
  <2>4. written'[s] \in Seq(LogEvent) /\ viewer.last[s] <= n
    <3>1. viewer.last[s] <= n
      BY <1>4, <2>2
    <3> QED
      BY <1>6, <3>1
  <2>5. written'[s] # <<LogsEof>>
    BY <1>4, <2>2, <2>3, <2>4, FlowIsNotOver
  <2> QED
    BY <2>3, <2>4, <2>5
<1>10. FlowOK(s)'
  BY <1>2, <1>3, <1>7, <1>9 DEF FlowOK
<1>11. route' \in [Stream -> {"none", "opening", "streaming", "over"}]
  BY <1>2, <1>3 DEF LogsVariablesOK
<1> QED
  BY <1>2, <1>3, <1>6, <1>7, <1>8, <1>9, <1>10, <1>11, HandlerStep

\* The end comes behind the lines that are on the way.
LEMMA FlowEnds ==
    ASSUME NEW q \in Seq(LogEvent), NEW last \in Nat, NEW read \in Nat, last <= read,
           NEW r \in {0, 1}, LogsFlow(q, last, read, r, 0), NEW e \in LogEvent
    PROVE  LET p == q \o <<e, LogsEof>> IN
           /\ LogsFlow(p, last, read, r, 2) /\ p[Len(p)] = LogsEof /\ p[Len(p) - 1] = e
                /\ p # <<LogsEof>>
<1> DEFINE p == q \o <<e, LogsEof>>
<1>1. Len(q) = r + (read - last) /\ Len(q) \in Nat
  BY DEF LogsFlow
<1>2. /\ Len(p) = Len(q) + 2 /\ p[Len(q) + 1] = e /\ p[Len(q) + 2] = LogsEof
      /\ \A i \in 1..Len(q) : p[i] = q[i]
  BY EventsDiffer DEF LogsEof
<1>3. Len(p) = r + (read - last) + 2 /\ Len(p) - 1 = Len(q) + 1
  BY <1>1, <1>2
<1> HIDE DEF p
<1>4. LogsFlow(p, last, read, r, 2)
  <2>1. r = 1 => p[1] = LogsReady
    BY <1>1, <1>2 DEF LogsFlow
  <2>2. ASSUME NEW i \in 1..(read - last) PROVE p[r + i] = Logs!Log(last + i)
    <3>1. r + i \in 1..Len(q)
      BY <1>1
    <3> QED
      BY <1>2, <3>1 DEF LogsFlow
  <2> QED
    BY <1>3, <2>1, <2>2 DEF LogsFlow
<1>5. p[Len(p)] = LogsEof /\ p[Len(p) - 1] = e
  BY <1>1, <1>2, <1>3
<1>6. p # <<LogsEof>>
  BY <1>1, <1>2
<1> QED
  BY <1>4, <1>5, <1>6 DEF p

LEMMA EndStep == ASSUME LogsInv, NEW s \in Stream, Logs!Completes(s) \/ Logs!Breaks(s)
      PROVE LogsInv'
<1>1. PICK e \in {Logs!Event("end"), Logs!Event("error")} :
         Logs!Write(s, <<e, LogsEof>>) /\ (e = Logs!Event("end") => ssh[s].read = ssh[s].sent)
  <2>1. Logs!Event("error") # Logs!Event("end")
    BY EventsDiffer
  <2>2. CASE Logs!Completes(s)
    BY <2>2 DEF Logs!Completes, LogsEof
  <2>3. CASE Logs!Breaks(s)
    BY <2>1, <2>3 DEF Logs!Breaks, LogsEof
  <2> QED
    BY <2>2, <2>3
<1>2. /\ UNCHANGED <<viewer, browser>> /\ ssh[s].state = "open"
      /\ route' = [route EXCEPT ![s] = "over"] /\ ssh' = [ssh EXCEPT ![s].state = "ended"]
  BY DEF Logs!Completes, Logs!Breaks
<1>3. /\ route[s] = "streaming" /\ HandlerOK(s) /\ FlowOK(s) /\ LogsVariablesOK
      /\ browser[s] = "here" =>
             \E r \in {0, 1} : LogsFlow(written[s], viewer.last[s], ssh[s].read, r, 0)
  BY <1>2, OpenIs
<1>4. e \in LogEvent /\ <<e, LogsEof>> \in Seq(LogEvent)
  BY EventsDiffer DEF LogsEof
<1>5. /\ written' \in [Stream -> Seq(LogEvent)]
      /\ \A t \in Stream : t # s => written'[t] = written[t]
      /\ written'[s] = IF browser[s] = "here" THEN written[s] \o <<e, LogsEof>> ELSE written[s]
  BY <1>1, <1>3, <1>4, WriteIs
<1>6. /\ route' \in [Stream -> {"none", "opening", "streaming", "over"}]
      /\ ssh' \in [Stream -> [state : {"none", "connecting", "starting", "open", "ended"},
                              sent : 0..MaxChunks, read : 0..MaxChunks, exited : BOOLEAN]]
      /\ \A t \in Stream : t # s => route'[t] = route[t] /\ ssh'[t] = ssh[t]
      /\ route'[s] = "over" /\ ssh'[s].state = "ended"
      /\ ssh'[s].read = ssh[s].read /\ ssh'[s].sent = ssh[s].sent
  BY <1>2, <1>3, HandlerStates
<1>7. HandlerOK(s)'
  BY <1>2, <1>3, <1>5, <1>6 DEF HandlerOK
<1>8. ASSUME browser[s] = "here"
      PROVE  /\ viewer.last[s] <= ssh[s].read /\ written'[s] # <<LogsEof>>
             /\ \E r \in {0, 1} : /\ LogsFlow(written'[s], viewer.last[s], ssh[s].read, r, 2)
                                  /\ LogsClosed(written'[s], ssh[s].read = ssh[s].sent)
  <2>1. PICK r \in {0, 1} : LogsFlow(written[s], viewer.last[s], ssh[s].read, r, 0)
    BY <1>3, <1>8
  <2>2. /\ viewer.last[s] \in Nat /\ ssh[s].read \in Nat /\ written[s] \in Seq(LogEvent)
        /\ viewer.last[s] <= ssh[s].read
    BY <1>3, <1>8, StreamTypes DEF FlowOK
  <2>3. written'[s] = written[s] \o <<e, LogsEof>>
    BY <1>5, <1>8
  <2>4. /\ LogsFlow(written'[s], viewer.last[s], ssh[s].read, r, 2)
        /\ written'[s][Len(written'[s])] = LogsEof /\ written'[s][Len(written'[s]) - 1] = e
        /\ written'[s] # <<LogsEof>>
    <3> DEFINE q == written[s] last == viewer.last[s] read == ssh[s].read
    <3>1. /\ q \in Seq(LogEvent) /\ last \in Nat /\ read \in Nat /\ last <= read
          /\ LogsFlow(q, last, read, r, 0)
      BY <2>1, <2>2
    <3> HIDE DEF q, last, read
    <3>2. LET p == q \o <<e, LogsEof>> IN
          LogsFlow(p, last, read, r, 2) /\ p[Len(p)] = LogsEof /\ p[Len(p) - 1] = e
                /\ p # <<LogsEof>>
      BY <1>4, <3>1, FlowEnds
    <3> QED
      BY <2>3, <3>2 DEF q, last, read
  <2>5. LogsClosed(written'[s], ssh[s].read = ssh[s].sent)
    BY <1>1, <2>4 DEF LogsClosed
  <2> QED
    BY <2>2, <2>4, <2>5
<1>9. FlowOK(s)'
  BY <1>2, <1>3, <1>6, <1>8 DEF FlowOK
<1> QED
  BY <1>2, <1>3, <1>5, <1>6, <1>7, <1>8, <1>9, HandlerStep

\* A browser that is gone takes what is on its way with it, and the handler that hears it.
LEMMA GoneIs ==
    ASSUME LogsInv, NEW s \in Stream, Logs!BrowserGone(s), viewer'.last = viewer.last,
          browser[s] = "here"
    PROVE  /\ browser' = [browser EXCEPT ![s] = "gone"] /\ browser'[s] = "gone"
           /\ browser' \in [Stream -> {"none", "here", "gone"}]
           /\ route' \in [Stream -> {"none", "opening", "streaming", "over"}]
           /\ ssh' \in [Stream -> [state : {"none", "connecting", "starting", "open", "ended"},
                                   sent : 0..MaxChunks, read : 0..MaxChunks, exited : BOOLEAN]]
           /\ written' \in [Stream -> Seq(LogEvent)]
           /\ \A t \in Stream : t # s => browser'[t] = browser[t] /\ written'[t] = written[t]
           /\ \A t \in Stream : HandlerOK(t)' /\ FlowOK(t)'
<1>1. LogsVariablesOK /\ HandlerOK(s) /\ FlowOK(s)
  BY DEF LogsInv
<1>2. /\ browser' = [browser EXCEPT ![s] = "gone"] /\ written' = [written EXCEPT ![s] = <<>>]
      /\ IF route[s] = "streaming"
         THEN route' = [route EXCEPT ![s] = "over"] /\ ssh' = [ssh EXCEPT ![s].state = "ended"]
         ELSE UNCHANGED <<route, ssh>>
  BY DEF Logs!BrowserGone
<1>3. /\ browser'[s] = "gone" /\ browser' \in [Stream -> {"none", "here", "gone"}]
      /\ \A t \in Stream : t # s => browser'[t] = browser[t]
  BY <1>1, <1>2 DEF LogsVariablesOK
<1>4. /\ written'[s] = <<>> /\ written' \in [Stream -> Seq(LogEvent)]
      /\ \A t \in Stream : t # s => written'[t] = written[t]
  <2>1. <<>> \in Seq(LogEvent)
    OBVIOUS
  <2> QED
    BY <1>1, <1>2, <2>1 DEF LogsVariablesOK
<1>5. /\ route' \in [Stream -> {"none", "opening", "streaming", "over"}]
      /\ ssh' \in [Stream -> [state : {"none", "connecting", "starting", "open", "ended"},
                              sent : 0..MaxChunks, read : 0..MaxChunks, exited : BOOLEAN]]
      /\ \A t \in Stream : t # s => route'[t] = route[t] /\ ssh'[t] = ssh[t]
      /\ ssh'[s].read = ssh[s].read /\ ssh'[s].sent = ssh[s].sent
      /\ \/ route'[s] = "over" /\ ssh'[s].state = "ended"
         \/ route[s] # "streaming" /\ route'[s] = route[s] /\ ssh'[s].state = ssh[s].state
  <2>1. CASE route[s] = "streaming"
    BY <1>1, <1>2, <2>1, HandlerStates
  <2>2. CASE route[s] # "streaming"
    BY <1>1, <1>2, <2>2 DEF LogsVariablesOK
  <2> QED
    BY <2>1, <2>2
<1>6. HandlerOK(s)' /\ FlowOK(s)'
  <2>1. route[s] # "none"
    BY <1>1 DEF HandlerOK
  <2>2. HandlerOK(s)'
    BY <1>1, <1>3, <1>4, <1>5, <2>1 DEF HandlerOK
  <2>3. FlowOK(s)'
    BY <1>3 DEF FlowOK
  <2> QED
    BY <2>2, <2>3
<1>7. \A t \in Stream : t # s => HandlerOK(t)' /\ FlowOK(t)'
  BY <1>3, <1>4, <1>5, OthersStay
<1> QED
  BY <1>2, <1>3, <1>4, <1>5, <1>6, <1>7

\* What the panel forgets when it lets go of a stream.
LEMMA PanelTypes ==
    ASSUME LogsVariablesOK
    PROVE  viewer = [state |-> viewer.state, entries |-> viewer.entries,
                    controller |-> viewer.controller, last |-> viewer.last]
  BY DEF LogsVariablesOK

\* A step that ends a stream.
LEMMA GoneStep ==
    ASSUME LogsInv, NEW s \in Stream, browser[s] = "here", Logs!BrowserGone(s),
           NEW state \in {"idle", "connecting", "connected", "ended", "error", "left"},
           NEW controller \in {viewer.controller, None},
           viewer' = [viewer EXCEPT !.state = state, !.controller = controller],
           \/ controller = None /\ s = viewer.controller
                /\ state \in {"idle", "error", "left", viewer.state}
              /\ (state = viewer.state => ~Logs!Connected)
           \/ controller = viewer.controller /\ s # viewer.controller /\ state = viewer.state
    PROVE  LogsInv'
<1>1. /\ viewer' = [state |-> state, entries |-> viewer.entries, controller |-> controller,
                   last |-> viewer.last]
      /\ LogsVariablesOK /\ viewer.controller \in Stream \cup {None}
  BY PanelTypes DEF LogsInv, LogsVariablesOK
<1>2. /\ viewer'.state = state /\ viewer'.controller = controller
      /\ viewer'.entries = viewer.entries /\ viewer'.last = viewer.last
  BY <1>1
<1>3. /\ browser'[s] = "gone"
      /\ browser' \in [Stream -> {"none", "here", "gone"}]
      /\ route' \in [Stream -> {"none", "opening", "streaming", "over"}]
      /\ ssh' \in [Stream -> [state : {"none", "connecting", "starting", "open", "ended"},
                              sent : 0..MaxChunks, read : 0..MaxChunks, exited : BOOLEAN]]
      /\ written' \in [Stream -> Seq(LogEvent)]
      /\ \A t \in Stream : t # s => browser'[t] = browser[t] /\ written'[t] = written[t]
      /\ \A t \in Stream : HandlerOK(t)' /\ FlowOK(t)'
  BY <1>2, GoneIs
<1>4. LogsVariablesOK'
  <2>1. viewer' \in [state : {"idle", "connecting", "connected", "ended", "error", "left"},
                    entries : Seq(Stream \X (1..MaxChunks)), controller : Stream \cup {None},
                    last : [Stream -> 0..MaxChunks]]
    BY <1>1 DEF LogsVariablesOK
  <2> QED
    BY <1>1, <1>2, <1>3, <2>1 DEF LogsVariablesOK
<1>5. ControllerOK'
  <2>1. ControllerOK /\ s # None
    BY LogsAssumption DEF LogsInv
  <2>2. CASE controller = None /\ s = viewer.controller
    <3>1. ~(state \in {"connecting", "connected"})
      BY <2>1, <2>2 DEF Logs!Connected
    <3>2. viewer'.controller = None /\ ~Logs!Connected'
      BY <1>2, <2>2, <3>1 DEF Logs!Connected
    <3>3. \A t \in Stream : browser'[t] = "here" => written'[t] = <<LogsEof>>
      <4> SUFFICES ASSUME NEW t \in Stream, browser'[t] = "here" PROVE written'[t] = <<LogsEof>>
        OBVIOUS
      <4>1. t # s
        BY <1>3
      <4> QED
        BY <1>3, <2>1, <2>2, <4>1 DEF ControllerOK
    <3> QED
      BY <3>2, <3>3 DEF ControllerOK
  <2>3. CASE controller = viewer.controller /\ s # viewer.controller /\ state = viewer.state
    <3>1. viewer'.controller = viewer.controller /\ viewer'.state = viewer.state
      BY <1>2, <2>3
    <3>2. Logs!Connected' = Logs!Connected
      BY <3>1 DEF Logs!Connected
    <3>3. viewer.controller # None =>
              /\ viewer.controller \in Stream
              /\ browser'[viewer.controller] = browser[viewer.controller]
              /\ written'[viewer.controller] = written[viewer.controller]
      BY <1>1, <1>3, <2>3
    <3>4. \A t \in Stream : browser'[t] = "here" => browser[t] = "here"
          /\ written'[t] = written[t]
      <4> SUFFICES ASSUME NEW t \in Stream, browser'[t] = "here"
                   PROVE  browser[t] = "here" /\ written'[t] = written[t]
        OBVIOUS
      <4>1. t # s
        BY <1>3
      <4> QED
        BY <1>3, <4>1
    <3> QED
      BY <2>1, <3>1, <3>2, <3>3, <3>4 DEF ControllerOK
  <2> QED
    BY <2>2, <2>3
<1>6. Logs!EntriesAreNewest'
  <2>1. Newest(viewer.entries, viewer.last)
    BY EntriesAre DEF LogsInv
  <2> QED
    BY <1>2, <2>1, EntriesAreThen
<1> QED
  BY <1>3, <1>4, <1>5, <1>6 DEF LogsInv

\* The end of the response is all that is on the way when it is the first.
LEMMA HeadIsEof ==
    ASSUME LogsInv, NEW s \in Stream, browser[s] = "here", written[s] # <<>>,
           Head(written[s]).type = "eof"
    PROVE  written[s] = <<LogsEof>>
<1> DEFINE q == written[s] last == viewer.last[s] read == ssh[s].read
<1>1. /\ q \in Seq(LogEvent) /\ last \in 0..MaxChunks /\ read \in 0..MaxChunks /\ last <= read
      /\ last \in Nat /\ read \in Nat /\ q # <<>> /\ q[1].type = "eof"
  BY StreamTypes DEF LogsInv, FlowOK
<1>2. SUFFICES ASSUME q # <<LogsEof>> PROVE FALSE
  OBVIOUS
<1>3. q # <<Logs!Event("refused")>>
  <2>1. <<Logs!Event("refused")>>[1].type # "eof"
    BY EventsDiffer
  <2> QED
    BY <1>1, <2>1
<1>4. PICK r \in {0, 1}, m \in {0, 2} :
         LogsFlow(q, last, read, r, m) /\ (m = 2 => LogsClosed(q, ssh[s].read = ssh[s].sent))
  <2>1. route[s] \in {"streaming", "over"}
    BY <1>1 DEF LogsInv, LogsVariablesOK, HandlerOK, FlowOK
  <2> QED
    BY <1>2, <1>3, <2>1 DEF LogsInv, FlowOK
<1> HIDE DEF q, last, read
<1>5. r = 0
  BY <1>1, <1>4, EventsDiffer DEF LogsFlow
<1>6. last = read
  <2> SUFFICES ASSUME last # read PROVE FALSE
    OBVIOUS
  <2>1. 1 \in 1..(read - last) /\ last + 1 \in 0..MaxChunks
    BY <1>1, LogsAssumption
  <2>2. q[1] = Logs!Log(last + 1)
    BY <1>1, <1>4, <1>5, <2>1 DEF LogsFlow
  <2> QED
    BY <1>1, <2>1, <2>2, EventsDiffer
<1>7. Len(q) = 2
  BY <1>1, <1>4, <1>5, <1>6 DEF LogsFlow
<1>8. q[1] \in {Logs!Event("end"), Logs!Event("error")}
  <2>1. m = 2
    BY <1>1, <1>4, <1>5, <1>6, <1>7 DEF LogsFlow
  <2> QED
    BY <1>4, <1>7, <2>1 DEF LogsClosed
<1> QED
  BY <1>1, <1>8, EventsDiffer

LEMMA DisconnectStep == ASSUME LogsInv, Logs!Disconnect PROVE LogsInv'
<1>1. /\ viewer.controller # None /\ Logs!BrowserGone(viewer.controller)
      /\ viewer' = [viewer EXCEPT !.state = "idle", !.controller = None]
  BY DEF Logs!Disconnect
<1>2. viewer.controller \in Stream /\ browser[viewer.controller] = "here"
  BY <1>1 DEF LogsInv, LogsVariablesOK, ControllerOK
<1>3. viewer.state # "idle"
  BY <1>1 DEF LogsInv, ControllerOK
<1> QED
  BY <1>1, <1>2, <1>3, GoneStep

\* The panel leaves when it is connected to nothing.
LEMMA PanelStep ==
    ASSUME LogsInv, UNCHANGED <<browser, route, ssh, written>>, viewer'.last = viewer.last,
           viewer'.controller = viewer.controller, LogsVariablesOK',
           \/ viewer'.state = viewer.state
           \/ viewer'.state = "left" /\ viewer.controller = None,
           Newest(viewer'.entries, viewer'.last)
    PROVE  LogsInv'
<1>1. ControllerOK'
  BY DEF LogsInv, ControllerOK, Logs!Connected
<1>2. Logs!EntriesAreNewest'
  BY EntriesAreThen
<1>3. \A t \in Stream : HandlerOK(t)' /\ FlowOK(t)'
  BY OthersStay
<1> QED
  BY <1>1, <1>2, <1>3 DEF LogsInv

LEMMA LeaveStep == ASSUME LogsInv, Logs!Leave PROVE LogsInv'
<1>1. /\ viewer.state # "left"
      /\ viewer' = [viewer EXCEPT !.state = "left", !.controller = None]
      /\ IF viewer.controller = None THEN UNCHANGED <<browser, route, ssh, written>>
         ELSE Logs!BrowserGone(viewer.controller)
  BY DEF Logs!Leave
<1>2. CASE viewer.controller # None
  <2>1. viewer.controller \in Stream /\ browser[viewer.controller] = "here"
    BY <1>2 DEF LogsInv, LogsVariablesOK, ControllerOK
  <2> QED
    BY <1>1, <1>2, <2>1, GoneStep
<1>3. CASE viewer.controller = None
  <2>1. LogsVariablesOK
    BY DEF LogsInv
  <2>2. viewer' = [state |-> "left", entries |-> viewer.entries, controller |-> None,
                  last |-> viewer.last]
    BY <1>1, <2>1, PanelTypes
  <2>3. /\ viewer'.last = viewer.last /\ viewer'.controller = viewer.controller
        /\ viewer'.state = "left" /\ viewer'.entries = viewer.entries
    BY <1>3, <2>2
  <2>4. LogsVariablesOK'
    BY <1>1, <1>3, <2>1, <2>2, <2>3 DEF LogsVariablesOK
  <2>5. Newest(viewer'.entries, viewer'.last)
    BY <2>3, EntriesAre DEF LogsInv
  <2> QED
    BY <1>1, <1>3, <2>3, <2>4, <2>5, PanelStep
<1> QED
  BY <1>2, <1>3

LEMMA ClearStep == ASSUME LogsInv, Logs!Clear PROVE LogsInv'
<1>1. viewer' = [viewer EXCEPT !.entries = <<>>] /\ UNCHANGED <<browser, route, ssh, written>>
  BY DEF Logs!Clear
<1>2. LogsVariablesOK
  BY DEF LogsInv
<1>3. viewer' = [state |-> viewer.state, entries |-> <<>>, controller |-> viewer.controller,
                last |-> viewer.last]
  BY <1>1, <1>2, PanelTypes
<1>4. /\ viewer'.last = viewer.last /\ viewer'.controller = viewer.controller
      /\ viewer'.state = viewer.state /\ viewer'.entries = <<>>
  BY <1>3
<1>5. LogsVariablesOK'
  <2>1. <<>> \in Seq(Stream \X (1..MaxChunks)) /\ Len(<<>>) = 0
    OBVIOUS
  <2>2. Len(viewer'.entries) <= MaxEntries
    BY <1>4, <2>1, LogsAssumption
  <2>3. viewer' \in [state : {"idle", "connecting", "connected", "ended", "error", "left"},
                    entries : Seq(Stream \X (1..MaxChunks)), controller : Stream \cup {None},
                    last : [Stream -> 0..MaxChunks]]
    BY <1>2, <1>3, <2>1 DEF LogsVariablesOK
  <2> QED
    BY <1>1, <1>2, <2>2, <2>3 DEF LogsVariablesOK
<1>6. Newest(viewer'.entries, viewer'.last)
  BY <1>4 DEF Newest
<1> QED
  BY <1>1, <1>4, <1>5, <1>6, PanelStep

LEMMA EndsStep == ASSUME LogsInv, NEW s \in Stream, Logs!Ends(s) PROVE LogsInv'
<1>1. /\ browser[s] = "here" /\ written[s] # <<>> /\ Head(written[s]).type \in {"eof", "refused"}
      /\ viewer' = [viewer EXCEPT !.state = IF Head(written[s]).type = "refused" THEN "error"
           ELSE @,
                                !.controller = Logs!Released(s)]
      /\ Logs!BrowserGone(s)
  BY DEF Logs!Ends
<1>2. /\ viewer.state \in {"idle", "connecting", "connected", "ended", "error", "left"}
      /\ Logs!Released(s) \in {viewer.controller, None}
  BY DEF LogsInv, LogsVariablesOK, Logs!Released
<1>3. CASE Head(written[s]).type = "refused"
  <2>1. written[s] # <<LogsEof>>
    <3>1. Head(<<LogsEof>>).type = "eof"
      BY EventsDiffer
    <3> QED
      BY <1>3, <3>1
  <2>2. s = viewer.controller
    BY <1>1, <2>1, Speaks
  <2>3. viewer' = [viewer EXCEPT !.state = "error", !.controller = None]
    BY <1>1, <1>3, <2>2 DEF Logs!Released
  <2>4. "error" = viewer.state => ~Logs!Connected
    BY DEF Logs!Connected
  <2> QED
    BY <1>1, <2>2, <2>3, <2>4, GoneStep
<1>4. CASE Head(written[s]).type = "eof"
  <2>1. written[s] = <<LogsEof>>
    BY <1>1, <1>4, HeadIsEof
  <2>2. viewer' = [viewer EXCEPT !.state = viewer.state, !.controller = Logs!Released(s)]
    BY <1>1, <1>4
  <2>3. CASE s = viewer.controller
    <3>1. ~Logs!Connected /\ Logs!Released(s) = None
      BY <2>1, <2>3 DEF LogsInv, ControllerOK, Logs!Released
    <3> QED
      BY <1>1, <1>2, <2>2, <2>3, <3>1, GoneStep
  <2>4. CASE s # viewer.controller
    <3>1. Logs!Released(s) = viewer.controller
      BY <2>4 DEF Logs!Released
    <3> QED
      BY <1>1, <1>2, <2>2, <2>4, <3>1, GoneStep
  <2> QED
    BY <2>3, <2>4
<1> QED
  BY <1>1, <1>3, <1>4

LEMMA LostStep == ASSUME LogsInv, NEW s \in Stream, Logs!Lost(s) PROVE LogsInv'
<1>1. /\ browser[s] = "here" /\ (written[s] # <<>> => Head(written[s]).type # "eof")
      /\ viewer' = [viewer EXCEPT !.state = "error", !.controller = Logs!Released(s)]
      /\ Logs!BrowserGone(s)
  BY DEF Logs!Lost
<1>2. written[s] # <<LogsEof>>
  <2>1. Head(<<LogsEof>>).type = "eof" /\ <<LogsEof>> # <<>>
    BY EventsDiffer
  <2> QED
    BY <1>1, <2>1
<1>3. s = viewer.controller /\ Logs!Connected
  BY <1>1, <1>2, Speaks
<1>4. viewer' = [viewer EXCEPT !.state = "error", !.controller = None] /\ "error" # viewer.state
  BY <1>1, <1>3 DEF Logs!Released, Logs!Connected
<1> QED
  BY <1>1, <1>3, <1>4, GoneStep

LEMMA LogsConnectStep == ASSUME LogsInv, NEW s \in Stream, Logs!Connect(s) PROVE LogsInv'
<1>1. /\ ~Logs!Connected /\ viewer.state # "left" /\ browser[s] = "none" /\ written' = written
      /\ browser' = [browser EXCEPT ![s] = "here"]
      /\ route' = [route EXCEPT ![s] = "opening"]
      /\ ssh' = [ssh EXCEPT ![s].state = "connecting"]
      /\ viewer' = [viewer EXCEPT !.state = "connecting", !.controller = s]
      /\ LogsVariablesOK /\ HandlerOK(s) /\ ControllerOK
  BY DEF Logs!Connect, LogsInv
<1>2. viewer' = [state |-> "connecting", entries |-> viewer.entries, controller |-> s,
                last |-> viewer.last]
  BY <1>1, PanelTypes
<1>3. /\ viewer'.state = "connecting" /\ viewer'.entries = viewer.entries
           /\ viewer'.controller = s
      /\ viewer'.last = viewer.last
  BY <1>2
<1>4. /\ route[s] = "none" /\ written[s] = <<>> /\ ssh[s].sent = 0 /\ ssh[s].read = 0
      /\ viewer.last[s] = 0
  BY <1>1 DEF HandlerOK
<1>5. ssh[s] \in [state : {"none", "connecting", "starting", "open", "ended"},
                 sent : 0..MaxChunks, read : 0..MaxChunks, exited : BOOLEAN]
  BY <1>1 DEF LogsVariablesOK
<1>6. /\ browser' \in [Stream -> {"none", "here", "gone"}]
      /\ route' \in [Stream -> {"none", "opening", "streaming", "over"}]
      /\ ssh' \in [Stream -> [state : {"none", "connecting", "starting", "open", "ended"},
                              sent : 0..MaxChunks, read : 0..MaxChunks, exited : BOOLEAN]]
      /\ browser'[s] = "here" /\ route'[s] = "opening" /\ ssh'[s].state = "connecting"
      /\ ssh'[s].sent = 0 /\ ssh'[s].read = 0
      /\ \A t \in Stream : t # s => /\ browser'[t] = browser[t] /\ route'[t] = route[t]
                                    /\ ssh'[t] = ssh[t]
  BY <1>1, <1>4, <1>5 DEF LogsVariablesOK
<1>7. LogsVariablesOK'
  <2>1. viewer' \in [state : {"idle", "connecting", "connected", "ended", "error", "left"},
                    entries : Seq(Stream \X (1..MaxChunks)), controller : Stream \cup {None},
                    last : [Stream -> 0..MaxChunks]]
    BY <1>1, <1>2 DEF LogsVariablesOK
  <2> QED
    BY <1>1, <1>3, <1>6, <2>1 DEF LogsVariablesOK
<1>8. ControllerOK'
  <2>1. <<>> # <<LogsEof>> /\ s # None
    BY LogsAssumption
  <2>2. viewer.controller # None => written[viewer.controller] = <<LogsEof>>
    <3>1. viewer.state \in {"idle", "ended", "error"}
      BY <1>1 DEF LogsVariablesOK, Logs!Connected
    <3> QED
      BY <1>1, <3>1 DEF ControllerOK
  <2>3. ASSUME NEW t \in Stream, browser'[t] = "here", t # s PROVE written'[t] = <<LogsEof>>
    <3>1. browser[t] = "here"
      BY <1>6, <2>3
    <3>2. CASE t = viewer.controller
      BY <1>1, <2>1, <2>2, <3>2, LogsAssumption
    <3>3. CASE t # viewer.controller
      BY <1>1, <3>1, <3>3 DEF ControllerOK
    <3> QED
      BY <3>2, <3>3
  <2>4. written'[s] # <<LogsEof>>
    BY <1>1, <1>4, <2>1
  <2> QED
    BY <1>3, <1>6, <2>1, <2>3, <2>4 DEF ControllerOK, Logs!Connected
<1>9. Logs!EntriesAreNewest'
  BY <1>3, EntriesAre, EntriesAreThen DEF LogsInv
<1>10. \A t \in Stream : t # s => HandlerOK(t)' /\ FlowOK(t)'
  BY <1>1, <1>3, <1>6, OthersStay
<1>11. HandlerOK(s)'
  BY <1>1, <1>3, <1>4, <1>6 DEF HandlerOK
<1>12. FlowOK(s)'
  <2>1. viewer'.last[s] <= ssh'[s].read
    BY <1>3, <1>4, <1>6
  <2> QED
    BY <1>1, <1>4, <1>6, <2>1 DEF FlowOK
<1> QED
  BY <1>7, <1>8, <1>9, <1>10, <1>11, <1>12 DEF LogsInv

\* What is left on the way when the first event has been received.
LEMMA FlowTail ==
    ASSUME NEW q \in Seq(LogEvent), NEW last \in 0..MaxChunks, NEW read \in 0..MaxChunks,
           last <= read, q # <<>>, NEW r \in {0, 1}, NEW m \in {0, 2},
                 LogsFlow(q, last, read, r, m)
    PROVE  /\ r = 1 => q[1] = LogsReady /\ LogsFlow(Tail(q), last, read, 0, m)
           /\ r = 0 /\ last < read => q[1] = Logs!Log(last + 1)
                /\ LogsFlow(Tail(q), last + 1, read, 0, m)
           /\ r = 0 /\ last = read => m = 2 /\ Len(q) = 2
<1>1. /\ Len(q) = r + (read - last) + m /\ (r = 1 => q[1] = LogsReady)
      /\ \A i \in 1..(read - last) : q[r + i] = Logs!Log(last + i)
  BY DEF LogsFlow
<1>2. /\ last \in Nat /\ read \in Nat /\ read - last \in Nat /\ Len(q) \in Nat \ {0}
  BY LogsAssumption
<1> DEFINE p == Tail(q)
<1>3. Len(p) = Len(q) - 1 /\ \A i \in 1..(Len(q) - 1) : p[i] = q[i + 1]
  BY <1>2
<1> HIDE DEF p
<1>4. ASSUME r = 1 PROVE q[1] = LogsReady /\ LogsFlow(p, last, read, 0, m)
  <2>1. ASSUME NEW i \in 1..(read - last) PROVE p[0 + i] = Logs!Log(last + i)
    <3>1. i \in 1..(Len(q) - 1) /\ i + 1 = r + i /\ 0 + i = i
      BY <1>1, <1>2, <1>4
    <3>2. p[i] = q[r + i]
      BY <1>3, <3>1
    <3> QED
      BY <1>1, <3>1, <3>2
  <2>2. Len(p) = 0 + (read - last) + m
    BY <1>1, <1>2, <1>3, <1>4
  <2> QED
    BY <1>1, <1>4, <2>1, <2>2 DEF LogsFlow
<1>5. ASSUME r = 0, last < read PROVE q[1] = Logs!Log(last + 1)
      /\ LogsFlow(p, last + 1, read, 0, m)
  <2>1. ASSUME NEW i \in 1..(read - (last + 1)) PROVE p[0 + i] = Logs!Log(last + 1 + i)
    <3>1. /\ i \in 1..(Len(q) - 1) /\ i + 1 \in 1..(read - last) /\ 0 + i = i
          /\ last + (i + 1) = last + 1 + i /\ r + (i + 1) = i + 1
      BY <1>1, <1>2, <1>5
    <3>2. p[i] = q[i + 1]
      BY <1>3, <3>1
    <3>3. q[r + (i + 1)] = Logs!Log(last + (i + 1))
      BY <1>1, <3>1
    <3> QED
      BY <3>1, <3>2, <3>3
  <2>2. Len(p) = 0 + (read - (last + 1)) + m
    BY <1>1, <1>2, <1>3, <1>5
  <2>3. 1 \in 1..(read - last) /\ r + 1 = 1
    BY <1>2, <1>5
  <2>4. q[1] = Logs!Log(last + 1)
    BY <1>1, <2>3
  <2> QED
    BY <2>1, <2>2, <2>4 DEF LogsFlow
<1>6. r = 0 /\ last = read => m = 2 /\ Len(q) = 2
  BY <1>1, <1>2
<1> QED
  BY <1>4, <1>5, <1>6 DEF p

LEMMA ClosedTail ==
    ASSUME NEW q \in Seq(LogEvent), NEW whole, Len(q) > 2, LogsClosed(q, whole)
    PROVE  LogsClosed(Tail(q), whole)
<1>1. Len(Tail(q)) = Len(q) - 1 /\ Tail(q)[Len(q) - 1] = q[Len(q)]
      /\ Tail(q)[Len(q) - 1 - 1] = q[Len(q) - 1]
  <2>1. Len(q) - 1 \in 1..Len(Tail(q)) /\ Len(q) - 1 - 1 \in 1..Len(Tail(q))
        /\ Len(Tail(q)) = Len(q) - 1
    OBVIOUS
  <2> QED
    BY <2>1
<1> QED
  BY <1>1 DEF LogsClosed

LEMMA TailOfTwo ==
    ASSUME NEW q \in Seq(LogEvent), Len(q) = 2 PROVE Tail(q) = <<q[2]>>
<1>1. q = <<q[1], q[2]>>
  OBVIOUS
<1>2. Tail(<<q[1], q[2]>>) = <<q[2]>>
  OBVIOUS
<1> QED
  BY <1>1, <1>2

\* What the panel is told of its stream.
LEMMA ReceiveIs ==
    ASSUME LogsInv, NEW s \in Stream, Logs!Receive(s)
    PROVE  LET e == Head(written[s]) IN
           /\ s = viewer.controller /\ Logs!Connected /\ browser[s] = "here"
                /\ route[s] \in {"streaming", "over"}
           /\ viewer' = Logs!Shown(s, e)
           /\ UNCHANGED <<browser, route, ssh>> /\ written' = [written EXCEPT ![s] = Tail(@)]
           /\ \/ /\ e.type \in {"end", "error"} /\ Tail(written[s]) = <<LogsEof>>
                      /\ route[s] = "over"
              \/ /\ \/ e.type = "ready" /\ viewer'.last = viewer.last
                    \/ /\ e.type = "log" /\ e.n = viewer.last[s] + 1 /\ e.n <= ssh[s].read
                       /\ viewer'.last = [viewer.last EXCEPT ![s] = e.n]
                 /\ \/ route[s] = "streaming"
                         /\ LogsFlow(Tail(written[s]), viewer'.last[s], ssh[s].read, 0, 0)
                    \/ /\ route[s] = "over" /\ LogsFlow(Tail(written[s]), viewer'.last[s],
                            ssh[s].read, 0, 2)
                       /\ LogsClosed(Tail(written[s]), ssh[s].read = ssh[s].sent)
<1> DEFINE q == written[s] e == Head(written[s])
<1>1. /\ browser[s] = "here" /\ q # <<>> /\ e.type \notin {"eof", "refused"} /\ e = q[1]
      /\ viewer' = Logs!Shown(s, e) /\ written' = [written EXCEPT ![s] = Tail(@)]
      /\ UNCHANGED <<browser, route, ssh>>
      /\ LogsVariablesOK /\ HandlerOK(s) /\ FlowOK(s)
  BY DEF Logs!Receive, LogsInv
<1>2. /\ q \in Seq(LogEvent) /\ viewer.last[s] \in 0..MaxChunks /\ ssh[s].read \in 0..MaxChunks
      /\ viewer.last[s] <= ssh[s].read /\ 0..MaxChunks \subseteq Nat
  BY <1>1, StreamTypes DEF FlowOK
<1>3. q # <<LogsEof>> /\ q # <<Logs!Event("refused")>>
  <2>1. <<LogsEof>>[1].type = "eof" /\ <<Logs!Event("refused")>>[1].type = "refused"
    BY EventsDiffer
  <2> QED
    BY <1>1, <2>1
<1>4. s = viewer.controller /\ Logs!Connected
  BY <1>1, <1>3, Speaks
<1>5. route[s] \in {"streaming", "over"}
  BY <1>1 DEF LogsVariablesOK, HandlerOK, FlowOK
<1>6. PICK r \in {0, 1}, m \in {0, 2} :
         /\ LogsFlow(q, viewer.last[s], ssh[s].read, r, m)
         /\ \/ route[s] = "streaming" /\ m = 0
            \/ route[s] = "over" /\ m = 2 /\ LogsClosed(q, ssh[s].read = ssh[s].sent)
  BY <1>1, <1>3, <1>5 DEF FlowOK
<1>7. /\ r = 1 => q[1] = LogsReady /\ LogsFlow(Tail(q), viewer.last[s], ssh[s].read, 0, m)
      /\ r = 0 /\ viewer.last[s] < ssh[s].read =>
             q[1] = Logs!Log(viewer.last[s] + 1)
                   /\ LogsFlow(Tail(q), viewer.last[s] + 1, ssh[s].read, 0, m)
      /\ r = 0 /\ viewer.last[s] = ssh[s].read => m = 2 /\ Len(q) = 2
  BY <1>1, <1>2, <1>6, FlowTail
<1>8. r = 1 \/ (r = 0 /\ viewer.last[s] < ssh[s].read) \/ (r = 0 /\ viewer.last[s] = ssh[s].read)
  BY <1>2
<1> HIDE DEF q, e
<1>9. m = 2 /\ Len(q) > 2 => LogsClosed(Tail(q), ssh[s].read = ssh[s].sent)
  <2> DEFINE whole == ssh[s].read = ssh[s].sent
  <2> HIDE DEF whole
  <2>1. LogsClosed(q, whole) /\ Len(q) > 2 => LogsClosed(Tail(q), whole)
    BY <1>2, ClosedTail
  <2> QED
    BY <1>6, <2>1 DEF whole
<1>10. CASE r = 1
  <2>1. e = LogsReady /\ e.type = "ready"
    BY <1>1, <1>7, <1>10, EventsDiffer
  <2>2. viewer'.last = viewer.last
    BY <1>1, <2>1 DEF Logs!Shown, LogsVariablesOK
  <2>3. m = 2 => Len(q) > 2
    BY <1>2, <1>6, <1>10 DEF LogsFlow
  <2> QED
    BY <1>1, <1>4, <1>5, <1>6, <1>7, <1>9, <1>10, <2>1, <2>2, <2>3 DEF q, e
<1>11. CASE r = 0 /\ viewer.last[s] < ssh[s].read
  <2>1. viewer.last[s] + 1 \in 0..MaxChunks /\ viewer.last[s] + 1 <= ssh[s].read
    BY <1>2, <1>11, LogsAssumption
  <2>2. e = Logs!Log(viewer.last[s] + 1) /\ e.type = "log" /\ e.n = viewer.last[s] + 1
    BY <1>1, <1>7, <1>11, <2>1, EventsDiffer
  <2>3. viewer'.last = [viewer.last EXCEPT ![s] = e.n] /\ viewer'.last[s] = viewer.last[s] + 1
    <3>1. viewer' = [viewer EXCEPT !.entries = Logs!AppendBounded(@, <<s, e.n>>), !.last[s] = e.n]
      BY <1>1, <2>2 DEF Logs!Shown
    <3> QED
      BY <1>1, <2>2, <3>1 DEF LogsVariablesOK
  <2>4. m = 2 => Len(q) > 2
    BY <1>2, <1>6, <1>11 DEF LogsFlow
  <2> QED
    BY <1>1, <1>4, <1>5, <1>6, <1>7, <1>9, <1>11, <2>1, <2>2, <2>3, <2>4 DEF q, e
<1>12. CASE r = 0 /\ viewer.last[s] = ssh[s].read
  <2>1. m = 2 /\ Len(q) = 2 /\ route[s] = "over" /\ LogsClosed(q, ssh[s].read = ssh[s].sent)
    BY <1>6, <1>7, <1>12
  <2>2. q[2] = LogsEof /\ q[1] \in {Logs!Event("end"), Logs!Event("error")}
    BY <2>1 DEF LogsClosed
  <2>3. e.type \in {"end", "error"}
    BY <1>1, <2>2, EventsDiffer
  <2>4. Tail(q) = <<LogsEof>>
    BY <1>2, <2>1, <2>2, TailOfTwo
  <2> QED
    BY <1>1, <1>4, <1>5, <2>1, <2>3, <2>4 DEF q, e
<1> QED
  BY <1>8, <1>10, <1>11, <1>12

LEMMA AppendBoundedIs ==
    ASSUME NEW entries \in Seq(Stream \X (1..MaxChunks)), Len(entries) <= MaxEntries,
           NEW entry \in Stream \X (1..MaxChunks)
    PROVE  /\ Logs!AppendBounded(entries, entry) \in Seq(Stream \X (1..MaxChunks))
           /\ Len(Logs!AppendBounded(entries, entry)) <= MaxEntries
           /\ Logs!AppendBounded(entries, entry) \in
                {Append(entries, entry), Tail(Append(entries, entry))}
<1> DEFINE all == Append(entries, entry)
<1>1. /\ all \in Seq(Stream \X (1..MaxChunks)) /\ Len(all) = Len(entries) + 1 /\ all # <<>>
      /\ Len(entries) \in Nat
  OBVIOUS
<1> HIDE DEF all
<1>2. Tail(all) \in Seq(Stream \X (1..MaxChunks)) /\ Len(Tail(all)) = Len(entries)
  BY <1>1
<1>3. Logs!AppendBounded(entries, entry) = IF Len(all) > MaxEntries THEN Tail(all) ELSE all
  BY DEF Logs!AppendBounded, all
<1> QED
  BY <1>1, <1>2, <1>3, LogsAssumption DEF all

LEMMA LogsReceiveStep == ASSUME LogsInv, NEW s \in Stream, Logs!Receive(s) PROVE LogsInv'
<1> DEFINE e == Head(written[s])
<1>1. /\ s = viewer.controller /\ Logs!Connected /\ browser[s] = "here"
           /\ route[s] \in {"streaming", "over"}
      /\ viewer' = Logs!Shown(s, e)
      /\ UNCHANGED <<browser, route, ssh>> /\ written' = [written EXCEPT ![s] = Tail(@)]
      /\ \/ /\ e.type \in {"end", "error"} /\ Tail(written[s]) = <<LogsEof>> /\ route[s] = "over"
         \/ /\ \/ e.type = "ready" /\ viewer'.last = viewer.last
               \/ /\ e.type = "log" /\ e.n = viewer.last[s] + 1 /\ e.n <= ssh[s].read
                  /\ viewer'.last = [viewer.last EXCEPT ![s] = e.n]
            /\ \/ route[s] = "streaming"
                    /\ LogsFlow(Tail(written[s]), viewer'.last[s], ssh[s].read, 0, 0)
               \/ /\ route[s] = "over" /\ LogsFlow(Tail(written[s]), viewer'.last[s],
                       ssh[s].read, 0, 2)
                  /\ LogsClosed(Tail(written[s]), ssh[s].read = ssh[s].sent)
  BY ReceiveIs
<1>2. /\ LogsVariablesOK /\ ControllerOK /\ HandlerOK(s) /\ FlowOK(s)
           /\ Newest(viewer.entries, viewer.last)
      /\ viewer.last \in [Stream -> 0..MaxChunks]
      /\ viewer.entries \in Seq(Stream \X (1..MaxChunks)) /\ Len(viewer.entries) <= MaxEntries
  BY EntriesAre DEF LogsInv, LogsVariablesOK
<1>3. /\ viewer.last[s] \in 0..MaxChunks /\ ssh[s].read \in 0..MaxChunks
           /\ 0..MaxChunks \subseteq Nat
      /\ viewer.last[s] <= ssh[s].read /\ written[s] \in Seq(LogEvent) /\ written[s] # <<>>
  BY <1>1, <1>2, StreamTypes DEF FlowOK, Logs!Receive
<1>4. /\ written' \in [Stream -> Seq(LogEvent)] /\ written'[s] = Tail(written[s])
      /\ \A t \in Stream : t # s => written'[t] = written[t]
  <2>1. Tail(written[s]) \in Seq(LogEvent)
    BY <1>3
  <2> QED
    BY <1>1, <1>2, <2>1 DEF LogsVariablesOK
<1> HIDE DEF e
<1>5. /\ viewer'.controller = s /\ Len(viewer'.entries) <= MaxEntries
      /\ viewer'.state = (CASE e.type = "ready" -> "connected" [] e.type = "log" -> viewer.state
                           [] e.type = "end" -> "ended" [] e.type = "error" -> "error")
      /\ viewer' \in [state : {"idle", "connecting", "connected", "ended", "error", "left"},
                     entries : Seq(Stream \X (1..MaxChunks)), controller : Stream \cup {None},
                     last : [Stream -> 0..MaxChunks]]
      /\ Newest(viewer'.entries, viewer'.last)
      /\ viewer'.last[s] <= ssh[s].read
      /\ \A t \in Stream : t # s => viewer'.last[t] = viewer.last[t]
  <2>1. CASE e.type \in {"ready", "end", "error"}
    <3>1. PICK state \in {"connected", "ended", "error"} :
             /\ viewer' = [viewer EXCEPT !.state = state]
             /\ state = (CASE e.type = "ready" -> "connected" [] e.type = "log" -> viewer.state
                           [] e.type = "end" -> "ended" [] e.type = "error" -> "error")
      BY <1>1, <2>1 DEF Logs!Shown
    <3>2. viewer' = [state |-> state, entries |-> viewer.entries,
          controller |-> viewer.controller,
                    last |-> viewer.last]
      BY <1>2, <3>1, PanelTypes
    <3>3. /\ viewer'.state = state /\ viewer'.entries = viewer.entries
               /\ viewer'.last = viewer.last
          /\ viewer'.controller = s
      BY <1>1, <3>2
    <3>4. viewer' \in [state : {"idle", "connecting", "connected", "ended", "error", "left"},
                      entries : Seq(Stream \X (1..MaxChunks)), controller : Stream \cup {None},
                      last : [Stream -> 0..MaxChunks]]
      BY <1>1, <1>2, <3>2
    <3> QED
      BY <1>2, <1>3, <3>1, <3>3, <3>4
  <2>2. CASE e.type = "log"
    <3>1. e.n = viewer.last[s] + 1 /\ e.n <= ssh[s].read
      BY <1>1, <2>2
    <3>2. e.n \in 1..MaxChunks /\ e.n \in 0..MaxChunks
      BY <1>3, <3>1, LogsAssumption
    <3> DEFINE entries == Logs!AppendBounded(viewer.entries, <<s, e.n>>)
               last == [viewer.last EXCEPT ![s] = e.n]
               all == Append(viewer.entries, <<s, e.n>>)
    <3>3. viewer' = [viewer EXCEPT !.entries = Logs!AppendBounded(@, <<s, e.n>>), !.last[s] = e.n]
      BY <1>1, <2>2 DEF Logs!Shown
    <3>4. viewer' = [state |-> viewer.state, entries |-> entries,
          controller |-> viewer.controller,
                    last |-> last]
      BY <1>2, <3>3, PanelTypes
    <3>5. /\ entries \in Seq(Stream \X (1..MaxChunks)) /\ Len(entries) <= MaxEntries
          /\ entries \in {all, Tail(all)}
      <4>1. <<s, e.n>> \in Stream \X (1..MaxChunks)
        BY <3>2
      <4> QED
        BY <1>2, <4>1, AppendBoundedIs
    <3>6. /\ last \in [Stream -> 0..MaxChunks] /\ last[s] = e.n
          /\ \A t \in Stream : t # s => last[t] = viewer.last[t]
      BY <1>2, <3>2
    <3>7. Newest(all, last)
      BY <1>2, <3>1, NewestAppend
    <3>8. Newest(entries, last)
      <4>1. all \in Seq(Stream \X (1..MaxChunks)) /\ all # <<>>
        <5>1. <<s, e.n>> \in Stream \X (1..MaxChunks)
          BY <3>2
        <5> QED
          BY <1>2, <5>1
      <4> HIDE DEF all, last, entries
      <4>2. Newest(Tail(all), last)
        BY <3>7, <4>1, NewestTail
      <4> QED
        BY <3>5, <3>7, <4>2
    <3> HIDE DEF all, last, entries
    <3>9. /\ viewer'.state = viewer.state /\ viewer'.entries = entries /\ viewer'.last = last
          /\ viewer'.controller = s
      BY <1>1, <3>4
    <3>10. viewer' \in [state : {"idle", "connecting", "connected", "ended", "error", "left"},
                       entries : Seq(Stream \X (1..MaxChunks)), controller : Stream \cup {None},
                       last : [Stream -> 0..MaxChunks]]
      <4>1. /\ viewer.state \in {"idle", "connecting", "connected", "ended", "error", "left"}
            /\ viewer.controller \in Stream \cup {None}
        BY <1>2 DEF LogsVariablesOK
      <4> QED
        BY <3>4, <3>5, <3>6, <4>1
    <3> QED
      BY <2>2, <3>1, <3>5, <3>6, <3>8, <3>9, <3>10
  <2> QED
    BY <1>1, <2>1, <2>2
<1>6. LogsVariablesOK'
  BY <1>1, <1>2, <1>4, <1>5 DEF LogsVariablesOK
<1>7. Logs!EntriesAreNewest'
  BY <1>5, EntriesAreThen
<1>8. \A t \in Stream : t # s => HandlerOK(t)' /\ FlowOK(t)'
  BY <1>1, <1>4, <1>5, OthersStay
<1>9. HandlerOK(s)'
  BY <1>1, <1>2 DEF HandlerOK
<1>10. e.type \notin {"end", "error"} => written'[s] # <<LogsEof>>
  <2> SUFFICES ASSUME e.type \notin {"end", "error"} PROVE Tail(written[s]) # <<LogsEof>>
    BY <1>4
  <2> DEFINE q == Tail(written[s]) last == viewer'.last[s] read == ssh[s].read
  <2>1. PICK m \in {0, 2} : LogsFlow(q, last, read, 0, m)
    BY <1>1
  <2>2. q \in Seq(LogEvent) /\ last \in 0..MaxChunks /\ read \in 0..MaxChunks /\ last <= read
    BY <1>3, <1>5
  <2> HIDE DEF q, last, read
  <2>3. q # <<LogsEof>>
    BY <2>1, <2>2, FlowIsNotOver
  <2> QED
    BY <2>3 DEF q
<1>11. FlowOK(s)'
  BY <1>1, <1>4, <1>5 DEF FlowOK
<1>12. ControllerOK'
  <2>1. s # None
    BY LogsAssumption
  <2>2. \A t \in Stream : browser'[t] = "here" /\ t # s => written'[t] = <<LogsEof>>
    BY <1>1, <1>2, <1>4 DEF ControllerOK
  <2>3. CASE e.type \in {"end", "error"}
    <3>1. written'[s] = <<LogsEof>> /\ viewer'.state \in {"ended", "error"}
      BY <1>1, <1>4, <1>5, <2>3
    <3> QED
      BY <1>1, <1>5, <2>1, <2>2, <3>1 DEF ControllerOK, Logs!Connected
  <2>4. CASE e.type \in {"ready", "log"}
    <3>1. written'[s] # <<LogsEof>> /\ viewer'.state \in {"connecting", "connected"}
      BY <1>1, <1>5, <1>10, <2>4 DEF Logs!Connected
    <3> QED
      BY <1>1, <1>5, <2>1, <2>2, <3>1 DEF ControllerOK, Logs!Connected
  <2> QED
    BY <1>1, <2>3, <2>4
<1> QED
  BY <1>6, <1>7, <1>8, <1>9, <1>11, <1>12 DEF LogsInv

LEMMA LogsStep == LogsInv /\ [Logs!Next]_(Logs!vars) => LogsInv'
<1> SUFFICES ASSUME LogsInv, [Logs!Next]_(Logs!vars) PROVE LogsInv'
  OBVIOUS
<1>1. CASE UNCHANGED Logs!vars
  <2>1. /\ UNCHANGED <<browser, route, ssh, written>> /\ viewer' = viewer
    BY <1>1 DEF Logs!vars
  <2>2. LogsVariablesOK'
    BY <2>1 DEF LogsInv, LogsVariablesOK
  <2>3. Newest(viewer'.entries, viewer'.last)
    BY <2>1, EntriesAre DEF LogsInv
  <2> QED
    BY <2>1, <2>2, <2>3, PanelStep
<1>2. CASE Logs!Next
  BY <1>2, DisconnectStep, LeaveStep, ClearStep, LogsConnectStep, LogsReceiveStep, EndsStep,
     LostStep, SshReadyStep, RefuseStep, StartsStep, CommandStep, ForwardsStep, EndStep
     DEF Logs!Next
<1> QED
  BY <1>1, <1>2

-----------------------------------------------------------------------------
(* The parts together.                                                     *)

\* Every part keeps its invariant.
ScenesInv ==
    /\ scene = "pull" => PullInv
    /\ scene = "create" => CreateInv
    /\ scene = "dashboard" => DashboardInv
    /\ scene = "audit" => AuditInv
    /\ scene = "logs" => LogsInv

\* A step is one of the part that is followed.
LEMMA SceneSteps ==
    ASSUME [SceneNext]_sceneVars
    PROVE  /\ scene' = scene
           /\ scene = "pull" => [Pull!Next]_(Pull!vars)
           /\ scene = "create" => [Create!Next]_(Create!vars)
           /\ scene = "dashboard" => [Dashboard!Next]_(Dashboard!vars)
           /\ scene = "audit" => [Audit!Next]_(Audit!vars)
           /\ scene = "logs" => [Logs!Next]_(Logs!vars)
  BY DEF SceneNext, sceneVars, jobVars, pullVars, createVars, dashboardVars, auditVars, logsVars,
     Pull!vars, Pull!streamVars, Pull!panelVars, Create!vars, Create!streamVars,
     Create!panelVars, Dashboard!vars, Audit!vars, Logs!vars

LEMMA ScenesHold == SceneSpec => []ScenesInv
<1>1. SceneInit => ScenesInv
  BY PullInitially, CreateInitially, DashboardInitially, AuditInitially, LogsInitially
     DEF SceneInit, ScenesInv
<1>2. ScenesInv /\ [SceneNext]_sceneVars => ScenesInv'
  BY SceneSteps, PullPanelStep, CreatePanelStep, DashboardStep, AuditStep, LogsStep
     DEF ScenesInv
<1> QED
  BY <1>1, <1>2, PTL DEF SceneSpec

\* The panel of a pull leaves its job only when it has received every event of it, the
\* outcome included, whatever connections break; the panel of a create shows a final state
\* only when the job is in it, and it never waits without a source or an answer to come.
THEOREM PanelInvariantHolds == SceneSpec => []PanelInvariant
<1>1. ScenesInv => PanelInvariant
  BY PullPanelIsRight, CreatePanelIsRight DEF ScenesInv, PanelInvariant
<1> QED
  BY <1>1, ScenesHold, PTL

\* A dashboard does not run two operations at once, its controls are disabled only while a
\* mounted panel waits for an answer, and a panel that runs an operation is of the target
\* that is selected.
THEOREM DashboardInvariantHolds == SceneSpec => []DashboardInvariant
<1>1. ScenesInv => DashboardInvariant
  BY DashboardIsSafe DEF ScenesInv, DashboardInvariant
<1> QED
  BY <1>1, ScenesHold, PTL

\* Who goes through the pages of the audit events to the last one has seen every event
\* that was there at the first page and still is, although events are recorded and purged
\* meanwhile; and a purge that calls itself complete has left no expired event.
THEOREM AuditInvariantHolds == SceneSpec => []AuditInvariant
<1>1. ScenesInv => AuditInvariant
  BY AuditIsRight DEF ScenesInv, AuditInvariant
<1> QED
  BY <1>1, ScenesHold, PTL

\* The live logs show the newest lines of a stream without a gap, tell the end of a stream
\* after its last line only, call themselves connected only while the browser holds the
\* connection, and leave no connection to the host behind.
THEOREM LogsInvariantHolds == SceneSpec => []LogsInvariant
<1>1. ScenesInv => LogsInvariant
  BY EndIsTold DEF ScenesInv, LogsInvariant, LogsInv
<1> QED
  BY <1>1, ScenesHold, PTL

\* The event stream of a pull and its panel implement the feed: what one EventSource receives
\* is what the job recorded, in that order, without a gap and without a repetition, through
\* every lost connection; the source that the panel opens in its place starts over.
THEOREM PullImplementsFeed == SceneSpec => DeliversLikeFeed
<1>1. SceneInit => Feed!FeedInit
  <2> SUFFICES ASSUME SceneInit PROVE Feed!FeedInit
    OBVIOUS
  <2>1. CASE scene = "pull"
    <3>1. Pull!Init
      BY <2>1 DEF SceneInit
    <3>2. Pull!Recorded \in Seq(Nat) /\ received = <<>> /\ reopened = 0
      BY <3>1, PullInitially, PublicIs DEF PullInv, Pull!Init
    <3> QED
      BY <2>1, <3>2 DEF Feed!FeedInit
  <2>2. CASE scene # "pull"
    BY <2>2 DEF Feed!FeedInit
  <2> QED
    BY <2>1, <2>2
<1>2. ScenesInv /\ ScenesInv' /\ [SceneNext]_sceneVars => [Feed!FeedNext]_(Feed!feedVars)
  <2> SUFFICES ASSUME ScenesInv, ScenesInv', [SceneNext]_sceneVars
               PROVE  [Feed!FeedNext]_(Feed!feedVars)
    OBVIOUS
  <2>1. CASE scene = "pull"
    <3>1. FeedSteps /\ scene' = "pull"
      BY <2>1, SceneSteps, PullFeeds DEF ScenesInv
    <3> QED
      BY <2>1, <3>1 DEF FeedSteps, Feed!FeedNext, Feed!Record, Feed!Deliver, Feed!StartOver,
         Feed!feedVars
  <2>2. CASE scene # "pull"
    <3>1. scene' # "pull"
      BY <2>2, SceneSteps
    <3> QED
      BY <2>2, <3>1 DEF Feed!feedVars
  <2> QED
    BY <2>1, <2>2
<1> QED
  BY <1>1, <1>2, ScenesHold, PTL DEF SceneSpec, DeliversLikeFeed, Feed!Feed

\* A purge takes expired events only, and never one that is newer than one it leaves.
THEOREM OldestArePurged == SceneSpec => PurgesOldestFirst
<1>1. ScenesInv /\ [SceneNext]_sceneVars => [scene = "audit" => Audit!OldestPurged]_sceneVars
  BY SceneSteps, PurgedAreOld DEF ScenesInv
<1> QED
  BY <1>1, ScenesHold, PTL DEF SceneSpec, PurgesOldestFirst

\* A log command whose output nobody reads is one that was started for a browser that had
\* gone already: no running one is ever abandoned.
THEOREM AbandonedOnlyEarly == SceneSpec => OnlyAbandonedEarly
<1>1. ScenesInv /\ [SceneNext]_sceneVars => [scene = "logs" => Logs!AbandonedEarly]_sceneVars
  BY SceneSteps, LogsAbandoned DEF ScenesInv, LogsInv
<1> QED
  BY <1>1, ScenesHold, PTL DEF SceneSpec, OnlyAbandonedEarly

=============================================================================

---------------------------- MODULE ModelfileDiff ----------------------------
(***************************************************************************)
(* How two revisions of a Modelfile are compared, line by line             *)
(* (packages/core/src/modelfile-diff.ts).  A line is compared with its     *)
(* ending.  When there are too many lines for the longest common           *)
(* subsequence, what lies between a common prefix and a common suffix is   *)
(* shown as replaced.                                                      *)
(***************************************************************************)
EXTENDS Naturals, Sequences, SequencesExt, FiniteSets, FiniteSetsExt

CONSTANTS
    None,
    ContextLines,  \* CONTEXT_LINES
    MaxCells,      \* MAX_LCS_CELLS
    MaxOutputLines \* MAX_DIFF_OUTPUT_LINES

\* An operation names the lines by their numbers in both texts; None where there is none.
Op(kind, old, new) == [kind |-> kind, old |-> old, new |-> new]

\* The matrix of lcsOperations(): the length of the longest common subsequence of what
\* follows line i - 1 of before and line j - 1 of after.
Matrix(before, after) ==
    LET length[i \in 1..Len(before) + 1, j \in 1..Len(after) + 1] ==
            IF i > Len(before) \/ j > Len(after) THEN 0
            ELSE IF before[i] = after[j] THEN length[i + 1, j + 1] + 1
            ELSE Max({length[i + 1, j], length[i, j + 1]})
    IN length

\* Of two lines that differ the one of after is taken first, unless that costs a common line.
Adds(matrix, before, after, i, j) ==
    j <= Len(after) /\ (i > Len(before) \/ matrix[i, j + 1] >= matrix[i + 1, j])

\* lcsOperations
LcsOperations(before, after) ==
    LET matrix == Matrix(before, after)
        walk[i \in 1..Len(before) + 1, j \in 1..Len(after) + 1] ==
            IF i > Len(before) /\ j > Len(after) THEN <<>>
            ELSE IF i <= Len(before) /\ j <= Len(after) /\ before[i] = after[j]
                 THEN <<Op("context", i, j)>> \o walk[i + 1, j + 1]
            ELSE IF Adds(matrix, before, after, i, j)
                 THEN <<Op("add", None, j)>> \o walk[i, j + 1]
            ELSE <<Op("remove", i, None)>> \o walk[i + 1, j]
    IN walk[1, 1]

\* The positions that are shown: the changes and what is near them.
Shown(ops) ==
    {i \in DOMAIN ops : \E c \in DOMAIN ops :
        ops[c].kind # "context" /\ i <= c + ContextLines /\ c <= i + ContextLines}

\* A hunk: windows that touch are one.
Hunk(ops, i, j) ==
    [oldStart |-> IF ops[i].old # None THEN ops[i].old ELSE ops[i].new,
     newStart |-> IF ops[i].new # None THEN ops[i].new ELSE ops[i].old,
     lines |-> SubSeq(ops, i, j)]

\* The last position of the hunk that starts at i.
HunkEnd(ops, i) == Min({j \in Shown(ops) : j >= i /\ j + 1 \notin Shown(ops)})

\* buildContextHunks: the last hunk is cut where the limit of lines is reached.
ContextHunks(ops) ==
    LET shown == Shown(ops)
        starts == SelectSeq([i \in DOMAIN ops |-> i], LAMBDA i : i \in shown /\ i - 1 \notin shown)
        before(k) == Cardinality({i \in shown : i < starts[k]})
        visible == SelectSeq([k \in DOMAIN starts |-> k], LAMBDA k : before(k) < MaxOutputLines)
    IN [k \in DOMAIN visible |->
          Hunk(ops, starts[k], Min({HunkEnd(ops, starts[k]), starts[k] + MaxOutputLines - before(k) - 1}))]

\* The lengths of the common prefix, and of the common suffix of what follows it.
CommonPrefix(before, after) ==
    Max({p \in 0..Min({Len(before), Len(after)}) : SubSeq(before, 1, p) = SubSeq(after, 1, p)})

\* Mutant of CommonSuffix: the suffix may overlap the prefix.
CommonSuffixOfAll(before, after) ==
    Max({s \in 0..Min({Len(before), Len(after)}) :
           SubSeq(before, Len(before) - s + 1, Len(before)) = SubSeq(after, Len(after) - s + 1, Len(after))})

CommonSuffix(before, after) ==
    Max({s \in 0..Min({Len(before), Len(after)}) - CommonPrefix(before, after) :
           SubSeq(before, Len(before) - s + 1, Len(before)) = SubSeq(after, Len(after) - s + 1, Len(after))})

\* boundedReplacementDiff
ReplacementOperations(before, after) ==
    LET prefix == CommonPrefix(before, after)
        oldEnd == Len(before) - CommonSuffix(before, after)
        newEnd == Len(after) - CommonSuffix(before, after)
        lead == Min({prefix, ContextLines})
        trail == Min({CommonSuffix(before, after), ContextLines})
    IN IF prefix = oldEnd /\ prefix = newEnd THEN <<>>
       ELSE [i \in 1..lead |-> Op("context", prefix - lead + i, prefix - lead + i)]
              \o [i \in 1..oldEnd - prefix |-> Op("remove", prefix + i, None)]
              \o [i \in 1..newEnd - prefix |-> Op("add", None, prefix + i)]
              \o [i \in 1..trail |-> Op("context", oldEnd + i, newEnd + i)]

ReplacementHunks(ops) ==
    IF ops = <<>> THEN <<>> ELSE <<Hunk(ops, 1, Min({Len(ops), MaxOutputLines}))>>

UsesLcs(before, after) == (Len(before) + 1) * (Len(after) + 1) <= MaxCells

\* The operations of diffModelfileText, and what is shown of them.
Operations(before, after) ==
    IF UsesLcs(before, after) THEN LcsOperations(before, after) ELSE ReplacementOperations(before, after)

Hunks(before, after) ==
    LET ops == Operations(before, after)
    IN IF UsesLcs(before, after) THEN ContextHunks(ops) ELSE ReplacementHunks(ops)

Truncated(before, after) ==
    LET ops == Operations(before, after)
    IN IF UsesLcs(before, after) THEN Cardinality(Shown(ops)) > MaxOutputLines
       ELSE Len(ops) > MaxOutputLines

=============================================================================

-------------------------- MODULE StructuredEditor --------------------------
(***************************************************************************)
(* The draft of a revision in the editor of Modelfiles (apps/web/src/      *)
(* StructuredModelfileEditor.tsx and the raw view of                       *)
(* LocalModelfilesPanel.tsx), one keystroke at a time, and its difference  *)
(* from the revision that it began with.                                   *)
(*                                                                         *)
(* Every control of the structured view shows a part of the draft; what    *)
(* the user types replaces that part, and the draft is parsed again.  A    *)
(* control of the browser has line feeds only, and one for a single line   *)
(* has none.                                                               *)
(***************************************************************************)
EXTENDS ModelfileDeploy

CONSTANTS
    None,
    Draft,     \* the texts with which editing begins
    Key,       \* the tokens that are typed
    ContextLines, MaxCells, MaxOutputLines, \* of ModelfileDiff
    MaxEdits   \* bound on the edits

VARIABLES
    base, \* the text of the revision
    raw,  \* revisionRaw
    edit, \* history variable: the last edit, the node it was made to and what was typed
    edits \* the number of edits

vars == <<base, raw, edit, edits>>

Diff == INSTANCE ModelfileDiff

NoEdit == [op |-> "none", at |-> 0, typed |-> <<>>]

Init ==
    /\ base \in Draft /\ raw = base
    /\ edit = NoEdit /\ edits = 0

\* The value of a textarea, and that of an input.
Area(s) == [i \in DOMAIN s |-> IF s[i] = "crlf" THEN "lf" ELSE s[i]]

Input(s) == SelectSeq(s, LAMBDA t : t \notin LineEnding)

\* A token that is typed somewhere in a value, or deleted.
Keystrokes(value) ==
    {InsertAt(value, i, t) : i \in 1..Len(value) + 1, t \in Key}
        \cup {RemoveAt(value, i) : i \in DOMAIN value}

Edit(op, at, typed, text) ==
    /\ edits' = edits + 1
    /\ edit' = [op |-> op, at |-> at, typed |-> typed]
    /\ raw' = text
    /\ UNCHANGED base

\* The nodes that the structured view has a control for: of texts the first of its name.
Editable(nodes, i) ==
    nodes[i].editable /\ (nodes[i].name = "SYSTEM" => i = Min(Named(nodes, "SYSTEM")))

\* What the control of a node shows; of a pair, its value.
ShownValue(text, n) ==
    LET argument == Argument(text, n)
    IN CASE n.name \in Simple -> Input(argument)
         [] n.name \in KeyValue -> Pair(argument).value
         [] n.name = "SYSTEM" -> Area(TextArgument(argument).value)
         [] OTHER -> <<>>

\* SimpleDirective and AdapterDirectives
TypeSimple(i, n) ==
    /\ n.name \in Simple
    /\ \E typed \in Keystrokes(ShownValue(raw, n)) :
         /\ ~Has(typed, LineEnding)
         /\ Edit("value", i, typed, Replace(raw, n, typed))

\* KeyValueDirectives: a pair that is not one has no control, and an empty key is refused.
TypeKey(i, n) ==
    /\ n.name \in KeyValue
    /\ LET pair == Pair(Argument(raw, n)) IN
       /\ pair.valid
       /\ \E typed \in Keystrokes(pair.key) :
            /\ typed # <<>> /\ ~Has(typed, Space)
            /\ Edit("key", i, typed, ReplacedPair(raw, n, typed, pair.value))

\* A value of several lines is refused.
TypeValue(i, n) ==
    /\ n.name \in KeyValue
    /\ LET pair == Pair(Argument(raw, n)) IN
       /\ pair.valid
       /\ \E typed \in Keystrokes(pair.value) :
            /\ ~Has(typed, LineEnding)
            /\ Edit("value", i, typed, ReplacedPair(raw, n, pair.key, typed))

\* TextDirective
TypeText(i, n) ==
    /\ n.name = "SYSTEM"
    /\ \E typed \in Keystrokes(ShownValue(raw, n)) : Edit("value", i, typed, ReplacedText(raw, n, typed))

RemoveDirective(i, n) == Edit("remove", i, <<>>, Removed(raw, n))

\* A directive of which there is one at most is added only where it is absent.
AddDirective(name) ==
    /\ name \in Singleton => Named(Nodes(raw), name) = {}
    /\ LET argument == CASE name \in Simple -> <<"x">>
                         [] name = "PARAMETER" -> <<"x", "sp", "x">>
                         [] name = "MESSAGE" -> <<"user", "sp", "x">>
                         [] name = "SYSTEM" -> <<Quote, Quote>>
       IN Edit("add", 0, <<>>, Appended(raw, name, argument))

\* The raw view is a textarea.
TypeRaw == \E typed \in Keystrokes(Area(raw)) : Edit("raw", 0, typed, typed)

Next ==
    /\ edits < MaxEdits
    /\ \/ LET nodes == Nodes(raw) IN
          \E i \in DOMAIN nodes :
            /\ Editable(nodes, i)
            /\ \/ TypeSimple(i, nodes[i]) \/ TypeKey(i, nodes[i]) \/ TypeValue(i, nodes[i])
               \/ TypeText(i, nodes[i]) \/ RemoveDirective(i, nodes[i])
       \/ \E name \in Known : AddDirective(name)
       \/ TypeRaw

-----------------------------------------------------------------------------
(* Properties.                                                             *)

\* The nodes of a parsed text are the text: none of it is lost, none of it is in two nodes,
\* and a later patch of a range finds what was parsed there.
NodesCover ==
    LET nodes == Nodes(raw)
    IN FlattenSeq([i \in DOMAIN nodes |-> SubSeq(raw, nodes[i].first, nodes[i].last)]) = raw

\* What the nodes say, their line endings aside.
Contents(text) ==
    LET nodes == Nodes(text)
    IN [i \in DOMAIN nodes |-> SubSeq(text, nodes[i].first, nodes[i].contentLast)]

\* An edit of a directive changes this directive alone: comments, opaque text and the other
\* directives stay what they are and where they are, as long as nobody types a quotation
\* mark into a value.
LocalEdit ==
    LET old == Contents(raw)
        new == Contents(raw')
        at == edit'.at
    IN /\ edit'.op \in {"value", "key"} /\ ~Has(edit'.typed, {Quote}) =>
            Len(new) = Len(old) /\ \A i \in DOMAIN old \ {at} : new[i] = old[i]
       /\ edit'.op = "remove" => new = RemoveAt(old, at)
       /\ edit'.op = "add" /\ (\A n \in ToSet(Nodes(raw)) : n.closed) => Front(new) = old

\* What was typed into a control is what the control shows afterwards, so that the user goes
\* on typing where it was left.  This is not so of blanks at its ends and of quotation marks,
\* nor where nothing separates the argument from the name of its directive.
EditShown ==
    LET typed == edit'.typed
        at == edit'.at
    IN /\ edit'.op = "value"
       /\ typed # <<>> /\ Trim(typed) = typed /\ ~Has(typed, {Quote})
       /\ raw[Nodes(raw)[at].argument - 1] = "sp"
       => ShownValue(raw', Nodes(raw')[at]) = typed

\* A Modelfile that is deployed is deployed as a whole: every directive is in the request, but
\* for parameters of the one name that a plain object does not keep.
NothingDropped ==
    Compiles(raw) =>
        LET payload == Payload(raw)
            lost(n) == n.name = "PARAMETER" /\ IsLost(Pair(Argument(raw, n)))
        IN
        Len(SelectSeq(Nodes(raw), LAMBDA n : n.kind \notin {"blank", "comment"} /\ ~lost(n)))
            = Len(payload.from) + Len(payload.parser) + Len(payload.system)
                + Len(payload.parameters) + Len(payload.messages)

\* The lines of a text, each with its ending.
SourceLines(text) ==
    LET lines == Lines(text) IN [k \in DOMAIN lines |-> SubSeq(text, lines[k].first, lines[k].last)]

Removals(ops) == {op.old : op \in {o \in ToSet(ops) : o.kind = "remove"}}

Additions(ops) == {op.new : op \in {o \in ToSet(ops) : o.kind = "add"}}

\* The text that a reader makes of the old one with the lines that a difference shows.
Patched(before, after, ops) ==
    LET kept == SelectSeq([k \in DOMAIN before |-> k], LAMBDA k : k \notin Removals(ops))
        n == Len(kept) + Cardinality(Additions(ops))
    IN [k \in 1..n |-> IF k \in Additions(ops) THEN after[k]
                       ELSE before[kept[k - Cardinality({a \in Additions(ops) : a < k})]]]

\* The difference between two revisions turns the one into the other, whichever way it was
\* found, when all of it is shown.
DiffRebuilds ==
    LET before == SourceLines(base)
        after == SourceLines(raw)
        hunks == Diff!Hunks(before, after)
    IN ~Diff!Truncated(before, after) =>
         Patched(before, after, FlattenSeq([h \in DOMAIN hunks |-> hunks[h].lines])) = after

\* The longest common subsequence, by its definition.
Subsequences(s) ==
    {LET positions == Positions(s, p) IN [k \in DOMAIN positions |-> s[positions[k]]] :
        p \in SUBSET DOMAIN s}

CommonLength(before, after) ==
    Max({Len(s) : s \in Subsequences(before) \cap Subsequences(after)})

\* A difference shows as few lines as changed as there can be, unless the texts are too long.
DiffIsShortest ==
    LET before == SourceLines(base)
        after == SourceLines(raw)
    IN Diff!UsesLcs(before, after) =>
         Len(SelectSeq(Diff!Operations(before, after), LAMBDA op : op.kind = "context"))
             = CommonLength(before, after)

=============================================================================

---------------------------- MODULE ModelfileText ----------------------------
(***************************************************************************)
(* The text of a Modelfile, how it is parsed (packages/core/src/           *)
(* modelfile-parser.ts), and the patches that the structured editor makes  *)
(* to it (modelfile-editor.ts).                                            *)
(*                                                                         *)
(* A text is a sequence of tokens: a line ending, a blank, the triple      *)
(* quotation mark, "#", or a word.  Words that touch make one longer word. *)
(* A node is told by the positions of its first and last tokens.           *)
(***************************************************************************)
EXTENDS Naturals, Sequences, SequencesExt, FiniteSets, FiniteSetsExt

Quote == "\"\"\""

LineEnding == {"lf", "crlf"}

Space == LineEnding \cup {"sp"}

Simple == {"FROM", "PARSER", "ADAPTER"}

KeyValue == {"PARAMETER", "MESSAGE"}

\* KNOWN_DIRECTIVES.  FROM stands for REQUIRES too, PARSER for RENDERER and DRAFT, and
\* SYSTEM for TEMPLATE and LICENSE.
Known == Simple \cup KeyValue \cup {"SYSTEM"}

Word == Known \cup {"x", "y", "stop", "user", "__proto__"}

NonSpace == Word \cup {Quote, "#"}

SingleLine == {"PARSER"}

Singleton == {"FROM", "PARSER", "SYSTEM"}

Ink(s) == {i \in DOMAIN s : s[i] \notin Space}

Trim(s) == LET ink == Ink(s) IN IF ink = {} THEN <<>> ELSE SubSeq(s, Min(ink), Max(ink))

Leading(s) == SubSeq(s, 1, Min(Ink(s) \cup {Len(s) + 1}) - 1)

Trailing(s) == SubSeq(s, Max(Ink(s) \cup {0}) + 1, Len(s))

\* The positions of a sequence that are in the set, in order.
Positions(s, set) == SelectSeq([i \in DOMAIN s |-> i], LAMBDA i : i \in set)

Has(s, tokens) == ToSet(s) \cap tokens # {}

-----------------------------------------------------------------------------
(* parseModelfile.                                                         *)

\* The lines of the text: their first token, their last, and the last of their content.
Lines(raw) ==
    LET ends == Positions(raw, {i \in DOMAIN raw : raw[i] \in LineEnding \/ i = Len(raw)})
    IN [k \in DOMAIN ends |->
          [first |-> IF k = 1 THEN 1 ELSE ends[k - 1] + 1,
           last |-> ends[k],
           contentLast |-> IF raw[ends[k]] \in LineEnding THEN ends[k] - 1 ELSE ends[k]]]

Quotes(raw, first, last) == Cardinality({i \in first..last : raw[i] = Quote})

\* The first position from first to last that is not among the tokens, last + 1 if all are.
Past(raw, tokens, first, last) == Min({i \in first..last : raw[i] \notin tokens} \cup {last + 1})

\* The argument of a directive starts after the blanks that follow its name.
ArgumentFirst(raw, nameEnd, last) == Past(raw, {"sp"}, nameEnd, last)

\* The lines at whose end the quotation marks of an argument that starts on line k are even.
Balanced(raw, lines, k, first) ==
    {c \in k..Len(lines) : Quotes(raw, first, lines[c].contentLast) % 2 = 0}

\* A node that is one line: blank, a comment, or text that is no directive.
LineNode(kind, line, k) ==
    [kind |-> kind, name |-> "", first |-> line.first, last |-> line.last,
     contentLast |-> line.contentLast, argument |-> line.first, endLine |-> k,
     closed |-> TRUE, editable |-> FALSE]

\* structuredEditable()
StructuredEditable(name, closed, multiline) == name \in Known /\ closed /\ ~(name \in SingleLine /\ multiline)

\* A directive, which goes on until its quotation marks are even or the text ends.
Directive(raw, lines, k, start) ==
    LET line == lines[k]
        nameEnd == Past(raw, Word, start, line.contentLast)
        name == IF nameEnd = start + 1 /\ raw[start] \in Known THEN raw[start] ELSE ""
        argument == ArgumentFirst(raw, nameEnd, line.contentLast)
        balanced == Balanced(raw, lines, k, argument)
        endLine == IF balanced = {} THEN Len(lines) ELSE Min(balanced)
    IN [kind |-> IF name = "" THEN "opaque-directive" ELSE "directive", name |-> name,
        first |-> line.first, last |-> lines[endLine].last,
        contentLast |-> lines[endLine].contentLast, argument |-> argument, endLine |-> endLine,
        closed |-> balanced # {}, editable |-> StructuredEditable(name, balanced # {}, endLine > k)]

\* The node that starts on line k.
Node(raw, lines, k) ==
    LET line == lines[k]
        start == Past(raw, {"sp"}, line.first, line.contentLast)
    IN CASE start > line.contentLast -> LineNode("blank", line, k)
         [] start <= line.contentLast /\ raw[start] = "#" -> LineNode("comment", line, k)
         [] start <= line.contentLast /\ raw[start] \in Word -> Directive(raw, lines, k, start)
         [] OTHER -> LineNode("opaque-text", line, k)

Nodes(raw) ==
    LET lines == Lines(raw)
        from[k \in 1..Len(lines) + 1] ==
            IF k > Len(lines) THEN <<>>
            ELSE LET node == Node(raw, lines, k) IN <<node>> \o from[node.endLine + 1]
    IN from[1]

Argument(raw, n) == SubSeq(raw, n.argument, n.contentLast)

Named(nodes, name) == {i \in DOMAIN nodes : nodes[i].name = name}

HasOpaqueSyntax(nodes) == \E n \in ToSet(nodes) : n.kind \in {"opaque-text", "opaque-directive"}

\* A key that a blank separates from what follows it.
HasValue(argument) ==
    LET text == Trim(argument)
        key == Min({i \in DOMAIN text : text[i] \in Space} \cup {Len(text) + 1})
    IN key <= Len(text) /\ text[key] = "sp"

\* validateKnownDirective, and a value that is not closed.
Invalid(raw, n) ==
    LET argument == Argument(raw, n)
    IN \/ ~n.closed
       \/ n.kind = "directive" /\ Trim(argument) = <<>>
       \/ n.name \in SingleLine /\ Has(argument, LineEnding)
       \/ n.name \in KeyValue /\ ~HasValue(argument)

\* There is a diagnostic of severity error.
HasErrors(raw, nodes) ==
    \/ \E n \in ToSet(nodes) : Invalid(raw, n)
    \/ Cardinality(Named(nodes, "FROM")) # 1

-----------------------------------------------------------------------------
(* The patches.                                                            *)

\* replaceDirectiveArgument
Replace(raw, n, argument) ==
    SubSeq(raw, 1, n.argument - 1) \o argument \o SubSeq(raw, n.contentLast + 1, Len(raw))

\* removeDirective
Removed(raw, n) == SubSeq(raw, 1, n.first - 1) \o SubSeq(raw, n.last + 1, Len(raw))

\* preferredLineEnding: the one of the text, that of its last line when they are mixed.
PreferredLineEnding(raw) ==
    LET ends == {i \in DOMAIN raw : raw[i] \in LineEnding}
    IN IF ends = {} THEN "lf" ELSE raw[Max(ends)]

\* appendDirective, unless it duplicates a singleton.
Appended(raw, name, argument) ==
    LET ending == <<PreferredLineEnding(raw)>>
        separator == IF raw = <<>> \/ Last(raw) \in LineEnding THEN <<>> ELSE ending
    IN raw \o separator \o <<name, "sp">> \o argument \o ending

\* parseKeyValueArgument, with the blanks that a patch preserves; valid is FALSE where it
\* returns null.
Pair(argument) ==
    LET leading == Leading(argument)
        first == Len(leading) + 1
        sep == Past(argument, NonSpace, first, Len(argument))
        second == Past(argument, {"sp"}, sep, Len(argument))
        rest == SubSeq(argument, second, Len(argument))
        value == Trim(rest)
    IN [valid |-> value # <<>> /\ ~Has(argument, LineEnding),
        leading |-> leading, key |-> SubSeq(argument, first, sep - 1),
        separator |-> SubSeq(argument, sep, second - 1),
        value |-> value, trailing |-> Trailing(rest)]

\* replaceKeyValueArgument
ReplacedPair(raw, n, key, value) ==
    LET pair == Pair(Argument(raw, n))
    IN Replace(raw, n, pair.leading \o key \o pair.separator \o value \o pair.trailing)

\* parseTextArgument
TextArgument(argument) ==
    LET text == Trim(argument)
        quoted == Len(text) > 1 /\ text[1] = Quote /\ Last(text) = Quote
    IN [value |-> IF quoted THEN SubSeq(text, 2, Len(text) - 1) ELSE text, quoted |-> quoted,
        leading |-> Leading(argument), trailing |-> Trailing(argument)]

\* Mutant of ReplacedText: text that goes on over several lines is not put into quotation marks.
ReplacedTextAsItWas(raw, n, value) ==
    LET text == TextArgument(Argument(raw, n))
        mark == IF text.quoted THEN <<Quote>> ELSE <<>>
    IN Replace(raw, n, text.leading \o mark \o value \o mark \o text.trailing)

\* replaceTextArgument
ReplacedText(raw, n, value) ==
    LET text == TextArgument(Argument(raw, n))
        mark == IF text.quoted \/ Has(value, LineEnding) THEN <<Quote>> ELSE <<>>
    IN Replace(raw, n, text.leading \o mark \o value \o mark \o text.trailing)

=============================================================================

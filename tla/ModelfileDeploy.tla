--------------------------- MODULE ModelfileDeploy ---------------------------
(***************************************************************************)
(* What Ollama is asked to create for a Modelfile                          *)
(* (packages/core/src/modelfile-deploy.ts).  A Modelfile of which the      *)
(* request could not say everything is refused.                            *)
(***************************************************************************)
EXTENDS ModelfileText

Roles == {"user"}

Arguments(raw, nodes, name) ==
    LET named == SelectSeq(nodes, LAMBDA n : n.name = name)
    IN [i \in DOMAIN named |-> Argument(raw, named[i])]

\* validateBaseModel: one word.
IsBaseModel(argument) ==
    LET name == Trim(argument) IN name # <<>> /\ ~Has(name, {Quote, "#", "sp"} \cup LineEnding)

\* canonicalOllamaModelName of a name without a tag.
Canonical(name) == Append(name, ":latest")

\* normalizeOllamaParameterScalar refuses what only looks like a JSON string.
IsScalar(value) == ~(value[1] = Quote /\ Last(value) = Quote)

\* To assign a scalar to this name of a plain object does nothing, and says so to nobody.
IsLost(pair) == pair.key = <<"__proto__">>

\* compileParameters: only stop may be given several times, and what is lost.
ParametersCompile(arguments) ==
    LET pairs == [i \in DOMAIN arguments |-> Pair(arguments[i])]
    IN /\ \A p \in ToSet(pairs) : p.valid /\ IsScalar(p.value)
       /\ \A i, k \in DOMAIN pairs : i # k /\ pairs[i].key = pairs[k].key
                                   => pairs[i].key = <<"stop">> \/ IsLost(pairs[i])

\* The role and the content of a message.
Message(argument) ==
    LET first == Len(Leading(argument)) + 1
        sep == Past(argument, NonSpace, first, Len(argument))
        rest == SubSeq(argument, sep + 1, Len(argument))
    IN [role |-> SubSeq(argument, first, sep - 1), content |-> TextArgument(rest).value]

\* compileMessages
MessagesCompile(arguments) ==
    \A argument \in ToSet(arguments) :
        LET message == Message(argument)
        IN HasValue(argument) /\ message.role \in {<<role>> : role \in Roles} /\ Trim(message.content) # <<>>

\* singleton() of the directives of which there is one, and compileLicense().
SingletonsCompile(nodes) == \A name \in Singleton : Cardinality(Named(nodes, name)) <= 1

\* compileModelfileForDeploy accepts the text.  DRAFT is refused as ADAPTER is, and is not
\* among what PARSER stands for here.
Compiles(raw) ==
    LET nodes == Nodes(raw)
        args == [name \in Known |-> Arguments(raw, nodes, name)]
    IN /\ ~HasErrors(raw, nodes) /\ ~HasOpaqueSyntax(nodes)
       /\ SingletonsCompile(nodes)
       /\ args["ADAPTER"] = <<>>
       /\ \A n \in ToSet(nodes) : n.kind = "directive" => n.editable \/ n.name = "MESSAGE"
       /\ IsBaseModel(args["FROM"][1])
       /\ \A text \in ToSet(args["SYSTEM"]) : Trim(TextArgument(text).value) # <<>>
       /\ ParametersCompile(args["PARAMETER"]) /\ MessagesCompile(args["MESSAGE"])

\* Of the directives of a name the first, if there is one.
Only(arguments) == IF arguments = <<>> THEN <<>> ELSE <<arguments[1]>>

\* The request for a text that compiles; a field that it leaves out is empty.
Payload(raw) ==
    LET nodes == Nodes(raw)
        args == [name \in Known |-> Arguments(raw, nodes, name)]
        pairs == SelectSeq([i \in DOMAIN args["PARAMETER"] |-> Pair(args["PARAMETER"][i])],
                           LAMBDA p : ~IsLost(p))
        only == [name \in Singleton |-> Only(args[name])]
    IN [from |-> [i \in DOMAIN only["FROM"] |-> Canonical(Trim(only["FROM"][i]))],
        parser |-> [i \in DOMAIN only["PARSER"] |-> Trim(only["PARSER"][i])],
        system |-> [i \in DOMAIN only["SYSTEM"] |-> TextArgument(only["SYSTEM"][i]).value],
        parameters |-> [i \in DOMAIN pairs |-> [key |-> pairs[i].key, value |-> pairs[i].value]],
        messages |-> [i \in DOMAIN args["MESSAGE"] |-> Message(args["MESSAGE"][i])]]

=============================================================================

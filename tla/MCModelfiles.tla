---------------------------- MODULE MCModelfiles ----------------------------
(***************************************************************************)
(* Instances of the library of Modelfiles, of which a behaviour follows    *)
(* one:                                                                    *)
(*   - library: requests of any client for two artifacts, an import of a   *)
(*     model of which two versions exist on the host, and records that     *)
(*     fail to be written;                                                 *)
(*   - panel: a tab that edits, and another client;                        *)
(*   - editor: the text of a draft, and every edit that the views offer.   *)
(***************************************************************************)
EXTENDS LocalModelfilesPanel, TLC

CONSTANTS m1, m2, r1, r2, r3, r4, i1

VARIABLES
    scene,                 \* the instance
    base, raw, edit, edits \* StructuredEditor

editVars == <<base, raw, edit, edits>>

\* The Modelfile that is generated for a digest names the digest.
GeneratedText(d) == d

Panel == INSTANCE LocalModelfilesPanel WITH
    RevisionId <- {r1, r2, r3}, Importer <- {}, AuditFails <- FALSE

Mark == "\"\"\""

\* Text in quotation marks that looks like a directive, and a parameter that no object keeps on
\* a last line without an ending; line endings of the other kind, a comment and opaque text; a
\* pair with blanks, a directive without an argument and a value that is not closed; and one
\* with a line twice, which compiles but for its second text.
Drafts == {
    <<"FROM", "sp", "x", "lf", "SYSTEM", "sp", Mark, "x", "lf", "PARSER", "sp", "x", Mark, "lf",
      "PARAMETER", "sp", "__proto__", "sp", "y">>,
    <<"#", "x", "crlf", "FROM", "sp", "x", "crlf", "SYSTEM", "sp", "x", "crlf", "y", "sp", "x", "crlf">>,
    <<"PARAMETER", "sp", "x", "sp", "sp", "y", "sp", "lf", "FROM", "lf",
      "MESSAGE", "sp", "user", "sp", Mark, "x">>,
    <<"FROM", "sp", "x", "lf", "PARAMETER", "sp", "stop", "sp", "x", "lf", "PARAMETER", "sp", "stop",
      "sp", "x", "lf", "SYSTEM", "sp", "x", "lf", "SYSTEM", "sp", "y", "lf">>}

Editor == INSTANCE StructuredEditor WITH
    Draft <- Drafts, Key <- {"x", "sp", "lf", Mark},
    ContextLines <- 1, MaxCells <- 25, MaxOutputLines <- 5, MaxEdits <- 2

NoEditor == base = None /\ raw = None /\ edit = None /\ edits = None

SceneInit ==
    /\ PanelInit
    /\ \/ scene \in {"library", "panel"} /\ NoEditor
       \/ scene = "editor" /\ Editor!Init

SceneNext ==
    /\ \/ scene = "library" /\ Next /\ UNCHANGED <<panelVars, editVars>>
       \/ scene = "panel" /\ Panel!PanelNext /\ UNCHANGED editVars
       \/ scene = "editor" /\ Editor!Next /\ UNCHANGED vars
    /\ UNCHANGED scene

SceneSpec == SceneInit /\ [][SceneNext]_<<vars, scene, editVars>>

Symmetry == Permutations({r1, r2, r3})

-----------------------------------------------------------------------------
(* Properties of the editor.                                               *)

\* The nodes of a parsed draft are the whole draft, each token of it once.
NodesCover == scene = "editor" => Editor!NodesCover

\* An edit of a directive that types no quotation mark leaves everything else what it is.
EditsAreLocal == [][scene = "editor" => Editor!LocalEdit]_editVars

\* A control shows what was typed into it.
TypedIsShown == [][scene = "editor" => Editor!EditShown]_editVars

\* Every directive of a Modelfile that compiles is in the request for Ollama, but for
\* parameters that are named __proto__.
NothingDropped == scene = "editor" => Editor!NothingDropped

\* The difference of two revisions, when all of it is shown, turns the one into the other.
DiffRebuilds == scene = "editor" => Editor!DiffRebuilds

\* It shows as few lines as changed as there can be.
DiffIsShortest == scene = "editor" => Editor!DiffIsShortest

\* A structured edit does what was typed and nothing else.
EditsAreFaithful == EditsAreLocal /\ TypedIsShown

\* Nothing of a text is lost on the way to the editor, to Ollama or to the comparison with
\* another, and the comparison shows no more changes than there are.
TextInvariant ==
    PanelTypeOK /\ NodesCover /\ NothingDropped /\ DiffRebuilds /\ DiffIsShortest

=============================================================================

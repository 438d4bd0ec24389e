------------------------ MODULE LocalModelfilesPanel ------------------------
(***************************************************************************)
(* The editor of local Modelfiles in one browser tab                       *)
(* (apps/web/src/LocalModelfilesPanel.tsx) together with the library on    *)
(* the server, which other clients use at the same time.                   *)
(*                                                                         *)
(* A call of one of the panel's functions makes one request after another. *)
(* A request takes effect on the server at one time and is answered at a   *)
(* later one; answers arrive in any order, or not at all.  The functions   *)
(* do not look at the selection when an answer arrives, and each of them   *)
(* enables the controls when it ends, whatever else is in progress: so     *)
(* does the list that is read after a save, before the save ends.          *)
(*                                                                         *)
(* The panel is thrown away, the draft with it, when a request is answered *)
(* with 401, and whenever a parent stops showing it or changes its key.    *)
(* What such a panel has sent may still be done by the server: it is then  *)
(* the request of another client.                                          *)
(***************************************************************************)
EXTENDS ModelfileLibrary

CONSTANTS
    MaxSaves, \* bound on what the tab stores
    MaxCalls  \* bound on the calls in progress at a time

ASSUME PanelAssumption == None \notin Modelfile /\ MaxSaves \in Nat /\ MaxCalls \in Nat

VARIABLES
    mounted,    \* is the panel shown?
    artifacts,  \* the artifacts in the list
    selectedId, \* the artifact that is highlighted in it, None without one
    selected,   \* what the editor shows: a revision as current, or None
    draft,      \* the text in the editor
    typed,      \* has the user changed it since it was loaded or stored?
    warned,     \* the notice that the server has a newer revision is shown
    calls,      \* the calls in progress
    busy,       \* setBusy: the controls are disabled
    saves       \* number of saves (bound)

editorVars == <<artifacts, selectedId, selected, draft, typed, warned>>
panelVars == <<mounted, editorVars, calls, busy, saves>>
vars == <<libraryVars, panelVars>>

\* loadList, loadSelected, createArtifact or appendRevision: the request that it waits for,
\* what it was called with and what the server has answered.
Call == [number : 1..MaxCalls,
         kind : {"list", "load", "create", "append"},
         phase : {"sent", "read", "stored", "conflict", "reread", "told", "listing", "listed",
                  "history"},
         modelfile : Modelfile \cup {None}, base : RevisionId \cup {None},
         text : Text \cup {None}, revision : RevisionId \cup {None}, found : SUBSET Modelfile]

Calling(kind, phase, m, b, t) ==
    [kind |-> kind, phase |-> phase, modelfile |-> m, base |-> b, text |-> t,
     revision |-> None, found |-> {}, number |-> 1]

Loading(m) == Calling("load", "sent", m, None, None)
Listing(m) == Calling("list", "listing", m, None, None)

\* One more call than those of cs is in progress.
Begins(cs, call) ==
    \E n \in 1..MaxCalls :
        /\ {c.number : c \in cs} \cap 1..n = 1..(n - 1)
        /\ calls' = cs \cup {[call EXCEPT !.number = n]}

\* A call waits for its next request.
Proceeds(c, d) == calls' = (calls \ {c}) \cup {d}

RowOf(id) == CHOOSE x \in revisions : x.id = id

NothingShown ==
    /\ artifacts' = {} /\ selectedId' = None /\ selected' = None
    /\ draft' = None /\ typed' = FALSE /\ warned' = FALSE

PanelInit ==
    /\ Init
    /\ mounted = FALSE
    /\ artifacts = {} /\ selectedId = None /\ selected = None
    /\ draft = None /\ typed = FALSE /\ warned = FALSE
    /\ calls = {} /\ busy = FALSE /\ saves = 0

-----------------------------------------------------------------------------
(* The panel comes and goes.                                               *)

\* The effect of the first rendering reads the list.
Mount ==
    /\ ~mounted /\ mounted' = TRUE
    /\ NothingShown
    /\ Begins({}, Listing(None)) /\ busy' = TRUE
    /\ UNCHANGED <<libraryVars, saves>>

Unmounted ==
    /\ mounted /\ mounted' = FALSE
    /\ NothingShown
    /\ calls' = {} /\ busy' = FALSE
    /\ UNCHANGED <<libraryVars, saves>>

\* handleError(): an answer of 401 signs the user out, and the dashboard goes.
SignedOut == calls # {} /\ Unmounted

\* The user turns to another surface or target or signs out, the status of the target tells
\* of another container, or the import of a raw Modelfile changes the key of the panel.
Leave == Unmounted

-----------------------------------------------------------------------------
(* Reading.                                                                *)

\* setSelectedId(); the effect that depends on it calls loadSelected().
SelectArtifact(m) ==
    /\ ~busy /\ m \in artifacts /\ selectedId # m
    /\ selectedId' = m
    /\ Begins(calls, Loading(m)) /\ busy' = TRUE
    /\ UNCHANGED <<libraryVars, mounted, artifacts, selected, draft, typed, warned, saves>>

\* The button above the list.
Refresh ==
    /\ mounted /\ ~busy
    /\ Begins(calls, Listing(selectedId)) /\ busy' = TRUE
    /\ UNCHANGED <<libraryVars, mounted, editorVars, saves>>

\* The server answers with the revision that is current when it reads: loadSelected(), and
\* appendRevision() after a conflict.
ServerReads(c) ==
    /\ \/ c.kind = "load" /\ c.phase = "sent"
          /\ Proceeds(c, [c EXCEPT !.phase = "read", !.revision = current[c.modelfile]])
       \/ c.phase = "conflict"
          /\ Proceeds(c, [c EXCEPT !.phase = "reread", !.revision = current[c.modelfile]])
    /\ UNCHANGED <<libraryVars, mounted, editorVars, busy, saves>>

\* The answer replaces what the editor shows, whatever that is by now.
Loaded(c) ==
    /\ c.phase = "read" /\ c.revision # None
    /\ calls' = calls \ {c}
    /\ selected' = c.revision /\ draft' = RowOf(c.revision).text
    /\ typed' = FALSE
    /\ busy' = FALSE
    /\ UNCHANGED <<libraryVars, mounted, artifacts, selectedId, warned, saves>>

\* The server answers with the artifacts that there are.
ServerLists(c) ==
    /\ c.phase = "listing"
    /\ Proceeds(c, [c EXCEPT !.phase = "listed", !.found = {m \in Modelfile : current[m] # None}])
    /\ UNCHANGED <<libraryVars, mounted, editorVars, busy, saves>>

\* What goes on after loadList(): createArtifact() loads the new artifact, appendRevision()
\* reads the history.
AfterList(c) ==
    {d \in {[Loading(c.modelfile) EXCEPT !.number = c.number]} : c.kind = "create"}
      \cup {d \in {[c EXCEPT !.phase = "history", !.found = {}]} : c.kind = "append"}

\* The artifact that was asked for, the one that is highlighted, or the first of the list.
Preferred(c) ==
    IF c.modelfile \in c.found THEN {c.modelfile}
    ELSE IF selectedId \in c.found THEN {selectedId}
    ELSE IF c.found = {} THEN {None} ELSE c.found

\* The list is shown; when another artifact is highlighted, the effect loads it.
Listed(c) ==
    /\ c.phase = "listed"
    /\ artifacts' = c.found
    /\ selectedId' \in Preferred(c)
    /\ LET rest == (calls \ {c}) \cup AfterList(c)
           loads == selectedId' \notin {selectedId, None} IN
         /\ IF loads THEN Begins(rest, Loading(selectedId')) ELSE calls' = rest
         /\ busy' = (loads \/ c.kind = "create")
    /\ selected' = IF selectedId' = None /\ selectedId # None THEN None ELSE selected
    /\ UNCHANGED <<libraryVars, mounted, draft, typed, warned, saves>>

\* loadList() fails, and keeps that to itself.
ListFails(c) ==
    /\ c.phase \in {"listing", "listed"}
    /\ calls' = (calls \ {c}) \cup AfterList(c)
    /\ busy' = (c.kind = "create")
    /\ UNCHANGED <<libraryVars, mounted, editorVars, saves>>

\* Any other request of a call fails or is refused, or its answer is lost.  What the server
\* did stays done; only a load takes anything from the editor, and never the draft.
CallFails(c) ==
    /\ c.phase \notin {"listing", "listed"}
    /\ calls' = calls \ {c} /\ busy' = FALSE
    /\ selected' = IF c.kind = "load" THEN None ELSE selected
    /\ UNCHANGED <<libraryVars, mounted, artifacts, selectedId, draft, typed, warned, saves>>

-----------------------------------------------------------------------------
(* Editing and saving.                                                     *)

\* The editor is there for an artifact of the list whose revision was loaded.
EditorShown == selected # None /\ selectedId # None

Type(t) ==
    /\ ~busy /\ EditorShown /\ t # draft
    /\ draft' = t /\ typed' = TRUE
    /\ UNCHANGED <<libraryVars, mounted, artifacts, selectedId, selected, warned, calls, busy, saves>>

\* The form for a new artifact is submitted.
SubmitArtifact(t) ==
    /\ mounted /\ ~busy
    /\ saves < MaxSaves /\ saves' = saves + 1
    /\ Begins(calls, Calling("create", "sent", None, None, t))
    /\ busy' = TRUE /\ warned' = FALSE
    /\ UNCHANGED <<libraryVars, mounted, artifacts, selectedId, selected, draft, typed>>

\* The form is submitted: the base is the revision that the editor shows as current.
SubmitRevision ==
    /\ ~busy /\ EditorShown
    /\ saves < MaxSaves /\ saves' = saves + 1
    /\ Begins(calls, Calling("append", "sent", RowOf(selected).modelfile, selected, draft))
    /\ busy' = TRUE /\ warned' = FALSE
    /\ UNCHANGED <<libraryVars, mounted, artifacts, selectedId, selected, draft, typed>>

\* The server creates the artifact.
ServerCreates(c, m, r) ==
    /\ c.kind = "create" /\ c.phase = "sent"
    /\ CreateManual(m, r, c.text)
    /\ Proceeds(c, [c EXCEPT !.phase = "stored", !.modelfile = m])
    /\ UNCHANGED <<mounted, editorVars, busy, saves>>

\* Mutant of ServerAppends: the server takes its own current revision for the base.
ServerAppendsOnTop(c, r) ==
    /\ c.kind = "append" /\ c.phase = "sent"
    /\ \E x \in revisions : x.modelfile = c.modelfile /\ Append(x, current[c.modelfile], r, c.text)
    /\ Proceeds(c, [c EXCEPT !.phase = "stored", !.revision = r])
    /\ UNCHANGED <<mounted, editorVars, busy, saves>>

\* The server appends the revision.
ServerAppends(c, r) ==
    /\ c.kind = "append" /\ c.phase = "sent"
    /\ \E x \in revisions : x.modelfile = c.modelfile /\ Append(x, c.base, r, c.text)
    /\ Proceeds(c, [c EXCEPT !.phase = "stored", !.revision = r])
    /\ UNCHANGED <<mounted, editorVars, busy, saves>>

\* MODEFILE_REVISION_CONFLICT: the artifact has moved on.
ServerRefuses(c) ==
    /\ c.kind = "append" /\ c.phase = "sent" /\ current[c.modelfile] # c.base
    /\ Proceeds(c, [c EXCEPT !.phase = "conflict"])
    /\ UNCHANGED <<libraryVars, mounted, editorVars, busy, saves>>

\* The artifact is there: the list is read, and the artifact loaded.
Created(c) ==
    /\ c.kind = "create" /\ c.phase = "stored"
    /\ Proceeds(c, [c EXCEPT !.phase = "listing"])
    /\ busy' = TRUE /\ warned' = FALSE
    /\ UNCHANGED <<libraryVars, mounted, artifacts, selectedId, selected, draft, typed, saves>>

\* The new revision is shown and its text is the draft, whatever was typed since; then the
\* list is read, and the history.
Saved(c) ==
    /\ c.kind = "append" /\ c.phase = "stored"
    /\ Proceeds(c, [c EXCEPT !.phase = "listing"])
    /\ selected' = c.revision
    /\ draft' = c.text /\ typed' = FALSE
    /\ busy' = TRUE /\ warned' = FALSE
    /\ UNCHANGED <<libraryVars, mounted, artifacts, selectedId, saves>>

HistoryRead(c) ==
    /\ c.phase = "history"
    /\ calls' = calls \ {c} /\ busy' = FALSE
    /\ UNCHANGED <<libraryVars, mounted, editorVars, saves>>

\* After a conflict the current revision becomes the base of the draft, which stays ...
Rebased(c) ==
    /\ c.phase = "reread" /\ c.revision # None
    /\ Proceeds(c, [c EXCEPT !.phase = "told"])
    /\ selected' = c.revision
    /\ UNCHANGED <<libraryVars, mounted, artifacts, selectedId, draft, typed, warned, busy, saves>>

\* ... and the user is told so, once the history was read.
Warned(c) ==
    /\ c.phase = "told"
    /\ calls' = calls \ {c} /\ busy' = FALSE
    /\ warned' = TRUE
    /\ UNCHANGED <<libraryVars, mounted, artifacts, selectedId, selected, draft, typed, saves>>

\* Another client, or a panel that is gone, creates an artifact or appends a revision.
OtherCreates(m, r, t) == CreateManual(m, r, t) /\ UNCHANGED panelVars
OtherAppends(x, r, t) == Append(x, x.id, r, t) /\ UNCHANGED panelVars

PanelNext ==
    \/ Mount \/ SignedOut \/ Leave
    \/ \E m \in Modelfile : SelectArtifact(m)
    \/ Refresh
    \/ \E t \in Text : Type(t) \/ SubmitArtifact(t)
    \/ SubmitRevision
    \/ \E c \in calls :
          \/ ServerReads(c) \/ Loaded(c) \/ ServerLists(c) \/ Listed(c)
          \/ ListFails(c) \/ CallFails(c)
          \/ ServerRefuses(c) \/ Created(c) \/ Saved(c) \/ HistoryRead(c)
          \/ Rebased(c) \/ Warned(c)
          \/ \E r \in RevisionId :
                ServerAppends(c, r) \/ \E m \in Modelfile : ServerCreates(c, m, r)
    \/ \E m \in Modelfile, r \in RevisionId, t \in Text : OtherCreates(m, r, t)
    \/ \E x \in revisions, r \in RevisionId, t \in Text : OtherAppends(x, r, t)

PanelSpec == PanelInit /\ [][PanelNext]_vars

-----------------------------------------------------------------------------
(* Properties.                                                             *)

\* The type of every variable of the panel; the editor shows rows that exist.
PanelTypeOK ==
    /\ {mounted, typed, warned, busy} \subseteq BOOLEAN
    /\ artifacts \subseteq {m \in Modelfile : current[m] # None}
    /\ selectedId \in artifacts \cup {None}
    /\ selected \in {x.id : x \in revisions} \cup {None}
    /\ draft \in Text \cup {None}
    /\ calls \subseteq Call
    /\ selected # None => draft # None
    /\ ~mounted => calls = {} /\ artifacts = {} /\ selected = None /\ draft = None /\ ~typed

\* No lost update: a revision that the tab stores replaces exactly the revision that the
\* editor showed when the user submitted it, whatever others, or an earlier save of the same
\* tab, stored in the meantime.
NoLostUpdate ==
    [][\A c \in calls, d \in calls' :
          /\ c.kind = "append" /\ c.phase = "sent"
          /\ d.number = c.number /\ d.phase = "stored"
          => /\ current[c.modelfile] = c.base
             /\ \E x \in revisions' : x.id = d.revision /\ x.parent = c.base]_vars

\* As long as the panel stays, the editor gives up what was typed only for a revision that
\* was loaded or for one that it has stored: a save that was refused or that failed leaves it
\* there.  A panel that goes takes it along without asking.
DraftIsKept ==
    [][mounted' /\ typed /\ ~typed' =>
          \E c \in calls :
              /\ \/ c.phase = "read"
                 \/ c.kind = "append" /\ c.phase = "stored"
              /\ c.revision # None /\ draft' = RowOf(c.revision).text]_vars

\* No revision is made on another base than the one that was shown, and no answer but these
\* takes the place of a draft.
DraftsAreSafe == NoLostUpdate /\ DraftIsKept

=============================================================================

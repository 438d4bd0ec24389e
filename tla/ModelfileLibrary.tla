-------------------------- MODULE ModelfileLibrary --------------------------
(***************************************************************************)
(* The library of local Modelfiles (apps/api/src/modelfile-library.ts and  *)
(* modelfile-portability.ts over packages/db/src/modelfiles.ts): artifacts *)
(* with a current revision, and revisions that are only ever added.        *)
(*                                                                         *)
(* A handler runs to its end before the next one, except the import of an  *)
(* installed model, which reads the host twice.  Each handler commits the  *)
(* revision and then, in a statement of its own, its audit record.         *)
(***************************************************************************)
EXTENDS Naturals, FiniteSets

CONSTANTS
    Modelfile,   \* identities of artifacts (UUIDs)
    RevisionId,  \* identities of revisions (UUIDs)
    Text,        \* raw sources
    Digest,      \* digests that the model on the host can have
    Importer,    \* import requests in progress
    None,        \* SQL NULL
    AuditFails,  \* can an audit record fail, or be lost in a crash?
    Generated(_) \* the Modelfile that Ollama generates for a digest

ASSUME ModelfileLibraryAssumption ==
    /\ None \notin RevisionId \cup Digest \cup Text
    /\ AuditFails \in BOOLEAN
    /\ \A d \in Digest : Generated(d) \in Text

VARIABLES
    revisions,  \* the rows of modelfile_revisions
    current,    \* modelfiles.current_revision_id, None before the artifact exists
    audited,    \* revisions named by an audit record
    installed,  \* the host: digest of the model that is installed
    imports     \* an import in progress: the digest that /api/tags reported

libraryVars == <<revisions, current, audited, installed, imports>>

Revision == [id : RevisionId, modelfile : Modelfile, number : Nat,
             parent : RevisionId \cup {None}, text : Text, digest : Digest \cup {None}]

-----------------------------------------------------------------------------
(* The repository.                                                         *)

RevisionsOf(m) == {x \in revisions : x.modelfile = m}

IsCurrent(x) == x.id = current[x.modelfile]

\* randomUUID(): an identity that no row has.
Fresh(r) == \A x \in revisions : x.id # r

\* createWithInitialRevision: artifact and revision 1 in one transaction.
CreateWithInitialRevision(m, r, t, d) ==
    /\ current[m] = None /\ Fresh(r)
    /\ revisions' = revisions \cup {[id |-> r, modelfile |-> m, number |-> 1,
                                     parent |-> None, text |-> t, digest |-> d]}
    /\ current' = [current EXCEPT ![m] = r]

\* Mutant of AppendRevision: the pointer of the artifact stays where it was.
AppendRevisionUnpointed(x, expected, r, t) ==
    /\ x \in revisions /\ IsCurrent(x) /\ x.id = expected /\ Fresh(r)
    /\ revisions' = revisions \cup {[id |-> r, modelfile |-> x.modelfile,
                                     number |-> x.number + 1, parent |-> x.id,
                                     text |-> t, digest |-> None]}
    /\ UNCHANGED current

\* appendRevision: revision N+1 on top of the current one, if that is the one expected.
AppendRevision(x, expected, r, t) ==
    /\ x \in revisions /\ IsCurrent(x) /\ x.id = expected /\ Fresh(r)
    /\ revisions' = revisions \cup {[id |-> r, modelfile |-> x.modelfile,
                                     number |-> x.number + 1, parent |-> x.id,
                                     text |-> t, digest |-> None]}
    /\ current' = [current EXCEPT ![x.modelfile] = r]

\* audit.record() after the commit; it can fail, or the process can die before it.
AuditAfterCommit(r) ==
    \/ audited' = audited \cup {r}
    \/ AuditFails /\ UNCHANGED audited

-----------------------------------------------------------------------------
(* The handlers.                                                           *)

Init ==
    /\ revisions = {}
    /\ current = [m \in Modelfile |-> None]
    /\ audited = {}
    /\ installed \in Digest
    /\ imports = [i \in Importer |-> None]

CreateManual(m, r, t) ==
    /\ CreateWithInitialRevision(m, r, t, None)
    /\ AuditAfterCommit(r)
    /\ UNCHANGED <<installed, imports>>

\* A revision, current or not, becomes revision 1 of another artifact.
Clone(source, m, r) ==
    /\ source \in revisions
    /\ CreateWithInitialRevision(m, r, source.text, None)
    /\ AuditAfterCommit(r)
    /\ UNCHANGED <<installed, imports>>

Append(x, expected, r, t) ==
    /\ AppendRevision(x, expected, r, t)
    /\ AuditAfterCommit(r)
    /\ UNCHANGED <<installed, imports>>

\* importInstalled awaits the list of the models, and takes the digest from it ...
ImportTags(i) ==
    /\ imports[i] = None
    /\ imports' = [imports EXCEPT ![i] = installed]
    /\ UNCHANGED <<revisions, current, audited, installed>>

\* Mutant of ImportShow: the artifact may exist already.
ImportShowOnTop(i, m, r) ==
    /\ imports[i] # None /\ Fresh(r)
    /\ revisions' = revisions \cup {[id |-> r, modelfile |-> m, number |-> 1,
                         parent |-> None, text |-> Generated(installed), digest |-> imports[i]]}
    /\ current' = [current EXCEPT ![m] = r]
    /\ AuditAfterCommit(r)
    /\ imports' = [imports EXCEPT ![i] = None]
    /\ UNCHANGED installed

\* ... then the details of the model, and takes the text from them.
ImportShow(i, m, r) ==
    /\ imports[i] # None
    /\ CreateWithInitialRevision(m, r, Generated(installed), imports[i])
    /\ AuditAfterCommit(r)
    /\ imports' = [imports EXCEPT ![i] = None]
    /\ UNCHANGED installed

\* A remote call fails, or the API restarts.
ImportFails(i) ==
    /\ imports[i] # None
    /\ imports' = [imports EXCEPT ![i] = None]
    /\ UNCHANGED <<revisions, current, audited, installed>>

\* The model is replaced on the host.
Reinstall ==
    /\ installed' \in Digest \ {installed}
    /\ UNCHANGED <<revisions, current, audited, imports>>

Next ==
    \/ \E m \in Modelfile, r \in RevisionId, t \in Text : CreateManual(m, r, t)
    \/ \E source \in revisions, m \in Modelfile, r \in RevisionId : Clone(source, m, r)
    \/ \E x \in revisions, expected, r \in RevisionId, t \in Text : Append(x, expected, r, t)
    \/ \E i \in Importer : \/ ImportTags(i) \/ ImportFails(i)
                           \/ \E m \in Modelfile, r \in RevisionId : ImportShow(i, m, r)
    \/ Reinstall

Spec == Init /\ [][Next]_libraryVars

-----------------------------------------------------------------------------
(* Properties.                                                             *)

\* The type of every variable.
TypeOK ==
    /\ revisions \subseteq Revision
    /\ current \in [Modelfile -> RevisionId \cup {None}]
    /\ audited \subseteq RevisionId
    /\ installed \in Digest
    /\ imports \in [Importer -> Digest \cup {None}]

\* The revisions of an artifact are numbered without a gap or a repetition, and each
\* one after the first has the previous one as its parent.
HistoryIsLinear ==
    \A x \in revisions :
        /\ x.number > 0
        /\ \A y \in RevisionsOf(x.modelfile) : x.number = y.number => x = y
        /\ IF x.number = 1 THEN x.parent = None
           ELSE \E y \in RevisionsOf(x.modelfile) :
                    y.id = x.parent /\ y.number + 1 = x.number

\* The pointer of an artifact names its newest revision; without one there is none.
CurrentIsNewest ==
    \A m \in Modelfile :
        IF current[m] = None THEN RevisionsOf(m) = {}
        ELSE \E x \in RevisionsOf(m) :
                 x.id = current[m] /\ \A y \in RevisionsOf(m) : y.number <= x.number

\* History only grows: the pointer of an artifact moves from a revision only to a new one
\* that was made from it, and no row is changed or removed.
HistoryOnlyGrows ==
    [][/\ revisions \subseteq revisions'
       /\ \A m \in Modelfile : current'[m] # current[m] =>
              \E x \in revisions' \ revisions : x.id = current'[m] /\ x.parent = current[m]]_libraryVars

\* An audit record names a revision that exists: it is written after the commit.
AuditNamesRevisions == audited \subseteq {x.id : x \in revisions}

\* The history of every artifact is one line that its pointer names the end of, and what is
\* on record as done was done.
HistoryInvariant == TypeOK /\ HistoryIsLinear /\ CurrentIsNewest /\ AuditNamesRevisions

=============================================================================

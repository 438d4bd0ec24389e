----------------------- MODULE ModelfileLibraryProofs -----------------------
(***************************************************************************)
(* Proofs about ModelfileLibrary: the history of every artifact is linear  *)
(* and its pointer names the newest revision, for any number of artifacts, *)
(* revisions, importers and models; and an editor on the library replaces  *)
(* no revision that it did not show, and no draft by anything but what was *)
(* loaded or stored, for any number of artifacts, revisions, saves and     *)
(* calls in progress.                                                      *)
(***************************************************************************)
EXTENDS LocalModelfilesPanel, TLAPS

\* Two rows of modelfile_revisions are never confused: id is the primary key.
IdentitiesAreUnique == \A x, y \in revisions : x.id = y.id => x = y

\* What every step preserves.
IInv == TypeOK /\ IdentitiesAreUnique /\ HistoryIsLinear /\ CurrentIsNewest

\* What the two ways to add a revision have in common.
Adds(x) ==
    /\ x \in Revision
    /\ \A y \in revisions : y.id # x.id
    /\ revisions' = revisions \cup {x}
    /\ current' = [current EXCEPT ![x.modelfile] = x.id]

\* Revision 1 of an artifact that does not exist.
First(x) == current[x.modelfile] = None /\ x.number = 1 /\ x.parent = None

\* Revision N+1 of an artifact on top of its current revision.
Successor(x) ==
    \E y \in revisions : /\ y.modelfile = x.modelfile /\ y.id = current[y.modelfile]
                         /\ x.number = y.number + 1 /\ x.parent = y.id

\* createWithInitialRevision adds a first revision.
LEMMA CreateAdds ==
    ASSUME TypeOK, NEW m \in Modelfile, NEW r \in RevisionId, NEW t \in Text,
           NEW d \in Digest \cup {None}, CreateWithInitialRevision(m, r, t, d)
    PROVE  \E x \in Revision : Adds(x) /\ First(x)
<1> DEFINE x == [id |-> r, modelfile |-> m, number |-> 1, parent |-> None,
                 text |-> t, digest |-> d]
<1>1. x \in Revision
  BY DEF Revision
<1>2. Adds(x) /\ First(x)
  BY <1>1 DEF CreateWithInitialRevision, Fresh, Adds, First
<1> QED
  BY <1>1, <1>2

\* appendRevision adds a successor of the current revision.
LEMMA AppendAdds ==
    ASSUME TypeOK, NEW y \in revisions, NEW expected, NEW r \in RevisionId, NEW t \in Text,
           AppendRevision(y, expected, r, t)
    PROVE  \E x \in Revision : Adds(x) /\ Successor(x)
<1> DEFINE x == [id |-> r, modelfile |-> y.modelfile, number |-> y.number + 1,
                 parent |-> y.id, text |-> t, digest |-> None]
<1>1. y \in Revision
  BY DEF TypeOK
<1>2. x \in Revision
  BY <1>1 DEF Revision
<1>3. Adds(x)
  BY <1>2 DEF AppendRevision, Fresh, Adds
<1>4. Successor(x)
  BY DEF AppendRevision, IsCurrent, Successor
<1> QED
  BY <1>2, <1>3, <1>4

\* Every step of the library adds a first revision or a successor, or adds nothing.
LEMMA StepAdds ==
    ASSUME TypeOK, [Next]_libraryVars
    PROVE  \/ \E x \in Revision : Adds(x) /\ (First(x) \/ Successor(x))
           \/ UNCHANGED <<revisions, current>>
<1>1. ASSUME NEW m \in Modelfile, NEW r \in RevisionId, NEW t \in Text, CreateManual(m, r, t)
      PROVE  \E x \in Revision : Adds(x) /\ First(x)
  BY <1>1, CreateAdds DEF CreateManual
<1>2. ASSUME NEW s \in revisions, NEW m \in Modelfile, NEW r \in RevisionId, Clone(s, m, r)
      PROVE  \E x \in Revision : Adds(x) /\ First(x)
  <2>1. s.text \in Text
    BY DEF TypeOK, Revision
  <2> QED
    BY <1>2, <2>1, CreateAdds DEF Clone
<1>3. ASSUME NEW y \in revisions, NEW expected \in RevisionId, NEW r \in RevisionId,
             NEW t \in Text, Append(y, expected, r, t)
      PROVE  \E x \in Revision : Adds(x) /\ Successor(x)
  BY <1>3, AppendAdds DEF Append
<1>4. ASSUME NEW i \in Importer, NEW m \in Modelfile, NEW r \in RevisionId, ImportShow(i, m, r)
      PROVE  \E x \in Revision : Adds(x) /\ First(x)
  <2>1. Generated(installed) \in Text /\ imports[i] \in Digest \cup {None}
    BY ModelfileLibraryAssumption DEF TypeOK
  <2> QED
    BY <1>4, <2>1, CreateAdds DEF ImportShow
<1>5. CASE \E i \in Importer : ImportTags(i) \/ ImportFails(i)
  BY <1>5 DEF ImportTags, ImportFails
<1>6. CASE Reinstall
  BY <1>6 DEF Reinstall
<1>7. CASE UNCHANGED libraryVars
  BY <1>7 DEF libraryVars
<1> QED
  BY <1>1, <1>2, <1>3, <1>4, <1>5, <1>6, <1>7 DEF Next

\* Types, for every step.
LEMMA TypeStep == TypeOK /\ [Next]_libraryVars => TypeOK'
<1> SUFFICES ASSUME TypeOK, [Next]_libraryVars PROVE TypeOK'
  OBVIOUS
<1>1. revisions' \subseteq Revision /\ current' \in [Modelfile -> RevisionId \cup {None}]
  <2>1. CASE UNCHANGED <<revisions, current>>
    BY <2>1 DEF TypeOK
  <2>2. ASSUME NEW x \in Revision, Adds(x)
        PROVE  revisions' \subseteq Revision /\ current' \in [Modelfile -> RevisionId \cup {None}]
    BY <2>2 DEF Adds, TypeOK, Revision
  <2> QED
    BY <2>1, <2>2, StepAdds
<1>2. audited' \subseteq RevisionId /\ installed' \in Digest
  BY DEF TypeOK, Next, libraryVars, CreateManual, Clone, Append, ImportTags, ImportShow,
         ImportFails, Reinstall, AuditAfterCommit
<1>3. imports' \in [Importer -> Digest \cup {None}]
  BY DEF TypeOK, Next, libraryVars, CreateManual, Clone, Append, ImportTags, ImportShow,
         ImportFails, Reinstall
<1> QED
  BY <1>1, <1>2, <1>3 DEF TypeOK

\* The three parts of the history are preserved together: the newest revision is known
\* by its identity, and its number is one that no other row of the artifact has.
LEMMA HistoryStep ==
    ASSUME IInv, NEW x \in Revision, Adds(x), First(x) \/ Successor(x)
    PROVE  (IdentitiesAreUnique /\ HistoryIsLinear /\ CurrentIsNewest)'
<1> USE DEF IInv
<1>1. x.modelfile \in Modelfile /\ x.id \in RevisionId /\ x.number \in Nat /\ revisions \subseteq Revision
  BY DEF Revision, TypeOK
<1>2. \A y \in revisions : y.modelfile \in Modelfile /\ y.number \in Nat /\ y.id \in RevisionId
  BY DEF Revision, TypeOK
<1>3. \A y \in RevisionsOf(x.modelfile) : y.number < x.number
  <2>1. CASE First(x)
    BY <1>1, <2>1 DEF First, CurrentIsNewest
  <2>2. CASE Successor(x)
    <3>1. PICK y \in revisions : /\ y.modelfile = x.modelfile /\ y.id = current[y.modelfile]
                                 /\ x.number = y.number + 1 /\ x.parent = y.id
      BY <2>2 DEF Successor
    <3>2. current[x.modelfile] # None
      BY <1>2, <3>1, ModelfileLibraryAssumption
    <3>3. PICK z \in RevisionsOf(x.modelfile) :
              z.id = current[x.modelfile]
              /\ \A w \in RevisionsOf(x.modelfile) : w.number <= z.number
      BY <1>1, <3>2 DEF CurrentIsNewest
    <3>4. z = y
      BY <3>1, <3>3 DEF IdentitiesAreUnique, RevisionsOf
    <3> QED
      BY <1>1, <1>2, <3>1, <3>3, <3>4 DEF RevisionsOf
  <2> QED
    BY <2>1, <2>2
<1>4. IdentitiesAreUnique'
  BY DEF IdentitiesAreUnique, Adds
<1>5. HistoryIsLinear'
  <2>1. ASSUME NEW y \in revisions
        PROVE  /\ y.number > 0
               /\ \A z \in RevisionsOf(y.modelfile)' : y.number = z.number => y = z
               /\ IF y.number = 1 THEN y.parent = None
                  ELSE \E z \in RevisionsOf(y.modelfile)' :
                           z.id = y.parent /\ z.number + 1 = y.number
    BY <1>1, <1>2, <1>3, <2>1 DEF HistoryIsLinear, RevisionsOf, Adds
  <2>2. /\ x.number > 0
        /\ \A z \in RevisionsOf(x.modelfile)' : x.number = z.number => x = z
    <3>1. x.number > 0
      BY <1>1, <1>2 DEF First, Successor
    <3> QED
      BY <1>1, <1>2, <1>3, <3>1 DEF RevisionsOf, Adds
  <2>3. IF x.number = 1 THEN x.parent = None
        ELSE \E z \in RevisionsOf(x.modelfile)' : z.id = x.parent /\ z.number + 1 = x.number
    <3>1. CASE First(x)
      BY <3>1 DEF First
    <3>2. CASE Successor(x)
      <4>1. PICK y \in revisions : /\ y.modelfile = x.modelfile
                                   /\ x.number = y.number + 1 /\ x.parent = y.id
        BY <3>2 DEF Successor
      <4>2. y.number > 0
        BY DEF HistoryIsLinear
      <4> QED
        BY <1>2, <4>1, <4>2 DEF RevisionsOf, Adds
    <3> QED
      BY <3>1, <3>2
  <2> QED
    BY <2>1, <2>2, <2>3 DEF HistoryIsLinear, Adds
<1>6. CurrentIsNewest'
  <2> SUFFICES ASSUME NEW m \in Modelfile
               PROVE  IF current'[m] = None THEN RevisionsOf(m)' = {}
                      ELSE \E y \in RevisionsOf(m)' :
                               /\ y.id = current'[m]
                               /\ \A z \in RevisionsOf(m)' : z.number <= y.number
    BY DEF CurrentIsNewest
  <2>1. CASE m = x.modelfile
    <3>1. current'[m] = x.id /\ x.id # None
      BY <1>1, <2>1, ModelfileLibraryAssumption DEF Adds, TypeOK
    <3>2. x \in RevisionsOf(m)' /\ \A z \in RevisionsOf(m)' : z.number <= x.number
      BY <1>1, <1>2, <1>3, <2>1 DEF RevisionsOf, Adds
    <3> QED
      BY <3>1, <3>2
  <2>2. CASE m # x.modelfile
    <3>1. current'[m] = current[m] /\ RevisionsOf(m)' = RevisionsOf(m)
      BY <1>1, <2>2 DEF Adds, TypeOK, RevisionsOf
    <3> QED
      BY <3>1 DEF CurrentIsNewest
  <2> QED
    BY <2>1, <2>2
<1> QED
  BY <1>4, <1>5, <1>6

LEMMA Initially == Init => IInv
<1> SUFFICES ASSUME Init PROVE IInv
  OBVIOUS
<1>1. TypeOK
  BY DEF Init, TypeOK
<1> QED
  BY <1>1 DEF Init, IInv, IdentitiesAreUnique, HistoryIsLinear, CurrentIsNewest, RevisionsOf

LEMMA Inductive == IInv /\ [Next]_libraryVars => IInv'
<1> SUFFICES ASSUME IInv, [Next]_libraryVars PROVE IInv'
  OBVIOUS
<1>1. TypeOK'
  BY TypeStep DEF IInv
<1>2. CASE UNCHANGED <<revisions, current>>
  BY <1>1, <1>2 DEF IInv, IdentitiesAreUnique, HistoryIsLinear, CurrentIsNewest, RevisionsOf
<1>3. ASSUME NEW x \in Revision, Adds(x), First(x) \/ Successor(x)
      PROVE  IInv'
  BY <1>1, <1>3, HistoryStep DEF IInv
<1> QED
  BY <1>2, <1>3, StepAdds DEF IInv

LEMMA Invariance == Spec => []IInv
BY Initially, Inductive, PTL DEF Spec

\* The variables of the library keep their types.
THEOREM LibraryTypeCorrect == Spec => []TypeOK
BY Invariance, PTL DEF IInv

\* The revisions of every artifact are numbered without a gap and each has its
\* predecessor as its parent.
THEOREM HistoryLinear == Spec => []HistoryIsLinear
BY Invariance, PTL DEF IInv

\* The pointer of every artifact names its newest revision.
THEOREM CurrentNewest == Spec => []CurrentIsNewest
BY Invariance, PTL DEF IInv

\* An audit record names a revision that exists, whatever fails before or after it: no
\* handler writes one before its commit, and no row is removed.
THEOREM AuditTruthful == Spec => []AuditNamesRevisions
<1>1. Init => AuditNamesRevisions
  BY DEF Init, AuditNamesRevisions
<1>2. AuditNamesRevisions /\ [Next]_libraryVars => AuditNamesRevisions'
  <2> SUFFICES ASSUME AuditNamesRevisions, [Next]_libraryVars PROVE AuditNamesRevisions'
    OBVIOUS
  <2>1. ASSUME NEW m \in Modelfile, NEW r, NEW t, NEW d,
               CreateWithInitialRevision(m, r, t, d), AuditAfterCommit(r)
        PROVE  AuditNamesRevisions'
    BY <2>1 DEF CreateWithInitialRevision, AuditAfterCommit, AuditNamesRevisions
  <2>2. ASSUME NEW x, NEW expected, NEW r \in RevisionId, NEW t \in Text,
               AppendRevision(x, expected, r, t), AuditAfterCommit(r)
        PROVE  AuditNamesRevisions'
    BY <2>2 DEF AppendRevision, AuditAfterCommit, AuditNamesRevisions
  <2>3. CASE UNCHANGED <<revisions, audited>>
    BY <2>3 DEF AuditNamesRevisions
  <2> QED
    BY <2>1, <2>2, <2>3 DEF Next, libraryVars, CreateManual, Clone, Append, ImportTags,
       ImportShow, ImportFails, Reinstall
<1> QED
  BY <1>1, <1>2, PTL DEF Spec

\* The history of every artifact is one line that its pointer names the end of, and what is
\* on record as done was done.
THEOREM HistoryInvariantHolds == Spec => []HistoryInvariant
BY LibraryTypeCorrect, HistoryLinear, CurrentNewest, AuditTruthful, PTL DEF HistoryInvariant

\* Rows are only added, and a pointer moves only to a revision made from the one it named.
THEOREM HistoryGrows == Spec => HistoryOnlyGrows
<1> DEFINE Grows ==
        /\ revisions \subseteq revisions'
        /\ \A m \in Modelfile : current'[m] # current[m] =>
               \E x \in revisions' \ revisions : x.id = current'[m] /\ x.parent = current[m]
<1>1. IInv /\ [Next]_libraryVars => Grows
  <2> SUFFICES ASSUME IInv, [Next]_libraryVars PROVE Grows
    OBVIOUS
  <2>1. CASE UNCHANGED <<revisions, current>>
    BY <2>1
  <2>2. ASSUME NEW x \in Revision, Adds(x), First(x) \/ Successor(x)
        PROVE  Grows
    <3>1. revisions \subseteq revisions' /\ x \in revisions' \ revisions
      BY <2>2 DEF Adds
    <3>2. x.parent = current[x.modelfile]
      BY <2>2 DEF First, Successor
    <3>3. ASSUME NEW m \in Modelfile, current'[m] # current[m]
          PROVE  x.modelfile = m /\ x.id = current'[m]
      BY <2>2, <3>3 DEF Adds, IInv, TypeOK
    <3> QED
      BY <3>1, <3>2, <3>3
  <2> QED
    BY <2>1, <2>2, StepAdds DEF IInv
<1> QED
  BY <1>1, Invariance, PTL DEF Spec, HistoryOnlyGrows

-----------------------------------------------------------------------------
(* The editor.                                                             *)

\* No two calls in progress are confused.
NumbersOK == \A c, d \in calls : c.number = d.number => c = d

\* What a call was made with and what it was answered: a save has a draft, and what is said
\* to be stored is stored.
CallOK(c) ==
    /\ c.kind = "append" => c.base \in RevisionId /\ c.text \in Text /\ draft # None
    /\ c.kind = "create" => c.text \in Text
    /\ c.kind \in {"load", "append"} => c.modelfile \in Modelfile
    /\ c.kind = "create" /\ c.phase # "sent" => c.modelfile \in Modelfile
    /\ c.phase \in {"conflict", "reread", "told", "history"} => c.kind = "append"
    /\ c.found \subseteq {m \in Modelfile : current[m] # None}
    /\ c.revision # None => \E x \in revisions : x.id = c.revision
    /\ c.kind = "append" /\ c.phase = "stored" =>
           \E x \in revisions : x.id = c.revision /\ x.text = c.text

CallsOK == \A c \in calls : CallOK(c)

\* What every step of the editor preserves.
PanelInv == IInv /\ PanelTypeOK /\ NumbersOK /\ CallsOK

\* What a step of the editor does to the library is a step of the library: the server knows
\* nothing of editors.
LEMMA EditorStepsLibrary == PanelInv /\ [PanelNext]_vars => [Next]_libraryVars
<1> SUFFICES ASSUME PanelInv, [PanelNext]_vars PROVE [Next]_libraryVars
  OBVIOUS
<1>1. ASSUME NEW c \in calls, NEW m \in Modelfile, NEW r \in RevisionId, ServerCreates(c, m, r)
      PROVE  Next
  <2>1. c.text \in Text
    BY <1>1 DEF PanelInv, CallsOK, CallOK, ServerCreates
  <2> QED
    BY <1>1, <2>1 DEF ServerCreates, Next
<1>2. ASSUME NEW c \in calls, NEW r \in RevisionId, ServerAppends(c, r)
      PROVE  Next
  <2>1. c.text \in Text /\ c.base \in RevisionId
    BY <1>2 DEF PanelInv, CallsOK, CallOK, ServerAppends
  <2>2. PICK x \in revisions : Append(x, c.base, r, c.text)
    BY <1>2 DEF ServerAppends
  <2> QED
    BY <2>1, <2>2 DEF Next
<1>3. ASSUME NEW x \in revisions, NEW r \in RevisionId, NEW t \in Text, OtherAppends(x, r, t)
      PROVE  Next
  <2>1. x.id \in RevisionId
    BY DEF PanelInv, IInv, TypeOK, Revision
  <2> QED
    BY <1>3, <2>1 DEF OtherAppends, Next
<1>4. ASSUME NEW m \in Modelfile, NEW r \in RevisionId, NEW t \in Text, OtherCreates(m, r, t)
      PROVE  Next
  BY <1>4 DEF OtherCreates, Next
<1>5. CASE UNCHANGED libraryVars
  BY <1>5
<1> QED
  BY <1>1, <1>2, <1>3, <1>4, <1>5 DEF PanelNext, vars, Mount, SignedOut, Leave, Unmounted,
     SelectArtifact, Refresh, Type, SubmitArtifact, SubmitRevision, ServerReads, Loaded,
     ServerLists, Listed, ListFails, CallFails, ServerRefuses, Created, Saved, HistoryRead,
     Rebased, Warned

\* The row that an identity names is one row, and stays that row; an artifact stays too.
LEMMA RowStays ==
    ASSUME PanelInv, [PanelNext]_vars, NEW x \in revisions
    PROVE  /\ x \in revisions' /\ RowOf(x.id) = x
           /\ x.id \in RevisionId /\ x.text \in Text /\ x.modelfile \in Modelfile
           /\ x.id # None /\ x.text # None
<1>1. revisions \subseteq revisions'
  BY EditorStepsLibrary, StepAdds DEF PanelInv, IInv, Adds
<1>2. RowOf(x.id) = x
  BY DEF RowOf, PanelInv, IInv, IdentitiesAreUnique
<1> QED
  BY <1>1, <1>2, ModelfileLibraryAssumption DEF PanelInv, IInv, TypeOK, Revision

LEMMA ArtifactStays ==
    ASSUME PanelInv, [PanelNext]_vars, NEW m \in Modelfile, current[m] # None
    PROVE  current'[m] # None
<1>1. CASE UNCHANGED <<revisions, current>>
  BY <1>1
<1>2. ASSUME NEW x \in Revision, Adds(x) PROVE current'[m] # None
  <2>1. x.id # None
    BY ModelfileLibraryAssumption DEF Revision
  <2> QED
    BY <1>2, <2>1 DEF Adds, PanelInv, IInv, TypeOK
<1> QED
  BY <1>1, <1>2, EditorStepsLibrary, StepAdds DEF PanelInv, IInv

\* The pointer of an artifact names a row.
LEMMA CurrentIsRow ==
    ASSUME IInv, NEW m \in Modelfile, current[m] # None
    PROVE  \E x \in revisions : x.id = current[m]
BY DEF IInv, CurrentIsNewest, RevisionsOf

\* A call of which the step does nothing stays what it is, as long as a draft is there.
LEMMA CallStays ==
    ASSUME PanelInv, [PanelNext]_vars, draft' = draft \/ draft' # None, NEW c, CallOK(c)
    PROVE  CallOK(c)'
<1>1. \A x \in revisions : x \in revisions'
  BY RowStays
<1>2. \A m \in Modelfile : current[m] # None => current'[m] # None
  BY ArtifactStays
<1> QED
  BY <1>1, <1>2 DEF CallOK

\* The base of the save was current, and the revision that the server stores has the text of
\* the save and that base as its parent.
LEMMA BaseIsCurrent ==
    ASSUME NEW c, NEW r, ServerAppends(c, r) PROVE current[c.modelfile] = c.base
BY DEF ServerAppends, Append, AppendRevision, IsCurrent

LEMMA ServerStores ==
    ASSUME NEW c, NEW r, ServerAppends(c, r)
    PROVE  \E x \in revisions' : x.id = r /\ x.text = c.text /\ x.parent = c.base
<1>1. PICK x \in revisions : x.modelfile = c.modelfile /\ Append(x, c.base, r, c.text)
  BY DEF ServerAppends
<1> DEFINE y == [id |-> r, modelfile |-> x.modelfile, number |-> x.number + 1,
                 parent |-> x.id, text |-> c.text, digest |-> None]
<1>2. y \in revisions' /\ x.id = c.base
  BY <1>1 DEF Append, AppendRevision
<1>3. y.id = r /\ y.text = c.text /\ y.parent = x.id
  OBVIOUS
<1> QED
  BY <1>2, <1>3

-----------------------------------------------------------------------------
(* The calls in progress.                                                  *)

CallsInv == calls \subseteq Call /\ NumbersOK /\ CallsOK

\* What a step does to the calls is right when it ends some of them, ...
LEMMA SomeEnd ==
    ASSUME PanelInv, [PanelNext]_vars, draft' = draft \/ draft' # None, calls' \subseteq calls
    PROVE  CallsInv'
<1>1. calls' \subseteq Call /\ NumbersOK'
  BY DEF PanelInv, PanelTypeOK, NumbersOK
<1> QED
  BY <1>1, CallStays DEF CallsInv, CallsOK, PanelInv

\* ... when it takes one of them on, ...
LEMMA OneProceeds ==
    ASSUME PanelInv, [PanelNext]_vars, draft' = draft \/ draft' # None,
           NEW c \in calls, NEW d \in Call, d.number = c.number, CallOK(d)', Proceeds(c, d)
    PROVE  CallsInv'
<1>1. calls' = (calls \ {c}) \cup {d} /\ calls' \subseteq Call
  BY DEF PanelInv, PanelTypeOK, Proceeds
<1>2. NumbersOK'
  BY <1>1 DEF PanelInv, NumbersOK
<1>3. CallsOK'
  BY <1>1, CallStays DEF CallsOK, PanelInv
<1> QED
  BY <1>1, <1>2, <1>3 DEF CallsInv

\* ... and when it begins one more.
LEMMA OneBegins ==
    ASSUME NEW cs, cs \subseteq Call, \A c, d \in cs : c.number = d.number => c = d,
           \A c \in cs : CallOK(c)',
           NEW call \in Call, \A n \in 1..MaxCalls : CallOK([call EXCEPT !.number = n])',
           Begins(cs, call)
    PROVE  /\ CallsInv'
           /\ \E n \in 1..MaxCalls : /\ calls' = cs \cup {[call EXCEPT !.number = n]}
                                     /\ \A c \in cs : c.number # n
<1>1. PICK n \in 1..MaxCalls : /\ {c.number : c \in cs} \cap 1..n = 1..(n - 1)
                               /\ calls' = cs \cup {[call EXCEPT !.number = n]}
  BY DEF Begins
<1> DEFINE new == [call EXCEPT !.number = n]
<1>2. new \in Call /\ new.number = n
  BY DEF Call
<1>3. ASSUME NEW c \in cs PROVE c.number # n
  <2>1. c.number = n => n \in {e.number : e \in cs} \cap 1..n
    BY PanelAssumption
  <2>2. n \notin 1..(n - 1)
    BY PanelAssumption
  <2> QED
    BY <1>1, <2>1, <2>2
<1>4. CallOK(new)'
  OBVIOUS
<1> HIDE DEF new
<1>5. calls' = cs \cup {new}
  BY <1>1 DEF new
<1>6. calls' \subseteq Call /\ NumbersOK' /\ CallsOK'
  BY <1>2, <1>3, <1>4, <1>5 DEF NumbersOK, CallsOK
<1> QED
  BY <1>1, <1>3, <1>6 DEF CallsInv

\* A call as it begins.
LEMMA CallsBegin ==
    ASSUME NEW call, NEW m, NEW b, NEW t, 1 \in 1..MaxCalls,
           \/ call = Loading(m) /\ m \in Modelfile
           \/ call = Listing(m) /\ m \in Modelfile \cup {None}
           \/ /\ call = Calling("create", "sent", None, None, t)
              /\ t \in Text
           \/ /\ call = Calling("append", "sent", m, b, t)
              /\ m \in Modelfile /\ b \in RevisionId /\ t \in Text /\ draft' # None
    PROVE  call \in Call /\ \A n \in 1..MaxCalls : CallOK([call EXCEPT !.number = n])'
<1>1. call \in Call
  BY DEF Calling, Loading, Listing, Call
<1>2. ASSUME NEW n \in 1..MaxCalls
      PROVE  CallOK([call EXCEPT !.number = n])'
  <2> DEFINE c == [call EXCEPT !.number = n]
  <2>1. /\ c.kind = call.kind /\ c.phase = call.phase /\ c.modelfile = call.modelfile
        /\ c.base = call.base /\ c.text = call.text /\ c.revision = call.revision
        /\ c.found = call.found
    BY <1>1 DEF Call
  <2>2. call.revision = None /\ call.found = {}
    BY DEF Calling, Loading, Listing
  <2>3. \/ call.kind = "load" /\ call.phase = "sent" /\ call.modelfile \in Modelfile
        \/ call.kind = "list" /\ call.phase = "listing"
        \/ call.kind = "create" /\ call.phase = "sent" /\ call.text \in Text
        \/ /\ call.kind = "append" /\ call.phase = "sent" /\ call.modelfile \in Modelfile
           /\ call.base \in RevisionId /\ call.text \in Text /\ draft' # None
    BY DEF Calling, Loading, Listing
  <2> QED
    BY <2>1, <2>2, <2>3 DEF CallOK
<1> QED
  BY <1>1, <1>2

\* A call of the panel that the step begins finds a number.
LEMMA BeginsNumbered ==
    ASSUME NEW cs, NEW call, Begins(cs, call) PROVE 1 \in 1..MaxCalls
BY PanelAssumption DEF Begins

\* What goes on after a list has the number of the call that read it.
LEMMA AfterListIs ==
    ASSUME PanelInv, [PanelNext]_vars, draft' = draft, NEW c \in calls,
           c.phase \in {"listing", "listed"}
    PROVE  /\ AfterList(c) \subseteq Call
           /\ \A d \in AfterList(c) : d.number = c.number /\ CallOK(d)' /\ d.phase # "stored"
           /\ \A d, e \in AfterList(c) : d = e
<1>1. c \in Call /\ CallOK(c)'
  BY CallStays DEF PanelInv, PanelTypeOK, CallsOK
<1>2. c.number \in 1..MaxCalls /\ 1 \in 1..MaxCalls
  BY <1>1, PanelAssumption DEF Call
<1> DEFINE load == [Loading(c.modelfile) EXCEPT !.number = c.number]
           history == [c EXCEPT !.phase = "history", !.found = {}]
<1>3. CASE c.kind = "create"
  <2>1. c.modelfile \in Modelfile
    BY <1>3 DEF PanelInv, CallsOK, CallOK
  <2>2. AfterList(c) = {load}
    BY <1>3 DEF AfterList
  <2>3. load \in Call /\ load.number = c.number /\ load.phase = "sent" /\ CallOK(load)'
    BY <1>2, <2>1 DEF Loading, Calling, Call, CallOK
  <2> QED
    BY <2>2, <2>3
<1>4. CASE c.kind = "append"
  <2>1. AfterList(c) = {history}
    BY <1>4 DEF AfterList
  <2>2. history \in Call /\ history.number = c.number /\ history.phase = "history"
    BY <1>1 DEF Call
  <2>3. CallOK(history)'
    BY <1>1, <1>4 DEF Call, CallOK
  <2> QED
    BY <2>1, <2>2, <2>3
<1>5. CASE c.kind \notin {"create", "append"}
  BY <1>5 DEF AfterList
<1> QED
  BY <1>3, <1>4, <1>5

\* The calls that go on when a list was read, or could not be.
LEMMA ListEnds ==
    ASSUME PanelInv, [PanelNext]_vars, draft' = draft, NEW c \in calls,
           c.phase \in {"listing", "listed"}, NEW rest, rest = (calls \ {c}) \cup AfterList(c)
    PROVE  /\ rest \subseteq Call
           /\ \A d, e \in rest : d.number = e.number => d = e
           /\ \A d \in rest : CallOK(d)'
<1>1. \A d \in calls : CallOK(d)'
  BY CallStays DEF PanelInv, CallsOK
<1>2. /\ AfterList(c) \subseteq Call
      /\ \A d \in AfterList(c) : d.number = c.number /\ CallOK(d)'
      /\ \A d, e \in AfterList(c) : d = e
  BY AfterListIs
<1>3. /\ calls \subseteq Call
      /\ \A d, e \in calls : d.number = e.number => d = e
  BY DEF PanelInv, PanelTypeOK, NumbersOK
<1> QED
  BY <1>1, <1>2, <1>3

-----------------------------------------------------------------------------
(* The steps of the editor.                                                *)

LEMMA PanelInitially == PanelInit => PanelInv
<1> SUFFICES ASSUME PanelInit PROVE PanelInv
  OBVIOUS
<1>1. IInv
  BY Initially DEF PanelInit
<1> QED
  BY <1>1 DEF PanelInit, PanelInv, PanelTypeOK, NumbersOK, CallsOK

\* What the editor shows, apart from the calls.
ShownOK ==
    /\ {mounted, typed, warned, busy} \subseteq BOOLEAN
    /\ artifacts \subseteq {m \in Modelfile : current[m] # None}
    /\ selectedId \in artifacts \cup {None}
    /\ selected \in {x.id : x \in revisions} \cup {None}
    /\ draft \in Text \cup {None}
    /\ selected # None => draft # None
    /\ ~mounted => calls = {} /\ artifacts = {} /\ selected = None /\ draft = None /\ ~typed

\* What the editor shows stays right when it stays as it is.
LEMMA ShownStays ==
    ASSUME PanelInv, [PanelNext]_vars, UNCHANGED <<mounted, artifacts, selectedId>>,
           selected' \in {selected, None} \cup {x.id : x \in revisions},
           {typed', warned', busy'} \subseteq BOOLEAN, draft' \in Text \cup {None},
           selected' # None => draft' # None,
           mounted
    PROVE  ShownOK'
<1>1. \A x \in revisions : x \in revisions'
  BY RowStays
<1>2. \A m \in Modelfile : current[m] # None => current'[m] # None
  BY ArtifactStays
<1> QED
  BY <1>1, <1>2 DEF PanelInv, PanelTypeOK, ShownOK

LEMMA PanelInductive == PanelInv /\ [PanelNext]_vars => PanelInv'
<1> SUFFICES ASSUME PanelInv, [PanelNext]_vars PROVE PanelInv'
  OBVIOUS
<1>l. IInv'
  <2>1. [Next]_libraryVars
    BY EditorStepsLibrary
  <2>2. IInv
    BY DEF PanelInv
  <2> QED
    BY <2>1, <2>2, Inductive
<1> SUFFICES (ShownOK /\ CallsInv)'
  BY <1>l DEF ShownOK, CallsInv, PanelInv, PanelTypeOK
<1> USE DEF PanelInv
<1>1. \A x \in revisions : /\ x \in revisions' /\ RowOf(x.id) = x
                           /\ x.id # None /\ x.id \in RevisionId /\ x.modelfile \in Modelfile
                           /\ x.text \in Text /\ x.text # None
  BY RowStays
<1>2. ShownOK /\ calls \subseteq Call
  BY DEF PanelTypeOK, ShownOK
<1>3. ASSUME NEW c \in calls PROVE mounted /\ c \in Call /\ CallOK(c)
  BY <1>2 DEF ShownOK, CallsOK
<1>4. None \in Modelfile \cup {None} /\ None \in RevisionId \cup {None} /\ None \in Text \cup {None}
  OBVIOUS
<1>5. CASE Mount
  <2>1. PICK call : call = Listing(None)
    OBVIOUS
  <2>2. Begins({}, call)
    BY <1>5, <2>1 DEF Mount
  <2>3. CallsInv'
    <3>1. call \in Call /\ \A n \in 1..MaxCalls : CallOK([call EXCEPT !.number = n])'
      BY <2>1, <2>2, BeginsNumbered, CallsBegin
    <3> QED
      BY <2>2, <3>1, OneBegins
  <2>4. ShownOK'
    BY <1>5 DEF Mount, NothingShown, ShownOK
  <2> QED
    BY <2>3, <2>4
<1>6. CASE Unmounted
  <2>1. CallsInv'
    BY <1>6 DEF Unmounted, CallsInv, NumbersOK, CallsOK
  <2> QED
    BY <1>6, <2>1 DEF Unmounted, NothingShown, ShownOK
<1>7. ASSUME NEW m \in Modelfile, SelectArtifact(m)
      PROVE  (ShownOK /\ CallsInv)'
  <2>1. PICK call : call = Loading(m)
    OBVIOUS
  <2>2. Begins(calls, call)
    BY <1>7, <2>1 DEF SelectArtifact
  <2>3. \A c \in calls : CallOK(c)'
    BY <1>3, <1>7, CallStays DEF SelectArtifact
  <2>4. CallsInv'
    <3>1. call \in Call /\ \A n \in 1..MaxCalls : CallOK([call EXCEPT !.number = n])'
      BY <2>1, <2>2, BeginsNumbered, CallsBegin
    <3> QED
      BY <1>2, <2>2, <2>3, <3>1, OneBegins DEF NumbersOK
  <2>5. mounted
    BY <1>2, <1>7 DEF SelectArtifact, ShownOK, PanelTypeOK
  <2> QED
    BY <1>2, <1>7, <2>4, <2>5 DEF SelectArtifact, ShownOK, libraryVars
<1>8. CASE Refresh
  <2>1. PICK m, call : m \in Modelfile \cup {None} /\ m = selectedId /\ call = Listing(m)
    BY <1>2 DEF ShownOK
  <2>2. Begins(calls, call)
    BY <1>8, <2>1 DEF Refresh
  <2>4. \A c \in calls : CallOK(c)'
    BY <1>3, <1>8, CallStays DEF Refresh, editorVars
  <2>5. CallsInv'
    <3>1. call \in Call /\ \A n \in 1..MaxCalls : CallOK([call EXCEPT !.number = n])'
      BY <2>1, <2>2, BeginsNumbered, CallsBegin
    <3> QED
      BY <1>2, <2>2, <2>4, <3>1, OneBegins DEF NumbersOK
  <2> QED
    BY <1>2, <1>8, <2>5 DEF Refresh, ShownOK, libraryVars, editorVars
<1>9. ASSUME NEW t \in Text, Type(t)
      PROVE  (ShownOK /\ CallsInv)'
  <2>1. t # None
    BY ModelfileLibraryAssumption
  <2>2. CallsInv'
    BY <1>9, <2>1, SomeEnd DEF Type
  <2>3. mounted
    BY <1>2, <1>9 DEF Type, EditorShown, ShownOK
  <2> QED
    BY <1>2, <1>9, <2>1, <2>2, <2>3 DEF Type, ShownOK, libraryVars
<1>10. ASSUME NEW t \in Text, SubmitArtifact(t)
       PROVE  (ShownOK /\ CallsInv)'
  <2>1. PICK call : call = Calling("create", "sent", None, None, t)
    OBVIOUS
  <2>2. Begins(calls, call)
    BY <1>10, <2>1 DEF SubmitArtifact
  <2>3. \A c \in calls : CallOK(c)'
    BY <1>3, <1>10, CallStays DEF SubmitArtifact
  <2>5. CallsInv'
    <3>1. call \in Call /\ \A n \in 1..MaxCalls : CallOK([call EXCEPT !.number = n])'
      BY <2>1, <2>2, BeginsNumbered, CallsBegin
    <3> QED
      BY <1>2, <2>2, <2>3, <3>1, OneBegins DEF NumbersOK
  <2> QED
    BY <1>2, <1>10, <2>5 DEF SubmitArtifact, ShownOK, libraryVars
<1>11. CASE SubmitRevision
  <2>2. PICK x \in revisions : x.id = selected
    BY <1>2, <1>11 DEF SubmitRevision, EditorShown, ShownOK
  <2>3. /\ RowOf(selected).modelfile \in Modelfile /\ selected \in RevisionId
        /\ draft \in Text /\ draft' # None
    BY <1>1, <1>2, <1>11, <2>2 DEF SubmitRevision, EditorShown, ShownOK
  <2>4. PICK m, b, t, call :
            /\ m \in Modelfile /\ b \in RevisionId /\ t \in Text
            /\ m = RowOf(selected).modelfile /\ b = selected /\ t = draft
            /\ call = Calling("append", "sent", m, b, t)
    BY <2>3
  <2>5. \A c \in calls : CallOK(c)'
    BY <1>3, <1>11, CallStays DEF SubmitRevision
  <2>6. mounted
    BY <1>2, <1>11 DEF SubmitRevision, EditorShown, ShownOK
  <2>7. Begins(calls, call)
    BY <1>11, <2>4 DEF SubmitRevision
  <2>8. CallsInv'
    <3>1. call \in Call /\ \A n \in 1..MaxCalls : CallOK([call EXCEPT !.number = n])'
      BY <2>3, <2>4, <2>7, BeginsNumbered, CallsBegin
    <3> QED
      BY <1>2, <2>5, <2>7, <3>1, OneBegins DEF NumbersOK
  <2> QED
    BY <1>2, <1>11, <2>6, <2>8 DEF SubmitRevision, ShownOK, libraryVars
<1>12. ASSUME NEW c \in calls, ServerReads(c)
       PROVE  (ShownOK /\ CallsInv)'
  <2>1. c \in Call /\ CallOK(c)' /\ c.modelfile \in Modelfile
    BY <1>3, <1>12, CallStays DEF ServerReads, editorVars, CallOK
  <2>2. PICK r \in RevisionId \cup {None}, p \in {"read", "reread"} :
            /\ r = current[c.modelfile]
            /\ Proceeds(c, [c EXCEPT !.phase = p, !.revision = r])
            /\ c.kind \in {"load", "append"} /\ (p = "reread" => c.kind = "append")
    BY <1>3, <1>12, <2>1 DEF ServerReads, CallOK, IInv, TypeOK
  <2>3. r # None => \E x \in revisions' : x.id = r
    BY <1>1, <2>1, <2>2, CurrentIsRow
  <2>4. PICK d : d = [c EXCEPT !.phase = p, !.revision = r]
    OBVIOUS
  <2>5. d \in Call /\ d.number = c.number
    BY <2>1, <2>2, <2>4 DEF Call
  <2>6. CallOK(d)'
    <3>1. /\ d.kind = c.kind /\ d.phase = p /\ d.modelfile = c.modelfile
          /\ d.base = c.base /\ d.text = c.text /\ d.revision = r /\ d.found = c.found
      BY <2>1, <2>4 DEF Call
    <3> QED
      BY <2>1, <2>2, <2>3, <3>1 DEF CallOK
  <2>7. CallsInv'
    BY <1>12, <2>2, <2>4, <2>5, <2>6, OneProceeds DEF ServerReads, editorVars
  <2> QED
    BY <1>2, <1>3, <1>12, <2>7 DEF ServerReads, ShownOK, libraryVars, editorVars
<1>13. ASSUME NEW c \in calls, Loaded(c)
       PROVE  (ShownOK /\ CallsInv)'
  <2>1. PICK x \in revisions : x.id = c.revision
    BY <1>3, <1>13 DEF Loaded, CallOK
  <2>2. draft' = x.text /\ draft' \in Text /\ draft' # None /\ selected' = x.id
    BY <1>1, <1>13, <2>1 DEF Loaded
  <2>3. CallsInv'
    BY <1>13, <2>2, SomeEnd DEF Loaded
  <2> QED
    BY <1>2, <1>3, <1>13, <2>2, <2>3 DEF Loaded, ShownOK, libraryVars
<1>14. ASSUME NEW c \in calls, ServerLists(c)
       PROVE  (ShownOK /\ CallsInv)'
  <2> DEFINE all == {m \in Modelfile : current[m] # None}
  <2>1. c \in Call /\ CallOK(c)' /\ c.phase = "listing" /\ current' = current
    BY <1>3, <1>14, CallStays DEF ServerLists, editorVars, libraryVars
  <2>2. PICK f, d : f = all /\ d = [c EXCEPT !.phase = "listed", !.found = f]
    OBVIOUS
  <2>3. d \in Call /\ d.number = c.number
    BY <2>1, <2>2 DEF Call
  <2>4. CallOK(d)'
    BY <2>1, <2>2 DEF CallOK, Call
  <2>5. CallsInv'
    BY <1>14, <2>2, <2>3, <2>4, OneProceeds DEF ServerLists, editorVars
  <2> QED
    BY <1>2, <1>3, <1>14, <2>5 DEF ServerLists, ShownOK, libraryVars, editorVars
<1>15. ASSUME NEW c \in calls, Listed(c)
       PROVE  (ShownOK /\ CallsInv)'
  <2> DEFINE loads == selectedId' \notin {selectedId, None}
  <2>1. /\ c.phase = "listed" /\ draft' = draft
        /\ c.found \subseteq {m \in Modelfile : current[m] # None}
    BY <1>3, <1>15 DEF Listed, CallOK
  <2>2. PICK rest : rest = (calls \ {c}) \cup AfterList(c)
    OBVIOUS
  <2>3. /\ rest \subseteq Call
        /\ \A d, e \in rest : d.number = e.number => d = e
        /\ \A d \in rest : CallOK(d)'
    BY <2>1, <2>2, ListEnds
  <2>4. selectedId' \in c.found \cup {None}
    BY <1>15 DEF Listed, Preferred
  <2>5. CallsInv'
    <3>1. CASE loads
      <4>1. PICK m, call : m \in Modelfile /\ selectedId' = m /\ call = Loading(m)
        BY <2>1, <2>4, <3>1
      <4>2. Begins(rest, call)
        BY <1>15, <2>2, <3>1, <4>1 DEF Listed
      <4>3. call \in Call /\ \A n \in 1..MaxCalls : CallOK([call EXCEPT !.number = n])'
        BY <4>1, <4>2, BeginsNumbered, CallsBegin
      <4> QED
        BY <2>3, <4>2, <4>3, OneBegins
    <3>2. CASE ~loads
      <4>1. calls' = rest
        BY <1>15, <2>2, <3>2 DEF Listed
      <4> QED
        BY <2>3, <4>1 DEF CallsInv, NumbersOK, CallsOK
    <3> QED
      BY <3>1, <3>2
  <2>6. ShownOK'
    <3>1. /\ artifacts' = c.found /\ current' = current /\ revisions' = revisions
          /\ selected' \in {selected, None} /\ busy' \in BOOLEAN
          /\ UNCHANGED <<mounted, typed, warned, draft>>
      BY <1>15 DEF Listed, libraryVars
    <3> QED
      BY <1>2, <1>3, <2>1, <2>4, <3>1 DEF ShownOK
  <2> QED
    BY <2>5, <2>6
<1>16. ASSUME NEW c \in calls, ListFails(c)
       PROVE  (ShownOK /\ CallsInv)'
  <2> DEFINE rest == (calls \ {c}) \cup AfterList(c)
  <2>1. /\ rest \subseteq Call
        /\ \A d, e \in rest : d.number = e.number => d = e
        /\ \A d \in rest : CallOK(d)'
    BY <1>16, ListEnds DEF ListFails, editorVars
  <2>2. CallsInv'
    BY <1>16, <2>1 DEF ListFails, CallsInv, NumbersOK, CallsOK
  <2> QED
    BY <1>2, <1>3, <1>16, <2>2 DEF ListFails, ShownOK, libraryVars, editorVars
<1>17. ASSUME NEW c \in calls, CallFails(c)
       PROVE  (ShownOK /\ CallsInv)'
  <2>1. CallsInv'
    BY <1>17, SomeEnd DEF CallFails
  <2> QED
    BY <1>2, <1>3, <1>17, <2>1 DEF CallFails, ShownOK, libraryVars
<1>18. ASSUME NEW c \in calls, ServerRefuses(c)
       PROVE  (ShownOK /\ CallsInv)'
  <2> DEFINE d == [c EXCEPT !.phase = "conflict"]
  <2>1. c \in Call /\ CallOK(c)' /\ c.kind = "append"
    BY <1>3, <1>18, CallStays DEF ServerRefuses, editorVars
  <2>2. d \in Call /\ d.number = c.number /\ CallOK(d)'
    BY <2>1 DEF Call, CallOK
  <2> HIDE DEF d
  <2>3. Proceeds(c, d)
    BY <1>18 DEF ServerRefuses, d
  <2>4. CallsInv'
    BY <1>18, <2>2, <2>3, OneProceeds DEF ServerRefuses, editorVars
  <2> QED
    BY <1>2, <1>3, <1>18, <2>4 DEF ServerRefuses, ShownOK, libraryVars, editorVars
<1>19. ASSUME NEW c \in calls, Created(c)
       PROVE  (ShownOK /\ CallsInv)'
  <2> DEFINE d == [c EXCEPT !.phase = "listing"]
  <2>1. c \in Call /\ CallOK(c)' /\ c.kind = "create" /\ c.phase = "stored"
    BY <1>3, <1>19, CallStays DEF Created
  <2>2. d \in Call /\ d.number = c.number /\ CallOK(d)'
    BY <2>1 DEF Call, CallOK
  <2> HIDE DEF d
  <2>3. Proceeds(c, d)
    BY <1>19 DEF Created, d
  <2>4. CallsInv'
    BY <1>19, <2>2, <2>3, OneProceeds DEF Created
  <2> QED
    BY <1>2, <1>3, <1>19, <2>4 DEF Created, ShownOK, libraryVars
<1>20. ASSUME NEW c \in calls, Saved(c)
       PROVE  (ShownOK /\ CallsInv)'
  <2> DEFINE d == [c EXCEPT !.phase = "listing"]
  <2>1. c.text \in Text /\ draft' = c.text /\ draft' # None
    BY <1>3, <1>20, ModelfileLibraryAssumption DEF Saved, CallOK
  <2>2. c \in Call /\ CallOK(c)' /\ c.kind = "append" /\ c.phase = "stored"
    BY <1>3, <1>20, <2>1, CallStays DEF Saved
  <2>3. d \in Call /\ d.number = c.number /\ CallOK(d)'
    BY <2>2 DEF Call, CallOK
  <2>4. \E x \in revisions : x.id = selected'
    BY <1>3, <1>20 DEF Saved, CallOK
  <2> HIDE DEF d
  <2>5. Proceeds(c, d)
    BY <1>20 DEF Saved, d
  <2>6. CallsInv'
    BY <2>1, <2>3, <2>5, OneProceeds
  <2> QED
    BY <1>2, <1>3, <1>20, <2>1, <2>4, <2>6 DEF Saved, ShownOK, libraryVars
<1>21. ASSUME NEW c \in calls, HistoryRead(c)
       PROVE  (ShownOK /\ CallsInv)'
  <2>1. CallsInv'
    BY <1>21, SomeEnd DEF HistoryRead, editorVars
  <2> QED
    BY <1>2, <1>3, <1>21, <2>1 DEF HistoryRead, ShownOK, libraryVars, editorVars
<1>22. ASSUME NEW c \in calls, Rebased(c)
       PROVE  (ShownOK /\ CallsInv)'
  <2> DEFINE d == [c EXCEPT !.phase = "told"]
  <2>1. c \in Call /\ CallOK(c)' /\ c.kind = "append" /\ draft # None
    BY <1>3, <1>22, CallStays DEF Rebased, CallOK
  <2>2. d \in Call /\ d.number = c.number /\ CallOK(d)'
    BY <2>1 DEF Call, CallOK
  <2>3. \E x \in revisions : x.id = selected'
    BY <1>3, <1>22 DEF Rebased, CallOK
  <2> HIDE DEF d
  <2>4. Proceeds(c, d)
    BY <1>22 DEF Rebased, d
  <2>5. CallsInv'
    BY <1>22, <2>2, <2>4, OneProceeds DEF Rebased
  <2> QED
    BY <1>2, <1>3, <1>22, <2>1, <2>3, <2>5 DEF Rebased, ShownOK, libraryVars
<1>23. ASSUME NEW c \in calls, Warned(c)
       PROVE  (ShownOK /\ CallsInv)'
  <2>1. CallsInv'
    BY <1>23, SomeEnd DEF Warned
  <2> QED
    BY <1>2, <1>3, <1>23, <2>1 DEF Warned, ShownOK, libraryVars
<1>24. ASSUME NEW c \in calls, NEW r \in RevisionId, ServerAppends(c, r)
       PROVE  (ShownOK /\ CallsInv)'
  <2> DEFINE d == [c EXCEPT !.phase = "stored", !.revision = r]
  <2>1. /\ c.kind = "append" /\ Proceeds(c, d)
        /\ \E x \in revisions' : x.id = r /\ x.text = c.text
        /\ UNCHANGED <<mounted, editorVars, busy>>
    <3>1. \E x \in revisions' : x.id = r /\ x.text = c.text /\ x.parent = c.base
      BY <1>24, ServerStores
    <3>2. \E x \in revisions' : x.id = r /\ x.text = c.text
      BY <3>1
    <3> QED
      BY <1>24, <3>2 DEF ServerAppends
  <2>2. c \in Call /\ CallOK(c)'
    BY <1>3, <2>1, CallStays DEF editorVars
  <2>3. d \in Call /\ d.number = c.number /\ CallOK(d)'
    BY <2>1, <2>2 DEF Call, CallOK
  <2> HIDE DEF d
  <2>4. CallsInv'
    BY <2>1, <2>3, OneProceeds DEF editorVars
  <2>5. ShownOK'
    BY <1>2, <1>3, <2>1, ShownStays DEF editorVars, ShownOK
  <2> QED
    BY <2>4, <2>5
<1>25. ASSUME NEW c \in calls, NEW m \in Modelfile, NEW r \in RevisionId, ServerCreates(c, m, r)
       PROVE  (ShownOK /\ CallsInv)'
  <2> DEFINE d == [c EXCEPT !.phase = "stored", !.modelfile = m]
  <2>1. c.kind = "create" /\ Proceeds(c, d) /\ UNCHANGED <<mounted, editorVars, busy>>
    BY <1>25 DEF ServerCreates
  <2>2. c \in Call /\ CallOK(c)'
    BY <1>3, <2>1, CallStays DEF editorVars
  <2>3. d \in Call /\ d.number = c.number /\ CallOK(d)'
    BY <2>1, <2>2 DEF Call, CallOK
  <2> HIDE DEF d
  <2>4. CallsInv'
    BY <2>1, <2>3, OneProceeds DEF editorVars
  <2>5. ShownOK'
    BY <1>2, <1>3, <2>1, ShownStays DEF editorVars, ShownOK
  <2> QED
    BY <2>4, <2>5
<1>26. CASE UNCHANGED panelVars
  <2>1. CallsInv'
    BY <1>26, SomeEnd DEF panelVars, editorVars
  <2>2. \A m \in Modelfile : current[m] # None => current'[m] # None
    BY ArtifactStays
  <2> QED
    BY <1>1, <1>2, <1>26, <2>1, <2>2 DEF panelVars, editorVars, ShownOK
<1>27. \/ Mount \/ Unmounted \/ Refresh \/ SubmitRevision \/ UNCHANGED panelVars
       \/ \E m \in Modelfile : SelectArtifact(m)
       \/ \E t \in Text : Type(t) \/ SubmitArtifact(t)
       \/ \E c \in calls :
             \/ ServerReads(c) \/ Loaded(c) \/ ServerLists(c) \/ Listed(c)
             \/ ListFails(c) \/ CallFails(c)
             \/ ServerRefuses(c) \/ Created(c) \/ Saved(c) \/ HistoryRead(c)
             \/ Rebased(c) \/ Warned(c)
             \/ \E r \in RevisionId :
                   ServerAppends(c, r) \/ \E m \in Modelfile : ServerCreates(c, m, r)
  BY DEF PanelNext, vars, SignedOut, Leave, OtherCreates, OtherAppends
<1> QED
  BY <1>5, <1>6, <1>7, <1>8, <1>9, <1>10, <1>11, <1>12, <1>13, <1>14, <1>15, <1>16, <1>17, <1>18,
     <1>19, <1>20, <1>21, <1>22, <1>23, <1>24, <1>25, <1>26, <1>27

LEMMA PanelInvariance == PanelSpec => []PanelInv
BY PanelInitially, PanelInductive, PTL DEF PanelSpec

\* The list and the editor show what exists, the editor has a draft whenever it shows a
\* revision, and a panel that is gone keeps nothing and waits for nothing.
THEOREM PanelTypeCorrect == PanelSpec => []PanelTypeOK
BY PanelInvariance, PTL DEF PanelInv

\* The library under the editor keeps its promises.
THEOREM EditorKeepsHistory == PanelSpec => []HistoryIsLinear /\ []CurrentIsNewest
BY PanelInvariance, PTL DEF PanelInv, IInv

\* No call has been answered just now that something was stored.
NoneStored == \A e \in calls' : e \in calls \/ e.phase # "stored"

LEMMA BeginsUnstored ==
    ASSUME NEW cs, NEW k, NEW p, NEW m, NEW b, NEW t, p # "stored",
           \A e \in cs : e \in calls \/ e.phase # "stored",
           Begins(cs, Calling(k, p, m, b, t))
    PROVE  NoneStored
<1>1. PICK n \in 1..MaxCalls : calls' = cs \cup {[Calling(k, p, m, b, t) EXCEPT !.number = n]}
  BY DEF Begins
<1>2. [Calling(k, p, m, b, t) EXCEPT !.number = n].phase = p
  BY DEF Calling
<1> QED
  BY <1>1, <1>2 DEF NoneStored

\* It is answered so by no step but these two.
LEMMA StoredByServer ==
    ASSUME PanelInv, [PanelNext]_vars
    PROVE  \/ NoneStored
           \/ \E c \in calls, r \in RevisionId :
                  ServerAppends(c, r) \/ \E m \in Modelfile : ServerCreates(c, m, r)
<1>1. \A c \in calls : c \in Call
  BY DEF PanelInv, PanelTypeOK
<1>2. CASE calls' \subseteq calls
  BY <1>2 DEF NoneStored
<1>3. CASE Mount
  BY <1>3, BeginsUnstored DEF Mount, Listing
<1>4. CASE \E m \in Modelfile : SelectArtifact(m)
  BY <1>4, BeginsUnstored DEF SelectArtifact, Loading
<1>5. CASE Refresh
  BY <1>5, BeginsUnstored DEF Refresh, Listing
<1>6. CASE \E t \in Text : SubmitArtifact(t)
  BY <1>6, BeginsUnstored DEF SubmitArtifact
<1>7. CASE SubmitRevision
  BY <1>7, BeginsUnstored DEF SubmitRevision
<1>8. ASSUME NEW c \in calls, ServerReads(c) PROVE NoneStored
  <2> DEFINE d(p) == [c EXCEPT !.phase = p, !.revision = current[c.modelfile]]
  <2>1. d("read").phase = "read" /\ d("reread").phase = "reread"
    BY <1>1 DEF Call
  <2>2. calls' = (calls \ {c}) \cup {d("read")} \/ calls' = (calls \ {c}) \cup {d("reread")}
    BY <1>8 DEF ServerReads, Proceeds
  <2> HIDE DEF d
  <2> QED
    BY <2>1, <2>2 DEF NoneStored
<1>9. ASSUME NEW c \in calls,
             ServerLists(c) \/ ServerRefuses(c) \/ Created(c) \/ Saved(c) \/ Rebased(c)
      PROVE  NoneStored
  <2> DEFINE all == {m \in Modelfile : current[m] # None}
             d(p) == [c EXCEPT !.phase = p]
             l == [c EXCEPT !.phase = "listed", !.found = all]
  <2>1. l.phase = "listed" /\ \A p \in {"conflict", "listing", "told"} : d(p).phase = p
    BY <1>1 DEF Call
  <2>2. \/ calls' = (calls \ {c}) \cup {l}
        \/ \E p \in {"conflict", "listing", "told"} : calls' = (calls \ {c}) \cup {d(p)}
    BY <1>9 DEF ServerLists, ServerRefuses, Created, Saved, Rebased, Proceeds
  <2> HIDE DEF d, l
  <2> QED
    BY <2>1, <2>2 DEF NoneStored
<1>10. ASSUME NEW c \in calls, Listed(c) \/ ListFails(c) PROVE NoneStored
  <2>1. c.phase \in {"listing", "listed"} /\ draft' = draft
    BY <1>10 DEF Listed, ListFails, editorVars
  <2>2. PICK rest : rest = (calls \ {c}) \cup AfterList(c)
    OBVIOUS
  <2>3. \A e \in rest : e \in calls \/ e.phase # "stored"
    BY <2>1, <2>2, AfterListIs
  <2>4. calls' = rest \/ Begins(rest, Loading(selectedId'))
    BY <1>10, <2>2 DEF Listed, ListFails
  <2> QED
    BY <2>3, <2>4, BeginsUnstored DEF Loading, NoneStored
<1> QED
  BY <1>2, <1>3, <1>4, <1>5, <1>6, <1>7, <1>8, <1>9, <1>10 DEF PanelNext, vars, panelVars,
     SignedOut, Leave, Unmounted, Loaded, CallFails, Type, HistoryRead, Warned,
     OtherCreates, OtherAppends

\* What the tab stores replaces exactly the revision that was shown when it was submitted,
\* however many of its own calls and of the saves of others come between.
THEOREM NoUpdateIsLost == PanelSpec => NoLostUpdate
<1> DEFINE Replaces ==
        \A c \in calls, d \in calls' :
            /\ c.kind = "append" /\ c.phase = "sent"
            /\ d.number = c.number /\ d.phase = "stored"
            => /\ current[c.modelfile] = c.base
               /\ \E x \in revisions' : x.id = d.revision /\ x.parent = c.base
<1>1. PanelInv /\ [PanelNext]_vars => Replaces
  <2> SUFFICES ASSUME PanelInv, [PanelNext]_vars, NEW c \in calls, NEW d \in calls',
                      c.kind = "append", c.phase = "sent",
                      d.number = c.number, d.phase = "stored"
               PROVE  /\ current[c.modelfile] = c.base
                      /\ \E x \in revisions' : x.id = d.revision /\ x.parent = c.base
    OBVIOUS
  <2>1. /\ \A e \in calls : e.number = c.number => e = c
        /\ \A e \in calls : e \in Call
        /\ d \notin calls
    BY DEF PanelInv, PanelTypeOK, NumbersOK
  <2>2. ~NoneStored
    BY <2>1 DEF NoneStored
  <2>3. PICK e \in calls, r \in RevisionId :
            ServerAppends(e, r) \/ \E m \in Modelfile : ServerCreates(e, m, r)
    BY <2>2, StoredByServer
  <2>4. e = c
    <3>1. \E f : f.number = e.number /\ Proceeds(e, f)
      BY <2>1, <2>3 DEF ServerAppends, ServerCreates, Call
    <3>2. d.number = e.number
      BY <2>1, <3>1 DEF Proceeds
    <3> QED
      BY <2>1, <3>2
  <2>5. ServerAppends(c, r)
    BY <2>3, <2>4 DEF ServerCreates
  <2>6. d.revision = r
    <3>1. Proceeds(c, [c EXCEPT !.phase = "stored", !.revision = r])
      BY <2>5 DEF ServerAppends
    <3>2. d = [c EXCEPT !.phase = "stored", !.revision = r]
      BY <2>1, <3>1 DEF Proceeds
    <3> QED
      BY <2>1, <3>2 DEF Call
  <2>7. current[c.modelfile] = c.base
    BY <2>5, BaseIsCurrent
  <2>8. \E x \in revisions' : x.id = r /\ x.text = c.text /\ x.parent = c.base
    BY <2>5, ServerStores
  <2> QED
    BY <2>6, <2>7, <2>8
<1> QED
  BY <1>1, PanelInvariance, PTL DEF PanelSpec, NoLostUpdate

\* As long as the panel stays, a draft is given up only for what was loaded or stored: not
\* for a save that fails, is refused or has no answer.
THEOREM DraftsAreKept == PanelSpec => DraftIsKept
<1> DEFINE Keeps ==
        mounted' /\ typed /\ ~typed' =>
            \E c \in calls :
                /\ \/ c.phase = "read"
                   \/ c.kind = "append" /\ c.phase = "stored"
                /\ c.revision # None /\ draft' = RowOf(c.revision).text
<1>1. PanelInv /\ [PanelNext]_vars => Keeps
  <2> SUFFICES ASSUME PanelInv, [PanelNext]_vars, mounted', typed, ~typed'
               PROVE  Keeps
    OBVIOUS
  <2>1. ~Mount
    BY DEF Mount, PanelInv, PanelTypeOK
  <2>2. (\E c \in calls : Loaded(c) \/ Saved(c)) \/ Mount
    BY DEF PanelNext, vars, panelVars, editorVars, SignedOut, Leave, Unmounted, SelectArtifact,
       Refresh, ServerReads, ServerLists, Listed, ListFails, CallFails, Type, SubmitArtifact,
       SubmitRevision, ServerCreates, ServerAppends, ServerRefuses, Created, HistoryRead,
       Rebased, Warned, OtherCreates, OtherAppends
  <2>3. CASE \E c \in calls : Loaded(c)
    BY <2>3 DEF Loaded
  <2>4. ASSUME NEW c \in calls, Saved(c)
        PROVE  Keeps
    <3>1. c.kind = "append" /\ c.phase = "stored" /\ draft' = c.text
      BY <2>4 DEF Saved
    <3>2. PICK x \in revisions : x.id = c.revision /\ x.text = c.text
      BY <3>1 DEF PanelInv, CallsOK, CallOK
    <3>3. x.id # None /\ RowOf(x.id) = x
      BY RowStays
    <3> QED
      BY <3>1, <3>2, <3>3
  <2> QED
    BY <2>1, <2>2, <2>3, <2>4
<1> QED
  BY <1>1, PanelInvariance, PTL DEF PanelSpec, DraftIsKept

\* No revision is made on another base than the one that was shown, and no answer but those of
\* a load and of a save that was stored takes the place of a draft in a panel that stays.
THEOREM DraftsAreSafeHolds == PanelSpec => DraftsAreSafe
BY NoUpdateIsLost, DraftsAreKept DEF DraftsAreSafe

=============================================================================

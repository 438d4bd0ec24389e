\* Two artifacts, two texts; four revisions and an import, or three revisions, a tab that
\* saves twice and another client; four drafts, two edits and a difference of either kind.
SPECIFICATION SceneSpec
CONSTANTS
    m1 = m1
    m2 = m2
    r1 = r1
    r2 = r2
    r3 = r3
    r4 = r4
    i1 = i1
    None = None
    AuditFails = TRUE
    Modelfile = {m1, m2}
    RevisionId = {r1, r2, r3, r4}
    Digest = {"old", "new"}
    Text = {"old", "new"}
    Importer = {i1}
    Generated <- GeneratedText
    MaxSaves = 2
    MaxCalls = 2
INVARIANTS
    HistoryInvariant
    TextInvariant
PROPERTIES
    HistoryOnlyGrows
    DraftsAreSafe
    EditsAreFaithful
SYMMETRY Symmetry
CHECK_DEADLOCK FALSE

\* A pull and a create with an event of progress and an interruption each, and a source of
\* the pull opened anew; bodies of up to two lines, or one that is no JSON, in two chunks;
\* two log streams, three chunks of output and a list of two.
SPECIFICATION SceneSpec
CONSTANTS
    None = None
    s1 = s1
    s2 = s2
PROPERTIES
    EndsAreSeen
CHECK_DEADLOCK FALSE

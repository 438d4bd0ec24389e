\* One stream and one chunk.
SPECIFICATION FairSpec
CONSTANTS
    None = None
    s1 = s1
    Stream = {s1}
    MaxChunks = 1
    MaxEntries = 1
PROPERTIES
    FollowEnds
CHECK_DEADLOCK FALSE

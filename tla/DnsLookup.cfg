SPECIFICATION FairSpec
CONSTANTS
    Lookups = {l1, l2}
    a = a
    b = b
    Servers = {a, b}
    Files <- FilesAll
    Null = Null
    MAX_SERVERS = 2
    MAX_SEARCH = 1
    MAX_RETRIES = 1
    nRetries = 1
    IdSpace = 4
    MaxEdits = 1
INVARIANTS
    AnswersLastQuery
PROPERTIES
    
    LookupEnds

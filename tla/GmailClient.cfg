SPECIFICATION Spec
CONSTANTS
    get = get
    list = list
    send = send
    modify = modify
    RO = RO
    RW = RW
    ReadVerbs = {get, list}
    WriteVerbs = {send, modify}
    ScopeLists <- Lists
INVARIANTS OnlyReadsLeave LostDenialsAreTold
PROPERTIES BlameIsRight

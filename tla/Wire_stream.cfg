SPECIFICATION Spec
CONSTANTS
    Leaves <- MCLeaves
    Args <- MCArgs
    Path <- MCPath
    Selector <- MCSelector
    Ops <- MCOps
    Sigs <- MCSigs
    Descrs <- MCDescrs
    Habits = {}
    MaxDepth = 2
    MaxItems = 2
    MaxSent = 2
    BUFFER_MINCAP = 24
    CHUNK_HEAD = 4
    READ_MINBUF = 8
INVARIANTS SeenAsSent PacketsLeaveChunk ForwardKeepsValue 
VIEW MCView
CHECK_DEADLOCK FALSE

SPECIFICATION NodesSpec
CONSTANTS
    Nodes = {"f", "g", "x"}
    Root = "root"
    Dirs = {"f", "g"}
    Trees <- Chain
    Bins = {{}, {"f"}}
    NCalls = 2
    MaxChanges = 3
    MaxCalls = 2
    MaxWork = 3
INVARIANT MissingIsGone
CHECK_DEADLOCK FALSE

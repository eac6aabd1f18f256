CONSTANTS
    MaxBoxes = 6
    MaxExits = 1
    MaxCrashes = 2
    Approvals = {a1}
    MaxClients = 2
    MaxCalls = 3
    Chunks = TRUE
    LabelCap = 8
    Datagrams <- MCDatagrams
    Patterns <- MCPatterns
    Hosts <- MCHosts
    MaxReplies = 2
    QuestionBytes = {0, 1, 2, 14, 65, 97, 192}
    MaxQuestion = 5
SPECIFICATION MCFairSpec
CHECK_DEADLOCK FALSE
INVARIANTS  FilterInv ApprovalInv
PROPERTIES AskedIsShown LinksSettle

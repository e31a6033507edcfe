SPECIFICATION MainSpec
CONSTANTS
 MaxAttempts=4
 MaxEdits=2
 MaxLines=1
 MaxFaults=2
 Stall=2
 MaxHistory=2
 Longer=1
 Errors={e1}
 Unresolved={u}
 e1=e1
 u=u
 Refusals=2
 MaxItems=5
 MaxTroubles=4
INVARIANTS EditsBelong RepairsEnd ReplyHeard
CHECK_DEADLOCK FALSE

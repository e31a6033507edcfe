SPECIFICATION Spec
CONSTANTS
 MaxFeedback=1
 MaxSteers=1
 MaxFailures=2
 MaxPauses=1
 MaxTrouble=2
 MaxWire=1
 Refusals=2
VIEW Behaviour
INVARIANT FeedbackReachesAuthor
CHECK_DEADLOCK FALSE

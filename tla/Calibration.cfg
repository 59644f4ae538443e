SPECIFICATION Spec
CONSTANTS
    Subjects = {"s"}
    Kinds = {"pim", "atlas", "feed"}
    Registered = {"pim", "atlas"}
    Refs = {"c1", "c2"}
    NoSubject = "no subject"
    Sources = {"api_check", "proposal"}
    Answers <- MCAnswers
    Proposals <- MCProposals
    MaxSaid = 2
    Pairs <- MCPairs
    Blank = "blank"
    MaxPairs = 2
    Hits <- MCHits
    Sweep = {0, 45, 75}
    Absent = Absent
INVARIANT EveryLineIsAccountedFor
INVARIANT FiguresMeasure
PROPERTY CalibrationIsMarked
PROPERTY RejectionsAreDurable
CHECK_DEADLOCK FALSE

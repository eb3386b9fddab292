CONSTANTS
    a1 = a1  a2 = a2  Null = Null  None = None
    Address = {a1, a2}
    Place = {here, there}
    Queries <- SomeQueries
    MaxMoves = 2
    MaxRestarts = 1
SPECIFICATION FairSpec
INVARIANTS TypeOK AnswersAgree EmptyIsUnknown
PROPERTIES LocatedInTheEnd

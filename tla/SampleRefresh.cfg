SPECIFICATION Spec
CONSTANTS
    d1 = d1
    d2 = d2
    u1 = u1
    q1 = q1
    a = a
    b = b
    Demo <- MCDemo
    Users <- MCUsers
    Questions <- MCQuestions
    Options <- MCOptions
    Clients <- MCClients
    Schemas <- MCSchemas
    MaxId = 3
    MaxAdded = 1
    MaxRuns = 2
    MaxRequests = 2
    Own = Own
    Stock = Stock
    None = None
SYMMETRY Sym
INVARIANTS
    TypeOK
    GeneratedMatchesVotes
    SeenActivityKept

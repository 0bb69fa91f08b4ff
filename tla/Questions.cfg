CONSTANTS
    Users = {u1, u2}
    Guests = {g1}
    Question = question
    Options = {optA, optB}
    Reasons = {reason1, reason2}
    r1 = r1
    r2 = r2
    r3 = r3
    Requests = {r1, r2, r3}
    Plans <- MCPlans
    Stored = stored
    None = none
SYMMETRY Alike
SPECIFICATION QuestionsSpec
INVARIANTS
    TypeOK
    LikesAsAsked
    DetailSound

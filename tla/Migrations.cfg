CONSTANTS
    People = {p1, p2}
    Guests = {g1}
    t1 = t1
    t2 = t2
    TestUsers <- TwoTestUsers
    Demo = demo
    Nobody = nobody
    FirstTitles = {f1}
    c1 = c1
    c2 = c2
    Catalogue <- TwoTitles
    own = own
    p1 = p1
    Names <- TwoNames
    Titles <- NewAndListed
    Quota = 3
    Targets = {0, 7, 10, 13, 15, 17, 20}
    Idle = idle
    MaxActs = 2
    MaxCommands = 3
SPECIFICATION MigrationsSpec
INVARIANTS
    MigrationsTypeOK
    SchemaOfRevision
    StopsOnlyHere
PROPERTY PeopleKept

SPECIFICATION FairSpec
CONSTANTS
    None = None
    Part = Part
    exe = exe
    report = report
    Files = {exe, report}
    Kind <- MCKind
    Declared <- MCDeclared
    Queries = {q1}
    Adds = {a1, a2}
    Tabs = {t1, t2}
INVARIANTS
    PromotesItsBytes
PROPERTIES
    SettledShown ReloadsForNews

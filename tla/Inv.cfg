SPECIFICATION FairSpec
CONSTANTS
    i1 = i1
    i2 = i2
    s1 = s1
    s2 = s2
    Purchases = {i1, i2}
    Slugs = {s1, s2}
    Reserved = {}
    Names = {n1}
    Answers = {a1, a2, a3}
    Keys = {k1}
    Changes <- MCChanges
    InitSlug <- MCInitSlug
    Workers = {w1, w2}
    MaxWrites = 3
    MaxFailures = 1
    None = None
INVARIANTS TypeOK FreshUnlessDisturbed PurchaseSlugAgrees AnswersBounded
PROPERTY EventuallyFresh

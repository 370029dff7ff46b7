CONSTANTS
    Words <- MCWords
    Lower <- MCLower
    Squash <- MCSquash
    Objects = {"o1", "o2"}
    Properties = {"p1"}
    Metrics = {"m1"}
    Intents = {"n1"}
    OwnerOf <- MCOwnerOf
    NameOf <- MCNameOf
    Payloads <- MCPayloads
    Ids = {1, 2, 3, 4}
    MaxRequests = 3
    Ods = {"od1", "od2"}
    Props = {"c1", "c2", "c3"}
    Links = {"l1"}
    Owner <- MCOwner
    Ends <- MCEnds
    MaxTexts = 2
    MaxIssued = 5
    MaxOpen = 2
SPECIFICATION MCSpec
INVARIANTS TriageReplaces KeywordTableIsSound StaleCanonicalHasACause JoinsFollowTheOds
CHECK_DEADLOCK FALSE

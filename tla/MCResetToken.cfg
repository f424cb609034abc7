SPECIFICATION Spec
CONSTANTS
    i1 = i1
    i2 = i2
    i3 = i3
    ann = ann
    ben = ben
    p1 = p1
    g1 = g1
    t1 = t1
    r1 = r1
    r2 = r2
    None = None
    Ids <- MCIds
    Emails <- MCEmails
    Choices <- MCChoices
    Subs <- MCSubs
    GoogleEmail <- MCGoogleEmail
    Tokens <- MCTokens
    Requests <- MCRequests
    Failing = {}
INVARIANTS TokenAcceptedOnce

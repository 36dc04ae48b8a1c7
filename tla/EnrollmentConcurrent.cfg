CONSTANTS
    t1 = t1
    t2 = t2
    o1 = o1
    o2 = o2
    e1 = e1
    Token <- TwoTokens
    Endpoint <- ThreeEndpoints
    OwnId <- OwnIds
    Handler = {h1, h2}
    Unclaimed = Unclaimed
SPECIFICATION Spec
PROPERTIES SettledBinding

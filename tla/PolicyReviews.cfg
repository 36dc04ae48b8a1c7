CONSTANTS
    h1 = h1
    h2 = h2
    h3 = h3
    web = web
    ssh = ssh
    r1 = r1
    r2 = r2
    r3 = r3
    t1 = t1
    t2 = t2
    NoReview = NoReview
    Host <- ThreeHosts
    Service <- TwoServices
    Request <- Usual
    Review <- ThreeReviews
    Applier <- TwoAppliers
    Setting <- FaultsOrRaces
SPECIFICATION Spec
SYMMETRY Symmetry
INVARIANTS TypeOK NamesAreUnique BlockIsEffective AppliedBlocksHold
PROPERTIES WriteIsReviewed
CHECK_DEADLOCK FALSE

SPECIFICATION Spec
CONSTANTS
    FinalizedTargets = {f1, f2}
    HeadTargets = {h1, h2, h3}
    Peers = {p1, p2}
    NoTarget = NoTarget
    PARALLEL_HEAD_CHAINS = 2
SYMMETRY Symmetry
INVARIANTS StateMatchesChains DebugAssertsHold NoForgottenHeadPeers

SPECIFICATION Spec
CONSTANTS
    None = None
    Scenarios <- StdinScenarios
INVARIANT StdinReachesGuest

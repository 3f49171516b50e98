SPECIFICATION AuthSpec
CONSTANTS
    Requests = {r1, r2, r3}
    Third = r3
    Sids = {k1, k2}
    Slots = 2
    MaxFailures = 1
    Mixes <- MCMixes
    MaxSecrets = 2
    MaxCodes = 1
    LastWindow = 2
    None = None
SYMMETRY AuthSymmetry
VIEW AuthView
INVARIANTS
    OnboardedOnce
    CodesAcceptedOnce
    SecondFactorProven
    TriesBounded
    SlotsExact

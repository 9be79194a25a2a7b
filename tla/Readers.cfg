CONSTANTS
    Chains = {1, 2}
    Sources = {1, 2}
    MaxIds = 2
    MaxOps = 3
    MaxDamage = 1
    Trusts <- Both
    Listed <- First
SPECIFICATION Spec
INVARIANTS
    VerdictsTrue
    DamageFound
    ForgottenWithheld
    BundleConsistent
\* A behaviour ends when its operations are used up and both readers have returned.
CHECK_DEADLOCK FALSE

\* Two pages opened in two tabs, or one after the other; one sign-out, one
\* sign-in, and one thing that goes wrong.
CONSTANTS
    Tabs = {t1, t2}
    MaxSignIns = 1
    MaxSignOuts = 1
    MaxOpens = 2
    MaxFaults = 1
SPECIFICATION Spec
INVARIANTS
    TypeOK
    SignedOutForGood
    SignInIsKept
    SignOutReachesTabs
    NeverStranded
CHECK_DEADLOCK FALSE

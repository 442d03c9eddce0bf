SPECIFICATION BarriersSpec
CONSTANTS
    Guests = {1, 2}
    Others = {1, 2}
    Identities = {"x", "y"}
    Ticks = {3, 4}
    States = {"a", "b"}
    NoState = "none"
    MaxLeft = 1
INVARIANTS DoneMeansAllHold HostIsLast NobodyIsStalledShort
INVARIANT StartsTheSame
PROPERTIES AgreementCompletesWarm StartupCompletesCold
CHECK_DEADLOCK FALSE

CONSTANTS
    Unreported = Unreported
    Products <- AllProducts
    Releases <- MCReleases
SPECIFICATION ModelsSpec
INVARIANT RefusalTells
INVARIANT PresentTells
INVARIANT ReadsWhatIsJoined
INVARIANT UpgradeLosesNothing
CHECK_DEADLOCK FALSE

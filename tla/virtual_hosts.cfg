SPECIFICATION Spec
CONSTANTS
    Names = {a, b}
    NoName = NoName
    MaxRules = 3
    MaxSeen = 3
    Configs <- MCConfigs
    Urls <- MCUrls
SYMMETRY Symmetry
INVARIANTS
    TypeOK
    FailureContained
    CertificateFits
    RedirectLeadsHome
    LongestLocation
    PageOrNotFound
CHECK_DEADLOCK FALSE

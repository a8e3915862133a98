SPECIFICATION DeploySpec

CONSTANTS
    Nothing = Nothing
    Malformed = Malformed
    Missing = Missing
    Torn = Torn
    Block = Block
    Fresh = Fresh
    Snapshots <- MCSnapshots
    Spaced <- MCSpaced
    RequiredHa <- MCRequiredHa
    Limits <- MCLimits
    Target = 6
    Rank <- MCRank
    SourceRank <- MCSourceRank
    VendorScore <- MCVendorScore
    MaxBuilds = 1
    VendorMarked <- MCVendorMarked
    Literals <- MCLiterals
    Others <- MCOthers
    Upper <- MCUpper
    Lower <- MCLower
    Digits <- MCDigits
    IbanLength <- MCIbanLength
    Rolls <- MCRolls
    Originals <- MCOriginals

CHECK_DEADLOCK FALSE

INVARIANT CustomExclusionKept

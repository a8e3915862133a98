SPECIFICATION DesktopSpec

CONSTANTS
    Gateways = {1, 2}
    Ports = {1, 2}
    Nothing = Nothing
    Earlier = Earlier
    Missing = Missing
    Torn = Torn
    secret = secret
    pii = pii
    Categories = {secret, pii}
    PageSize = 1
    None = None
    Requests = {1, 2}
    Ring = 1
    Socket = 1
    Bounds <- MCBounds

INVARIANTS
    DesktopTypeOK
    
    
    PagesAreExact

PROPERTIES
    TrayFindsGateway
    FeedFollowsGateway

CHECK_DEADLOCK FALSE

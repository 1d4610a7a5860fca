SPECIFICATION FrontSpec
CONSTANTS
    r1 = r1
    r2 = r2
    lan = lan
    Req = {r1, r2}
    Env <- Environments
    Given <- Updates
    Cidr = {lan}
    MaxRate = 1000000
    DefaultUpload = 10
    SettingsEnabled = {"dbfail", "restart"}
    Unset = Unset
    Account = {u1, u2}
    Base = 128
    Top = 3
    Size = {300, 128}
    Samples <- TheSamples
    FormsEnabled = {"fail", "lose", "elsewhere"}
    FormsActs = 4
    PageFolder <- TheFolders
    PageFile <- TheFiles
    Name = "n"
    Mount <- TheMount
    Visits <- TheVisits
    Servers <- TheServers
    Scope <- TheScope
    PagesEnabled = {"fail", "expire", "policy", "reload", "create", "logout"}
    MaxEntries = 3
    PagesActs = 4
    Code = {c, n}
    InPlace = {m1, m2}
    Fresh = {n}
    Typed = {2, 3}
    Beginning <- TheBeginnings
    ViewerEnabled = {"fail", "lose", "elsewhere", "reload"}
    ViewerActs = 6
    None = None
SYMMETRY Symmetry
INVARIANTS FormsSettle OffersMatchServer ShownIsSaved TextIsOfItsFile
PROPERTIES SettingsSurvive LonePersists UntouchedStays RouteIsKept
CHECK_DEADLOCK FALSE

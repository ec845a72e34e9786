\* every policy, with and without an API document, sessions lost at any page
SPECIFICATION Spec
CONSTANTS
    profile = profile
    login = login
    delete = delete
    settings = settings
    password = password
    script = script
    partner = partner
    Paths <- SitePaths
    AuthPaths = {login, password}
    ActsPaths = {delete}
    InScope <- SitePages
    Root = settings
    Static = {script}
    Params = {"back", "id", "user", "newpass"}
    LoginParams = {"user"}
    ChangeParams = {"newpass"}
    Pages <- SitePages
    Crawls <- SiteCrawls
    Links <- SiteLinks
    FormsOn <- SiteForms
    LoginForms <- SiteLogin
    Documented <- SiteDocument
    Policies <- AllPolicies
INVARIANTS PolicyIsKept FoundCredentialFormsAreSpared FoundIsTested ZapSparesNotedPaths
CHECK_DEADLOCK FALSE

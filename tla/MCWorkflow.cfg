\* the loop over a site with a third-party page, active tools allowed
SPECIFICATION Spec
CONSTANTS
    home = home
    page = page
    pageAgain = pageAgain
    api = api
    cdn = cdn
    broken = broken
    blank = blank
    empty = empty
    katana = katana
    ferox = ferox
    zap = zap
    nuclei = nuclei
    Raws <- Site
    Key <- Canonical
    Blank = empty
    InScope <- Ours
    Malformed = {broken}
    Target = home
    Discoverers <- Crawlers
    Detectors <- Scanners
    Active = {ferox, zap}
    AllowActive = TRUE
    DryRun = FALSE
    MaxRounds = 2
INVARIANTS ToolsStayInScope CapsAreHonest
CHECK_DEADLOCK FALSE

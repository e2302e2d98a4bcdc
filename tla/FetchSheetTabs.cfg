SPECIFICATION LadderSpec
CONSTANTS
    Fetches = {f1, f2}
    Urls <- Tabs
    Key <- SheetKey
    HasAdapter = {tab1, tab2}
    Full = 3
    page = page
    quote = quote
    tab1 = tab1
    tab2 = tab2
SYMMETRY FetchSymmetry
INVARIANTS
    CacheServesTheUrl

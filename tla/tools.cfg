SPECIFICATION Spec
CONSTANTS
    None = None
    dense = dense
    latent = latent
    keyless = keyless
    sliding = sliding
    sizeless = sizeless
    api = api
    big = big
    tiny = tiny
    blind = blind
    ghost = ghost
    q8 = q8
    q4 = q4
    chat = chat
    typo = typo
    acme = acme
    Slugs <- MCSlugs
    Arch <- MCArch
    Tracked = {dense, sizeless, api}
    Quants <- MCQuants
    Workloads <- MCWorkloads
    Precision = 1000
    MaxVersion = 1
    Content <- MCContent
    Age <- MCAge
    CheapestArgs <- MCCheapestArgs
    BudgetArgs <- MCBudgetArgs
    CompareArgs <- MCCompareArgs
    FitArgs <- MCFitArgs

INVARIANTS TypeOK CheapestOfAll ToolsAgreeWithTable PlanKeepsItsPromise
           BestRentalsPlanned TrustIsNotGained ReasonNamesTheObstacle

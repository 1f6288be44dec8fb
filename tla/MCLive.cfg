SPECIFICATION LiveSpec
CONSTANTS
    Clients = {"P01", "P02"}
    Viewers = {"V1"}
    Setups <- MCSetups
INVARIANTS FeedFollowsLog ReportTellsTheRun NothingIsLeft ZeroIsClean
PROPERTIES ViewersCatchUp MainReturns
CHECK_DEADLOCK FALSE

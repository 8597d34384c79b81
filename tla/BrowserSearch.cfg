SPECIFICATION BrowserSpec
CONSTANTS
    None = None
    Rom = {1, 2}
    Archive = {3}
    Good = {3}
    Place <- MCPlace
    Threshold = 2
    Page = 2
    HistorySize = 1
    FirstCmd = {None}
    Thumbnails = TRUE
    MaxChanges = 2

PROPERTIES SearchLeavesCard

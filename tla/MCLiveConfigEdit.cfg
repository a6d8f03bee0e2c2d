SPECIFICATION FairSpec
CONSTANTS
    Sizes = {1, 2}
    Rates = {44, 48}
    DefaultRate = 48
    Configs <- MCConfigs
    MaxChanges = 2
PROPERTY
    SavedWhilePlayingApplies

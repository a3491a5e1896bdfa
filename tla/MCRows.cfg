CONSTANTS
    Asked <- AllModels
    NoEmptyText <- MCNoEmptyText
SPECIFICATION Spec
INVARIANT NoRowIsRefused
INVARIANT ColumnsFillTheirFields
INVARIANT EmptinessSurvives
INVARIANT FiltersDecide

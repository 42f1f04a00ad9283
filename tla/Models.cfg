\* Fields nested twice; three query sets and a subquery over three rows.
CONSTANTS
    Leaves <- MCLeaves
    Keys <- MCKeys
    MaxDepth = 2
    Conditions <- MCConditions
    Objs <- MCObjs
    MaxRowsUseExpression = 2
    MaxObjs = 3
    MaxQueries = 4
SPECIFICATION Spec
CHECK_DEADLOCK FALSE
INVARIANTS  InspectedBack ValuesLoadedAsSaved
INVARIANTS RowsAsFiltered InsertedAsGiven WritesAsAsked
PROPERTY QuerySetsImmutable

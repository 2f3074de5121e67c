CONSTANTS
    None = None
    Missing = Missing
    Ids <- MCIds
    ClassNames <- MCClassNames
    NsNames <- MCNsNames
    OtherNames <- MCOtherNames
    Toolkit <- MCToolkit
    BaselineLines <- MCBaselineLines
    BaselineComments <- MCBaselineComments
    Members <- MCMembers
    Compounds <- MCCompounds
    MaxDocs = 2
    MaxCompounds = 1
    MaxMembers = 2
SPECIFICATION Spec
CHECK_DEADLOCK FALSE
INVARIANT PublishedSuppressedDisjoint

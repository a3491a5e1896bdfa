CONSTANTS
    Main = Main
    a = a
    b = b
    Unknown = Unknown
    NoText = NoText
    Keys <- MCKeys
    Texts <- MCTexts
    Choices <- MCChoices
    VersionSets <- MCVersionSets
SPECIFICATION Spec
INVARIANT ThreeRules
CHECK_DEADLOCK FALSE

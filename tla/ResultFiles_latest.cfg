CONSTANTS
    None = None
    Keys <- MCKeys
    Indices <- MCIndices
    MaxObjects = 3
SPECIFICATION Spec
INVARIANTS ResultViewsAgree

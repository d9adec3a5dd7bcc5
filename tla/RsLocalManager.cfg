CONSTANTS
    Uri <- MCUri
    Digest <- MCDigest
    Size = {1, 2}
    Absent = Absent
    Null = Null
    MaxEntries = 2
    MaxEdits = 1
SPECIFICATION Spec
INVARIANTS TableListsFiles ValidIsExact NeverOverwritesBigger WantedIsExact

CONSTANTS
    s1 = s1
    Scripts = {s1}
    Configs <- MCConfigs
    Default <- MCDefault
    MaxEdits = 2
    MaxCommands = 1
    MaxStarts = 1
SPECIFICATION FilesSpec
INVARIANTS FilesTypeOK DevKeepsUp RunsWhatIsWritten
CHECK_DEADLOCK FALSE

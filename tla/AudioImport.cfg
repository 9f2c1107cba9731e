SPECIFICATION FairImport
CONSTANTS
    fev = fev
    mp3 = mp3
    engine = engine
    Files <- MCFiles
    Required <- MCRequired
    NoFile = NoFile
    Torn = Torn
    Obbs = {o1, o2}
    MaxMishaps = 3
INVARIANTS MusicIsComplete
PROPERTIES MusicReturns

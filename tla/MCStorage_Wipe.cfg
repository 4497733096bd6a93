CONSTANTS
    g1 = g1
    g2 = g2
    Games <- MCGames
    Scenes <- WipeScenes
    Files <- MCFiles
    Absent = Absent
SPECIFICATION Spec
CHECK_DEADLOCK FALSE
PROPERTIES ResetClearsSaves

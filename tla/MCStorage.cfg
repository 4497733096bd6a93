CONSTANTS
    g1 = g1
    g2 = g2
    Games <- MCGames
    Scenes <- MCScenes
    Files <- MCFiles
    Absent = Absent
SPECIFICATION Spec
CHECK_DEADLOCK FALSE
PROPERTIES ConsoleSpec

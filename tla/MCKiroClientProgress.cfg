SPECIFICATION FairSpec
CONSTANTS
  Answers = {}
  Platforms = {"darwin", "windows"}
  Rivals = {}
PROPERTY CommandEnds
PROPERTY StopEnds

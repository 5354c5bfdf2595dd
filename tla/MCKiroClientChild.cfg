SPECIFICATION FairSpec
CONSTANTS
  Answers = {}
  Platforms = {"darwin", "windows"}
  Rivals = {"sni"}
PROPERTY ChildWatched

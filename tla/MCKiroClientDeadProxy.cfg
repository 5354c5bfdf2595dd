SPECIFICATION Spec
CONSTANTS
  Answers = {}
  Platforms = {"darwin", "windows"}
  Rivals = {"sni"}
INVARIANT NoDeadProxy

SPECIFICATION Spec
CONSTANTS
  Answers = {"local", "real"}
  Platforms = {"darwin", "windows"}
  Rivals = {"sni", "http"}
INVARIANT TypeOK
INVARIANT KeepsPromise
INVARIANT FailureUnlocks
INVARIANT ChildEnds

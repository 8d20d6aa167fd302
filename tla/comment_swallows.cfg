SPECIFICATION Spec
CONSTANTS
  Letters <- MCLetters
  CommandLines <- Plain
  FitPhrases <- OfFit
  Null = Null
  MAX_RECURS_DEPTH = 20
  Files <- AtcFiles
  Number <- MCNumber
  Marked <- MCMarked
  Leftovers = {0, 7}
  MAX_TRANSFER = 1024
INVARIANTS CommentsIgnored

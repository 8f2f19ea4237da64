SPECIFICATION LoadSpec
CONSTANTS
  a = a
  b = b
  comma = comma
  semicolon = semicolon
  nl = nl
  q = q
  Plain = {a, b}
  Delims <- MCDelims
  Newline = nl
  Quote = q
  Files <- Spells
  Chunk = 12
  HeadSize = 10
  NotifySize = 2
  PageSize = 4
INVARIANTS
  EverySpell

SPECIFICATION FairSpec
CONSTANTS
  Mine = mine
  Conns = {mine, other}
  NoConn = none
  Files <- SomeFiles
  Unreadable <- Directories
  ShortReads = {6}
  path <- Path
  headers <- Headers
  Symbols <- Strings
  BUFSIZE = 7
CHECK_DEADLOCK FALSE
INVARIANTS NameIsOfPath OutputIsPrefix ResultIsRight NoZombieForgotten
 

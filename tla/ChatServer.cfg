SPECIFICATION Spec
\* the server stops
CHECK_DEADLOCK FALSE
CONSTANTS
  chat = chat
  base = base
  voice = voice
  Main = main
  Handlers = {h1, h2, h3}
  Threads = {h1, h2, h3, main}
  NoThread = none
  MaxWaiting = 2
  NoModel = none
  Order <- MCOrder
  Speech <- MCSpeech
  Residents = {"one", "auto"}
  Total = 4
  Size <- MCSize
  Estimate <- MCEstimate
  Margin = 0
  MaxCache = 1
INVARIANTS AnswerKeepsModel RefusedAlone
PROPERTIES EvictsForRoom

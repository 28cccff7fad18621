SPECIFICATION Spec
CONSTANTS
  w1 = w1
  w2 = w2
  w3 = w3
  Workers = {w1, w2}
  Main = Main
  Nobody = Nobody
  Stop = Stop
  Daemons = {}
  Asks <- Everybody
  Joins <- Everybody
  Spawners = {Main, w1, w2}
  MaxOps <- Two
INVARIANT
  Answerable
PROPERTY
  ImplementsService
CHECK_DEADLOCK FALSE

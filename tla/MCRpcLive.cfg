SPECIFICATION FairSpec
CONSTANTS
  w1 = w1
  w2 = w2
  w3 = w3
  Workers = {w1, w2, w3}
  Main = Main
  Nobody = Nobody
  Stop = Stop
  Daemons = {w3}
  Asks <- Chain
  Joins <- MainJoins
  Spawners = {Main}
  MaxOps <- MainMore
INVARIANT
  ExitWaits
PROPERTY
  EveryoneComesBack

SPECIFICATION FairSpec
CONSTANTS
  Target = 3
  TradePrice = 4
  Slip = 1
  Step = 2
  MaxPlaces = 2
  MaxPrice = 6
  MaxMishaps = 1
  Faults = {"book", "raise", "cancel", "id"}
INVARIANTS
  TypeOK
  AccountedIsSound
  WithinSlippage
  OneOrderAtATime
PROPERTIES
  Terminates

\* All six boards, every byte that selects gain, coupling, pulse and rate.
CONSTANTS
  Variants <- AllDevices
  RateBytes <- SomeRates
  Rdy0 <- PulledUp
  Voltages <- SomeVoltages
  Couplings <- SomeCouplings
  Pulses <- SomePulses
  Levels <- SomeLevels
SPECIFICATION PinsOrRatesSpec
INVARIANTS
  BoardAsAsked
  SamplesAtNominalRate
PROPERTY OnlyRequestedPins

SPECIFICATION FairSpec
CONSTANTS
    CalTarget = 3
    Gyro = 2
    RestRates <- MCRestRates
    FlightRates <- MCFlightRates
    Tilts <- MCTilts
    Sticks <- MCSticks
    GainSets <- MCGainSets
    MaxFaults = 4
INVARIANTS
    TypeOK
    ReadyIsCurrent
    AttitudeFollowsTilt
    CorrectionSound
PROPERTIES
    ProbeHasOutcome
    SensorsRecover

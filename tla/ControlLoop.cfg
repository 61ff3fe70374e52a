SPECIFICATION LoopSpec
CONSTANTS
    None = None
    Chargers = {"car"}
    Tanks = {"tank"}
    Pumps = {}
    Others = {"battery"}
    Settings <- HouseSettings
    Rating <- HouseRating
    MinPower <- CarMin
    MaxPower <- CarMax
    ByContact = {}
    Deadband = 1
    Ramp = 3
    Asks <- HouseAsks
    MaxChanges = 2
    MaxWrites = 2
    MaxFaults = 1
INVARIANTS LagIsBounded
PROPERTIES GuardHasTheLastWord OperatorsWordSurvives RampArrives

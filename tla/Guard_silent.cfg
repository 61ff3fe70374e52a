SPECIFICATION GuardSpec
CONSTANTS
    None = None
    Devices <- House
    Order <- HouseOrder
    Kind <- HouseKind
    Nameplate <- HouseNameplate
    Takes <- HouseNameplate
    Gives <- HouseNameplate
    Bidirectional = {"car"}
    Commandable = {"car", "battery", "pv", "tank"}
    Participating = {"car", "battery", "pump"}
    Threshold = 3
    Conductor <- HouseConductor
    Switchable = {"car"}
    LeastAmps = 1
    MostAmps = 2
    UnbalanceLimit = 3
    ImportCeiling = 10
    ExportCeiling = 14
    StatutoryCap = 4
    Circuits <- HouseCircuits
    LendWindow = 1
    TickPeriod = 2
    Weight <- HouseWeight
    Wants <- HouseWants
    Limits <- HouseLimits
    Sunlight = {0, 6}
    Rests = {0, 2}
    MaxTrouble = 1
    MaxChanges = 1
PROPERTY SilenceIsSafe

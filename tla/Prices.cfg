SPECIFICATION PricesSpec
CONSTANTS
    Nothing = Nothing
    Sources = {1, 2}
    Minutes <- MCMinutes
    Ahead = 1
    PriceLen = 3
    Interval = 2
    MaxBackoff = 5
    Doublings = 2
    Retention = 5
    AskingMost = 2
    MaxResets = 1
INVARIANTS TheBestSeen InItsTurn NothingIsUnlearned
PROPERTY PricedAgain

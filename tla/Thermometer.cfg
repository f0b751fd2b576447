SPECIFICATION FairSpec
CONSTANTS
    SearchAt = 16
    Delay = 3
    Conversion = 2
    Tries = 2
    Rest = 2
    Measurable <- Weather
INVARIANTS TypeOK ReadingRight ByteRight
PROPERTIES TemperatureFollows

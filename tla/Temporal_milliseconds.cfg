CONSTANTS
    K = 5
    Day = 6
    Half32 = 1024
    Half64 = 8192
    Units = {"milliseconds"}
    Span = 8
SPECIFICATION TemporalSpec
PROPERTY KeepsValue

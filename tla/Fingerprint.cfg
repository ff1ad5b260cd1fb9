CONSTANTS
    Gallery <- SharedSlot
    MaxPress = 2
    MaxToken = 2
    MaxMishaps = 2
SPECIFICATION Spec
INVARIANTS MatchIsOwn DarkWhenIdle
PROPERTIES OncePerPress LitWhenPainted RequestEnds
CHECK_DEADLOCK FALSE

\* Two initial seeds over three locations, and room for one more: ties, a seed
\* displaced from some and from all of its locations, a location covered by
\* another's top, and a seed appended while others are fuzzed.
CONSTANTS
    MapSize = 3
    InitialSeeds = 2
    MaxQueue = 3
    Scores = {1, 2}
SPECIFICATION Spec
INVARIANTS
    TopCountExact
    TopIsCheapest
    FavoredCover
    FavoredPending
PROPERTIES
    FavoredIsFuzzed

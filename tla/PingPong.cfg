\* Thirty round trips.
CONSTANT Rounds = 30
SPECIFICATION Spec
INVARIANTS Inv DataRaceFree ReceiverInStep
PROPERTY PlaysRoundTrips

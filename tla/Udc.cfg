SPECIFICATION Spec
CONSTANT Byte = 4
INVARIANT OffMeansOff
INVARIANT CountersPair
PROPERTY AcceptedMeansAllOn

SPECIFICATION Spec
CONSTANTS
    in1 = in1
    in2 = in2
    Pins <- TwoPins
    Samples <- EndSamples
    Numbers = 2
SYMMETRY PinSymmetry
INVARIANTS ChangeReported OneChannel EncodingRight

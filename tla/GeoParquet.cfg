SPECIFICATION Spec
CONSTANTS
    Names <- Names_
    Word = 3
    Mantissa = 1
    Infinity = 1000
    Inputs <- Inputs_
INVARIANTS
    RoundTrip
    MetadataAgrees
    StreamedFileIsWhole
    RefusesOnly

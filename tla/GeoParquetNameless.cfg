\* Properties of any name, the empty one too, with -stream and without.  It is
\* meant to fail: the value of a property without a name does not come back.
SPECIFICATION Spec
CONSTANTS
    Names <- Names_
    Word = 3
    Mantissa = 1
    Infinity = 1000
    Inputs <- NamelessInputs
INVARIANT RoundTrip

------------------------------ MODULE MCFraming ------------------------------
\* An instance of Framing and DenoFraming for TLC: four queries of both valid
\* lengths, one that is too long and one that is empty, in segments of any size
\* up to more than two of them.
EXTENDS DenoFraming

MCQLens == <<2, 3, 2, 3, 4, 0>>
=============================================================================

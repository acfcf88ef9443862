------------------------------- MODULE MCNative -------------------------------
EXTENDS NativeProperties, TLC

CONSTANTS c1, c2

CallSymmetry == Permutations({c1, c2})
=============================================================================

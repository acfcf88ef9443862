----------------------------- MODULE MCGeneration -----------------------------
EXTENDS GenerationProperties, TLC

CONSTANTS a, b

ToolSymmetry == Permutations({a, b})
=============================================================================

--------------------------- MODULE MCEmbeddingApi ---------------------------
EXTENDS EmbeddingApi, TLC

CONSTANTS v, w, h1, h2

MCSymmetry == Permutations({v, w}) \cup Permutations({h1, h2})
=============================================================================

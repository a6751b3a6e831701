--------------------------- MODULE MCApiKeyStores ---------------------------
\* Two keys and two callers; neither are told apart
EXTENDS ApiKeyStores, TLC

CONSTANTS k1, k2, c1, c2

Interchangeable == Permutations({k1, k2}) \cup Permutations({c1, c2})
=============================================================================

------------------------ MODULE MCRequestIdempotency ------------------------
EXTENDS RequestIdempotency, TLC

Interchangeable == Permutations(Requests)
=============================================================================

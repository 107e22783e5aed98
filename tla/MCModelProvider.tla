---------------------------- MODULE MCModelProvider ----------------------------
EXTENDS ModelProvider

MCRetryAfters == {1, 5}
=============================================================================

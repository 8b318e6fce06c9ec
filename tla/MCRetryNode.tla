----------------------------- MODULE MCRetryNode -----------------------------
EXTENDS RetryNode

\* No backoff, one that is capped at once and one that is capped later.
SomeBackoffs == {[initial |-> 0, max |-> 0], [initial |-> 2, max |-> 3], [initial |-> 1, max |-> 5]}
=============================================================================

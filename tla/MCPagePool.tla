----------------------------- MODULE MCPagePool -----------------------------
\* Instances of PagePool for TLC: a pool of a few pages of two bytes, whose
\* size need not be a whole number of pages, and requests that include the
\* largest a size_t holds.
EXTENDS PagePool

Requests == {1, 2, 3, 5, Width - 1}
=============================================================================

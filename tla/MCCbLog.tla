------------------------------ MODULE MCCbLog ------------------------------
\* An instance of CbLog for TLC: two threads that log beside the main one, a
\* log that is rotated after every entry, and two rotated files.
EXTENDS CbLog
=============================================================================

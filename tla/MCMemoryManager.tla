--------------------------- MODULE MCMemoryManager ---------------------------
\* Instances of MemoryManager for TLC.  Addresses count pages; the pools are
\* laid out as in the code, pinned at 0 and managed below device, with the
\* host buffers above all of them.
EXTENDS MemoryManager

Base == [pinned |-> 0, managed |-> 2, device |-> 5]
Page == [p \in Pools |-> 1]

\* A device pool alone.
DeviceTotal == [pinned |-> 1, managed |-> 1, device |-> 6]
\* A pinned pool of one page, so that most pinned memory is outside it, and a
\* managed pool that splits and merges.
MixedTotal  == [pinned |-> 1, managed |-> 3, device |-> 1]
=============================================================================

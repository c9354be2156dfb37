------------------------------ MODULE MCNvGpu ------------------------------
\* An instance of NvGpu for TLC: pages of two cells, a VRAM of two pages,
\* addresses for three, and requests of half a page and of one and a half.
EXTENDS NvGpu
=============================================================================

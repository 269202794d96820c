--------------------------- MODULE MCCompressStream ---------------------------
EXTENDS CompressStream
==============================================================================

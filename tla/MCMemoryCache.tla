---------------------------- MODULE MCMemoryCache ----------------------------
EXTENDS MemoryCache

=============================================================================

------------------------------ MODULE MCDigest ------------------------------
\* A small instance of Digest.
EXTENDS Digest

CONSTANT i1
=============================================================================

------------------------------ MODULE MCCipher ------------------------------
\* The cipher with every table over a few byte values.
EXTENDS Cipher
=============================================================================

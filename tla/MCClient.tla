------------------------------ MODULE MCClient ------------------------------
\* The client with its properties.
EXTENDS ClientProps
=============================================================================

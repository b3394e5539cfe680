------------------------------ MODULE MCConfig ------------------------------
\* A small byte and the decoded template.
EXTENDS Config

Bytes == 0..3
Your == <<2, 0>>
=============================================================================

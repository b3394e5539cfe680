------------------------------ MODULE MCBase64 ------------------------------
\* Bytes that set and clear every bit a mask may miss, and a full table.
EXTENDS Base64

Sample == {0, 3, 85, 170, 255}
Short == UNION {[1..n -> Sample] : n \in 0..4}
Table == [i \in 1..256 |-> (i * 77) % 256]
Some == Short \cup {Table}
=============================================================================

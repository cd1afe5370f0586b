------------------------------ MODULE MCReview ------------------------------
EXTENDS Review

\* Three near duplicates, the first and the untrusted last of which contradict each other
MCContradicts == {{1, 3}}
=============================================================================

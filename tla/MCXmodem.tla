------------------------------ MODULE MCXmodem ------------------------------
EXTENDS XmodemInvariant

\* The target's timeout of 2 s at one end and a longer one of the host at the
\* other, both the same, and a buffer that is too small.
Line(s, r, c) == [sTimeout |-> s, rTimeout |-> r, capacity |-> c]

MCSetups == {Line(2, 3, 4), Line(3, 2, 4), Line(2, 2, 4), Line(3, 2, 3)}
=============================================================================

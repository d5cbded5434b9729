--------------------------- MODULE MCAvatarReads ---------------------------
(* AvatarReads on a small instance.                                         *)
EXTENDS AvatarReads

\* Every replica runs with the same pixel limit.
SameLimits == [w \in Workers |-> {"fits"}]
=============================================================================

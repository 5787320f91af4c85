---------------------------- MODULE MCRateLimiter ----------------------------
(* Instances of RateLimiter for TLC. *)
EXTENDS RateLimiter, TLC

CONSTANTS c1, c2, c3, p1, w1, w2

\* A client leaves the header out, names another client, or writes noise.
MCWritten == {<<>>, << <<c1, Empty>>, <<Malformed, p1>> >>}

Hop(own) == [by |-> p1, own |-> own]

\* Straight to the server, or through one or two proxies.
MCRoutes == {<<>>, <<Hop(FALSE)>>, <<Hop(TRUE), Hop(FALSE)>>}

MCSymmetry == Permutations({w1, w2}) \cup Permutations({c2, c3})
=============================================================================

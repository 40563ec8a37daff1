------------------------------- MODULE MCNetd -------------------------------
(* Instances of the routing daemon for TLC. *)
EXTENDS Netd, TLC

\* Every external command works unless it is asked to add what exists.
NoFailures == {}
\* `ip` may refuse an addition (no IPv6 in the kernel, no privileges, ...).
AddMayFail == {"ip add"}
\* Everything but the removal of policy routing, whose failures the code ignores.
SomeMayFail == {"ip add", "nft load", "nft delete"}

SessionSymmetry == Permutations(Session)
=============================================================================

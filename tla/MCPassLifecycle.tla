-------------------------- MODULE MCPassLifecycle --------------------------
(* Instances of PassLifecycle for TLC. *)
EXTENDS PassLifecycle, TLC

CONSTANTS a1, a2, c1, c2

MCNone  == {}
MCOne   == {a1}
MCTwo   == {a1, a2}
Symm    == Permutations({a1, a2})
MCCall  == {c1}
MCCalls == {c1, c2}

(* Everything a walk may find, and walks that find little or nothing. *)
MCWalks == {{}, {"small", "dirs"}, {"large", "dirs", "links", "temps", "orphans"}}
MCWalkAll  == {{"large", "dirs", "links", "temps", "orphans"}}
MCWalkOnce == {{"large", "dirs", "orphans"}}
=============================================================================

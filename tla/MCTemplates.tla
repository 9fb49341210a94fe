---------------------------- MODULE MCTemplates ----------------------------
(* One template of two versions: one call of Execute, one of GetVersion,    *)
(* three writers.                                                           *)
EXTENDS Templates, TLC

CONSTANTS n1, v1, v2, old, new, broken, e1, g1, w1, w2, w3

V(v, content) == [version |-> v, content |-> content]
W(op, versions) == [op |-> op, name |-> n1, versions |-> versions]

AddOld     == W("Add", <<V(v1, old)>>)
AddTwice   == W("Add", <<V(v1, new), V(v1, old)>>)
AddBroken  == W("Add", <<V(v1, new), V(v2, broken)>>)
AddSecond  == W("AddVersion", <<V(v2, old)>>)
UpsertNew  == W("UpsertVersion", <<V(v1, new)>>)
UpsertBad  == W("UpsertVersion", <<V(v1, broken)>>)
UpsertNext == W("UpsertVersion", <<V(v2, new)>>)

\* The first brings the template, or fails to; the others come before or after
\* it, and collide with each other.  (Add does not look for a version that
\* comes twice.)
MCWrites ==
    [w \in Writers |-> CASE w = w1 -> {AddOld, AddBroken}
                        [] w = w2 -> {AddTwice, AddSecond, UpsertNew}
                        [] w = w3 -> {AddSecond, UpsertBad, UpsertNext}]
=============================================================================

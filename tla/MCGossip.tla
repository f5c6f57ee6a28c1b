------------------------------ MODULE MCGossip ------------------------------
(* Small instances of Gossip: a few servers of this kind and a few of others. *)
EXTENDS Gossip

CONSTANTS a, b,        \* servers
          f, g,        \* foreign hosts
          kf, kg, ka   \* their keys

Named(key, url) == [key |-> key, url |-> url, rep |-> Reputation]

\* g goes on naming f, whom nobody has rated, itself and a
Echo == [h \in {f, g} |->
    IF h = f THEN {<<>>}
    ELSE {<<[Named(kf, f) EXCEPT !.rep = 0], Named(kg, g), Named(ka, a)>>}]
Empty == [h \in Foreign |-> {<<>>}]
Blunt == [h \in {f, g} |-> IF h = f THEN {} ELSE {"forged"}]
Polite == [h \in Foreign |-> {}]
GoodPosts == {[valid |-> 1, invalid |-> 0]}
SomePosts == GoodPosts \cup {[valid |-> 1, invalid |-> 7]}

SeedG == [s \in Server |-> <<g>>]
\* b's configuration names b itself, too
Chain == [s \in {a, b} |-> IF s = a THEN <<g>> ELSE <<a, b>>]

\* as the theorems on reputation ask
ASSUME OwnKeys == KeysOfTheirOwn
=============================================================================

---------------------------- MODULE MCDirectChat ----------------------------
(* Small instances of DirectChat: ada sends one message or two.            *)
EXTENDS DirectChat, TLC

CONSTANTS ada, bob, k1, k2

Pair      == {ada, bob}
TwoIds    == {k1, k2}
OneId     == {k1}
TwoOwner  == [k \in TwoIds |-> ada]
OneOwner  == [k \in OneId |-> ada]

(* Requests are interchangeable.                                           *)
RequestSymmetry == Permutations(Requests)
=============================================================================

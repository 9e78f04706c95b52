------------------------------ MODULE MCOutbox ------------------------------
(* Instances of the outbox for TLC. *)
EXTENDS Outbox, TLC

CONSTANTS w1, w2, t1, t2, t3, t4, t5

MCEvents1 == {1}
MCEvents2 == {1, 2}
MCEvents5 == 1..5

AllRoutable == [e \in Events |-> "routable"]

\* Three events to send, of which two may be replays of the first, one nobody
\* consumes and one that is malformed.
MixedKinds == [e \in Events |-> CASE e = 4 -> "unconsumed"
                                   [] e = 5 -> "malformed"
                                   [] OTHER -> "routable"]

PublisherSymmetry == Permutations(Workers) \cup Permutations(Tokens)
=============================================================================

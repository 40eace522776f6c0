----------------------------- MODULE MCVerbosity -----------------------------
(* Instances of Verbosity for TLC: rules at two places about two topics.    *)
(* Of the texts of two rules those are taken in which the second rule takes *)
(* back, at one place or for one topic, what the first one gave.            *)
EXTENDS Verbosity

Rule(set, places, topics) == [set |-> set, places |-> places, topics |-> topics]
RunTexts == {<< Rule(TRUE, {}, {"a"}) >>,
             << Rule(FALSE, {"here"}, {"a"}) >>,
             << Rule(TRUE, {}, {Star}) >>,
             << Rule(TRUE, {Broken}, {"a"}) >>,
             << Rule(TRUE, {}, {Star}), Rule(FALSE, {"here"}, {"a"}) >>,
             << Rule(FALSE, {}, {"a"}), Rule(TRUE, {"here"}, {"b"}) >>}
TwoKeys == {[place |-> "here", topics |-> {"a"}], [place |-> "there", topics |-> {"a", "b"}]}
=============================================================================

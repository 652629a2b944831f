---------------------------- MODULE TopicListMC ----------------------------
(* An instance of TopicList for TLC.                                       *)
EXTENDS TopicList, TLC

SomeFilters == {<<"a">>, <<"+">>, <<"+", "b">>, <<"a", "#">>}
SomeNames   == {<<"a">>, <<"b">>, <<"a", "b">>}

AnyNode == Permutations(Nodes)
=============================================================================

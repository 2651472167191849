------------------------------- MODULE MCHub -------------------------------
(***************************************************************************)
(* Instances of Hub for TLC.                                               *)
(***************************************************************************)
EXTENDS Hub, TLC

\* Every message is an ordinary one of the same application.
PlainAttr == [m \in Messages |-> [Severity |-> 6, AppName |-> "worker"]]

\* Clients that ask for everything, and never change their mind.
WatchAll == {<<[kind |-> "number", value |-> 7], "">>}
NoUpdates == {}

\* Messages that different filters tell apart, for clients that do.
MixedAttr == [m \in Messages |-> IF m = "debug" THEN [Severity |-> 7, AppName |-> "worker"]
                                                ELSE [Severity |-> 5, AppName |-> "api"]]

SomeQueries == {<<[kind |-> "absent"], "">>,
                <<[kind |-> "number", value |-> 9], "worker">>}

SomeUpdates == {[Severity |-> 7, omitempty |-> Nil, AppName |-> "api"],
                [Severity |-> Nil, omitempty |-> 7, AppName |-> Nil]}

Symmetry == Permutations(Clients) \cup Permutations(Messages)
=============================================================================

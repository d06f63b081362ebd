----------------------------- MODULE MCDeferred -----------------------------
(* Finite values for the constants of Deferred.                            *)
EXTENDS Deferred

Both == [cb |-> "fn", err |-> "fn", user_data |-> NULL]
CbOnly == [cb |-> "fn", err |-> NULL, user_data |-> NULL]
ErrOnly == [cb |-> NULL, err |-> "fn", user_data |-> NULL]

MCChains == {<<>>, <<Both>>, <<CbOnly>>, <<ErrOnly>>, <<Both, Both>>,
             <<CbOnly, ErrOnly>>, <<Both, Both, Both>>}
=============================================================================

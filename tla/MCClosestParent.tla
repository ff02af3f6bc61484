--------------------------- MODULE MCClosestParent ---------------------------
(***************************************************************************)
(* All lists of at most three delegations, over paths of every kind.       *)
(***************************************************************************)
EXTENDS ClosestParent

MCSegments == {"a", "b", "c"}
MCDirs == {<<>>, <<"a">>, <<"a", "b">>, <<"a", "b", "c">>, <<"b">>}
MCLeaves == {"pubkey", "data"}

\* Lengths of "/", "/a/", "/a/b/", "/a/b/c/", "/b/".
MCStrLen == [d \in MCDirs |-> 2 * Len(d) + 1]

Paths == {Malformed, [dir |-> <<"a">>, leaf |-> "data"]}
            \cup {Branch(d) : d \in MCDirs}

MCTargets == {Branch(d) : d \in MCDirs}
                \cup {[dir |-> <<"a", "b">>, leaf |-> "data"]}
MaxListing == 3
MCListings == UNION {[1..n -> Paths] : n \in 0..MaxListing}

=============================================================================

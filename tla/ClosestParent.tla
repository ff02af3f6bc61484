---------------------------- MODULE ClosestParent ----------------------------
(***************************************************************************)
(* The loop of resolve_closest_parent_signing_key (rust-lib/src/api.rs):   *)
(* one pass over a list of delegations, in whatever order and with         *)
(* whatever strings it holds, that keeps the longest proper ancestor of    *)
(* the target seen so far.                                                 *)
(***************************************************************************)
EXTENDS KeyPaths

CONSTANTS
    Targets,    \* keys to resolve a signer for
    Listings,   \* lists of delegated paths
    NoBest      \* None

ASSUME InputsAssumption ==
    /\ Targets \subseteq Key
    /\ Listings \subseteq Seq(PathString)
    /\ NoBest \notin PathString

VARIABLES
    target, delegations,    \* the arguments
    i,                      \* index of the delegation to look at
    best,                   \* the best ancestor so far, or NoBest
    result                  \* the returned key path, or NoBest

vars == <<target, delegations, i, best, result>>

Init ==
    /\ target \in Targets
    /\ delegations \in Listings
    /\ i = 1
    /\ best = NoBest
    /\ result = NoBest

\* Mutant: the target counts as its own ancestor.
AncestorOrTarget(d) == parse_branch_path(d) /\ parent_of(d, target)

\* The loop does not `continue' past d.
Candidate(d) == parse_branch_path(d) /\ d # target /\ parent_of(d, target)

\* Mutant: the shortest ancestor wins.
take_shorter(d) ==
    best = NoBest \/ StrLen[d.dir] < StrLen[best.dir]

take(d) == best = NoBest \/ StrLen[d.dir] > StrLen[best.dir]

Visit ==
    /\ i <= Len(delegations)
    /\ i' = i + 1
    /\ best' = IF Candidate(delegations[i]) /\ take(delegations[i])
               THEN delegations[i] ELSE best
    /\ UNCHANGED <<target, delegations, result>>

Return ==
    /\ i > Len(delegations)
    /\ result = NoBest
    /\ result' = IF best = NoBest THEN pubkey_key_path
                 ELSE delegate_pubkey_key(best)
    /\ UNCHANGED <<target, delegations, i, best>>

Next == Visit \/ Return

Spec == Init /\ [][Next]_vars

-----------------------------------------------------------------------------

\* The types of the locals of resolve_closest_parent_signing_key.
TypeOK ==
    /\ target \in Key
    /\ delegations \in Seq(PathString)
    /\ i \in 1..(Len(delegations) + 1)
    /\ best \in Key \cup {NoBest}
    /\ result \in Key \cup {NoBest}

Visited == {delegations[j] : j \in 1..(i - 1)}

\* Whatever the order of the list, best is the longest proper ancestor among
\* the delegations visited so far, and None only if there is none.
BestIsClosestSoFar ==
    LET ancestors == ProperAncestors(target, Visited)
    IN  IF best = NoBest THEN ancestors = {} ELSE IsClosest(best, ancestors)

\* The function returns what PlogAccount uses, a value that depends only on
\* the set of delegated paths.
ResultIsClosestParent ==
    result # NoBest =>
        result = resolve_closest_parent_signing_key(target, Range(delegations))

=============================================================================

-------------------------- MODULE AccountContract --------------------------
(***************************************************************************)
(* What one account may answer to a call, as far as the module that holds  *)
(* it can tell.  PlogAccount keeps this contract (KeepsContract), and      *)
(* AccountsModule and AccountsStore rely on nothing else.                  *)
(*                                                                         *)
(* An account is a record with a log and a set of pending challenges.  At  *)
(* any call, any of the challenges may turn out to have expired.  A result *)
(* is the account after the call and the kind of its answer.               *)
(***************************************************************************)
EXTENDS Sequences

Result(a, out) == [account |-> a, out |-> out]

\* The account after purge_expired_challenges.
Purged(a) == {[a EXCEPT !.pending = ids] : ids \in SUBSET a.pending}

\* A prepare call that is refused.
refuse_results(a) == {Result(p, "Refused") : p \in Purged(a)}

\* A prepare call that hands out the challenge id.
prepare_results(a, id) ==
    {Result([p EXCEPT !.pending = @ \cup {id}], "Ok") : p \in Purged(a)}

\* The challenge is spent whatever the answer; an accepted signature appends
\* what was prepared and ends all other challenges.
commit_results(a, id, prepared) ==
    {Result([p EXCEPT !.pending = @ \ {id}],
            IF id \in p.pending THEN "Refused" ELSE "ChallengeNotFound") :
        p \in Purged(a)}
    \cup {Result([a EXCEPT !.log = Append(@, prepared), !.pending = {}], "Ok") :
            i \in a.pending \cap {id}}

cancel_results(a, id) ==
    {Result([p EXCEPT !.pending = @ \ {id}],
            IF id \in p.pending THEN "Ok" ELSE "ChallengeNotFound") :
        p \in Purged(a)}

=============================================================================

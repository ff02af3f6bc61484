---------------------------- MODULE OptimisticLog ----------------------------
(***************************************************************************)
(* What an account promises its callers, without keys, locks or clocks: an *)
(* append-only history with optimistic concurrency.  A caller opens a      *)
(* ticket for a payload against the current history; a ticket that is      *)
(* still open may be committed, which appends exactly its payload and      *)
(* voids every other ticket; tickets may be voided at any time; no ticket  *)
(* is ever opened twice.                                                   *)
(***************************************************************************)
EXTENDS Naturals, Sequences

CONSTANTS
    Tickets,    \* ticket names
    Payload     \* what a history is made of

VARIABLES
    history,    \* the committed payloads
    open,       \* ticket -> [base, payload]: the tickets that can commit
    used        \* the tickets ever opened

vars == <<history, open, used>>

Init ==
    /\ history \in Seq(Payload) \ {<<>>}
    /\ open = [t \in {} |-> 0]
    /\ used = {}

\* Ticket t is opened on the current history, for a payload of the caller's;
\* others may be voided with it.
Open(t, kept) ==
    /\ t \notin used
    /\ kept \subseteq DOMAIN open
    /\ DOMAIN open' = kept \cup {t}
    /\ open' = [s \in kept \cup {t} |->
                  IF s = t
                  THEN [base |-> Len(history), payload |-> open'[t].payload]
                  ELSE open[s]]
    /\ open'[t].payload \in Payload
    /\ used' = used \cup {t}
    /\ UNCHANGED history

\* Ticket t wins: its base is the current history.
Commit(t) ==
    /\ t \in DOMAIN open
    /\ open[t].base = Len(history)
    /\ history' = Append(history, open[t].payload)
    /\ open' = [s \in {} |-> 0]
    /\ UNCHANGED used

\* All tickets but the kept ones are voided.
Void(kept) ==
    /\ kept \subseteq DOMAIN open
    /\ open' = [s \in kept |-> open[s]]
    /\ UNCHANGED <<history, used>>

Next ==
    \/ \E t \in Tickets, kept \in SUBSET DOMAIN open : Open(t, kept)
    \/ \E t \in Tickets : Commit(t)
    \/ \E kept \in SUBSET DOMAIN open : Void(kept)

Spec == Init /\ [][Next]_vars

=============================================================================

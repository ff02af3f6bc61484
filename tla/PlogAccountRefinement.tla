----------------------- MODULE PlogAccountRefinement ------------------------
(***************************************************************************)
(* An account implements OptimisticLog, for any keys, requests, challenge  *)
(* ids and TTL: initial states map to initial states, an issued challenge  *)
(* to Open, an accepted signature to Commit, and everything else that      *)
(* touches the pending challenges to Void.  It also keeps AccountContract, *)
(* which is what the module around it relies on.                           *)
(***************************************************************************)
EXTENDS PlogAccountProofs

\* The refinement mapping.
History(l) == [i \in DOMAIN l |-> UnsignedOf(l[i])]
OpenTickets(p) ==
    [id \in DOMAIN p |-> [base |-> p[id].unsigned.seqno,
                          payload |-> p[id].unsigned]]

\* The history of a log is a sequence of payloads, as long as the log.
LEMMA HistoryTyped ==
    ASSUME NEW l \in Seq(Entry)
    PROVE  /\ History(l) \in Seq(Unsigned)
           /\ Len(History(l)) = Len(l)
<1>1. \A e \in Entry : UnsignedOf(e) \in Unsigned
  BY DEF Entry, Unsigned, UnsignedOf
<1>2. DOMAIN l = 1..Len(l) /\ Len(l) \in Nat
  OBVIOUS
<1> QED
  BY <1>1, <1>2 DEF History

\* The account that create or import returns has no challenges yet.
LEMMA InitRefines == Init /\ Inv => Abstract!Init
<1> SUFFICES ASSUME Init, Inv PROVE Abstract!Init
  OBVIOUS
<1>1. History(log) \in Seq(Unsigned) \ {<<>>}
  BY HistoryTyped, HeadFacts DEF Inv, TypeOK, LogVerified
<1>2. OpenTickets(pending) = [t \in {} |-> 0]
  BY DEF Init, OpenTickets
<1>3. DOMAIN issued = {}
  BY DEF Init
<1> QED
  BY <1>1, <1>2, <1>3 DEF Abstract!Init, History, OpenTickets

\* Challenges may go and may age, but none comes or changes its entry.
LEMMA ShrinkVoids ==
    ASSUME UNCHANGED <<log, issued>>,
           DOMAIN pending' \subseteq DOMAIN pending,
           \A id \in DOMAIN pending' : pending'[id].unsigned = pending[id].unsigned
    PROVE  Abstract!Next
<1>1. OpenTickets(pending') = [id \in DOMAIN pending' |-> OpenTickets(pending)[id]]
  BY DEF OpenTickets
<1>2. PICK kept : kept = DOMAIN pending'
  OBVIOUS
<1>3. Abstract!Void(kept)
  BY <1>1, <1>2 DEF Abstract!Void, OpenTickets, History
<1>4. kept \in SUBSET DOMAIN OpenTickets(pending)
  BY <1>2 DEF OpenTickets
<1> QED
  BY <1>3, <1>4, Zenon DEF Abstract!Next, OpenTickets

\* A challenge is opened on the current history.
LEMMA IssueOpens ==
    ASSUME Inv, Inv', NEW spec, NEW id \in ChallengeIds \ DOMAIN issued,
           Issue(id, spec)
    PROVE  Abstract!Next
<1> DEFINE tickets == OpenTickets(pending)
           after   == OpenTickets(pending')
<1>1. /\ Live \in SUBSET DOMAIN tickets
      /\ DOMAIN after = Live \cup {id}
      /\ DOMAIN pending' = Live \cup {id}
      /\ \A c \in Live : c \in DOMAIN pending /\ (c # id => pending'[c] = pending[c])
      /\ id \notin DOMAIN pending
  BY DEF OpenTickets, Issue, Live, Inv, PendingAsIssued
<1>2. after[id].payload \in Unsigned /\ after[id].base = Len(log)
  <2>1. /\ pending'[id].unsigned \in Unsigned
        /\ pending'[id].unsigned.seqno = Len(log')
    BY <1>1 DEF Inv, TypeOK, PendingUpdate, PendingOnHead
  <2> QED
    BY <1>1, <2>1 DEF OpenTickets, Issue
<1>3. Len(History(log)) = Len(log)
  BY HistoryTyped DEF Inv, TypeOK
<1>4. after = [s \in Live \cup {id} |->
                 IF s = id
                 THEN [base |-> Len(History(log)), payload |-> after[id].payload]
                 ELSE tickets[s]]
  <2>1. after[id] = [base |-> Len(History(log)), payload |-> after[id].payload]
    BY <1>1, <1>2, <1>3 DEF OpenTickets
  <2>2. \A s \in Live : s # id => after[s] = tickets[s]
    BY <1>1 DEF OpenTickets
  <2>3. after = [s \in DOMAIN after |-> after[s]]
    BY DEF OpenTickets
  <2> QED
    BY <1>1, <2>1, <2>2, <2>3
<1>5. /\ DOMAIN issued' = DOMAIN issued \cup {id}
      /\ History(log') = History(log)
  BY DEF Issue
<1>6. PICK kept : kept = Live
  OBVIOUS
<1>7. Abstract!Open(id, kept)
  BY <1>1, <1>2, <1>4, <1>5, <1>6 DEF Abstract!Open, OpenTickets, History
<1>8. id \in ChallengeIds /\ kept \in SUBSET DOMAIN OpenTickets(pending)
  BY <1>1, <1>6
<1> QED
  BY <1>7, <1>8, Zenon DEF Abstract!Next, OpenTickets

\* An accepted signature adds the prepared entry to the history.
LEMMA CommitAppends ==
    ASSUME Inv, NEW id \in ChallengeIds, NEW sig \in Signature \cup {Junk},
           commit_update(id, sig), CommitError(id, sig) = "Ok"
    PROVE  /\ id \in DOMAIN pending
           /\ History(log') = Append(History(log), pending[id].unsigned)
           /\ pending' = Restrict(pending, {}) /\ issued' = issued
<1> DEFINE e == SignedEntry(id, sig)
<1>1. id \in DOMAIN pending /\ e \in Entry /\ log \in Seq(Entry)
  BY CommitOk DEF Inv, TypeOK
<1>2. /\ log' = Append(log, e)
      /\ pending' = Restrict(pending, {}) /\ issued' = issued
  BY DEF commit_update, ClearPending
<1>3. UnsignedOf(e) = pending[id].unsigned
  <2>1. pending[id].unsigned \in Unsigned
    BY <1>1 DEF Inv, TypeOK, PendingUpdate
  <2> QED
    BY <2>1 DEF SignedEntry, try_build_with_proof, UnsignedOf, Unsigned
<1>4. History(log') = Append(History(log), pending[id].unsigned)
  <2> HIDE DEF e
  <2>1. /\ DOMAIN log' = 1..(Len(log) + 1) /\ Len(log) \in Nat
        /\ \A i \in 1..Len(log) : log'[i] = log[i]
        /\ log'[Len(log) + 1] = e
    BY <1>1, <1>2
  <2>2. /\ History(log) \in Seq(Unsigned) /\ Len(History(log)) = Len(log)
        /\ \A i \in 1..Len(log) : History(log)[i] = UnsignedOf(log[i])
    BY <1>1, HistoryTyped DEF History
  <2>3. History(log') = [i \in 1..(Len(log) + 1) |-> UnsignedOf(log'[i])]
    BY <2>1 DEF History
  <2> QED
    BY <1>3, <2>1, <2>2, <2>3
<1> QED
  BY <1>1, <1>2, <1>4

\* An accepted signature commits the open ticket, and its payload alone.
LEMMA CommitCommits ==
    ASSUME Inv, NEW id \in ChallengeIds, NEW sig \in Signature \cup {Junk},
           commit_update(id, sig), CommitError(id, sig) = "Ok"
    PROVE  Abstract!Next
<1>1. /\ id \in DOMAIN pending /\ log \in Seq(Entry)
      /\ History(log') = Append(History(log), pending[id].unsigned)
      /\ pending' = Restrict(pending, {}) /\ issued' = issued
  BY CommitAppends DEF Inv, TypeOK
<1>2. OpenTickets(pending)[id] = [base |-> Len(History(log)),
                                  payload |-> pending[id].unsigned]
  <2>1. pending[id].unsigned.seqno = Len(log)
    BY <1>1 DEF Inv, PendingOnHead
  <2> QED
    BY <1>1, <2>1, HistoryTyped DEF OpenTickets
<1>3. OpenTickets(pending') = [s \in {} |-> 0]
  BY <1>1 DEF OpenTickets, Restrict
<1>4. id \in DOMAIN OpenTickets(pending)
  BY <1>1 DEF OpenTickets
<1>5. Abstract!Commit(id)
  BY <1>1, <1>2, <1>3, <1>4 DEF Abstract!Commit, OpenTickets, History
<1> QED
  BY <1>5 DEF Abstract!Next

\* Every step of the account is a step of OptimisticLog or a stutter.
LEMMA StepRefines == Inv /\ Inv' /\ [Next]_vars => [Abstract!Next]_(Abstract!vars)
<1> SUFFICES ASSUME Inv, Inv', [Next]_vars PROVE [Abstract!Next]_(Abstract!vars)
  OBVIOUS
<1>1. CASE UNCHANGED vars
  BY <1>1 DEF vars, Abstract!vars
<1>2. \A S \in SUBSET DOMAIN pending :
        pending' = Restrict(pending, S) /\ UNCHANGED <<log, issued>>
            => Abstract!Next
  BY ShrinkVoids DEF Restrict
<1>3. ASSUME NEW id \in ChallengeIds, NEW sig \in Signature \cup {Junk},
             commit_update(id, sig)
      PROVE  Abstract!Next
  <2>1. Live \ {id} \in SUBSET DOMAIN pending
    BY DEF Live
  <2> QED
    BY <1>2, <1>3, <2>1, CommitCommits DEF commit_update, TakeChallenge
<1>4. ASSUME NEW id \in ChallengeIds, cancel_update(id) PROVE Abstract!Next
  <2>1. Live \ {id} \in SUBSET DOMAIN pending
    BY DEF Live
  <2> QED
    BY <1>2, <1>4, <2>1 DEF cancel_update
<1>5. CASE Tick
  <2>1. /\ DOMAIN pending' = DOMAIN pending
        /\ \A id \in DOMAIN pending : pending'[id].unsigned = pending[id].unsigned
    BY <1>5 DEF Tick, Inv, TypeOK, PendingUpdate
  <2> QED
    BY <1>5, <2>1, ShrinkVoids DEF Tick
<1>6. ASSUME NEW spec, prepare_entry(spec) PROVE Abstract!Next
  <2>1. Live \in SUBSET DOMAIN pending
    BY DEF Live
  <2> QED
    BY <1>2, <1>6, <2>1, IssueOpens DEF prepare_entry, purge_expired_challenges
<1>7. \A res : Refused(res) => UNCHANGED <<log, pending, issued>>
  BY DEF Refused
<1>8. UNCHANGED <<log, pending, issued>> => UNCHANGED Abstract!vars
  BY DEF Abstract!vars
<1>9. ASSUME NEW r, prepare_update(r) PROVE [Abstract!Next]_(Abstract!vars)
  BY <1>6, <1>7, <1>8, <1>9 DEF prepare_update
<1>10. ASSUME NEW p, NEW k, prepare_delegate(p, k)
       PROVE  [Abstract!Next]_(Abstract!vars)
  BY <1>6, <1>7, <1>8, <1>10 DEF prepare_delegate
<1>11. ASSUME NEW p, prepare_revoke(p) PROVE [Abstract!Next]_(Abstract!vars)
  BY <1>6, <1>7, <1>8, <1>11 DEF prepare_revoke
<1> QED
  BY <1>1, <1>3, <1>4, <1>5, <1>9, <1>10, <1>11 DEF Next

\* Prepare, sign and commit is optimistic concurrency: of the challenges
\* prepared on one head at most one is committed, as it was prepared.
THEOREM AccountIsOptimisticLog == Spec => ImplementsOptimisticLog
<1>1. Init => Abstract!Init
  BY InitRefines, InitInv
<1> QED
  BY <1>1, StepRefines, InvHolds, PTL
  DEF Spec, ImplementsOptimisticLog, Abstract!Spec

-----------------------------------------------------------------------------

\* The body of KeepsContract.
Contracted ==
    Contract!Result(AsAccount', Coarse(reply'.res))
        \in AllowedResults(reply'.op, reply'.id, reply'.res)

\* An account with a given history and given pending challenges.
AccountOf(h, ids) == [log |-> h, pending |-> ids]

LEMMA AsAccountOf ==
    /\ AsAccount = AccountOf(History(log), DOMAIN pending)
    /\ AsAccount' = AccountOf(History(log'), DOMAIN pending')
BY DEF AsAccount, AccountOf, History

LEMMA SetPending ==
    ASSUME NEW h, NEW ids, NEW S
    PROVE  [AccountOf(h, ids) EXCEPT !.pending = S] = AccountOf(h, S)
BY DEF AccountOf

\* The results of the contract, for an account with history h.
LEMMA ContractResults ==
    ASSUME NEW h, NEW ids, NEW id, NEW kept \in SUBSET ids, NEW prepared
    PROVE  LET a == AccountOf(h, ids)
           IN  /\ Contract!Result(AccountOf(h, kept), "Refused")
                    \in Contract!refuse_results(a)
               /\ Contract!Result(AccountOf(h, kept \cup {id}), "Ok")
                    \in Contract!prepare_results(a, id)
               /\ id \in kept =>
                    /\ Contract!Result(AccountOf(h, kept \ {id}), "Refused")
                         \in Contract!commit_results(a, id, prepared)
                    /\ Contract!Result(AccountOf(h, kept \ {id}), "Ok")
                         \in Contract!cancel_results(a, id)
                    /\ Contract!Result(AccountOf(Append(h, prepared), {}), "Ok")
                         \in Contract!commit_results(a, id, prepared)
               /\ id \notin kept =>
                    /\ Contract!Result(AccountOf(h, kept), "ChallengeNotFound")
                         \in Contract!commit_results(a, id, prepared)
                    /\ Contract!Result(AccountOf(h, kept), "ChallengeNotFound")
                         \in Contract!cancel_results(a, id)
<1> DEFINE a == AccountOf(h, ids)
           p == AccountOf(h, kept)
<1>1. p \in Contract!Purged(a)
  <2>1. a.pending = ids
    BY DEF AccountOf
  <2> QED
    BY <2>1, SetPending, Zenon DEF Contract!Purged
<1>2. /\ p.pending = kept /\ a.pending = ids /\ a.log = h
      /\ \A S : [p EXCEPT !.pending = S] = AccountOf(h, S)
      /\ [a EXCEPT !.log = Append(h, prepared), !.pending = {}]
            = AccountOf(Append(h, prepared), {})
  <2>1. p.pending = kept /\ a.pending = ids /\ a.log = h
    BY DEF AccountOf
  <2>2. \A S : [p EXCEPT !.pending = S] = AccountOf(h, S)
    BY SetPending
  <2>3. \A k : [a EXCEPT !.log = k, !.pending = {}] = AccountOf(k, {})
    <3>1. \A k : [a EXCEPT !.log = k] = AccountOf(k, ids)
      BY DEF AccountOf
    <3>2. \A k : [a EXCEPT !.log = k, !.pending = {}]
                    = [[a EXCEPT !.log = k] EXCEPT !.pending = {}]
      BY DEF AccountOf
    <3>3. \A k : [AccountOf(k, ids) EXCEPT !.pending = {}] = AccountOf(k, {})
      BY SetPending
    <3> HIDE DEF a
    <3> QED
      BY <3>1, <3>2, <3>3
  <2> QED
    BY <2>1, <2>2, <2>3
<1>3. [p EXCEPT !.pending = p.pending \cup {id}] = AccountOf(h, kept \cup {id})
      /\ [p EXCEPT !.pending = p.pending \ {id}] = AccountOf(h, kept \ {id})
  BY <1>2
<1>4. id \notin kept => kept \ {id} = kept
  OBVIOUS
<1> HIDE DEF a, p
<1>5. Contract!Result(p, "Refused") \in Contract!refuse_results(a)
  BY <1>1 DEF Contract!refuse_results
<1>6. Contract!Result(AccountOf(h, kept \cup {id}), "Ok")
        \in Contract!prepare_results(a, id)
  BY <1>1, <1>3 DEF Contract!prepare_results
<1>7. Contract!Result(AccountOf(h, kept \ {id}),
                      IF id \in kept THEN "Refused" ELSE "ChallengeNotFound")
        \in Contract!commit_results(a, id, prepared)
  BY <1>1, <1>2, <1>3 DEF Contract!commit_results
<1>8. Contract!Result(AccountOf(h, kept \ {id}),
                      IF id \in kept THEN "Ok" ELSE "ChallengeNotFound")
        \in Contract!cancel_results(a, id)
  BY <1>1, <1>2, <1>3 DEF Contract!cancel_results
<1>9. id \in kept => Contract!Result(AccountOf(Append(h, prepared), {}), "Ok")
        \in Contract!commit_results(a, id, prepared)
  <2> SUFFICES ASSUME id \in kept
               PROVE  Contract!Result(AccountOf(Append(h, prepared), {}), "Ok")
                        \in Contract!commit_results(a, id, prepared)
    OBVIOUS
  <2>1. id \in a.pending \cap {id}
    BY <1>2
  <2>2. [a EXCEPT !.log = Append(a.log, prepared), !.pending = {}]
           = AccountOf(Append(h, prepared), {})
    BY <1>2
  <2> QED
    BY <2>1, <2>2 DEF Contract!commit_results
<1> QED
  BY <1>4, <1>5, <1>6, <1>7, <1>8, <1>9 DEF a, p

\* What is pending is, after a call that drops some, the purged rest.
LEMMA RefusalContracted ==
    ASSUME log' = log, NEW S \in SUBSET DOMAIN pending, DOMAIN pending' = S,
           NEW res, reply' = [op |-> "prepare", id |-> NoId, res |-> res],
           res \notin {"Ok", "ChallengeNotFound"}
    PROVE  Contracted
<1>1. Contract!Result(AsAccount', "Refused") \in Contract!refuse_results(AsAccount)
  BY ContractResults, AsAccountOf
<1> QED
  BY <1>1 DEF Contracted, AllowedResults, Coarse

\* The prepare calls.
LEMMA PrepareContracted ==
    ASSUME NEW spec, prepare_entry(spec)
    PROVE  Contracted
<1>1. Live \in SUBSET DOMAIN pending
  BY DEF Live
<1>2. CASE PrepareEntryError(spec) # "Ok"
  <2>1. PrepareEntryError(spec) # "ChallengeNotFound"
    BY DEF PrepareEntryError
  <2>2. /\ log' = log /\ DOMAIN pending' = Live
        /\ reply' = [op |-> "prepare", id |-> NoId, res |-> PrepareEntryError(spec)]
    BY <1>2 DEF prepare_entry, purge_expired_challenges, Restrict, Replied
  <2> QED
    BY <1>1, <1>2, <2>1, <2>2, RefusalContracted
<1>3. ASSUME NEW id, Issue(id, spec) PROVE Contracted
  <2>1. /\ log' = log /\ DOMAIN pending' = Live \cup {id}
        /\ reply' = [op |-> "prepare", id |-> id, res |-> "Ok"]
    BY <1>3 DEF Issue, Replied
  <2>2. Contract!Result(AsAccount', "Ok") \in Contract!prepare_results(AsAccount, id)
    BY <1>1, <2>1, ContractResults, AsAccountOf
  <2> QED
    BY <2>1, <2>2 DEF Contracted, AllowedResults, Coarse
<1> QED
  BY <1>2, <1>3 DEF prepare_entry

\* commit_update and cancel_update.
LEMMA CommitContracted ==
    ASSUME Inv, NEW id \in ChallengeIds, NEW sig \in Signature \cup {Junk},
           commit_update(id, sig)
    PROVE  Contracted
<1> DEFINE results == Contract!commit_results(AsAccount, id, issued[id].message)
<1>1. reply' = [op |-> "commit", id |-> id, res |-> CommitError(id, sig)]
  BY DEF commit_update, Replied
<1>2. Contract!Result(AsAccount', Coarse(CommitError(id, sig))) \in results
  <2>1. CASE CommitError(id, sig) = "Ok"
    <3>1. /\ id \in DOMAIN pending /\ DOMAIN pending' = {}
          /\ History(log') = Append(History(log), pending[id].unsigned)
          /\ pending[id].unsigned = issued[id].message
      BY <2>1, CommitAppends DEF Restrict, Inv, PendingAsIssued
    <3>2. Contract!Result(AsAccount', "Ok") \in results
      BY <3>1, ContractResults, AsAccountOf
    <3> QED
      BY <2>1, <3>2 DEF Coarse
  <2>2. CASE CommitError(id, sig) # "Ok"
    <3>1. /\ log' = log /\ DOMAIN pending' = Live \ {id}
          /\ Live \in SUBSET DOMAIN pending
      BY <2>2 DEF commit_update, TakeChallenge, Restrict, Live
    <3>2. CASE id \in Live
      <4>1. Coarse(CommitError(id, sig)) = "Refused"
        BY <2>2, <3>2 DEF Coarse, CommitError
      <4> QED
        BY <3>1, <3>2, <4>1, ContractResults, AsAccountOf
    <3>3. CASE id \notin Live
      <4>1. Coarse(CommitError(id, sig)) = "ChallengeNotFound"
        BY <3>3 DEF Coarse, CommitError
      <4>2. DOMAIN pending' = Live
        BY <3>1, <3>3
      <4> QED
        BY <3>1, <3>3, <4>1, <4>2, ContractResults, AsAccountOf
    <3> QED
      BY <3>2, <3>3
  <2> QED
    BY <2>1, <2>2
<1> QED
  BY <1>1, <1>2 DEF Contracted, AllowedResults

LEMMA CancelContracted ==
    ASSUME NEW id \in ChallengeIds, cancel_update(id)
    PROVE  Contracted
<1>1. /\ log' = log /\ DOMAIN pending' = Live \ {id}
      /\ Live \in SUBSET DOMAIN pending
  BY DEF cancel_update, Restrict, Live
<1>2. CASE id \in Live
  <2>1. reply' = [op |-> "cancel", id |-> id, res |-> "Ok"]
    BY <1>2 DEF cancel_update, Replied
  <2>2. Contract!Result(AsAccount', "Ok") \in Contract!cancel_results(AsAccount, id)
    BY <1>1, <1>2, ContractResults, AsAccountOf
  <2> QED
    BY <2>1, <2>2 DEF Contracted, AllowedResults, Coarse
<1>3. CASE id \notin Live
  <2>1. /\ reply' = [op |-> "cancel", id |-> id, res |-> "ChallengeNotFound"]
        /\ DOMAIN pending' = Live
    BY <1>1, <1>3 DEF cancel_update, Replied
  <2>2. Contract!Result(AsAccount', "ChallengeNotFound")
          \in Contract!cancel_results(AsAccount, id)
    BY <1>1, <1>3, <2>1, ContractResults, AsAccountOf
  <2> QED
    BY <2>1, <2>2 DEF Contracted, AllowedResults, Coarse
<1> QED
  BY <1>2, <1>3

\* AccountsModule may take an account for anything that keeps AccountContract.
THEOREM AccountKeepsContract == Spec => KeepsContract
<1>1. Inv /\ [Next]_vars => [Contracted]_vars
  <2> SUFFICES ASSUME Inv, Next PROVE Contracted
    OBVIOUS
  <2>1. ASSUME NEW res, Refused(res), res \notin {"Ok", "ChallengeNotFound"}
        PROVE  Contracted
    <3>1. DOMAIN pending \in SUBSET DOMAIN pending
      OBVIOUS
    <3> QED
      BY <2>1, <3>1, RefusalContracted DEF Refused, Replied
  <2>2. \A q, b : SugarError(q, b) # "ChallengeNotFound"
    BY DEF SugarError
  <2>3. ASSUME NEW r, prepare_update(r) PROVE Contracted
    <3>1. RequestError(r) # "ChallengeNotFound"
      BY RequestErrors
    <3> QED
      BY <2>1, <2>3, <3>1, PrepareContracted DEF prepare_update
  <2>4. ASSUME NEW q, NEW k, prepare_delegate(q, k) PROVE Contracted
    BY <2>1, <2>2, <2>4, PrepareContracted DEF prepare_delegate
  <2>5. ASSUME NEW q, prepare_revoke(q) PROVE Contracted
    BY <2>1, <2>2, <2>5, PrepareContracted DEF prepare_revoke
  <2>6. CASE Tick
    <3>1. AsAccount' = AsAccount
      BY <2>6 DEF Tick, AsAccount
    <3> QED
      BY <2>6, <3>1 DEF Tick, Replied, Contracted, AllowedResults, Coarse
  <2> QED
    BY <2>3, <2>4, <2>5, <2>6, CommitContracted, CancelContracted DEF Next
<1> QED
  BY <1>1, InvHolds, PTL DEF Spec, KeepsContract, Contracted

=============================================================================

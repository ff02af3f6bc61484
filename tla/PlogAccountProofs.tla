-------------------------- MODULE PlogAccountProofs --------------------------
(***************************************************************************)
(* Proofs about PlogAccount, for any keys, paths, requests, number of      *)
(* challenges and time to live.                                            *)
(*                                                                         *)
(* The inductive invariant ties the pending challenges to the head: each   *)
(* was prepared on it and is stored as it was handed out.  Without that, a *)
(* commit could append an entry that does not chain; without LogVerified,  *)
(* the seqno of a prepared entry would not be the length of the log.       *)
(***************************************************************************)
EXTENDS PlogAccount, ProvenanceLogProofs

Inv ==
    /\ TypeOK
    /\ LogVerified
    /\ PendingOnHead
    /\ PendingAsIssued

-----------------------------------------------------------------------------
(***************************************************************************)
(* Helpers are well typed.                                                 *)
(***************************************************************************)

\* The head of a verified log carries the seqno of its position.
LEMMA HeadFacts ==
    ASSUME NEW plog \in Seq(Entry), ensure_plog_verified(plog)
    PROVE  /\ Len(plog) \in Nat \ {0}
           /\ HeadEntry(plog) \in Entry
           /\ HeadEntry(plog).seqno = Len(plog) - 1
           /\ cid(HeadEntry(plog)) \in Cid
<1>1. Len(plog) \in Nat \ {0}
  BY DEF ensure_plog_verified
<1>2. HeadEntry(plog) \in Entry
  BY <1>1 DEF HeadEntry
<1>3. HeadEntry(plog).seqno = Len(plog) - 1
  <2>1. CASE Len(plog) = 1
    BY <2>1 DEF ensure_plog_verified, FirstEntryOk, HeadEntry
  <2>2. CASE Len(plog) # 1
    <3> \A n \in Nat \ {0} : n # 1 => n \in 2..n
      OBVIOUS
    <3>1. Len(plog) \in 2..Len(plog)
      BY <2>2, <1>1
    <3>2. plog[Len(plog)].seqno = Len(SubSeq(plog, 1, Len(plog) - 1))
      BY <3>1 DEF ensure_plog_verified, Chained
    <3> QED
      BY <3>1, <3>2 DEF HeadEntry
  <2> QED
    BY <2>1, <2>2
<1>4. cid(HeadEntry(plog)) \in Cid
  BY <1>2 DEF cid, Cid, Entry, Body
<1> QED
  BY <1>1, <1>2, <1>3, <1>4

\* The locks of the next entry are locks, whatever the request asks for.
LEMMA LocksTyped ==
    ASSUME NEW head \in Entry, NEW spec \in LockSpec, lock_spec_ok(spec)
    PROVE  lock_spec_to_scripts(head, spec) \in SUBSET Lock
<1>1. head.locks \in SUBSET Lock
  BY DEF Entry
<1>2. CASE spec.kind \in {"inherit", "unknown"}
  BY <1>1, <1>2 DEF lock_spec_to_scripts, LockSpec
<1>3. CASE spec.kind = "replace"
  BY <1>3 DEF lock_spec_ok, lock_spec_to_scripts, LockSpec, LockScriptJson,
              parse_key, PathString, Lock
<1>4. CASE spec.kind \in {"upsert", "remove"}
  <2>1. spec.path \in Key /\ spec.code \in Code
    BY <1>4 DEF lock_spec_ok, LockSpec, parse_key, PathString
  <2> QED
    BY <1>1, <1>4, <2>1 DEF lock_spec_to_scripts, locks_replacing_path, Lock
<1> QED
  BY <1>2, <1>3, <1>4 DEF LockSpec

\* A prepared entry is an unsigned entry on the head of the log.
LEMMA PreparedTyped ==
    ASSUME NEW plog \in Seq(Entry), ensure_plog_verified(plog),
           NEW locks \in SUBSET Lock, NEW ops \in Seq(Op)
    PROVE  LET u == prepare_next_entry(plog, locks, ops)
           IN  /\ u \in Unsigned
               /\ u.prev = cid(HeadEntry(plog))
               /\ u.seqno = Len(plog)
<1>1. /\ Len(plog) \in Nat \ {0}
      /\ HeadEntry(plog).seqno + 1 = Len(plog)
      /\ cid(HeadEntry(plog)) \in Cid
  BY HeadFacts
<1>2. lipmaa_link(HeadEntry(plog).seqno + 1) \in Int
  BY <1>1, LipmaaTyped
<1> QED
  BY <1>1, <1>2 DEF prepare_next_entry, Unsigned

\* An op of a request that passes validation becomes an op of the log.
LEMMA OpTyped ==
    ASSUME NEW o \in PlogOp, OpError(o) = "Ok"
    PROVE  into_op_params(o) \in Op
<1>1. o.key \in Key /\ o.op \in {"noop", "delete", "update"}
  BY DEF PlogOp, OpError, parse_key, PathString
<1>2. CASE o.op # "update"
  BY <1>1, <1>2, ValuesTyped DEF into_op_params, Op
<1>3. CASE o.op = "update" /\ o.value = "str"
  BY <1>1, <1>3, ValuesTyped DEF into_op_params, Op
<1>4. CASE o.op = "update" /\ o.value # "str"
  <2>1. o.value \in Multikeys \cup {Blob}
    BY <1>4 DEF PlogOp, OpError, Multibase
  <2>2. decode_bytes_multibase(o.value) \in Value
    BY <2>1, ValuesTyped DEF decode_bytes_multibase
  <2> QED
    BY <1>1, <1>4, <2>2 DEF into_op_params, Op
<1> QED
  BY <1>2, <1>3, <1>4

\* Ops are in order only if each of them is.
LEMMA OpsInOrder ==
    ASSUME NEW ops \in Seq(PlogOp)
    PROVE  OpsError(ops) = "Ok" => \A j \in DOMAIN ops : OpError(ops[j]) = "Ok"
<1> DEFINE bad == {j \in DOMAIN ops : OpError(ops[j]) # "Ok"}
<1>1. OpsError(ops) = IF bad = {} THEN "Ok" ELSE OpError(ops[Min(bad)])
  BY DEF OpsError
<1>2. bad # {} => Min(bad) \in bad
  <2>1. bad \subseteq Nat
    OBVIOUS
  <2> HIDE DEF bad
  <2> QED
    BY <2>1, LeastNat DEF Min
<1> QED
  BY <1>1, <1>2

\* How a request may be refused before the account is touched.
LEMMA RequestErrors == \A r : RequestError(r) \in {"Ok", "InvalidOp", "Encoding"}
BY DEF RequestError, OpsError, OpError

\* What prepare_update passes on is well typed.
LEMMA EntrySpecTyped ==
    ASSUME NEW r \in Requests, RequestError(r) = "Ok"
    PROVE  EntrySpec(r) \in PrepareEntrySpec
<1>1. /\ r \in EntryUpdateRequest
      /\ r.sign_as # Malformed
      /\ OpsError(r.ops) = "Ok"
  BY InputsAssumption DEF RequestError
<1>2. /\ r.locks \in LockSpec /\ r.ops \in Seq(PlogOp)
      /\ \A j \in DOMAIN r.ops : OpError(r.ops[j]) = "Ok"
  BY <1>1, OpsInOrder DEF EntryUpdateRequest
<1>3. [j \in DOMAIN r.ops |-> into_op_params(r.ops[j])] \in Seq(Op)
  <2>1. \A j \in DOMAIN r.ops : into_op_params(r.ops[j]) \in Op
    BY <1>2, OpTyped
  <2> QED
    BY <1>2, <2>1
<1>4. (IF r.sign_as = NoPath THEN pubkey_key_path ELSE r.sign_as) \in Key
  BY <1>1, KeyPathsTyped DEF EntryUpdateRequest, PathString
<1> QED
  BY <1>2, <1>3, <1>4 DEF EntrySpec, PrepareEntrySpec, UpdateKind

\* The listed delegations are branches.
LEMMA DelegatedPathsTyped ==
    ASSUME NEW plog \in Seq(Entry), ensure_plog_verified(plog)
    PROVE  DelegatedPaths(plog) \in SUBSET PathString
<1>1. HeadEntry(plog).locks \in SUBSET Lock
  BY HeadFacts DEF Entry
<1> QED
  BY <1>1 DEF DelegatedPaths, Lock, PathString

\* What prepare_delegate and prepare_revoke pass on is well typed.
LEMMA SugarSpecTyped ==
    ASSUME TypeOK, LogVerified, NEW b \in PathString, parse_branch_path(b)
    PROVE  /\ b \in Key
           /\ \A mk \in Multikeys : DelegateSpec(b, mk) \in PrepareEntrySpec
           /\ RevokeSpec(b) \in PrepareEntrySpec
<1>1. b \in Key /\ delegate_pubkey_key(b) \in Key
  BY KeyPathsTyped DEF parse_branch_path, parse_key, PathString
<1>2. resolve_closest_parent_signing_key(b, DelegatedPaths(log)) \in Key
  BY <1>1, SignerTyped, DelegatedPathsTyped DEF TypeOK, LogVerified
<1>3. \A c \in Code : LockUpsert(b, c) \in LockSpec
  BY <1>1, KeyPathsTyped
  DEF LockUpsert, Inherit, LockSpec, PathString, OtherCode, Code
<1>4. LockRemove(b) \in LockSpec
  BY <1>1, KeyPathsTyped
  DEF LockRemove, Inherit, LockSpec, PathString, OtherCode, Code
<1>5. ASSUME NEW mk \in Multikeys
      PROVE  DelegateSpec(b, mk) \in PrepareEntrySpec
  <2>1. CheckCode(delegate_pubkey_key(b)) \in Code
    BY <1>1 DEF CheckCode, Code
  <2>2. [op |-> "update", key |-> delegate_pubkey_key(b),
         value |-> KeyValue(mk)] \in Op
    BY <1>1, ValuesTyped DEF Op
  <2> QED
    BY <1>1, <1>2, <1>3, <2>1, <2>2
    DEF DelegateSpec, delegated_branch_lock_script, delegated_lock_code,
        PrepareEntrySpec, UpdateKind
<1>6. RevokeSpec(b) \in PrepareEntrySpec
  <2>1. [op |-> "delete", key |-> delegate_pubkey_key(b),
         value |-> Absent] \in Op
    BY <1>1, ValuesTyped DEF Op
  <2> QED
    BY <1>1, <1>2, <1>4, <2>1 DEF RevokeSpec, PrepareEntrySpec, UpdateKind
<1> QED
  BY <1>1, <1>5, <1>6

-----------------------------------------------------------------------------
(***************************************************************************)
(* The created log, and one more entry.                                    *)
(***************************************************************************)

\* The log that create opens verifies.
LEMMA CreatedVerified ==
    LET l == open_plog_with_external_pubkey(RootKey)
    IN  l \in Seq(Entry) /\ ensure_plog_verified(l)
BY AccountAssumption, OpenedVerified DEF open_plog_with_external_pubkey

\* try_append keeps a verified log verified: the entries before the new one
\* are checked against the same prefixes as before.
LEMMA AppendVerified ==
    ASSUME NEW plog \in Seq(Entry), NEW e \in Entry,
           ensure_plog_verified(plog), try_append(plog, e)
    PROVE  Append(plog, e) \in Seq(Entry) /\ ensure_plog_verified(Append(plog, e))
<1> DEFINE new == Append(plog, e)
<1>1. Len(plog) \in Nat \ {0} /\ plog # <<>>
  BY HeadFacts DEF ensure_plog_verified
<1>2. new \in Seq(Entry) /\ Len(new) = Len(plog) + 1 /\ new # <<>>
  <2>1. new \in Seq(Entry) /\ Len(new) = Len(plog) + 1
    OBVIOUS
  <2> QED
    BY <1>1, <2>1
<1>3. new[1] = plog[1]
  BY <1>1
<1>4. ASSUME NEW k \in 2..Len(new)
      PROVE  /\ Chained(SubSeq(new, 1, k - 1), new[k])
             /\ Authorised(SubSeq(new, 1, k - 1), new[k])
  <2>1. SubSeq(new, 1, k - 1) = SubSeq(plog, 1, k - 1)
    BY <1>1, <1>2
  <2>2. CASE k = Len(plog) + 1
    <3>1. SubSeq(plog, 1, k - 1) = plog /\ new[k] = e
      BY <2>2, <1>1
    <3> QED
      BY <2>1, <3>1 DEF try_append
  <2>3. CASE k # Len(plog) + 1
    <3>1. k \in 2..Len(plog) /\ new[k] = plog[k]
      BY <2>3, <1>1, <1>2
    <3> QED
      BY <2>1, <3>1 DEF ensure_plog_verified
  <2> QED
    BY <2>2, <2>3
<1> QED
  BY <1>2, <1>3, <1>4 DEF ensure_plog_verified

-----------------------------------------------------------------------------
(***************************************************************************)
(* One lemma per action.                                                   *)
(***************************************************************************)

\* The initial account, created or imported.
LEMMA InitInv == Init => Inv
<1> SUFFICES ASSUME Init PROVE Inv
  OBVIOUS
<1>1. log \in Seq(Entry) /\ LogVerified
  BY CreatedVerified, AccountAssumption DEF Init, LogVerified
<1>2. TypeOK
  BY <1>1 DEF Init, TypeOK, Reply, Outcome
<1>3. PendingOnHead /\ PendingAsIssued
  BY DEF Init, PendingOnHead, PendingAsIssued
<1> QED
  BY <1>1, <1>2, <1>3 DEF Inv

\* A step that keeps the log and the issued challenges, and only drops pending
\* ones or changes their age, preserves the invariant.
LEMMA ShrinkKeepsInv ==
    ASSUME Inv, UNCHANGED <<log, issued>>, reply' \in Reply,
           DOMAIN pending' \subseteq DOMAIN pending,
           pending' \in [DOMAIN pending' -> PendingUpdate],
           \A id \in DOMAIN pending' :
              /\ pending'[id].head_cid = pending[id].head_cid
              /\ pending'[id].unsigned = pending[id].unsigned
              /\ pending'[id].kind = pending[id].kind
              /\ pending'[id].path = pending[id].path
    PROVE  Inv'
<1>1. TypeOK'
  BY DEF Inv, TypeOK
<1>2. LogVerified'
  BY DEF Inv, LogVerified
<1>3. PendingOnHead'
  BY DEF Inv, PendingOnHead, current_head_cid
<1>4. PendingAsIssued'
  BY DEF Inv, PendingAsIssued
<1> QED
  BY <1>1, <1>2, <1>3, <1>4 DEF Inv

\* Restricting the pending map to some of its ids only drops challenges.
LEMMA RestrictKeepsInv ==
    ASSUME Inv, UNCHANGED <<log, issued>>, reply' \in Reply,
           NEW S \in SUBSET DOMAIN pending, pending' = Restrict(pending, S)
    PROVE  Inv'
<1>1. DOMAIN pending' = S /\ \A id \in S : pending'[id] = pending[id]
  BY DEF Restrict
<1>2. pending' \in [DOMAIN pending' -> PendingUpdate]
  BY <1>1 DEF Inv, TypeOK, Restrict
<1> QED
  BY <1>1, <1>2, ShrinkKeepsInv

\* Storing a new challenge on the current head.
LEMMA IssueKeepsInv ==
    ASSUME Inv, NEW spec \in PrepareEntrySpec, PrepareEntryError(spec) = "Ok",
           NEW id \in ChallengeIds \ DOMAIN issued, Issue(id, spec)
    PROVE  Inv'
<1> DEFINE u == prepare_next_entry(log,
                    lock_spec_to_scripts(HeadEntry(log), spec.locks), spec.ops)
<1>1. log \in Seq(Entry) /\ ensure_plog_verified(log)
  BY DEF Inv, TypeOK, LogVerified
<1>2. /\ u \in Unsigned /\ u.prev = current_head_cid /\ u.seqno = Len(log)
      /\ current_head_cid \in Cid
  <2>1. lock_spec_ok(spec.locks) /\ spec.locks \in LockSpec /\ spec.ops \in Seq(Op)
    BY DEF PrepareEntryError, PrepareEntrySpec
  <2>2. HeadEntry(log) \in Entry /\ cid(HeadEntry(log)) \in Cid
    BY <1>1, HeadFacts
  <2>3. lock_spec_to_scripts(HeadEntry(log), spec.locks) \in SUBSET Lock
    BY <2>1, <2>2, LocksTyped
  <2> QED
    BY <1>1, <2>1, <2>2, <2>3, PreparedTyped DEF current_head_cid
<1> HIDE DEF u
<1>3. /\ DOMAIN pending' = Live \cup {id} /\ DOMAIN issued' = DOMAIN issued \cup {id}
      /\ pending'[id] = [head_cid |-> current_head_cid, unsigned |-> u,
                         kind |-> spec.kind, path |-> spec.path, age |-> 0]
      /\ issued'[id] = [kind |-> spec.kind, path |-> spec.path,
                        signing_key_path |-> spec.sign_as,
                        head_cid |-> current_head_cid, message |-> u]
      /\ \A c \in Live \ {id} : pending'[c] = pending[c]
      /\ \A c \in DOMAIN issued : issued'[c] = issued[c]
      /\ pending' = [c \in Live \cup {id} |-> pending'[c]]
      /\ issued' = [c \in DOMAIN issued \cup {id} |-> issued'[c]]
      /\ log' = log /\ reply' = [op |-> "prepare", id |-> id, res |-> "Ok"]
  BY DEF Issue, Replied, u
<1>4. Live \subseteq DOMAIN pending /\ DOMAIN pending \subseteq DOMAIN issued
  BY DEF Live, Inv, PendingAsIssued
<1>5. pending'[id] \in PendingUpdate /\ issued'[id] \in UpdateChallenge
  BY <1>2, <1>3, AccountAssumption DEF PendingUpdate, UpdateChallenge, PrepareEntrySpec
<1>6. TypeOK'
  <2>1. \A c \in Live \cup {id} : pending'[c] \in PendingUpdate
    BY <1>3, <1>4, <1>5 DEF Inv, TypeOK
  <2>2. \A c \in DOMAIN issued \cup {id} : issued'[c] \in UpdateChallenge
    BY <1>3, <1>5 DEF Inv, TypeOK
  <2>3. reply' \in Reply
    BY <1>3 DEF Reply, Outcome
  <2> QED
    BY <1>3, <1>4, <2>1, <2>2, <2>3 DEF Inv, TypeOK
<1>7. LogVerified'
  BY <1>1, <1>3 DEF LogVerified
<1>8. PendingOnHead'
  BY <1>2, <1>3, <1>4 DEF Inv, PendingOnHead, current_head_cid
<1>9. PendingAsIssued'
  BY <1>3, <1>4 DEF Inv, PendingAsIssued
<1> QED
  BY <1>6, <1>7, <1>8, <1>9 DEF Inv

\* prepare_entry, with any well-typed input.
LEMMA PrepareEntryKeepsInv ==
    ASSUME Inv, NEW spec \in PrepareEntrySpec, prepare_entry(spec)
    PROVE  Inv'
<1>1. CASE PrepareEntryError(spec) = "Ok"
  BY <1>1, IssueKeepsInv DEF prepare_entry
<1>2. CASE PrepareEntryError(spec) # "Ok"
  <2>1. reply' \in Reply
    BY <1>2 DEF prepare_entry, Replied, PrepareEntryError, Reply, Outcome
  <2>2. Live \in SUBSET DOMAIN pending
    BY DEF Live
  <2> QED
    BY <1>2, <2>1, <2>2, RestrictKeepsInv DEF prepare_entry, purge_expired_challenges
<1> QED
  BY <1>1, <1>2

\* A call refused before it touches the account.
LEMMA RefusedKeepsInv ==
    ASSUME Inv, NEW res \in Outcome, Refused(res)
    PROVE  Inv'
<1>1. reply' \in Reply
  BY DEF Refused, Replied, Reply
<1> QED
  BY <1>1, ShrinkKeepsInv DEF Refused, Inv, TypeOK

\* The three prepare calls.
LEMMA PrepareKeepsInv ==
    ASSUME Inv,
           \/ \E r \in Requests : prepare_update(r)
           \/ \E p \in PathInputs, k \in KeyInputs : prepare_delegate(p, k)
           \/ \E p \in PathInputs : prepare_revoke(p)
    PROVE  Inv'
<1>1. ASSUME NEW r \in Requests, prepare_update(r) PROVE Inv'
  <2>1. CASE RequestError(r) = "Ok"
    BY <1>1, <2>1, EntrySpecTyped, PrepareEntryKeepsInv DEF prepare_update
  <2>2. CASE RequestError(r) # "Ok"
    <3>1. RequestError(r) \in Outcome
      BY RequestErrors DEF Outcome
    <3> QED
      BY <1>1, <2>2, <3>1, RefusedKeepsInv DEF prepare_update
  <2> QED
    BY <2>1, <2>2
<1>2. \A p, b : SugarError(p, b) \in Outcome
  BY DEF SugarError, Outcome
<1>3. ASSUME NEW p \in PathInputs, NEW k \in KeyInputs, prepare_delegate(p, k)
      PROVE  Inv'
  <2>1. CASE SugarError(p, decode_multikey(k)) = "Ok"
    <3>1. p \in PathString /\ parse_branch_path(p) /\ k \in Multikeys
      BY <2>1, InputsAssumption DEF SugarError, decode_multikey
    <3>2. DelegateSpec(p, k) \in PrepareEntrySpec
      BY <3>1, SugarSpecTyped DEF Inv
    <3> QED
      BY <1>3, <2>1, <3>2, PrepareEntryKeepsInv DEF prepare_delegate
  <2>2. CASE SugarError(p, decode_multikey(k)) # "Ok"
    <3>1. SugarError(p, decode_multikey(k)) \in Outcome
      BY <1>2
    <3> QED
      BY <1>3, <2>2, <3>1, RefusedKeepsInv DEF prepare_delegate
  <2> QED
    BY <2>1, <2>2
<1>4. ASSUME NEW p \in PathInputs, prepare_revoke(p) PROVE Inv'
  <2>1. CASE SugarError(p, TRUE) = "Ok"
    <3>1. p \in PathString /\ parse_branch_path(p)
      BY <2>1, InputsAssumption DEF SugarError
    <3>2. RevokeSpec(p) \in PrepareEntrySpec
      BY <3>1, SugarSpecTyped DEF Inv
    <3> QED
      BY <1>4, <2>1, <3>2, PrepareEntryKeepsInv DEF prepare_revoke
  <2>2. CASE SugarError(p, TRUE) # "Ok"
    BY <1>2, <1>4, <2>2, RefusedKeepsInv DEF prepare_revoke
  <2> QED
    BY <2>1, <2>2
<1> QED
  BY <1>1, <1>3, <1>4

\* A commit that answers Ok: the challenge was live, its head is the current
\* one, and the entry that is appended is the pending one with a proof.
LEMMA CommitOk ==
    ASSUME Inv, NEW id \in ChallengeIds, NEW sig \in Signature \cup {Junk},
           CommitError(id, sig) = "Ok"
    PROVE  /\ id \in Live /\ id \in DOMAIN pending /\ sig \in Signature
           /\ try_append(log, SignedEntry(id, sig))
           /\ SignedEntry(id, sig) \in Entry
<1>1. id \in Live /\ sig # Junk /\ try_append(log, SignedEntry(id, sig))
  BY DEF CommitError, commit_with_multisig
<1>2. id \in DOMAIN pending /\ sig \in Signature
  BY <1>1 DEF Live
<1>3. pending[id].unsigned \in Unsigned
  BY <1>2 DEF Inv, TypeOK, PendingUpdate
<1>4. SignedEntry(id, sig) \in Entry
  <2> DEFINE pf == [by |-> sig.by,
                    binds |-> issued[sig.over].message = pending[id].unsigned]
  <2>1. pf \in Proof
    BY <1>2 DEF Signature, Proof
  <2> HIDE DEF pf
  <2>2. try_build_with_proof(pending[id].unsigned, pf) \in Entry
    BY <1>3, <2>1 DEF try_build_with_proof, Unsigned, Entry
  <2> QED
    BY <2>2 DEF SignedEntry, pf
<1> QED
  BY <1>1, <1>2, <1>4

\* commit_update, whatever it answers.
LEMMA CommitKeepsInv ==
    ASSUME Inv, NEW id \in ChallengeIds, NEW sig \in Signature \cup {Junk},
           commit_update(id, sig)
    PROVE  Inv'
<1>1. reply' \in Reply
  BY DEF commit_update, Replied, CommitError, Reply, Outcome
<1>2. CASE CommitError(id, sig) # "Ok"
  <2>1. Live \ {id} \in SUBSET DOMAIN pending
    BY DEF Live
  <2> QED
    BY <1>1, <1>2, <2>1, RestrictKeepsInv DEF commit_update, TakeChallenge
<1>3. CASE CommitError(id, sig) = "Ok"
  <2>1. /\ log' = Append(log, SignedEntry(id, sig))
        /\ pending' = Restrict(pending, {}) /\ issued' = issued
    BY <1>3 DEF commit_update, ClearPending
  <2>2. DOMAIN pending' = {} /\ pending' \in [DOMAIN pending' -> PendingUpdate]
    BY <2>1 DEF Restrict
  <2>3. log' \in Seq(Entry) /\ LogVerified'
    BY <1>3, <2>1, CommitOk, AppendVerified DEF Inv, TypeOK, LogVerified
  <2>4. TypeOK'
    BY <1>1, <2>1, <2>2, <2>3 DEF Inv, TypeOK
  <2>5. PendingOnHead' /\ PendingAsIssued'
    BY <2>2 DEF PendingOnHead, PendingAsIssued
  <2> QED
    BY <2>3, <2>4, <2>5 DEF Inv
<1> QED
  BY <1>2, <1>3

\* cancel_update.
LEMMA CancelKeepsInv ==
    ASSUME Inv, NEW id \in ChallengeIds, cancel_update(id)
    PROVE  Inv'
<1>1. reply' \in Reply
  BY DEF cancel_update, Replied, Reply, Outcome
<1>2. Live \ {id} \in SUBSET DOMAIN pending
  BY DEF Live
<1> QED
  BY <1>1, <1>2, RestrictKeepsInv DEF cancel_update

\* The clock.
LEMMA TickKeepsInv ==
    ASSUME Inv, Tick
    PROVE  Inv'
<1>1. reply' \in Reply
  BY DEF Tick, Replied, Reply, Outcome
<1>2. DOMAIN pending' = DOMAIN pending
  BY DEF Tick
<1>3. ASSUME NEW id \in DOMAIN pending
      PROVE  /\ pending'[id] \in PendingUpdate
             /\ pending'[id].head_cid = pending[id].head_cid
             /\ pending'[id].unsigned = pending[id].unsigned
             /\ pending'[id].kind = pending[id].kind
             /\ pending'[id].path = pending[id].path
  <2> DEFINE a == IF Young(id) THEN pending[id].age + 1 ELSE pending[id].age
  <2>1. pending[id] \in PendingUpdate
    BY DEF Inv, TypeOK
  <2>2. pending'[id] = [pending[id] EXCEPT !.age = a]
    BY DEF Tick
  <2>3. a \in 0..CHALLENGE_TTL
    BY <2>1, AccountAssumption DEF PendingUpdate, Young
  <2> HIDE DEF a
  <2> QED
    BY <2>1, <2>2, <2>3 DEF PendingUpdate
<1>4. pending' \in [DOMAIN pending' -> PendingUpdate]
  <2>1. pending' = [id \in DOMAIN pending' |-> pending'[id]]
    BY DEF Tick
  <2> QED
    BY <1>2, <1>3, <2>1
<1> QED
  BY <1>1, <1>2, <1>3, <1>4, ShrinkKeepsInv DEF Tick

-----------------------------------------------------------------------------
(***************************************************************************)
(* Theorems.                                                               *)
(***************************************************************************)

\* The inductive invariant.
LEMMA InvHolds == Spec => []Inv
<1>1. Inv /\ [Next]_vars => Inv'
  <2> SUFFICES ASSUME Inv, [Next]_vars PROVE Inv'
    OBVIOUS
  <2>1. CASE UNCHANGED vars
    BY <2>1 DEF vars, Inv, TypeOK, LogVerified, PendingOnHead, PendingAsIssued,
                current_head_cid
  <2>2. CASE Next
    BY <2>2, PrepareKeepsInv, CommitKeepsInv, CancelKeepsInv, TickKeepsInv
    DEF Next
  <2> QED
    BY <2>1, <2>2
<1> QED
  BY <1>1, InitInv, PTL DEF Spec

\* Type correctness of the account.
THEOREM TypeCorrect == Spec => []TypeOK
BY InvHolds, PTL DEF Inv

\* The cached log passes full-chain verification after every call.
THEOREM LogAlwaysVerified == Spec => []LogVerified
BY InvHolds, PTL DEF Inv

\* Every pending challenge was prepared on the current head.
THEOREM PendingAlwaysOnHead == Spec => []PendingOnHead
BY InvHolds, PTL DEF Inv

\* commit_update never answers HeadMismatch: its head check cannot fail.
THEOREM HeadMismatchUnreachable == Spec => []LoserSeesNotFound
<1>1. Init => LoserSeesNotFound
  BY DEF Init, LoserSeesNotFound
<1>2. Inv /\ LoserSeesNotFound /\ [Next]_vars => LoserSeesNotFound'
  <2> SUFFICES ASSUME Inv, LoserSeesNotFound, [Next]_vars
               PROVE  LoserSeesNotFound'
    OBVIOUS
  <2>1. ASSUME NEW id \in ChallengeIds, NEW sig \in Signature \cup {Junk},
               commit_update(id, sig)
        PROVE  LoserSeesNotFound'
    <3>1. id \in Live => current_head_cid = pending[id].head_cid
      BY DEF Live, Inv, PendingOnHead
    <3> QED
      BY <2>1, <3>1 DEF commit_update, Replied, CommitError, LoserSeesNotFound
  <2>2. ASSUME NEW spec, prepare_entry(spec) PROVE LoserSeesNotFound'
    <3>1. PrepareEntryError(spec) # "HeadMismatch"
      BY DEF PrepareEntryError
    <3>2. ASSUME NEW id, Issue(id, spec)
          PROVE  reply' = [op |-> "prepare", id |-> id, res |-> "Ok"]
      BY <3>2 DEF Issue, Replied
    <3> QED
      BY <2>2, <3>1, <3>2 DEF prepare_entry, Replied, LoserSeesNotFound
  <2>3. \A res : Refused(res) /\ res # "HeadMismatch" => LoserSeesNotFound'
    BY DEF Refused, Replied, LoserSeesNotFound
  <2>4. ASSUME NEW r \in Requests, prepare_update(r) PROVE LoserSeesNotFound'
    BY <2>2, <2>3, <2>4, RequestErrors DEF prepare_update
  <2>5. \A p, b : SugarError(p, b) # "HeadMismatch"
    BY DEF SugarError
  <2>6. ASSUME NEW p, NEW k, prepare_delegate(p, k) PROVE LoserSeesNotFound'
    BY <2>2, <2>3, <2>5, <2>6 DEF prepare_delegate
  <2>7. ASSUME NEW p, prepare_revoke(p) PROVE LoserSeesNotFound'
    BY <2>2, <2>3, <2>5, <2>7 DEF prepare_revoke
  <2>8. ASSUME NEW id, cancel_update(id) PROVE LoserSeesNotFound'
    BY <2>8 DEF cancel_update, Replied, LoserSeesNotFound
  <2>9. CASE Tick
    BY <2>9 DEF Tick, Replied, LoserSeesNotFound
  <2>10. CASE UNCHANGED vars
    BY <2>10 DEF vars, LoserSeesNotFound
  <2> QED
    BY <2>1, <2>4, <2>6, <2>7, <2>8, <2>9, <2>10 DEF Next
<1> QED
  BY <1>1, <1>2, InvHolds, PTL DEF Spec

\* The body of CommitAppendsPrepared.
AppendsPrepared ==
    log' # log =>
        /\ reply'.op = "commit" /\ reply'.res = "Ok"
        /\ reply'.id \in DOMAIN pending
        /\ pending[reply'.id].age < CHALLENGE_TTL
        /\ issued[reply'.id].head_cid = current_head_cid
        /\ \E k \in Multikeys :
              log' = Append(log, try_build_with_proof(issued[reply'.id].message,
                                     [by |-> k, binds |-> TRUE]))

\* A signature that a lock accepts was made over the entry it is attached to.
LEMMA AcceptedBinds ==
    ASSUME NEW plog, NEW e, try_append(plog, e)
    PROVE  e.proof.binds
BY DEF try_append, Authorised, Satisfied

\* The log grows only by a live challenge of this head, as it was handed out.
THEOREM CommitsOnlyThePrepared == Spec => CommitAppendsPrepared
<1>1. Inv /\ [Next]_vars => [AppendsPrepared]_vars
  <2> SUFFICES ASSUME Inv, Next PROVE AppendsPrepared
    OBVIOUS
  <2>1. ASSUME NEW id \in ChallengeIds, NEW sig \in Signature \cup {Junk},
               commit_update(id, sig)
        PROVE  AppendsPrepared
    <3>1. CASE CommitError(id, sig) # "Ok"
      BY <2>1, <3>1 DEF commit_update, AppendsPrepared
    <3>2. CASE CommitError(id, sig) = "Ok"
      <4>1. /\ id \in DOMAIN pending /\ pending[id].age < CHALLENGE_TTL
            /\ sig \in Signature /\ SignedEntry(id, sig).proof.binds
        BY <3>2, CommitOk, AcceptedBinds DEF Live
      <4>2. /\ pending[id].head_cid = current_head_cid
            /\ issued[id].head_cid = pending[id].head_cid
            /\ issued[id].message = pending[id].unsigned
        BY <4>1 DEF Inv, PendingOnHead, PendingAsIssued
      <4>3. /\ reply' = [op |-> "commit", id |-> id, res |-> "Ok"]
            /\ log' = Append(log, SignedEntry(id, sig))
        BY <2>1, <3>2 DEF commit_update, Replied
      <4>4. SignedEntry(id, sig)
              = try_build_with_proof(issued[id].message,
                                     [by |-> sig.by, binds |-> TRUE])
        <5>1. issued[sig.over].message = pending[id].unsigned
          BY <4>1 DEF SignedEntry, try_build_with_proof
        <5> QED
          BY <5>1, <4>2 DEF SignedEntry
      <4>5. sig.by \in Multikeys
        BY <4>1 DEF Signature
      <4> QED
        BY <4>1, <4>2, <4>3, <4>4, <4>5 DEF AppendsPrepared
    <3> QED
      BY <3>1, <3>2
  <2>2. \A spec : prepare_entry(spec) => log' = log
    BY DEF prepare_entry, Issue
  <2>3. \A res : Refused(res) => log' = log
    BY DEF Refused
  <2>4. ASSUME NEW r, prepare_update(r) PROVE log' = log
    BY <2>2, <2>3, <2>4 DEF prepare_update
  <2>5. ASSUME NEW p, NEW k, prepare_delegate(p, k) PROVE log' = log
    BY <2>2, <2>3, <2>5 DEF prepare_delegate
  <2>6. ASSUME NEW p, prepare_revoke(p) PROVE log' = log
    BY <2>2, <2>3, <2>6 DEF prepare_revoke
  <2>7. ASSUME NEW id, cancel_update(id) PROVE log' = log
    BY <2>7 DEF cancel_update
  <2>8. CASE Tick
    BY <2>8 DEF Tick, AppendsPrepared
  <2> QED
    BY <2>1, <2>4, <2>5, <2>6, <2>7, <2>8 DEF Next, AppendsPrepared
<1> QED
  BY <1>1, InvHolds, PTL DEF Spec, CommitAppendsPrepared, AppendsPrepared

\* The action of ChallengeSpentOnce.
SpendsOnce ==
    /\ reply'.op \in {"commit", "cancel"} => reply'.id \notin DOMAIN pending'
    /\ DOMAIN pending' \cap DOMAIN issued \subseteq DOMAIN pending

\* A call that prepares names a fresh id, or none.
PrepareSpendsNone ==
    /\ reply'.op = "prepare"
    /\ DOMAIN pending' \cap DOMAIN issued \subseteq DOMAIN pending

\* A new challenge takes an id that was never handed out.
LEMMA PrepareEntrySpends ==
    ASSUME NEW spec, prepare_entry(spec)
    PROVE  PrepareSpendsNone
<1>1. CASE pending' = purge_expired_challenges /\ reply'.op = "prepare"
  BY <1>1 DEF PrepareSpendsNone, purge_expired_challenges, Restrict, Live
<1>2. ASSUME NEW id \in ChallengeIds \ DOMAIN issued, Issue(id, spec)
      PROVE  PrepareSpendsNone
  <2>1. DOMAIN pending' = Live \cup {id}
    BY <1>2 DEF Issue
  <2> QED
    BY <1>2, <2>1 DEF Issue, Replied, PrepareSpendsNone, Live
<1> QED
  BY <1>1, <1>2 DEF prepare_entry, Replied

\* Whatever its outcome, a commit or cancel ends the challenge it names, and
\* no challenge that was handed out becomes pending again.
THEOREM SpentChallengesStaySpent == Spec => ChallengeSpentOnce
<1>1. Next => [SpendsOnce]_vars
  <2> SUFFICES ASSUME Next PROVE SpendsOnce
    OBVIOUS
  <2>1. ASSUME NEW id \in ChallengeIds, NEW sig \in Signature \cup {Junk},
               commit_update(id, sig)
        PROVE  SpendsOnce
    <3>1. pending' = TakeChallenge(id) \/ pending' = ClearPending(id)
      BY <2>1 DEF commit_update
    <3>2. id \notin DOMAIN pending' /\ DOMAIN pending' \subseteq DOMAIN pending
      BY <3>1 DEF TakeChallenge, ClearPending, Restrict, Live
    <3> QED
      BY <2>1, <3>2 DEF commit_update, Replied, SpendsOnce
  <2>2. ASSUME NEW id \in ChallengeIds, cancel_update(id) PROVE SpendsOnce
    <3>1. id \notin DOMAIN pending' /\ DOMAIN pending' \subseteq DOMAIN pending
      BY <2>2 DEF cancel_update, Restrict, Live
    <3> QED
      BY <2>2, <3>1 DEF cancel_update, Replied, SpendsOnce
  <2>3. CASE Tick
    BY <2>3 DEF Tick, Replied, SpendsOnce
  <2>4. \A res : Refused(res) => PrepareSpendsNone
    BY DEF Refused, Replied, PrepareSpendsNone
  <2>5. PrepareSpendsNone => SpendsOnce
    BY DEF PrepareSpendsNone, SpendsOnce
  <2>6. ASSUME NEW r, prepare_update(r) PROVE PrepareSpendsNone
    BY <2>4, <2>6, PrepareEntrySpends DEF prepare_update
  <2>7. ASSUME NEW q, NEW k, prepare_delegate(q, k) PROVE PrepareSpendsNone
    BY <2>4, <2>7, PrepareEntrySpends DEF prepare_delegate
  <2>8. ASSUME NEW q, prepare_revoke(q) PROVE PrepareSpendsNone
    BY <2>4, <2>8, PrepareEntrySpends DEF prepare_revoke
  <2> QED
    BY <2>1, <2>2, <2>3, <2>5, <2>6, <2>7, <2>8 DEF Next
<1>2. [Next]_vars => [SpendsOnce]_vars
  BY <1>1
<1> QED
  BY <1>2, PTL DEF Spec, ChallengeSpentOnce, SpendsOnce

\* The action of GrowsOnlyWithLive.
GrowsLive ==
    DOMAIN pending' \ DOMAIN pending # {} =>
        \A id \in DOMAIN pending' : pending'[id].age < CHALLENGE_TTL

\* A prepare call drops the expired challenges before it adds one.
LEMMA PrepareEntryGrowsLive ==
    ASSUME NEW spec, prepare_entry(spec)
    PROVE  GrowsLive
<1>1. CASE pending' = purge_expired_challenges
  BY <1>1 DEF GrowsLive, purge_expired_challenges, Restrict, Live
<1>2. ASSUME NEW id, Issue(id, spec)
      PROVE  GrowsLive
  <2>1. /\ DOMAIN pending' = Live \cup {id}
        /\ \A c \in Live \ {id} : pending'[c] = pending[c]
        /\ pending'[id].age = 0
    BY <1>2 DEF Issue
  <2> QED
    BY <2>1, AccountAssumption DEF GrowsLive, Live
<1> QED
  BY <1>1, <1>2 DEF prepare_entry

\* The pending map grows only by driving every expired challenge out.
THEOREM PendingGrowsOnlyWithLive == Spec => GrowsOnlyWithLive
<1>1. Next => GrowsLive
  <2> SUFFICES ASSUME Next PROVE GrowsLive
    OBVIOUS
  <2>1. DOMAIN pending' \subseteq DOMAIN pending => GrowsLive
    BY DEF GrowsLive
  <2>2. \A res : Refused(res) => GrowsLive
    BY DEF Refused, GrowsLive
  <2>3. ASSUME NEW r, prepare_update(r) PROVE GrowsLive
    BY <2>2, <2>3, PrepareEntryGrowsLive DEF prepare_update
  <2>4. ASSUME NEW q, NEW k, prepare_delegate(q, k) PROVE GrowsLive
    BY <2>2, <2>4, PrepareEntryGrowsLive DEF prepare_delegate
  <2>5. ASSUME NEW q, prepare_revoke(q) PROVE GrowsLive
    BY <2>2, <2>5, PrepareEntryGrowsLive DEF prepare_revoke
  <2>6. ASSUME NEW id, NEW sig, commit_update(id, sig) PROVE GrowsLive
    BY <2>1, <2>6 DEF commit_update, TakeChallenge, ClearPending, Restrict, Live
  <2>7. ASSUME NEW id, cancel_update(id) PROVE GrowsLive
    BY <2>1, <2>7 DEF cancel_update, Restrict, Live
  <2>8. CASE Tick
    BY <2>1, <2>8 DEF Tick
  <2> QED
    BY <2>3, <2>4, <2>5, <2>6, <2>7, <2>8 DEF Next
<1>2. [Next]_vars => [GrowsLive]_vars
  BY <1>1
<1> QED
  BY <1>2, PTL DEF Spec, GrowsOnlyWithLive, GrowsLive

-----------------------------------------------------------------------------
(***************************************************************************)
(* Delegations.                                                            *)
(*                                                                         *)
(* What Inv does not say of a pending challenge: which entry it is.  The   *)
(* entry of a delegation or a revocation was computed from the locks and   *)
(* the delegations at the head when it was prepared, and is appended much  *)
(* later; DelegationInv says that it is still the entry that the head      *)
(* calls for.                                                              *)
(***************************************************************************)

\* The op of a delegation of b to mk, and that of a revocation.
DelegateOp(b, mk) ==
    [op |-> "update", key |-> delegate_pubkey_key(b), value |-> KeyValue(mk)]

RevokeOp(b) ==
    [op |-> "delete", key |-> delegate_pubkey_key(b), value |-> Absent]

\* u is the entry after the head of the log that delegates b, or revokes it.
Delegates(u, b) ==
    /\ u.locks = locks_replacing_path(HeadEntry(log), b,
                                      {delegated_branch_lock_script(b)})
    /\ \E mk \in Multikeys : u.ops = <<DelegateOp(b, mk)>>

Revokes(u, b) ==
    /\ u.locks = locks_replacing_path(HeadEntry(log), b, {})
    /\ u.ops = <<RevokeOp(b)>>

\* The entry of a pending delegation or revocation.
SugarShaped(id) ==
    LET p == pending[id]
    IN  /\ p.path \in Key
        /\ parse_branch_path(p.path)
        /\ issued[id].signing_key_path
             = resolve_closest_parent_signing_key(p.path, DelegatedPaths(log))
        /\ \/ p.kind = "Delegate" /\ Delegates(p.unsigned, p.path)
           \/ p.kind = "Revoke" /\ Revokes(p.unsigned, p.path)

\* Every pending delegation or revocation is the one that the head calls for.
PendingSugar ==
    \A id \in DOMAIN pending : pending[id].kind # "Entry" => SugarShaped(id)

\* Every pending entry links as an entry of its seqno must.
PendingHops ==
    \A id \in DOMAIN pending :
        pending[id].unsigned.lipmaa = lipmaa_link(pending[id].unsigned.seqno)

\* A lock that create or prepare_delegate makes.
PlainLock(l) ==
    \/ l = RootLock
    \/ \E b \in Key : parse_branch_path(b) /\ l = delegated_branch_lock_script(b)

\* Without raw lock writes all locks, of the head and pending, are plain.
PlainLocks ==
    NoRawLocks =>
        /\ \A l \in HeadEntry(log).locks : PlainLock(l)
        /\ \A id \in DOMAIN pending : \A l \in pending[id].unsigned.locks : PlainLock(l)

\* Inductive beside Inv.
DelegationInv == PendingSugar /\ PendingHops /\ PlainLocks

\* The input of prepare_entry comes from one of the three prepare calls.
SpecOf(spec) ==
    \/ \E r \in Requests : RequestError(r) = "Ok" /\ spec = EntrySpec(r)
    \/ \E b \in PathString :
          /\ parse_branch_path(b)
          /\ \/ spec = RevokeSpec(b)
             \/ \E mk \in Multikeys : spec = DelegateSpec(b, mk)

\* The three ways in which a step treats the pending challenges.
ChallengesKept ==
    /\ UNCHANGED <<log, issued>>
    /\ DOMAIN pending' \subseteq DOMAIN pending
    /\ \A id \in DOMAIN pending' :
          /\ pending'[id].unsigned = pending[id].unsigned
          /\ pending'[id].kind = pending[id].kind
          /\ pending'[id].path = pending[id].path

ChallengeIssued ==
    \E spec \in PrepareEntrySpec, id \in ChallengeIds \ DOMAIN issued :
        SpecOf(spec) /\ PrepareEntryError(spec) = "Ok" /\ Issue(id, spec)

CommitSucceeds ==
    \E id \in ChallengeIds, sig \in Signature \cup {Junk} :
        CommitError(id, sig) = "Ok" /\ commit_update(id, sig)

\* prepare_entry issues a challenge or only purges.
LEMMA PrepareEntryCases ==
    ASSUME NEW spec \in PrepareEntrySpec, SpecOf(spec), prepare_entry(spec)
    PROVE  ChallengesKept \/ ChallengeIssued
<1>1. CASE PrepareEntryError(spec) = "Ok"
  BY <1>1 DEF prepare_entry, ChallengeIssued
<1>2. CASE PrepareEntryError(spec) # "Ok"
  BY <1>2 DEF prepare_entry, purge_expired_challenges, Restrict, Live, ChallengesKept
<1> QED
  BY <1>1, <1>2

\* Every step is of one of the three kinds.
LEMMA StepCases ==
    ASSUME Inv, [Next]_vars
    PROVE  ChallengesKept \/ ChallengeIssued \/ CommitSucceeds
<1>1. \A res : Refused(res) => ChallengesKept
  BY DEF Refused, ChallengesKept
<1>2. ASSUME NEW r \in Requests, prepare_update(r)
      PROVE  ChallengesKept \/ ChallengeIssued
  <2>1. CASE RequestError(r) = "Ok"
    <3>1. EntrySpec(r) \in PrepareEntrySpec /\ SpecOf(EntrySpec(r))
      BY <2>1, EntrySpecTyped DEF SpecOf
    <3> QED
      BY <1>2, <2>1, <3>1, PrepareEntryCases DEF prepare_update
  <2>2. CASE RequestError(r) # "Ok"
    BY <1>1, <1>2, <2>2 DEF prepare_update
  <2> QED
    BY <2>1, <2>2
<1>3. ASSUME NEW p \in PathInputs, NEW k \in KeyInputs, prepare_delegate(p, k)
      PROVE  ChallengesKept \/ ChallengeIssued
  <2>1. CASE SugarError(p, decode_multikey(k)) = "Ok"
    <3>1. p \in PathString /\ parse_branch_path(p) /\ k \in Multikeys
      BY <2>1, InputsAssumption DEF SugarError, decode_multikey
    <3>2. DelegateSpec(p, k) \in PrepareEntrySpec /\ SpecOf(DelegateSpec(p, k))
      BY <3>1, SugarSpecTyped DEF SpecOf, Inv
    <3> QED
      BY <1>3, <2>1, <3>2, PrepareEntryCases DEF prepare_delegate
  <2>2. CASE SugarError(p, decode_multikey(k)) # "Ok"
    BY <1>1, <1>3, <2>2 DEF prepare_delegate
  <2> QED
    BY <2>1, <2>2
<1>4. ASSUME NEW p \in PathInputs, prepare_revoke(p)
      PROVE  ChallengesKept \/ ChallengeIssued
  <2>1. CASE SugarError(p, TRUE) = "Ok"
    <3>1. p \in PathString /\ parse_branch_path(p)
      BY <2>1, InputsAssumption DEF SugarError
    <3>2. RevokeSpec(p) \in PrepareEntrySpec /\ SpecOf(RevokeSpec(p))
      BY <3>1, SugarSpecTyped DEF SpecOf, Inv
    <3> QED
      BY <1>4, <2>1, <3>2, PrepareEntryCases DEF prepare_revoke
  <2>2. CASE SugarError(p, TRUE) # "Ok"
    BY <1>1, <1>4, <2>2 DEF prepare_revoke
  <2> QED
    BY <2>1, <2>2
<1>5. ASSUME NEW id \in ChallengeIds, NEW sig \in Signature \cup {Junk},
             commit_update(id, sig)
      PROVE  ChallengesKept \/ CommitSucceeds
  <2>1. CASE CommitError(id, sig) = "Ok"
    BY <1>5, <2>1 DEF CommitSucceeds
  <2>2. CASE CommitError(id, sig) # "Ok"
    BY <1>5, <2>2 DEF commit_update, TakeChallenge, Restrict, Live, ChallengesKept
  <2> QED
    BY <2>1, <2>2
<1>6. ASSUME NEW id \in ChallengeIds, cancel_update(id) PROVE ChallengesKept
  BY <1>6 DEF cancel_update, Restrict, Live, ChallengesKept
<1>7. CASE Tick
  <2>1. DOMAIN pending' = DOMAIN pending /\ UNCHANGED <<log, issued>>
    BY <1>7 DEF Tick
  <2>2. ASSUME NEW id \in DOMAIN pending
        PROVE  /\ pending'[id].unsigned = pending[id].unsigned
               /\ pending'[id].kind = pending[id].kind
               /\ pending'[id].path = pending[id].path
    <3> DEFINE a == IF Young(id) THEN pending[id].age + 1 ELSE pending[id].age
    <3>1. pending[id] \in PendingUpdate
      BY DEF Inv, TypeOK
    <3>2. pending'[id] = [pending[id] EXCEPT !.age = a]
      BY <1>7 DEF Tick
    <3> HIDE DEF a
    <3> QED
      BY <3>1, <3>2 DEF PendingUpdate
  <2> QED
    BY <2>1, <2>2 DEF ChallengesKept
<1>8. CASE UNCHANGED vars
  BY <1>8 DEF vars, ChallengesKept
<1> QED
  BY <1>2, <1>3, <1>4, <1>5, <1>6, <1>7, <1>8 DEF Next

\* What prepare_delegate and prepare_revoke ask of prepare_entry.
LEMMA SugarSpecShape ==
    ASSUME TypeOK, NEW b \in PathString, parse_branch_path(b), NEW spec,
           spec = RevokeSpec(b) \/ \E mk \in Multikeys : spec = DelegateSpec(b, mk),
           NEW u,
           u = prepare_next_entry(log,
                   lock_spec_to_scripts(HeadEntry(log), spec.locks), spec.ops)
    PROVE  /\ b \in Key /\ spec.path = b
           /\ spec.sign_as
                = resolve_closest_parent_signing_key(b, DelegatedPaths(log))
           /\ \/ spec.kind = "Delegate" /\ Delegates(u, b)
              \/ spec.kind = "Revoke" /\ Revokes(u, b)
<1>1. b \in Key
  BY DEF parse_branch_path, parse_key, PathString
<1>2. u.ops = spec.ops
      /\ u.locks = lock_spec_to_scripts(HeadEntry(log), spec.locks)
  BY DEF prepare_next_entry
<1>3. CASE spec = RevokeSpec(b)
  <2>1. lock_spec_to_scripts(HeadEntry(log), spec.locks)
          = locks_replacing_path(HeadEntry(log), b, {})
    BY <1>3 DEF RevokeSpec, LockRemove, Inherit, lock_spec_to_scripts
  <2>2. /\ spec.path = b /\ spec.kind = "Revoke" /\ spec.ops = <<RevokeOp(b)>>
        /\ spec.sign_as
             = resolve_closest_parent_signing_key(b, DelegatedPaths(log))
    BY <1>3 DEF RevokeSpec, RevokeOp
  <2> QED
    BY <1>1, <1>2, <2>1, <2>2 DEF Revokes
<1>4. ASSUME NEW mk \in Multikeys, spec = DelegateSpec(b, mk)
      PROVE  /\ spec.path = b /\ spec.kind = "Delegate" /\ Delegates(u, b)
             /\ spec.sign_as
                  = resolve_closest_parent_signing_key(b, DelegatedPaths(log))
  <2> DEFINE lock == delegated_branch_lock_script(b)
  <2>1. lock = [path |-> lock.path, code |-> lock.code] /\ lock.path = b
    BY DEF delegated_branch_lock_script
  <2>2. /\ spec.path = b /\ spec.kind = "Delegate"
        /\ spec.ops = <<DelegateOp(b, mk)>>
        /\ spec.locks = LockUpsert(lock.path, lock.code)
        /\ spec.sign_as
             = resolve_closest_parent_signing_key(b, DelegatedPaths(log))
    BY <1>4 DEF DelegateSpec, DelegateOp
  <2> HIDE DEF lock
  <2>3. lock_spec_to_scripts(HeadEntry(log), spec.locks)
          = locks_replacing_path(HeadEntry(log), b, {lock})
    BY <2>1, <2>2 DEF LockUpsert, Inherit, lock_spec_to_scripts
  <2> QED
    BY <1>2, <2>2, <2>3 DEF Delegates, lock
<1> QED
  BY <1>1, <1>3, <1>4

\* Without raw locks, the locks of the next entry are plain if those of the
\* head are.
LEMMA PlainLocksInherited ==
    ASSUME TypeOK, NoRawLocks, NEW spec, SpecOf(spec), lock_spec_ok(spec.locks),
           \A l \in HeadEntry(log).locks : PlainLock(l)
    PROVE  \A l \in lock_spec_to_scripts(HeadEntry(log), spec.locks) : PlainLock(l)
<1>1. CASE \E r \in Requests : RequestError(r) = "Ok" /\ spec = EntrySpec(r)
  <2>1. spec.locks.kind \in {"inherit", "remove"}
    BY <1>1 DEF NoRawLocks, RequestError, EntrySpec, lock_spec_ok
  <2> QED
    BY <2>1 DEF lock_spec_to_scripts, locks_replacing_path
<1>2. ASSUME NEW b \in PathString, parse_branch_path(b),
             spec = RevokeSpec(b) \/ \E mk \in Multikeys : spec = DelegateSpec(b, mk)
      PROVE  \A l \in lock_spec_to_scripts(HeadEntry(log), spec.locks) : PlainLock(l)
  <2> DEFINE u == prepare_next_entry(log,
                    lock_spec_to_scripts(HeadEntry(log), spec.locks), spec.ops)
  <2>1. b \in Key /\ (Delegates(u, b) \/ Revokes(u, b))
    BY <1>2, SugarSpecShape
  <2>2. u.locks = lock_spec_to_scripts(HeadEntry(log), spec.locks)
    BY DEF prepare_next_entry
  <2> HIDE DEF u
  <2>3. PlainLock(delegated_branch_lock_script(b))
    BY <1>2, <2>1 DEF PlainLock
  <2> QED
    BY <2>1, <2>2, <2>3 DEF Delegates, Revokes, locks_replacing_path
<1> QED
  BY <1>1, <1>2 DEF SpecOf

\* A step that issues nothing and leaves the log alone.
LEMMA KeptKeepsDelegations ==
    ASSUME Inv, DelegationInv, ChallengesKept
    PROVE  DelegationInv'
<1>1. /\ log' = log /\ issued' = issued /\ DOMAIN pending' \subseteq DOMAIN pending
      /\ \A id \in DOMAIN pending' :
            /\ pending'[id].unsigned = pending[id].unsigned
            /\ pending'[id].kind = pending[id].kind
            /\ pending'[id].path = pending[id].path
  BY DEF ChallengesKept
<1>2. PendingSugar'
  <2> SUFFICES ASSUME NEW id \in DOMAIN pending', pending'[id].kind # "Entry"
               PROVE  SugarShaped(id)'
    BY DEF PendingSugar
  <2>1. SugarShaped(id)
    BY <1>1 DEF DelegationInv, PendingSugar
  <2> QED
    BY <1>1, <2>1 DEF SugarShaped, Delegates, Revokes
<1>3. PendingHops'
  BY <1>1 DEF DelegationInv, PendingHops
<1>4. PlainLocks'
  BY <1>1 DEF DelegationInv, PlainLocks, NoRawLocks
<1> QED
  BY <1>2, <1>3, <1>4 DEF DelegationInv

\* A new challenge.
LEMMA IssueKeepsDelegations ==
    ASSUME Inv, DelegationInv, ChallengeIssued
    PROVE  DelegationInv'
<1>1. PICK spec \in PrepareEntrySpec, id \in ChallengeIds \ DOMAIN issued :
            SpecOf(spec) /\ PrepareEntryError(spec) = "Ok" /\ Issue(id, spec)
  BY DEF ChallengeIssued
<1> DEFINE u == prepare_next_entry(log,
                    lock_spec_to_scripts(HeadEntry(log), spec.locks), spec.ops)
<1>2. /\ log' = log /\ DOMAIN pending' = Live \cup {id}
      /\ pending'[id].unsigned = u /\ pending'[id].kind = spec.kind
      /\ pending'[id].path = spec.path
      /\ issued'[id].signing_key_path = spec.sign_as
      /\ \A c \in Live \ {id} : pending'[c] = pending[c]
      /\ \A c \in Live \ {id} : c \in DOMAIN pending /\ issued'[c] = issued[c]
  <2>1. Live \subseteq DOMAIN pending /\ DOMAIN pending \subseteq DOMAIN issued
    BY DEF Live, Inv, PendingAsIssued
  <2>2. /\ log' = log
        /\ pending' = [c \in Live \cup {id} |->
                IF c = id
                THEN [head_cid |-> current_head_cid, unsigned |-> u,
                      kind |-> spec.kind, path |-> spec.path, age |-> 0]
                ELSE pending[c]]
        /\ issued' = [c \in DOMAIN issued \cup {id} |->
                IF c = id
                THEN [kind |-> spec.kind, path |-> spec.path,
                      signing_key_path |-> spec.sign_as,
                      head_cid |-> current_head_cid, message |-> u]
                ELSE issued[c]]
    BY <1>1 DEF Issue
  <2> HIDE DEF u
  <2> QED
    BY <2>1, <2>2
<1>3. /\ u.lipmaa = lipmaa_link(u.seqno)
      /\ u.locks = lock_spec_to_scripts(HeadEntry(log), spec.locks)
  BY DEF prepare_next_entry
<1>4. ASSUME spec.kind # "Entry"
      PROVE  /\ spec.path \in Key
             /\ parse_branch_path(spec.path)
             /\ spec.sign_as
                  = resolve_closest_parent_signing_key(spec.path, DelegatedPaths(log))
             /\ \/ spec.kind = "Delegate" /\ Delegates(u, spec.path)
                \/ spec.kind = "Revoke" /\ Revokes(u, spec.path)
  <2>1. PICK b \in PathString :
            /\ parse_branch_path(b)
            /\ spec = RevokeSpec(b) \/ \E mk \in Multikeys : spec = DelegateSpec(b, mk)
    BY <1>1, <1>4 DEF SpecOf, EntrySpec
  <2> QED
    BY <2>1, SugarSpecShape DEF Inv
<1> HIDE DEF u
<1>5. PendingSugar'
  <2> SUFFICES ASSUME NEW c \in Live \cup {id}, pending'[c].kind # "Entry"
               PROVE  SugarShaped(c)'
    BY <1>2 DEF PendingSugar
  <2>1. CASE c = id
    BY <1>2, <1>4, <2>1 DEF SugarShaped, Delegates, Revokes
  <2>2. CASE c # id
    <3>1. SugarShaped(c)
      BY <1>2, <2>2 DEF DelegationInv, PendingSugar
    <3> QED
      BY <1>2, <2>2, <3>1 DEF SugarShaped, Delegates, Revokes
  <2> QED
    BY <2>1, <2>2
<1>6. PendingHops'
  BY <1>2, <1>3 DEF DelegationInv, PendingHops
<1>7. PlainLocks'
  <2> SUFFICES ASSUME NoRawLocks PROVE PlainLocks'
    BY DEF PlainLocks, NoRawLocks
  <2>1. \A l \in HeadEntry(log).locks : PlainLock(l)
    BY DEF DelegationInv, PlainLocks
  <2>2. \A l \in u.locks : PlainLock(l)
    BY <1>1, <1>3, <2>1, PlainLocksInherited DEF PrepareEntryError, Inv
  <2>3. \A c \in Live \ {id} : \A l \in pending[c].unsigned.locks : PlainLock(l)
    BY <1>2 DEF DelegationInv, PlainLocks
  <2> QED
    BY <1>2, <2>1, <2>2, <2>3 DEF PlainLocks
<1> QED
  BY <1>5, <1>6, <1>7 DEF DelegationInv

\* The entry that a commit appends, and the log after it.
LEMMA Committed ==
    ASSUME Inv, NEW id \in ChallengeIds, NEW sig \in Signature \cup {Junk},
           CommitError(id, sig) = "Ok", commit_update(id, sig)
    PROVE  LET e == SignedEntry(id, sig)
           IN  /\ id \in DOMAIN pending /\ id \in DOMAIN issued
               /\ e \in Entry /\ try_append(log, e)
               /\ e.locks = pending[id].unsigned.locks
               /\ e.ops = pending[id].unsigned.ops
               /\ log' = Append(log, e) /\ HeadEntry(log') = e
               /\ DOMAIN pending' = {} /\ issued' = issued /\ reply'.id = id
<1> DEFINE e == SignedEntry(id, sig)
<1>1. id \in DOMAIN pending /\ e \in Entry /\ try_append(log, e)
  BY CommitOk
<1>2. id \in DOMAIN issued
  BY <1>1 DEF Inv, PendingAsIssued
<1>3. e.locks = pending[id].unsigned.locks /\ e.ops = pending[id].unsigned.ops
  BY DEF SignedEntry, try_build_with_proof
<1>4. log' = Append(log, e) /\ issued' = issued /\ reply'.id = id
      /\ DOMAIN pending' = {}
  BY DEF commit_update, Replied, ClearPending, Restrict
<1>5. log \in Seq(Entry)
  BY DEF Inv, TypeOK
<1> HIDE DEF e
<1>6. HeadEntry(log') = e
  BY <1>1, <1>4, <1>5 DEF HeadEntry
<1> QED
  BY <1>1, <1>2, <1>3, <1>4, <1>6 DEF e

\* A commit leaves no challenge.
LEMMA CommitKeepsDelegations ==
    ASSUME Inv, DelegationInv, CommitSucceeds
    PROVE  DelegationInv'
<1>1. PICK id \in ChallengeIds, sig \in Signature \cup {Junk} :
            CommitError(id, sig) = "Ok" /\ commit_update(id, sig)
  BY DEF CommitSucceeds
<1>2. /\ id \in DOMAIN pending /\ DOMAIN pending' = {}
      /\ HeadEntry(log').locks = pending[id].unsigned.locks
  BY <1>1, Committed
<1> QED
  BY <1>2 DEF DelegationInv, PendingSugar, PendingHops, PlainLocks, NoRawLocks

\* The account starts without challenges, and a created one with the lock at
\* "/" only.
LEMMA InitDelegations == Init => DelegationInv
<1> SUFFICES ASSUME Init PROVE DelegationInv
  OBVIOUS
<1>1. PendingSugar /\ PendingHops
  BY DEF Init, PendingSugar, PendingHops
<1>2. ASSUME NoRawLocks
      PROVE  HeadEntry(log).locks = {RootLock}
  <2>1. log = opened_log(EntryKey, RootKey)
    BY <1>2 DEF Init, NoRawLocks, open_plog_with_external_pubkey
  <2> QED
    BY <2>1 DEF opened_log, HeadEntry, default_open_config, RootLock
<1>3. PlainLocks
  BY <1>2 DEF PlainLocks, PlainLock, Init
<1> QED
  BY <1>1, <1>3 DEF DelegationInv

\* The two inductive invariants together.
LEMMA DelegationInvHolds == Spec => [](Inv /\ DelegationInv)
<1>1. Inv /\ DelegationInv /\ [Next]_vars => DelegationInv'
  BY StepCases, KeptKeepsDelegations, IssueKeepsDelegations, CommitKeepsDelegations
<1> QED
  BY <1>1, InvHolds, InitDelegations, PTL DEF Spec

\* A pending delegation or revocation has one op, on the key of its branch.
LEMMA SugarOps ==
    ASSUME NEW id, SugarShaped(id)
    PROVE  LET p == pending[id]
           IN  \E o \in Op :
                  /\ p.unsigned.ops = <<o>>
                  /\ o.op # "noop" /\ o.key = delegate_pubkey_key(p.path)
                  /\ p.kind = "Delegate" =>
                        o.op = "update" /\ \E mk \in Multikeys : o.value = KeyValue(mk)
                  /\ p.kind = "Revoke" => o.op = "delete"
<1> DEFINE p == pending[id]
<1>1. delegate_pubkey_key(p.path) \in Key
  BY KeyPathsTyped DEF SugarShaped
<1>2. CASE p.kind = "Delegate"
  <2>1. PICK mk \in Multikeys : p.unsigned.ops = <<DelegateOp(p.path, mk)>>
    BY <1>2 DEF SugarShaped, Delegates
  <2>2. DelegateOp(p.path, mk) \in Op
    BY <1>1, ValuesTyped DEF DelegateOp, Op
  <2> QED
    BY <1>2, <2>1, <2>2 DEF DelegateOp
<1>3. CASE p.kind = "Revoke"
  <2>1. p.unsigned.ops = <<RevokeOp(p.path)>>
    BY <1>3 DEF SugarShaped, Revokes
  <2>2. RevokeOp(p.path) \in Op
    BY <1>1, ValuesTyped DEF RevokeOp, Op
  <2> QED
    BY <1>3, <2>1, <2>2 DEF RevokeOp
<1> QED
  BY <1>2, <1>3 DEF SugarShaped

\* A pending entry, signed by the key that the value v holds.
SignedBy(id, v) ==
    try_build_with_proof(pending[id].unsigned, [by |-> v.mk, binds |-> TRUE])

\* A lock of the head that covers the ops and asks for the key at k accepts the
\* signature of that key.
LEMMA LockAccepts ==
    ASSUME Inv, PendingHops, NEW id \in DOMAIN pending, NEW k,
           IsMultikey(KvpGet(log, k)),
           NEW lock \in HeadEntry(log).locks, lock.code = CheckCode(k),
           Governs(lock, pending[id].unsigned.ops)
    PROVE  try_append(log, SignedBy(id, KvpGet(log, k)))
<1> DEFINE v == KvpGet(log, k)
           e == SignedBy(id, v)
<1>1. v \in Value /\ v.type = "Data"
  BY KvpTyped DEF Inv, TypeOK, IsMultikey
<1>2. v = KeyValue(v.mk)
  BY <1>1 DEF Value, KeyValue
<1>3. /\ e.ops = pending[id].unsigned.ops /\ e.proof = [by |-> v.mk, binds |-> TRUE]
      /\ e.prev = pending[id].unsigned.prev /\ e.seqno = pending[id].unsigned.seqno
      /\ e.lipmaa = pending[id].unsigned.lipmaa
  BY DEF SignedBy, try_build_with_proof
<1>4. lock.code.kind = "check" /\ CheckedKey(lock.code) = k
  BY DEF CheckCode, CheckedKey
<1> HIDE DEF e
<1>5. Satisfied(lock, log, e.proof)
  BY <1>2, <1>3, <1>4 DEF Satisfied
<1>6. Chained(log, e)
  BY <1>3 DEF Chained, Inv, PendingOnHead, PendingHops, current_head_cid
<1> QED
  BY <1>3, <1>5, <1>6 DEF try_append, Authorised, e

\* A listed delegation is the branch of a delegation lock at the head.
LEMMA ListedHasLock ==
    ASSUME NEW plog, NEW b \in DelegatedPaths(plog)
    PROVE  \E l \in HeadEntry(plog).locks : l.path = b /\ is_delegated(l)
BY DEF DelegatedPaths

\* The key that is named as the signer of a delegation or a revocation can
\* commit it, as long as every lock at the head is one that create or
\* prepare_delegate made.
THEOREM NamedSignerCanCommit == Spec => []SigningKeyAccepted
<1>1. Inv /\ DelegationInv => SigningKeyAccepted
  <2> SUFFICES ASSUME Inv, DelegationInv, PlainHead, NEW id \in DOMAIN pending,
                      pending[id].kind # "Entry"
               PROVE  SigningKeyFits(id)
    BY DEF SigningKeyAccepted
  <2> DEFINE b == pending[id].path
             s == issued[id].signing_key_path
             ops == pending[id].unsigned.ops
  <2>1. /\ b \in Key
        /\ s = resolve_closest_parent_signing_key(b, DelegatedPaths(log))
    BY DEF DelegationInv, PendingSugar, SugarShaped
  <2>2. /\ ops # <<>>
        /\ \A j \in DOMAIN ops : ops[j].key = delegate_pubkey_key(b)
    <3>1. PICK o \in Op : ops = <<o>> /\ o.key = delegate_pubkey_key(b)
      BY SugarOps DEF DelegationInv, PendingSugar
    <3> QED
      BY <3>1
  <2>3. DelegatedPaths(log) \in SUBSET PathString
    BY DelegatedPathsTyped DEF Inv, TypeOK, LogVerified
  <2>4. delegate_pubkey_key(b) \in Key
    BY <2>1, KeyPathsTyped
  <2>5. ASSUME IsMultikey(KvpGet(log, s)), NEW lock \in HeadEntry(log).locks,
               lock.code = CheckCode(s), parent_of(lock.path, delegate_pubkey_key(b))
        PROVE  SigningKeyFits(id)
    <3>1. Governs(lock, ops)
      BY <2>2, <2>5 DEF Governs
    <3>2. try_append(log, SignedBy(id, KvpGet(log, s)))
      BY <2>5, <3>1, LockAccepts DEF DelegationInv
    <3> QED
      BY <2>5, <3>2 DEF SigningKeyFits, SignedBy
  <2>6. CASE s = pubkey_key_path
    <3>1. /\ IsMultikey(KvpGet(log, s)) /\ RootLock \in HeadEntry(log).locks
          /\ RootLock.code = CheckCode(s) /\ RootLock.path = RootPath
      BY <2>6 DEF PlainHead, RootLock
    <3> QED
      BY <3>1, <2>4, <2>5, RootAboveAll
  <2>7. ASSUME NEW a \in DelegatedPaths(log), parent_of(a, b),
               s = delegate_pubkey_key(a), parse_branch_path(a)
        PROVE  SigningKeyFits(id)
    <3>1. PICK lock \in HeadEntry(log).locks : lock.path = a
      BY ListedHasLock
    <3>2. a \in Key
      BY <2>3, <2>7 DEF parse_branch_path, parse_key, PathString
    <3>3. lock.code = CheckCode(s)
      <4>1. [a EXCEPT !.leaf = "pubkey"] = delegate_pubkey_key(a)
        BY <3>2 DEF Key, delegate_pubkey_key
      <4> QED
        BY <3>1, <2>7, <4>1 DEF PlainHead
    <3>4. IsMultikey(KvpGet(log, s))
      <4>1. [path |-> a, pubkey |-> KvpGet(log, s)] \in list_delegations(log)
        BY <2>7 DEF list_delegations
      <4> QED
        BY <4>1 DEF PlainHead
    <3>5. parent_of(lock.path, delegate_pubkey_key(b))
      BY <2>7, <3>1 DEF parent_of, delegate_pubkey_key
    <3> QED
      BY <3>3, <3>4, <3>5, <2>5
  <2> QED
    BY <2>1, <2>3, <2>6, <2>7, SignerOf
<1> QED
  BY <1>1, DelegationInvHolds, PTL

\* A branch is listed when it has a delegation lock and a value for it.
LEMMA ListedIff ==
    ASSUME NEW plog, NEW q
    PROVE  q \in DelegatedPaths(plog) <=>
              /\ \E l \in LocksAt(plog, q) : is_delegated(l)
              /\ LET v == KvpGet(plog, delegate_pubkey_key(q))
                 IN  IsMultikey(v) \/ v.type = "Str"
BY DEF DelegatedPaths, LocksAt

\* What one entry that replaces the locks of a branch and writes its key does
\* to the delegations: those of the other branches stay.
LEMMA OthersStayListed ==
    ASSUME NEW plog \in Seq(Entry), NEW e \in Entry, NEW b \in Key, is_branch(b),
           NEW add, \A l \in add : l.path = b,
           e.locks = locks_replacing_path(HeadEntry(plog), b, add),
           NEW o \in Op, e.ops = <<o>>, o.op # "noop", o.key = delegate_pubkey_key(b),
           HeadEntry(plog).locks \in SUBSET Lock
    PROVE  LET new == Append(plog, e)
           IN  \A q : q # b =>
                  /\ q \in DelegatedPaths(new) <=> q \in DelegatedPaths(plog)
                  /\ q \in DelegatedPaths(plog) =>
                        KvpGet(new, delegate_pubkey_key(q))
                          = KvpGet(plog, delegate_pubkey_key(q))
<1> DEFINE new == Append(plog, e)
<1>1. HeadEntry(new) = e
  <2>1. Len(new) = Len(plog) + 1 /\ new[Len(plog) + 1] = e
    OBVIOUS
  <2> HIDE DEF new
  <2> QED
    BY <2>1 DEF HeadEntry
<1>2. \A k : k # delegate_pubkey_key(b) => KvpGet(new, k) = KvpGet(plog, k)
  BY OneOpWrites
<1> HIDE DEF new
<1>3. \A q : q # b => LocksAt(new, q) = LocksAt(plog, q)
  <2>1. HeadEntry(new).locks = locks_replacing_path(HeadEntry(plog), b, add)
    BY <1>1
  <2> QED
    BY <2>1 DEF LocksAt, locks_replacing_path
<1> SUFFICES ASSUME NEW q, q # b
             PROVE  /\ q \in DelegatedPaths(new) <=> q \in DelegatedPaths(plog)
                    /\ q \in DelegatedPaths(plog) =>
                          KvpGet(new, delegate_pubkey_key(q))
                            = KvpGet(plog, delegate_pubkey_key(q))
  BY DEF new
<1>4. CASE \E l \in LocksAt(plog, q) : is_delegated(l)
  <2>1. q \in Key /\ is_branch(q)
    BY <1>4 DEF LocksAt, Lock, is_delegated
  <2>2. KvpGet(new, delegate_pubkey_key(q)) = KvpGet(plog, delegate_pubkey_key(q))
    BY <1>2, <2>1, BranchKeysDiffer
  <2> QED
    BY <1>3, <2>2, ListedIff
<1>5. CASE ~ \E l \in LocksAt(plog, q) : is_delegated(l)
  BY <1>3, <1>5, ListedIff
<1> QED
  BY <1>4, <1>5

\* The committed delegation or revocation: what its entry is made of.
LEMMA SugarCommittedFacts ==
    ASSUME Inv, DelegationInv, CommitSucceeds, issued[reply'.id].kind # "Entry"
    PROVE  LET c == issued[reply'.id]
               lock == delegated_branch_lock_script(c.path)
               add == IF c.kind = "Delegate" THEN {lock} ELSE {}
           IN  \E e \in Entry, o \in Op :
                  /\ log' = Append(log, e) /\ HeadEntry(log') = e
                  /\ c.path \in Key /\ parse_branch_path(c.path)
                  /\ e.locks = locks_replacing_path(HeadEntry(log), c.path, add)
                  /\ e.ops = <<o>> /\ c.message.ops = <<o>>
                  /\ o.op # "noop" /\ o.key = delegate_pubkey_key(c.path)
                  /\ c.kind = "Delegate" =>
                        o.op = "update" /\ \E mk \in Multikeys : o.value = KeyValue(mk)
<1>1. PICK id \in ChallengeIds, sig \in Signature \cup {Junk} :
            CommitError(id, sig) = "Ok" /\ commit_update(id, sig)
  BY DEF CommitSucceeds
<1> DEFINE e == SignedEntry(id, sig)
           p == pending[id]
<1>2. /\ id \in DOMAIN pending /\ e \in Entry
      /\ e.locks = p.unsigned.locks /\ e.ops = p.unsigned.ops
      /\ log' = Append(log, e) /\ HeadEntry(log') = e /\ reply'.id = id
  BY <1>1, Committed
<1>3. /\ issued[id].kind = p.kind /\ issued[id].path = p.path
      /\ issued[id].message = p.unsigned
  BY <1>2 DEF Inv, PendingAsIssued
<1>4. SugarShaped(id)
  BY <1>2, <1>3 DEF DelegationInv, PendingSugar
<1>5. PICK o \in Op :
          /\ p.unsigned.ops = <<o>>
          /\ o.op # "noop" /\ o.key = delegate_pubkey_key(p.path)
          /\ p.kind = "Delegate" =>
                o.op = "update" /\ \E mk \in Multikeys : o.value = KeyValue(mk)
  BY <1>4, SugarOps
<1>6. /\ p.path \in Key /\ parse_branch_path(p.path)
      /\ p.unsigned.locks
           = locks_replacing_path(HeadEntry(log), p.path,
                IF p.kind = "Delegate" THEN {delegated_branch_lock_script(p.path)}
                ELSE {})
  BY <1>4 DEF SugarShaped, Delegates, Revokes
<1> HIDE DEF e, p
<1> QED
  BY <1>2, <1>3, <1>5, <1>6

\* The log changes only by a commit that succeeds.
LEMMA OnlyCommitsAppend ==
    ASSUME Inv, [Next]_vars, log' # log
    PROVE  CommitSucceeds
<1>1. ChallengesKept => log' = log
  BY DEF ChallengesKept
<1>2. ChallengeIssued => log' = log
  BY DEF ChallengeIssued, Issue
<1> QED
  BY <1>1, <1>2, StepCases

\* The body of SugarTakesEffect.
EffectShows ==
    SugarCommitted =>
        LET c     == issued[reply'.id]
            lock  == delegated_branch_lock_script(c.path)
            added == IF c.kind = "Delegate"
                     THEN {[path |-> c.path, pubkey |-> c.message.ops[1].value]}
                     ELSE {}
        IN  /\ list_delegations(log')
                  = {d \in list_delegations(log) : d.path # c.path} \cup added
            /\ LocksAt(log', c.path)
                  = IF c.kind = "Delegate" THEN {lock} ELSE {}

\* A committed delegation or revocation shows in list_delegations as that and
\* nothing else, and leaves no other lock on its branch.
THEOREM SugarAlwaysTakesEffect == Spec => SugarTakesEffect
<1>1. Inv /\ DelegationInv /\ [Next]_vars => [EffectShows]_vars
  <2> SUFFICES ASSUME Inv, DelegationInv, [Next]_vars, SugarCommitted
               PROVE  EffectShows
    BY DEF EffectShows
  <2> DEFINE c == issued[reply'.id]
             b == c.path
             lock == delegated_branch_lock_script(b)
             add == IF c.kind = "Delegate" THEN {lock} ELSE {}
             added == IF c.kind = "Delegate"
                      THEN {[path |-> b, pubkey |-> c.message.ops[1].value]}
                      ELSE {}
             old == {d \in list_delegations(log) : d.path # b}
  <2>1. CommitSucceeds /\ c.kind # "Entry"
    BY OnlyCommitsAppend DEF SugarCommitted
  <2>2. PICK e \in Entry, o \in Op :
            /\ log' = Append(log, e) /\ HeadEntry(log') = e
            /\ b \in Key /\ parse_branch_path(b)
            /\ e.locks = locks_replacing_path(HeadEntry(log), b, add)
            /\ e.ops = <<o>> /\ c.message.ops = <<o>>
            /\ o.op # "noop" /\ o.key = delegate_pubkey_key(b)
            /\ c.kind = "Delegate" =>
                  o.op = "update" /\ \E mk \in Multikeys : o.value = KeyValue(mk)
    BY <2>1, SugarCommittedFacts
  <2>3. \A l \in add : l.path = b
    BY DEF delegated_branch_lock_script
  <2>4. is_branch(b) /\ b # RootPath
    BY <2>2 DEF parse_branch_path
  <2>5. log \in Seq(Entry) /\ HeadEntry(log).locks \in SUBSET Lock
    BY HeadFacts DEF Inv, TypeOK, LogVerified, Entry
  <2>6. \A q : q # b =>
            /\ q \in DelegatedPaths(log') <=> q \in DelegatedPaths(log)
            /\ q \in DelegatedPaths(log) =>
                  KvpGet(log', delegate_pubkey_key(q))
                    = KvpGet(log, delegate_pubkey_key(q))
    <3> HIDE DEF add
    <3> QED
      BY <2>2, <2>3, <2>4, <2>5, OthersStayListed
  <2>7. LocksAt(log', b) = add
    <3> HIDE DEF add
    <3> QED
      BY <2>2, <2>3 DEF LocksAt, locks_replacing_path
  <2>8. c.kind = "Delegate" =>
            /\ b \in DelegatedPaths(log')
            /\ KvpGet(log', delegate_pubkey_key(b)) = c.message.ops[1].value
    <3> SUFFICES ASSUME c.kind = "Delegate"
                 PROVE  /\ b \in DelegatedPaths(log')
                        /\ KvpGet(log', delegate_pubkey_key(b)) = c.message.ops[1].value
      OBVIOUS
    <3> DEFINE v == KvpGet(log', delegate_pubkey_key(b))
    <3>1. v = o.value /\ c.message.ops[1] = o
      BY <2>2, <2>5, OneOpWrites
    <3>2. IsMultikey(v)
      <4>1. PICK mk \in Multikeys : o.value = KeyValue(mk)
        BY <2>2
      <4>2. mk # NoKey
        BY MultikeysAssumption
      <4> QED
        BY <3>1, <4>1, <4>2 DEF KeyValue, IsMultikey
    <3>3. lock \in LocksAt(log', b) /\ is_delegated(lock)
      BY <2>4, <2>7 DEF is_delegated, delegated_branch_lock_script
    <3> HIDE DEF v, lock
    <3> QED
      BY <3>1, <3>2, <3>3, ListedIff DEF v
  <2>9. c.kind # "Delegate" => b \notin DelegatedPaths(log')
    BY <2>7, ListedIff
  <2>10. list_delegations(log') = old \cup added
    <3> HIDE DEF c, b
    <3>1. ASSUME NEW d PROVE d \in list_delegations(log') <=> d \in old \cup added
      <4>1. \A plog : d \in list_delegations(plog) <=>
                \E q \in DelegatedPaths(plog) :
                    d = [path |-> q, pubkey |-> KvpGet(plog, delegate_pubkey_key(q))]
        BY DEF list_delegations
      <4>2. \A q, v : [path |-> q, pubkey |-> v].path = q
        OBVIOUS
      <4>3. ASSUME d \in list_delegations(log') PROVE d \in old \cup added
        <5>1. PICK q \in DelegatedPaths(log') :
                d = [path |-> q, pubkey |-> KvpGet(log', delegate_pubkey_key(q))]
          BY <4>1, <4>3
        <5>2. CASE q = b
          BY <5>1, <5>2, <2>8, <2>9
        <5>3. CASE q # b
          BY <5>1, <5>3, <2>6, <4>1, <4>2
        <5> QED
          BY <5>2, <5>3
      <4>4. ASSUME d \in old PROVE d \in list_delegations(log')
        <5>1. PICK q \in DelegatedPaths(log) :
                d = [path |-> q, pubkey |-> KvpGet(log, delegate_pubkey_key(q))]
          BY <4>1, <4>4
        <5>2. q # b
          BY <4>4, <5>1
        <5> QED
          BY <5>1, <5>2, <2>6, <4>1
      <4>5. ASSUME d \in added PROVE d \in list_delegations(log')
        BY <4>5, <2>8, <4>1
      <4> QED
        BY <4>3, <4>4, <4>5
    <3> HIDE DEF old, added
    <3> QED
      BY <3>1
  <2> QED
    BY <2>7, <2>10 DEF EffectShows
<1> QED
  BY <1>1, DelegationInvHolds, PTL DEF Spec, SugarTakesEffect, EffectShows

\* The body of SugarLeavesRestAlone.
RestStays ==
    SugarCommitted =>
        LET c == issued[reply'.id]
        IN  /\ LocksAt(log', RootPath) = LocksAt(log, RootPath)
            /\ KvpGet(log', pubkey_key_path) = KvpGet(log, pubkey_key_path)
            /\ \A k \in Key \ {delegate_pubkey_key(c.path)} :
                  KvpGet(log', k) = KvpGet(log, k)
            /\ \A p \in Key \ {c.path} : LocksAt(log', p) = LocksAt(log, p)

\* A committed delegation or revocation leaves "/pubkey", the lock at "/" and
\* every other key and lock as they were.
THEOREM SugarAlwaysLeavesRestAlone == Spec => SugarLeavesRestAlone
<1>1. Inv /\ DelegationInv /\ [Next]_vars => [RestStays]_vars
  <2> SUFFICES ASSUME Inv, DelegationInv, [Next]_vars, SugarCommitted
               PROVE  RestStays
    BY DEF RestStays
  <2> DEFINE c == issued[reply'.id]
             b == c.path
             add == IF c.kind = "Delegate"
                    THEN {delegated_branch_lock_script(b)} ELSE {}
  <2>1. CommitSucceeds /\ c.kind # "Entry"
    BY OnlyCommitsAppend DEF SugarCommitted
  <2>2. PICK e \in Entry, o \in Op :
            /\ log' = Append(log, e) /\ HeadEntry(log') = e
            /\ b \in Key /\ parse_branch_path(b)
            /\ e.locks = locks_replacing_path(HeadEntry(log), b, add)
            /\ e.ops = <<o>> /\ o.op # "noop" /\ o.key = delegate_pubkey_key(b)
    BY <2>1, SugarCommittedFacts
  <2>3. \A l \in add : l.path = b
    BY DEF delegated_branch_lock_script
  <2> HIDE DEF add, c
  <2>4. \A p : p # b => LocksAt(log', p) = LocksAt(log, p)
    BY <2>2, <2>3 DEF LocksAt, locks_replacing_path
  <2>5. \A k : k # delegate_pubkey_key(b) => KvpGet(log', k) = KvpGet(log, k)
    BY <2>2, OneOpWrites DEF Inv, TypeOK
  <2>6. RootPath # b /\ pubkey_key_path # delegate_pubkey_key(b)
    BY <2>2, BranchKeysDiffer DEF parse_branch_path
  <2> QED
    BY <2>4, <2>5, <2>6 DEF RestStays, c
<1> QED
  BY <1>1, DelegationInvHolds, PTL DEF Spec, SugarLeavesRestAlone, RestStays

\* The body of DelegateStaysInBranch.
WriterIsDelegate ==
    log' # log /\ NoRawLocks =>
        LET e == HeadEntry(log')
            k == KeyValue(e.proof.by)
        IN  \/ k = KvpGet(log, pubkey_key_path)
            \/ \E d \in list_delegations(log) :
                  /\ d.pubkey = k
                  /\ \A j \in DOMAIN e.ops : key_under_branch(e.ops[j].key, d.path)

\* When all locks come from create and prepare_delegate, an entry is written
\* by the root key or by the delegate of a branch that holds all its keys.
THEOREM DelegatesStayInBranch == Spec => DelegateStaysInBranch
<1>1. Inv /\ DelegationInv /\ [Next]_vars => [WriterIsDelegate]_vars
  <2> SUFFICES ASSUME Inv, DelegationInv, [Next]_vars, log' # log, NoRawLocks
               PROVE  WriterIsDelegate
    BY DEF WriterIsDelegate
  <2>1. PICK id \in ChallengeIds, sig \in Signature \cup {Junk} :
            CommitError(id, sig) = "Ok" /\ commit_update(id, sig)
    BY OnlyCommitsAppend DEF CommitSucceeds
  <2> DEFINE e == SignedEntry(id, sig)
             k == KeyValue(e.proof.by)
  <2>2. e \in Entry /\ try_append(log, e) /\ HeadEntry(log') = e
    BY <2>1, Committed
  <2> HIDE DEF e
  <2>3. PICK lock \in HeadEntry(log).locks :
            Governs(lock, e.ops) /\ Satisfied(lock, log, e.proof)
    BY <2>2 DEF try_append, Authorised
  <2>4. KvpGet(log, CheckedKey(lock.code)) = k
    BY <2>3 DEF Satisfied
  <2>5. CASE lock = RootLock
    <3>1. CheckedKey(lock.code) = pubkey_key_path
      BY <2>5 DEF RootLock, CheckCode, CheckedKey
    <3> QED
      BY <2>2, <2>4, <3>1 DEF WriterIsDelegate
  <2>6. ASSUME NEW b \in Key, parse_branch_path(b),
               lock = delegated_branch_lock_script(b)
        PROVE  WriterIsDelegate
    <3>1. /\ is_branch(b) /\ b # RootPath /\ lock.path = b
          /\ CheckedKey(lock.code) = delegate_pubkey_key(b)
      BY <2>6 DEF parse_branch_path, delegated_branch_lock_script,
                  delegated_lock_code, CheckCode, CheckedKey
    <3>2. IsMultikey(k)
      <4>1. e.proof.by \in Multikeys
        BY <2>2 DEF Entry, Proof
      <4> QED
        BY <4>1, MultikeysAssumption DEF IsMultikey, KeyValue
    <3>3. b \in DelegatedPaths(log)
      <4>1. lock \in LocksAt(log, b) /\ is_delegated(lock)
        BY <2>6, <3>1 DEF LocksAt, is_delegated, delegated_branch_lock_script
      <4> QED
        BY <4>1, <2>4, <3>1, <3>2, ListedIff
    <3> DEFINE d == [path |-> b, pubkey |-> k]
    <3>4. d \in list_delegations(log)
      BY <2>4, <3>1, <3>3 DEF list_delegations
    <3>5. ASSUME NEW j \in DOMAIN e.ops
          PROVE  key_under_branch(e.ops[j].key, b)
      <4>1. e.ops # <<>>
        BY <3>1, <2>3 DEF Governs
      <4>2. parent_of(b, e.ops[j].key) \/ b = e.ops[j].key
        BY <2>3, <3>1, <4>1 DEF Governs
      <4>3. parent_of(b, b)
        <5>1. b.dir \in Seq(Segments)
          BY DirsAssumption DEF Key
        <5>2. IsPrefix(b.dir, b.dir)
          BY <5>1 DEF IsPrefix
        <5> QED
          BY <3>1, <5>2 DEF parent_of
      <4> QED
        BY <4>2, <4>3 DEF key_under_branch
    <3> QED
      BY <2>2, <3>4, <3>5 DEF WriterIsDelegate
  <2>7. PlainLock(lock)
    BY <2>3 DEF DelegationInv, PlainLocks
  <2> QED
    BY <2>5, <2>6, <2>7 DEF PlainLock
<1> QED
  BY <1>1, DelegationInvHolds, PTL DEF Spec, DelegateStaysInBranch, WriterIsDelegate

=============================================================================

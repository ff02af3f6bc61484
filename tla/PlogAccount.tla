----------------------------- MODULE PlogAccount -----------------------------
(***************************************************************************)
(* One cached account (rust-lib/src/api.rs, PlogAccount): a verified       *)
(* provenance log and the challenges that wait for an external signature.  *)
(*                                                                         *)
(* A write has two halves.  A prepare call assembles the next entry on the *)
(* current head, stores it under a fresh challenge id and hands its bytes  *)
(* out to be signed.  Any number of other calls, and any amount of time,   *)
(* may pass before commit_update brings the signature back.                *)
(*                                                                         *)
(* Every call is one atomic action: it runs with the mutex of the account  *)
(* held (module.rs, with_account_mut).  Wall-clock time is the age of each *)
(* pending challenge, which Tick advances up to CHALLENGE_TTL.             *)
(***************************************************************************)
EXTENDS OpenConfig

CONSTANTS
    ChallengeIds,   \* bounds the number of successful prepare calls
    NoId,           \* a reply that names no challenge
    CHALLENGE_TTL,  \* age at which a challenge is expired
    RootKey,        \* the Multikey passed to create
    EntryKey,       \* the ephemeral key made by create
    Importable,     \* logs that callers try to import
    Blob,           \* multibase text of bytes that are not a Multikey
    NotMultibase,   \* text that does not decode
    NotJson,        \* a request text that does not parse
    NoPath,         \* None, where a path is optional
    Requests,       \* request texts passed to prepare_update
    PathInputs,     \* path strings passed to prepare_delegate and _revoke
    KeyInputs       \* multibase strings passed to prepare_delegate

VARIABLES
    log,        \* PlogAccount.log
    pending,    \* PlogAccount.pending: challenge id -> PendingUpdate
    issued,     \* every UpdateChallenge handed out so far, by challenge id
    reply       \* outcome of the last call

vars == <<log, pending, issued, reply>>

Multibase == Multikeys \cup {Blob, NotMultibase}

ASSUME MultibaseAssumption ==
    /\ NotMultibase \notin Multikeys \cup {Blob}
    /\ Blob \notin Multikeys

-----------------------------------------------------------------------------
(***************************************************************************)
(* Requests.                                                               *)
(***************************************************************************)

\* An op of a request: the value of an update is a string ("str") or a
\* multibase text; the other ops carry none.
PlogOp ==
    {o \in [op : {"noop", "delete", "update"}, key : PathString,
            value : {"none", "str"} \cup Multibase] :
        o.op = "update" => o.value # "none"}

LockScriptJson == [path : PathString, code : Code]

\* "unknown" is a keyword other than "inherit"; "upsert" uses path and code,
\* "remove" uses path, "replace" uses replace.
LockSpec == [kind : {"inherit", "unknown", "replace", "upsert", "remove"},
             path : PathString, code : Code,
             replace : SUBSET LockScriptJson]

Inherit          == [kind |-> "inherit", path |-> RootPath, code |-> OtherCode,
                     replace |-> {}]
UnknownKeyword   == [Inherit EXCEPT !.kind = "unknown"]
LockReplace(S)   == [Inherit EXCEPT !.kind = "replace", !.replace = S]
LockUpsert(p, c) == [Inherit EXCEPT !.kind = "upsert", !.path = p, !.code = c]
LockRemove(p)    == [Inherit EXCEPT !.kind = "remove", !.path = p]

EntryUpdateRequest == [locks : LockSpec, ops : Seq(PlogOp),
                       sign_as : PathString \cup {NoPath}]

ASSUME InputsAssumption ==
    /\ NotJson \notin EntryUpdateRequest
    /\ Requests \subseteq EntryUpdateRequest \cup {NotJson}
    /\ PathInputs \subseteq PathString
    /\ KeyInputs \subseteq Multibase
    /\ NoPath \notin PathString

decode_bytes_multibase(m) == IF m = Blob THEN BlobValue ELSE KeyValue(m)

\* PlogOp::into_op_params followed by op_from_params.
into_op_params(o) ==
    [op |-> o.op, key |-> o.key,
     value |-> IF o.op # "update" THEN Absent
               ELSE IF o.value = "str" THEN StrValue
               ELSE decode_bytes_multibase(o.value)]

OpError(o) ==
    IF ~parse_key(o.key) THEN "InvalidOp"
    ELSE IF o.op = "update" /\ o.value = NotMultibase THEN "Encoding"
    ELSE "Ok"

\* The ops are converted one after the other, up to the first error.
OpsError(ops) ==
    LET bad == {j \in DOMAIN ops : OpError(ops[j]) # "Ok"}
    IN  IF bad = {} THEN "Ok" ELSE OpError(ops[Min(bad)])

decode_multikey(m) == m \in Multikeys

lock_spec_ok(spec) ==
    CASE spec.kind = "inherit" -> TRUE
      [] spec.kind = "unknown" -> FALSE
      [] spec.kind = "replace" -> \A s \in spec.replace : parse_key(s.path)
      [] OTHER                 -> parse_key(spec.path)

\* Mutant: the old lock at the path stays.
locks_replacing_path_keeping(head, drop_path, add) == head.locks \cup add

locks_replacing_path(head, drop_path, add) ==
    {s \in head.locks : s.path # drop_path} \cup add

lock_spec_to_scripts(head, spec) ==
    CASE spec.kind = "replace" -> spec.replace
      [] spec.kind = "upsert"  ->
            locks_replacing_path(head, spec.path,
                                 {[path |-> spec.path, code |-> spec.code]})
      [] spec.kind = "remove"  -> locks_replacing_path(head, spec.path, {})
      [] OTHER                 -> head.locks

-----------------------------------------------------------------------------
(***************************************************************************)
(* The log.                                                                *)
(***************************************************************************)

current_head_cid == cid(HeadEntry(log))

delegated_lock_code(branch) == CheckCode(delegate_pubkey_key(branch))

\* Mutant: the lock is bound to "/" instead of the branch.
delegated_root_lock_script(branch) ==
    [path |-> RootPath, code |-> delegated_lock_code(branch)]

delegated_branch_lock_script(branch) ==
    [path |-> branch, code |-> delegated_lock_code(branch)]

is_delegated(lock) ==
    /\ is_branch(lock.path)
    /\ lock.path # RootPath
    /\ \/ lock.code = delegated_lock_code(lock.path)
       \/ lock.code.kind = "branch"

\* The branches with a delegation lock at the head and a value at
\* {branch}pubkey that is a Multikey or any string.
DelegatedPaths(plog) ==
    {l.path : l \in {k \in HeadEntry(plog).locks :
        LET v == KvpGet(plog, delegate_pubkey_key(k.path))
        IN  is_delegated(k) /\ (IsMultikey(v) \/ v.type = "Str")}}

list_delegations(plog) ==
    {[path |-> p, pubkey |-> KvpGet(plog, delegate_pubkey_key(p))] :
        p \in DelegatedPaths(plog)}

\* The unsigned entry that follows the head of plog.
prepare_next_entry(plog, locks, ops) ==
    LET last == HeadEntry(plog)
    IN  [prev |-> cid(last), seqno |-> last.seqno + 1,
         lipmaa |-> lipmaa_link(last.seqno + 1), locks |-> locks, ops |-> ops]

\* Log::try_append verifies the entry against the head; external.
try_append(plog, e) == Chained(plog, e) /\ Authorised(plog, e)

-----------------------------------------------------------------------------
(***************************************************************************)
(* The account.                                                            *)
(***************************************************************************)

UpdateKind == {"Entry", "Delegate", "Revoke"}

\* The input of prepare_entry, after sugar expansion.
PrepareEntrySpec == [locks : LockSpec, ops : Seq(Op), sign_as : Key,
                     kind : UpdateKind, path : Key \cup {NoPath}]

PendingUpdate == [head_cid : Cid, unsigned : Unsigned, kind : UpdateKind,
                  path : Key \cup {NoPath}, age : 0..CHALLENGE_TTL]

UpdateChallenge == [kind : UpdateKind, path : Key \cup {NoPath},
                    signing_key_path : Key, head_cid : Cid,
                    message : Unsigned]

Outcome == {"Ok", "Encoding", "InvalidOp", "PlogVerifyFailed",
            "ChallengeNotFound", "HeadMismatch", "Plog"}

Reply == [op : {"open", "tick", "prepare", "commit", "cancel"},
          id : ChallengeIds \cup {NoId}, res : Outcome]

ASSUME AccountAssumption ==
    /\ NoId \notin ChallengeIds
    /\ CHALLENGE_TTL \in Nat \ {0}
    /\ RootKey \in Multikeys /\ EntryKey \in Multikeys
    /\ Importable \subseteq Seq(Entry)

Replied(op, id, res) == reply' = [op |-> op, id |-> id, res |-> res]

\* Module EphemeralOpen shows how the keys get there.
open_plog_with_external_pubkey(root_pubkey) == opened_log(EntryKey, root_pubkey)

\* An account comes from create or from an import that verifies.
Init ==
    /\ log \in {open_plog_with_external_pubkey(RootKey)}
                 \cup {l \in Importable : ensure_plog_verified(l)}
    /\ pending = [id \in {} |-> NoId]
    /\ issued = [id \in {} |-> NoId]
    /\ reply = [op |-> "open", id |-> NoId, res |-> "Ok"]

\* Mutant: a challenge as old as CHALLENGE_TTL still counts.
LiveAtTtl == {id \in DOMAIN pending : pending[id].age <= CHALLENGE_TTL}

Live == {id \in DOMAIN pending : pending[id].age < CHALLENGE_TTL}

\* The pending map after purge_expired_challenges.
purge_expired_challenges == Restrict(pending, Live)

\* The part of prepare_entry that can fail, after the purge.
PrepareEntryError(spec) ==
    IF ~ensure_plog_verified(log) THEN "PlogVerifyFailed"
    ELSE IF ~lock_spec_ok(spec.locks) THEN "InvalidOp"
    ELSE "Ok"

\* The purge, then one more challenge, under an id never used before.
Issue(id, spec) ==
    LET unsigned == prepare_next_entry(log,
                        lock_spec_to_scripts(HeadEntry(log), spec.locks),
                        spec.ops)
    IN  /\ pending' = [c \in Live \cup {id} |->
                IF c = id
                THEN [head_cid |-> current_head_cid, unsigned |-> unsigned,
                      kind |-> spec.kind, path |-> spec.path, age |-> 0]
                ELSE pending[c]]
        /\ issued' = [c \in DOMAIN issued \cup {id} |->
                IF c = id
                THEN [kind |-> spec.kind, path |-> spec.path,
                      signing_key_path |-> spec.sign_as,
                      head_cid |-> current_head_cid, message |-> unsigned]
                ELSE issued[c]]
        /\ Replied("prepare", id, "Ok")
        /\ UNCHANGED log

prepare_entry(spec) ==
    \/ /\ PrepareEntryError(spec) # "Ok"
       /\ pending' = purge_expired_challenges
       /\ Replied("prepare", NoId, PrepareEntryError(spec))
       /\ UNCHANGED <<log, issued>>
    \/ /\ PrepareEntryError(spec) = "Ok"
       /\ \E id \in ChallengeIds \ DOMAIN issued : Issue(id, spec)

\* A call that returns an error before it touches the account.
Refused(res) ==
    /\ Replied("prepare", NoId, res)
    /\ UNCHANGED <<log, pending, issued>>

\* Mutant: sign_as goes into the challenge unparsed.
RequestErrorOpsOnly(r) ==
    IF r = NotJson THEN "Encoding"
    ELSE OpsError(r.ops)

RequestError(r) ==
    IF r = NotJson THEN "Encoding"
    ELSE IF r.sign_as = Malformed THEN "InvalidOp"
    ELSE OpsError(r.ops)

EntrySpec(r) ==
    [locks |-> r.locks,
     ops |-> [j \in DOMAIN r.ops |-> into_op_params(r.ops[j])],
     sign_as |-> IF r.sign_as = NoPath THEN pubkey_key_path ELSE r.sign_as,
     kind |-> "Entry", path |-> NoPath]

prepare_update(r) ==
    \/ RequestError(r) # "Ok" /\ Refused(RequestError(r))
    \/ RequestError(r) = "Ok" /\ prepare_entry(EntrySpec(r))

SugarError(path, keyOk) ==
    IF ~parse_branch_path(path) THEN "InvalidOp"
    ELSE IF ~keyOk THEN "Encoding"
    ELSE IF ~ensure_plog_verified(log) THEN "PlogVerifyFailed"
    ELSE "Ok"

DelegateSpec(branch, mk) ==
    LET lock == delegated_branch_lock_script(branch)
    IN  [locks |-> LockUpsert(lock.path, lock.code),
         ops |-> <<[op |-> "update", key |-> delegate_pubkey_key(branch),
                    value |-> KeyValue(mk)]>>,
         sign_as |-> resolve_closest_parent_signing_key(branch,
                                                        DelegatedPaths(log)),
         kind |-> "Delegate", path |-> branch]

prepare_delegate(path, key) ==
    LET error == SugarError(path, decode_multikey(key))
    IN  \/ error # "Ok" /\ Refused(error)
        \/ error = "Ok" /\ prepare_entry(DelegateSpec(path, key))

RevokeSpec(branch) ==
    [locks |-> LockRemove(branch),
     ops |-> <<[op |-> "delete", key |-> delegate_pubkey_key(branch),
                value |-> Absent]>>,
     sign_as |-> resolve_closest_parent_signing_key(branch,
                                                    DelegatedPaths(log)),
     kind |-> "Revoke", path |-> branch]

prepare_revoke(path) ==
    LET error == SugarError(path, TRUE)
    IN  \/ error # "Ok" /\ Refused(error)
        \/ error = "Ok" /\ prepare_entry(RevokeSpec(path))

-----------------------------------------------------------------------------

\* What a caller brings to commit_update: a signature some key holder made
\* over the message of a challenge handed out earlier, or junk.  The secret
\* of the ephemeral entry key is gone once create returns.
Signature == [by : Multikeys \ {EntryKey}, over : DOMAIN issued]
Junk == NotMultibase

\* The pending entry with the signature attached as its proof.
SignedEntry(id, sig) ==
    try_build_with_proof(pending[id].unsigned,
        [by |-> sig.by,
         binds |-> issued[sig.over].message = pending[id].unsigned])

\* Mutant: the entry is appended without verification.
commit_unverified(plog, e) == TRUE

commit_with_multisig(plog, e) == try_append(plog, e)

CommitError(id, sig) ==
    IF id \notin Live THEN "ChallengeNotFound"
    ELSE IF current_head_cid # pending[id].head_cid THEN "HeadMismatch"
    ELSE IF sig = Junk THEN "Encoding"
    ELSE IF ~commit_with_multisig(log, SignedEntry(id, sig)) THEN "Plog"
    ELSE "Ok"

\* Mutant: the challenge is looked up, not removed.
PeekChallenge(id) == Restrict(pending, Live)

\* The pending map once the challenge is taken out, before the head check.
TakeChallenge(id) == Restrict(pending, Live \ {id})

\* Mutant: only the committed challenge is dropped.
DropCommitted(id) == Restrict(pending, Live \ {id})

\* The pending map after a successful append: pending.clear().
ClearPending(id) == Restrict(pending, {})

commit_update(id, sig) ==
    /\ Replied("commit", id, CommitError(id, sig))
    /\ UNCHANGED issued
    /\ \/ /\ CommitError(id, sig) # "Ok"
          /\ pending' = TakeChallenge(id)
          /\ UNCHANGED log
       \/ /\ CommitError(id, sig) = "Ok"
          /\ pending' = ClearPending(id)
          /\ log' = Append(log, SignedEntry(id, sig))

cancel_update(id) ==
    /\ pending' = Restrict(pending, Live \ {id})
    /\ Replied("cancel", id, IF id \in Live THEN "Ok" ELSE "ChallengeNotFound")
    /\ UNCHANGED <<log, issued>>

\* Time passes for all challenges alike; an age past the limit is not counted.
Young(id) == pending[id].age < CHALLENGE_TTL

Tick ==
    /\ \E id \in DOMAIN pending : Young(id)
    /\ pending' = [id \in DOMAIN pending |->
                     [pending[id] EXCEPT !.age = IF Young(id) THEN @ + 1 ELSE @]]
    /\ Replied("tick", NoId, "Ok")
    /\ UNCHANGED <<log, issued>>

Next ==
    \/ \E r \in Requests : prepare_update(r)
    \/ \E p \in PathInputs, k \in KeyInputs : prepare_delegate(p, k)
    \/ \E p \in PathInputs : prepare_revoke(p)
    \/ \E id \in ChallengeIds, sig \in Signature \cup {Junk} : commit_update(id, sig)
    \/ \E id \in ChallengeIds : cancel_update(id)
    \/ Tick

Spec == Init /\ [][Next]_vars

\* The clock does not stop.  Callers are free never to call again.
FairSpec == Spec /\ WF_vars(Tick)

-----------------------------------------------------------------------------
(***************************************************************************)
(* Invariants.                                                             *)
(***************************************************************************)

\* The types of PlogAccount, PendingUpdate and UpdateChallenge.
TypeOK ==
    /\ log \in Seq(Entry)
    /\ DOMAIN pending \subseteq ChallengeIds
    /\ pending \in [DOMAIN pending -> PendingUpdate]
    /\ DOMAIN issued \subseteq ChallengeIds
    /\ issued \in [DOMAIN issued -> UpdateChallenge]
    /\ reply \in Reply

\* The cached log passes full-chain verification after every call: the error
\* exits that follow an append (commit_update's summary), and those of every
\* later read and prepare, are never taken.
LogVerified == ensure_plog_verified(log)

\* No pending challenge was prepared on a head that has moved since: whatever
\* is still waiting for a signature can be appended as it stands.
PendingOnHead ==
    \A id \in DOMAIN pending :
        /\ pending[id].head_cid = current_head_cid
        /\ pending[id].unsigned.prev = current_head_cid
        /\ pending[id].unsigned.seqno = Len(log)

\* What is stored under a pending id is what its caller was given to sign.
PendingAsIssued ==
    \A id \in DOMAIN pending :
        /\ id \in DOMAIN issued
        /\ pending[id].head_cid = issued[id].head_cid
        /\ pending[id].unsigned = issued[id].message
        /\ pending[id].kind = issued[id].kind
        /\ pending[id].path = issued[id].path

\* A caller who lost the race for the head is told ChallengeNotFound, never
\* HeadMismatch: the winner's commit dropped all other challenges.
LoserSeesNotFound == reply.res # "HeadMismatch"

RootLock == [path |-> RootPath, code |-> CheckCode(pubkey_key_path)]

PlainHead ==
    /\ \A l \in HeadEntry(log).locks :
          is_branch(l.path) /\ l.code = CheckCode([l.path EXCEPT !.leaf = "pubkey"])
    /\ RootLock \in HeadEntry(log).locks
    /\ IsMultikey(KvpGet(log, pubkey_key_path))
    /\ \A d \in list_delegations(log) : IsMultikey(d.pubkey)

\* commit_update accepts the signature of the key at signing_key_path.
SigningKeyFits(id) ==
    LET v == KvpGet(log, issued[id].signing_key_path)
    IN  /\ IsMultikey(v)
        /\ try_append(log, try_build_with_proof(pending[id].unsigned,
                                [by |-> v.mk, binds |-> TRUE]))

\* The key that prepare_delegate and prepare_revoke name for a challenge can
\* commit it, for as long as the challenge is pending, when every lock at the
\* head is one that create or prepare_delegate made and every delegate key is
\* a Multikey.
SigningKeyAccepted ==
    PlainHead => \A id \in DOMAIN pending :
                    pending[id].kind # "Entry" => SigningKeyFits(id)

\* "Logical key path the peer must sign as" (UpdateChallenge): the same claim
\* without the proviso on the locks, as long as the owner keeps the lock at "/"
\* and every delegate key is a Multikey.
DelegateSigningKeyAccepted ==
    (/\ RootLock \in HeadEntry(log).locks
     /\ IsMultikey(KvpGet(log, pubkey_key_path))
     /\ \A d \in list_delegations(log) : IsMultikey(d.pubkey))
    => \A id \in DOMAIN pending :
          pending[id].kind # "Entry" => SigningKeyFits(id)

\* "Multibase Multikey at {path}pubkey" (PathDelegation): every delegation
\* that list_delegations returns carries a Multikey.
ListedPubkeyIsMultikey ==
    \A d \in list_delegations(log) : IsMultikey(d.pubkey)

-----------------------------------------------------------------------------
(***************************************************************************)
(* Action properties.                                                      *)
(***************************************************************************)

\* The log changes only when commit_update answers Ok, and then by exactly
\* one entry: the one its caller was handed to sign, prepared on this very
\* head and not expired, under a signature made over that entry.
CommitAppendsPrepared ==
    [][log' # log =>
        /\ reply'.op = "commit" /\ reply'.res = "Ok"
        /\ reply'.id \in DOMAIN pending
        /\ pending[reply'.id].age < CHALLENGE_TTL
        /\ issued[reply'.id].head_cid = current_head_cid
        /\ \E k \in Multikeys :
              log' = Append(log, try_build_with_proof(issued[reply'.id].message,
                                     [by |-> k, binds |-> TRUE]))]_vars

\* A challenge is spent by the first commit or cancel that names it, failed
\* ones included, and never comes back.
ChallengeSpentOnce ==
    [][/\ reply'.op \in {"commit", "cancel"}
            => reply'.id \notin DOMAIN pending'
       /\ DOMAIN pending' \cap DOMAIN issued \subseteq DOMAIN pending]_vars

SugarCommitted ==
    /\ log' # log
    /\ issued[reply'.id].kind # "Entry"

\* Each new challenge drives the expired ones out: the map of an account never
\* grows past what was prepared within one CHALLENGE_TTL.
GrowsOnlyWithLive ==
    [][DOMAIN pending' \ DOMAIN pending # {} =>
        \A id \in DOMAIN pending' : pending'[id].age < CHALLENGE_TTL]_vars

LocksAt(plog, path) == {l \in HeadEntry(plog).locks : l.path = path}

\* A committed delegation or revocation shows in list_delegations as that and
\* nothing else, and leaves no other lock on its branch, however much
\* happened between prepare and commit.
SugarTakesEffect ==
    [][SugarCommitted =>
        LET c     == issued[reply'.id]
            lock  == delegated_branch_lock_script(c.path)
            added == IF c.kind = "Delegate"
                     THEN {[path |-> c.path, pubkey |-> c.message.ops[1].value]}
                     ELSE {}
        IN  /\ list_delegations(log')
                  = {d \in list_delegations(log) : d.path # c.path} \cup added
            /\ LocksAt(log', c.path)
                  = IF c.kind = "Delegate" THEN {lock} ELSE {}]_vars

\* Neither of them touches the lock at "/", "/pubkey", or any lock or value
\* but the branch's own.
SugarLeavesRestAlone ==
    [][SugarCommitted =>
        LET c == issued[reply'.id]
        IN  /\ LocksAt(log', RootPath) = LocksAt(log, RootPath)
            /\ KvpGet(log', pubkey_key_path) = KvpGet(log, pubkey_key_path)
            /\ \A k \in Key \ {delegate_pubkey_key(c.path)} :
                  KvpGet(log', k) = KvpGet(log, k)
            /\ \A p \in Key \ {c.path} : LocksAt(log', p) = LocksAt(log, p)]_vars

\* No caller writes a lock of its own making.
NoRawLocks ==
    /\ Importable = {}
    /\ \A r \in Requests \ {NotJson} :
          r.locks.kind \in {"inherit", "unknown", "remove"}

\* When all locks come from create and prepare_delegate, a key other than the
\* root key writes only under a branch that is delegated to it at that moment.
DelegateStaysInBranch ==
    [][log' # log /\ NoRawLocks =>
        LET e == HeadEntry(log')
            k == KeyValue(e.proof.by)
        IN  \/ k = KvpGet(log, pubkey_key_path)
            \/ \E d \in list_delegations(log) :
                  /\ d.pubkey = k
                  /\ \A j \in DOMAIN e.ops : key_under_branch(e.ops[j].key, d.path)]_vars

-----------------------------------------------------------------------------

\* Time alone ends every challenge: from some point on no signature, however
\* late, is accepted for it.
ChallengesExpire ==
    \A id \in ChallengeIds :
        id \in DOMAIN issued ~>
            [](\A sig \in Signature \cup {Junk} :
                  CommitError(id, sig) = "ChallengeNotFound")

-----------------------------------------------------------------------------
(***************************************************************************)
(* An account implements OptimisticLog: the tickets are the challenges,    *)
(* the payloads are the entries without their proofs.                      *)
(***************************************************************************)

UnsignedOf(e) == [prev |-> e.prev, seqno |-> e.seqno, lipmaa |-> e.lipmaa,
                  locks |-> e.locks, ops |-> e.ops]

Abstract == INSTANCE OptimisticLog WITH
    Tickets <- ChallengeIds,
    Payload <- Unsigned,
    history <- [i \in DOMAIN log |-> UnsignedOf(log[i])],
    open <- [id \in DOMAIN pending |->
                [base |-> pending[id].unsigned.seqno,
                 payload |-> pending[id].unsigned]],
    used <- DOMAIN issued

\* prepare, commit, cancel and the expiry of challenges are the operations of
\* an optimistically concurrent log: of the challenges prepared on one head at
\* most one is committed, and it is committed as it was prepared.
ImplementsOptimisticLog == Abstract!Spec

-----------------------------------------------------------------------------
(***************************************************************************)
(* An account keeps AccountContract, on which the module relies.           *)
(***************************************************************************)

Contract == INSTANCE AccountContract

AsAccount == [log |-> [i \in DOMAIN log |-> UnsignedOf(log[i])],
              pending |-> DOMAIN pending]

\* The module above tells no more outcomes apart.
Coarse(res) == IF res \in {"Ok", "ChallengeNotFound"} THEN res ELSE "Refused"

AllowedResults(op, id, res) ==
    CASE op = "prepare" /\ res = "Ok" -> Contract!prepare_results(AsAccount, id)
      [] op = "prepare" /\ res # "Ok" -> Contract!refuse_results(AsAccount)
      [] op = "commit" ->
            Contract!commit_results(AsAccount, id, issued[id].message)
      [] op = "cancel" -> Contract!cancel_results(AsAccount, id)
      [] OTHER -> {Contract!Result(AsAccount, "Ok")}

\* Whatever a call answers, and whatever expired meanwhile, the account is left
\* as the module that answers for it may conclude from the answer alone.
KeepsContract ==
    [][Contract!Result(AsAccount', Coarse(reply'.res))
          \in AllowedResults(reply'.op, reply'.id, reply'.res)]_vars

=============================================================================

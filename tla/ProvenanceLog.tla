---------------------------- MODULE ProvenanceLog ----------------------------
(***************************************************************************)
(* Provenance logs: the part of the BetterSign library (crates             *)
(* provenance_log, multikey, multisig) that logos-accounts builds on.      *)
(* The library is external; it is modelled from the way rust-lib/src uses  *)
(* it:                                                                     *)
(*   - an entry carries the CID of its predecessor, its seqno, a long-hop  *)
(*     link, the lock scripts for the NEXT entry, its mutation ops and a   *)
(*     proof (the signature);                                              *)
(*   - Log::verify walks the chain from the first entry, checks every      *)
(*     proof against the locks of the entry before it, and yields the      *)
(*     key-value pairs (KVP) so far;                                       *)
(*   - one satisfied lock is enough, and a lock speaks only for ops under  *)
(*     its path (config.rs, delegated_lock_code).                          *)
(* Signatures and hashes are ideal.  The order and the multiplicity of the *)
(* locks of an entry are immaterial here, so they form a set.              *)
(***************************************************************************)
EXTENDS KeyPaths

CONSTANTS
    Multikeys,  \* public keys
    NoKey,      \* "these bytes are not a Multikey"
    LongHop     \* LongHop[n] = lipmaa(n), for the seqnos with is_lipmaa(n)

ASSUME MultikeysAssumption == NoKey \notin Multikeys

ASSUME LongHopAssumption ==
    \A n \in DOMAIN LongHop : n \in Nat /\ LongHop[n] \in Nat /\ LongHop[n] < n

\* A value in the KVP.  Data whose bytes decode as a Multikey carries it.
Value == [type : {"Absent", "Nil", "Str", "Data"}, mk : Multikeys \cup {NoKey}]

Absent       == [type |-> "Absent", mk |-> NoKey]
StrValue     == [type |-> "Str",    mk |-> NoKey]
BlobValue    == [type |-> "Data",   mk |-> NoKey]
KeyValue(mk) == [type |-> "Data",   mk |-> mk]

IsMultikey(v) == v.type = "Data" /\ v.mk # NoKey

Op == [op : {"noop", "delete", "update"}, key : Key, value : Value]

\* Lock scripts.  "check" is check_signature("<key>", "/entry/"), "branch" is
\* check_signature(branch("pubkey"), "/entry/"), "other" is any other code.
Code == [kind : {"check", "branch", "other"}, key : Key]
Lock == [path : Key, code : Code]

CheckCode(k) == [kind |-> "check", key |-> k]
BranchCode   == [kind |-> "branch", key |-> RootPath]
OtherCode    == [kind |-> "other", key |-> RootPath]

\* A signature names its signer; binds tells whether it was made over the
\* bytes of the entry it is attached to.
Proof == [by : Multikeys, binds : BOOLEAN]

Body == [seqno : Nat, lipmaa : Int, locks : SUBSET Lock, ops : Seq(Op),
         proof : Proof]

\* The CID of an entry hashes its content and, through prev, the content of
\* every entry before it: it stands for that whole history.
Cid == Seq(Body)

NullCid == <<>>
NoHop   == -1

Unsigned == [prev : Cid, seqno : Nat, lipmaa : Int, locks : SUBSET Lock,
             ops : Seq(Op)]
Entry    == [prev : Cid, seqno : Nat, lipmaa : Int, locks : SUBSET Lock,
             ops : Seq(Op), proof : Proof]

cid(e) == Append(e.prev, [seqno |-> e.seqno, lipmaa |-> e.lipmaa,
                          locks |-> e.locks, ops |-> e.ops,
                          proof |-> e.proof])

HeadEntry(log) == log[Len(log)]

try_build_with_proof(u, proof) ==
    [prev |-> u.prev, seqno |-> u.seqno, lipmaa |-> u.lipmaa,
     locks |-> u.locks, ops |-> u.ops, proof |-> proof]

lipmaa_link(n) == IF n \in DOMAIN LongHop THEN LongHop[n] ELSE NoHop

-----------------------------------------------------------------------------
(***************************************************************************)
(* The KVP at the head of a log: the last write of a key wins.             *)
(***************************************************************************)

WritesOf(ops, key) ==
    {j \in DOMAIN ops : ops[j].key = key /\ ops[j].op # "noop"}

Writers(log, key) == {i \in DOMAIN log : WritesOf(log[i].ops, key) # {}}

KvpGet(log, key) ==
    IF Writers(log, key) = {}
    THEN Absent
    ELSE LET ops == log[Max(Writers(log, key))].ops
             o   == ops[Max(WritesOf(ops, key))]
         IN  IF o.op = "update" THEN o.value ELSE Absent

-----------------------------------------------------------------------------
(***************************************************************************)
(* Verification.                                                           *)
(***************************************************************************)

\* The locks whose path covers every op; an entry without ops answers to "/".
Governs(lock, ops) ==
    IF ops = <<>>
    THEN lock.path = RootPath
    ELSE \A j \in DOMAIN ops :
            parent_of(lock.path, ops[j].key) \/ lock.path = ops[j].key

\* Scripts run with the domain of the log, not of the lock's path, so that
\* branch("pubkey") names "/pubkey" (config.rs, delegated_lock_code).
CheckedKey(code) == IF code.kind = "check" THEN code.key ELSE pubkey_key_path

Satisfied(lock, log, proof) ==
    /\ lock.code.kind # "other"
    /\ proof.binds
    /\ KvpGet(log, CheckedKey(lock.code)) = KeyValue(proof.by)

Authorised(log, e) ==
    \E lock \in HeadEntry(log).locks :
        Governs(lock, e.ops) /\ Satisfied(lock, log, e.proof)

\* e is built on the head of log.
Chained(log, e) ==
    /\ e.prev = cid(HeadEntry(log))
    /\ e.seqno = Len(log)
    /\ e.lipmaa = lipmaa_link(e.seqno)

entrykey_path == [dir |-> <<>>, leaf |-> "entrykey"]

\* The first entry is signed by the ephemeral key it publishes.
FirstEntryOk(e) ==
    /\ e.prev = NullCid
    /\ e.seqno = 0
    /\ e.lipmaa = lipmaa_link(0)
    /\ e.proof.binds
    /\ KvpGet(<<e>>, entrykey_path) = KeyValue(e.proof.by)

\* Log::verify yields at least one entry and no error.
ensure_plog_verified(log) ==
    /\ log # <<>>
    /\ FirstEntryOk(log[1])
    /\ \A i \in 2..Len(log) :
          /\ Chained(SubSeq(log, 1, i - 1), log[i])
          /\ Authorised(SubSeq(log, 1, i - 1), log[i])

=============================================================================

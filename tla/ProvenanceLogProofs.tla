------------------------ MODULE ProvenanceLogProofs -------------------------
(***************************************************************************)
(* Facts about the operators that the account is built from, for any key   *)
(* paths, keys and logs: the closest ancestor of a branch, the types of    *)
(* key paths, values and entries, the log of a new account, and the value  *)
(* of a key once one more entry is appended to the log.                    *)
(***************************************************************************)
EXTENDS OpenConfig, WellFoundedInduction, TLAPS

(***************************************************************************)
(* Key paths.                                                              *)
(***************************************************************************)

\* Every non-empty set of naturals has a least element.
LEMMA LeastNat ==
  ASSUME NEW T, T \subseteq Nat, T # {}
  PROVE \E x \in T : \A y \in T : x <= y
<1>1. \E R : /\ IsWellFoundedOn(R, Nat)
             /\ \A x, y \in Nat : x < y => <<x, y>> \in R
  <2>1. \A x, y \in Nat : x < y => <<x, y>> \in OpToRel(<, Nat)
    BY DEF OpToRel
  <2> QED
    BY <2>1, NatLessThanWellFounded, Zenon
<1>2. PICK R : /\ IsWellFoundedOn(R, Nat)
               /\ \A x, y \in Nat : x < y => <<x, y>> \in R
  BY <1>1
<1>3. \E x \in T : \A y \in T : ~ (<<y, x>> \in R)
  <2>1. IsWellFoundedOn(R, Nat)
    BY <1>2
  <2> QED
    BY <2>1, WFMin
<1>4. PICK x \in T : \A y \in T : ~ (<<y, x>> \in R)
  BY <1>3
<1>5. \A y \in T : x <= y
  <2> TAKE y \in T
  <2>1. x \in Nat /\ y \in Nat /\ ~(y < x)
    BY <1>2, <1>4
  <2> QED BY <2>1
<1> QED
  BY <1>5

\* Of the ancestors of a path one is closest: all their lengths are bounded by
\* the length of the path itself.
LEMMA ClosestExists ==
    ASSUME NEW t \in Key, NEW paths \in SUBSET PathString,
           ProperAncestors(t, paths) # {}
    PROVE  \E b \in ProperAncestors(t, paths) :
                IsClosest(b, ProperAncestors(t, paths))
<1> DEFINE A    == ProperAncestors(t, paths)
           room(a) == StrLen[t.dir] - StrLen[a.dir]
           T    == {room(a) : a \in A}
<1>1. \A a \in A : a \in Key /\ IsPrefix(a.dir, t.dir)
  BY DEF ProperAncestors, parse_branch_path, parse_key, parent_of, PathString
<1>2. \A a \in A : StrLen[a.dir] \in Nat /\ StrLen[t.dir] \in Nat
                     /\ StrLen[a.dir] <= StrLen[t.dir]
  BY <1>1, StrLenAssumption DEF Key, IsStrictPrefix
<1>3. T \subseteq Nat /\ T # {}
  BY <1>2
<1>4. PICK x \in T : \A y \in T : x <= y
  BY <1>3, LeastNat
<1>5. PICK b \in A : x = room(b)
  BY <1>4
<1>6. \A a \in A : StrLen[a.dir] <= StrLen[b.dir]
  <2> TAKE a \in A
  <2>1. room(b) <= room(a)
    BY <1>4, <1>5
  <2> QED
    BY <2>1, <1>2, <1>5
<1> QED
  BY <1>5, <1>6 DEF IsClosest

\* The signer of a delegation or a revocation is the pubkey path of a key.
LEMMA SignerTyped ==
    ASSUME NEW t \in Key, NEW paths \in SUBSET PathString
    PROVE  resolve_closest_parent_signing_key(t, paths) \in Key
<1> DEFINE A == ProperAncestors(t, paths)
<1>1. pubkey_key_path \in Key /\ \A b \in Key : delegate_pubkey_key(b) \in Key
  BY DirsAssumption, LeavesAssumption DEF pubkey_key_path, delegate_pubkey_key, Key
<1>2. CASE A = {}
  BY <1>1, <1>2 DEF resolve_closest_parent_signing_key
<1>3. CASE A # {}
  <2>1. (CHOOSE b \in A : IsClosest(b, A)) \in A
    BY <1>3, ClosestExists
  <2>2. A \subseteq Key
    BY DEF ProperAncestors, parse_branch_path, parse_key, PathString
  <2> QED
    BY <1>1, <1>3, <2>1, <2>2 DEF resolve_closest_parent_signing_key
<1> QED
  BY <1>2, <1>3

\* The signer is "/pubkey", or the pubkey of a branch of the set that lies
\* above the target.
LEMMA SignerOf ==
    ASSUME NEW t \in Key, NEW paths \in SUBSET PathString
    PROVE  LET s == resolve_closest_parent_signing_key(t, paths)
           IN  \/ s = pubkey_key_path
               \/ \E b \in paths : /\ parse_branch_path(b) /\ parent_of(b, t)
                                   /\ s = delegate_pubkey_key(b)
<1> DEFINE A == ProperAncestors(t, paths)
<1>1. CASE A = {}
  BY <1>1 DEF resolve_closest_parent_signing_key
<1>2. CASE A # {}
  <2>1. (CHOOSE b \in A : IsClosest(b, A)) \in A
    BY <1>2, ClosestExists
  <2>2. \A b \in A : b \in paths /\ parse_branch_path(b) /\ parent_of(b, t)
    BY DEF ProperAncestors
  <2> QED
    BY <1>2, <2>1, <2>2 DEF resolve_closest_parent_signing_key
<1> QED
  BY <1>1, <1>2

\* Branches have keys of their own, and none has the key of the root.
LEMMA BranchKeysDiffer ==
    ASSUME NEW a \in Key, NEW b \in Key, is_branch(a), is_branch(b)
    PROVE  /\ delegate_pubkey_key(a) = delegate_pubkey_key(b) => a = b
           /\ delegate_pubkey_key(a) = pubkey_key_path => a = RootPath
BY DEF delegate_pubkey_key, pubkey_key_path, is_branch, Key, RootPath, Branch

\* "/" lies above every key path.
LEMMA RootAboveAll ==
    ASSUME NEW k \in Key
    PROVE  parent_of(RootPath, k)
<1>1. k.dir \in Seq(Segments)
  BY DirsAssumption DEF Key
<1>2. IsPrefix(<<>>, k.dir)
  BY <1>1 DEF IsPrefix
<1> QED
  BY <1>2 DEF parent_of, RootPath, Branch, is_branch

\* The fixed key paths, and the pubkey of a branch, are keys.
LEMMA KeyPathsTyped ==
    /\ RootPath \in Key
    /\ pubkey_key_path \in Key
    /\ entrykey_path \in Key
    /\ \A b \in Key : delegate_pubkey_key(b) \in Key
BY DirsAssumption, LeavesAssumption, EntrykeyAssumption
DEF RootPath, Branch, pubkey_key_path, entrykey_path, delegate_pubkey_key, Key

\* The long-hop link of an entry is a seqno or none.
LEMMA LipmaaTyped == \A n \in Nat : lipmaa_link(n) \in Int
BY LongHopAssumption DEF lipmaa_link, NoHop

\* Values are values.
LEMMA ValuesTyped ==
    /\ Absent \in Value /\ StrValue \in Value /\ BlobValue \in Value
    /\ \A mk \in Multikeys : KeyValue(mk) \in Value
BY DEF Absent, StrValue, BlobValue, KeyValue, Value

-----------------------------------------------------------------------------
(***************************************************************************)
(* The log of a new account.                                               *)
(***************************************************************************)

\* The opened log with its only entry named.
FirstEntry(entry_pubkey, root_pubkey) ==
    [prev |-> NullCid, seqno |-> 0, lipmaa |-> lipmaa_link(0),
     locks |-> default_open_config,
     ops |-> <<[op |-> "update", key |-> entrykey_path,
                value |-> KeyValue(entry_pubkey)],
               [op |-> "update", key |-> pubkey_key_path,
                value |-> KeyValue(root_pubkey)]>>,
     proof |-> [by |-> entry_pubkey, binds |-> TRUE]]

\* What an opened log publishes.
LEMMA OpenedKvp ==
    ASSUME NEW ek, NEW root
    PROVE  /\ KvpGet(opened_log(ek, root), entrykey_path) = KeyValue(ek)
           /\ KvpGet(opened_log(ek, root), pubkey_key_path) = KeyValue(root)
<1> DEFINE e == FirstEntry(ek, root)
<1>1. opened_log(ek, root) = <<e>>
  BY DEF opened_log, FirstEntry
<1>2. entrykey_path # pubkey_key_path
  BY DEF entrykey_path, pubkey_key_path
<1>3. /\ WritesOf(e.ops, entrykey_path) = {1}
      /\ WritesOf(e.ops, pubkey_key_path) = {2}
  BY <1>2 DEF WritesOf, FirstEntry
<1>4. /\ e.ops[1].op = "update" /\ e.ops[1].value = KeyValue(ek)
      /\ e.ops[2].op = "update" /\ e.ops[2].value = KeyValue(root)
  BY DEF FirstEntry
<1> HIDE DEF e
<1>5. DOMAIN <<e>> = {1} /\ <<e>>[1] = e
  OBVIOUS
<1>6. /\ Writers(<<e>>, entrykey_path) = {1}
      /\ Writers(<<e>>, pubkey_key_path) = {1}
  BY <1>3, <1>5 DEF Writers
<1>7. Max({1}) = 1 /\ Max({2}) = 2
  BY DEF Max
<1> QED
  BY <1>1, <1>3, <1>4, <1>5, <1>6, <1>7 DEF KvpGet

\* An opened log is a log, and it verifies: its entry key is the one that
\* signed.
LEMMA OpenedVerified ==
    ASSUME NEW ek \in Multikeys, NEW root \in Multikeys
    PROVE  /\ opened_log(ek, root) \in Seq(Entry)
           /\ ensure_plog_verified(opened_log(ek, root))
<1> DEFINE e == FirstEntry(ek, root)
<1>1. opened_log(ek, root) = <<e>>
  BY DEF opened_log, FirstEntry
<1>2. e \in Entry
  <2>1. e.ops \in Seq(Op)
    BY KeyPathsTyped, ValuesTyped DEF Op, FirstEntry
  <2>2. e.locks \in SUBSET Lock
    BY KeyPathsTyped DEF default_open_config, Lock, Code, CheckCode, FirstEntry
  <2>3. e.proof \in Proof /\ e.prev \in Cid /\ e.lipmaa \in Int /\ e.seqno \in Nat
    BY LipmaaTyped DEF Proof, Cid, NullCid, FirstEntry
  <2> QED
    BY <2>1, <2>2, <2>3 DEF Entry, FirstEntry
<1>3. FirstEntryOk(e)
  <2>1. KvpGet(<<e>>, entrykey_path) = KeyValue(ek)
    BY <1>1, OpenedKvp
  <2>2. /\ e.prev = NullCid /\ e.seqno = 0 /\ e.lipmaa = lipmaa_link(0)
        /\ e.proof.binds /\ e.proof.by = ek
    BY DEF FirstEntry
  <2> HIDE DEF e
  <2> QED
    BY <2>1, <2>2 DEF FirstEntryOk
<1> HIDE DEF e
<1>4. ensure_plog_verified(<<e>>)
  BY <1>3 DEF ensure_plog_verified
<1> QED
  BY <1>1, <1>2, <1>4

\* The lock of an opened log accepts the root key and no other.
LEMMA OpenedAuthorises ==
    ASSUME NEW ek, NEW root \in Multikeys, NEW mk \in Multikeys
    PROVE  LET e == [ops |-> <<>>, proof |-> [by |-> mk, binds |-> TRUE]]
           IN  Authorised(opened_log(ek, root), e) <=> mk = root
<1> DEFINE e == [ops |-> <<>>, proof |-> [by |-> mk, binds |-> TRUE]]
           l == opened_log(ek, root)
           lock == [path |-> RootPath, code |-> CheckCode(pubkey_key_path)]
<1>1. HeadEntry(l).locks = {lock}
  BY DEF opened_log, HeadEntry, default_open_config
<1>2. Governs(lock, e.ops)
  BY DEF Governs
<1>3. Satisfied(lock, l, e.proof) <=> KeyValue(root) = KeyValue(mk)
  <2>1. KvpGet(l, CheckedKey(lock.code)) = KeyValue(root)
    BY OpenedKvp DEF CheckedKey, CheckCode
  <2>2. lock.code.kind # "other" /\ e.proof.binds /\ e.proof.by = mk
    BY DEF CheckCode
  <2> HIDE DEF l, lock, e
  <2> QED
    BY <2>1, <2>2 DEF Satisfied
<1>4. KeyValue(root) = KeyValue(mk) <=> mk = root
  BY DEF KeyValue
<1> HIDE DEF l, lock, e
<1>5. Authorised(l, e) <=> mk = root
  BY <1>1, <1>2, <1>3, <1>4 DEF Authorised
<1> QED
  BY <1>5 DEF l, e

-----------------------------------------------------------------------------
(***************************************************************************)
(* The value of a key.                                                     *)
(***************************************************************************)

\* A bounded set of naturals has a maximum, if it is not empty.
LEMMA MaxBounded ==
    ASSUME NEW S, S \subseteq Nat, S # {}, NEW n \in Nat, \A x \in S : x <= n
    PROVE  Max(S) \in S /\ \A x \in S : x <= Max(S)
<1> DEFINE T == {n - x : x \in S}
<1>1. T \subseteq Nat /\ T # {}
  <2>1. \A x \in S : n - x \in Nat
    OBVIOUS
  <2> QED
    BY <2>1
<1>2. PICK t \in T : \A y \in T : t <= y
  BY <1>1, LeastNat
<1>3. PICK m \in S : t = n - m
  BY <1>2
<1>4. \A x \in S : m >= x
  <2> TAKE x \in S
  <2>1. n - m <= n - x
    BY <1>2, <1>3
  <2> QED
    BY <2>1
<1>5. Max(S) \in S /\ \A x \in S : Max(S) >= x
  BY <1>4 DEF Max
<1> QED
  BY <1>5

\* The last write of a key by an entry, and the last entry that writes a key,
\* exist when there is any.
LEMMA LastWrite ==
    ASSUME NEW ops \in Seq(Op), NEW k, WritesOf(ops, k) # {}
    PROVE  /\ Max(WritesOf(ops, k)) \in WritesOf(ops, k)
           /\ Max(WritesOf(ops, k)) \in DOMAIN ops
<1>1. /\ WritesOf(ops, k) \subseteq Nat /\ Len(ops) \in Nat
      /\ \A x \in WritesOf(ops, k) : x <= Len(ops)
  BY DEF WritesOf
<1>2. Max(WritesOf(ops, k)) \in WritesOf(ops, k)
  BY <1>1, MaxBounded
<1> QED
  BY <1>2 DEF WritesOf

\* The last entry that writes a key is one, and no later one does.
LEMMA LastWriter ==
    ASSUME NEW l \in Seq(Entry), NEW k, Writers(l, k) # {}
    PROVE  /\ Max(Writers(l, k)) \in Writers(l, k)
           /\ Max(Writers(l, k)) \in DOMAIN l
           /\ \A i \in Writers(l, k) : i <= Max(Writers(l, k))
<1>1. /\ Writers(l, k) \subseteq Nat /\ Len(l) \in Nat
      /\ \A x \in Writers(l, k) : x <= Len(l)
  BY DEF Writers
<1>2. /\ Max(Writers(l, k)) \in Writers(l, k)
      /\ \A i \in Writers(l, k) : i <= Max(Writers(l, k))
  BY <1>1, MaxBounded
<1> QED
  BY <1>2 DEF Writers

\* A key has a value.
LEMMA KvpTyped ==
    ASSUME NEW l \in Seq(Entry), NEW k
    PROVE  KvpGet(l, k) \in Value
<1>1. CASE Writers(l, k) = {}
  BY <1>1, ValuesTyped DEF KvpGet
<1>2. CASE Writers(l, k) # {}
  <2> DEFINE ops == l[Max(Writers(l, k))].ops
             o   == ops[Max(WritesOf(ops, k))]
  <2>1. ops \in Seq(Op) /\ WritesOf(ops, k) # {}
    <3> DEFINE m == Max(Writers(l, k))
    <3>1. m \in Writers(l, k) /\ m \in DOMAIN l
      BY <1>2, LastWriter
    <3> HIDE DEF m
    <3>2. l[m] \in Entry /\ WritesOf(l[m].ops, k) # {}
      BY <3>1 DEF Writers
    <3> QED
      BY <3>2 DEF Entry, m
  <2>2. o \in Op
    BY <2>1, LastWrite
  <2>3. KvpGet(l, k) = IF o.op = "update" THEN o.value ELSE Absent
    BY <1>2 DEF KvpGet
  <2> QED
    BY <2>2, <2>3, ValuesTyped DEF Op
<1> QED
  BY <1>1, <1>2

\* Who writes a key in a log with one more entry.
LEMMA WritersAppended ==
    ASSUME NEW l \in Seq(Entry), NEW e \in Entry, NEW k
    PROVE  Writers(Append(l, e), k)
             = Writers(l, k)
                 \cup (IF WritesOf(e.ops, k) = {} THEN {} ELSE {Len(l) + 1})
<1>1. /\ DOMAIN l = 1..Len(l) /\ Len(l) \in Nat
      /\ DOMAIN Append(l, e) = 1..(Len(l) + 1)
      /\ Append(l, e)[Len(l) + 1] = e
      /\ \A i \in 1..Len(l) : Append(l, e)[i] = l[i]
  OBVIOUS
<1>2. \A i : i \in Writers(Append(l, e), k) <=>
              \/ i \in Writers(l, k)
              \/ i = Len(l) + 1 /\ WritesOf(e.ops, k) # {}
  BY <1>1 DEF Writers
<1> QED
  BY <1>2

\* An entry that does not write a key leaves its value alone.
LEMMA UnwrittenStays ==
    ASSUME NEW l \in Seq(Entry), NEW e \in Entry, NEW k, WritesOf(e.ops, k) = {}
    PROVE  KvpGet(Append(l, e), k) = KvpGet(l, k)
<1>1. Writers(Append(l, e), k) = Writers(l, k)
  <2>1. Writers(l, k) \cup {} = Writers(l, k)
    OBVIOUS
  <2> QED
    BY <2>1, WritersAppended
<1>2. CASE Writers(l, k) = {}
  BY <1>1, <1>2 DEF KvpGet
<1>3. CASE Writers(l, k) # {}
  <2>1. Append(l, e)[Max(Writers(l, k))] = l[Max(Writers(l, k))]
    BY <1>3, LastWriter
  <2> QED
    BY <1>1, <1>3, <2>1 DEF KvpGet
<1> QED
  BY <1>2, <1>3

\* An entry that writes a key decides its value: the last of its writes wins
\* over every write of the entries before it.
LEMMA WrittenWins ==
    ASSUME NEW l \in Seq(Entry), NEW e \in Entry, NEW k, WritesOf(e.ops, k) # {}
    PROVE  LET o == e.ops[Max(WritesOf(e.ops, k))]
           IN  KvpGet(Append(l, e), k)
                 = IF o.op = "update" THEN o.value ELSE Absent
<1> DEFINE new == Append(l, e)
<1>1. new \in Seq(Entry) /\ Len(l) \in Nat /\ new[Len(l) + 1] = e
  OBVIOUS
<1>2. Writers(new, k) = Writers(l, k) \cup {Len(l) + 1}
  BY WritersAppended
<1>3. \A i \in Writers(l, k) : i \in Nat /\ i <= Len(l)
  BY DEF Writers
<1>4. Max(Writers(new, k)) = Len(l) + 1
  <2>1. /\ Max(Writers(new, k)) \in Writers(new, k)
        /\ \A i \in Writers(new, k) : i <= Max(Writers(new, k))
    BY <1>1, <1>2, LastWriter
  <2> DEFINE m == Max(Writers(new, k))
             n == Len(l)
  <2>2. m \in Writers(l, k) \cup {n + 1} /\ n + 1 <= m
    BY <2>1, <1>2
  <2> HIDE DEF new, m, n
  <2>3. m = n + 1
    <3>1. \A i \in Writers(l, k) : i \in Nat /\ n \in Nat /\ i <= n
      BY <1>1, <1>3 DEF n
    <3> QED
      BY <2>2, <3>1, <1>1 DEF n
  <2> QED
    BY <2>3 DEF m, n
<1> HIDE DEF new
<1>5. Writers(new, k) # {}
  BY <1>2
<1>6. KvpGet(new, k)
        = IF e.ops[Max(WritesOf(e.ops, k))].op = "update"
          THEN e.ops[Max(WritesOf(e.ops, k))].value ELSE Absent
  BY <1>1, <1>4, <1>5 DEF KvpGet
<1> QED
  BY <1>6 DEF new

\* An entry with one op that is no noop decides the value of its key, and of no
\* other.
LEMMA OneOpWrites ==
    ASSUME NEW l \in Seq(Entry), NEW e \in Entry, NEW o \in Op,
           e.ops = <<o>>, o.op # "noop"
    PROVE  /\ KvpGet(Append(l, e), o.key)
                = IF o.op = "update" THEN o.value ELSE Absent
           /\ \A k : k # o.key => KvpGet(Append(l, e), k) = KvpGet(l, k)
<1>1. WritesOf(e.ops, o.key) = {1} /\ \A k : k # o.key => WritesOf(e.ops, k) = {}
  BY DEF WritesOf
<1>2. Max({1}) = 1
  BY DEF Max
<1>3. e.ops[1] = o
  OBVIOUS
<1>4. KvpGet(Append(l, e), o.key) = IF o.op = "update" THEN o.value ELSE Absent
  <2>1. WritesOf(e.ops, o.key) # {} /\ e.ops[Max(WritesOf(e.ops, o.key))] = o
    BY <1>1, <1>2, <1>3
  <2> QED
    BY <2>1, WrittenWins
<1> QED
  BY <1>1, <1>4, UnwrittenStays

=============================================================================

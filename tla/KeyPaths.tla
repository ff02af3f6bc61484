------------------------------ MODULE KeyPaths ------------------------------
(***************************************************************************)
(* Key paths of a provenance log and the path policy of                    *)
(* rust-lib/src/config.rs and api.rs.                                      *)
(*                                                                         *)
(* A key path such as "/apps/chat/pubkey" is a directory (the sequence of  *)
(* its segments, <<"apps", "chat">>) and a leaf name ("pubkey").  A branch *)
(* ("/apps/chat/") has no leaf, and "/" is the branch of the empty         *)
(* directory.  A path string a caller passes either denotes a key or is    *)
(* Malformed, the string that Key::try_from rejects.                       *)
(***************************************************************************)
EXTENDS Integers, SequencesExt

CONSTANTS
    Segments,   \* path segments
    Dirs,       \* the directories that occur, <<>> among them
    Leaves,     \* the leaf names that occur, "pubkey" among them
    StrLen,     \* StrLen[d] is as_str().len() of the branch of directory d
    Malformed   \* a path string that is not a key path

NoLeaf == ""

ASSUME DirsAssumption ==
    /\ Dirs \subseteq Seq(Segments)
    /\ <<>> \in Dirs

ASSUME LeavesAssumption == "pubkey" \in Leaves /\ NoLeaf \notin Leaves

\* The string of a branch is a proper prefix of the string of every branch
\* below it, so it is shorter.
ASSUME StrLenAssumption ==
    /\ StrLen \in [Dirs -> Nat]
    /\ \A d, e \in Dirs : IsStrictPrefix(d, e) => StrLen[d] < StrLen[e]

Key == [dir : Dirs, leaf : Leaves \cup {NoLeaf}]

ASSUME MalformedAssumption == Malformed \notin Key

PathString == Key \cup {Malformed}

Branch(d) == [dir |-> d, leaf |-> NoLeaf]

RootPath == Branch(<<>>)

is_branch(k) == k.leaf = NoLeaf

\* A branch is the parent of itself, of the branches below it and of every
\* leaf under one of these.
parent_of(a, b) == is_branch(a) /\ IsPrefix(a.dir, b.dir)

\* Whether Key::try_from accepts the string.
parse_key(p) == p # Malformed

\* Mutant: "/" is accepted too.
parse_any_branch_path(p) == parse_key(p) /\ is_branch(p)

\* Whether parse_branch_path accepts the string: a branch other than "/".
parse_branch_path(p) == parse_key(p) /\ is_branch(p) /\ p # RootPath

pubkey_key_path == [dir |-> <<>>, leaf |-> "pubkey"]

delegate_pubkey_key(branch) == [dir |-> branch.dir, leaf |-> "pubkey"]

key_under_branch(op_key, branch) == parent_of(branch, op_key)

-----------------------------------------------------------------------------

\* Mutant: the loop does not ask whether the branch lies above target.
OtherDelegations(target, paths) ==
    {p \in paths : parse_branch_path(p) /\ p # target}

\* The delegated branches, among the path strings given, that lie properly
\* above target.
ProperAncestors(target, paths) ==
    {p \in paths : parse_branch_path(p) /\ p # target /\ parent_of(p, target)}

\* b is the closest of the ancestors: no other one has a longer string.
IsClosest(b, ancestors) ==
    /\ b \in ancestors
    /\ \A a \in ancestors : StrLen[a.dir] <= StrLen[b.dir]

\* Key path that signs a delegation or a revocation of target, when `paths'
\* are the delegated branches.  The loop in the code is module ClosestParent.
resolve_closest_parent_signing_key(target, paths) ==
    LET ancestors == ProperAncestors(target, paths)
    IN  IF ancestors = {}
        THEN pubkey_key_path
        ELSE delegate_pubkey_key(CHOOSE b \in ancestors : IsClosest(b, ancestors))

=============================================================================

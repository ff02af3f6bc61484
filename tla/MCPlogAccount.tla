---------------------------- MODULE MCPlogAccount ----------------------------
(***************************************************************************)
(* Small instances of PlogAccount for TLC.                                 *)
(***************************************************************************)
EXTENDS PlogAccount

CONSTANTS Root, EK, K1, K2   \* public keys

MCSegments == {"apps", "chat", "other"}
MCDirs == {<<>>, <<"apps">>, <<"apps", "chat">>, <<"other">>}
MCLeaves == {"pubkey", "entrykey", "data"}

\* Lengths of "/", "/apps/", "/apps/chat/", "/other/".
MCStrLen == [d \in MCDirs |->
    CASE d = <<>> -> 1
      [] d = <<"apps">> -> 6
      [] d = <<"apps", "chat">> -> 11
      [] d = <<"other">> -> 7]

\* is_lipmaa and lipmaa of the first seqnos.
MCLongHop == [n \in {4} |-> 1]

Apps  == Branch(<<"apps">>)
Chat  == Branch(<<"apps", "chat">>)
Other == Branch(<<"other">>)
AppsData == [dir |-> <<"apps">>, leaf |-> "data"]

Update(k, v) == [op |-> "update", key |-> k, value |-> v]
Entry1(locks, ops) == [locks |-> locks, ops |-> ops, sign_as |-> NoPath]

WriteData    == Entry1(Inherit, <<Update(AppsData, "str")>>)
TouchOnly    == [Entry1(Inherit, <<[op |-> "noop", key |-> Apps, value |-> "none"]>>)
                    EXCEPT !.sign_as = delegate_pubkey_key(Apps)]
RotateRoot   == Entry1(Inherit, <<Update(pubkey_key_path, K2)>>)
LockApps     == Entry1(LockUpsert(Apps, CheckCode(pubkey_key_path)), <<>>)
BranchLock   == Entry1(LockUpsert(Apps, BranchCode),
                       <<Update(delegate_pubkey_key(Apps), K1)>>)
StrPubkey    == Entry1(LockUpsert(Apps, CheckCode(delegate_pubkey_key(Apps))),
                       <<Update(delegate_pubkey_key(Apps), "str")>>)
Freeze       == Entry1(LockReplace({}), <<>>)
BadKeyword   == Entry1(UnknownKeyword, <<>>)
BadSignAs    == [Entry1(Inherit, <<>>) EXCEPT !.sign_as = Malformed]
BadOp        == Entry1(Inherit, <<Update(AppsData, NotMultibase)>>)
BadOps       == Entry1(Inherit, <<Update(AppsData, "str"), Update(Malformed, "str"),
                                  Update(AppsData, NotMultibase)>>)

\* Logs offered to import: one delegation on top of a created log, the same
\* entry with a stranger's signature, and no entry at all.
Created == open_plog_with_external_pubkey(Root)

Delegated(by) == Append(Created, try_build_with_proof(
    prepare_next_entry(Created,
        locks_replacing_path(HeadEntry(Created), Apps,
                             {delegated_branch_lock_script(Apps)}),
        <<[op |-> "update", key |-> delegate_pubkey_key(Apps),
           value |-> KeyValue(K1)]>>),
    [by |-> by, binds |-> TRUE]))

MCImportable == {Delegated(Root), Delegated(K2), <<>>}

MCKeys == {Root, EK, K1, K2}
RaceSigners == {Root, EK, K1}

\* Challenge ids are random: no action tells one from another.
IdSymmetry == Permutations(ChallengeIds)

\* Every request form and every kind of path, few challenges.
BroadRequests == {NotJson, WriteData, TouchOnly, RotateRoot, LockApps,
                  Freeze, BadKeyword, BadSignAs, BadOp, BadOps}
BroadPaths == {Malformed, RootPath, AppsData, Apps, Chat, Other}
BroadKeys == {K1, K2, NotMultibase}

\* Few inputs, more challenges and a longer log.
RaceRequests == {WriteData}
RacePaths == {Apps, Chat}
RaceKeys == {K1}

\* One sugar call and one raw one are enough to watch the clock.
ExpiryPaths == {Apps}

\* Raw requests whose locks or values the delegation listing misreads.
BranchLockRequests == {BranchLock}
StrPubkeyRequests == {StrPubkey}

=============================================================================

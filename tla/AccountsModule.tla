--------------------------- MODULE AccountsModule ---------------------------
(***************************************************************************)
(* The methods of the module (rust-lib/src/module.rs) over the cache of    *)
(* accounts (cache.rs, vlad_hash.rs).                                      *)
(*                                                                         *)
(* Host threads call methods; the dispatcher runs a method with INSTANCE   *)
(* locked.  A method looks an account up, which clones an Arc, locks it,   *)
(* operates on it, emits events and answers: each of these is a step, and  *)
(* the account stays locked to the end.  What an account does is any of    *)
(* what AccountContract allows, which PlogAccount keeps; here a log is the *)
(* sequence of the challenges it was committed from, after its first entry.*)
(***************************************************************************)
EXTENDS AccountContract, Naturals, SequencesExt, FiniteSets

CONSTANTS
    Threads,        \* host threads
    Vlads,          \* identities
    ForeignVlads,   \* identities whose accounts were created elsewhere
    NoVlad,         \* what undecodable text stands for
    Bases,          \* multibase encodings a text may be in
    Canonical,      \* the one encode_vlad produces
    ChallengeIds,   \* bounds the number of successful prepare calls
    NoId,           \* the challenge id of a call that has none
    MaxAccounts,    \* bounds the number of create and import calls that succeed
    Nobody          \* INSTANCE is free

ASSUME ModuleAssumption ==
    /\ ForeignVlads \subseteq Vlads
    /\ NoVlad \notin Vlads
    /\ Canonical \in Bases
    /\ MaxAccounts \in Nat
    /\ NoId \notin ChallengeIds
    /\ Nobody \notin Threads

VARIABLES
    instance,   \* the thread that holds INSTANCE
    accounts,   \* every PlogAccount ever made, in order, cached or not
    entries,    \* AccountCache.entries: VladHash -> index in accounts
    issued,     \* challenge id -> [account, kind] it was prepared for
    exported,   \* the log texts handed out or known from elsewhere
    announced,  \* vlads of account_created events, until removed or cleared
    th          \* thread -> its locals

vars == <<instance, accounts, entries, issued, exported, announced, th>>

-----------------------------------------------------------------------------
(***************************************************************************)
(* Texts and keys.                                                         *)
(***************************************************************************)

Text == [vlad : Vlads \cup {NoVlad}, base : Bases]

encode_vlad(v) == [vlad |-> v, base |-> Canonical]

\* SHA-256, taken to be injective.
vlad_hash(v) == encode_vlad(v)

decodable(text) == text.vlad # NoVlad

\* Mutant: the text is hashed as it was given.
key_as_given(text) == text

key_from_multibase(text) == vlad_hash(text.vlad)

-----------------------------------------------------------------------------
(***************************************************************************)
(* Accounts and calls.                                                     *)
(***************************************************************************)

UpdateKind == {"Entry", "Delegate", "Revoke"}

PlogText == [vlad : Vlads, log : Seq(ChallengeIds)]

Account == [vlad : Vlads, log : Seq(ChallengeIds), pending : SUBSET ChallengeIds]

\* Mutant: an import keeps the challenges of the account it replaces.
imported_keeping(p) ==
    [vlad |-> p.vlad, log |-> p.log,
     pending |-> IF vlad_hash(p.vlad) \in DOMAIN entries
                 THEN accounts[entries[vlad_hash(p.vlad)]].pending ELSE {}]

\* PlogAccount::import of a log that verifies.
imported(p) == [vlad |-> p.vlad, log |-> p.log, pending |-> {}]

\* "Null" is the null pointer that dispatch returns.
Outcome == {"Ok", "Null", "Encoding", "AccountNotCached", "ChallengeNotFound", "Refused"}

AccountOps == {"export", "read", "prepare", "commit", "cancel"}

\* "unknown" stands for a method name that is none of the twelve, and for any
\* of these with too few arguments.  "id" is given to commit and cancel and
\* returned by prepare.
Call == [op : AccountOps \cup {"create", "import", "remove", "clear", "unknown"},
         text : Text, id : ChallengeIds \cup {NoId}, kind : UpdateKind]

NameCall(op, text) ==
    [op |-> op, text |-> text, id |-> NoId, kind |-> "Entry"]

Calls ==
    {NameCall(op, text) : op \in {"export", "read", "remove"}, text \in Text}
    \cup {[NameCall("prepare", text) EXCEPT !.kind = k] :
            text \in Text, k \in UpdateKind}
    \cup {[NameCall(op, text) EXCEPT !.id = i] :
            op \in {"commit", "cancel"}, text \in Text, i \in DOMAIN issued}
    \cup {NameCall(op, encode_vlad(NoVlad)) : op \in {"create", "import", "clear", "unknown"}}

Event == [name : {"account_created", "path_delegated", "path_revoked"}, of : Vlads]
         \cup [name : {"account_updated"}, of : ChallengeIds]
         \cup {[name |-> "error"]}

ErrorEvent == [name |-> "error"]

\* "acct" is the index of the account of the call, or 0; "sent" are the events
\* emitted so far and "todo" those that are still to come.
Local == [pc : {"idle", "start", "insert", "operate", "emit", "return"},
          call : Call, acct : Nat, out : Outcome,
          todo : Seq(Event), sent : Seq(Event)]

Idle == [pc |-> "idle", call |-> NameCall("clear", encode_vlad(NoVlad)),
         acct |-> 0, out |-> "Ok", todo |-> <<>>, sent |-> <<>>]

Init ==
    /\ instance = Nobody
    /\ accounts = <<>>
    /\ entries = [k \in {} |-> 0]
    /\ issued = [id \in {} |-> 0]
    /\ exported = {[vlad |-> v, log |-> <<>>] : v \in ForeignVlads}
    /\ announced = {}
    /\ th = [t \in Threads |-> Idle]

-----------------------------------------------------------------------------
(***************************************************************************)
(* Steps of a method.                                                      *)
(***************************************************************************)

\* Mutant: dispatch does not lock INSTANCE.
DispatchUnlocked == TRUE

DispatchLocked == instance = Nobody

\* The account that t has looked up is not locked by another thread.
EntryFree(t) ==
    \A u \in Threads \ {t} :
        th[u].pc \in {"emit", "return"} => th[u].acct # th[t].acct

Op(t) == th[t].call.op

Acct(t) == accounts[th[t].acct]

\* The account is locked, its events are emitted, the method answers.
Answers(t, acct, out, todo) ==
    th' = [th EXCEPT ![t] = [@ EXCEPT !.pc = "emit", !.acct = acct, !.out = out,
                                      !.todo = todo]]

\* err_json: every error answer is also an error event.
err_json(t, acct, out) == Answers(t, acct, out, <<ErrorEvent>>)

Dispatch(t) ==
    /\ th[t].pc = "idle"
    /\ DispatchLocked
    /\ instance' = t
    /\ \E c \in Calls :
        th' = [th EXCEPT ![t] = [Idle EXCEPT !.pc = "start", !.call = c]]
    /\ UNCHANGED <<accounts, entries, issued, exported, announced>>

\* No method is called: dispatch answers with a null pointer.
NoMethod(t) ==
    /\ th[t].pc = "start" /\ Op(t) = "unknown"
    /\ th' = [th EXCEPT ![t] = [@ EXCEPT !.pc = "return", !.out = "Null"]]
    /\ UNCHANGED <<instance, accounts, entries, issued, exported, announced>>

\* An identity that no account has.
FreshVlads ==
    Vlads \ (ForeignVlads \cup {accounts[i].vlad : i \in DOMAIN accounts})

\* A new account, not yet in the cache.
NewAccount(t, a, events) ==
    /\ Len(accounts) < MaxAccounts
    /\ accounts' = Append(accounts, a)
    /\ th' = [th EXCEPT ![t] = [@ EXCEPT !.pc = "insert",
                                         !.acct = Len(accounts) + 1,
                                         !.sent = th[t].sent \o events]]

\* The event comes first, then the insert.
create_account(t) ==
    /\ th[t].pc = "start" /\ Op(t) = "create"
    /\ \/ /\ err_json(t, 0, "Encoding")
          /\ UNCHANGED <<accounts, announced>>
       \/ \E v \in FreshVlads :
            /\ NewAccount(t, imported([vlad |-> v, log |-> <<>>]),
                          <<[name |-> "account_created", of |-> v]>>)
            /\ announced' = announced \cup {v}
    /\ UNCHANGED <<instance, entries, issued, exported>>

import_plog(t) ==
    /\ th[t].pc = "start" /\ Op(t) = "import"
    /\ \/ err_json(t, 0, "Encoding") /\ UNCHANGED accounts
       \/ \E p \in exported : NewAccount(t, imported(p), <<>>)
    /\ UNCHANGED <<instance, entries, issued, exported, announced>>

\* Mutant: the account is filed under the argument of the call.
ArgumentKey(t) == key_from_multibase(th[t].call.text)

\* The key of the summary's VLAD.
SummaryKey(t) == key_from_multibase(encode_vlad(Acct(t).vlad))

\* AccountCache::insert replaces what is there.
insert(t) ==
    /\ th[t].pc = "insert"
    /\ LET key == SummaryKey(t)
       IN  entries' = [k \in DOMAIN entries \cup {key} |->
                         IF k = key THEN th[t].acct ELSE entries[k]]
    /\ Answers(t, th[t].acct, "Ok", <<>>)
    /\ UNCHANGED <<instance, accounts, issued, exported, announced>>

remove_plog(t) ==
    /\ th[t].pc = "start" /\ Op(t) = "remove"
    /\ LET text == th[t].call.text
           key  == key_from_multibase(text)
       IN  IF ~decodable(text)
           THEN err_json(t, 0, "Encoding") /\ UNCHANGED <<entries, announced>>
           ELSE IF key \notin DOMAIN entries
           THEN err_json(t, 0, "AccountNotCached") /\ UNCHANGED <<entries, announced>>
           ELSE /\ entries' = [k \in DOMAIN entries \ {key} |-> entries[k]]
                /\ announced' = announced \ {text.vlad}
                /\ Answers(t, 0, "Ok", <<>>)
    /\ UNCHANGED <<instance, accounts, issued, exported>>

clear_cache(t) ==
    /\ th[t].pc = "start" /\ Op(t) = "clear"
    /\ entries' = [k \in {} |-> 0]
    /\ announced' = {}
    /\ Answers(t, 0, "Ok", <<>>)
    /\ UNCHANGED <<instance, accounts, issued, exported>>

\* AccountCache::get, which hands out a clone of the Arc.
entry(t) ==
    /\ th[t].pc = "start" /\ Op(t) \in AccountOps
    /\ LET text == th[t].call.text
           key  == key_from_multibase(text)
       IN  IF ~decodable(text) THEN err_json(t, 0, "Encoding")
           ELSE IF key \notin DOMAIN entries THEN err_json(t, 0, "AccountNotCached")
           ELSE th' = [th EXCEPT ![t] = [@ EXCEPT !.pc = "operate",
                                                  !.acct = entries[key]]]
    /\ UNCHANGED <<instance, accounts, entries, issued, exported, announced>>

Operating(t, op) == th[t].pc = "operate" /\ Op(t) = op /\ EntryFree(t)

SetAccount(t, a) == accounts' = [accounts EXCEPT ![th[t].acct] = a]

export_plog(t) ==
    /\ Operating(t, "export")
    /\ exported' = exported \cup {[vlad |-> Acct(t).vlad, log |-> Acct(t).log]}
    /\ Answers(t, th[t].acct, "Ok", <<>>)
    /\ UNCHANGED <<instance, accounts, entries, issued, announced>>

\* get_value and list_delegations: answered or refused, nothing changes.
read(t) ==
    /\ Operating(t, "read")
    /\ \/ Answers(t, th[t].acct, "Ok", <<>>)
       \/ err_json(t, th[t].acct, "Refused")
    /\ UNCHANGED <<instance, accounts, entries, issued, exported, announced>>

\* with_account_mut; any of the pending challenges may have expired.
prepare(t) ==
    /\ Operating(t, "prepare")
    /\ \/ \E r \in refuse_results(Acct(t)) :
            /\ SetAccount(t, r.account)
            /\ err_json(t, th[t].acct, r.out)
            /\ UNCHANGED issued
       \/ \E id \in ChallengeIds \ DOMAIN issued :
          \E r \in prepare_results(Acct(t), id) :
            /\ SetAccount(t, r.account)
            /\ issued' = [i \in DOMAIN issued \cup {id} |->
                            IF i = id
                            THEN [account |-> th[t].acct, kind |-> th[t].call.kind]
                            ELSE issued[i]]
            /\ th' = [th EXCEPT ![t] = [@ EXCEPT !.pc = "emit", !.out = "Ok",
                                                 !.call.id = id]]
    /\ UNCHANGED <<instance, entries, exported, announced>>

\* Mutant: the path event is left out.
commit_events_short(id, v) == <<[name |-> "account_updated", of |-> id]>>

\* The head event comes first, the path event of a sugar update second.
commit_events(id, v) ==
    <<[name |-> "account_updated", of |-> id]>> \o
    CASE issued[id].kind = "Delegate" -> <<[name |-> "path_delegated", of |-> v]>>
      [] issued[id].kind = "Revoke"   -> <<[name |-> "path_revoked", of |-> v]>>
      [] OTHER                        -> <<>>

commit_update(t) ==
    /\ Operating(t, "commit")
    /\ LET id == th[t].call.id
       IN  \E r \in commit_results(Acct(t), id, id) :
            /\ SetAccount(t, r.account)
            /\ IF r.out = "Ok"
               THEN Answers(t, th[t].acct, "Ok", commit_events(id, Acct(t).vlad))
               ELSE err_json(t, th[t].acct, r.out)
    /\ UNCHANGED <<instance, entries, issued, exported, announced>>

cancel_update(t) ==
    /\ Operating(t, "cancel")
    /\ \E r \in cancel_results(Acct(t), th[t].call.id) :
          /\ SetAccount(t, r.account)
          /\ IF r.out = "Ok" THEN Answers(t, th[t].acct, "Ok", <<>>)
             ELSE err_json(t, th[t].acct, r.out)
    /\ UNCHANGED <<instance, entries, issued, exported, announced>>

Emit(t) ==
    /\ th[t].pc = "emit"
    /\ th' = [th EXCEPT ![t] =
                IF th[t].todo = <<>> THEN [@ EXCEPT !.pc = "return"]
                ELSE [@ EXCEPT !.todo = Tail(th[t].todo),
                               !.sent = Append(th[t].sent, Head(th[t].todo))]]
    /\ UNCHANGED <<instance, accounts, entries, issued, exported, announced>>

Return(t) ==
    /\ th[t].pc = "return"
    /\ instance' = Nobody
    /\ th' = [th EXCEPT ![t] = Idle]
    /\ UNCHANGED <<accounts, entries, issued, exported, announced>>

Next ==
    \E t \in Threads :
        \/ Dispatch(t) \/ NoMethod(t)
        \/ create_account(t) \/ import_plog(t) \/ insert(t)
        \/ remove_plog(t) \/ clear_cache(t)
        \/ entry(t) \/ export_plog(t) \/ read(t)
        \/ prepare(t) \/ commit_update(t) \/ cancel_update(t)
        \/ Emit(t) \/ Return(t)

Spec == Init /\ [][Next]_vars

-----------------------------------------------------------------------------
(***************************************************************************)
(* Properties.                                                             *)
(***************************************************************************)

\* The types of the cache, of the accounts and of the threads' locals; every
\* entry is filed under the hash of its own VLAD.
TypeOK ==
    /\ instance \in Threads \cup {Nobody}
    /\ accounts \in Seq(Account)
    /\ DOMAIN entries \subseteq {vlad_hash(v) : v \in Vlads}
    /\ \A k \in DOMAIN entries :
          entries[k] \in DOMAIN accounts /\ k = vlad_hash(accounts[entries[k]].vlad)
    /\ DOMAIN issued \subseteq ChallengeIds
    /\ \A id \in DOMAIN issued :
          issued[id] \in [account : DOMAIN accounts, kind : UpdateKind]
    /\ exported \subseteq PlogText
    /\ announced \subseteq Vlads
    /\ th \in [Threads -> Local]
    /\ \A t \in Threads : th[t].acct <= Len(accounts)

Cached(v) == vlad_hash(v) \in DOMAIN entries

CachedAccount(v) == accounts[entries[vlad_hash(v)]]

\* When a method answers Ok, the cache holds what the answer says: the update
\* that commit reports is on the cached log, the challenge that prepare hands
\* out is pending on the cached account, and neither is on one that a remove,
\* clear or import has detached since the lookup.
OkIsInCache ==
    \A t \in Threads : th[t].pc = "return" /\ th[t].out = "Ok" =>
        LET c == th[t].call
        IN  /\ th[t].acct # 0 =>
                  /\ Cached(Acct(t).vlad)
                  /\ entries[vlad_hash(Acct(t).vlad)] = th[t].acct
            /\ c.op = "commit"  => Acct(t).log # <<>> /\ Last(Acct(t).log) = c.id
            /\ c.op = "prepare" => c.id \in Acct(t).pending
            /\ c.op = "remove"  => ~Cached(c.text.vlad)

\* A VLAD names its account in every spelling: AccountNotCached is answered
\* only when no spelling would find one, and no spelling finds another's.
AnySpellingFindsAccount ==
    \A t \in Threads : th[t].pc = "return" /\ Op(t) \in AccountOps \cup {"remove"} =>
        /\ th[t].out = "AccountNotCached" => ~Cached(th[t].call.text.vlad)
        /\ th[t].acct # 0 => Acct(t).vlad = th[t].call.text.vlad

\* account_created comes before the insert, but whoever reacts to it with a
\* call finds the account, unless it was removed or cleared first.
AnnouncedIsUsable ==
    instance = Nobody => \A v \in announced : Cached(v)

SentNames(t) == [i \in DOMAIN th[t].sent |-> th[t].sent[i].name]

PathEvent(kind) ==
    CASE kind = "Delegate" -> <<"path_delegated">>
      [] kind = "Revoke"   -> <<"path_revoked">>
      [] OTHER             -> <<>>

\* "Errors are JSON and also emit the error event" (README): a listener can
\* rebuild from the events of a call what it did to the log, and to whose.
EventsTellEffects ==
    \A t \in Threads : th[t].pc = "return" =>
        /\ SentNames(t) =
             IF th[t].out = "Null" THEN <<>>
             ELSE IF th[t].out # "Ok" THEN <<"error">>
             ELSE IF Op(t) = "create" THEN <<"account_created">>
             ELSE IF Op(t) = "commit"
             THEN <<"account_updated">> \o PathEvent(issued[th[t].call.id].kind)
             ELSE <<>>
        /\ th[t].out = "Ok" => \A i \in DOMAIN th[t].sent :
             th[t].sent[i].of \in {Acct(t).vlad} \cup Range(Acct(t).log)

\* A challenge is committed on the account it was prepared on and on no other,
\* and only while that account is the cached one: import, remove and clear
\* void it, also when the log they bring back is the one it was prepared on.
ChallengeDiesWithAccount ==
    [][\A i \in DOMAIN accounts :
        accounts'[i].log # accounts[i].log =>
            LET id == Last(accounts'[i].log)
            IN  /\ issued[id].account = i
                /\ Cached(accounts[i].vlad)
                /\ entries[vlad_hash(accounts[i].vlad)] = i]_vars

-----------------------------------------------------------------------------
(***************************************************************************)
(* The store that the module implements.  A call takes effect when its     *)
(* answer is settled.                                                      *)
(***************************************************************************)

AsAccount(a) == [log |-> a.log, pending |-> a.pending]

AsStore == [v \in {v \in Vlads : Cached(v)} |-> AsAccount(CachedAccount(v))]

\* An account on its way to the cache was not created yet.
Arriving(i) == \E t \in Threads : th[t].pc = "insert" /\ th[t].acct = i

AsTaken ==
    ForeignVlads
    \cup {accounts[i].vlad : i \in {i \in DOMAIN accounts : ~Arriving(i)}}

AsKind == [id \in DOMAIN issued |-> issued[id].kind]

AsCall(c) == [op |-> c.op, vlad |-> c.text.vlad, id |-> c.id, kind |-> c.kind]

AsCalls ==
    [t \in Threads |->
        IF th[t].pc = "idle" THEN [st |-> "idle"]
        ELSE IF th[t].pc \in {"emit", "return"}
        THEN [st |-> "done", call |-> AsCall(th[t].call), out |-> th[t].out,
              events |-> th[t].sent \o th[t].todo]
        ELSE [st |-> "called", call |-> AsCall(th[t].call)]]

Store == INSTANCE AccountsStore
    WITH store <- AsStore, taken <- AsTaken, kind <- AsKind,
         texts <- exported, calls <- AsCalls

\* The module answers every call as if it were made in one step on the store,
\* at some time between the call and its answer: look up first, operate on a
\* clone of the Arc and announce an account before it is cached show nowhere.
ImplementsAccountsStore == Store!Spec

=============================================================================

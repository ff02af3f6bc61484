---------------------------- MODULE AccountsStore ----------------------------
(***************************************************************************)
(* What the methods of the module promise a host: a store of accounts by   *)
(* VLAD, each of whose methods takes effect in one step between its call   *)
(* and its answer.  There are no spellings of a VLAD, no lookups that      *)
(* could go stale, no locks, and the events of a call are part of its      *)
(* answer. AccountsModule implements it.                                   *)
(***************************************************************************)
EXTENDS AccountContract

CONSTANTS
    Threads,        \* host threads
    Vlads,          \* identities
    ForeignVlads,   \* identities whose accounts were created elsewhere
    NoVlad,         \* what undecodable text stands for
    ChallengeIds,   \* ids that a prepare call may hand out
    NoId            \* the challenge id of a call that has none

VARIABLES
    store,  \* vlad -> its account
    taken,  \* vlads that an account was ever created with
    kind,   \* challenge id -> the kind of update it was handed out for
    texts,  \* [vlad, log] of the logs handed out or known from elsewhere
    calls   \* thread -> the call it makes, and the answer

storeVars == <<store, taken, kind, texts, calls>>

AccountOps == {"export", "read", "prepare", "commit", "cancel"}

Kind == {"Entry", "Delegate", "Revoke"}

Args(op, vlad, id, k) == [op |-> op, vlad |-> vlad, id |-> id, kind |-> k]

\* The calls that a host can make with the ids it was given.  An argument that
\* a method does not take is NoVlad, NoId or "Entry".
Calls(ids) ==
    {Args(op, v, NoId, "Entry") :
        op \in {"export", "read", "remove"}, v \in Vlads \cup {NoVlad}}
    \cup {Args("prepare", v, NoId, k) : v \in Vlads \cup {NoVlad}, k \in Kind}
    \cup {Args(op, v, i, "Entry") :
            op \in {"commit", "cancel"}, v \in Vlads \cup {NoVlad}, i \in ids}
    \cup {Args(op, NoVlad, NoId, "Entry") :
            op \in {"create", "import", "clear", "unknown"}}

NoCall == [st |-> "idle"]

Called(call) == [st |-> "called", call |-> call]

Done(call, out, events) ==
    [st |-> "done", call |-> call, out |-> out, events |-> events]

FreshAccount(log) == [log |-> log, pending |-> {}]

Init ==
    /\ store = [v \in {} |-> FreshAccount(<<>>)]
    /\ taken = ForeignVlads
    /\ kind = [i \in {} |-> "Entry"]
    /\ texts = [vlad : ForeignVlads, log : {<<>>}]
    /\ calls = [t \in Threads |-> NoCall]

-----------------------------------------------------------------------------

ErrorEvents == <<[name |-> "error"]>>

UpdateEvents(id, v) ==
    <<[name |-> "account_updated", of |-> id]>> \o
    CASE kind[id] = "Delegate" -> <<[name |-> "path_delegated", of |-> v]>>
      [] kind[id] = "Revoke"   -> <<[name |-> "path_revoked", of |-> v]>>
      [] OTHER                 -> <<>>

Answer(t, call, out, events) ==
    calls' = [calls EXCEPT ![t] = Done(call, out, events)]

Error(t, call, out) == Answer(t, call, out, ErrorEvents)

\* A host thread calls a method.
Invoke(t) ==
    /\ calls[t] = NoCall
    /\ \E call \in Calls(DOMAIN kind) :
          calls' = [calls EXCEPT ![t] = Called(call)]
    /\ UNCHANGED <<store, taken, kind, texts>>

Unknown(t, call) ==
    /\ call.op = "unknown"
    /\ Answer(t, call, "Null", <<>>)
    /\ UNCHANGED <<store, taken, kind, texts>>

Put(v, a) ==
    store' = [w \in DOMAIN store \cup {v} |-> IF w = v THEN a ELSE store[w]]

Create(t, call) ==
    /\ call.op = "create"
    /\ \/ Error(t, call, "Encoding") /\ UNCHANGED <<store, taken>>
       \/ \E v \in Vlads \ taken :
             /\ Put(v, FreshAccount(<<>>))
             /\ taken' = taken \cup {v}
             /\ Answer(t, call, "Ok", <<[name |-> "account_created", of |-> v]>>)
    /\ UNCHANGED <<kind, texts>>

Import(t, call) ==
    /\ call.op = "import"
    /\ \/ Error(t, call, "Encoding") /\ UNCHANGED store
       \/ \E p \in texts :
             Put(p.vlad, FreshAccount(p.log)) /\ Answer(t, call, "Ok", <<>>)
    /\ UNCHANGED <<taken, kind, texts>>

Clear(t, call) ==
    /\ call.op = "clear"
    /\ store' = [v \in {} |-> FreshAccount(<<>>)]
    /\ Answer(t, call, "Ok", <<>>)
    /\ UNCHANGED <<taken, kind, texts>>

\* A method that names an account and does not find it.
NotFound(t, call) ==
    /\ call.op \in AccountOps \cup {"remove"}
    /\ \/ call.vlad = NoVlad /\ Error(t, call, "Encoding")
       \/ /\ call.vlad \in Vlads \ DOMAIN store
          /\ Error(t, call, "AccountNotCached")
    /\ UNCHANGED <<store, taken, kind, texts>>

Remove(t, call) ==
    /\ call.op = "remove" /\ call.vlad \in DOMAIN store
    /\ store' = [v \in DOMAIN store \ {call.vlad} |-> store[v]]
    /\ Answer(t, call, "Ok", <<>>)
    /\ UNCHANGED <<taken, kind, texts>>

Export(t, call) ==
    /\ call.op = "export" /\ call.vlad \in DOMAIN store
    /\ texts' = texts \cup {[vlad |-> call.vlad, log |-> store[call.vlad].log]}
    /\ Answer(t, call, "Ok", <<>>)
    /\ UNCHANGED <<store, taken, kind>>

Read(t, call) ==
    /\ call.op = "read" /\ call.vlad \in DOMAIN store
    /\ Answer(t, call, "Ok", <<>>) \/ Error(t, call, "Refused")
    /\ UNCHANGED <<store, taken, kind, texts>>

Prepare(t, call) ==
    /\ call.op = "prepare" /\ call.vlad \in DOMAIN store
    /\ \/ /\ \E r \in refuse_results(store[call.vlad]) : Put(call.vlad, r.account)
          /\ Error(t, call, "Refused")
          /\ UNCHANGED kind
       \/ \E id \in ChallengeIds \ DOMAIN kind :
             /\ \E r \in prepare_results(store[call.vlad], id) :
                   Put(call.vlad, r.account)
             /\ kind' = [i \in DOMAIN kind \cup {id} |->
                           IF i = id THEN call.kind ELSE kind[i]]
             /\ Answer(t, [call EXCEPT !.id = id], "Ok", <<>>)
    /\ UNCHANGED <<taken, texts>>

Commit(t, call) ==
    /\ call.op = "commit" /\ call.vlad \in DOMAIN store
    /\ \E r \in commit_results(store[call.vlad], call.id, call.id) :
          /\ Put(call.vlad, r.account)
          /\ Answer(t, call, r.out, IF r.out = "Ok" THEN UpdateEvents(call.id, call.vlad)
                                    ELSE ErrorEvents)
    /\ UNCHANGED <<taken, kind, texts>>

Cancel(t, call) ==
    /\ call.op = "cancel" /\ call.vlad \in DOMAIN store
    /\ \E r \in cancel_results(store[call.vlad], call.id) :
          /\ Put(call.vlad, r.account)
          /\ Answer(t, call, r.out, IF r.out = "Ok" THEN <<>> ELSE ErrorEvents)
    /\ UNCHANGED <<taken, kind, texts>>

\* The method takes effect.
Work(t) ==
    /\ calls[t].st = "called"
    /\ LET call == calls[t].call
       IN  \/ Unknown(t, call)
           \/ Create(t, call) \/ Import(t, call) \/ Clear(t, call)
           \/ NotFound(t, call) \/ Remove(t, call)
           \/ Export(t, call) \/ Read(t, call)
           \/ Prepare(t, call) \/ Commit(t, call) \/ Cancel(t, call)

Return(t) ==
    /\ calls[t].st = "done"
    /\ calls' = [calls EXCEPT ![t] = NoCall]
    /\ UNCHANGED <<store, taken, kind, texts>>

Next == \E t \in Threads : Invoke(t) \/ Work(t) \/ Return(t)

Spec == Init /\ [][Next]_storeVars

=============================================================================

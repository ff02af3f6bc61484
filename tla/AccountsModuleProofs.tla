------------------------ MODULE AccountsModuleProofs ------------------------
(***************************************************************************)
(* Proofs about AccountsModule, for any identities, challenge ids and      *)
(* number of threads.                                                      *)
(*                                                                         *)
(* The inductive invariant says that one thread at a time is in a method,  *)
(* and what that thread knows at each step: that the account it looked up  *)
(* is still the cached one, that the account it made is not, and what the  *)
(* events of its answer are.  The last part shows that the module          *)
(* implements AccountsStore.                                               *)
(***************************************************************************)
EXTENDS AccountsModule, SequenceTheorems, TLAPS

\* The events of an answer.
EventsOf(t) ==
    IF th[t].out = "Null" THEN <<>>
    ELSE IF th[t].out # "Ok" THEN <<ErrorEvent>>
    ELSE IF Op(t) = "create"
    THEN <<[name |-> "account_created", of |-> Acct(t).vlad]>>
    ELSE IF Op(t) = "commit" THEN commit_events(th[t].call.id, Acct(t).vlad)
    ELSE <<>>

Silent(t) == th[t].sent = <<>> /\ th[t].todo = <<>>

\* A call whose method has not looked at anything yet.
Started(t) ==
    /\ Silent(t) /\ th[t].acct = 0
    /\ Op(t) \in {"commit", "cancel"} => th[t].call.id \in DOMAIN issued

\* The account that was looked up is the cached one, of the right VLAD.
LookedUp(t) ==
    /\ Silent(t)
    /\ Op(t) \in {"commit", "cancel"} => th[t].call.id \in DOMAIN issued
    /\ Op(t) \in AccountOps
    /\ decodable(th[t].call.text) /\ Cached(th[t].call.text.vlad)
    /\ entries[vlad_hash(th[t].call.text.vlad)] = th[t].acct

\* The account that was made is new, and not cached.
ToInsert(t) ==
    /\ Op(t) \in {"create", "import"}
    /\ th[t].acct \in DOMAIN accounts
    /\ Acct(t).pending = {}
    /\ th[t].todo = <<>>
    /\ Op(t) = "create" =>
          /\ th[t].sent = <<[name |-> "account_created", of |-> Acct(t).vlad]>>
          /\ Acct(t).log = <<>>
          /\ Acct(t).vlad \notin ForeignVlads
          /\ \A i \in DOMAIN accounts :
                accounts[i].vlad = Acct(t).vlad => i = th[t].acct
    /\ Op(t) = "import" =>
          /\ th[t].sent = <<>>
          /\ [vlad |-> Acct(t).vlad, log |-> Acct(t).log] \in exported

\* The answer is settled, its events are being sent.
Settled(t) ==
    /\ th[t].sent \o th[t].todo = EventsOf(t)
    /\ th[t].pc = "return" => th[t].todo = <<>>
    /\ Op(t) \in AccountOps \cup {"remove"} =>
          /\ th[t].out = "AccountNotCached" => ~Cached(th[t].call.text.vlad)
          /\ th[t].acct # 0 => Acct(t).vlad = th[t].call.text.vlad
    /\ th[t].out = "Ok" =>
          /\ th[t].acct # 0 =>
                /\ Cached(Acct(t).vlad)
                /\ entries[vlad_hash(Acct(t).vlad)] = th[t].acct
          /\ Op(t) \in {"create", "commit"} => th[t].acct # 0
          /\ Op(t) = "commit" =>
                /\ th[t].call.id \in DOMAIN issued
                /\ Acct(t).log # <<>> /\ Last(Acct(t).log) = th[t].call.id
          /\ Op(t) = "prepare" => th[t].call.id \in Acct(t).pending
          /\ Op(t) = "remove" => ~Cached(th[t].call.text.vlad)

ThreadInv(t) ==
    /\ th[t].pc # "idle" => instance = t
    /\ th[t].pc = "start" => Started(t)
    /\ th[t].pc = "operate" => LookedUp(t)
    /\ th[t].pc = "insert" => ToInsert(t)
    /\ th[t].pc \in {"emit", "return"} => Settled(t)

\* A challenge is pending on no account but the one it was prepared on.
PendingOwned ==
    \A i \in DOMAIN accounts : \A id \in accounts[i].pending :
        id \in DOMAIN issued /\ issued[id].account = i

\* A log text is of an account that was created.
TextsTaken == \A p \in exported : p.vlad \in AsTaken

\* An announced account is cached or about to be.
AnnouncedArrives ==
    \A v \in announced :
        \/ Cached(v)
        \/ \E t \in Threads : th[t].pc = "insert" /\ Acct(t).vlad = v

Inv ==
    /\ TypeOK /\ PendingOwned /\ TextsTaken /\ AnnouncedArrives
    /\ \A t \in Threads : ThreadInv(t)

-----------------------------------------------------------------------------

\* The hash of a VLAD determines the VLAD.
LEMMA HashInjective ==
    ASSUME NEW v, NEW w
    PROVE  vlad_hash(v) = vlad_hash(w) <=> v = w
BY DEF vlad_hash, encode_vlad

LEMMA IdleTyped == Idle \in Local
BY ModuleAssumption
   DEF Idle, Local, NameCall, Call, Text, encode_vlad, UpdateKind, Outcome

LEMMA InitInv == Init => Inv
<1> SUFFICES ASSUME Init PROVE Inv
  OBVIOUS
<1>1. TypeOK
  <2>1. exported \subseteq PlogText
    <3>1. <<>> \in Seq(ChallengeIds)
      OBVIOUS
    <3>2. \A v \in ForeignVlads : [vlad |-> v, log |-> <<>>] \in PlogText
      BY <3>1, ModuleAssumption DEF PlogText
    <3> QED
      BY <3>2 DEF Init
  <2>2. \A t \in Threads : th[t] = Idle /\ th[t].acct = 0
    BY DEF Init, Idle
  <2>3. /\ th \in [Threads -> Local] /\ accounts = <<>> /\ Len(accounts) = 0
        /\ DOMAIN entries = {} /\ DOMAIN issued = {} /\ announced = {}
        /\ instance = Nobody
    BY IdleTyped DEF Init
  <2>4. accounts \in Seq(Account) /\ \A t \in Threads : th[t].acct <= Len(accounts)
    BY <2>2, <2>3
  <2> QED
    BY <2>1, <2>3, <2>4, Zenon DEF TypeOK
<1>2. \A t \in Threads : th[t].pc = "idle"
  BY DEF Init, Idle
<1>3. \A t \in Threads : ThreadInv(t)
  BY <1>2 DEF ThreadInv
<1>4. PendingOwned /\ AnnouncedArrives
  BY DEF Init, PendingOwned, AnnouncedArrives
<1>5. TextsTaken
  BY DEF Init, TextsTaken, AsTaken
<1> QED
  BY <1>1, <1>3, <1>4, <1>5 DEF Inv

\* One thread at a time is in a method.
LEMMA OthersIdle ==
    ASSUME Inv, NEW t \in Threads, th[t].pc # "idle" \/ instance = Nobody
    PROVE  \A u \in Threads \ {t} : th[u].pc = "idle"
BY ModuleAssumption DEF Inv, ThreadInv

\* Only the locals of t change.
Moves(t) ==
    th' \in [Threads -> Local] /\ \A u \in Threads \ {t} : th'[u] = th[u]

\* A step of one thread while the others are idle.
LEMMA ThreadStep ==
    ASSUME Inv, NEW t \in Threads, Moves(t),
           th[t].pc # "idle" \/ instance = Nobody,
           TypeOK', PendingOwned', TextsTaken', AnnouncedArrives', ThreadInv(t)'
    PROVE  Inv'
<1>1. \A u \in Threads \ {t} : th'[u].pc = "idle"
  BY OthersIdle DEF Moves
<1>2. \A u \in Threads \ {t} : ThreadInv(u)'
  BY <1>1 DEF ThreadInv
<1> QED
  BY <1>2 DEF Inv

\* A step that changes nothing but the locals of a thread and, perhaps, the
\* lock, and has nothing to do with new accounts.
LEMMA QuietStep ==
    ASSUME Inv, NEW t \in Threads, Moves(t),
           th[t].pc # "idle" \/ instance = Nobody,
           instance' \in Threads \cup {Nobody},
           UNCHANGED <<accounts, entries, issued, exported, announced>>,
           th'[t].acct <= Len(accounts),
           th'[t].pc # "insert", th[t].pc # "insert",
           ThreadInv(t)'
    PROVE  Inv'
<1>1. TypeOK'
  BY DEF Inv, TypeOK, Cached, Moves
<1>2. PendingOwned'
  BY DEF Inv, PendingOwned
<1>3. \A u \in Threads : th'[u].pc = "insert" <=> th[u].pc = "insert"
  BY DEF Moves
<1>4. \A u \in Threads : th[u].pc = "insert" => th'[u] = th[u]
  BY DEF Moves
<1>5. AsTaken' = AsTaken
  BY <1>3, <1>4 DEF AsTaken, Arriving
<1>6. TextsTaken'
  BY <1>5 DEF Inv, TextsTaken
<1>7. AnnouncedArrives'
  BY <1>3, <1>4 DEF Inv, AnnouncedArrives, Cached, Acct
<1> QED
  BY <1>1, <1>2, <1>6, <1>7, ThreadStep

\* A method settles its answer.
LEMMA AnsweredLocals ==
    ASSUME Inv, NEW t \in Threads, NEW acct \in Nat, NEW out \in Outcome,
           NEW todo \in Seq(Event), Answers(t, acct, out, todo)
    PROVE  /\ Moves(t)
           /\ th'[t].pc = "emit" /\ th'[t].call = th[t].call
           /\ th'[t].acct = acct /\ th'[t].out = out /\ th'[t].todo = todo
           /\ th'[t].sent = th[t].sent
<1>1. th[t] \in Local /\ th \in [Threads -> Local]
  BY DEF Inv, TypeOK
<1>2. th' = [th EXCEPT ![t] = [th[t] EXCEPT !.pc = "emit", !.acct = acct,
                                            !.out = out, !.todo = todo]]
  BY DEF Answers
<1>3. [th[t] EXCEPT !.pc = "emit", !.acct = acct, !.out = out, !.todo = todo]
        \in Local
  BY <1>1 DEF Local
<1>4. /\ th'[t].pc = "emit" /\ th'[t].call = th[t].call
      /\ th'[t].acct = acct /\ th'[t].out = out /\ th'[t].todo = todo
      /\ th'[t].sent = th[t].sent
  BY <1>1, <1>2 DEF Local
<1> QED
  BY <1>1, <1>2, <1>3, <1>4 DEF Moves

LEMMA Answered ==
    ASSUME Inv, NEW t \in Threads, NEW acct \in Nat, NEW out \in Outcome,
           NEW todo \in Seq(Event), Answers(t, acct, out, todo), Silent(t)
    PROVE  /\ Moves(t)
           /\ th'[t].pc = "emit" /\ th'[t].call = th[t].call
           /\ th'[t].acct = acct /\ th'[t].out = out /\ th'[t].todo = todo
           /\ th'[t].sent \o th'[t].todo = todo
<1>1. <<>> \o todo = todo
  BY ConcatEmptySeq
<1> QED
  BY <1>1, AnsweredLocals, ZenonT(60) DEF Silent

\* The events of a call.
LEMMA EventTypes ==
    /\ <<ErrorEvent>> \in Seq(Event) /\ <<>> \in Seq(Event)
    /\ \A v \in Vlads :
          <<[name |-> "account_created", of |-> v]>> \in Seq(Event)
    /\ \A id \in DOMAIN issued, v \in Vlads :
          DOMAIN issued \subseteq ChallengeIds /\ issued[id].kind \in UpdateKind =>
             commit_events(id, v) \in Seq(Event)
<1>1. ErrorEvent \in Event
  BY DEF ErrorEvent, Event
<1>2. \A v \in Vlads : [name |-> "account_created", of |-> v] \in Event
  BY DEF Event
<1>3. ASSUME NEW id \in DOMAIN issued, NEW v \in Vlads,
             DOMAIN issued \subseteq ChallengeIds, issued[id].kind \in UpdateKind
      PROVE  commit_events(id, v) \in Seq(Event)
  <2> DEFINE head == [name |-> "account_updated", of |-> id]
             path(n) == [name |-> n, of |-> v]
  <2>1. head \in Event /\ path("path_delegated") \in Event
        /\ path("path_revoked") \in Event
    BY <1>3 DEF Event
  <2>2. commit_events(id, v) \in
          {<<head>> \o <<path("path_delegated")>>, <<head>> \o <<path("path_revoked")>>,
           <<head>> \o <<>>}
    BY DEF commit_events
  <2> HIDE DEF head, path
  <2>3. /\ <<head>> \in Seq(Event) /\ <<>> \in Seq(Event)
        /\ <<path("path_delegated")>> \in Seq(Event)
        /\ <<path("path_revoked")>> \in Seq(Event)
    BY <2>1
  <2>4. \A s \in Seq(Event) : <<head>> \o s \in Seq(Event)
    BY <2>3, ConcatProperties
  <2> QED
    BY <2>2, <2>3, <2>4
<1> QED
  BY <1>1, <1>2, <1>3

-----------------------------------------------------------------------------
(***************************************************************************)
(* Steps that change no account.                                           *)
(***************************************************************************)

\* An error answer that leaves everything as it is.
LEMMA ErrorKeepsInv ==
    ASSUME Inv, NEW t \in Threads, NEW acct \in 0..Len(accounts),
           NEW out \in Outcome \ {"Ok", "Null"}, err_json(t, acct, out),
           th[t].pc \in {"start", "operate"}, Silent(t),
           Op(t) \in AccountOps \cup {"remove"} =>
               /\ out = "AccountNotCached" => ~Cached(th[t].call.text.vlad)
               /\ acct # 0 => accounts[acct].vlad = th[t].call.text.vlad,
           UNCHANGED <<instance, accounts, entries, issued, exported, announced>>
    PROVE  Inv'
<1>1. accounts \in Seq(Account) /\ acct \in Nat
  BY DEF Inv, TypeOK
<1>2. /\ Moves(t)
      /\ th'[t].pc = "emit" /\ th'[t].call = th[t].call
      /\ th'[t].acct = acct /\ th'[t].out = out
      /\ th'[t].sent \o th'[t].todo = <<ErrorEvent>>
  BY <1>1, Answered, EventTypes, ZenonT(60) DEF err_json
<1>3. EventsOf(t)' = <<ErrorEvent>>
  BY <1>2 DEF EventsOf, ErrorEvent
<1>4. Settled(t)'
  BY <1>2, <1>3 DEF Settled, Op, Acct, Cached
<1>5. ThreadInv(t)' /\ instance = t
  BY <1>2, <1>4 DEF ThreadInv, Inv
<1> QED
  BY <1>1, <1>2, <1>5, QuietStep DEF Inv, TypeOK

\* The calls that the hosts make.
LEMMA CallsTyped ==
    ASSUME Inv
    PROVE  \A c \in Calls :
              /\ c \in Call
              /\ c.op \in {"commit", "cancel"} => c.id \in DOMAIN issued
<1>1. DOMAIN issued \subseteq ChallengeIds
  BY DEF Inv, TypeOK
<1>2. \A op \in {"export", "read", "remove"}, text \in Text :
         /\ NameCall(op, text) \in Call
         /\ NameCall(op, text).op \notin {"commit", "cancel"}
  BY DEF NameCall, Call, AccountOps, UpdateKind
<1>3. \A text \in Text, k \in UpdateKind :
         /\ [NameCall("prepare", text) EXCEPT !.kind = k] \in Call
         /\ [NameCall("prepare", text) EXCEPT !.kind = k].op
               \notin {"commit", "cancel"}
  BY DEF NameCall, Call, AccountOps
<1>4. \A op \in {"commit", "cancel"}, text \in Text, i \in DOMAIN issued :
         /\ [NameCall(op, text) EXCEPT !.id = i] \in Call
         /\ [NameCall(op, text) EXCEPT !.id = i].id = i
  BY <1>1 DEF NameCall, Call, AccountOps, UpdateKind
<1>5. \A op \in {"create", "import", "clear", "unknown"} :
         /\ NameCall(op, encode_vlad(NoVlad)) \in Call
         /\ NameCall(op, encode_vlad(NoVlad)).op \notin {"commit", "cancel"}
  BY ModuleAssumption DEF NameCall, Call, UpdateKind, Text, encode_vlad
<1> SUFFICES ASSUME NEW c \in Calls
             PROVE  /\ c \in Call
                    /\ c.op \in {"commit", "cancel"} => c.id \in DOMAIN issued
  OBVIOUS
<1>6. CASE \E op \in {"export", "read", "remove"}, text \in Text :
              c = NameCall(op, text)
  BY <1>2, <1>6
<1>7. CASE \E text \in Text, k \in UpdateKind :
              c = [NameCall("prepare", text) EXCEPT !.kind = k]
  BY <1>3, <1>7
<1>8. CASE \E op \in {"commit", "cancel"}, text \in Text, i \in DOMAIN issued :
              c = [NameCall(op, text) EXCEPT !.id = i]
  BY <1>4, <1>8
<1>9. CASE \E op \in {"create", "import", "clear", "unknown"} :
              c = NameCall(op, encode_vlad(NoVlad))
  BY <1>5, <1>9
<1> QED
  BY <1>6, <1>7, <1>8, <1>9 DEF Calls

LEMMA DispatchKeepsInv ==
    ASSUME Inv, NEW t \in Threads, Dispatch(t)
    PROVE  Inv'
<1>1. /\ th \in [Threads -> Local] /\ accounts \in Seq(Account)
      /\ instance = Nobody /\ instance' = t /\ th[t].pc = "idle"
  BY DEF Inv, TypeOK, Dispatch, DispatchLocked
<1>2. PICK c \in Calls :
        th' = [th EXCEPT ![t] = [Idle EXCEPT !.pc = "start", !.call = c]]
  BY DEF Dispatch
<1>3. c \in Call /\ (c.op \in {"commit", "cancel"} => c.id \in DOMAIN issued)
  BY CallsTyped
<1>4. [Idle EXCEPT !.pc = "start", !.call = c] \in Local
  BY <1>3, IdleTyped DEF Local
<1>5. /\ Moves(t) /\ th'[t].pc = "start" /\ th'[t].call = c
      /\ th'[t].acct = 0 /\ th'[t].sent = <<>> /\ th'[t].todo = <<>>
  BY <1>1, <1>2, <1>4 DEF Moves, Idle
<1>6. UNCHANGED <<accounts, entries, issued, exported, announced>>
  BY DEF Dispatch
<1>7. ThreadInv(t)'
  BY <1>1, <1>3, <1>5, <1>6 DEF ThreadInv, Started, Silent, Op
<1> QED
  BY <1>1, <1>5, <1>6, <1>7, QuietStep

LEMMA NoMethodKeepsInv ==
    ASSUME Inv, NEW t \in Threads, NoMethod(t)
    PROVE  Inv'
<1>1. /\ th \in [Threads -> Local] /\ accounts \in Seq(Account)
      /\ instance \in Threads \cup {Nobody}
      /\ th[t].pc = "start" /\ Op(t) = "unknown"
      /\ instance = t /\ Started(t)
      /\ UNCHANGED <<instance, accounts, entries, issued, exported, announced>>
  BY DEF Inv, TypeOK, NoMethod, ThreadInv
<1>2. [th[t] EXCEPT !.pc = "return", !.out = "Null"] \in Local
  BY <1>1 DEF Local, Outcome
<1>3. /\ Moves(t) /\ th'[t].pc = "return" /\ th'[t].call = th[t].call
      /\ th'[t].acct = 0 /\ th'[t].sent = <<>> /\ th'[t].todo = <<>>
      /\ th'[t].out = "Null"
  BY <1>1, <1>2 DEF NoMethod, Moves, Started, Silent, Local
<1>4. <<>> \o <<>> = <<>>
  BY EventTypes, ConcatEmptySeq
<1>5. Settled(t)'
  BY <1>1, <1>3, <1>4 DEF Settled, EventsOf, Op, AccountOps
<1>6. ThreadInv(t)'
  BY <1>1, <1>3, <1>5 DEF ThreadInv
<1> QED
  BY <1>1, <1>3, <1>6, QuietStep

LEMMA EmitKeepsInv ==
    ASSUME Inv, NEW t \in Threads, Emit(t)
    PROVE  Inv' /\ th'[t].pc \in {"emit", "return"} /\ Moves(t)
           /\ th'[t].call = th[t].call /\ th'[t].out = th[t].out
           /\ th'[t].sent \o th'[t].todo = th[t].sent \o th[t].todo
<1>1. /\ th \in [Threads -> Local] /\ accounts \in Seq(Account)
      /\ instance \in Threads \cup {Nobody} /\ th[t].pc = "emit"
      /\ instance = t /\ Settled(t) /\ th[t].acct <= Len(accounts)
      /\ UNCHANGED <<instance, accounts, entries, issued, exported, announced>>
  BY DEF Inv, TypeOK, Emit, ThreadInv
<1>2. PICK sent \in Seq(Event), todo \in Seq(Event), pc \in {"emit", "return"} :
        /\ th' = [th EXCEPT ![t] = [th[t] EXCEPT !.pc = pc, !.sent = sent,
                                                  !.todo = todo]]
        /\ sent \o todo = th[t].sent \o th[t].todo
        /\ pc = "return" => todo = <<>>
  <2> DEFINE s == th[t].sent
             d == th[t].todo
  <2>1. s \in Seq(Event) /\ d \in Seq(Event)
    BY <1>1 DEF Local
  <2>2. CASE d = <<>>
    <3>1. [th[t] EXCEPT !.pc = "return"] =
            [th[t] EXCEPT !.pc = "return", !.sent = s, !.todo = d]
      BY <1>1 DEF Local
    <3> QED
      BY <2>1, <2>2, <3>1 DEF Emit
  <2>3. CASE d # <<>>
    <3>1. /\ Append(s, Head(d)) \in Seq(Event) /\ Tail(d) \in Seq(Event)
          /\ Append(s, Head(d)) \o Tail(d) = s \o d
      <4> HIDE DEF s, d
      <4>1. /\ Head(d) \in Event /\ Tail(d) \in Seq(Event) /\ Head(d) = d[1]
            /\ Len(Tail(d)) = Len(d) - 1 /\ Len(d) \in Nat \ {0}
            /\ \A i \in 1..Len(Tail(d)) : Tail(d)[i] = d[i + 1]
        BY <2>1, <2>3, HeadTailProperties, EmptySeq
      <4>2. /\ Append(s, Head(d)) \in Seq(Event)
            /\ Len(Append(s, Head(d))) = Len(s) + 1 /\ Len(s) \in Nat
            /\ \A i \in 1..Len(s) : Append(s, Head(d))[i] = s[i]
            /\ Append(s, Head(d))[Len(s) + 1] = d[1]
        BY <2>1, <4>1, AppendProperties
      <4>3. /\ s \o d \in Seq(Event) /\ Len(s \o d) = Len(s) + Len(d)
            /\ \A i \in 1..Len(s) + Len(d) : (s \o d)[i] =
                  IF i <= Len(s) THEN s[i] ELSE d[i - Len(s)]
        BY <2>1, ConcatProperties
      <4> DEFINE a == Append(s, Head(d))
                 b == Tail(d)
      <4> HIDE DEF a, b
      <4>4. /\ a \o b \in Seq(Event) /\ Len(a \o b) = Len(a) + Len(b)
            /\ \A i \in 1..Len(a) + Len(b) : (a \o b)[i] =
                  IF i <= Len(a) THEN a[i] ELSE b[i - Len(a)]
        BY <4>1, <4>2, ConcatProperties DEF a, b
      <4>5. ASSUME NEW i \in 1..Len(a \o b)
            PROVE  (a \o b)[i] = (s \o d)[i]
        <5>1. CASE i <= Len(s)
          BY <4>1, <4>2, <4>3, <4>4, <5>1 DEF a, b
        <5>2. CASE i = Len(s) + 1
          BY <4>1, <4>2, <4>3, <4>4, <5>2 DEF a, b
        <5>3. CASE i > Len(s) + 1
          <6>1. /\ i - Len(a) \in 1..Len(b)
                /\ b[i - Len(a)] = d[(i - Len(a)) + 1]
                /\ (i - Len(a)) + 1 = i - Len(s)
            BY <4>1, <4>2, <4>4, <5>3 DEF a, b
          <6> QED
            BY <4>1, <4>2, <4>3, <4>4, <5>3, <6>1 DEF a, b
        <5> QED
          BY <4>1, <4>2, <4>4, <5>1, <5>2, <5>3 DEF a, b
      <4>6. Len(a \o b) = Len(s \o d)
        BY <4>1, <4>2, <4>3, <4>4 DEF a, b
      <4>7. a \o b = s \o d
        BY <4>3, <4>4, <4>5, <4>6, SeqEqual
      <4> QED
        BY <4>1, <4>2, <4>7 DEF a, b
    <3>2. th' = [th EXCEPT ![t] = [th[t] EXCEPT !.pc = "emit",
                   !.sent = Append(s, Head(d)), !.todo = Tail(d)]]
      <4>1. [th[t] EXCEPT !.todo = Tail(d), !.sent = Append(s, Head(d))] =
              [th[t] EXCEPT !.pc = "emit", !.sent = Append(s, Head(d)),
                            !.todo = Tail(d)]
        BY <1>1 DEF Local
      <4> QED
        BY <2>3, <4>1 DEF Emit
    <3> HIDE DEF s, d
    <3> QED
      BY <3>1, <3>2 DEF s, d
  <2> QED
    BY <2>2, <2>3
<1>3. [th[t] EXCEPT !.pc = pc, !.sent = sent, !.todo = todo] \in Local
  BY <1>1 DEF Local
<1>4. /\ Moves(t) /\ th'[t].pc = pc /\ th'[t].call = th[t].call
      /\ th'[t].acct = th[t].acct /\ th'[t].out = th[t].out
      /\ th'[t].sent = sent /\ th'[t].todo = todo
  BY <1>1, <1>2, <1>3 DEF Moves, Local
<1>5. EventsOf(t)' = EventsOf(t)
  BY <1>1, <1>4 DEF EventsOf, Op, Acct, commit_events
<1>6. Settled(t)'
  BY <1>1, <1>2, <1>4, <1>5 DEF Settled, Op, Acct, Cached
<1>7. ThreadInv(t)'
  BY <1>1, <1>4, <1>6 DEF ThreadInv
<1> QED
  BY <1>1, <1>2, <1>4, <1>7, QuietStep

LEMMA ReturnKeepsInv ==
    ASSUME Inv, NEW t \in Threads, Return(t)
    PROVE  Inv'
<1>1. /\ th \in [Threads -> Local] /\ accounts \in Seq(Account)
      /\ th[t].pc = "return" /\ instance' = Nobody /\ th' = [th EXCEPT ![t] = Idle]
      /\ UNCHANGED <<accounts, entries, issued, exported, announced>>
  BY DEF Inv, TypeOK, Return
<1>3. Moves(t) /\ th'[t].pc = "idle" /\ th'[t].acct = 0
  BY <1>1, IdleTyped DEF Moves, Idle
<1>4. ThreadInv(t)'
  BY <1>3 DEF ThreadInv
<1> QED
  BY <1>1, <1>3, <1>4, QuietStep

\* What a thread knows of the account it looked up.
LEMMA LookedUpFacts ==
    ASSUME Inv, NEW t \in Threads, th[t].pc = "operate"
    PROVE  /\ LookedUp(t) /\ instance = t
           /\ th[t].acct \in DOMAIN accounts /\ th[t].acct \in Nat \ {0}
           /\ Acct(t) \in Account
           /\ Acct(t).vlad = th[t].call.text.vlad
<1>1. LookedUp(t) /\ instance = t
  BY DEF Inv, ThreadInv
<1>2. vlad_hash(th[t].call.text.vlad) \in DOMAIN entries
  BY <1>1 DEF LookedUp, Cached
<1>3. /\ th[t].acct \in DOMAIN accounts
      /\ vlad_hash(th[t].call.text.vlad) = vlad_hash(Acct(t).vlad)
  BY <1>1, <1>2 DEF LookedUp, Inv, TypeOK, Acct
<1>4. accounts \in Seq(Account)
  BY DEF Inv, TypeOK
<1>5. th[t].acct \in Nat \ {0} /\ Acct(t) \in Account
  BY <1>3, <1>4 DEF Acct
<1> QED
  BY <1>1, <1>3, <1>5, HashInjective

LEMMA EntryKeepsInv ==
    ASSUME Inv, NEW t \in Threads, entry(t)
    PROVE  Inv'
<1> DEFINE text == th[t].call.text
           key  == key_from_multibase(text)
<1>1. /\ th \in [Threads -> Local] /\ accounts \in Seq(Account)
      /\ instance \in Threads \cup {Nobody} /\ instance = t
      /\ th[t].pc = "start" /\ Started(t) /\ Op(t) \in AccountOps
      /\ UNCHANGED <<instance, accounts, entries, issued, exported, announced>>
  BY DEF Inv, TypeOK, entry, ThreadInv
<1>2. key = vlad_hash(text.vlad)
  BY DEF key_from_multibase
<1>3. CASE ~decodable(text)
  <2>1. err_json(t, 0, "Encoding")
    BY <1>3 DEF entry
  <2> QED
    BY <1>1, <2>1, ErrorKeepsInv DEF Started, Outcome
<1>4. CASE decodable(text) /\ key \notin DOMAIN entries
  <2>1. err_json(t, 0, "AccountNotCached") /\ ~Cached(text.vlad)
    BY <1>2, <1>4 DEF entry, Cached
  <2> QED
    BY <1>1, <2>1, ErrorKeepsInv DEF Started, Outcome
<1>5. CASE decodable(text) /\ key \in DOMAIN entries
  <2>1. /\ th' = [th EXCEPT ![t] = [th[t] EXCEPT !.pc = "operate",
                                                 !.acct = entries[key]]]
        /\ Cached(text.vlad) /\ entries[key] \in DOMAIN accounts
    BY <1>2, <1>5 DEF entry, Cached, Inv, TypeOK
  <2>2. entries[key] \in Nat /\ entries[key] <= Len(accounts)
    BY <1>1, <2>1
  <2> HIDE DEF text, key
  <2>3. [th[t] EXCEPT !.pc = "operate", !.acct = entries[key]] \in Local
    BY <1>1, <2>2 DEF Local
  <2>4. /\ Moves(t) /\ th'[t].pc = "operate" /\ th'[t].call = th[t].call
        /\ th'[t].acct = entries[key] /\ th'[t].sent = <<>> /\ th'[t].todo = <<>>
    BY <1>1, <2>1, <2>3 DEF Moves, Local, Started, Silent
  <2>5. LookedUp(t)'
    BY <1>1, <1>2, <1>5, <2>1, <2>4
       DEF LookedUp, Silent, Started, Op, Cached, text
  <2>6. ThreadInv(t)'
    BY <1>1, <2>4, <2>5 DEF ThreadInv
  <2> QED
    BY <1>1, <2>2, <2>4, <2>6, QuietStep
<1> QED
  BY <1>3, <1>4, <1>5

LEMMA ReadKeepsInv ==
    ASSUME Inv, NEW t \in Threads, read(t)
    PROVE  Inv'
<1>1. /\ th[t].pc = "operate" /\ Op(t) = "read"
      /\ UNCHANGED <<instance, accounts, entries, issued, exported, announced>>
  BY DEF read, Operating
<1>2. /\ LookedUp(t) /\ instance = t /\ th[t].acct \in DOMAIN accounts
      /\ th[t].acct \in Nat /\ accounts \in Seq(Account)
      /\ Acct(t).vlad = th[t].call.text.vlad
  BY <1>1, LookedUpFacts DEF Inv, TypeOK
<1>3. CASE err_json(t, th[t].acct, "Refused")
  <2>1. th[t].acct \in 0..Len(accounts)
    BY <1>2
  <2> QED
    BY <1>1, <1>2, <1>3, <2>1, ErrorKeepsInv DEF LookedUp, Outcome, Acct
<1>4. CASE Answers(t, th[t].acct, "Ok", <<>>)
  <2>1. /\ Moves(t) /\ th'[t].pc = "emit" /\ th'[t].call = th[t].call
        /\ th'[t].acct = th[t].acct /\ th'[t].out = "Ok"
        /\ th'[t].sent \o th'[t].todo = <<>>
    BY <1>2, <1>4, Answered, EventTypes DEF LookedUp, Outcome
  <2>2. Settled(t)'
    BY <1>1, <1>2, <2>1 DEF Settled, EventsOf, Op, Acct, Cached, LookedUp
  <2>3. ThreadInv(t)'
    BY <1>1, <1>2, <2>1, <2>2 DEF ThreadInv
  <2> QED
    BY <1>1, <1>2, <2>1, <2>3, QuietStep
<1> QED
  BY <1>3, <1>4 DEF read

-----------------------------------------------------------------------------
(***************************************************************************)
(* Steps that change the account that was looked up.                       *)
(***************************************************************************)

LEMMA ContractResults ==
    ASSUME NEW a \in Account, NEW id
    PROVE  /\ \A r \in refuse_results(a) :
                 /\ r.account \in Account /\ r.account.vlad = a.vlad
                 /\ r.account.log = a.log /\ r.account.pending \subseteq a.pending
                 /\ r.out = "Refused"
           /\ id \in ChallengeIds => \A r \in prepare_results(a, id) :
                 /\ r.account \in Account /\ r.account.vlad = a.vlad
                 /\ r.account.log = a.log
                 /\ r.account.pending \subseteq a.pending \cup {id}
                 /\ id \in r.account.pending /\ r.out = "Ok"
           /\ id \in ChallengeIds => \A r \in commit_results(a, id, id) :
                 /\ r.account \in Account /\ r.account.vlad = a.vlad
                 /\ r.account.pending \subseteq a.pending
                 /\ r.out \in {"Ok", "Refused", "ChallengeNotFound"}
                 /\ r.account.log = IF r.out = "Ok" THEN Append(a.log, id) ELSE a.log
                 /\ r.out = "Ok" => id \in a.pending
           /\ \A r \in cancel_results(a, id) :
                 /\ r.account \in Account /\ r.account.vlad = a.vlad
                 /\ r.account.log = a.log /\ r.account.pending \subseteq a.pending
                 /\ r.out \in {"Ok", "ChallengeNotFound"}
<1>1. ASSUME NEW p \in Purged(a)
      PROVE  /\ p \in Account /\ p.vlad = a.vlad /\ p.log = a.log
             /\ p.pending \subseteq a.pending
  BY DEF Purged, Account
<1>2. \A p \in Purged(a) : [p EXCEPT !.pending = p.pending \ {id}] \in Account
  BY <1>1 DEF Account
<1>3. \A r \in refuse_results(a) :
        /\ r.account \in Account /\ r.account.vlad = a.vlad
        /\ r.account.log = a.log /\ r.account.pending \subseteq a.pending
        /\ r.out = "Refused"
  BY <1>1 DEF refuse_results, Result
<1>4. ASSUME id \in ChallengeIds, NEW r \in prepare_results(a, id)
      PROVE  /\ r.account \in Account /\ r.account.vlad = a.vlad
             /\ r.account.log = a.log
             /\ r.account.pending \subseteq a.pending \cup {id}
             /\ id \in r.account.pending /\ r.out = "Ok"
  <2>1. PICK p \in Purged(a) :
          r = Result([p EXCEPT !.pending = p.pending \cup {id}], "Ok")
    BY DEF prepare_results
  <2> QED
    BY <1>1, <1>4, <2>1 DEF Result, Account
<1>5. ASSUME id \in ChallengeIds, NEW r \in commit_results(a, id, id)
      PROVE  /\ r.account \in Account /\ r.account.vlad = a.vlad
             /\ r.account.pending \subseteq a.pending
             /\ r.out \in {"Ok", "Refused", "ChallengeNotFound"}
             /\ r.account.log = IF r.out = "Ok" THEN Append(a.log, id) ELSE a.log
             /\ r.out = "Ok" => id \in a.pending
  <2>1. CASE \E p \in Purged(a) :
               r = Result([p EXCEPT !.pending = p.pending \ {id}],
                      IF id \in p.pending THEN "Refused" ELSE "ChallengeNotFound")
    BY <1>1, <2>1 DEF Result, Account
  <2>2. CASE /\ id \in a.pending
             /\ r = Result([a EXCEPT !.log = Append(a.log, id), !.pending = {}], "Ok")
    <3>1. Append(a.log, id) \in Seq(ChallengeIds)
      BY <1>5, AppendProperties DEF Account
    <3> QED
      BY <2>2, <3>1 DEF Result, Account
  <2> QED
    BY <2>1, <2>2 DEF commit_results
<1>6. ASSUME NEW r \in cancel_results(a, id)
      PROVE  /\ r.account \in Account /\ r.account.vlad = a.vlad
             /\ r.account.log = a.log /\ r.account.pending \subseteq a.pending
             /\ r.out \in {"Ok", "ChallengeNotFound"}
  <2>1. PICK p \in Purged(a) :
          r = Result([p EXCEPT !.pending = p.pending \ {id}],
                     IF id \in p.pending THEN "Ok" ELSE "ChallengeNotFound")
    BY DEF cancel_results
  <2> QED
    BY <1>1, <2>1 DEF Result, Account
<1> QED
  BY <1>3, <1>4, <1>5, <1>6

\* The account that was looked up changes, but not its VLAD.
LEMMA AccountStep ==
    ASSUME Inv, NEW t \in Threads, th[t].pc = "operate",
           Moves(t), th'[t].pc = "emit", th'[t].acct = th[t].acct,
           NEW a \in Account, a.vlad = Acct(t).vlad, SetAccount(t, a),
           UNCHANGED <<instance, entries, announced>>,
           exported' \subseteq
               exported \cup {[vlad |-> Acct(t).vlad, log |-> Acct(t).log]},
           DOMAIN issued \subseteq DOMAIN issued',
           DOMAIN issued' \subseteq ChallengeIds,
           \A id \in DOMAIN issued : issued'[id] = issued[id],
           \A id \in DOMAIN issued' :
               issued'[id] \in [account : DOMAIN accounts, kind : UpdateKind],
           \A id \in a.pending :
               id \in DOMAIN issued' /\ issued'[id].account = th[t].acct,
           Settled(t)'
    PROVE  /\ Inv'
           /\ AsTaken' = AsTaken
           /\ DOMAIN accounts' = DOMAIN accounts
           /\ \A i \in DOMAIN accounts :
                 accounts'[i] = IF i = th[t].acct THEN a ELSE accounts[i]
<1>1. /\ LookedUp(t) /\ instance = t /\ accounts \in Seq(Account)
      /\ th[t].acct \in DOMAIN accounts /\ Acct(t) \in Account
  BY LookedUpFacts DEF Inv, TypeOK
<1>2. /\ accounts' \in Seq(Account) /\ DOMAIN accounts' = DOMAIN accounts
      /\ Len(accounts') = Len(accounts)
      /\ \A i \in DOMAIN accounts :
            accounts'[i] = IF i = th[t].acct THEN a ELSE accounts[i]
  <2>1. accounts' = [accounts EXCEPT ![th[t].acct] = a]
    BY DEF SetAccount
  <2>2. DOMAIN accounts = 1..Len(accounts)
    BY <1>1
  <2> QED
    BY <1>1, <2>1, <2>2, ExceptSeq
<1>3. \A i \in DOMAIN accounts : accounts'[i].vlad = accounts[i].vlad
  BY <1>2 DEF Acct
<1>4. TypeOK'
  <2>1. exported' \subseteq PlogText
    BY <1>1 DEF Inv, TypeOK, PlogText, Account
  <2>2. \A k \in DOMAIN entries' : entries'[k] \in DOMAIN accounts'
            /\ k = vlad_hash(accounts'[entries'[k]].vlad)
    BY <1>2, <1>3 DEF Inv, TypeOK
  <2> QED
    BY <1>2, <2>1, <2>2 DEF Inv, TypeOK, Moves
<1>5. PendingOwned'
  BY <1>2 DEF Inv, PendingOwned
<1>6. \A u \in Threads : th[u].pc # "insert" /\ th'[u].pc # "insert"
  BY OthersIdle DEF Moves
<1>7. AsTaken' = AsTaken
  BY <1>2, <1>3, <1>6 DEF AsTaken, Arriving
<1>8. TextsTaken'
  <2>1. Acct(t).vlad \in AsTaken
    BY <1>1, <1>6 DEF AsTaken, Arriving, Acct
  <2> QED
    BY <1>7, <2>1 DEF Inv, TextsTaken
<1>9. AnnouncedArrives'
  BY <1>6 DEF Inv, AnnouncedArrives, Cached
<1>10. ThreadInv(t)'
  BY <1>1 DEF ThreadInv
<1> QED
  BY <1>2, <1>4, <1>5, <1>7, <1>8, <1>9, <1>10, ThreadStep

\* How a step changes the account that was looked up.
Changes(t, a) ==
    /\ AsTaken' = AsTaken
    /\ DOMAIN accounts' = DOMAIN accounts
    /\ \A i \in DOMAIN accounts :
          accounts'[i] = IF i = th[t].acct THEN a ELSE accounts[i]

LEMMA ExportKeepsInv ==
    ASSUME Inv, NEW t \in Threads, export_plog(t)
    PROVE  Inv' /\ Changes(t, Acct(t))
<1>1. /\ th[t].pc = "operate" /\ Op(t) = "export"
      /\ exported' = exported \cup {[vlad |-> Acct(t).vlad, log |-> Acct(t).log]}
      /\ Answers(t, th[t].acct, "Ok", <<>>)
      /\ UNCHANGED <<instance, accounts, entries, issued, announced>>
  BY DEF export_plog, Operating
<1>2. /\ LookedUp(t) /\ th[t].acct \in DOMAIN accounts /\ th[t].acct \in Nat
      /\ Acct(t) \in Account /\ Acct(t).vlad = th[t].call.text.vlad
  BY <1>1, LookedUpFacts
<1>3. /\ Moves(t) /\ th'[t].pc = "emit" /\ th'[t].call = th[t].call
      /\ th'[t].acct = th[t].acct /\ th'[t].out = "Ok"
      /\ th'[t].sent \o th'[t].todo = <<>>
  <2>1. Silent(t) /\ th[t].acct \in Nat /\ "Ok" \in Outcome
        /\ <<>> \in Seq(Event) /\ Answers(t, th[t].acct, "Ok", <<>>)
    BY <1>1, <1>2, EventTypes DEF LookedUp, Outcome
  <2> QED
    BY <2>1, Answered
<1>4. Settled(t)'
  BY <1>1, <1>2, <1>3 DEF Settled, EventsOf, Op, Acct, Cached, LookedUp
<1>5. SetAccount(t, Acct(t))
  BY <1>1, <1>2 DEF SetAccount, Acct, Inv, TypeOK
<1>6. /\ DOMAIN issued \subseteq ChallengeIds
      /\ \A id \in DOMAIN issued :
            issued[id] \in [account : DOMAIN accounts, kind : UpdateKind]
      /\ \A id \in Acct(t).pending :
            id \in DOMAIN issued /\ issued[id].account = th[t].acct
  BY <1>2 DEF Inv, TypeOK, PendingOwned, Acct
<1> QED
  BY <1>1, <1>2, <1>3, <1>4, <1>5, <1>6, AccountStep DEF Changes

\* A prepare call that is refused.
LEMMA RefuseKeepsInv ==
    ASSUME Inv, NEW t \in Threads, Operating(t, "prepare"),
           NEW r \in refuse_results(Acct(t)), SetAccount(t, r.account),
           err_json(t, th[t].acct, r.out),
           UNCHANGED <<instance, entries, issued, exported, announced>>
    PROVE  Inv' /\ Changes(t, r.account)
<1>1. /\ th[t].pc = "operate" /\ Op(t) = "prepare"
  BY DEF Operating
<1>2. /\ LookedUp(t) /\ th[t].acct \in DOMAIN accounts /\ th[t].acct \in Nat
      /\ Acct(t) \in Account /\ Acct(t).vlad = th[t].call.text.vlad
  BY <1>1, LookedUpFacts
<1>3. /\ r.account \in Account /\ r.account.vlad = Acct(t).vlad
      /\ r.account.pending \subseteq Acct(t).pending /\ r.out = "Refused"
  BY <1>2, ContractResults
<1>4. /\ Moves(t) /\ th'[t].pc = "emit" /\ th'[t].call = th[t].call
      /\ th'[t].acct = th[t].acct /\ th'[t].out = "Refused"
      /\ th'[t].sent \o th'[t].todo = <<ErrorEvent>>
  <2>1. Silent(t) /\ th[t].acct \in Nat /\ "Refused" \in Outcome
        /\ <<ErrorEvent>> \in Seq(Event)
        /\ Answers(t, th[t].acct, "Refused", <<ErrorEvent>>)
    BY <1>2, <1>3, EventTypes DEF LookedUp, Outcome, err_json
  <2> QED
    BY <2>1, Answered
<1>5. Acct(t)' = r.account
  BY <1>2, <1>4 DEF SetAccount, Acct, Inv, TypeOK
<1>6. Settled(t)'
  BY <1>1, <1>2, <1>3, <1>4, <1>5 DEF Settled, EventsOf, Op, Cached, LookedUp
<1>7. /\ DOMAIN issued \subseteq ChallengeIds
      /\ \A id \in DOMAIN issued :
            issued[id] \in [account : DOMAIN accounts, kind : UpdateKind]
      /\ \A id \in r.account.pending :
            id \in DOMAIN issued /\ issued[id].account = th[t].acct
  BY <1>2, <1>3 DEF Inv, TypeOK, PendingOwned, Acct
<1> QED
  BY <1>1, <1>2, <1>3, <1>4, <1>6, <1>7, AccountStep DEF Changes

\* A prepare call that hands out a challenge.
LEMMA IssueKeepsInv ==
    ASSUME Inv, NEW t \in Threads, Operating(t, "prepare"),
           NEW id \in ChallengeIds \ DOMAIN issued,
           NEW r \in prepare_results(Acct(t), id), SetAccount(t, r.account),
           issued' = [i \in DOMAIN issued \cup {id} |->
                        IF i = id
                        THEN [account |-> th[t].acct, kind |-> th[t].call.kind]
                        ELSE issued[i]],
           th' = [th EXCEPT ![t] = [th[t] EXCEPT !.pc = "emit", !.out = "Ok",
                                                 !.call.id = id]],
           UNCHANGED <<instance, entries, exported, announced>>
    PROVE  /\ Inv' /\ Changes(t, r.account) /\ Moves(t)
           /\ th'[t].pc = "emit" /\ th'[t].out = "Ok"
           /\ th'[t].call = [th[t].call EXCEPT !.id = id]
           /\ th'[t].sent \o th'[t].todo = <<>>
<1>1. /\ th[t].pc = "operate" /\ Op(t) = "prepare"
  BY DEF Operating
<1>2. /\ LookedUp(t) /\ th[t].acct \in DOMAIN accounts /\ th[t].acct \in Nat
      /\ Acct(t) \in Account /\ Acct(t).vlad = th[t].call.text.vlad
      /\ th \in [Threads -> Local]
  BY <1>1, LookedUpFacts DEF Inv, TypeOK
<1>3. /\ r.account \in Account /\ r.account.vlad = Acct(t).vlad
      /\ r.account.pending \subseteq Acct(t).pending \cup {id}
      /\ id \in r.account.pending
  BY <1>2, ContractResults
<1>4. /\ Moves(t) /\ th'[t].pc = "emit"
      /\ th'[t].call = [th[t].call EXCEPT !.id = id]
      /\ th'[t].acct = th[t].acct /\ th'[t].out = "Ok"
      /\ th'[t].sent = <<>> /\ th'[t].todo = <<>>
  <2>1. th[t].call \in Call /\ [th[t].call EXCEPT !.id = id] \in Call
    BY <1>2, ZenonT(60) DEF Local, Call
  <2>2. [th[t] EXCEPT !.pc = "emit", !.out = "Ok", !.call.id = id] =
          [th[t] EXCEPT !.pc = "emit", !.out = "Ok",
                        !.call = [th[t].call EXCEPT !.id = id]]
    BY <1>2 DEF Local
  <2>3. [th[t] EXCEPT !.pc = "emit", !.out = "Ok",
                      !.call = [th[t].call EXCEPT !.id = id]] \in Local
    BY <1>2, <2>1 DEF Local, Outcome
  <2> QED
    BY <1>2, <2>2, <2>3 DEF Moves, Local, LookedUp, Silent
<1>5. /\ th'[t].call.op = "prepare" /\ th'[t].call.text = th[t].call.text
      /\ th'[t].call.id = id
  BY <1>1, <1>2, <1>4 DEF Op, Local, Call
<1>6. Acct(t)' = r.account
  BY <1>2, <1>4 DEF SetAccount, Acct, Inv, TypeOK
<1>7. <<>> \o <<>> = <<>>
  BY EventTypes, ConcatEmptySeq
<1>8. Settled(t)'
  BY <1>2, <1>3, <1>4, <1>5, <1>6, <1>7, ZenonT(60)
  DEF Settled, EventsOf, Op, Cached, LookedUp
<1>9. th[t].call.kind \in UpdateKind
  BY <1>2 DEF Local, Call
<1>10. /\ DOMAIN issued' = DOMAIN issued \cup {id} /\ DOMAIN issued' \subseteq ChallengeIds
       /\ \A i \in DOMAIN issued : issued'[i] = issued[i]
       /\ issued'[id] = [account |-> th[t].acct, kind |-> th[t].call.kind]
  BY DEF Inv, TypeOK
<1>11. \A i \in DOMAIN issued' :
          issued'[i] \in [account : DOMAIN accounts, kind : UpdateKind]
  BY <1>2, <1>9, <1>10 DEF Inv, TypeOK
<1>12. \A i \in r.account.pending :
          i \in DOMAIN issued' /\ issued'[i].account = th[t].acct
  BY <1>2, <1>3, <1>10 DEF Inv, PendingOwned, Acct
<1>13. Inv' /\ Changes(t, r.account)
  BY <1>1, <1>2, <1>3, <1>4, <1>8, <1>10, <1>11, <1>12, AccountStep,
     ZenonT(60) DEF Changes
<1> QED
  BY <1>4, <1>7, <1>13

LEMMA CommitKeepsInv ==
    ASSUME Inv, NEW t \in Threads, commit_update(t)
    PROVE  /\ Inv' /\ LookedUp(t) /\ Moves(t)
           /\ \E r \in commit_results(Acct(t), th[t].call.id, th[t].call.id) :
                 /\ Changes(t, r.account)
                 /\ th'[t].pc = "emit" /\ th'[t].call = th[t].call
                 /\ th'[t].out = r.out
                 /\ th'[t].sent \o th'[t].todo =
                       IF r.out = "Ok"
                       THEN commit_events(th[t].call.id, Acct(t).vlad)
                       ELSE <<ErrorEvent>>
<1> DEFINE id == th[t].call.id
<1>1. /\ th[t].pc = "operate" /\ Op(t) = "commit"
      /\ UNCHANGED <<instance, entries, issued, exported, announced>>
  BY DEF commit_update, Operating
<1>2. /\ LookedUp(t) /\ th[t].acct \in DOMAIN accounts /\ th[t].acct \in Nat \ {0}
      /\ Acct(t) \in Account /\ Acct(t).vlad = th[t].call.text.vlad
  BY <1>1, LookedUpFacts
<1>3. PICK r \in commit_results(Acct(t), id, id) :
        /\ SetAccount(t, r.account)
        /\ IF r.out = "Ok"
           THEN Answers(t, th[t].acct, "Ok", commit_events(id, Acct(t).vlad))
           ELSE err_json(t, th[t].acct, r.out)
  BY DEF commit_update
<1>4. /\ id \in DOMAIN issued /\ DOMAIN issued \subseteq ChallengeIds
      /\ \A i \in DOMAIN issued :
            issued[i] \in [account : DOMAIN accounts, kind : UpdateKind]
      /\ issued[id].kind \in UpdateKind /\ Acct(t).vlad \in Vlads
      /\ Acct(t).log \in Seq(ChallengeIds)
  BY <1>1, <1>2 DEF LookedUp, Inv, TypeOK, Account
<1> HIDE DEF id
<1>5. /\ r.account \in Account /\ r.account.vlad = Acct(t).vlad
      /\ r.account.pending \subseteq Acct(t).pending
      /\ r.out \in {"Ok", "Refused", "ChallengeNotFound"}
      /\ r.account.log = IF r.out = "Ok" THEN Append(Acct(t).log, id) ELSE Acct(t).log
  BY <1>2, <1>4, ContractResults
<1>6. /\ Moves(t) /\ th'[t].pc = "emit" /\ th'[t].call = th[t].call
      /\ th'[t].acct = th[t].acct /\ th'[t].out = r.out
      /\ th'[t].sent \o th'[t].todo =
            IF r.out = "Ok" THEN commit_events(id, Acct(t).vlad) ELSE <<ErrorEvent>>
  <2>1. /\ commit_events(id, Acct(t).vlad) \in Seq(Event)
        /\ <<ErrorEvent>> \in Seq(Event)
    BY <1>4, EventTypes
  <2>2. r.out \in Outcome /\ "Ok" \in Outcome /\ Silent(t)
    BY <1>2, <1>5 DEF Outcome, LookedUp
  <2>3. CASE r.out = "Ok"
    <3>1. Answers(t, th[t].acct, "Ok", commit_events(id, Acct(t).vlad))
          /\ th[t].acct \in Nat
      BY <1>2, <1>3, <2>3
    <3> QED
      BY <2>1, <2>2, <2>3, <3>1, Answered
  <2>4. CASE r.out # "Ok"
    BY <1>2, <1>3, <2>1, <2>2, <2>4, Answered, ZenonT(60) DEF err_json
  <2> QED
    BY <2>3, <2>4
<1>7. Acct(t)' = r.account
  BY <1>2, <1>3, <1>6 DEF SetAccount, Acct, Inv, TypeOK
<1>8. r.out = "Ok" => r.account.log # <<>> /\ Last(r.account.log) = id
  <2>1. ASSUME r.out = "Ok" PROVE r.account.log # <<>> /\ Last(r.account.log) = id
    <3>1. /\ Append(Acct(t).log, id) # <<>>
          /\ Len(Append(Acct(t).log, id)) = Len(Acct(t).log) + 1
          /\ Append(Acct(t).log, id)[Len(Acct(t).log) + 1] = id
      BY <1>4, AppendProperties
    <3> QED
      BY <1>5, <2>1, <3>1 DEF Last
  <2> QED
    BY <2>1
<1>9. EventsOf(t)' = IF r.out = "Ok" THEN commit_events(id, Acct(t).vlad)
                     ELSE <<ErrorEvent>>
  BY <1>1, <1>5, <1>6, <1>7 DEF EventsOf, Op, ErrorEvent, commit_events, id
<1>10. Settled(t)'
  <2>1. /\ th'[t].sent \o th'[t].todo = EventsOf(t)' /\ th'[t].pc # "return"
        /\ Op(t)' = "commit" /\ th'[t].call.id = id
    BY <1>1, <1>6, <1>9 DEF Op, id
  <2>2. r.out # "AccountNotCached" /\ Acct(t)'.vlad = th'[t].call.text.vlad
    BY <1>2, <1>5, <1>6, <1>7
  <2>3. Cached(Acct(t).vlad)' /\ entries'[vlad_hash(Acct(t)'.vlad)] = th'[t].acct
    BY <1>1, <1>2, <1>5, <1>6, <1>7 DEF LookedUp, Cached
  <2> QED
    BY <1>1, <1>2, <1>4, <1>6, <1>7, <1>8, <2>1, <2>2, <2>3 DEF Settled
<1>11. \A i \in r.account.pending :
          i \in DOMAIN issued /\ issued[i].account = th[t].acct
  BY <1>2, <1>5 DEF Inv, PendingOwned, Acct
<1>12. Inv' /\ Changes(t, r.account)
  BY <1>1, <1>2, <1>3, <1>4, <1>5, <1>6, <1>10, <1>11, AccountStep DEF Changes
<1> QED
  BY <1>2, <1>3, <1>6, <1>12 DEF id

LEMMA CancelKeepsInv ==
    ASSUME Inv, NEW t \in Threads, cancel_update(t)
    PROVE  /\ Inv' /\ LookedUp(t) /\ Moves(t)
           /\ \E r \in cancel_results(Acct(t), th[t].call.id) :
                 /\ Changes(t, r.account)
                 /\ th'[t].pc = "emit" /\ th'[t].call = th[t].call
                 /\ th'[t].out = r.out
                 /\ th'[t].sent \o th'[t].todo =
                       IF r.out = "Ok" THEN <<>> ELSE <<ErrorEvent>>
<1>1. /\ th[t].pc = "operate" /\ Op(t) = "cancel"
      /\ UNCHANGED <<instance, entries, issued, exported, announced>>
  BY DEF cancel_update, Operating
<1>2. /\ LookedUp(t) /\ th[t].acct \in DOMAIN accounts /\ th[t].acct \in Nat \ {0}
      /\ Acct(t) \in Account /\ Acct(t).vlad = th[t].call.text.vlad
  BY <1>1, LookedUpFacts
<1>3. PICK r \in cancel_results(Acct(t), th[t].call.id) :
        /\ SetAccount(t, r.account)
        /\ IF r.out = "Ok" THEN Answers(t, th[t].acct, "Ok", <<>>)
           ELSE err_json(t, th[t].acct, r.out)
  BY DEF cancel_update
<1>4. /\ r.account \in Account /\ r.account.vlad = Acct(t).vlad
      /\ r.account.pending \subseteq Acct(t).pending
      /\ r.out \in {"Ok", "ChallengeNotFound"}
  BY <1>2, ContractResults
<1>5. /\ Moves(t) /\ th'[t].pc = "emit" /\ th'[t].call = th[t].call
      /\ th'[t].acct = th[t].acct /\ th'[t].out = r.out
      /\ th'[t].sent \o th'[t].todo = IF r.out = "Ok" THEN <<>> ELSE <<ErrorEvent>>
  <2>1. r.out \in Outcome /\ "Ok" \in Outcome /\ Silent(t)
    BY <1>2, <1>4 DEF Outcome, LookedUp
  <2>2. CASE r.out = "Ok"
    <3>1. Answers(t, th[t].acct, "Ok", <<>>) /\ th[t].acct \in Nat
          /\ <<>> \in Seq(Event)
      BY <1>2, <1>3, <2>2, EventTypes
    <3> QED
      BY <2>1, <2>2, <3>1, Answered, ZenonT(60)
  <2>3. CASE r.out # "Ok"
    BY <1>2, <1>3, <2>1, <2>3, Answered, EventTypes, ZenonT(60) DEF err_json
  <2> QED
    BY <2>2, <2>3
<1>6. Acct(t)' = r.account
  BY <1>2, <1>3, <1>5 DEF SetAccount, Acct, Inv, TypeOK
<1>7. Settled(t)'
  BY <1>1, <1>2, <1>4, <1>5, <1>6 DEF Settled, EventsOf, Op, Cached, LookedUp
<1>8. /\ DOMAIN issued \subseteq ChallengeIds
      /\ \A id \in DOMAIN issued :
            issued[id] \in [account : DOMAIN accounts, kind : UpdateKind]
      /\ \A id \in r.account.pending :
            id \in DOMAIN issued /\ issued[id].account = th[t].acct
  BY <1>2, <1>4 DEF Inv, TypeOK, PendingOwned, Acct
<1>9. Inv' /\ Changes(t, r.account)
  BY <1>1, <1>2, <1>3, <1>4, <1>5, <1>7, <1>8, AccountStep DEF Changes
<1> QED
  BY <1>2, <1>3, <1>5, <1>9

-----------------------------------------------------------------------------
(***************************************************************************)
(* Steps that change the cache.                                            *)
(***************************************************************************)

\* An account is made.
LEMMA NewAccountFacts ==
    ASSUME Inv, NEW t \in Threads, th[t].pc = "start",
           NEW a \in Account, NEW events \in Seq(Event),
           NewAccount(t, a, events)
    PROVE  /\ Moves(t) /\ th'[t].pc = "insert" /\ th'[t].call = th[t].call
           /\ th'[t].acct = Len(accounts) + 1 /\ th'[t].todo = <<>>
           /\ th'[t].sent = events
           /\ accounts' \in Seq(Account) /\ Len(accounts) \in Nat
           /\ Len(accounts') = Len(accounts) + 1
           /\ DOMAIN accounts = 1..Len(accounts)
           /\ DOMAIN accounts' = 1..(Len(accounts) + 1)
           /\ \A i \in DOMAIN accounts : accounts'[i] = accounts[i]
           /\ accounts'[Len(accounts) + 1] = a
           /\ AsTaken' = AsTaken
<1>1. /\ th \in [Threads -> Local] /\ accounts \in Seq(Account) /\ Started(t)
  BY DEF Inv, TypeOK, ThreadInv
<1>2. accounts' = Append(accounts, a)
  BY DEF NewAccount
<1>3. /\ accounts' \in Seq(Account) /\ Len(accounts) \in Nat
      /\ Len(accounts') = Len(accounts) + 1
      /\ DOMAIN accounts = 1..Len(accounts)
      /\ DOMAIN accounts' = 1..(Len(accounts) + 1)
      /\ \A i \in DOMAIN accounts : accounts'[i] = accounts[i]
      /\ accounts'[Len(accounts) + 1] = a
  BY <1>1, <1>2, AppendProperties, LenProperties
<1>4. th' = [th EXCEPT ![t] = [th[t] EXCEPT !.pc = "insert",
                                 !.acct = Len(accounts) + 1, !.sent = events]]
  <2>1. th[t].sent \o events = events
    BY <1>1, ConcatEmptySeq DEF Started, Silent
  <2> QED
    BY <2>1 DEF NewAccount
<1>5. [th[t] EXCEPT !.pc = "insert", !.acct = Len(accounts) + 1, !.sent = events]
        \in Local
  <2>1. \A n \in Nat :
          [th[t] EXCEPT !.pc = "insert", !.acct = n, !.sent = events] \in Local
    BY <1>1 DEF Local
  <2>2. Len(accounts) + 1 \in Nat
    BY <1>3
  <2> QED
    BY <2>1, <2>2, Zenon
<1>6. /\ Moves(t) /\ th'[t].pc = "insert" /\ th'[t].call = th[t].call
      /\ th'[t].acct = Len(accounts) + 1 /\ th'[t].todo = <<>>
      /\ th'[t].sent = events
  BY <1>1, <1>4, <1>5 DEF Moves, Local, Started, Silent
<1>7. AsTaken' = AsTaken
  <2>1. PICK n : n = Len(accounts) + 1
    OBVIOUS
  <2>2. \A u \in Threads : th[u].pc # "insert"
    BY OthersIdle
  <2>3. \A u \in Threads : th'[u].pc = "insert" => u = t
    BY <1>6, OthersIdle DEF Moves
  <2>4. \A i \in DOMAIN accounts' : Arriving(i)' <=> i = n
    BY <1>6, <2>1, <2>3 DEF Arriving
  <2>5. \A i \in DOMAIN accounts : ~Arriving(i)
    BY <2>2 DEF Arriving
  <2>6. {i \in DOMAIN accounts' : ~Arriving(i)'} = DOMAIN accounts
    BY <1>3, <2>1, <2>4
  <2>7. {i \in DOMAIN accounts : ~Arriving(i)} = DOMAIN accounts
    BY <2>5
  <2> QED
    BY <1>3, <2>6, <2>7 DEF AsTaken
<1> QED
  BY <1>3, <1>6, <1>7

LEMMA NewAccountStep ==
    ASSUME Inv, NEW t \in Threads, th[t].pc = "start",
           NEW a \in Account, NEW events \in Seq(Event),
           NewAccount(t, a, events),
           UNCHANGED <<instance, entries, issued, exported>>,
           announced' \subseteq announced \cup {a.vlad}, a.pending = {},
           ToInsert(t)'
    PROVE  Inv'
<1>1. /\ Moves(t) /\ th'[t].pc = "insert"
      /\ th'[t].acct = Len(accounts) + 1
      /\ accounts' \in Seq(Account) /\ Len(accounts) \in Nat
      /\ Len(accounts') = Len(accounts) + 1
      /\ DOMAIN accounts = 1..Len(accounts)
      /\ DOMAIN accounts' = 1..(Len(accounts) + 1)
      /\ \A i \in DOMAIN accounts : accounts'[i] = accounts[i]
      /\ accounts'[Len(accounts) + 1] = a
      /\ AsTaken' = AsTaken
  BY NewAccountFacts
<1>2. instance = t
  BY DEF Inv, ThreadInv
<1>3. TypeOK'
  <2>1. /\ instance' \in Threads \cup {Nobody}
        /\ DOMAIN entries' \subseteq {vlad_hash(v) : v \in Vlads}
        /\ DOMAIN issued' \subseteq ChallengeIds /\ exported' \subseteq PlogText
        /\ announced' \subseteq Vlads /\ th' \in [Threads -> Local]
    BY <1>1 DEF Inv, TypeOK, Moves, Account
  <2>2. \A k \in DOMAIN entries' : entries'[k] \in DOMAIN accounts'
            /\ k = vlad_hash(accounts'[entries'[k]].vlad)
    BY <1>1 DEF Inv, TypeOK
  <2>3. \A id \in DOMAIN issued' :
          issued'[id] \in [account : DOMAIN accounts', kind : UpdateKind]
    BY <1>1 DEF Inv, TypeOK
  <2>4. \A u \in Threads : th'[u].acct <= Len(accounts')
    <3>1. ASSUME NEW u \in Threads, u # t PROVE th'[u].acct <= Len(accounts')
      <4>1. th'[u] = th[u] /\ th[u].acct <= Len(accounts) /\ th[u].acct \in Nat
        BY <1>1, <3>1 DEF Moves, Inv, TypeOK, Local
      <4> QED
        BY <1>1, <4>1
    <3> QED
      BY <1>1, <3>1
  <2> QED
    BY <1>1, <2>1, <2>2, <2>3, <2>4 DEF TypeOK
<1>4. PendingOwned'
  BY <1>1 DEF Inv, PendingOwned
<1>5. TextsTaken'
  BY <1>1 DEF Inv, TextsTaken
<1>6. AnnouncedArrives'
  <2>1. ASSUME NEW v \in announced PROVE Cached(v)
    BY <2>1, OthersIdle DEF Inv, AnnouncedArrives
  <2>2. Acct(t)'.vlad = a.vlad
    BY <1>1 DEF Acct
  <2> QED
    BY <1>1, <2>1, <2>2 DEF AnnouncedArrives, Cached
<1>7. ThreadInv(t)'
  BY <1>1, <1>2 DEF ThreadInv
<1> QED
  BY <1>1, <1>3, <1>4, <1>5, <1>6, <1>7, ThreadStep

\* The account of create.
Created(v) == imported([vlad |-> v, log |-> <<>>])

LEMMA CreateKeepsInv ==
    ASSUME Inv, NEW t \in Threads, create_account(t)
    PROVE  Inv'
<1>1. /\ th[t].pc = "start" /\ Op(t) = "create" /\ Started(t) /\ instance = t
      /\ UNCHANGED <<instance, entries, issued, exported>>
  BY DEF create_account, Inv, ThreadInv
<1>2. CASE err_json(t, 0, "Encoding") /\ UNCHANGED <<accounts, announced>>
  <2>1. 0 \in 0..Len(accounts)
    BY DEF Inv, TypeOK
  <2> QED
    BY <1>1, <1>2, <2>1, ErrorKeepsInv DEF Started, Outcome
<1>3. ASSUME NEW v \in FreshVlads, announced' = announced \cup {v},
             NewAccount(t, Created(v), <<[name |-> "account_created", of |-> v]>>)
      PROVE  Inv'
  <2>1. /\ v \in Vlads \ ForeignVlads
        /\ \A i \in DOMAIN accounts : accounts[i].vlad # v
    BY DEF FreshVlads
  <2>2. /\ Created(v) \in Account /\ Created(v).vlad = v
        /\ Created(v).log = <<>> /\ Created(v).pending = {}
    BY <2>1 DEF Created, imported, Account
  <2>3. <<[name |-> "account_created", of |-> v]>> \in Seq(Event)
    BY <2>1, EventTypes
  <2> DEFINE a == Created(v)
             events == <<[name |-> "account_created", of |-> v]>>
  <2> HIDE DEF a, events
  <2>4. /\ th'[t].pc = "insert" /\ th'[t].call = th[t].call
        /\ th'[t].acct = Len(accounts) + 1 /\ th'[t].todo = <<>>
        /\ th'[t].sent = events
        /\ DOMAIN accounts = 1..Len(accounts) /\ Len(accounts) \in Nat
        /\ DOMAIN accounts' = 1..(Len(accounts) + 1)
        /\ \A i \in DOMAIN accounts : accounts'[i] = accounts[i]
        /\ accounts'[Len(accounts) + 1] = a
    BY <1>1, <1>3, <2>2, <2>3, NewAccountFacts, ZenonT(60) DEF a, events
  <2>5. Acct(t)' = a
    BY <2>4 DEF Acct
  <2>6. ToInsert(t)'
    BY <1>1, <2>1, <2>2, <2>4, <2>5 DEF ToInsert, Op, a, events
  <2> QED
    BY <1>1, <1>3, <2>2, <2>3, <2>6, NewAccountStep
<1> QED
  BY <1>2, <1>3 DEF create_account, Created

LEMMA ImportKeepsInv ==
    ASSUME Inv, NEW t \in Threads, import_plog(t)
    PROVE  Inv'
<1>1. /\ th[t].pc = "start" /\ Op(t) = "import" /\ Started(t) /\ instance = t
      /\ UNCHANGED <<instance, entries, issued, exported, announced>>
  BY DEF import_plog, Inv, ThreadInv
<1>2. CASE err_json(t, 0, "Encoding") /\ UNCHANGED accounts
  <2>1. 0 \in 0..Len(accounts)
    BY DEF Inv, TypeOK
  <2> QED
    BY <1>1, <1>2, <2>1, ErrorKeepsInv DEF Started, Outcome, AccountOps
<1>3. ASSUME NEW p \in exported, NewAccount(t, imported(p), <<>>)
      PROVE  Inv'
  <2> DEFINE a == imported(p)
             events == <<>>
  <2>1. p \in PlogText
    BY DEF Inv, TypeOK
  <2>2. /\ a \in Account /\ a.pending = {} /\ [vlad |-> a.vlad, log |-> a.log] = p
    BY <2>1 DEF imported, Account, PlogText
  <2>3. events \in Seq(Event) /\ NewAccount(t, a, events)
    BY <1>3
  <2> HIDE DEF a, events
  <2>4. /\ th'[t].pc = "insert" /\ th'[t].call = th[t].call
        /\ th'[t].acct = Len(accounts) + 1 /\ th'[t].todo = <<>>
        /\ th'[t].sent = events /\ Len(accounts) \in Nat
        /\ DOMAIN accounts' = 1..(Len(accounts) + 1)
        /\ accounts'[Len(accounts) + 1] = a
    BY <1>1, <2>2, <2>3, NewAccountFacts
  <2>5. Acct(t)' = a
    BY <2>4 DEF Acct
  <2>6. ToInsert(t)'
    BY <1>1, <1>3, <2>2, <2>4, <2>5 DEF ToInsert, Op, events
  <2> QED
    BY <1>1, <2>2, <2>3, <2>6, NewAccountStep
<1> QED
  BY <1>2, <1>3 DEF import_plog

\* The account that was made is filed under the hash of its VLAD.
LEMMA InsertKeepsInv ==
    ASSUME Inv, NEW t \in Threads, insert(t)
    PROVE  /\ Inv' /\ ToInsert(t) /\ Moves(t)
           /\ th'[t].pc = "emit" /\ th'[t].call = th[t].call
           /\ th'[t].out = "Ok"
           /\ th'[t].sent \o th'[t].todo = th[t].sent
           /\ AsTaken' = AsTaken \cup {Acct(t).vlad}
<1> DEFINE v   == Acct(t).vlad
           key == vlad_hash(v)
<1>1. /\ th[t].pc = "insert" /\ ToInsert(t) /\ instance = t
      /\ th \in [Threads -> Local] /\ accounts \in Seq(Account)
      /\ th[t].acct \in DOMAIN accounts
      /\ UNCHANGED <<instance, accounts, issued, exported, announced>>
  BY DEF insert, Inv, TypeOK, ThreadInv, ToInsert
<1>2. /\ th[t].acct \in Nat \ {0} /\ Acct(t) \in Account /\ v \in Vlads
      /\ th[t].sent \in Seq(Event)
  <2>1. th[t].acct \in Nat \ {0} /\ Acct(t) \in Account
    BY <1>1 DEF Acct
  <2>2. th[t].sent \in Seq(Event)
    BY <1>1 DEF Local
  <2> QED
    BY <2>1, <2>2 DEF Account
<1>3. /\ DOMAIN entries' = DOMAIN entries \cup {key}
      /\ entries'[key] = th[t].acct
      /\ \A k \in DOMAIN entries : k # key => entries'[k] = entries[k]
  BY DEF insert, SummaryKey, key_from_multibase, encode_vlad
<1>4. Answers(t, th[t].acct, "Ok", <<>>)
  BY DEF insert
<1> HIDE DEF key
<1>5. /\ Moves(t) /\ th'[t].pc = "emit" /\ th'[t].call = th[t].call
      /\ th'[t].acct = th[t].acct /\ th'[t].out = "Ok" /\ th'[t].todo = <<>>
      /\ th'[t].sent = th[t].sent
  <2>1. th[t].acct \in Nat /\ "Ok" \in Outcome /\ <<>> \in Seq(Event)
    BY <1>2, EventTypes DEF Outcome
  <2> QED
    BY <1>4, <2>1, AnsweredLocals, ZenonT(60)
<1>6. th'[t].sent \o th'[t].todo = th[t].sent
  BY <1>2, <1>5, ConcatEmptySeq
<1>7. Acct(t)' = Acct(t)
  BY <1>1, <1>5 DEF Acct
<1>8. \A w : Cached(w)' <=> Cached(w) \/ w = v
  BY <1>3, HashInjective DEF Cached, key
<1>9. TypeOK'
  <2>1. \A k \in DOMAIN entries' : entries'[k] \in DOMAIN accounts'
            /\ k = vlad_hash(accounts'[entries'[k]].vlad)
    BY <1>1, <1>3 DEF Inv, TypeOK, Acct, key
  <2>2. DOMAIN entries' \subseteq {vlad_hash(w) : w \in Vlads}
    BY <1>2, <1>3 DEF Inv, TypeOK, key
  <2>3. \A u \in Threads : th'[u].acct <= Len(accounts')
    BY <1>1, <1>5 DEF Inv, TypeOK, Moves
  <2> QED
    BY <1>1, <1>5, <2>1, <2>2, <2>3 DEF Inv, TypeOK, Moves
<1>10. PendingOwned'
  BY <1>1 DEF Inv, PendingOwned
<1>11. AsTaken' = AsTaken \cup {v}
  <2>1. \A u \in Threads : th'[u].pc # "insert"
    BY <1>1, <1>5, OthersIdle DEF Moves
  <2>2. \A i \in DOMAIN accounts : Arriving(i) <=> i = th[t].acct
    BY <1>1, OthersIdle DEF Arriving
  <2>3. \A i \in DOMAIN accounts : ~Arriving(i)'
    BY <2>1 DEF Arriving
  <2> QED
    BY <1>1, <2>2, <2>3 DEF AsTaken, Acct
<1>12. TextsTaken'
  BY <1>1, <1>11 DEF Inv, TextsTaken
<1>13. AnnouncedArrives'
  <2>1. \A w \in announced : Cached(w) \/ w = v
    BY <1>1, OthersIdle DEF Inv, AnnouncedArrives
  <2> QED
    BY <1>1, <1>8, <2>1 DEF AnnouncedArrives
<1>14. Settled(t)'
  <2>1. EventsOf(t)' = th[t].sent
    BY <1>1, <1>5, <1>7 DEF EventsOf, ToInsert, Op
  <2>2. Op(t)' \in {"create", "import"}
    BY <1>1, <1>5 DEF ToInsert, Op
  <2>3. Cached(Acct(t).vlad)' /\ entries'[vlad_hash(Acct(t)'.vlad)] = th'[t].acct
    BY <1>3, <1>5, <1>7, <1>8 DEF key, Cached
  <2> QED
    BY <1>2, <1>5, <1>6, <2>1, <2>2, <2>3 DEF Settled, AccountOps
<1>15. ThreadInv(t)'
  BY <1>1, <1>5, <1>14 DEF ThreadInv
<1>16. Inv'
  BY <1>1, <1>5, <1>9, <1>10, <1>12, <1>13, <1>15, ThreadStep
<1> QED
  BY <1>1, <1>5, <1>6, <1>11, <1>16

\* A method that names no account and has no events answers Ok.
LEMMA AnsweredOk ==
    ASSUME Inv, NEW t \in Threads, Silent(t), Answers(t, 0, "Ok", <<>>)
    PROVE  /\ Moves(t) /\ th'[t].pc = "emit" /\ th'[t].call = th[t].call
           /\ th'[t].acct = 0 /\ th'[t].out = "Ok"
           /\ th'[t].sent \o th'[t].todo = <<>>
<1>1. 0 \in Nat /\ "Ok" \in Outcome
  BY DEF Outcome
<1>2. <<>> \in Seq(Event)
  BY EventTypes
<1> DEFINE none == <<>>
<1>3. Answers(t, 0, "Ok", none) /\ none \in Seq(Event)
  BY <1>2
<1> HIDE DEF none
<1>4. /\ Moves(t) /\ th'[t].pc = "emit" /\ th'[t].call = th[t].call
      /\ th'[t].acct = 0 /\ th'[t].out = "Ok"
      /\ th'[t].sent \o th'[t].todo = none
  BY <1>1, <1>3, Answered
<1> QED
  BY <1>4 DEF none

\* A step that takes accounts out of the cache and ends the method.
LEMMA UncacheStep ==
    ASSUME Inv, NEW t \in Threads, th[t].pc = "start",
           Answers(t, 0, "Ok", <<>>), Op(t) \in {"remove", "clear"},
           DOMAIN entries' \subseteq DOMAIN entries,
           \A k \in DOMAIN entries' : entries'[k] = entries[k],
           announced' \subseteq announced,
           \A v \in announced' :
               vlad_hash(v) \in DOMAIN entries => vlad_hash(v) \in DOMAIN entries',
           Op(t) = "remove" =>
               vlad_hash(th[t].call.text.vlad) \notin DOMAIN entries',
           UNCHANGED <<instance, accounts, issued, exported>>
    PROVE  /\ Inv' /\ AsTaken' = AsTaken /\ Moves(t)
           /\ th'[t].pc = "emit" /\ th'[t].call = th[t].call
           /\ th'[t].out = "Ok" /\ th'[t].sent \o th'[t].todo = <<>>
<1>1. /\ Started(t) /\ instance = t /\ accounts \in Seq(Account)
  BY DEF Inv, TypeOK, ThreadInv
<1>2. /\ Moves(t) /\ th'[t].pc = "emit" /\ th'[t].call = th[t].call
      /\ th'[t].acct = 0 /\ th'[t].out = "Ok"
      /\ th'[t].sent \o th'[t].todo = <<>>
  BY <1>1, AnsweredOk DEF Started
<1>3. TypeOK'
  BY <1>1, <1>2 DEF Inv, TypeOK, Moves
<1>4. PendingOwned'
  BY DEF Inv, PendingOwned
<1>5. \A u \in Threads : th[u].pc # "insert" /\ th'[u].pc # "insert"
  BY <1>2, OthersIdle DEF Moves
<1>6. AsTaken' = AsTaken
  BY <1>5 DEF AsTaken, Arriving
<1>7. TextsTaken'
  BY <1>6 DEF Inv, TextsTaken
<1>8. AnnouncedArrives'
  BY <1>5 DEF Inv, AnnouncedArrives, Cached, vlad_hash, encode_vlad
<1>9. Settled(t)'
  <2>1. EventsOf(t)' = <<>>
    BY <1>2 DEF EventsOf, Op
  <2>2. Op(t)' = "remove" => ~Cached(th[t].call.text.vlad)'
    BY <1>2 DEF Op, Cached, vlad_hash, encode_vlad
  <2> QED
    BY <1>2, <2>1, <2>2 DEF Settled, Op, AccountOps
<1>10. ThreadInv(t)'
  BY <1>1, <1>2, <1>9 DEF ThreadInv
<1>11. Inv'
  BY <1>2, <1>3, <1>4, <1>7, <1>8, <1>10, ThreadStep
<1> QED
  BY <1>2, <1>6, <1>11

LEMMA RemoveKeepsInv ==
    ASSUME Inv, NEW t \in Threads, remove_plog(t)
    PROVE  Inv'
<1> DEFINE text == th[t].call.text
           key  == key_from_multibase(text)
<1>1. /\ th[t].pc = "start" /\ Op(t) = "remove" /\ Started(t)
      /\ UNCHANGED <<instance, accounts, issued, exported>>
      /\ key = vlad_hash(text.vlad) /\ 0 \in 0..Len(accounts)
  BY DEF remove_plog, Inv, TypeOK, ThreadInv, key_from_multibase
<1>2. CASE ~decodable(text)
  <2>1. err_json(t, 0, "Encoding") /\ UNCHANGED <<entries, announced>>
    BY <1>2 DEF remove_plog
  <2> QED
    BY <1>1, <2>1, ErrorKeepsInv DEF Started, Outcome
<1>3. CASE decodable(text) /\ key \notin DOMAIN entries
  <2>1. /\ err_json(t, 0, "AccountNotCached") /\ UNCHANGED <<entries, announced>>
        /\ ~Cached(text.vlad)
    BY <1>1, <1>3 DEF remove_plog, Cached
  <2> QED
    BY <1>1, <2>1, ErrorKeepsInv DEF Started, Outcome
<1>4. CASE decodable(text) /\ key \in DOMAIN entries
  <2>1. /\ entries' = [k \in DOMAIN entries \ {key} |-> entries[k]]
        /\ announced' = announced \ {text.vlad} /\ Answers(t, 0, "Ok", <<>>)
    BY <1>4 DEF remove_plog
  <2>2. DOMAIN entries' = DOMAIN entries \ {key}
    BY <2>1
  <2>3. \A v \in announced' : vlad_hash(v) # key
    BY <1>1, <2>1, HashInjective
  <2> HIDE DEF key
  <2> QED
    BY <1>1, <2>1, <2>2, <2>3, UncacheStep
<1> QED
  BY <1>2, <1>3, <1>4

LEMMA ClearKeepsInv ==
    ASSUME Inv, NEW t \in Threads, clear_cache(t)
    PROVE  Inv'
<1>1. /\ th[t].pc = "start" /\ Op(t) = "clear" /\ DOMAIN entries' = {}
      /\ announced' = {} /\ Answers(t, 0, "Ok", <<>>)
      /\ UNCHANGED <<instance, accounts, issued, exported>>
  BY DEF clear_cache
<1> QED
  BY <1>1, UncacheStep

-----------------------------------------------------------------------------
(***************************************************************************)
(* The properties.                                                         *)
(***************************************************************************)

LEMMA PrepareKeepsInv ==
    ASSUME Inv, NEW t \in Threads, prepare(t)
    PROVE  Inv'
<1>1. Operating(t, "prepare") /\ UNCHANGED <<instance, entries, exported, announced>>
  BY DEF prepare
<1>2. CASE \E r \in refuse_results(Acct(t)) :
             /\ SetAccount(t, r.account)
             /\ err_json(t, th[t].acct, r.out)
             /\ UNCHANGED issued
  BY <1>1, <1>2, RefuseKeepsInv
<1>3. CASE \E id \in ChallengeIds \ DOMAIN issued :
           \E r \in prepare_results(Acct(t), id) :
             /\ SetAccount(t, r.account)
             /\ issued' = [i \in DOMAIN issued \cup {id} |->
                             IF i = id
                             THEN [account |-> th[t].acct, kind |-> th[t].call.kind]
                             ELSE issued[i]]
             /\ th' = [th EXCEPT ![t] = [th[t] EXCEPT !.pc = "emit", !.out = "Ok",
                                                      !.call.id = id]]
  BY <1>1, <1>3, IssueKeepsInv
<1> QED
  BY <1>2, <1>3 DEF prepare

\* Every step keeps the invariant.
LEMMA StepKeepsInv == Inv /\ [Next]_vars => Inv'
<1> SUFFICES ASSUME Inv, [Next]_vars PROVE Inv'
  OBVIOUS
<1>1. CASE UNCHANGED vars
  <2>1. (\A t \in Threads : ThreadInv(t))'
    <3> SUFFICES ASSUME NEW t \in Threads PROVE ThreadInv(t)'
      OBVIOUS
    <3>1. ThreadInv(t)
      BY DEF Inv
    <3>2. EventsOf(t)' = EventsOf(t)
      BY <1>1 DEF vars, EventsOf, Op, Acct, commit_events
    <3>3. Settled(t) => Settled(t)'
      BY <1>1, <3>2 DEF vars, Settled, Op, Acct, Cached, vlad_hash, encode_vlad
    <3>4. ToInsert(t) => ToInsert(t)'
      BY <1>1 DEF vars, ToInsert, Op, Acct
    <3>5. LookedUp(t) => LookedUp(t)'
      BY <1>1 DEF vars, LookedUp, Silent, Op, Cached, decodable, vlad_hash, encode_vlad
    <3>6. Started(t) => Started(t)'
      BY <1>1 DEF vars, Started, Silent, Op
    <3> QED
      BY <1>1, <3>1, <3>3, <3>4, <3>5, <3>6 DEF vars, ThreadInv
  <2>2. TypeOK' /\ PendingOwned'
    BY <1>1 DEF vars, Inv, TypeOK, PendingOwned, vlad_hash, encode_vlad
  <2>3. TextsTaken' /\ AnnouncedArrives'
    BY <1>1 DEF vars, Inv, TextsTaken, AnnouncedArrives, AsTaken, Arriving, Acct,
       Cached, vlad_hash, encode_vlad
  <2> QED
    BY <2>1, <2>2, <2>3 DEF Inv
<1>2. ASSUME NEW t \in Threads, create_account(t) \/ import_plog(t) \/ insert(t)
      PROVE  Inv'
  BY <1>2, CreateKeepsInv, ImportKeepsInv, InsertKeepsInv
<1>3. ASSUME NEW t \in Threads, remove_plog(t) \/ clear_cache(t) \/ entry(t)
      PROVE  Inv'
  BY <1>3, RemoveKeepsInv, ClearKeepsInv, EntryKeepsInv
<1>4. ASSUME NEW t \in Threads, export_plog(t) \/ read(t) \/ prepare(t)
      PROVE  Inv'
  BY <1>4, ExportKeepsInv, ReadKeepsInv, PrepareKeepsInv
<1>5. ASSUME NEW t \in Threads, commit_update(t) \/ cancel_update(t)
      PROVE  Inv'
  BY <1>5, CommitKeepsInv, CancelKeepsInv
<1>6. ASSUME NEW t \in Threads, Dispatch(t) \/ NoMethod(t) \/ Emit(t) \/ Return(t)
      PROVE  Inv'
  BY <1>6, DispatchKeepsInv, NoMethodKeepsInv, EmitKeepsInv, ReturnKeepsInv
<1> QED
  BY <1>1, <1>2, <1>3, <1>4, <1>5, <1>6 DEF Next

LEMMA InvHolds == Spec => []Inv
BY InitInv, StepKeepsInv, PTL DEF Spec

\* Type correctness; every account is filed under the hash of its own VLAD.
THEOREM ModuleTypeCorrect == Spec => []TypeOK
BY InvHolds, PTL DEF Inv

\* What an Ok answer says holds of the cached account.
THEOREM OkAnswersHold == Spec => []OkIsInCache
<1>1. Inv => OkIsInCache
  BY DEF Inv, ThreadInv, Settled, OkIsInCache, Op
<1> QED
  BY <1>1, InvHolds, PTL

\* Every spelling of a VLAD finds the same account, and no other.
THEOREM SpellingsAgree == Spec => []AnySpellingFindsAccount
<1>1. Inv => AnySpellingFindsAccount
  BY DEF Inv, ThreadInv, Settled, AnySpellingFindsAccount
<1> QED
  BY <1>1, InvHolds, PTL

\* Between two calls, every announced account is cached.
THEOREM AnnouncedUsable == Spec => []AnnouncedIsUsable
<1>1. Inv => AnnouncedIsUsable
  BY ModuleAssumption DEF Inv, ThreadInv, AnnouncedArrives, AnnouncedIsUsable
<1> QED
  BY <1>1, InvHolds, PTL

LEMMA Pair == ASSUME NEW a, NEW b PROVE <<a>> \o <<b>> = <<a, b>>
<1> DEFINE S == {a, b}
           s == <<a>> \o <<b>>
           p == <<a, b>>
<1>1. /\ <<a>> \in Seq(S) /\ <<b>> \in Seq(S)
      /\ p \in Seq(S) /\ Len(p) = 2 /\ p[1] = a /\ p[2] = b
  OBVIOUS
<1>2. s \in Seq(S) /\ Len(s) = 2 /\ s[1] = a /\ s[2] = b
  BY <1>1, ConcatProperties
<1> HIDE DEF S, s, p
<1>3. \A i \in 1..Len(s) : s[i] = p[i]
  BY <1>1, <1>2
<1>4. s = p
  BY <1>1, <1>2, <1>3, SeqEqual
<1> QED
  BY <1>4 DEF s, p

LEMMA PairFields ==
    ASSUME NEW a, NEW b, NEW e, e = <<a, b>>
    PROVE  /\ [i \in DOMAIN e |-> e[i].name] = <<a.name, b.name>>
           /\ \A i \in DOMAIN e : e[i].of \in {a.of, b.of}
<1>1. DOMAIN e = 1..2 /\ e[1] = a /\ e[2] = b
  OBVIOUS
<1>2. [i \in 1..2 |-> e[i].name] = <<a.name, b.name>>
  BY <1>1
<1> QED
  BY <1>1, <1>2

\* The names of the events of a commit, and what they are about.
LEMMA CommitEventNames ==
    ASSUME NEW id, NEW v, issued[id].kind \in UpdateKind
    PROVE  /\ [i \in DOMAIN commit_events(id, v) |-> commit_events(id, v)[i].name] =
                 <<"account_updated">> \o PathEvent(issued[id].kind)
           /\ \A i \in DOMAIN commit_events(id, v) :
                 commit_events(id, v)[i].of \in {id, v}
<1> DEFINE head == [name |-> "account_updated", of |-> id]
<1>1. CASE issued[id].kind = "Entry"
  <2>1. commit_events(id, v) = <<head>>
    BY <1>1 DEF commit_events
  <2>2. <<"account_updated">> \o PathEvent(issued[id].kind) = <<"account_updated">>
    BY <1>1 DEF PathEvent
  <2> QED
    BY <2>1, <2>2
<1>2. CASE issued[id].kind = "Delegate"
  <2>1. commit_events(id, v) = <<head>> \o <<[name |-> "path_delegated", of |-> v]>>
    BY <1>2 DEF commit_events
  <2>2. commit_events(id, v) = <<head, [name |-> "path_delegated", of |-> v]>>
    BY <2>1, Pair
  <2>3. PathEvent(issued[id].kind) = <<"path_delegated">>
    BY <1>2 DEF PathEvent
  <2>4. <<"account_updated">> \o PathEvent(issued[id].kind) =
          <<"account_updated", "path_delegated">>
    BY <2>3, Pair
  <2>5. /\ [i \in DOMAIN commit_events(id, v) |-> commit_events(id, v)[i].name] =
              <<head.name, "path_delegated">>
        /\ \A i \in DOMAIN commit_events(id, v) :
              commit_events(id, v)[i].of \in {head.of, v}
    BY <2>2, PairFields
  <2> QED
    BY <2>2, <2>4, <2>5
<1>3. CASE issued[id].kind = "Revoke"
  <2>1. commit_events(id, v) = <<head>> \o <<[name |-> "path_revoked", of |-> v]>>
    BY <1>3 DEF commit_events
  <2>2. commit_events(id, v) = <<head, [name |-> "path_revoked", of |-> v]>>
    BY <2>1, Pair
  <2>3. PathEvent(issued[id].kind) = <<"path_revoked">>
    BY <1>3 DEF PathEvent
  <2>4. <<"account_updated">> \o PathEvent(issued[id].kind) =
          <<"account_updated", "path_revoked">>
    BY <2>3, Pair
  <2>5. /\ [i \in DOMAIN commit_events(id, v) |-> commit_events(id, v)[i].name] =
              <<head.name, "path_revoked">>
        /\ \A i \in DOMAIN commit_events(id, v) :
              commit_events(id, v)[i].of \in {head.of, v}
    BY <2>2, PairFields
  <2> QED
    BY <2>2, <2>4, <2>5
<1> QED
  BY <1>1, <1>2, <1>3 DEF UpdateKind

\* What the events of a call should be named, and whose they should be.
NamesOf(t) ==
    IF th[t].out = "Null" THEN <<>>
    ELSE IF th[t].out # "Ok" THEN <<"error">>
    ELSE IF Op(t) = "create" THEN <<"account_created">>
    ELSE IF Op(t) = "commit"
    THEN <<"account_updated">> \o PathEvent(issued[th[t].call.id].kind)
    ELSE <<>>

SentOf(t) ==
    \A i \in DOMAIN th[t].sent :
        th[t].sent[i].of \in {Acct(t).vlad} \cup Range(Acct(t).log)

\* The events of a call tell what it did, and to whose account.
THEOREM EventsTell == Spec => []EventsTellEffects
<1>1. Inv => EventsTellEffects
  <2> SUFFICES ASSUME Inv, NEW t \in Threads, th[t].pc = "return"
               PROVE  /\ SentNames(t) = NamesOf(t)
                      /\ th[t].out = "Ok" => SentOf(t)
    BY DEF EventsTellEffects, NamesOf, SentOf
  <2>1. Settled(t) /\ th[t] \in Local /\ accounts \in Seq(Account)
        /\ th[t].acct <= Len(accounts)
    BY DEF Inv, ThreadInv, TypeOK
  <2>2. th[t].sent = EventsOf(t)
    <3>1. th[t].sent \in Seq(Event) /\ th[t].todo = <<>>
      BY <2>1 DEF Settled, Local
    <3> QED
      BY <2>1, <3>1, ConcatEmptySeq DEF Settled
  <2>3. CASE th[t].out # "Ok"
    <3>1. NamesOf(t) = [i \in DOMAIN EventsOf(t) |-> EventsOf(t)[i].name]
      BY <2>3 DEF NamesOf, EventsOf, ErrorEvent
    <3> QED
      BY <2>2, <2>3, <3>1 DEF SentNames
  <2>4. CASE th[t].out = "Ok" /\ Op(t) = "create"
    <3>1. /\ NamesOf(t) = <<"account_created">>
          /\ th[t].sent = <<[name |-> "account_created", of |-> Acct(t).vlad]>>
      BY <2>2, <2>4 DEF NamesOf, EventsOf
    <3> QED
      BY <3>1 DEF SentNames, SentOf
  <2>5. CASE th[t].out = "Ok" /\ Op(t) = "commit"
    <3> DEFINE id == th[t].call.id
    <3>1. /\ id \in DOMAIN issued /\ th[t].acct # 0
          /\ Acct(t).log # <<>> /\ Last(Acct(t).log) = id
      BY <2>1, <2>5 DEF Settled
    <3>2. issued[id].kind \in UpdateKind
      BY <3>1 DEF Inv, TypeOK
    <3>3. id \in Range(Acct(t).log)
      <4>1. th[t].acct \in 1..Len(accounts)
        BY <2>1, <3>1 DEF Local
      <4>2. Acct(t).log \in Seq(ChallengeIds)
        <5>1. Acct(t) \in Account
          BY <2>1, <4>1 DEF Acct
        <5> QED
          BY <5>1 DEF Account
      <4>3. Len(Acct(t).log) \in DOMAIN Acct(t).log
        BY <3>1, <4>2, EmptySeq
      <4> QED
        BY <3>1, <4>3 DEF Last, Range
    <3>4. th[t].sent = commit_events(id, Acct(t).vlad)
      BY <2>2, <2>5 DEF EventsOf
    <3> HIDE DEF id
    <3>5. /\ SentNames(t) = <<"account_updated">> \o PathEvent(issued[id].kind)
          /\ \A i \in DOMAIN th[t].sent : th[t].sent[i].of \in {id, Acct(t).vlad}
      <4>1. PICK e : e = commit_events(id, Acct(t).vlad)
        OBVIOUS
      <4>2. /\ [i \in DOMAIN e |-> e[i].name] =
                  <<"account_updated">> \o PathEvent(issued[id].kind)
            /\ \A i \in DOMAIN e : e[i].of \in {id, Acct(t).vlad}
        BY <3>2, <4>1, CommitEventNames, SMTT(30)
      <4>3. th[t].sent = e
        BY <3>4, <4>1
      <4>4. SentNames(t) = [i \in DOMAIN e |-> e[i].name]
        BY <4>3 DEF SentNames
      <4> QED
        BY <4>2, <4>3, <4>4
    <3>6. NamesOf(t) = <<"account_updated">> \o PathEvent(issued[id].kind)
      BY <2>5 DEF NamesOf, id
    <3>7. SentOf(t)
      BY <3>3, <3>5 DEF SentOf
    <3> QED
      BY <3>5, <3>6, <3>7
  <2>6. CASE th[t].out = "Ok" /\ Op(t) \notin {"create", "commit"}
    <3>1. NamesOf(t) = <<>> /\ th[t].sent = <<>>
      BY <2>2, <2>6 DEF NamesOf, EventsOf
    <3> QED
      BY <3>1 DEF SentNames, SentOf
  <2> QED
    BY <2>3, <2>4, <2>5, <2>6
<1> QED
  BY <1>1, InvHolds, PTL

\* Only a commit changes the log of an account.
LEMMA LogsKept ==
    ASSUME Inv, NEW t \in Threads, Next, ~commit_update(t),
           \A u \in Threads \ {t} : ~commit_update(u), NEW i \in DOMAIN accounts
    PROVE  accounts'[i].log = accounts[i].log
<1>1. CASE accounts' = accounts
  BY <1>1
<1>2. ASSUME NEW u \in Threads, NEW a, NEW events, NewAccount(u, a, events)
      PROVE  accounts'[i].log = accounts[i].log
  <2>1. accounts \in Seq(Account) /\ accounts' = Append(accounts, a)
    BY <1>2 DEF Inv, TypeOK, NewAccount
  <2> QED
    BY <2>1
<1>3. ASSUME NEW u \in Threads, th[u].pc = "operate", NEW a,
             SetAccount(u, a), a.log = Acct(u).log
      PROVE  accounts'[i].log = accounts[i].log
  BY <1>3 DEF SetAccount, Acct, Inv, TypeOK
<1>4. ASSUME NEW u \in Threads, prepare(u)
      PROVE  accounts'[i].log = accounts[i].log
  <2>1. th[u].pc = "operate" /\ Acct(u) \in Account
    BY <1>4, LookedUpFacts DEF prepare, Operating
  <2>2. \/ \E r \in refuse_results(Acct(u)) : SetAccount(u, r.account)
        \/ \E id \in ChallengeIds : \E r \in prepare_results(Acct(u), id) :
              SetAccount(u, r.account)
    BY <1>4 DEF prepare
  <2> QED
    BY <1>3, <2>1, <2>2, ContractResults
<1>5. ASSUME NEW u \in Threads, cancel_update(u)
      PROVE  accounts'[i].log = accounts[i].log
  <2>1. th[u].pc = "operate" /\ Acct(u) \in Account
    BY <1>5, LookedUpFacts DEF cancel_update, Operating
  <2>2. \E r \in cancel_results(Acct(u), th[u].call.id) : SetAccount(u, r.account)
    BY <1>5 DEF cancel_update
  <2> QED
    BY <1>3, <2>1, <2>2, ContractResults
<1>6. ASSUME NEW u \in Threads, create_account(u) \/ import_plog(u)
      PROVE  accounts'[i].log = accounts[i].log
  BY <1>1, <1>2, <1>6 DEF create_account, import_plog
<1>7. ASSUME NEW u \in Threads,
             \/ Dispatch(u) \/ NoMethod(u) \/ insert(u) \/ remove_plog(u)
             \/ clear_cache(u) \/ entry(u) \/ export_plog(u) \/ read(u)
             \/ Emit(u) \/ Return(u)
      PROVE  accounts'[i].log = accounts[i].log
  BY <1>1, <1>7 DEF Dispatch, NoMethod, insert, remove_plog, clear_cache, entry,
     export_plog, read, Emit, Return
<1> QED
  BY <1>4, <1>5, <1>6, <1>7 DEF Next

\* A challenge is committed on no account but the one it was prepared on, and
\* on that one while it is cached.
THEOREM ChallengesDie == Spec => ChallengeDiesWithAccount
<1> DEFINE Dies == \A i \in DOMAIN accounts :
              accounts'[i].log # accounts[i].log =>
                  LET id == Last(accounts'[i].log)
                  IN  /\ issued[id].account = i
                      /\ Cached(accounts[i].vlad)
                      /\ entries[vlad_hash(accounts[i].vlad)] = i
<1>1. Inv /\ [Next]_vars => [Dies]_vars
  <2> SUFFICES ASSUME Inv, Next, NEW i \in DOMAIN accounts,
                      accounts'[i].log # accounts[i].log
               PROVE  /\ issued[Last(accounts'[i].log)].account = i
                      /\ Cached(accounts[i].vlad)
                      /\ entries[vlad_hash(accounts[i].vlad)] = i
    OBVIOUS
  <2>1. PICK t \in Threads : commit_update(t)
    <3>1. SUFFICES ASSUME \A t \in Threads : ~commit_update(t) PROVE FALSE
      OBVIOUS
    <3>2. PICK u \in Threads : TRUE
      BY DEF Next
    <3> QED
      BY <3>1, <3>2, LogsKept
  <2> DEFINE id == th[t].call.id
  <2>2. /\ th[t].pc = "operate" /\ Op(t) = "commit"
        /\ \E r \in commit_results(Acct(t), id, id) : SetAccount(t, r.account)
    BY <2>1 DEF commit_update, Operating
  <2>3. /\ LookedUp(t) /\ th[t].acct \in DOMAIN accounts /\ Acct(t) \in Account
        /\ Acct(t).vlad = th[t].call.text.vlad /\ id \in ChallengeIds
    BY <2>2, LookedUpFacts DEF LookedUp, Inv, TypeOK
  <2> HIDE DEF id
  <2>4. PICK r \in commit_results(Acct(t), id, id) : SetAccount(t, r.account)
    BY <2>2
  <2>5. i = th[t].acct /\ accounts'[i] = r.account /\ r.account.log # Acct(t).log
    BY <2>3, <2>4 DEF SetAccount, Acct, Inv, TypeOK
  <2>6. /\ r.account.log = Append(Acct(t).log, id) /\ id \in Acct(t).pending
    <3>1. /\ r.account.log = IF r.out = "Ok" THEN Append(Acct(t).log, id)
                             ELSE Acct(t).log
          /\ r.out = "Ok" => id \in Acct(t).pending
      BY <2>3, <2>4, ContractResults
    <3> QED
      BY <2>5, <3>1
  <2>7. Last(Append(Acct(t).log, id)) = id
    <3>1. Acct(t).log \in Seq(ChallengeIds)
      BY <2>3 DEF Account
    <3>2. /\ Len(Append(Acct(t).log, id)) = Len(Acct(t).log) + 1
          /\ Append(Acct(t).log, id)[Len(Acct(t).log) + 1] = id
      BY <2>3, <3>1, AppendProperties
    <3> QED
      BY <3>2 DEF Last
  <2>8. issued[id].account = i
    BY <2>3, <2>5, <2>6 DEF Inv, PendingOwned, Acct
  <2>9. Cached(accounts[i].vlad) /\ entries[vlad_hash(accounts[i].vlad)] = i
    BY <2>3, <2>5 DEF LookedUp, Acct
  <2> QED
    BY <2>5, <2>6, <2>7, <2>8, <2>9
<1> QED
  BY <1>1, InvHolds, PTL DEF Spec, ChallengeDiesWithAccount

-----------------------------------------------------------------------------
(***************************************************************************)
(* The module implements AccountsStore.                                    *)
(***************************************************************************)

Reduced(r) == Result(AsAccount(r.account), r.out)

\* The store has what the cache has.
LEMMA StoreFacts ==
    ASSUME Inv
    PROVE  /\ DOMAIN AsStore = {v \in Vlads : Cached(v)}
           /\ \A v \in DOMAIN AsStore :
                 /\ entries[vlad_hash(v)] \in DOMAIN accounts
                 /\ CachedAccount(v) \in Account /\ CachedAccount(v).vlad = v
                 /\ AsStore[v] = AsAccount(CachedAccount(v))
<1>1. accounts \in Seq(Account)
  BY DEF Inv, TypeOK
<1>2. ASSUME NEW v \in Vlads, Cached(v)
      PROVE  /\ entries[vlad_hash(v)] \in DOMAIN accounts
             /\ CachedAccount(v) \in Account /\ CachedAccount(v).vlad = v
  <2>1. /\ entries[vlad_hash(v)] \in DOMAIN accounts
        /\ vlad_hash(v) = vlad_hash(CachedAccount(v).vlad)
    BY <1>2 DEF Cached, CachedAccount, Inv, TypeOK
  <2>2. CachedAccount(v) \in Account
    BY <1>1, <2>1 DEF CachedAccount
  <2> QED
    BY <2>1, <2>2, HashInjective
<1> QED
  BY <1>2 DEF AsStore

LEMMA BothFields ==
    ASSUME NEW log, NEW pending, NEW l, NEW p
    PROVE  [[log |-> log, pending |-> pending] EXCEPT !.log = l, !.pending = p] =
             [log |-> l, pending |-> p]
<1> DEFINE r == [[log |-> log, pending |-> pending] EXCEPT !.log = l, !.pending = p]
<1>1. r \in [log : {l}, pending : {p}]
  OBVIOUS
<1> HIDE DEF r
<1>2. r = [log |-> l, pending |-> p]
  BY <1>1
<1> QED
  BY <1>2 DEF r

LEMMA IdReplaced ==
    ASSUME NEW op, NEW vlad, NEW id, NEW kind, NEW i
    PROVE  [[op |-> op, vlad |-> vlad, id |-> id, kind |-> kind] EXCEPT !.id = i] =
             [op |-> op, vlad |-> vlad, id |-> i, kind |-> kind]
<1> DEFINE r == [[op |-> op, vlad |-> vlad, id |-> id, kind |-> kind] EXCEPT !.id = i]
<1>1. r \in [op : {op}, vlad : {vlad}, id : {i}, kind : {kind}]
  OBVIOUS
<1> HIDE DEF r
<1>2. r = [op |-> op, vlad |-> vlad, id |-> i, kind |-> kind]
  BY <1>1
<1> QED
  BY <1>2 DEF r

LEMMA EmptyLogs ==
    ASSUME NEW F
    PROVE  [vlad : F, log : {<<>>}] = {[vlad |-> v, log |-> <<>>] : v \in F}
<1> DEFINE S == {[vlad |-> v, log |-> <<>>] : v \in F}
<1>1. ASSUME NEW p \in [vlad : F, log : {<<>>}] PROVE p \in S
  <2>1. p = [vlad |-> p.vlad, log |-> p.log] /\ p.vlad \in F /\ p.log \in {<<>>}
    OBVIOUS
  <2>2. p.log = <<>>
    BY <2>1
  <2>3. p = [vlad |-> p.vlad, log |-> <<>>]
    BY <2>1, <2>2, Zenon
  <2> QED
    BY <2>1, <2>3
<1>2. ASSUME NEW p \in S PROVE p \in [vlad : F, log : {<<>>}]
  <2>1. PICK v \in F : p = [vlad |-> v, log |-> <<>>]
    OBVIOUS
  <2> QED
    BY <2>1
<1> QED
  BY <1>1, <1>2

\* The contract does not look at VLADs.
LEMMA ContractReduced ==
    ASSUME NEW a \in Account, NEW id
    PROVE  /\ \A r \in refuse_results(a) :
                 Reduced(r) \in refuse_results(AsAccount(a))
           /\ \A r \in prepare_results(a, id) :
                 Reduced(r) \in prepare_results(AsAccount(a), id)
           /\ \A r \in commit_results(a, id, id) :
                 Reduced(r) \in commit_results(AsAccount(a), id, id)
           /\ \A r \in cancel_results(a, id) :
                 Reduced(r) \in cancel_results(AsAccount(a), id)
<1>1. ASSUME NEW p \in Purged(a)
      PROVE  /\ AsAccount(p) \in Purged(AsAccount(a))
             /\ p \in Account /\ AsAccount(p).pending = p.pending
             /\ \A ids : AsAccount([p EXCEPT !.pending = ids]) =
                           [AsAccount(p) EXCEPT !.pending = ids]
  <2>1. PICK ids \in SUBSET a.pending : p = [a EXCEPT !.pending = ids]
    BY DEF Purged
  <2>2. p \in Account /\ p.pending = ids /\ p.log = a.log
    BY <2>1 DEF Account
  <2>3. AsAccount(p) = [AsAccount(a) EXCEPT !.pending = ids]
    BY <2>2 DEF AsAccount
  <2>4. AsAccount(p) \in Purged(AsAccount(a))
    BY <2>1, <2>3 DEF Purged, AsAccount
  <2>5. ASSUME NEW js
        PROVE  AsAccount([p EXCEPT !.pending = js]) =
                 [AsAccount(p) EXCEPT !.pending = js]
    BY <2>2 DEF AsAccount, Account
  <2> QED
    BY <2>2, <2>4, <2>5 DEF AsAccount
<1>2. ASSUME NEW r \in refuse_results(a)
      PROVE  Reduced(r) \in refuse_results(AsAccount(a))
  <2>1. PICK p \in Purged(a) : r = Result(p, "Refused")
    BY DEF refuse_results
  <2>2. Reduced(r) = Result(AsAccount(p), "Refused")
    BY <2>1 DEF Reduced, Result
  <2> QED
    BY <1>1, <2>2 DEF refuse_results
<1>3. ASSUME NEW r \in prepare_results(a, id)
      PROVE  Reduced(r) \in prepare_results(AsAccount(a), id)
  <2>1. PICK p \in Purged(a) :
          r = Result([p EXCEPT !.pending = p.pending \cup {id}], "Ok")
    BY DEF prepare_results
  <2>2. Reduced(r) = Result([AsAccount(p) EXCEPT
                               !.pending = AsAccount(p).pending \cup {id}], "Ok")
    BY <1>1, <2>1 DEF Reduced, Result
  <2> QED
    BY <1>1, <2>2 DEF prepare_results
<1>4. ASSUME NEW r \in cancel_results(a, id)
      PROVE  Reduced(r) \in cancel_results(AsAccount(a), id)
  <2>1. PICK p \in Purged(a) :
          r = Result([p EXCEPT !.pending = p.pending \ {id}],
                     IF id \in p.pending THEN "Ok" ELSE "ChallengeNotFound")
    BY DEF cancel_results
  <2>2. Reduced(r) =
          Result([AsAccount(p) EXCEPT !.pending = AsAccount(p).pending \ {id}],
                 IF id \in AsAccount(p).pending THEN "Ok" ELSE "ChallengeNotFound")
    BY <1>1, <2>1 DEF Reduced, Result
  <2> QED
    BY <1>1, <2>2 DEF cancel_results
<1>5. ASSUME NEW r \in commit_results(a, id, id)
      PROVE  Reduced(r) \in commit_results(AsAccount(a), id, id)
  <2>1. CASE \E p \in Purged(a) :
               r = Result([p EXCEPT !.pending = p.pending \ {id}],
                      IF id \in p.pending THEN "Refused" ELSE "ChallengeNotFound")
    <3>1. PICK p \in Purged(a) :
            r = Result([p EXCEPT !.pending = p.pending \ {id}],
                       IF id \in p.pending THEN "Refused" ELSE "ChallengeNotFound")
      BY <2>1
    <3>2. Reduced(r) =
            Result([AsAccount(p) EXCEPT !.pending = AsAccount(p).pending \ {id}],
                   IF id \in AsAccount(p).pending THEN "Refused"
                   ELSE "ChallengeNotFound")
      BY <1>1, <3>1 DEF Reduced, Result
    <3> QED
      BY <1>1, <3>2 DEF commit_results
  <2>2. CASE /\ id \in a.pending
             /\ r = Result([a EXCEPT !.log = Append(a.log, id), !.pending = {}], "Ok")
    <3>1. /\ AsAccount(r.account) = [AsAccount(a) EXCEPT
                  !.log = Append(AsAccount(a).log, id), !.pending = {}]
          /\ r.out = "Ok" /\ AsAccount(a).pending = a.pending
      <4> DEFINE log == Append(a.log, id)
      <4>1. r.account = [a EXCEPT !.log = log, !.pending = {}] /\ r.out = "Ok"
        BY <2>2 DEF Result
      <4> HIDE DEF log
      <4>2. r.account.log = log /\ r.account.pending = {}
        BY <4>1 DEF Account
      <4>3. AsAccount(r.account) = [AsAccount(a) EXCEPT !.log = log, !.pending = {}]
        <5>1. AsAccount(r.account) = [log |-> log, pending |-> {}]
          BY <4>2 DEF AsAccount
        <5>2. [AsAccount(a) EXCEPT !.log = log, !.pending = {}] =
                [log |-> log, pending |-> {}]
          BY BothFields DEF AsAccount
        <5> QED
          BY <5>1, <5>2
      <4>4. AsAccount(a).log = a.log /\ AsAccount(a).pending = a.pending
        BY DEF AsAccount
      <4> QED
        BY <4>1, <4>3, <4>4 DEF log
    <3>2. Reduced(r) = Result([AsAccount(a) EXCEPT
                  !.log = Append(AsAccount(a).log, id), !.pending = {}], "Ok")
      BY <3>1 DEF Reduced
    <3> QED
      BY <2>2, <3>1, <3>2 DEF commit_results
  <2> QED
    BY <2>1, <2>2 DEF commit_results
<1> QED
  BY <1>2, <1>3, <1>4, <1>5

\* An account that is looked up is in the store; a change of it is a change of
\* the store at its VLAD.
LEMMA StorePut ==
    ASSUME Inv, Inv', NEW t \in Threads, th[t].pc = "operate",
           NEW a, Changes(t, a), entries' = entries
    PROVE  LET v == th[t].call.text.vlad
           IN  /\ v \in DOMAIN AsStore /\ AsStore[v] = AsAccount(Acct(t))
               /\ Acct(t).vlad = v
               /\ Store!Put(v, AsAccount(a))
<1> DEFINE v == th[t].call.text.vlad
<1>1. /\ LookedUp(t) /\ th[t].acct \in DOMAIN accounts
      /\ Acct(t) \in Account /\ Acct(t).vlad = v
  BY LookedUpFacts
<1>2. v \in Vlads /\ Cached(v) /\ entries[vlad_hash(v)] = th[t].acct
  BY <1>1 DEF Account, LookedUp
<1>3. v \in DOMAIN AsStore /\ AsStore[v] = AsAccount(Acct(t))
  BY <1>2, StoreFacts DEF CachedAccount, Acct
<1>4. DOMAIN AsStore' = DOMAIN AsStore
  BY DEF AsStore, Cached, vlad_hash, encode_vlad
<1>5. ASSUME NEW w \in DOMAIN AsStore
      PROVE  AsStore'[w] = IF w = v THEN AsAccount(a) ELSE AsStore[w]
  <2>1. /\ entries[vlad_hash(w)] \in DOMAIN accounts
        /\ CachedAccount(w).vlad = w /\ AsStore[w] = AsAccount(CachedAccount(w))
    BY StoreFacts
  <2>2. AsStore'[w] = AsAccount(accounts'[entries[vlad_hash(w)]])
    BY <1>4 DEF AsStore, CachedAccount, AsAccount, vlad_hash, encode_vlad
  <2>3. w # v => entries[vlad_hash(w)] # th[t].acct
    BY <1>1, <2>1 DEF CachedAccount, Acct
  <2> QED
    BY <1>2, <2>1, <2>2, <2>3 DEF Changes, CachedAccount
<1>6. AsStore' = [w \in DOMAIN AsStore \cup {v} |->
                    IF w = v THEN AsAccount(a) ELSE AsStore[w]]
  <2>1. AsStore' = [w \in DOMAIN AsStore' |-> AsStore'[w]]
    BY DEF AsStore
  <2> QED
    BY <1>3, <1>4, <1>5, <2>1
<1> QED
  BY <1>1, <1>3, <1>6 DEF Store!Put

\* The calls of the store.
LEMMA CallFacts ==
    ASSUME Inv, NEW t \in Threads
    PROVE  /\ th[t].pc = "idle" <=> AsCalls[t] = Store!NoCall
           /\ th[t].pc \in {"start", "operate", "insert"} =>
                 /\ AsCalls[t] = Store!Called(AsCall(th[t].call))
                 /\ AsCalls[t].st = "called"
                 /\ AsCalls[t].call = AsCall(th[t].call)
           /\ th[t].pc \in {"emit", "return"} => AsCalls[t].st = "done"
<1>1. th[t] \in Local
  BY DEF Inv, TypeOK
<1>2. CASE th[t].pc = "idle"
  BY <1>2 DEF AsCalls, Store!NoCall
<1>3. CASE th[t].pc \in {"start", "operate", "insert"}
  BY <1>3 DEF AsCalls, Store!NoCall, Store!Called
<1>4. CASE th[t].pc \in {"emit", "return"}
  BY <1>4 DEF AsCalls, Store!NoCall
<1> QED
  BY <1>1, <1>2, <1>3, <1>4 DEF Local

\* The call of one thread changes.
LEMMA CallMoves ==
    ASSUME Inv, NEW t \in Threads, Moves(t), NEW c, AsCalls'[t] = c
    PROVE  AsCalls' = [AsCalls EXCEPT ![t] = c]
<1>1. \A u \in Threads \ {t} : AsCalls'[u] = AsCalls[u]
  BY DEF AsCalls, Moves, AsCall
<1> QED
  BY <1>1 DEF AsCalls

\* An answer is settled.
LEMMA AnswerMaps ==
    ASSUME Inv, NEW t \in Threads, Moves(t), th'[t].pc \in {"emit", "return"},
           NEW out, th'[t].out = out, NEW events,
           th'[t].sent \o th'[t].todo = events,
           NEW c, AsCall(th'[t].call) = c
    PROVE  Store!Answer(t, c, out, events)
<1>1. AsCalls'[t] = Store!Done(c, out, events)
  BY DEF AsCalls, AsCall, Store!Done
<1> QED
  BY <1>1, CallMoves DEF Store!Answer

\* A step that leaves the cached accounts alone leaves the store alone.
LEMMA SameStore ==
    ASSUME Inv, entries' = entries,
           \A i \in DOMAIN accounts : accounts'[i] = accounts[i]
    PROVE  AsStore' = AsStore
<1>1. DOMAIN AsStore' = DOMAIN AsStore
  BY DEF AsStore, Cached, vlad_hash, encode_vlad
<1>2. ASSUME NEW v \in DOMAIN AsStore PROVE AsStore'[v] = AsStore[v]
  <2>1. entries[vlad_hash(v)] \in DOMAIN accounts
    BY StoreFacts
  <2> QED
    BY <1>1, <2>1 DEF AsStore, CachedAccount, AsAccount, vlad_hash, encode_vlad
<1> QED
  BY <1>1, <1>2 DEF AsStore

\* A step that changes only locals and makes no account.
LEMMA SameData ==
    ASSUME Inv, NEW t \in Threads, Moves(t),
           th[t].pc # "insert", th'[t].pc # "insert",
           UNCHANGED <<accounts, entries, issued, exported>>
    PROVE  UNCHANGED <<AsStore, AsTaken, AsKind, exported>>
<1>1. AsTaken' = AsTaken
  BY DEF AsTaken, Arriving, Moves
<1>2. AsKind' = AsKind
  BY DEF AsKind
<1>3. AsStore' = AsStore
  BY SameStore
<1> QED
  BY <1>1, <1>2, <1>3

\* A step between a call and its answer.
LEMMA SameCalls ==
    ASSUME Inv, NEW t \in Threads, Moves(t), AsCalls'[t] = AsCalls[t]
    PROVE  AsCalls' = AsCalls
<1>1. AsCalls' = [AsCalls EXCEPT ![t] = AsCalls[t]]
  BY CallMoves
<1> QED
  BY <1>1 DEF AsCalls

\* The work of a call.
LEMMA Works ==
    ASSUME Inv, NEW t \in Threads, th[t].pc \in {"start", "operate", "insert"},
           NEW call, call = AsCall(th[t].call),
           \/ Store!Unknown(t, call)
           \/ Store!Create(t, call) \/ Store!Import(t, call) \/ Store!Clear(t, call)
           \/ Store!NotFound(t, call) \/ Store!Remove(t, call)
           \/ Store!Export(t, call) \/ Store!Read(t, call)
           \/ Store!Prepare(t, call) \/ Store!Commit(t, call) \/ Store!Cancel(t, call)
    PROVE  Store!Next
<1>1. AsCalls[t].st = "called" /\ AsCalls[t].call = call
  BY CallFacts
<1>2. Store!Work(t)
  BY <1>1 DEF Store!Work
<1> QED
  BY <1>2 DEF Store!Next

LEMMA ErrorMaps ==
    ASSUME Inv, NEW t \in Threads, NEW acct \in Nat, NEW out \in Outcome,
           err_json(t, acct, out), Silent(t)
    PROVE  /\ Store!Error(t, AsCall(th[t].call), out)
           /\ Moves(t) /\ th'[t].pc = "emit"
<1>1. /\ Moves(t)
      /\ th'[t].pc = "emit" /\ th'[t].call = th[t].call
      /\ th'[t].out = out
      /\ th'[t].sent \o th'[t].todo = <<ErrorEvent>>
  BY Answered, EventTypes DEF err_json
<1>2. Store!Answer(t, AsCall(th[t].call), out, <<ErrorEvent>>)
  BY <1>1, AnswerMaps
<1> QED
  BY <1>1, <1>2 DEF Store!Error, Store!ErrorEvents, ErrorEvent

LEMMA OkMaps ==
    ASSUME Inv, NEW t \in Threads, NEW acct \in Nat, NEW todo \in Seq(Event),
           Answers(t, acct, "Ok", todo), Silent(t)
    PROVE  /\ Store!Answer(t, AsCall(th[t].call), "Ok", todo)
           /\ Moves(t) /\ th'[t].pc = "emit"
<1>1. "Ok" \in Outcome
  BY DEF Outcome
<1>2. /\ Moves(t)
      /\ th'[t].pc = "emit" /\ th'[t].call = th[t].call
      /\ th'[t].out = "Ok"
      /\ th'[t].sent \o th'[t].todo = todo
  BY <1>1, Answered
<1>3. Store!Answer(t, AsCall(th[t].call), "Ok", todo)
  BY <1>2, AnswerMaps
<1> QED
  BY <1>2, <1>3

LEMMA InitMaps == Init => Store!Init
<1> SUFFICES ASSUME Init PROVE Store!Init
  OBVIOUS
<1>1. /\ DOMAIN entries = {} /\ DOMAIN issued = {} /\ accounts = <<>>
      /\ exported = {[vlad |-> v, log |-> <<>>] : v \in ForeignVlads}
      /\ \A t \in Threads : th[t].pc = "idle"
  BY DEF Init, Idle
<1>2. AsStore = [v \in {} |-> Store!FreshAccount(<<>>)]
  BY <1>1 DEF AsStore, Cached
<1>3. AsTaken = ForeignVlads
  BY <1>1 DEF AsTaken
<1>4. AsKind = [i \in {} |-> "Entry"]
  BY <1>1 DEF AsKind
<1>5. exported = [vlad : ForeignVlads, log : {<<>>}]
  BY <1>1, EmptyLogs
<1>6. AsCalls = [t \in Threads |-> Store!NoCall]
  BY <1>1 DEF AsCalls, Store!NoCall
<1> QED
  BY <1>2, <1>3, <1>4, <1>5, <1>6 DEF Store!Init

\* A call of a host is a call of the store, whatever the spelling of its VLAD.
LEMMA CallsMap ==
    ASSUME NEW c \in Calls
    PROVE  AsCall(c) \in Store!Calls(DOMAIN AsKind)
<1>1. DOMAIN AsKind = DOMAIN issued
  BY DEF AsKind
<1>2. CASE \E op \in {"export", "read", "remove"}, text \in Text :
              c = NameCall(op, text)
  <2>1. PICK op \in {"export", "read", "remove"}, text \in Text :
          c = NameCall(op, text)
    BY <1>2
  <2>2. /\ AsCall(c) = Store!Args(op, text.vlad, NoId, "Entry")
        /\ text.vlad \in Vlads \cup {NoVlad}
    BY <2>1 DEF NameCall, AsCall, Store!Args, Text
  <2> QED
    BY <2>2 DEF Store!Calls
<1>3. CASE \E text \in Text, k \in UpdateKind :
              c = [NameCall("prepare", text) EXCEPT !.kind = k]
  <2>1. PICK text \in Text, k \in UpdateKind :
          c = [NameCall("prepare", text) EXCEPT !.kind = k]
    BY <1>3
  <2>2. c.op = "prepare" /\ c.text = text /\ c.id = NoId /\ c.kind = k
    BY <2>1 DEF NameCall
  <2>3. /\ AsCall(c) = Store!Args("prepare", text.vlad, NoId, k)
        /\ text.vlad \in Vlads \cup {NoVlad} /\ k \in Store!Kind
    BY <2>2 DEF AsCall, Store!Args, Text, UpdateKind, Store!Kind
  <2> QED
    BY <2>3 DEF Store!Calls
<1>4. CASE \E op \in {"commit", "cancel"}, text \in Text, i \in DOMAIN issued :
              c = [NameCall(op, text) EXCEPT !.id = i]
  <2>1. PICK op \in {"commit", "cancel"}, text \in Text, i \in DOMAIN issued :
          c = [NameCall(op, text) EXCEPT !.id = i]
    BY <1>4
  <2>2. c.op = op /\ c.text = text /\ c.id = i /\ c.kind = "Entry"
    BY <2>1 DEF NameCall
  <2>3. /\ AsCall(c) = Store!Args(op, text.vlad, i, "Entry")
        /\ text.vlad \in Vlads \cup {NoVlad} /\ i \in DOMAIN AsKind
    BY <1>1, <2>2 DEF AsCall, Store!Args, Text
  <2> QED
    BY <2>3 DEF Store!Calls
<1>5. CASE \E op \in {"create", "import", "clear", "unknown"} :
              c = NameCall(op, encode_vlad(NoVlad))
  <2>1. PICK op \in {"create", "import", "clear", "unknown"} :
          c = NameCall(op, encode_vlad(NoVlad))
    BY <1>5
  <2>2. AsCall(c) = Store!Args(op, NoVlad, NoId, "Entry")
    BY <2>1 DEF NameCall, AsCall, Store!Args, encode_vlad
  <2> QED
    BY <2>2 DEF Store!Calls
<1> QED
  BY <1>2, <1>3, <1>4, <1>5 DEF Calls

LEMMA DispatchMaps ==
    ASSUME Inv, NEW t \in Threads, Dispatch(t)
    PROVE  Store!Next
<1>1. PICK c \in Calls :
        th' = [th EXCEPT ![t] = [Idle EXCEPT !.pc = "start", !.call = c]]
  BY DEF Dispatch
<1>2. c \in Call
  BY CallsTyped
<1>3. /\ th \in [Threads -> Local] /\ th[t].pc = "idle"
      /\ [Idle EXCEPT !.pc = "start", !.call = c] \in Local
      /\ UNCHANGED <<accounts, entries, issued, exported>>
  BY <1>2, IdleTyped DEF Inv, TypeOK, Dispatch, Local
<1>4. Moves(t) /\ th'[t].pc = "start" /\ th'[t].call = c
  BY <1>1, <1>3, IdleTyped DEF Moves, Local
<1>5. AsCalls'[t] = Store!Called(AsCall(c))
  BY <1>4 DEF AsCalls, AsCall, Store!Called
<1>6. AsCalls' = [AsCalls EXCEPT ![t] = Store!Called(AsCall(c))]
  BY <1>4, <1>5, CallMoves
<1>7. UNCHANGED <<AsStore, AsTaken, AsKind, exported>>
  BY <1>3, <1>4, SameData
<1>8. AsCalls[t] = Store!NoCall
  BY <1>3, CallFacts
<1>9. Store!Invoke(t)
  BY <1>6, <1>7, <1>8, CallsMap DEF Store!Invoke
<1> QED
  BY <1>9 DEF Store!Next

LEMMA NoMethodMaps ==
    ASSUME Inv, NEW t \in Threads, NoMethod(t)
    PROVE  Store!Next
<1>1. /\ th \in [Threads -> Local] /\ th[t].pc = "start" /\ Op(t) = "unknown"
      /\ Started(t) /\ UNCHANGED <<accounts, entries, issued, exported>>
  BY DEF Inv, TypeOK, NoMethod, ThreadInv
<1>2. [th[t] EXCEPT !.pc = "return", !.out = "Null"] \in Local
  BY <1>1 DEF Local, Outcome
<1>3. /\ Moves(t) /\ th'[t].pc = "return" /\ th'[t].call = th[t].call
      /\ th'[t].sent = <<>> /\ th'[t].todo = <<>> /\ th'[t].out = "Null"
  BY <1>1, <1>2 DEF NoMethod, Moves, Started, Silent, Local
<1>4. <<>> \o <<>> = <<>>
  BY EventTypes, ConcatEmptySeq
<1>5. Store!Answer(t, AsCall(th[t].call), "Null", <<>>)
  BY <1>3, <1>4, AnswerMaps
<1>6. UNCHANGED <<AsStore, AsTaken, AsKind, exported>>
  BY <1>1, <1>3, SameData
<1>7. AsCall(th[t].call).op = "unknown"
  BY <1>1 DEF AsCall, Op
<1>8. Store!Unknown(t, AsCall(th[t].call))
  BY <1>5, <1>6, <1>7 DEF Store!Unknown
<1> QED
  BY <1>1, <1>8, Works

LEMMA EmitMaps ==
    ASSUME Inv, NEW t \in Threads, Emit(t)
    PROVE  UNCHANGED Store!storeVars
<1>1. /\ th[t].pc = "emit" /\ UNCHANGED <<accounts, entries, issued, exported>>
  BY DEF Emit
<1>2. /\ th'[t].pc \in {"emit", "return"} /\ Moves(t)
      /\ th'[t].call = th[t].call /\ th'[t].out = th[t].out
      /\ th'[t].sent \o th'[t].todo = th[t].sent \o th[t].todo
  BY EmitKeepsInv
<1>3. AsCalls'[t] = AsCalls[t]
  BY <1>1, <1>2 DEF AsCalls, AsCall
<1>4. AsCalls' = AsCalls
  BY <1>2, <1>3, SameCalls
<1>5. UNCHANGED <<AsStore, AsTaken, AsKind, exported>>
  BY <1>1, <1>2, SameData
<1> QED
  BY <1>4, <1>5 DEF Store!storeVars

LEMMA ReturnMaps ==
    ASSUME Inv, NEW t \in Threads, Return(t)
    PROVE  Store!Next
<1>1. /\ th \in [Threads -> Local]
      /\ th[t].pc = "return" /\ th' = [th EXCEPT ![t] = Idle]
      /\ UNCHANGED <<accounts, entries, issued, exported>>
  BY DEF Inv, TypeOK, Return
<1>2. Moves(t) /\ th'[t].pc = "idle"
  BY <1>1, IdleTyped DEF Moves, Idle
<1>3. AsCalls'[t] = Store!NoCall
  BY <1>2 DEF AsCalls, Store!NoCall
<1>4. AsCalls' = [AsCalls EXCEPT ![t] = Store!NoCall]
  BY <1>2, <1>3, CallMoves
<1>5. UNCHANGED <<AsStore, AsTaken, AsKind, exported>>
  BY <1>1, <1>2, SameData
<1>6. AsCalls[t].st = "done"
  BY <1>1, CallFacts
<1>7. Store!Return(t)
  BY <1>4, <1>5, <1>6 DEF Store!Return
<1> QED
  BY <1>7 DEF Store!Next

\* A method that fails to find its account.
LEMMA NotFoundMaps ==
    ASSUME Inv, NEW t \in Threads, th[t].pc = "start",
           Op(t) \in AccountOps \cup {"remove"},
           \/ ~decodable(th[t].call.text) /\ err_json(t, 0, "Encoding")
           \/ /\ decodable(th[t].call.text) /\ ~Cached(th[t].call.text.vlad)
              /\ err_json(t, 0, "AccountNotCached"),
           UNCHANGED <<accounts, entries, issued, exported>>
    PROVE  Store!Next
<1> DEFINE call == AsCall(th[t].call)
<1>1. /\ th[t] \in Local /\ Silent(t)
  BY DEF Inv, TypeOK, ThreadInv, Started
<1>2. /\ call.op \in Store!AccountOps \cup {"remove"}
      /\ call.vlad = th[t].call.text.vlad
      /\ call.vlad \in Vlads \cup {NoVlad}
  BY <1>1 DEF AsCall, Op, AccountOps, Store!AccountOps, Local, Call, Text
<1>3. \/ call.vlad = NoVlad /\ Store!Error(t, call, "Encoding")
      \/ /\ call.vlad \in Vlads \ DOMAIN AsStore
         /\ Store!Error(t, call, "AccountNotCached")
  <2>1. CASE ~decodable(th[t].call.text) /\ err_json(t, 0, "Encoding")
    BY <1>1, <1>2, <2>1, ErrorMaps DEF decodable, Outcome
  <2>2. CASE /\ decodable(th[t].call.text) /\ ~Cached(th[t].call.text.vlad)
             /\ err_json(t, 0, "AccountNotCached")
    <3>1. Store!Error(t, call, "AccountNotCached")
      BY <1>1, <2>2, ErrorMaps DEF Outcome
    <3>2. call.vlad \in Vlads \ DOMAIN AsStore
      BY <1>2, <2>2, StoreFacts DEF decodable
    <3> QED
      BY <3>1, <3>2
  <2> QED
    BY <2>1, <2>2
<1>4. Moves(t) /\ th'[t].pc = "emit"
  BY <1>1, ErrorMaps DEF Outcome
<1>5. UNCHANGED <<AsStore, AsTaken, AsKind, exported>>
  BY <1>4, SameData
<1>6. Store!NotFound(t, call)
  BY <1>2, <1>3, <1>5 DEF Store!NotFound
<1> QED
  BY <1>6, Works

LEMMA EntryMaps ==
    ASSUME Inv, NEW t \in Threads, entry(t)
    PROVE  Store!Next \/ UNCHANGED Store!storeVars
<1> DEFINE text == th[t].call.text
           key  == key_from_multibase(text)
<1>1. /\ th \in [Threads -> Local] /\ accounts \in Seq(Account)
      /\ th[t].pc = "start" /\ Op(t) \in AccountOps
      /\ UNCHANGED <<accounts, entries, issued, exported>>
      /\ key = vlad_hash(text.vlad)
  BY DEF Inv, TypeOK, entry, key_from_multibase
<1>2. CASE ~decodable(text)
  <2>1. err_json(t, 0, "Encoding")
    BY <1>2 DEF entry
  <2> QED
    BY <1>1, <1>2, <2>1, NotFoundMaps
<1>3. CASE decodable(text) /\ key \notin DOMAIN entries
  <2>1. err_json(t, 0, "AccountNotCached") /\ ~Cached(text.vlad)
    BY <1>1, <1>3 DEF entry, Cached
  <2> QED
    BY <1>1, <1>3, <2>1, NotFoundMaps
<1>4. CASE decodable(text) /\ key \in DOMAIN entries
  <2>1. /\ th' = [th EXCEPT ![t] = [th[t] EXCEPT !.pc = "operate",
                                                 !.acct = entries[key]]]
        /\ entries[key] \in Nat
    BY <1>1, <1>4 DEF entry, Inv, TypeOK
  <2>2. [th[t] EXCEPT !.pc = "operate", !.acct = entries[key]] \in Local
    BY <1>1, <2>1 DEF Local
  <2>3. Moves(t) /\ th'[t].pc = "operate" /\ th'[t].call = th[t].call
    BY <1>1, <2>1, <2>2 DEF Moves, Local
  <2>4. AsCalls'[t] = AsCalls[t]
    BY <1>1, <2>3 DEF AsCalls, AsCall
  <2>5. AsCalls' = AsCalls
    BY <2>3, <2>4, SameCalls
  <2>6. UNCHANGED <<AsStore, AsTaken, AsKind, exported>>
    BY <1>1, <2>3, SameData
  <2> QED
    BY <2>5, <2>6 DEF Store!storeVars
<1> QED
  BY <1>2, <1>3, <1>4

\* An account is made, but not cached yet.
LEMMA NewAccountMaps ==
    ASSUME Inv, NEW t \in Threads, th[t].pc = "start",
           NEW a \in Account, NEW events \in Seq(Event),
           NewAccount(t, a, events), UNCHANGED <<entries, issued, exported>>
    PROVE  UNCHANGED Store!storeVars
<1>1. /\ Moves(t) /\ th'[t].pc = "insert" /\ th'[t].call = th[t].call
      /\ \A i \in DOMAIN accounts : accounts'[i] = accounts[i]
      /\ AsTaken' = AsTaken
  BY NewAccountFacts
<1>2. AsCalls'[t] = AsCalls[t]
  BY <1>1 DEF AsCalls, AsCall
<1>3. AsCalls' = AsCalls
  BY <1>1, <1>2, SameCalls
<1>4. AsStore' = AsStore
  BY <1>1, SameStore
<1>5. AsKind' = AsKind
  BY DEF AsKind
<1> QED
  BY <1>1, <1>3, <1>4, <1>5 DEF Store!storeVars

LEMMA CreateMaps ==
    ASSUME Inv, NEW t \in Threads, create_account(t)
    PROVE  Store!Next \/ UNCHANGED Store!storeVars
<1>1. /\ th[t].pc = "start" /\ Op(t) = "create" /\ Silent(t)
      /\ UNCHANGED <<entries, issued, exported>>
  BY DEF create_account, Inv, ThreadInv, Started
<1>2. CASE err_json(t, 0, "Encoding") /\ UNCHANGED accounts
  <2>1. /\ Store!Error(t, AsCall(th[t].call), "Encoding")
        /\ Moves(t) /\ th'[t].pc = "emit"
    BY <1>1, <1>2, ErrorMaps DEF Outcome
  <2>2. UNCHANGED <<AsStore, AsTaken, AsKind, exported>>
    BY <1>1, <1>2, <2>1, SameData
  <2>3. Store!Create(t, AsCall(th[t].call))
    BY <1>1, <2>1, <2>2 DEF Store!Create, AsCall, Op
  <2> QED
    BY <1>1, <2>3, Works
<1>3. ASSUME NEW v \in FreshVlads,
             NewAccount(t, Created(v), <<[name |-> "account_created", of |-> v]>>)
      PROVE  UNCHANGED Store!storeVars
  <2>1. v \in Vlads
    BY DEF FreshVlads
  <2>2. Created(v) \in Account
    BY <2>1 DEF Created, imported, Account
  <2>3. <<[name |-> "account_created", of |-> v]>> \in Seq(Event)
    BY <2>1, EventTypes
  <2> DEFINE a == Created(v)
             events == <<[name |-> "account_created", of |-> v]>>
  <2> HIDE DEF a, events
  <2> QED
    BY <1>1, <1>3, <2>2, <2>3, NewAccountMaps DEF a, events
<1> QED
  BY <1>2, <1>3 DEF create_account, Created

LEMMA ImportMaps ==
    ASSUME Inv, NEW t \in Threads, import_plog(t)
    PROVE  Store!Next \/ UNCHANGED Store!storeVars
<1>1. /\ th[t].pc = "start" /\ Op(t) = "import" /\ Silent(t)
      /\ UNCHANGED <<entries, issued, exported>>
  BY DEF import_plog, Inv, ThreadInv, Started
<1>2. CASE err_json(t, 0, "Encoding") /\ UNCHANGED accounts
  <2>1. /\ Store!Error(t, AsCall(th[t].call), "Encoding")
        /\ Moves(t) /\ th'[t].pc = "emit"
    BY <1>1, <1>2, ErrorMaps DEF Outcome
  <2>2. UNCHANGED <<AsStore, AsTaken, AsKind, exported>>
    BY <1>1, <1>2, <2>1, SameData
  <2>3. Store!Import(t, AsCall(th[t].call))
    BY <1>1, <2>1, <2>2 DEF Store!Import, AsCall, Op
  <2> QED
    BY <1>1, <2>3, Works
<1>3. ASSUME NEW p \in exported, NewAccount(t, imported(p), <<>>)
      PROVE  UNCHANGED Store!storeVars
  <2>1. p \in PlogText
    BY DEF Inv, TypeOK
  <2>2. imported(p) \in Account
    BY <2>1 DEF imported, Account, PlogText
  <2>3. <<>> \in Seq(Event)
    BY EventTypes
  <2> DEFINE a == imported(p)
             events == <<>>
  <2> HIDE DEF a, events
  <2> QED
    BY <1>1, <1>3, <2>2, <2>3, NewAccountMaps DEF a, events
<1> QED
  BY <1>2, <1>3 DEF import_plog

\* The insert is where a create or import call takes effect.
LEMMA InsertMaps ==
    ASSUME Inv, NEW t \in Threads, insert(t)
    PROVE  Store!Next
<1> DEFINE v    == Acct(t).vlad
           key  == vlad_hash(v)
           call == AsCall(th[t].call)
<1>1. /\ th[t].pc = "insert" /\ ToInsert(t) /\ accounts \in Seq(Account)
      /\ th[t].acct \in DOMAIN accounts
      /\ UNCHANGED <<accounts, issued, exported>>
  BY DEF insert, Inv, TypeOK, ThreadInv, ToInsert
<1>2. Acct(t) \in Account /\ v \in Vlads /\ Acct(t).pending = {}
  <2>1. Acct(t) \in Account
    BY <1>1 DEF Acct
  <2>2. Acct(t).pending = {}
    BY <1>1 DEF ToInsert
  <2> QED
    BY <2>1, <2>2 DEF Account
<1>3. /\ Moves(t) /\ th'[t].pc = "emit" /\ th'[t].call = th[t].call
      /\ th'[t].out = "Ok" /\ th'[t].sent \o th'[t].todo = th[t].sent
      /\ AsTaken' = AsTaken \cup {v}
  BY InsertKeepsInv
<1>4. Store!Answer(t, call, "Ok", th[t].sent)
  BY <1>3, AnswerMaps
<1>5. AsKind' = AsKind
  BY <1>1 DEF AsKind
<1>6. Store!Put(v, Store!FreshAccount(Acct(t).log))
  <2>1. /\ DOMAIN entries' = DOMAIN entries \cup {key}
        /\ entries'[key] = th[t].acct
        /\ \A k \in DOMAIN entries : k # key => entries'[k] = entries[k]
    BY DEF insert, SummaryKey, key_from_multibase, encode_vlad
  <2>2. AsAccount(Acct(t)) = Store!FreshAccount(Acct(t).log)
    BY <1>2 DEF AsAccount, Store!FreshAccount
  <2>3. DOMAIN AsStore' = DOMAIN AsStore \cup {v}
    <3>1. \A w \in Vlads : vlad_hash(w) \in DOMAIN entries' <=>
                             vlad_hash(w) \in DOMAIN entries \/ w = v
      BY <2>1, HashInjective
    <3>2. DOMAIN AsStore' = {w \in Vlads : vlad_hash(w) \in DOMAIN entries'}
      BY DEF AsStore, Cached, vlad_hash, encode_vlad
    <3>3. DOMAIN AsStore = {w \in Vlads : vlad_hash(w) \in DOMAIN entries}
      BY DEF AsStore, Cached
    <3> QED
      BY <1>2, <3>1, <3>2, <3>3
  <2>4. ASSUME NEW w \in DOMAIN AsStore'
        PROVE  AsStore'[w] = AsAccount(accounts[entries'[vlad_hash(w)]])
    BY <1>1 DEF AsStore, CachedAccount, AsAccount, vlad_hash, encode_vlad
  <2>5. AsStore'[v] = AsAccount(Acct(t))
    BY <2>1, <2>3, <2>4 DEF Acct
  <2>6. ASSUME NEW w \in DOMAIN AsStore, w # v PROVE AsStore'[w] = AsStore[w]
    <3>1. vlad_hash(w) \in DOMAIN entries /\ vlad_hash(w) # key
      BY <2>6, HashInjective DEF AsStore, Cached
    <3>2. entries'[vlad_hash(w)] = entries[vlad_hash(w)]
      BY <2>1, <3>1
    <3> QED
      BY <2>3, <2>4, <3>2 DEF AsStore, CachedAccount
  <2>7. AsStore' = [w \in DOMAIN AsStore' |-> AsStore'[w]]
    BY DEF AsStore
  <2> QED
    BY <2>2, <2>3, <2>5, <2>6, <2>7 DEF Store!Put
<1>7. CASE Op(t) = "create"
  <2>1. v \in Vlads \ AsTaken
    <3>1. /\ v \notin ForeignVlads
          /\ \A i \in DOMAIN accounts : accounts[i].vlad = v => i = th[t].acct
      BY <1>1, <1>7 DEF ToInsert
    <3>2. Arriving(th[t].acct)
      BY <1>1 DEF Arriving
    <3> QED
      BY <1>2, <3>1, <3>2 DEF AsTaken
  <2>2. /\ th[t].sent = <<[name |-> "account_created", of |-> v]>>
        /\ Acct(t).log = <<>> /\ call.op = "create"
    BY <1>1, <1>7 DEF ToInsert, AsCall, Op
  <2>3. Store!Create(t, call)
    BY <1>1, <1>3, <1>4, <1>5, <1>6, <2>1, <2>2 DEF Store!Create
  <2> QED
    BY <1>1, <2>3, Works
<1>8. CASE Op(t) = "import"
  <2>1. /\ th[t].sent = <<>> /\ call.op = "import"
        /\ [vlad |-> v, log |-> Acct(t).log] \in exported
    BY <1>1, <1>8 DEF ToInsert, AsCall, Op
  <2>2. v \in AsTaken
    BY <2>1 DEF Inv, TextsTaken
  <2>3. AsTaken' = AsTaken
    BY <1>3, <2>2
  <2>4. \E p \in exported :
           Store!Put(p.vlad, Store!FreshAccount(p.log))
           /\ Store!Answer(t, call, "Ok", <<>>)
    BY <1>4, <1>6, <2>1
  <2>5. Store!Import(t, call)
    BY <1>1, <1>5, <2>1, <2>3, <2>4 DEF Store!Import
  <2> QED
    BY <1>1, <2>5, Works
<1> QED
  BY <1>1, <1>7, <1>8 DEF ToInsert

\* A method takes accounts out of the store.
LEMMA UncacheMaps ==
    ASSUME Inv, NEW t \in Threads, th[t].pc = "start",
           Answers(t, 0, "Ok", <<>>), Op(t) \in {"remove", "clear"},
           UNCHANGED <<accounts, issued, exported>>,
           DOMAIN entries' \subseteq DOMAIN entries,
           \A k \in DOMAIN entries' : entries'[k] = entries[k]
    PROVE  /\ AsStore' = [v \in {w \in Vlads : vlad_hash(w) \in DOMAIN entries'} |->
                            AsStore[v]]
           /\ UNCHANGED <<AsTaken, AsKind, exported>>
           /\ Store!Answer(t, AsCall(th[t].call), "Ok", <<>>)
<1>1. Silent(t) /\ <<>> \in Seq(Event)
  BY EventTypes DEF Inv, ThreadInv, Started
<1>2. /\ Store!Answer(t, AsCall(th[t].call), "Ok", <<>>)
      /\ Moves(t) /\ th'[t].pc = "emit"
  BY <1>1, OkMaps
<1>3. AsTaken' = AsTaken
  BY <1>2 DEF AsTaken, Arriving, Moves
<1>4. DOMAIN AsStore' = {w \in Vlads : vlad_hash(w) \in DOMAIN entries'}
  BY DEF AsStore, Cached, vlad_hash, encode_vlad
<1>5. ASSUME NEW v \in DOMAIN AsStore' PROVE AsStore'[v] = AsStore[v]
  <2>1. v \in Vlads /\ vlad_hash(v) \in DOMAIN entries'
    BY <1>4
  <2>2. entries'[vlad_hash(v)] = entries[vlad_hash(v)] /\ Cached(v)
    BY <2>1 DEF Cached
  <2>3. AsStore'[v] = AsAccount(accounts[entries'[vlad_hash(v)]])
    BY <1>5 DEF AsStore, CachedAccount, AsAccount, vlad_hash, encode_vlad
  <2> QED
    BY <2>1, <2>2, <2>3 DEF AsStore, CachedAccount
<1>6. AsStore' = [v \in DOMAIN AsStore' |-> AsStore'[v]]
  BY DEF AsStore
<1>7. AsKind' = AsKind
  BY DEF AsKind
<1> QED
  BY <1>2, <1>3, <1>4, <1>5, <1>6, <1>7

LEMMA RemoveMaps ==
    ASSUME Inv, NEW t \in Threads, remove_plog(t)
    PROVE  Store!Next
<1> DEFINE text == th[t].call.text
           key  == key_from_multibase(text)
           call == AsCall(th[t].call)
<1>1. /\ th[t].pc = "start" /\ Op(t) = "remove"
      /\ UNCHANGED <<accounts, issued, exported>>
      /\ key = vlad_hash(text.vlad) /\ th[t] \in Local
  BY DEF remove_plog, Inv, TypeOK, key_from_multibase
<1>2. CASE ~decodable(text)
  <2>1. err_json(t, 0, "Encoding") /\ UNCHANGED entries
    BY <1>2 DEF remove_plog
  <2> QED
    BY <1>1, <1>2, <2>1, NotFoundMaps
<1>3. CASE decodable(text) /\ key \notin DOMAIN entries
  <2>1. /\ err_json(t, 0, "AccountNotCached") /\ UNCHANGED entries
        /\ ~Cached(text.vlad)
    BY <1>1, <1>3 DEF remove_plog, Cached
  <2> QED
    BY <1>1, <1>3, <2>1, NotFoundMaps
<1>4. CASE decodable(text) /\ key \in DOMAIN entries
  <2>1. /\ entries' = [k \in DOMAIN entries \ {key} |-> entries[k]]
        /\ Answers(t, 0, "Ok", <<>>)
    BY <1>4 DEF remove_plog
  <2>2. /\ DOMAIN entries' = DOMAIN entries \ {key}
        /\ \A k \in DOMAIN entries' : entries'[k] = entries[k]
    BY <2>1
  <2>3. /\ AsStore' = [v \in {w \in Vlads : vlad_hash(w) \in DOMAIN entries'} |->
                         AsStore[v]]
        /\ UNCHANGED <<AsTaken, AsKind, exported>>
        /\ Store!Answer(t, call, "Ok", <<>>)
    BY <1>1, <2>1, <2>2, UncacheMaps
  <2>4. call.vlad = text.vlad /\ call.op = "remove"
    BY <1>1 DEF AsCall, Op
  <2>5. text.vlad \in Vlads
    BY <1>1, <1>4 DEF Local, Call, Text, decodable
  <2>6. call.vlad \in DOMAIN AsStore
    BY <1>1, <1>4, <2>4, <2>5 DEF AsStore, Cached
  <2>7. {w \in Vlads : vlad_hash(w) \in DOMAIN entries'} = DOMAIN AsStore \ {call.vlad}
    <3>1. \A w : vlad_hash(w) \in DOMAIN entries' <=>
                   vlad_hash(w) \in DOMAIN entries /\ w # text.vlad
      BY <1>1, <2>2, HashInjective
    <3>2. DOMAIN AsStore = {w \in Vlads : vlad_hash(w) \in DOMAIN entries}
      BY DEF AsStore, Cached
    <3> QED
      BY <2>4, <3>1, <3>2
  <2>8. Store!Remove(t, call)
    BY <2>3, <2>4, <2>6, <2>7 DEF Store!Remove
  <2> QED
    BY <1>1, <2>8, Works
<1> QED
  BY <1>2, <1>3, <1>4

LEMMA ClearMaps ==
    ASSUME Inv, NEW t \in Threads, clear_cache(t)
    PROVE  Store!Next
<1>1. /\ th[t].pc = "start" /\ Op(t) = "clear" /\ DOMAIN entries' = {}
      /\ Answers(t, 0, "Ok", <<>>) /\ UNCHANGED <<accounts, issued, exported>>
  BY DEF clear_cache
<1>2. /\ AsStore' = [v \in {w \in Vlads : vlad_hash(w) \in DOMAIN entries'} |->
                       AsStore[v]]
      /\ UNCHANGED <<AsTaken, AsKind, exported>>
      /\ Store!Answer(t, AsCall(th[t].call), "Ok", <<>>)
  BY <1>1, UncacheMaps
<1>3. AsStore' = [v \in {} |-> Store!FreshAccount(<<>>)]
  BY <1>1, <1>2
<1>4. Store!Clear(t, AsCall(th[t].call))
  BY <1>1, <1>2, <1>3 DEF Store!Clear, AsCall, Op
<1> QED
  BY <1>1, <1>4, Works

\* A method reports a failure of the account that it found.
LEMMA ReadMaps ==
    ASSUME Inv, NEW t \in Threads, read(t)
    PROVE  Store!Next
<1> DEFINE call == AsCall(th[t].call)
<1>1. /\ th[t].pc = "operate" /\ Op(t) = "read"
      /\ UNCHANGED <<accounts, entries, issued, exported>>
  BY DEF read, Operating
<1>2. /\ LookedUp(t) /\ th[t].acct \in Nat
      /\ Acct(t) \in Account /\ Acct(t).vlad = th[t].call.text.vlad
  BY <1>1, LookedUpFacts
<1>3. call.op = "read" /\ call.vlad \in DOMAIN AsStore /\ Silent(t)
  BY <1>1, <1>2 DEF AsCall, Op, AsStore, LookedUp, Account
<1>4. /\ Store!Answer(t, call, "Ok", <<>>) \/ Store!Error(t, call, "Refused")
      /\ Moves(t) /\ th'[t].pc = "emit"
  <2>1. CASE Answers(t, th[t].acct, "Ok", <<>>)
    BY <1>2, <1>3, <2>1, OkMaps, EventTypes
  <2>2. CASE err_json(t, th[t].acct, "Refused")
    BY <1>2, <1>3, <2>2, ErrorMaps DEF Outcome
  <2> QED
    BY <2>1, <2>2 DEF read
<1>5. UNCHANGED <<AsStore, AsTaken, AsKind, exported>>
  BY <1>1, <1>4, SameData
<1>6. Store!Read(t, call)
  BY <1>3, <1>4, <1>5 DEF Store!Read
<1> QED
  BY <1>1, <1>6, Works

LEMMA ExportMaps ==
    ASSUME Inv, NEW t \in Threads, export_plog(t)
    PROVE  Store!Next
<1> DEFINE call == AsCall(th[t].call)
<1>1. /\ th[t].pc = "operate" /\ Op(t) = "export"
      /\ exported' = exported \cup {[vlad |-> Acct(t).vlad, log |-> Acct(t).log]}
      /\ Answers(t, th[t].acct, "Ok", <<>>)
      /\ UNCHANGED <<accounts, entries, issued>>
  BY DEF export_plog, Operating
<1>2. /\ LookedUp(t) /\ th[t].acct \in Nat
      /\ Acct(t) \in Account /\ Acct(t).vlad = th[t].call.text.vlad
      /\ Cached(th[t].call.text.vlad)
      /\ entries[vlad_hash(th[t].call.text.vlad)] = th[t].acct
  BY <1>1, LookedUpFacts DEF LookedUp
<1>3. /\ call.op = "export" /\ call.vlad \in DOMAIN AsStore /\ Silent(t)
      /\ call.vlad = Acct(t).vlad
  BY <1>1, <1>2 DEF AsCall, Op, AsStore, LookedUp, Account
<1>4. AsStore[call.vlad].log = Acct(t).log
  BY <1>2, <1>3, StoreFacts DEF AsStore, AsAccount, CachedAccount, Acct
<1>5. Store!Answer(t, call, "Ok", <<>>) /\ Moves(t) /\ th'[t].pc = "emit"
  BY <1>1, <1>2, <1>3, OkMaps, EventTypes
<1>6. AsStore' = AsStore
  BY <1>1, SameStore
<1>7. AsTaken' = AsTaken
  BY <1>1, <1>5 DEF AsTaken, Arriving, Moves
<1>8. AsKind' = AsKind
  BY <1>1 DEF AsKind
<1>9. Store!Export(t, call)
  BY <1>1, <1>3, <1>4, <1>5, <1>6, <1>7, <1>8 DEF Store!Export
<1> QED
  BY <1>1, <1>9, Works

\* The module and the store rely on the same contract.
LEMMA ContractShared ==
    ASSUME NEW a, NEW id
    PROVE  /\ refuse_results(a) = Store!refuse_results(a)
           /\ prepare_results(a, id) = Store!prepare_results(a, id)
           /\ commit_results(a, id, id) = Store!commit_results(a, id, id)
           /\ cancel_results(a, id) = Store!cancel_results(a, id)
<1>1. Purged(a) = Store!Purged(a)
  BY Zenon DEF Purged, Store!Purged
<1>2. \A b, out : Result(b, out) = Store!Result(b, out)
  BY Zenon DEF Result, Store!Result
<1>3. refuse_results(a) = Store!refuse_results(a)
  BY <1>1, <1>2, Zenon DEF refuse_results, Store!refuse_results
<1>4. prepare_results(a, id) = Store!prepare_results(a, id)
  BY <1>1, <1>2 DEF prepare_results, Store!prepare_results
<1>5. commit_results(a, id, id) = Store!commit_results(a, id, id)
  BY <1>1, <1>2 DEF commit_results, Store!commit_results
<1>6. cancel_results(a, id) = Store!cancel_results(a, id)
  BY <1>1, <1>2 DEF cancel_results, Store!cancel_results
<1> QED
  BY <1>3, <1>4, <1>5, <1>6

\* A call that changes the account it found.
LEMMA OperateFacts ==
    ASSUME Inv, Inv', NEW t \in Threads, th[t].pc = "operate",
           NEW r, Changes(t, r.account), UNCHANGED <<entries, exported>>
    PROVE  LET call == AsCall(th[t].call)
           IN  /\ call.op = Op(t) /\ call.id = th[t].call.id
               /\ call.vlad = Acct(t).vlad
               /\ call.vlad \in DOMAIN AsStore /\ Acct(t) \in Account
               /\ AsStore[call.vlad] = AsAccount(Acct(t))
               /\ Store!Put(call.vlad, Reduced(r).account)
               /\ Reduced(r).out = r.out
               /\ UNCHANGED <<AsTaken, exported>> /\ Silent(t)
<1>1. /\ LookedUp(t) /\ Acct(t) \in Account
      /\ Acct(t).vlad = th[t].call.text.vlad
  BY LookedUpFacts
<1>2. /\ th[t].call.text.vlad \in DOMAIN AsStore
      /\ AsStore[th[t].call.text.vlad] = AsAccount(Acct(t))
      /\ Store!Put(th[t].call.text.vlad, AsAccount(r.account))
  BY StorePut
<1>3. Reduced(r).account = AsAccount(r.account) /\ Reduced(r).out = r.out
  BY DEF Reduced, Result
<1>4. /\ AsCall(th[t].call).op = Op(t) /\ AsCall(th[t].call).id = th[t].call.id
      /\ AsCall(th[t].call).vlad = th[t].call.text.vlad
  BY DEF AsCall, Op
<1>5. UNCHANGED <<AsTaken, exported>> /\ Silent(t)
  BY <1>1 DEF Changes, LookedUp
<1> QED
  BY <1>1, <1>2, <1>3, <1>4, <1>5

LEMMA PrepareMaps ==
    ASSUME Inv, NEW t \in Threads, prepare(t)
    PROVE  Store!Next
<1> DEFINE call == AsCall(th[t].call)
<1>1. /\ Operating(t, "prepare") /\ th[t].pc = "operate" /\ Op(t) = "prepare"
      /\ UNCHANGED <<instance, entries, exported, announced>>
      /\ th[t].acct \in Nat
  BY LookedUpFacts DEF prepare, Operating
<1>2. ASSUME NEW r \in refuse_results(Acct(t)), SetAccount(t, r.account),
             err_json(t, th[t].acct, r.out), UNCHANGED issued
      PROVE  Store!Next
  <2>1. Inv' /\ Changes(t, r.account)
    BY <1>1, <1>2, RefuseKeepsInv
  <2>2. /\ call.op = "prepare" /\ call.vlad \in DOMAIN AsStore
        /\ Acct(t) \in Account /\ Silent(t)
        /\ AsStore[call.vlad] = AsAccount(Acct(t))
        /\ Store!Put(call.vlad, Reduced(r).account)
        /\ UNCHANGED <<AsTaken, exported>>
    BY <1>1, <2>1, OperateFacts
  <2>3. Reduced(r) \in Store!refuse_results(AsStore[call.vlad])
        /\ r.out = "Refused"
    BY <2>2, ContractReduced, ContractResults, ContractShared, SMTT(60)
  <2>4. Store!Error(t, call, "Refused")
    BY <1>1, <1>2, <2>2, <2>3, ErrorMaps DEF Outcome
  <2>5. AsKind' = AsKind
    BY <1>2 DEF AsKind
  <2>6. Store!Prepare(t, call)
    BY <2>2, <2>3, <2>4, <2>5 DEF Store!Prepare
  <2> QED
    BY <1>1, <2>6, Works
<1>3. ASSUME NEW id \in ChallengeIds \ DOMAIN issued,
             NEW r \in prepare_results(Acct(t), id), SetAccount(t, r.account),
             issued' = [i \in DOMAIN issued \cup {id} |->
                          IF i = id
                          THEN [account |-> th[t].acct, kind |-> th[t].call.kind]
                          ELSE issued[i]],
             th' = [th EXCEPT ![t] = [th[t] EXCEPT !.pc = "emit", !.out = "Ok",
                                                   !.call.id = id]]
      PROVE  Store!Next
  <2>1. /\ Inv' /\ Changes(t, r.account) /\ Moves(t)
        /\ th'[t].pc = "emit" /\ th'[t].out = "Ok"
        /\ th'[t].call = [th[t].call EXCEPT !.id = id]
        /\ th'[t].sent \o th'[t].todo = <<>>
    BY <1>1, <1>3, IssueKeepsInv
  <2>2. /\ call.op = "prepare" /\ call.vlad \in DOMAIN AsStore
        /\ Acct(t) \in Account
        /\ AsStore[call.vlad] = AsAccount(Acct(t))
        /\ Store!Put(call.vlad, Reduced(r).account)
        /\ UNCHANGED <<AsTaken, exported>>
    BY <1>1, <2>1, OperateFacts
  <2>3. Reduced(r) \in Store!prepare_results(AsStore[call.vlad], id)
    BY <2>2, ContractReduced, ContractShared
  <2>4. AsCall(th'[t].call) = [call EXCEPT !.id = id]
    <3>1. th[t].call \in Call
      BY DEF Inv, TypeOK, Local
    <3>2. /\ th'[t].call.op = th[t].call.op /\ th'[t].call.text = th[t].call.text
          /\ th'[t].call.id = id /\ th'[t].call.kind = th[t].call.kind
      BY <2>1, <3>1 DEF Call
    <3>3. AsCall(th'[t].call) =
            [op |-> th[t].call.op, vlad |-> th[t].call.text.vlad,
             id |-> id, kind |-> th[t].call.kind]
      BY <3>2 DEF AsCall
    <3>4. call = [op |-> th[t].call.op, vlad |-> th[t].call.text.vlad,
                  id |-> th[t].call.id, kind |-> th[t].call.kind]
      BY DEF AsCall
    <3> HIDE DEF call
    <3> QED
      BY <3>3, <3>4, IdReplaced
  <2>5. Store!Answer(t, [call EXCEPT !.id = id], "Ok", <<>>)
    BY <2>1, <2>4, AnswerMaps
  <2>6. AsKind' = [i \in DOMAIN AsKind \cup {id} |->
                     IF i = id THEN call.kind ELSE AsKind[i]]
    <3>1. DOMAIN AsKind = DOMAIN issued /\ call.kind = th[t].call.kind
      BY DEF AsKind, AsCall
    <3>2. DOMAIN issued' = DOMAIN issued \cup {id}
      BY <1>3
    <3>3. /\ issued'[id].kind = th[t].call.kind
          /\ \A i \in DOMAIN issued : i # id => issued'[i].kind = AsKind[i]
      BY <1>3 DEF AsKind
    <3>4. AsKind' = [i \in DOMAIN issued' |-> issued'[i].kind]
      BY DEF AsKind
    <3> HIDE DEF call
    <3> QED
      BY <3>1, <3>2, <3>3, <3>4
  <2>7. id \in ChallengeIds \ DOMAIN AsKind
    BY DEF AsKind
  <2>8. Store!Prepare(t, call)
    BY <2>2, <2>3, <2>5, <2>6, <2>7 DEF Store!Prepare
  <2> QED
    BY <1>1, <2>8, Works
<1>4. CASE \E r \in refuse_results(Acct(t)) :
             /\ SetAccount(t, r.account)
             /\ err_json(t, th[t].acct, r.out)
             /\ UNCHANGED issued
  BY <1>2, <1>4
<1>5. CASE \E id \in ChallengeIds \ DOMAIN issued :
           \E r \in prepare_results(Acct(t), id) :
             /\ SetAccount(t, r.account)
             /\ issued' = [i \in DOMAIN issued \cup {id} |->
                             IF i = id
                             THEN [account |-> th[t].acct, kind |-> th[t].call.kind]
                             ELSE issued[i]]
             /\ th' = [th EXCEPT ![t] = [th[t] EXCEPT !.pc = "emit", !.out = "Ok",
                                                      !.call.id = id]]
  BY <1>3, <1>5
<1> QED
  BY <1>4, <1>5 DEF prepare

\* The store and the module tell the same of an update.
LEMMA UpdateEventsMap ==
    ASSUME NEW id \in DOMAIN issued, NEW v
    PROVE  commit_events(id, v) = Store!UpdateEvents(id, v)
<1>1. AsKind[id] = issued[id].kind
  BY DEF AsKind
<1> QED
  BY <1>1 DEF commit_events, Store!UpdateEvents

LEMMA CommitMaps ==
    ASSUME Inv, NEW t \in Threads, commit_update(t)
    PROVE  Store!Next
<1> DEFINE call == AsCall(th[t].call)
           id   == th[t].call.id
<1>1. /\ th[t].pc = "operate" /\ Op(t) = "commit"
      /\ UNCHANGED <<entries, issued, exported>>
  BY DEF commit_update, Operating
<1>2. PICK r \in commit_results(Acct(t), id, id) :
        /\ Changes(t, r.account)
        /\ th'[t].pc = "emit" /\ th'[t].call = th[t].call /\ th'[t].out = r.out
        /\ th'[t].sent \o th'[t].todo =
              IF r.out = "Ok" THEN commit_events(id, Acct(t).vlad)
              ELSE <<ErrorEvent>>
  BY CommitKeepsInv
<1>3. Inv' /\ Moves(t) /\ id \in DOMAIN issued
  BY <1>1, CommitKeepsInv DEF LookedUp
<1>4. /\ call.op = "commit" /\ call.id = id /\ call.vlad = Acct(t).vlad
      /\ call.vlad \in DOMAIN AsStore /\ Acct(t) \in Account
      /\ AsStore[call.vlad] = AsAccount(Acct(t))
      /\ Store!Put(call.vlad, Reduced(r).account) /\ Reduced(r).out = r.out
      /\ UNCHANGED <<AsTaken, exported>>
  BY <1>1, <1>2, <1>3, OperateFacts
<1>5. Reduced(r) \in Store!commit_results(AsStore[call.vlad], call.id, call.id)
  BY <1>2, <1>4, ContractReduced, ContractShared
<1>6. Store!Answer(t, call, r.out,
                   IF r.out = "Ok" THEN commit_events(id, Acct(t).vlad)
                   ELSE <<ErrorEvent>>)
  BY <1>2, <1>3, AnswerMaps
<1>7. Store!Answer(t, call, r.out,
                   IF r.out = "Ok" THEN Store!UpdateEvents(call.id, call.vlad)
                   ELSE Store!ErrorEvents)
  BY <1>3, <1>4, <1>6, UpdateEventsMap DEF Store!ErrorEvents, ErrorEvent
<1>8. AsKind' = AsKind
  BY <1>1 DEF AsKind
<1>9. Store!Commit(t, call)
  BY <1>4, <1>5, <1>7, <1>8 DEF Store!Commit
<1> QED
  BY <1>1, <1>9, Works

LEMMA CancelMaps ==
    ASSUME Inv, NEW t \in Threads, cancel_update(t)
    PROVE  Store!Next
<1> DEFINE call == AsCall(th[t].call)
           id   == th[t].call.id
<1>1. /\ th[t].pc = "operate" /\ Op(t) = "cancel"
      /\ UNCHANGED <<entries, issued, exported>>
  BY DEF cancel_update, Operating
<1>2. PICK r \in cancel_results(Acct(t), id) :
        /\ Changes(t, r.account)
        /\ th'[t].pc = "emit" /\ th'[t].call = th[t].call /\ th'[t].out = r.out
        /\ th'[t].sent \o th'[t].todo =
              IF r.out = "Ok" THEN <<>> ELSE <<ErrorEvent>>
  BY CancelKeepsInv
<1>3. Inv' /\ Moves(t)
  BY CancelKeepsInv
<1>4. /\ call.op = "cancel" /\ call.id = id
      /\ call.vlad \in DOMAIN AsStore /\ Acct(t) \in Account
      /\ AsStore[call.vlad] = AsAccount(Acct(t))
      /\ Store!Put(call.vlad, Reduced(r).account) /\ Reduced(r).out = r.out
      /\ UNCHANGED <<AsTaken, exported>>
  BY <1>1, <1>2, <1>3, OperateFacts
<1>5. Reduced(r) \in Store!cancel_results(AsStore[call.vlad], call.id)
  BY <1>2, <1>4, ContractReduced, ContractShared
<1>6. Store!Answer(t, call, r.out, IF r.out = "Ok" THEN <<>> ELSE <<ErrorEvent>>)
  BY <1>2, <1>3, AnswerMaps
<1>7. AsKind' = AsKind
  BY <1>1 DEF AsKind
<1>8. Store!Cancel(t, call)
  BY <1>4, <1>5, <1>6, <1>7 DEF Store!Cancel, Store!ErrorEvents, ErrorEvent
<1> QED
  BY <1>1, <1>8, Works

\* Every step of the module is a step of the store or changes nothing of it.
LEMMA StepMaps ==
    ASSUME Inv, [Next]_vars
    PROVE  [Store!Next]_Store!storeVars
<1>1. CASE UNCHANGED vars
  <2>1. UNCHANGED <<instance, accounts, entries, issued, exported, announced, th>>
    BY <1>1 DEF vars
  <2>2. AsStore' = AsStore
    BY <2>1, SameStore
  <2>3. AsTaken' = AsTaken /\ AsKind' = AsKind
    BY <2>1 DEF AsTaken, Arriving, AsKind
  <2>4. AsCalls' = AsCalls
    BY <2>1 DEF AsCalls, AsCall
  <2> QED
    BY <2>1, <2>2, <2>3, <2>4 DEF Store!storeVars
<1>2. ASSUME NEW t \in Threads,
             \/ Dispatch(t) \/ NoMethod(t)
             \/ create_account(t) \/ import_plog(t) \/ insert(t)
             \/ remove_plog(t) \/ clear_cache(t)
             \/ entry(t) \/ export_plog(t) \/ read(t)
             \/ prepare(t) \/ commit_update(t) \/ cancel_update(t)
             \/ Emit(t) \/ Return(t)
      PROVE  Store!Next \/ UNCHANGED Store!storeVars
  <2>1. CASE Dispatch(t) \/ NoMethod(t) \/ Emit(t) \/ Return(t)
    BY <2>1, DispatchMaps, NoMethodMaps, EmitMaps, ReturnMaps
  <2>2. CASE create_account(t) \/ import_plog(t) \/ insert(t)
    BY <2>2, CreateMaps, ImportMaps, InsertMaps
  <2>3. CASE remove_plog(t) \/ clear_cache(t) \/ entry(t)
    BY <2>3, RemoveMaps, ClearMaps, EntryMaps
  <2>4. CASE export_plog(t) \/ read(t) \/ prepare(t) \/ commit_update(t)
             \/ cancel_update(t)
    BY <2>4, ExportMaps, ReadMaps, PrepareMaps, CommitMaps, CancelMaps
  <2> QED
    BY <1>2, <2>1, <2>2, <2>3, <2>4
<1> QED
  BY <1>1, <1>2 DEF Next

\* Every method takes effect in one step between its call and its answer: what
\* the hosts of module.rs see of the lookups, of the locks and of the events is
\* a behaviour of the store.
THEOREM ModuleImplementsStore == Spec => ImplementsAccountsStore
<1>1. Inv /\ [Next]_vars => [Store!Next]_Store!storeVars
  BY StepMaps
<1> QED
  BY InitMaps, InvHolds, <1>1, PTL DEF Spec, ImplementsAccountsStore, Store!Spec

=============================================================================

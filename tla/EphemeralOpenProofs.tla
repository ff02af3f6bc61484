------------------------- MODULE EphemeralOpenProofs -------------------------
(***************************************************************************)
(* Proofs about EphemeralOpen, for any keys, configs and number of         *)
(* openings.                                                               *)
(*                                                                         *)
(* The inductive invariant follows each ephemeral key from the draw to its *)
(* one signature: a key in use comes from one draw, for one opening and    *)
(* one role, and has signed nothing as long as its closure is uncalled.    *)
(***************************************************************************)
EXTENDS EphemeralOpen, ProvenanceLogProofs

DrawnPublic == {PublicOf[e] : e \in drawn}

\* The root key of the helper is the public half of what create was given, and
\* is what the log gets.
RootKept ==
    \A o \in Openings :
        LET s == opening[o]
        IN  /\ s.pc = "open" \/ HasLog(o) =>
                  s.given \in Multikeys /\ s.root = PublicOf[s.given]
            /\ HasLog(o) => s.key["entry"] # NoKey /\ s.key["vlad"] # NoKey
            /\ HasLog(o) => s.log = opened_log(s.key["entry"], s.root)

\* Every ephemeral key in use was drawn, once.
KeysDrawn ==
    \A o \in Openings, r \in Role : opening[o].key[r] # NoKey =>
        /\ opening[o].key[r] \in DrawnPublic
        /\ \A p \in Openings, q \in Role :
              opening[p].key[q] = opening[o].key[r] => p = o /\ q = r

\* A closure that was not called yet has a key that has not signed yet.
SignersUnused ==
    /\ \A mk \in Multikeys : signatures[mk] # 0 => mk \in DrawnPublic
    /\ \A o \in Openings : \A r \in opening[o].signers :
          /\ opening[o].key[r] # NoKey
          /\ signatures[opening[o].key[r]] = 0

Inv == TypeOK /\ RootKept /\ KeysDrawn /\ SignersUnused /\ EphemeralSignsOnce

-----------------------------------------------------------------------------

\* The state before create is called, or after it has failed.
LEMMA IdleTyped == Idle \in Opening
BY OpenAssumption DEF Idle, Opening, NoLog, Config, DefaultConfig

\* A state that an opening goes to by failing.
LEMMA FailedTyped ==
    ASSUME NEW error \in Failure
    PROVE  [Idle EXCEPT !.pc = error] \in Opening
BY IdleTyped DEF Opening, Failure

LEMMA InitInv == Init => Inv
<1> SUFFICES ASSUME Init PROVE Inv
  OBVIOUS
<1>1. TypeOK
  BY IdleTyped DEF Init, TypeOK, Idle
<1>2. \A o \in Openings :
        /\ opening[o].pc = "idle" /\ opening[o].signers = {}
        /\ \A r \in Role : opening[o].key[r] = NoKey
  BY DEF Init, Idle
<1> QED
  BY <1>1, <1>2 DEF Init, Inv, RootKept, KeysDrawn, SignersUnused,
                    EphemeralSignsOnce, HasLog

\* A step of one opening that draws and signs nothing, and keeps its keys and
\* closures or loses them all.
LEMMA QuietStep ==
    ASSUME Inv, NEW o \in Openings, NEW state \in Opening,
           Becomes(o, state), UNCHANGED <<drawn, signatures>>,
           state.resolved \subseteq {pubkey_key_path},
           \/ state.key = opening[o].key /\ state.signers = opening[o].signers
           \/ state.key = [r \in Role |-> NoKey] /\ state.signers = {},
           state.pc \in {"open", "opened", "created"} =>
               state.given \in Multikeys /\ state.root = PublicOf[state.given],
           state.pc \in {"opened", "created"} =>
               /\ state.key["entry"] # NoKey /\ state.key["vlad"] # NoKey
               /\ state.log = opened_log(state.key["entry"], state.root)
    PROVE  Inv'
<1>1. /\ opening' \in [Openings -> Opening]
      /\ opening'[o] = state
      /\ \A p \in Openings : p # o => opening'[p] = opening[p]
  BY DEF Becomes, Inv, TypeOK
<1>2. TypeOK'
  BY <1>1 DEF Inv, TypeOK
<1>3. RootKept'
  BY <1>1 DEF Inv, RootKept, HasLog
<1>4. \A p \in Openings, r \in Role :
        opening'[p].key[r] # NoKey => opening'[p].key[r] = opening[p].key[r]
  BY <1>1
<1>5. KeysDrawn'
  <2>1. DrawnPublic' = DrawnPublic
    BY DEF DrawnPublic
  <2> QED
    BY <1>4, <2>1 DEF Inv, KeysDrawn
<1>6. SignersUnused'
  <2>1. DrawnPublic' = DrawnPublic
    BY DEF DrawnPublic
  <2>2. \A p \in Openings : \A r \in opening'[p].signers :
           r \in opening[p].signers /\ opening'[p].key[r] = opening[p].key[r]
    BY <1>1
  <2> QED
    BY <2>1, <2>2 DEF Inv, SignersUnused
<1>7. EphemeralSignsOnce'
  BY DEF Inv, EphemeralSignsOnce
<1> QED
  BY <1>2, <1>3, <1>5, <1>6, <1>7 DEF Inv

\* A failure, of whatever kind.
LEMMA FailKeepsInv ==
    ASSUME Inv, NEW o \in Openings, NEW error \in Failure, Fail(o, error),
           UNCHANGED <<drawn, signatures>>
    PROVE  Inv'
<1> DEFINE state == [Idle EXCEPT !.pc = error]
<1>1. /\ state \in Opening
      /\ state.resolved = {} /\ state.signers = {}
      /\ state.key = [r \in Role |-> NoKey]
      /\ state.pc = error
  BY FailedTyped DEF Idle
<1>2. state.pc \notin {"open", "opened", "created"}
  BY <1>1 DEF Failure
<1>3. Becomes(o, state)
  BY DEF Fail
<1> HIDE DEF state
<1> QED
  BY <1>1, <1>2, <1>3, QuietStep

LEMMA NewKeepsInv ==
    ASSUME Inv, NEW o \in Openings, NEW mk \in Roots, NEW config \in Configs,
           New(o, mk, config)
    PROVE  Inv'
<1>1. CASE Fail(o, "Multikey")
  BY <1>1, FailKeepsInv DEF New, Failure
<1>2. ASSUME Becomes(o, [Idle EXCEPT !.pc = "open", !.config = config,
                             !.given = mk, !.root = ensure_public_multikey(mk)])
      PROVE  Inv'
  <2> DEFINE state == [Idle EXCEPT !.pc = "open", !.config = config,
                             !.given = mk, !.root = ensure_public_multikey(mk)]
  <2>1. /\ mk \in Multikeys /\ PublicOf[mk] \in Multikeys
        /\ ensure_public_multikey(mk) = PublicOf[mk]
    BY OpenAssumption DEF ensure_public_multikey, is_secret_key
  <2>2. /\ state \in Opening
        /\ state.resolved = {} /\ state.signers = {}
        /\ state.key = [r \in Role |-> NoKey]
        /\ state.pc = "open" /\ state.given = mk /\ state.root = PublicOf[mk]
    <3>1. state \in Opening
      BY <2>1, IdleTyped DEF Opening
    <3> QED
      BY <2>1, <3>1 DEF Idle
  <2>3. Becomes(o, state)
    BY <1>2
  <2> HIDE DEF state
  <2> QED
    BY <2>1, <2>2, <2>3, QuietStep DEF New
<1> QED
  BY <1>1, <1>2 DEF New

LEMMA GetKeyKeepsInv ==
    ASSUME Inv, NEW o \in Openings, NEW path \in Key, get_key(o, path)
    PROVE  Inv'
<1>1. CASE Fail(o, "InvalidOp")
  BY <1>1, FailKeepsInv DEF get_key, Failure
<1>2. ASSUME is_root_path(path),
             Becomes(o, [opening[o] EXCEPT !.resolved =
                            opening[o].resolved \cup {path}])
      PROVE  Inv'
  <2> DEFINE state == [opening[o] EXCEPT !.resolved =
                          opening[o].resolved \cup {path}]
  <2>1. opening[o] \in Opening /\ opening[o].pc = "open"
    BY DEF Inv, TypeOK, get_key
  <2>2. /\ state \in Opening
        /\ state.resolved = opening[o].resolved \cup {path}
        /\ state.pc = "open" /\ state.key = opening[o].key
        /\ state.signers = opening[o].signers
        /\ state.given = opening[o].given /\ state.root = opening[o].root
    BY <2>1 DEF Opening
  <2>3. state.resolved \subseteq {pubkey_key_path}
    BY <1>2, <2>2 DEF Inv, TypeOK, is_root_path
  <2>4. Becomes(o, state)
    BY <1>2
  <2>5. state.given \in Multikeys /\ state.root = PublicOf[state.given]
    BY <2>1, <2>2 DEF Inv, RootKept
  <2> HIDE DEF state
  <2> QED
    BY <2>2, <2>3, <2>4, <2>5, QuietStep DEF get_key
<1> QED
  BY <1>1, <1>2 DEF get_key

LEMMA CreateKeepsInv ==
    ASSUME Inv, NEW o \in Openings, Create(o)
    PROVE  Inv'
<1>1. CASE ~ensure_plog_verified(opening[o].log)
  BY <1>1, FailKeepsInv DEF Create, Fail, Failure
<1>2. CASE ensure_plog_verified(opening[o].log)
  <2> DEFINE state == [opening[o] EXCEPT !.pc = "created"]
  <2>1. opening[o] \in Opening /\ HasLog(o)
    BY DEF Inv, TypeOK, Create, HasLog
  <2>2. /\ state \in Opening /\ state.pc = "created"
        /\ state.resolved = opening[o].resolved
        /\ state.key = opening[o].key /\ state.signers = opening[o].signers
        /\ state.given = opening[o].given /\ state.root = opening[o].root
        /\ state.log = opening[o].log
    BY <2>1 DEF Opening
  <2>3. Becomes(o, state)
    BY <1>2 DEF Create
  <2> HIDE DEF state
  <2>4. state.resolved \subseteq {pubkey_key_path}
    BY <2>2 DEF Inv, TypeOK
  <2> QED
    BY <2>1, <2>2, <2>3, <2>4, QuietStep DEF Create, Inv, RootKept
<1> QED
  BY <1>1, <1>2

\* A fresh key is not the public half of any drawn before.
LEMMA DrawKeepsInv ==
    ASSUME Inv, NEW o \in Openings, NEW role \in Role,
           prepare_ephemeral_signing(o, role)
    PROVE  Inv'
<1>1. CASE Fail(o, "UnsupportedCodec") /\ UNCHANGED drawn
  BY <1>1, FailKeepsInv DEF prepare_ephemeral_signing, Failure
<1>2. ASSUME NEW secret \in NewSecret(o), drawn' = drawn \cup {secret},
             Becomes(o, [opening[o] EXCEPT !.key[role] = PublicOf[secret],
                             !.signers = opening[o].signers \cup {role}])
      PROVE  Inv'
  <2> DEFINE state == [opening[o] EXCEPT !.key[role] = PublicOf[secret],
                             !.signers = opening[o].signers \cup {role}]
             public == PublicOf[secret]
  <2>1. opening[o] \in Opening /\ opening[o].pc = "open" /\ signatures' = signatures
    BY DEF Inv, TypeOK, prepare_ephemeral_signing
  <2>2. public \in Multikeys /\ public # NoKey /\ secret \in Ephemerals \ drawn
    BY OpenAssumption, MultikeysAssumption DEF NewSecret, OsRng
  <2>3. /\ state \in Opening /\ state.pc = "open"
        /\ state.resolved = opening[o].resolved
        /\ state.key = [opening[o].key EXCEPT ![role] = public]
        /\ state.signers = opening[o].signers \cup {role}
        /\ state.given = opening[o].given /\ state.root = opening[o].root
    BY <2>1, <2>2 DEF Opening
  <2>4. public \notin DrawnPublic
    BY <2>2, RandomAssumption DEF DrawnPublic, Inv, TypeOK
  <2>5. DrawnPublic' = DrawnPublic \cup {public}
    BY <1>2 DEF DrawnPublic
  <2> HIDE DEF state, public
  <2>6. /\ opening' \in [Openings -> Opening]
        /\ opening'[o] = state
        /\ \A p \in Openings : p # o => opening'[p] = opening[p]
    BY <1>2, <2>3 DEF Becomes, Inv, TypeOK, state, public
  <2>7. TypeOK'
    BY <1>2, <2>1, <2>2, <2>3, <2>6 DEF Inv, TypeOK
  <2>8. RootKept'
    BY <2>1, <2>3, <2>6 DEF Inv, RootKept, HasLog
  <2>9. /\ opening'[o].key[role] = public
        /\ \A p \in Openings, r \in Role :
              p # o \/ r # role => opening'[p].key[r] = opening[p].key[r]
        /\ \A p \in Openings : \A r \in opening'[p].signers :
              p # o \/ r # role => r \in opening[p].signers
    BY <2>1, <2>3, <2>6 DEF Opening
  <2>10. \A p \in Openings, r \in Role : opening[p].key[r] # public
    BY <2>2, <2>4 DEF Inv, KeysDrawn
  <2>11. KeysDrawn'
    BY <2>5, <2>9, <2>10 DEF Inv, KeysDrawn
  <2>12. SignersUnused'
    <3>1. /\ \A mk \in Multikeys : signatures[mk] # 0 => mk \in DrawnPublic
          /\ signatures[public] = 0
      BY <2>2, <2>4 DEF Inv, SignersUnused, TypeOK
    <3>2. opening'[o].signers \in SUBSET Role
          /\ \A p \in Openings : opening'[p].signers \in SUBSET Role
      BY <2>6 DEF Opening
    <3>3. ASSUME NEW p \in Openings, NEW r \in opening'[p].signers
          PROVE  /\ opening'[p].key[r] # NoKey
                 /\ signatures[opening'[p].key[r]] = 0
      <4>1. CASE p = o /\ r = role
        BY <2>2, <2>9, <3>1, <4>1
      <4>2. CASE p # o \/ r # role
        <5>1. r \in opening[p].signers /\ opening'[p].key[r] = opening[p].key[r]
          BY <2>9, <3>2, <4>2
        <5> QED
          BY <5>1 DEF Inv, SignersUnused
      <4> QED
        BY <4>1, <4>2
    <3> QED
      BY <2>1, <2>5, <3>1, <3>3 DEF SignersUnused
  <2>13. EphemeralSignsOnce'
    BY <2>1 DEF Inv, EphemeralSignsOnce
  <2> QED
    BY <2>7, <2>8, <2>11, <2>12, <2>13 DEF Inv
<1> QED
  BY <1>1, <1>2 DEF prepare_ephemeral_signing

\* A closure is called: its key signs for the first time, and it is gone.
LEMMA SignKeepsInv ==
    ASSUME Inv, NEW o \in Openings, NEW role \in Role, SignOnce(o, role),
           NEW state \in Opening, Becomes(o, state),
           state.resolved = opening[o].resolved, state.key = opening[o].key,
           state.signers = opening[o].signers \ {role},
           state.given = opening[o].given, state.root = opening[o].root,
           \/ state.pc = "open"
           \/ /\ state.pc = "opened"
              /\ state.key["entry"] # NoKey /\ state.key["vlad"] # NoKey
              /\ state.log = opened_log(state.key["entry"], state.root)
    PROVE  Inv'
<1> DEFINE mine == opening[o].key[role]
<1>1. /\ opening' \in [Openings -> Opening]
      /\ opening'[o] = state
      /\ \A p \in Openings : p # o => opening'[p] = opening[p]
  BY DEF Becomes, Inv, TypeOK
<1>2. /\ signatures' = [signatures EXCEPT ![mine] = signatures[mine] + 1]
      /\ drawn' = drawn
      /\ opening[o].pc = "open" /\ role \in opening[o].signers
      /\ DrawnPublic' = DrawnPublic
  BY DEF SignOnce, DrawnPublic
<1>3. mine \in Multikeys /\ mine \in DrawnPublic /\ signatures[mine] = 0
  <2>1. mine \in Multikeys \cup {NoKey}
    BY DEF Inv, TypeOK, Opening
  <2> QED
    BY <1>2, <2>1 DEF Inv, KeysDrawn, SignersUnused
<1>4. /\ signatures' \in [Multikeys -> Nat] /\ signatures'[mine] = 1
      /\ \A mk \in Multikeys : mk # mine => signatures'[mk] = signatures[mk]
  BY <1>2, <1>3 DEF Inv, TypeOK
<1>5. TypeOK'
  BY <1>1, <1>2, <1>4 DEF Inv, TypeOK
<1>6. RootKept'
  BY <1>1, <1>2 DEF Inv, RootKept, HasLog
<1>7. \A p \in Openings, r \in Role : opening'[p].key[r] = opening[p].key[r]
  BY <1>1
<1>8. KeysDrawn'
  BY <1>2, <1>7 DEF Inv, KeysDrawn
<1>9. SignersUnused'
  <2>1. \A mk \in Multikeys : signatures'[mk] # 0 => mk \in DrawnPublic'
    BY <1>2, <1>3, <1>4 DEF Inv, SignersUnused
  <2>2. ASSUME NEW p \in Openings, NEW r \in opening'[p].signers
        PROVE  /\ opening'[p].key[r] # NoKey
               /\ signatures'[opening'[p].key[r]] = 0
    <3>1. r \in opening[p].signers /\ r \in Role /\ (p # o \/ r # role)
      BY <1>1 DEF Inv, TypeOK, Opening
    <3>2. opening[p].key[r] # NoKey /\ opening[p].key[r] # mine
      BY <1>3, <3>1 DEF Inv, SignersUnused, KeysDrawn
    <3>3. opening[p].key[r] \in Multikeys
      BY <3>1, <3>2 DEF Inv, TypeOK, Opening
    <3> QED
      BY <1>4, <1>7, <3>1, <3>2, <3>3 DEF Inv, SignersUnused
  <2> QED
    BY <2>1, <2>2 DEF SignersUnused
<1>10. EphemeralSignsOnce'
  BY <1>3, <1>4 DEF Inv, EphemeralSignsOnce
<1> QED
  BY <1>5, <1>6, <1>8, <1>9, <1>10 DEF Inv

LEMMA SignVladKeepsInv ==
    ASSUME Inv, NEW o \in Openings, SignVlad(o)
    PROVE  Inv'
<1> DEFINE state == [opening[o] EXCEPT !.signers = opening[o].signers \ {"vlad"}]
<1>1. opening[o] \in Opening /\ opening[o].pc = "open"
  BY DEF Inv, TypeOK, SignVlad, SignOnce
<1>2. /\ state \in Opening /\ state.pc = "open"
      /\ state.resolved = opening[o].resolved /\ state.key = opening[o].key
      /\ state.signers = opening[o].signers \ {"vlad"}
      /\ state.given = opening[o].given /\ state.root = opening[o].root
  BY <1>1 DEF Opening
<1>3. SignOnce(o, "vlad") /\ Becomes(o, state) /\ "vlad" \in Role
  BY DEF SignVlad, Role
<1> HIDE DEF state
<1> QED
  BY <1>2, <1>3, SignKeepsInv

LEMMA SignEntryKeepsInv ==
    ASSUME Inv, NEW o \in Openings, SignEntry(o)
    PROVE  Inv'
<1> DEFINE l == opened_log(opening[o].key["entry"], opening[o].root)
           state == [opening[o] EXCEPT !.pc = "opened",
                         !.signers = opening[o].signers \ {"entry"}, !.log = l]
<1>1. /\ opening[o] \in Opening /\ opening[o].pc = "open"
      /\ "entry" \in Role /\ "vlad" \in Role
  BY DEF Inv, TypeOK, SignEntry, SignOnce, Role
<1>2. /\ opening[o].key["entry"] \in Multikeys /\ opening[o].root \in Multikeys
      /\ opening[o].key["entry"] # NoKey /\ opening[o].key["vlad"] # NoKey
  <2>1. opening[o].key["entry"] # NoKey
    BY DEF Inv, SignersUnused, SignEntry, SignOnce
  <2>2. opening[o].root = PublicOf[opening[o].given]
        /\ opening[o].given \in Multikeys
    BY <1>1 DEF Inv, RootKept
  <2>3. opening[o].key["vlad"] # NoKey
    BY DEF SignEntry, VladSigned
  <2> QED
    BY <1>1, <2>1, <2>2, <2>3, OpenAssumption DEF Opening
<1>3. l \in Seq(Entry)
  BY <1>2, OpenedVerified
<1> HIDE DEF l
<1>4. /\ state \in Opening /\ state.pc = "opened" /\ state.log = l
      /\ state.resolved = opening[o].resolved /\ state.key = opening[o].key
      /\ state.signers = opening[o].signers \ {"entry"}
      /\ state.given = opening[o].given /\ state.root = opening[o].root
  BY <1>1, <1>3 DEF Opening
<1>5. SignOnce(o, "entry") /\ Becomes(o, state)
  BY DEF SignEntry, l
<1>6. state.log = opened_log(state.key["entry"], state.root)
  BY <1>4 DEF l
<1> HIDE DEF state
<1> QED
  BY <1>1, <1>2, <1>4, <1>5, <1>6, SignKeepsInv

-----------------------------------------------------------------------------

\* The inductive invariant.
LEMMA InvHolds == Spec => []Inv
<1>1. Inv /\ [Next]_vars => Inv'
  <2> SUFFICES ASSUME Inv, [Next]_vars PROVE Inv'
    OBVIOUS
  <2>1. CASE UNCHANGED vars
    BY <2>1 DEF vars, Inv, TypeOK, RootKept, KeysDrawn, SignersUnused,
                EphemeralSignsOnce, DrawnPublic, HasLog
  <2>2. ASSUME NEW o \in Openings, try_sign(o) PROVE Inv'
    BY <2>2, FailKeepsInv DEF try_sign, Failure
  <2> QED
    BY <2>1, <2>2, NewKeepsInv, DrawKeepsInv, GetKeyKeepsInv, SignVladKeepsInv,
       SignEntryKeepsInv, CreateKeepsInv DEF Next
<1> QED
  BY <1>1, InitInv, PTL DEF Spec

\* Type correctness; no log that opens holds a foreign key.
THEOREM OpenTypeCorrect == Spec => []TypeOK
BY InvHolds, PTL DEF Inv

\* Whatever form of the root key create was given, its holder can extend the
\* log, and nobody else can.
THEOREM OwnerAlone == Spec => []OwnerAloneExtends
<1>1. Inv => OwnerAloneExtends
  <2> SUFFICES ASSUME Inv, NEW o \in Openings, HasLog(o), NEW mk \in Multikeys
               PROVE  Authorised(opening[o].log, Probe(mk))
                        <=> mk = PublicOf[opening[o].given]
    BY DEF OwnerAloneExtends
  <2>1. /\ opening[o].log = opened_log(opening[o].key["entry"], opening[o].root)
        /\ opening[o].root = PublicOf[opening[o].given]
        /\ opening[o].root \in Multikeys
    BY OpenAssumption DEF Inv, RootKept
  <2> QED
    BY <2>1, OpenedAuthorises DEF Probe
<1> QED
  BY <1>1, InvHolds, PTL

\* An ephemeral key signs one thing.
THEOREM SignsOnce == Spec => []EphemeralSignsOnce
BY InvHolds, PTL DEF Inv

=============================================================================

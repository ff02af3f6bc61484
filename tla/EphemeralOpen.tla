---------------------------- MODULE EphemeralOpen ----------------------------
(***************************************************************************)
(* The creation of accounts (rust-lib/src/ephemeral_open.rs and            *)
(* PlogAccount::create): BetterSign opens a log and asks a helper for keys *)
(* and signatures.  The helper makes an ephemeral key for the VLAD and one *)
(* for the first entry, each with a signer that can be called once, and    *)
(* hands out the public half of the root key it was given, which it never  *)
(* signs with.                                                             *)
(*                                                                         *)
(* BetterSign is external: its callbacks come in any order that their data *)
(* allow.  Several logs may be opened at a time, each with its own helper. *)
(***************************************************************************)
EXTENDS OpenConfig

CONSTANTS
    Openings,   \* calls of create
    PublicOf,   \* Multikey -> the key that to_public_key makes of it
    Unreadable, \* Multikeys of a codec without views
    Ephemerals, \* secret keys that the random generator may draw
    Roots,      \* Multikeys passed to create, public or secret
    Codecs,     \* key codecs that a config may name
    Configs     \* open configs: default_open_config's, and those of other
                \* users of the helper

\* The ephemeral keys: of the VLAD and of the first entry.
Role == {"vlad", "entry"}

\* A config names the codec of each ephemeral key and the paths, "/pubkey"
\* among them, whose keys BetterSign asks the helper for.
Config == [codec : [Role -> Codecs], keygens : SUBSET Key]

DefaultConfig == [codec   |-> [r \in Role |-> "Secp256K1Priv"],
                  keygens |-> {pubkey_key_path}]

is_secret_key(mk) == PublicOf[mk] # mk

ASSUME OpenAssumption ==
    /\ PublicOf \in [Multikeys -> Multikeys]
    /\ \A mk \in Multikeys : ~is_secret_key(PublicOf[mk])
    /\ Ephemerals \subseteq Multikeys /\ Roots \subseteq Multikeys
    /\ \A e \in Ephemerals : is_secret_key(e)
    /\ "Secp256K1Priv" \in Codecs
    /\ DefaultConfig \in Configs
    /\ Configs \subseteq {c \in Config : pubkey_key_path \in c.keygens}

\* A random secret is nobody else's, and no other secret has its public key.
ASSUME RandomAssumption ==
    \A e \in Ephemerals, mk \in Ephemerals \cup Roots :
        PublicOf[e] = PublicOf[mk] => e = mk /\ mk \notin Roots

VARIABLES
    opening,    \* opening -> its state
    drawn,      \* every secret drawn so far: history, kept by no code
    signatures  \* key -> number of signatures made with it: history

vars == <<opening, drawn, signatures>>

NoLog == <<>>

Failure == {"Multikey", "UnsupportedCodec", "InvalidOp", "PlogVerifyFailed"}

\* The parts that are not there yet are NoKey and NoLog.  "signers" are the
\* sign_once closures not yet called, "resolved" the paths with a key.
Opening == [pc : {"idle", "open", "opened", "created"} \cup Failure,
            config : Configs, given : Multikeys \cup {NoKey},
            root : Multikeys \cup {NoKey},
            key : [Role -> Multikeys \cup {NoKey}], signers : SUBSET Role,
            resolved : SUBSET Key, log : Seq(Entry)]

Idle == [pc |-> "idle", config |-> DefaultConfig, given |-> NoKey,
         root |-> NoKey, key |-> [r \in Role |-> NoKey], signers |-> {},
         resolved |-> {}, log |-> NoLog]

Init ==
    /\ opening = [o \in Openings |-> Idle]
    /\ drawn = {}
    /\ signatures = [mk \in Multikeys |-> 0]

-----------------------------------------------------------------------------

Becomes(o, state) == opening' = [opening EXCEPT ![o] = state]

\* `?' drops the helper and everything made so far.
Fail(o, error) == Becomes(o, [Idle EXCEPT !.pc = error])

\* Mutant: a secret key is kept as it is.
keep_multikey(mk) == mk

ensure_public_multikey(mk) == IF is_secret_key(mk) THEN PublicOf[mk] ELSE mk

\* EphemeralOpenHelper::new
New(o, mk, config) ==
    /\ opening[o].pc = "idle"
    /\ \/ mk \in Unreadable /\ Fail(o, "Multikey")
       \/ /\ mk \notin Unreadable
          /\ Becomes(o, [Idle EXCEPT !.pc = "open", !.config = config,
                             !.given = mk, !.root = ensure_public_multikey(mk)])
    /\ UNCHANGED <<drawn, signatures>>

require_secp256k1_priv(codec) == codec = "Secp256K1Priv"

\* The generator of the system, external: it is assumed never to draw a secret
\* twice, which is what the record of all draws is for.
OsRng == Ephemerals \ drawn

\* Mutant: the helper keeps the first key it made and hands it out for the
\* other role too.
KeptSecret(o) ==
    LET kept == {e \in drawn : \E r \in Role : opening[o].key[r] = PublicOf[e]}
    IN  IF kept = {} THEN OsRng ELSE kept

\* Each ephemeral key of an opening is made from random bytes of its own.
NewSecret(o) == OsRng

prepare_ephemeral_signing(o, role) ==
    /\ opening[o].pc = "open" /\ opening[o].key[role] = NoKey
    /\ \/ /\ ~require_secp256k1_priv(opening[o].config.codec[role])
          /\ Fail(o, "UnsupportedCodec")
          /\ UNCHANGED drawn
       \/ /\ require_secp256k1_priv(opening[o].config.codec[role])
          /\ \E secret \in NewSecret(o) :
                /\ drawn' = drawn \cup {secret}
                /\ Becomes(o, [opening[o] EXCEPT !.key[role] = PublicOf[secret],
                                                 !.signers = @ \cup {role}])
    /\ UNCHANGED signatures

\* Mutant: the root key is handed out for any path.
any_path_is_root(path) == TRUE

is_root_path(path) == path = pubkey_key_path

\* get_root_or_err
get_key(o, path) ==
    /\ opening[o].pc = "open"
    /\ path \in opening[o].config.keygens \ opening[o].resolved
    /\ \/ ~is_root_path(path) /\ Fail(o, "InvalidOp")
       \/ /\ is_root_path(path)
          /\ Becomes(o, [opening[o] EXCEPT !.resolved = @ \cup {path}])
    /\ UNCHANGED <<drawn, signatures>>

\* Long-lived keys do not sign here.
try_sign(o) ==
    /\ opening[o].pc = "open"
    /\ Fail(o, "InvalidOp")
    /\ UNCHANGED <<drawn, signatures>>

\* The call of a sign_once closure, which consumes it.
SignOnce(o, role) ==
    /\ opening[o].pc = "open" /\ role \in opening[o].signers
    /\ signatures' = [signatures EXCEPT ![opening[o].key[role]] = @ + 1]
    /\ UNCHANGED drawn

SignVlad(o) ==
    /\ SignOnce(o, "vlad")
    /\ Becomes(o, [opening[o] EXCEPT !.signers = @ \ {"vlad"}])

VladSigned(o) ==
    opening[o].key["vlad"] # NoKey /\ "vlad" \notin opening[o].signers

\* The entry names the VLAD and holds every key; it is signed last.
SignEntry(o) ==
    /\ SignOnce(o, "entry")
    /\ VladSigned(o) /\ opening[o].resolved = opening[o].config.keygens
    /\ Becomes(o, [opening[o] EXCEPT
                     !.pc = "opened", !.signers = @ \ {"entry"},
                     !.log = opened_log(opening[o].key["entry"], opening[o].root)])

\* The rest of PlogAccount::create.
Create(o) ==
    /\ opening[o].pc = "opened"
    /\ Becomes(o, IF ensure_plog_verified(opening[o].log)
                  THEN [opening[o] EXCEPT !.pc = "created"]
                  ELSE [Idle EXCEPT !.pc = "PlogVerifyFailed"])
    /\ UNCHANGED <<drawn, signatures>>

Next ==
    \E o \in Openings :
        \/ \E mk \in Roots, config \in Configs : New(o, mk, config)
        \/ \E role \in Role : prepare_ephemeral_signing(o, role)
        \/ \E path \in Key : get_key(o, path)
        \/ try_sign(o)
        \/ SignVlad(o) \/ SignEntry(o)
        \/ Create(o)

Spec == Init /\ [][Next]_vars

-----------------------------------------------------------------------------

\* The types of the openings.  A log that opens holds no key but its own entry
\* key and the root key at "/pubkey".
TypeOK ==
    /\ opening \in [Openings -> Opening]
    /\ drawn \subseteq Ephemerals
    /\ signatures \in [Multikeys -> Nat]
    /\ \A o \in Openings : opening[o].resolved \subseteq {pubkey_key_path}

HasLog(o) == opening[o].pc \in {"opened", "created"}

\* An entry without ops, signed by mk.
Probe(mk) == [ops |-> <<>>, proof |-> [by |-> mk, binds |-> TRUE]]

\* "Root private keys never enter this type": whoever holds the root key can
\* extend the log, though create was given its secret form, and nobody else
\* can, the ephemeral keys that made the log included.
OwnerAloneExtends ==
    \A o \in Openings : HasLog(o) =>
        \A mk \in Multikeys :
            Authorised(opening[o].log, Probe(mk)) <=> mk = PublicOf[opening[o].given]

\* No key signs twice while logs are opened: the VLAD and the entry are signed
\* with keys of their own, a closure signs once, and no key of an opening,
\* failed ones included, serves another one.
EphemeralSignsOnce == \A mk \in Multikeys : signatures[mk] <= 1

=============================================================================

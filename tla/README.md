# logos-accounts in TLA+

Specifications, model-checking runs and proofs for `logos-accounts`, a Logos
module that caches BetterSign provenance logs and lets external key holders
extend them. Paths below are relative to the repository.

## 1. The system

| Part | Source | State | Operations |
|------|--------|-------|------------|
| Account | `rust-lib/src/api.rs` `PlogAccount` | the verified log; a map of pending challenges | `create`, `import`, `prepare_update`, `prepare_delegate`, `prepare_revoke`, `commit_update`, `cancel_update`; reads `get_value`, `list_delegations`, `summary`, `export_plog` |
| Entry assembly | `entry_update.rs` | none | `prepare_next_entry`, `commit_with_multisig`, `locks_replacing_path`, `op_from_params` |
| Path policy | `config.rs` | none | `parse_branch_path`, `delegate_pubkey_key`, `delegated_branch_lock_script`, `default_open_config` |
| Closest parent | `api.rs` `resolve_closest_parent_signing_key` | loop variables | one pass over the delegations |
| Creation | `ephemeral_open.rs` | the injected root key | key-manager callbacks while BetterSign opens the log |
| Cache | `cache.rs`, `vlad_hash.rs` | hash of VLAD -> shared, locked account | `insert`, `get`, `remove`, `clear` |
| Module | `module.rs` | a cache and a runtime | the twelve LIDL methods, each with its events |
| Provider scaffold | `generated/provider_gen.rs` | registration, instance, context, event callback, hook flag | `logos_module_dispatch`, `set_context`, `set_emit_callback`, `ensure_ready` |
| Encodings, conversions, verifier | `encoding.rs`, `convert.rs`, `verifier.rs` | none | text and byte formats |
| BetterSign | external crates | | `Log::verify`, `Log::try_append`, `open_plog`, lock scripts |

A write has two halves. A *prepare* call assembles the next entry on the current
head, stores it under a random challenge id and hands out its bytes together
with the path of the key that should sign. Somebody else signs. `commit_update`
brings the signature back, attaches it to the stored entry and appends it, if
the library verifies it. Between the halves lie other prepares, other commits,
cancellations, and up to fifteen minutes, after which the challenge is expired.

The host reaches an account through the scaffold (three process-wide mutexes),
the module, the cache (a mutex around the map) and the mutex of the account.
A call on an account therefore runs alone.

What is hard here:

- challenges prepared on a head that has moved, signatures that come back in any
  order, after expiry, or for another challenge (section 5, hazards in
  `PROJECT.json`);
- a creation that fails between callbacks, or runs beside another;
- what a delegation means after any sequence of nested delegations, revocations,
  raw lock changes and key rotations;
- accounts replaced or removed in the cache while a call holds one;
- host callbacks that run while locks are held, and a start-up hook that three
  entry points race to run.

What makes each part correct:

- *account*: only what was handed out to be signed is appended, on the head it
  was prepared on, before it expires, once; the log always verifies; a
  delegation or revocation does what it says and nothing else;
- *closest parent*: the longest proper ancestor, whatever the order of the list;
- *cache and module*: one account per VLAD however it is spelled, no commit lost
  to a replaced account, events that agree with what happened;
- *creation*: the owner, and nobody else, can extend the log, whatever form of the
  root key was given; ephemeral keys are used once;
- *scaffold*: the hook runs once, with the context; no deadlock without
  re-entrant callbacks.

## 2. Modules

| Module | Models | Uses |
|--------|--------|------|
| `KeyPaths` | key paths, path policy, closed form of the closest parent | |
| `ProvenanceLog` | the BetterSign library as the code uses it (external) | `KeyPaths` |
| `OpenConfig` | the log that BetterSign opens from `default_open_config` | `ProvenanceLog` |
| `EphemeralOpen` | `create`: the helper that BetterSign calls back for keys and signatures | `OpenConfig` |
| `AccountContract` | what one call of an account may answer and change | |
| `PlogAccount` | the account, its requests and its properties | `OpenConfig`, `OptimisticLog`, `AccountContract` |
| `OptimisticLog` | abstract specification of an account | |
| `ClosestParent` | the loop of `resolve_closest_parent_signing_key` | `KeyPaths` |
| `AccountsModule` | the methods of the module over the cache | `AccountContract`, `AccountsStore` |
| `AccountsStore` | abstract specification of the module: one step per method | `AccountContract` |
| `Provider` | the C ABI: locks, start-up hook, callback | |
| `HexCodec` | `encode_hex` and the loop of `decode_hex` | |
| `MCPlogAccount`, `MCClosestParent`, `MCEphemeralOpen`, `MCAccountsModule`, `MCProvider`, `MCHexCodec` | instances for TLC | |
| `ProvenanceLogProofs` | lemmas about key paths, logs and the open config | `OpenConfig` |
| `PlogAccountProofs`, `EphemeralOpenProofs` | theorems | `ProvenanceLogProofs` |
| `ClosestParentProofs`, `AccountsModuleProofs`, `ProviderProofs`, `HexCodecProofs` | theorems | |
| `PlogAccountRefinement` | theorems: the account implements `OptimisticLog` and keeps `AccountContract` | `PlogAccountProofs` |

The state machines are layers of one program, each with the detail its own
hazards need. `Provider` knows when locks are taken and how many events a method
emits; `AccountsModule` knows which account a method works on and which events it
emits, one thread at a time because `Provider`'s INSTANCE is held;
`PlogAccount` knows what one call does to one account; `EphemeralOpen` knows where
an account comes from. The layers meet in definitions they share: `EphemeralOpen`
makes the log that `PlogAccount` starts from (`opened_log`), and `PlogAccount` keeps
the contract on which `AccountsModule` and `AccountsStore` are built.

```
AccountsStore  <--implemented by--  AccountsModule  --relies on-->  AccountContract
                                                                        ^
OptimisticLog  <--implemented by--  PlogAccount  -------keeps-----------+
                                        |
                                    OpenConfig  <--makes--  EphemeralOpen
```

### KeyPaths and ProvenanceLog

A key path is a directory (a sequence of segments) and a leaf; a branch has no
leaf; a string that `Key::try_from` rejects is the value `Malformed`. `StrLen` is
the length of a branch's string, of which only "a branch is shorter than the
branches below it" is assumed.

BetterSign is external. The model takes from the way `rust-lib/src` uses it:

- an entry chains to the CID of its predecessor; a CID stands for the whole
  history it hashes (ideal hash), written as the sequence of bodies so far;
- a signature names its signer and says whether it was made over the entry it is
  attached to (ideal signature);
- an entry is accepted if some lock of the previous entry governs all its ops and
  is satisfied; an entry without ops answers to the lock at `/`;
- lock scripts run with the domain of the log, so that `branch("pubkey")` means
  `/pubkey` (the comment on `delegated_lock_code` in `config.rs`);
- the last write of a key wins, and deleting an absent key does nothing;
- `try_append` verifies before it changes the log.

The order and the multiplicity of locks do not matter to any of this, so the
locks of an entry are a set. The VLAD field is left out: one account has one.

### PlogAccount

| Variable | Code |
|----------|------|
| `log` | `PlogAccount.log` |
| `pending` | `PlogAccount.pending`; `age` stands for `created_at`, counted up by `Tick` to `CHALLENGE_TTL` |
| `issued` | the `UpdateChallenge`s handed out so far: what signers hold |
| `reply` | the outcome of the last call, with the challenge it names |

One action per call: `prepare_update`, `prepare_delegate`, `prepare_revoke`,
`commit_update`, `cancel_update`; `Init` is `create` or an `import` that
verifies; `Tick` is the clock. The order of effects is that of the code: invalid
input is refused before anything is purged; an unknown lock keyword or a malformed
lock path is refused after the purge; a commit takes the challenge out of the map
before it looks at the head or the signature; a successful commit drops all other
challenges. A signer may sign the message of any challenge ever handed out, so a
signature may arrive late, twice, or for another challenge. The secret of the
ephemeral entry key does not outlive `create` and signs nothing here. The keys given
to `prepare_delegate` are taken to be public: the code makes the root key public
(`ensure_public_multikey`), but publishes a delegate's key as it was given.

Reads (`get_value`, `list_delegations`, `summary`, `export_plog`) change nothing
and are not actions. `list_delegations` is an operator, because the sugar calls
and several properties depend on it.

### OptimisticLog

What an account promises without keys, locks and clocks: an append-only history;
tickets opened against its current end; a commit appends exactly the payload of
an open ticket and voids the others; no ticket is opened twice. `PlogAccount`
implements it (`ImplementsOptimisticLog`): tickets are challenge ids, payloads are
entries without their proofs.

### AccountContract

An account as its holder sees it: a log, here any sequence, and a set of pending ids.
For each kind of call the module gives the possible results, an account and an
answer: a refused prepare may have purged; an issued one adds its id; a commit spends
its id, and either appends what was prepared and drops all others, or leaves the log
alone; a cancel drops its id. `PlogAccount!KeepsContract` says that every step of the
account that is a call is one of these results.

### OpenConfig and EphemeralOpen

| Variable | Code |
|----------|------|
| `opening` | per call of `create`: the helper's `root_pubkey`, the config, the ephemeral public keys made, the `sign_once` closures not yet called, the paths resolved, the log |
| `drawn` | none: the history of all secrets drawn, to state what is assumed of the random generator |
| `signatures` | none: the history of signing, the number of signatures made with each key |

`open_plog` is external. It asks the helper for an ephemeral key for the VLAD and one
for the first entry (`prepare_ephemeral_signing`) and for the key of each path in the
config (`get_key`), in any order; it may ask for a long-lived signature (`try_sign`),
which fails; the VLAD is signed before the entry, and the entry, which holds all keys,
last. A closure is consumed by its call. Any error ends the opening and drops the
helper; what was drawn and signed before is not undone. `create` then verifies the log.
The generator is external too (`OsRng`): that it never draws a secret twice is assumed,
not shown. What the model shows is what the helper makes of the draws.
`create` always passes `default_open_config`; the helper is exported from the crate, so
other configs are possible, and the model gives it some: other codecs, which it refuses,
and another path to make a key for, which it refuses too. Its `root_pubkey` may be given
as a public or a secret Multikey, or as one of a codec without views.

### ClosestParent

The loop variables `i`, `best` and the result, over any list of path strings:
malformed, duplicate, unrelated and unsorted ones too.

### AccountsModule

| Variable | Code |
|----------|------|
| `instance` | the owner of the mutex `INSTANCE`, which the dispatcher holds during a method |
| `accounts` | every `PlogAccount` made by `create` or `import`; an index stands for the `Arc` |
| `entries` | `AccountCache.entries`, from the hash of a VLAD to an `Arc` |
| `issued` | the account and kind of every challenge handed out |
| `exported` | the log texts a caller may bring to `import_plog` |
| `announced` | VLADs of `account_created` events, less those removed or cleared since |
| `th` | per thread: step, arguments, the account looked up, the answer, the events to send and sent |

A method is a sequence of steps: start, look up (`entry`), operate with the account
locked, emit, return; `create_account` and `import_plog` make an account, then
`insert` it, and `create_account` emits its event in between, as in the code. All
ways of failing end in `err_json`, which emits an event, except that a name that is no
method, or a method with too few arguments, is answered by a null pointer. A text is a VLAD in some
multibase; the cache key is the canonical text (the hash is taken to be injective).
A log is the sequence of challenges it was committed from. What one account answers
is any outcome: a prepare may be refused, a signature may be wrong, and any pending
challenge may have expired by the time of a call. The account is any one that
keeps `AccountContract`, which `PlogAccount` is proved to keep.

The model takes several threads although `INSTANCE` serialises them: that it does
is what makes `OkIsInCache` and `AnnouncedIsUsable` true, and both fail without it.

### AccountsStore

What a host sees of the module: a map from VLADs to accounts, and threads that call a
method, have it take effect in one step, and get the answer together with the events of
the call. Nothing is looked up first, no text has spellings, no lock is held. A method
of `AccountsModule` takes effect when its answer is settled: at the `insert` for `create`
and `import`, at the operation on the account for the others; all other steps are
stutters (`ImplementsAccountsStore`). The store's `taken` are the identities of accounts
ever created, so a create never replaces an account and an import may.

### Provider

| Variable | Code |
|----------|------|
| `registered`, `created`, `context`, `emit`, `hook_fired` | `REGISTERED`, `INSTANCE` (is it `Some`), `CONTEXT`, `EMIT`, `HOOK_FIRED` |
| `owner` | which thread holds each of `REGISTERED`, `INSTANCE`, `EMIT` |
| `pc`, `call`, `seen` | per thread: next step, current call, context or callback read |
| `hooks` | contexts `on_context_ready` ran with |
| `calls` | number of calls, bounded by `MaxCalls` |

Each lock acquisition and each read of a static is a step of its own. The statics
are read one after the other in `ensure_impl`, and `set_context` and
`set_emit_callback` may store between the reads. `CONTEXT` is locked for a single
load or store. The callback is host code that returns and does not call back in.

### HexCodec

The argument, the text left after `trim` and `strip_prefix`, the byte offset of the
loop, the bytes so far and the result. A text is a sequence of bytes because the
code slices it by byte offsets; one character of the alphabet takes two bytes, and
a slice that ends inside it panics. `str::trim` and `u8::from_str_radix` belong to
Rust's library; the latter takes a plus sign before a digit. `trim` is modelled for
the space character.

## 3. Runs

| Run | Question | Result |
|-----|----------|--------|
| `account_broad` | two challenges, every request form (raw ops, lock upsert and replacement, root key rotation, an unknown keyword, a bad `sign_as`, bad ops, no JSON), every kind of path (`/`, a leaf, malformed, nested, sibling) and key, created and imported logs | holds |
| `account_races` | three challenges, nested delegations and a data write, TTL 2: all orders of prepare, sign, expire, cancel, commit | holds |
| `ephemeral_open` | two creations at a time, four ephemeral secrets, a root key in public and secret form and an unreadable one, four configs, all orders of callbacks | holds |
| `account_expiry` | two challenges, TTL 3, fair clock: does every challenge end? | holds |
| `closest_parent` | all lists of up to three delegations over seven path strings, six targets | holds |
| `accounts_module` | two VLADs, one created elsewhere, two spellings and an undecodable text, two accounts, two challenges, two threads | holds |
| `accounts_store` | the same with one challenge and three accounts: is the module a store with one step per method? | holds |
| `provider` | three threads, three calls, two callbacks, set and cleared, fair scheduling: the hook, the callback, and does every call return? | holds |
| `hex_codec` | all texts of up to five bytes, with everything the decoder tells apart | holds |
| `hex_strict` | does `decode_hex` refuse every text that is not hex with an error? | violated, see section 6 |
| `branch_lock` | is the key a challenge names always accepted? | violated, see section 6 |
| `string_pubkey` | does a listed delegation always carry a Multikey? | violated, see section 6 |

Bounds. `ChallengeIds` bounds the number of successful prepares and with it the
length of the log. Two are enough for one challenge to overtake another; three
let a challenge be prepared on a head that itself came from a race, and let a
delegation, a nested delegation and a revocation follow one another. The
directories `/`, `/apps/`, `/apps/chat/` and `/other/` give an ancestor, a nested
branch and a sibling. A TTL of 1 already separates live from expired, 2 and 3
allow challenges of different ages. Challenge ids are random in the code, so they
are symmetric in the safety runs.

Five bytes of text hold the prefix, a space around it and a pair of digits, or two pairs.

In `accounts_module`, two accounts are enough for one to replace the other under a
VLAD and for a challenge of one to be brought to the other, and the second spelling
is enough to miss an entry. In `accounts_store`, three accounts allow a create, an
import over it and one more; one challenge keeps the run short, since what two of them
do to each other is `account_races`' question. In `ephemeral_open`, two openings and four
secrets let both get their keys, or one fail after drawing and the other go on. In `provider`, three
calls are a `set_context`, a `set_emit_callback` and a dispatch at once, or a dispatch
whose callback is replaced or cleared by another thread; for its safety properties the
theorems of section 7 take any number of calls and threads.

Fairness. `PlogAccount`'s `FairSpec` assumes only that the clock goes on
(`WF_vars(Tick)`). Nothing is assumed of callers or signers. `Provider`'s `FairSpec`
assumes that a thread inside the module goes on when it is not blocked
(`WF_vars(Step(t))`): the scheduler of the operating system, and a callback that
returns. Weak fairness suffices because the number of calls is bounded; a mutex that
is free again and again under an endless stream of calls would need strong fairness,
which Rust's `Mutex` does not promise. So the run shows the absence of deadlock, not
of starvation. `CHECK_DEADLOCK` is off in `provider`, because the host may
stop calling (`MaxCalls`), in `ephemeral_open`, where creations end, and in `closest_parent`, `hex_codec` and `hex_strict`, because the
functions return.

## 4. Properties

`PlogAccount`:

- `TypeOK`;
- `LogVerified`: the cached log passes full-chain verification after every call;
- `PendingOnHead`: no pending challenge is stale;
- `LoserSeesNotFound`: `HeadMismatch` is never answered, because the winner's
  commit removes every other challenge first;
- `SigningKeyAccepted`: while a delegation or revocation is pending, the key it
  names can commit it, given that all locks at the head were made by `create` and
  `prepare_delegate` and all delegate keys are Multikeys;
- `CommitAppendsPrepared`: the log grows only by a live challenge of this head, as
  it was handed out, signed over that very entry;
- `ChallengeSpentOnce`: any commit or cancel spends the challenge it names;
- `SugarTakesEffect`, `SugarLeavesRestAlone`: a committed delegation or revocation
  changes the lock and the key of its branch as asked, and nothing else; in
  particular not the lock at `/` nor `/pubkey`;
- `DelegateStaysInBranch`: when no raw locks are written, a key other than the
  root key writes only under branches delegated to it;
- `GrowsOnlyWithLive`: a call that adds a challenge leaves no expired one in the map,
  so that the map is bounded by the challenges of one TTL;
- `KeepsContract`: every call changes the account and answers as `AccountContract` says;
- `ChallengesExpire`: time alone ends every challenge;
- `ImplementsOptimisticLog`.

`EphemeralOpen`:

- `TypeOK`, with the root key given out for `/pubkey` alone;
- `OwnerAloneExtends`: the next entry is accepted from the public half of the key that
  `create` was given, and from no other key, the ephemeral ones included;
- `EphemeralSignsOnce`: no key makes two signatures, over all creations, failed ones
  included: each role has a key of its own, each closure is called once, and no opening
  uses what another one drew.

`ClosestParent`: `BestIsClosestSoFar`, `ResultIsClosestParent`.

`HexCodec`: `DecodesHex`, the decoder against the encoder as its reference.

`AccountsModule`:

- `TypeOK`, with every entry filed under its own VLAD;
- `OkIsInCache`: when a method answers Ok, what it says is true of the account in
  the cache, not of one detached since the lookup;
- `AnySpellingFindsAccount`: every spelling of a VLAD reaches its account;
- `AnnouncedIsUsable`: who reacts to `account_created` finds the account, although
  the event precedes the insert;
- `EventsTellEffects`: the events of a call tell what it did, all of it and in order;
- `ChallengeDiesWithAccount`: a challenge is committed only on the account it was
  prepared on, while that one is cached; an import that winds the head back does
  not revive it;
- `ImplementsAccountsStore`.

`Provider`:

- `TypeOK`: in particular, no hook without a context;
- `HookOnce`, `HookBeforeMethod`, `HookNotForgotten`: `on_context_ready` runs once,
  is finished before a method that was called after the context was stamped, and has
  run when both context and callback are set and the calls have returned;
- `OnlyCurrentCallbackRuns`: after `set_emit_callback` returns, the old callback is
  not running and never runs again;
- `SomeoneGoesOn`: whenever calls are in the module, one of them finds the locks free that it
  takes next;
- `EveryCallReturns`.

## 5. Hazards

`PROJECT.json` lists the places in the code that tests hardly reach, each with
the properties that watch it, or with a note on why none does yet.

## 6. Where code and documentation disagree

- `list_delegations` counts a lock with `branch("pubkey")` as a delegation. The
  sugar calls then name `{branch}pubkey` as the signer ("Logical key path the peer
  must sign as"), but the lock, when it runs, asks for `/pubkey`. The signer named
  by the challenge is refused (`branch_lock`).
- `PathDelegation.pubkey` is documented as a Multikey; a string stored at
  `{path}pubkey` is listed just the same (`string_pubkey`).
- `decode_hex` ("Decode a hex string") returns a `Result`, but slices its argument at
  every second byte: a text of an even number of bytes panics when a slice ends inside a
  character of several bytes (`hex_strict`). The same property excludes the pair `+0`,
  which `u8::from_str_radix` takes for the byte 0 because it allows a sign.

The first two need a raw `prepare_update` that writes the lock or the value by hand.

## 7. Proofs

For every choice of the constants, under the `ASSUME`s of the modules (types of
the inputs, distinctness of the special values, `CHALLENGE_TTL > 0`, a branch has
a shorter string than the branches below it, `entrykey` is a leaf
(`EntrykeyAssumption`), the public half of a key is not secret (`OpenAssumption`), a
random secret shares its public half with no other key (`RandomAssumption`), and a text
is a sequence (`TextsAssumption`)):

- `TypeCorrect`, `LogAlwaysVerified`, `PendingAlwaysOnHead`,
  `HeadMismatchUnreachable`, `CommitsOnlyThePrepared`, `SpentChallengesStaySpent`,
  `PendingGrowsOnlyWithLive`; `NamedSignerCanCommit`, `SugarAlwaysTakesEffect`,
  `SugarAlwaysLeavesRestAlone`, `DelegatesStayInBranch` (`PlogAccountProofs`);
- `AccountIsOptimisticLog`, `AccountKeepsContract` (`PlogAccountRefinement`);
- `OpenTypeCorrect`, `OwnerAlone`, `SignsOnce` (`EphemeralOpenProofs`);
- `ModuleTypeCorrect`, `OkAnswersHold`, `SpellingsAgree`, `AnnouncedUsable`,
  `EventsTell`, `ChallengesDie`, `ModuleImplementsStore` (`AccountsModuleProofs`);
- `BestIsClosest`, `ResolvesClosestParent` (`ClosestParentProofs`);
- `ProviderTypeCorrect`, `HookRunsOnce`, `MethodsFollowHook`, `HookIsNotForgotten`,
  `CallbacksAreCurrent`, `NeverDeadlocked` (`ProviderProofs`);
- `DecodesAllHex` (`HexCodecProofs`).

So every safety invariant and every action property that a passing run checks is a
theorem, and both refinements are.

The inductive invariant of the account is
`Inv == TypeOK /\ LogVerified /\ PendingOnHead /\ PendingAsIssued`. No conjunct is
inductive alone. A new challenge carries seqno `Len(log)` only because a verified
log numbers its entries. The log stays verified because `try_append` checks the
new entry and the older entries are checked against the same prefixes as before
(`AppendVerified`). Challenges stay on the head because a commit clears them all.
That what is appended is what was handed out needs `PendingAsIssued`. One lemma
per action shows that it keeps `Inv`; steps that only drop challenges or let them
age share `ShrinkKeepsInv`.

What delegations mean needs more: `Inv` says that a pending challenge is on the head, not
which entry it holds. `DelegationInv`, inductive beside `Inv`, has three parts.
`PendingSugar` says that the entry of a pending delegation or revocation is the one that
the head calls for now: the locks of the head with those of its branch replaced, one
write of the branch's key, and the signer that the delegations at the head name. It holds
when the challenge is issued, and stays because a commit drops all other challenges and
nothing else moves the head. `PendingHops` says that its backward link fits its number,
which the entry needs to verify. `PlainLocks` says that while no raw locks are written,
all locks, at the head and pending, come from the open config or from a delegation: a
prepare inherits the locks of the head or replaces them by such locks.

- `NamedSignerCanCommit`: the signer of a pending delegation is the root or the closest
  delegated branch above it, which is a fact about closest ancestors (`SignerOf`,
  `RootAboveAll`); the lock of that branch is at the head, governs the one op of the
  entry, and is satisfied by the key listed for it (`LockAccepts`).
- `SugarAlwaysTakesEffect`, `SugarAlwaysLeavesRestAlone`: an entry with one op changes the
  value of that key and of no other (`OneOpWrites`, from `UnwrittenStays` and
  `WrittenWins`: the last writer of a key wins); delegated branches have different keys
  (`BranchKeysDiffer`), so the other delegations keep theirs (`OthersStayListed`). These
  two hold whatever raw locks were written before.
- `DelegatesStayInBranch`: the lock that admitted the entry is plain. It is the root lock,
  and then the signer is the root key; or a delegation lock, and then its branch is
  listed with the signer as its key, and the lock governs all ops of the entry.

For the refinement, the history is the log without its proofs and a ticket is open
while its challenge is pending. Expiry and cancellation map to the voiding of
tickets, a prepare to opening one; an accepted commit maps to an abstract commit
because `PendingOnHead` makes the base of the ticket the current end and
`commit_with_multisig` adds nothing but the proof. Refused calls and clock ticks
that purge nothing are stutters.

For the creation, the invariant is
`Inv == TypeOK /\ RootKept /\ KeysDrawn /\ SignersUnused /\ EphemeralSignsOnce`. It follows
an ephemeral key from its draw to its one signature: a key in use was drawn, for one
opening and one role (`KeysDrawn`, since a draw of `OsRng` is fresh, by assumption, and
its public half is no other key's), and while its closure is uncalled it has signed nothing (`SignersUnused`), so that
the call that consumes the closure is its first. `RootKept` says that the root of an
opening is the public half of what `create` was given and that the log is opened with it.
That the owner alone extends such a log is a fact about `opened_log` (`OpenedAuthorises`),
which `PlogAccountProofs` uses as well.

For the module, the invariant says that one thread at a time is past its dispatch
(`OthersIdle`) and what that thread knows at each step: the account it looked up is still
the cached one (`LookedUp`), the account it made is new and nobody's (`ToInsert`), what it
sent and has still to send are the events of its answer, and the answer is true of the
cache (`Settled`). Beside it stand `PendingOwned`, a challenge is pending on no account
but its own, `AnnouncedArrives` and `TextsTaken`. Steps on the account that was looked up
share `AccountStep`; what they may do to it comes from `ContractResults` alone. For the
refinement, a lookup is no step of the store because `LookedUp` keeps it true until the
method operates, and a create takes a VLAD that nobody has because `ToInsert` says so at
the insert.

For the loop, the invariant is `BestIsClosestSoFar`. That its result does not
depend on the order of the list rests on `ClosestIsUnique`: the ancestors of a
path are prefixes of it, so two of the same length are equal. `ClosestExists`
shows that the closed form is well defined, by the least-element principle for
naturals.

For the provider, the invariant says which locks a thread holds at each step
(`LocksHeld`). From it follows that only one thread is between the check of
`HOOK_FIRED` and the return of the hook, so that the flag and `hooks` agree
(`HookState`); that `HookBeforeMethod` holds although the flag is raised first, since
the thread in the hook holds `INSTANCE` (`DispatchState`); and that nobody changes
`EMIT` under a running callback (`CallbackState`). `HookPending` is the reason why the
hook is not forgotten: while it has to run and can, some thread is on its way to it. That there is no deadlock
(`NeverDeadlocked`) needs `LocksHeld` alone: a thread waits only for locks below those it
holds, in the order `REGISTERED`, `INSTANCE`, `EMIT` (`WantsBelow`).

For the decoder, the invariant is `LoopInv`: if the text spells the digits `d`, with
spaces and a prefix or without, then `s` is `d` (`StripSpelled`), `i` is even and `out`
holds the byte of each of the first `i / 2` pairs. A pair of digits is neither a sign nor
half a character, and 16 times one half plus the other gives the halves back
(`PairOfDigits`). The loop makes this provable without an induction over the text: the
induction is the one over steps.

Only model-checked: `ChallengesExpire` and `EveryCallReturns`, which are liveness under
fairness, and TLC's own check for deadlock in the runs that make it, which is a matter of
`ENABLED`; both are outside the prover's reach. (`SomeoneGoesOn` speaks of locks, not of
`ENABLED`; that a thread which finds its locks free can indeed take a step is what
`EveryCallReturns` shows.) The runs that expect a violation show a
behaviour, so there is nothing to prove about them.

## 8. Plan

1. Done: the account, its abstract specification and contract; creation; closest parent;
   the module over the cache and the store it implements; the provider; the hex codec.
   Theorems for the safety properties and refinements of all of them.
2. Next: theorems about the abstract specifications, so that a reader of `OptimisticLog`
   and `AccountsStore` learns what the detailed ones inherit from them.

Not modelled:

- `convert.rs` and `verifier.rs`: length checks around calls of the cryptographic
  libraries, with no state and nothing to interleave;
- the token list of `accept_token` in the scaffold, which is written and never read, and
  the C string helpers;
- `default_update_config` and its variants in `config.rs`, which nothing calls;
- threads that share an `AccountCache` without the module: the type is exported, but its
  only user in the repository is the module;
- wording of errors, JSON layout, logging.

----------------------------- MODULE OpenConfig -----------------------------
(***************************************************************************)
(* The log that BetterSign opens from default_open_config                  *)
(* (rust-lib/src/config.rs), given the two keys it publishes.              *)
(***************************************************************************)
EXTENDS ProvenanceLog

ASSUME EntrykeyAssumption == "entrykey" \in Leaves

\* The locks that default_open_config puts on the first entry.
default_open_config ==
    {[path |-> RootPath, code |-> CheckCode(pubkey_key_path)]}

\* The first entry publishes the ephemeral entry key, which signs it, and the
\* root key, which the lock at "/" asks for from then on; external.
opened_log(entry_pubkey, root_pubkey) ==
    <<[prev |-> NullCid, seqno |-> 0, lipmaa |-> lipmaa_link(0),
       locks |-> default_open_config,
       ops |-> <<[op |-> "update", key |-> entrykey_path,
                  value |-> KeyValue(entry_pubkey)],
                 [op |-> "update", key |-> pubkey_key_path,
                  value |-> KeyValue(root_pubkey)]>>,
       proof |-> [by |-> entry_pubkey, binds |-> TRUE]]>>

=============================================================================

--------------------------- MODULE MCEphemeralOpen ---------------------------
(* Model-checking instance of EphemeralOpen. *)
EXTENDS EphemeralOpen, TLC

CONSTANTS Root, RootSecret, Odd, E1, E2, E3, E4, P1, P2, P3, P4

MCSegments == {"apps"}
MCDirs == {<<>>, <<"apps">>}
MCLeaves == {"pubkey", "entrykey"}
MCStrLen == (<<>> :> 1) @@ (<<"apps">> :> 6)
MCLongHop == [n \in {4} |-> 1]

MCMultikeys == {Root, RootSecret, Odd, E1, E2, E3, E4, P1, P2, P3, P4}
MCPublicOf ==
    [mk \in MCMultikeys |->
        CASE mk = RootSecret -> Root
          [] mk = E1 -> P1 [] mk = E2 -> P2 [] mk = E3 -> P3 [] mk = E4 -> P4
          [] OTHER -> mk]
MCEphemerals == {E1, E2, E3, E4}
MCRoots == {Root, RootSecret, Odd}
MCCodecs == {"Secp256K1Priv", "Ed25519Priv"}

OtherVladCodec == [DefaultConfig EXCEPT !.codec["vlad"] = "Ed25519Priv"]
OtherEntryCodec == [DefaultConfig EXCEPT !.codec["entry"] = "Ed25519Priv"]
OneMoreKey ==
    [DefaultConfig EXCEPT !.keygens = @ \cup {delegate_pubkey_key(Branch(<<"apps">>))}]
MCConfigs == {DefaultConfig, OtherVladCodec, OtherEntryCodec, OneMoreKey}

OpeningSymmetry == Permutations(Openings)
=============================================================================

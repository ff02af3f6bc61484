----------------------------- MODULE MCHexCodec -----------------------------
(* Model-checking instance of HexCodec: all well-formed texts of up to five
   bytes over an alphabet with one of everything. *)
EXTENDS HexCodec

Alphabet == {"0", "9", "b", "F", "x", "+", " ", "lead", "cont"}

Utf8(t) ==
    \A k \in 1..Len(t) :
        /\ t[k] = "lead" => k < Len(t) /\ t[k + 1] = "cont"
        /\ t[k] = "cont" => k > 1 /\ t[k - 1] = "lead"

MCTexts == {t \in BoundedSeq(Alphabet, 5) : Utf8(t)}
=============================================================================

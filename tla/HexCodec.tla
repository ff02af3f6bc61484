------------------------------ MODULE HexCodec ------------------------------
(***************************************************************************)
(* The hex codec of rust-lib/src/encoding.rs: encode_hex, and decode_hex   *)
(* as the loop it is.  A text is a sequence of UTF-8 bytes, since the code *)
(* slices it by byte offsets: ASCII characters, and one character of two   *)
(* bytes, "lead" and "cont".                                               *)
(***************************************************************************)
EXTENDS Integers, Sequences, SequencesExt

CONSTANT Texts  \* the strings passed to decode_hex

ASSUME TextsAssumption == \A t \in Texts : t \in Seq(ToSet(t))

Space == " "

VARIABLES
    text,   \* the argument
    s,      \* the text without spaces around it and without "0x"
    i,      \* byte offset of the next pair
    out,    \* the bytes so far
    result  \* "running", "Ok", "Err", or "Panic"

vars == <<text, s, i, out, result>>

Lower == <<"0", "1", "2", "3", "4", "5", "6", "7", "8", "9",
           "a", "b", "c", "d", "e", "f">>
Upper == <<"0", "1", "2", "3", "4", "5", "6", "7", "8", "9",
           "A", "B", "C", "D", "E", "F">>

Digit == ToSet(Lower) \cup ToSet(Upper)

\* The value of a digit, or -1.
value(c) ==
    IF c \in Digit THEN CHOOSE n \in 0..15 : c \in {Lower[n + 1], Upper[n + 1]}
    ELSE -1

encode_hex(bytes) ==
    [k \in 1..(2 * Len(bytes)) |->
        LET b == bytes[(k + 1) \div 2]
        IN  Lower[(IF k % 2 = 1 THEN b \div 16 ELSE b % 16) + 1]]

trim(t) ==
    LET solid == {k \in DOMAIN t : t[k] # Space}
        first == CHOOSE k \in solid : \A j \in solid : k <= j
        last  == CHOOSE k \in solid : \A j \in solid : k >= j
    IN  IF solid = {} THEN <<>> ELSE SubSeq(t, first, last)

\* Mutant: the prefix is looked for before the spaces are gone.
strip_untrimmed(arg) ==
    IF IsPrefix(<<"0", "x">>, arg) THEN SubSeq(arg, 3, Len(arg)) ELSE trim(arg)

strip(arg) ==
    LET t == trim(arg)
    IN  IF IsPrefix(<<"0", "x">>, t) THEN SubSeq(t, 3, Len(t)) ELSE t

\* u8::from_str_radix(.., 16) of two bytes, or -1: a plus sign is allowed.
from_str_radix(c, d) ==
    CASE value(d) = -1 -> -1
      [] c = "+"       -> value(d)
      [] value(c) = -1 -> -1
      [] OTHER         -> 16 * value(c) + value(d)

Init ==
    /\ text \in Texts
    /\ s = strip(text)
    /\ i = 0
    /\ out = <<>>
    /\ result = IF Len(s) % 2 = 0 THEN "running" ELSE "Err"

Finish(res) == result' = res /\ UNCHANGED <<text, s, i, out>>

\* Slicing at an offset inside a character panics.
Next ==
    /\ result = "running"
    /\ \/ i = Len(s) /\ Finish("Ok")
       \/ /\ i < Len(s)
          /\ s[i + 2] = "lead"
          /\ Finish("Panic")
       \/ /\ i < Len(s)
          /\ s[i + 2] # "lead" /\ from_str_radix(s[i + 1], s[i + 2]) = -1
          /\ Finish("Err")
       \/ /\ i < Len(s)
          /\ from_str_radix(s[i + 1], s[i + 2]) # -1
          /\ out' = Append(out, from_str_radix(s[i + 1], s[i + 2]))
          /\ i' = i + 2
          /\ UNCHANGED <<text, s, result>>

Spec == Init /\ [][Next]_vars

-----------------------------------------------------------------------------

Spaces(n) == [k \in 1..n |-> Space]

\* The text is the digits d, with or without "0x", among spaces.
Spells(d) ==
    /\ ToSet(d) \subseteq Digit
    /\ \E l, r \in 0..Len(text), p \in {<<>>, <<"0", "x">>} :
           text = Spaces(l) \o p \o d \o Spaces(r)

Substrings == {SubSeq(text, j, k) : j \in 1..(Len(text) + 1), k \in 0..Len(text)}

ToLower(c) == Lower[value(c) + 1]

\* decode_hex inverts encode_hex, for digits of either case, with or without the
\* prefix and spaces: an even number of digits is never refused, and encoding
\* the bytes gives the digits back.
DecodesHex ==
    \A d \in Substrings :
        Spells(d) /\ Len(d) % 2 = 0 =>
            /\ result \in {"running", "Ok"}
            /\ encode_hex(out) = [k \in 1..i |-> ToLower(d[k])]
            /\ result = "Ok" => i = Len(d)

\* "Decode a hex string (optional 0x prefix) to bytes" (encoding.rs), and
\* "Encoding / decoding failure" (error.rs) is what a caller gets for any other
\* text: nothing else is decoded, and no text brings the caller down.
OthersRefused ==
    result \in {"Ok", "Panic"} => \E d \in Substrings : Spells(d)

=============================================================================

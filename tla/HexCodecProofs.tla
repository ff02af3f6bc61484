--------------------------- MODULE HexCodecProofs ---------------------------
(***************************************************************************)
(* decode_hex inverts encode_hex, for texts of any length: the loop keeps  *)
(* out equal to the bytes that the first i digits spell, and meets nothing *)
(* but pairs of digits.                                                    *)
(***************************************************************************)
EXTENDS HexCodec, SequenceTheorems, TLAPS

(***************************************************************************)
(* Digits.                                                                 *)
(***************************************************************************)

\* The digits one by one; see NoDigits.
DigitSet ==
    {"0", "1", "2", "3", "4", "5", "6", "7", "8", "9",
     "a", "b", "c", "d", "e", "f", "A", "B", "C", "D", "E", "F"}

\* The characters that the codec treats specially are no digits.
LEMMA NoDigits ==
    Space \notin Digit /\ "x" \notin Digit /\ "+" \notin Digit /\ "lead" \notin Digit
<1>1. DOMAIN Lower = 1..16 /\ DOMAIN Upper = 1..16
  BY DEF Lower, Upper
<1>2. \A n \in 1..16 : \/ n = 1 \/ n = 2 \/ n = 3 \/ n = 4 \/ n = 5 \/ n = 6
                       \/ n = 7 \/ n = 8 \/ n = 9 \/ n = 10 \/ n = 11 \/ n = 12
                       \/ n = 13 \/ n = 14 \/ n = 15 \/ n = 16
  OBVIOUS
<1>3. ASSUME NEW n \in 1..16
      PROVE  Lower[n] \in DigitSet /\ Upper[n] \in DigitSet
  BY <1>2 DEF Lower, Upper, DigitSet
<1>4. Digit \subseteq DigitSet
  BY <1>1, <1>3 DEF Digit, ToSet
<1>5. "x" \notin DigitSet /\ "+" \notin DigitSet /\ "lead" \notin DigitSet
  BY DEF DigitSet
<1>6. Space \notin DigitSet
  BY Zenon DEF Space, DigitSet
<1> QED
  BY <1>4, <1>5, <1>6

\* The value of a digit fits in four bits.
LEMMA DigitValue ==
    ASSUME NEW c \in Digit
    PROVE  value(c) \in 0..15
<1>1. DOMAIN Lower = 1..16 /\ DOMAIN Upper = 1..16
  BY DEF Lower, Upper
<1>2. PICK n \in 1..16 : c = Lower[n] \/ c = Upper[n]
  BY <1>1 DEF Digit, ToSet
<1>3. n - 1 \in 0..15 /\ c \in {Lower[(n - 1) + 1], Upper[(n - 1) + 1]}
  BY <1>2
<1> QED
  BY <1>3 DEF value

\* A pair of digits is a byte, and its halves are their values.
LEMMA PairOfDigits ==
    ASSUME NEW c \in Digit, NEW d \in Digit
    PROVE  /\ from_str_radix(c, d) = 16 * value(c) + value(d)
           /\ from_str_radix(c, d) # -1
           /\ from_str_radix(c, d) \div 16 = value(c)
           /\ from_str_radix(c, d) % 16 = value(d)
<1>1. value(c) \in 0..15 /\ value(d) \in 0..15 /\ c # "+"
  BY DigitValue, NoDigits
<1>2. from_str_radix(c, d) = 16 * value(c) + value(d)
  BY <1>1 DEF from_str_radix
<1>3. \A m, n \in 0..15 : /\ (16 * m + n) \div 16 = m /\ (16 * m + n) % 16 = n
                          /\ 16 * m + n # -1
  OBVIOUS
<1> QED
  BY <1>1, <1>2, <1>3

-----------------------------------------------------------------------------
(***************************************************************************)
(* Spaces and the prefix.                                                  *)
(***************************************************************************)

\* A run of n spaces, over any alphabet that has the space.
LEMMA SpacesTyped ==
    ASSUME NEW n \in Nat, NEW C, Space \in C
    PROVE  /\ Spaces(n) \in Seq(C) /\ Len(Spaces(n)) = n
           /\ \A k \in 1..n : Spaces(n)[k] = Space
BY DEF Spaces

\* A concatenation, element by element.
LEMMA ConcatAt ==
    ASSUME NEW C, NEW a \in Seq(C), NEW b \in Seq(C)
    PROVE  /\ a \o b \in Seq(C)
           /\ Len(a \o b) = Len(a) + Len(b)
           /\ \A k \in 1..Len(a) : (a \o b)[k] = a[k]
           /\ \A k \in 1..Len(b) : (a \o b)[Len(a) + k] = b[k]
OBVIOUS

\* Concatenation groups either way.
LEMMA ConcatGroups ==
    ASSUME NEW C, NEW a \in Seq(C), NEW b \in Seq(C), NEW c \in Seq(C)
    PROVE  (a \o b) \o c = a \o (b \o c)
BY ConcatAssociative

\* trim takes the spaces away and nothing else.
LEMMA TrimPadded ==
    ASSUME NEW C, Space \in C,
           NEW c \in Seq(C), \A k \in 1..Len(c) : c[k] # Space,
           NEW l \in Nat, NEW r \in Nat
    PROVE  trim((Spaces(l) \o c) \o Spaces(r)) = c
<1> DEFINE u == Spaces(l) \o c
           v == Spaces(r)
           t == u \o v
           n == Len(c)
           solid == {k \in DOMAIN t : t[k] # Space}
           first == CHOOSE k \in solid : \A j \in solid : k <= j
           last  == CHOOSE k \in solid : \A j \in solid : k >= j
<1>1. /\ n \in Nat /\ t \in Seq(C) /\ Len(t) = l + n + r
      /\ \A k \in 1..l : t[k] = Space
      /\ \A k \in 1..n : t[l + k] = c[k]
      /\ \A k \in (l + n + 1)..(l + n + r) : t[k] = Space
  <2>1. /\ n \in Nat /\ u \in Seq(C) /\ Len(u) = l + n
        /\ \A k \in 1..l : u[k] = Space
        /\ \A k \in 1..n : u[l + k] = c[k]
    BY SpacesTyped, ConcatAt
  <2>2. v \in Seq(C) /\ Len(v) = r /\ \A k \in 1..r : v[k] = Space
    BY SpacesTyped
  <2> HIDE DEF u, v, n
  <2>3. /\ t \in Seq(C) /\ Len(t) = (l + n) + r
        /\ \A k \in 1..(l + n) : t[k] = u[k]
        /\ \A k \in 1..r : t[(l + n) + k] = v[k]
    <3>1. u \in Seq(C) /\ v \in Seq(C)
      BY <2>1, <2>2
    <3>2. /\ t \in Seq(C) /\ Len(t) = Len(u) + Len(v)
          /\ \A k \in 1..Len(u) : t[k] = u[k]
          /\ \A k \in 1..Len(v) : t[Len(u) + k] = v[k]
      BY <3>1, ConcatAt
    <3> HIDE DEF t
    <3> QED
      BY <2>1, <2>2, <3>2
  <2> HIDE DEF t
  <2>4. \A k \in 1..l : t[k] = Space
    BY <2>1, <2>3
  <2>5. \A k \in 1..n : t[l + k] = c[k]
    BY <2>1, <2>3
  <2>6. \A k \in (l + n + 1)..(l + n + r) : t[k] = Space
    <3> TAKE k \in (l + n + 1)..(l + n + r)
    <3>1. k - (l + n) \in 1..r /\ k = (l + n) + (k - (l + n))
      BY <2>1
    <3> QED
      BY <2>2, <2>3, <3>1
  <2> QED
    BY <2>1, <2>3, <2>4, <2>5, <2>6
<1>2. trim(t) = IF solid = {} THEN <<>> ELSE SubSeq(t, first, last)
  BY DEF trim
<1> HIDE DEF t, u, v
<1>3. solid = (l + 1)..(l + n)
  <2>1. DOMAIN t = 1..(l + n + r)
    BY <1>1
  <2>2. ASSUME NEW k \in 1..(l + n + r)
        PROVE  t[k] # Space <=> k \in (l + 1)..(l + n)
    <3>1. CASE k \in (l + 1)..(l + n)
      <4>1. k - l \in 1..n /\ k = l + (k - l)
        BY <3>1, <1>1
      <4> QED
        BY <4>1, <3>1, <1>1
    <3>2. CASE k \notin (l + 1)..(l + n)
      <4>1. k \in 1..l \/ k \in (l + n + 1)..(l + n + r)
        BY <3>2, <1>1
      <4> QED
        BY <4>1, <3>2, <1>1
    <3> QED
      BY <3>1, <3>2
  <2>3. (l + 1)..(l + n) \subseteq 1..(l + n + r)
    BY <1>1
  <2> QED
    BY <2>1, <2>2, <2>3
<1>4. CASE n = 0
  <2>1. solid = {}
    BY <1>3, <1>4
  <2> QED
    BY <2>1, <1>2, <1>4 DEF t, u, v
<1>5. CASE n # 0
  <2> HIDE DEF solid
  <2>1. /\ l + 1 \in solid /\ \A j \in solid : l + 1 <= j
        /\ l + n \in solid /\ \A j \in solid : l + n >= j
        /\ solid \subseteq Nat /\ solid # {}
    <3>1. l + 1 \in (l + 1)..(l + n) /\ l + n \in (l + 1)..(l + n)
      BY <1>1, <1>5
    <3>2. \A j \in (l + 1)..(l + n) : l + 1 <= j /\ l + n >= j /\ j \in Nat
      BY <1>1
    <3> QED
      BY <1>3, <3>1, <3>2
  <2>2. first = l + 1 /\ last = l + n
    <3>1. first \in solid /\ first <= l + 1
      BY <2>1
    <3>2. last \in solid /\ last >= l + n
      BY <2>1
    <3> HIDE DEF first, last
    <3> QED
      BY <3>1, <3>2, <2>1
  <2>3. SubSeq(t, l + 1, l + n) = c
    <3> DEFINE w == SubSeq(t, l + 1, l + n)
    <3>1. w \in Seq(C) /\ Len(w) = n /\ \A k \in 1..n : w[k] = c[k]
      BY <1>1, <1>5
    <3> HIDE DEF w
    <3> QED
      BY <3>1, SeqEqual DEF w
  <2> HIDE DEF first, last
  <2> QED
    BY <1>2, <2>1, <2>2, <2>3 DEF t, u, v
<1> QED
  BY <1>4, <1>5

\* The prefix that strip takes off.
Prefix == <<"0", "x">>

\* What is left of a text that spells digits are the digits.
LEMMA StripSpelled ==
    ASSUME text \in Seq(ToSet(text)), NEW d \in Substrings, Spells(d)
    PROVE  d \in Seq(Digit) /\ strip(text) = d
<1> DEFINE C == Digit \cup {Space, "x"}
<1>1. d \in Seq(Digit)
  <2>1. PICK j \in 1..(Len(text) + 1), k \in 0..Len(text) : d = SubSeq(text, j, k)
    BY DEF Substrings
  <2>2. d \in Seq(ToSet(text))
    BY <2>1
  <2>3. DOMAIN d = 1..Len(d) /\ Len(d) \in Nat
    BY <2>2
  <2>4. \A m \in 1..Len(d) : d[m] \in Digit
    BY <2>3 DEF Spells, ToSet
  <2> QED
    BY <2>2, <2>4
<1>2. PICK l \in 0..Len(text), r \in 0..Len(text), p \in {<<>>, Prefix} :
            text = Spaces(l) \o p \o d \o Spaces(r)
  BY DEF Spells, Prefix
<1>3. l \in Nat /\ r \in Nat
  OBVIOUS
<1>4. "0" \in Digit
  BY DEF Digit, ToSet, Lower
<1>5. /\ p \in Seq(C) /\ d \in Seq(C) /\ Spaces(l) \in Seq(C) /\ Spaces(r) \in Seq(C)
      /\ \A k \in 1..Len(p) : p[k] # Space
      /\ \A k \in 1..Len(d) : d[k] # Space
  <2>1. Prefix \in Seq(C) /\ \A k \in 1..Len(Prefix) : Prefix[k] # Space
    <3>1. "0" # Space /\ "x" # Space
      BY Zenon DEF Space
    <3> QED
      BY <1>4, <3>1 DEF Prefix
  <2>2. <<>> \in Seq(C) /\ \A k \in 1..Len(<<>>) : <<>>[k] # Space
    OBVIOUS
  <2>3. d \in Seq(C) /\ \A k \in 1..Len(d) : d[k] # Space
    BY <1>1, NoDigits
  <2> QED
    BY <1>2, <1>3, <2>1, <2>2, <2>3, SpacesTyped
<1> DEFINE core == p \o d
<1>6. /\ core \in Seq(C) /\ \A k \in 1..Len(core) : core[k] # Space
      /\ Len(core) = Len(p) + Len(d)
  BY <1>5
<1>7. text = (Spaces(l) \o core) \o Spaces(r)
  <2>1. (Spaces(l) \o p) \o d = Spaces(l) \o (p \o d)
    <3> HIDE DEF C
    <3>1. Spaces(l) \in Seq(C) /\ p \in Seq(C) /\ d \in Seq(C)
      BY <1>5
    <3> QED
      BY <3>1, ConcatGroups, SMTT(120)
  <2> QED
    BY <1>2, <2>1
<1>8. trim(text) = core
  <2> HIDE DEF core, C
  <2>1. Space \in C
    BY DEF C
  <2> QED
    BY <1>3, <1>6, <1>7, <2>1, TrimPadded
<1>9. CASE p = <<>>
  <2>1. core = d
    BY <1>5, <1>9
  <2>2. ~IsPrefix(Prefix, d)
    <3> SUFFICES ASSUME IsPrefix(Prefix, d) PROVE FALSE
      OBVIOUS
    <3>1. Len(d) >= 2 /\ d[2] = "x"
      BY <1>1 DEF IsPrefix, Prefix
    <3> QED
      BY <1>1, <3>1, NoDigits
  <2> QED
    BY <1>8, <1>1, <2>1, <2>2 DEF strip, Prefix
<1>10. CASE p = Prefix
  <2>1. Len(p) = 2 /\ p[1] = "0" /\ p[2] = "x"
    BY <1>10 DEF Prefix
  <2>2. /\ Len(core) = 2 + Len(d) /\ core[1] = "0" /\ core[2] = "x"
        /\ \A k \in 1..Len(d) : core[2 + k] = d[k]
    <3> HIDE DEF C
    <3>1. /\ Len(core) = Len(p) + Len(d)
          /\ \A k \in 1..Len(p) : core[k] = p[k]
          /\ \A k \in 1..Len(d) : core[Len(p) + k] = d[k]
      BY <1>5, ConcatAt
    <3> HIDE DEF core
    <3> QED
      BY <2>1, <3>1
  <2> HIDE DEF core, C
  <2>3. IsPrefix(Prefix, core)
    BY <1>6, <2>2, <1>1 DEF IsPrefix, Prefix
  <2>4. SubSeq(core, 3, Len(core)) = d
    <3> DEFINE w == SubSeq(core, 3, Len(core))
    <3>1. w \in Seq(C) /\ Len(w) = Len(d) /\ \A k \in 1..Len(d) : w[k] = d[k]
      BY <1>1, <1>6, <2>2
    <3> HIDE DEF w
    <3> QED
      BY <3>1, <1>5, SeqEqual DEF w
  <2> QED
    BY <1>8, <1>1, <2>3, <2>4 DEF strip, Prefix
<1> QED
  BY <1>1, <1>2, <1>9, <1>10

-----------------------------------------------------------------------------
(***************************************************************************)
(* The loop.                                                               *)
(***************************************************************************)

\* The loop on the digits d: out holds the bytes of the first i of them.
Decoding(d) ==
    /\ s = d
    /\ i \in 0..Len(d) /\ i % 2 = 0
    /\ out \in Seq(Int) /\ 2 * Len(out) = i
    /\ \A j \in 1..Len(out) : out[j] = from_str_radix(d[2 * j - 1], d[2 * j])
    /\ result = "running" \/ (result = "Ok" /\ i = Len(d))

\* The digits come in pairs.
Even(d) == Len(d) % 2 = 0

\* The inductive invariant: if the text spells a string of pairs of digits, the
\* loop is decoding that string.
LoopInv ==
    /\ text \in Seq(ToSet(text))
    /\ \A d \in Substrings : Spells(d) /\ Even(d) => Decoding(d)

\* The loop starts on the digits.
LEMMA LoopInit == Init => LoopInv
<1> SUFFICES ASSUME Init PROVE LoopInv
  OBVIOUS
<1>1. text \in Seq(ToSet(text))
  BY TextsAssumption DEF Init
<1>2. ASSUME NEW d \in Substrings, Spells(d), Even(d) PROVE Decoding(d)
  <2>1. d \in Seq(Digit) /\ s = d
    BY <1>1, <1>2, StripSpelled DEF Init
  <2>2. i = 0 /\ out = <<>> /\ result = "running"
    BY <1>2, <2>1 DEF Init, Even
  <2> QED
    BY <2>1, <2>2 DEF Decoding
<1> QED
  BY <1>1, <1>2 DEF LoopInv

\* One pair of digits.
LEMMA LoopStep ==
    ASSUME NEW d \in Seq(Digit), Even(d), Decoding(d), Next
    PROVE  Decoding(d)'
<1>1. /\ s = d /\ i \in 0..Len(d) /\ i % 2 = 0 /\ Len(d) \in Nat
      /\ out \in Seq(Int) /\ 2 * Len(out) = i /\ Len(out) \in Nat
      /\ \A j \in 1..Len(out) : out[j] = from_str_radix(d[2 * j - 1], d[2 * j])
  BY DEF Decoding
<1>2. CASE i = Len(s) /\ Finish("Ok")
  BY <1>1, <1>2 DEF Decoding, Finish
<1>3. CASE i # Len(s)
  <2>1. i + 1 \in 1..Len(d) /\ i + 2 \in 1..Len(d)
    <3>1. \A m, n \in Nat : m % 2 = 0 /\ n % 2 = 0 /\ m < n => m + 2 <= n
      OBVIOUS
    <3>2. \A m, n \in Nat : m \in 0..n /\ m # n => m < n
      OBVIOUS
    <3>3. i \in 0..Len(d) /\ i # Len(d) /\ Len(d) \in Nat
      BY <1>1, <1>3
    <3>4. i \in Nat /\ i < Len(d) /\ i % 2 = 0
      BY <1>1, <3>2, <3>3
    <3>5. Len(d) % 2 = 0
      BY DEF Even
    <3>6. i + 2 <= Len(d)
      BY <3>1, <3>3, <3>4, <3>5
    <3>7. \A m, n \in Nat : m + 2 <= n => m + 1 \in 1..n /\ m + 2 \in 1..n
      OBVIOUS
    <3> QED
      BY <3>3, <3>4, <3>6, <3>7
  <2>2. d[i + 1] \in Digit /\ d[i + 2] \in Digit /\ d[i + 2] # "lead"
    BY <2>1, NoDigits
  <2> DEFINE b == from_str_radix(d[i + 1], d[i + 2])
  <2>3. b # -1 /\ b \in Int
    <3>1. \A m, n \in 0..15 : 16 * m + n \in Int
      OBVIOUS
    <3>2. b = 16 * value(d[i + 1]) + value(d[i + 2]) /\ b # -1
      BY <2>2, PairOfDigits
    <3>3. value(d[i + 1]) \in 0..15 /\ value(d[i + 2]) \in 0..15
      BY <2>2, DigitValue
    <3> HIDE DEF b
    <3> QED
      BY <3>1, <3>2, <3>3
  <2>4. /\ out' = Append(out, b) /\ i' = i + 2
        /\ UNCHANGED <<text, s, result>>
    BY <1>1, <1>3, <2>2, <2>3 DEF Next
  <2>5. result = "running"
    BY DEF Next
  <2> HIDE DEF b
  <2>6. /\ out' \in Seq(Int) /\ Len(out') = Len(out) + 1
        /\ \A j \in 1..Len(out) : out'[j] = out[j]
        /\ out'[Len(out) + 1] = b
    BY <1>1, <2>3, <2>4
  <2>7. i' \in 0..Len(d) /\ i' % 2 = 0 /\ 2 * Len(out') = i'
    <3>1. \A n \in Nat : n % 2 = 0 => (n + 2) % 2 = 0
      OBVIOUS
    <3>2. i' = i + 2 /\ i' \in 0..Len(d) /\ i \in Nat
      BY <1>1, <2>1, <2>4
    <3>3. \A n \in Nat : 2 * (n + 1) = 2 * n + 2
      OBVIOUS
    <3> QED
      BY <1>1, <2>6, <3>1, <3>2, <3>3
  <2>8. ASSUME NEW j \in 1..Len(out')
        PROVE  out'[j] = from_str_radix(d[2 * j - 1], d[2 * j])
    <3>1. CASE j \in 1..Len(out)
      BY <1>1, <2>6, <3>1
    <3>2. CASE j = Len(out) + 1
      <4>1. \A n \in Nat : 2 * (n + 1) - 1 = 2 * n + 1 /\ 2 * (n + 1) = 2 * n + 2
        OBVIOUS
      <4>2. 2 * j - 1 = i + 1 /\ 2 * j = i + 2
        BY <1>1, <3>2, <4>1
      <4> QED
        BY <2>6, <3>2, <4>2 DEF b
    <3> QED
      BY <1>1, <2>6, <3>1, <3>2
  <2> QED
    BY <1>1, <2>4, <2>5, <2>6, <2>7, <2>8 DEF Decoding
<1> QED
  BY <1>2, <1>3 DEF Next

\* The loop invariant.
LEMMA LoopInvHolds == Spec => []LoopInv
<1>1. LoopInv /\ [Next]_vars => LoopInv'
  <2> SUFFICES ASSUME LoopInv, [Next]_vars PROVE LoopInv'
    OBVIOUS
  <2>1. text' = text
    BY DEF Next, Finish, vars
  <2>2. ASSUME NEW d \in Substrings, Spells(d), Even(d) PROVE Decoding(d)'
    <3>1. Decoding(d) /\ d \in Seq(Digit)
      BY <2>2, StripSpelled DEF LoopInv
    <3>2. CASE Next
      BY <2>2, <3>1, <3>2, LoopStep
    <3>3. CASE UNCHANGED vars
      BY <3>1, <3>3 DEF vars, Decoding
    <3> QED
      BY <3>2, <3>3
  <2>3. Substrings' = Substrings /\ \A d : Spells(d)' <=> Spells(d)
    BY <2>1 DEF Substrings, Spells
  <2> QED
    BY <2>1, <2>2, <2>3 DEF LoopInv, Even
<1> QED
  BY <1>1, LoopInit, PTL DEF Spec

\* Encoding the bytes decoded so far gives the digits back, in lower case.
LEMMA EncodesBack ==
    ASSUME NEW d \in Seq(Digit), Decoding(d)
    PROVE  encode_hex(out) = [k \in 1..i |-> ToLower(d[k])]
<1> DEFINE digit(k) ==
              Lower[(IF k % 2 = 1 THEN out[(k + 1) \div 2] \div 16
                     ELSE out[(k + 1) \div 2] % 16) + 1]
<1>1. /\ i \in 0..Len(d) /\ 2 * Len(out) = i /\ Len(out) \in Nat
      /\ \A j \in 1..Len(out) : out[j] = from_str_radix(d[2 * j - 1], d[2 * j])
  BY DEF Decoding
<1>2. encode_hex(out) = [k \in 1..i |-> digit(k)]
  BY <1>1 DEF encode_hex
<1>3. ASSUME NEW k \in 1..i
      PROVE  digit(k) = ToLower(d[k])
  <2> DEFINE j == (k + 1) \div 2
  <2>1. j \in 1..Len(out)
    BY <1>1
  <2>2. /\ 2 * j - 1 \in 1..Len(d) /\ 2 * j \in 1..Len(d)
        /\ k % 2 = 1 => k = 2 * j - 1
        /\ k % 2 # 1 => k = 2 * j
    <3>1. \A n \in Nat : /\ n % 2 = 1 => n = 2 * ((n + 1) \div 2) - 1
                         /\ n % 2 # 1 => n = 2 * ((n + 1) \div 2)
      OBVIOUS
    <3>2. k \in Nat
      BY <1>1
    <3> HIDE DEF j
    <3>3. \A n \in Nat \ {0} : \A m \in 1..n : 2 * m - 1 \in 1..(2 * n) /\ 2 * m \in 1..(2 * n)
      OBVIOUS
    <3>4. 2 * j - 1 \in 1..i /\ 2 * j \in 1..i
      BY <1>1, <2>1, <3>3
    <3>5. 1..i \subseteq 1..Len(d)
      BY <1>1
    <3> QED
      BY <3>1, <3>2, <3>4, <3>5 DEF j
  <2> HIDE DEF j
  <2>3. /\ out[j] \div 16 = value(d[2 * j - 1])
        /\ out[j] % 16 = value(d[2 * j])
    BY <1>1, <2>1, <2>2, PairOfDigits
  <2>4. CASE k % 2 = 1
    BY <2>2, <2>3, <2>4 DEF ToLower, j
  <2>5. CASE k % 2 # 1
    BY <2>2, <2>3, <2>5 DEF ToLower, j
  <2> QED
    BY <2>4, <2>5
<1> QED
  BY <1>2, <1>3

\* decode_hex decodes every spelling of an even number of digits, and encoding
\* what it returns gives the digits back.
THEOREM DecodesAllHex == Spec => []DecodesHex
<1>1. LoopInv => DecodesHex
  <2> SUFFICES ASSUME LoopInv, NEW d \in Substrings, Spells(d), Len(d) % 2 = 0
               PROVE  /\ result \in {"running", "Ok"}
                      /\ encode_hex(out) = [k \in 1..i |-> ToLower(d[k])]
                      /\ result = "Ok" => i = Len(d)
    BY DEF DecodesHex
  <2>1. Decoding(d) /\ d \in Seq(Digit)
    BY StripSpelled DEF LoopInv, Even
  <2> QED
    BY <2>1, EncodesBack DEF Decoding
<1> QED
  BY <1>1, LoopInvHolds, PTL

=============================================================================

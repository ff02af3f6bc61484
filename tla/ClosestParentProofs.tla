------------------------- MODULE ClosestParentProofs -------------------------
(***************************************************************************)
(* The loop of resolve_closest_parent_signing_key is correct for every     *)
(* list of delegations, of any length and in any order.                    *)
(***************************************************************************)
EXTENDS ClosestParent, TLAPS

\* A branch has one proper ancestor of each length, so that "the longest" is
\* one branch, whichever of them the loop meets first.
LEMMA ClosestIsUnique ==
    ASSUME NEW t \in Key, NEW paths \in SUBSET PathString,
           NEW a, NEW b,
           IsClosest(a, ProperAncestors(t, paths)),
           IsClosest(b, ProperAncestors(t, paths))
    PROVE  a = b
<1>1. /\ a \in Key /\ b \in Key
      /\ a.leaf = NoLeaf /\ b.leaf = NoLeaf
      /\ IsPrefix(a.dir, t.dir) /\ IsPrefix(b.dir, t.dir)
  BY DEF IsClosest, ProperAncestors, parse_branch_path, parse_key, is_branch,
         parent_of, PathString
<1>2. a.dir \in Seq(Segments) /\ b.dir \in Seq(Segments) /\ t.dir \in Seq(Segments)
  BY <1>1, DirsAssumption DEF Key
<1>3. StrLen[a.dir] = StrLen[b.dir]
  <2>1. StrLen[a.dir] \in Nat /\ StrLen[b.dir] \in Nat
    BY <1>1, StrLenAssumption DEF Key
  <2> QED
    BY <2>1 DEF IsClosest
<1>4. a.dir = b.dir
  <2>1. CASE Len(a.dir) = Len(b.dir)
    BY <2>1, <1>1, <1>2 DEF IsPrefix
  <2>2. CASE Len(a.dir) < Len(b.dir)
    <3>1. IsStrictPrefix(a.dir, b.dir)
      BY <2>2, <1>1, <1>2 DEF IsPrefix, IsStrictPrefix
    <3> QED
      BY <3>1, <1>1, <1>3, StrLenAssumption DEF Key
  <2>3. CASE Len(b.dir) < Len(a.dir)
    <3>1. IsStrictPrefix(b.dir, a.dir)
      BY <2>3, <1>1, <1>2 DEF IsPrefix, IsStrictPrefix
    <3> QED
      BY <3>1, <1>1, <1>3, StrLenAssumption DEF Key
  <2> QED
    BY <2>1, <2>2, <2>3, <1>2
<1> QED
  BY <1>1, <1>4 DEF Key

\* The loop invariant: the locals are well typed and best is the closest
\* ancestor visited so far.
LoopInv == TypeOK /\ BestIsClosestSoFar

\* One more visited delegation adds at most itself to the ancestors.
LEMMA VisitedGrows ==
    ASSUME TypeOK, Visit
    PROVE  /\ Visited' = Visited \cup {delegations[i]}
           /\ delegations[i] \in PathString
           /\ Visited \subseteq PathString
           /\ ProperAncestors(target, Visited')
                = ProperAncestors(target, Visited)
                    \cup (IF Candidate(delegations[i]) THEN {delegations[i]} ELSE {})
<1>1. i \in 1..Len(delegations) /\ i' - 1 = i
  BY DEF TypeOK, Visit
<1>2. Visited' = Visited \cup {delegations[i]}
  BY <1>1 DEF Visited, Visit
<1>3. delegations[i] \in PathString /\ Visited \subseteq PathString
  BY <1>1 DEF TypeOK, Visited
<1> QED
  BY <1>2, <1>3 DEF ProperAncestors, Candidate

\* The loop invariant.
LEMMA LoopInvHolds == Spec => []LoopInv
<1>1. Init => LoopInv
  <2> SUFFICES ASSUME Init PROVE LoopInv
    OBVIOUS
  <2>1. TypeOK
    BY InputsAssumption DEF Init, TypeOK
  <2>2. Visited = {}
    BY DEF Init, Visited
  <2> QED
    BY <2>1, <2>2 DEF Init, LoopInv, BestIsClosestSoFar, ProperAncestors
<1>2. LoopInv /\ [Next]_vars => LoopInv'
  <2> SUFFICES ASSUME LoopInv, [Next]_vars PROVE LoopInv'
    OBVIOUS
  <2> USE DEF LoopInv
  <2>1. CASE Visit
    <3> DEFINE d == delegations[i]
               A == ProperAncestors(target, Visited)
    <3>1. /\ d \in PathString
          /\ Visited \subseteq PathString
          /\ ProperAncestors(target, Visited') = A \cup (IF Candidate(d) THEN {d} ELSE {})
      BY <2>1, VisitedGrows
    <3>2. Candidate(d) => d \in Key
      BY <3>1 DEF Candidate, parse_branch_path, parse_key, PathString
    <3>3. TypeOK'
      BY <2>1, <3>2 DEF TypeOK, Visit
    <3>4. \A a \in A : a \in Key /\ StrLen[a.dir] \in Nat
      BY <3>1, StrLenAssumption
      DEF ProperAncestors, parse_branch_path, parse_key, PathString, Key
    <3>5. Candidate(d) => StrLen[d.dir] \in Nat
      BY <3>2, StrLenAssumption DEF Key
    <3>6. NoBest \notin Key
      BY InputsAssumption DEF PathString
    <3>7. BestIsClosestSoFar'
      <4>1. CASE ~Candidate(d)
        BY <4>1, <3>1, <2>1 DEF BestIsClosestSoFar, Visit
      <4>2. CASE Candidate(d) /\ best = NoBest
        <5>1. A = {} /\ best' = d /\ d # NoBest
          BY <4>2, <2>1, <3>2, <3>6 DEF BestIsClosestSoFar, Visit, take
        <5> QED
          BY <5>1, <4>2, <3>1, <3>5, <2>1 DEF BestIsClosestSoFar, IsClosest, Visit
      <4>3. CASE Candidate(d) /\ best # NoBest
        <5>1. IsClosest(best, A)
          BY <4>3 DEF BestIsClosestSoFar
        <5>2. CASE take(d)
          <6>1. best' = d /\ d # NoBest
            BY <5>2, <4>3, <2>1, <3>2, <3>6 DEF Visit
          <6>2. \A a \in A \cup {d} : StrLen[a.dir] <= StrLen[d.dir]
            BY <5>1, <5>2, <4>3, <3>4, <3>5 DEF IsClosest, take
          <6> QED
            BY <6>1, <6>2, <4>3, <3>1, <2>1 DEF BestIsClosestSoFar, IsClosest, Visit
        <5>3. CASE ~take(d)
          <6>1. best' = best
            BY <5>3, <2>1 DEF Visit
          <6>2. \A a \in A \cup {d} : StrLen[a.dir] <= StrLen[best.dir]
            BY <5>1, <5>3, <4>3, <3>4, <3>5 DEF IsClosest, take
          <6> QED
            BY <6>1, <6>2, <5>1, <4>3, <3>1, <2>1
            DEF BestIsClosestSoFar, IsClosest, Visit
        <5> QED
          BY <5>2, <5>3
      <4> QED
        BY <4>1, <4>2, <4>3
    <3> QED
      BY <3>3, <3>7
  <2>2. CASE Return
    <3>1. pubkey_key_path \in Key
      BY DirsAssumption, LeavesAssumption DEF pubkey_key_path, Key
    <3>2. best # NoBest => delegate_pubkey_key(best) \in Key
      BY LeavesAssumption DEF TypeOK, delegate_pubkey_key, Key
    <3>3. TypeOK'
      BY <2>2, <3>1, <3>2 DEF Return, TypeOK
    <3>4. Visited' = Visited
      BY <2>2 DEF Return, Visited
    <3> QED
      BY <2>2, <3>3, <3>4 DEF Return, BestIsClosestSoFar
  <2>3. CASE UNCHANGED vars
    BY <2>3 DEF vars, TypeOK, BestIsClosestSoFar, Visited
  <2> QED
    BY <2>1, <2>2, <2>3 DEF Next
<1> QED
  BY <1>1, <1>2, PTL DEF Spec

\* In every state of the loop, best is the longest proper ancestor of the
\* target among the delegations visited so far.
THEOREM BestIsClosest == Spec => []BestIsClosestSoFar
BY LoopInvHolds, PTL DEF LoopInv

\* resolve_closest_parent_signing_key returns, for every list, the pubkey of
\* the closest proper ancestor in it, and "/pubkey" if it holds none.
THEOREM ResolvesClosestParent == Spec => []ResultIsClosestParent
<1>1. Init => ResultIsClosestParent
  BY DEF Init, ResultIsClosestParent
<1>2. LoopInv /\ ResultIsClosestParent /\ [Next]_vars => ResultIsClosestParent'
  <2> SUFFICES ASSUME LoopInv, ResultIsClosestParent, [Next]_vars
               PROVE  ResultIsClosestParent'
    OBVIOUS
  <2>1. CASE Visit
    BY <2>1 DEF Visit, ResultIsClosestParent
  <2>2. CASE Return
    <3> DEFINE A == ProperAncestors(target, Range(delegations))
    <3>1. Visited = Range(delegations) /\ Range(delegations) \subseteq PathString
      BY <2>2 DEF LoopInv, TypeOK, Return, Visited, Range
    <3>2. IF best = NoBest THEN A = {} ELSE IsClosest(best, A)
      BY <3>1 DEF LoopInv, BestIsClosestSoFar
    <3>3. CASE best = NoBest
      BY <3>2, <3>3, <2>2
      DEF Return, ResultIsClosestParent, resolve_closest_parent_signing_key
    <3>4. CASE best # NoBest
      <4>1. IsClosest(best, A) /\ best \in A /\ A # {}
        BY <3>2, <3>4 DEF IsClosest
      <4>2. (CHOOSE b \in A : IsClosest(b, A)) = best
        <5>1. \A b \in A : IsClosest(b, A) => b = best
          BY <4>1, <3>1, ClosestIsUnique DEF LoopInv, TypeOK
        <5> QED
          BY <5>1, <4>1
      <4> QED
        BY <4>1, <4>2, <3>4, <2>2
        DEF Return, ResultIsClosestParent, resolve_closest_parent_signing_key
    <3> QED
      BY <3>3, <3>4
  <2>3. CASE UNCHANGED vars
    BY <2>3 DEF vars, ResultIsClosestParent
  <2> QED
    BY <2>1, <2>2, <2>3 DEF Next
<1> QED
  BY <1>1, <1>2, LoopInvHolds, PTL DEF Spec

=============================================================================

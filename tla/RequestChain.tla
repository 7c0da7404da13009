---------------------------- MODULE RequestChain ----------------------------
(***************************************************************************)
(* Requests made one after the other, each of the structure that the one   *)
(* before it left, with their answers in a list: what holds of every       *)
(* request holds of the chain.  Call(x, m, e) is the request e in a        *)
(* context x; a good structure m only grows; an answer that it has once it *)
(* keeps.                                                                  *)
(***************************************************************************)
EXTENDS Integers, Sequences, WellFoundedInduction, TLAPS

CONSTANTS
    Call(_, _, _),    \* the structure that a request leaves, and the answer
    Good(_),
    Grows(_, _),
    May(_, _, _),     \* a request that may be made
    Has(_, _, _, _)   \* an answer that is right

Chain(x, m, seq) ==
    LET made[i \in 0 .. Len(seq)] ==
          IF i = 0 THEN [md |-> m, is |-> <<>>]
          ELSE LET c == Call(x, made[i-1].md, seq[i])
               IN  [md |-> c.md, is |-> Append(made[i-1].is, c.is)]
    IN  made[Len(seq)]

IsList(s) == \E S : s \in Seq(S)

(* The rules of the structure.                                             *)
Rules(x) ==
    /\ \A m : Grows(m, m)
    /\ \A m1, m2, m3 : Grows(m1, m2) /\ Grows(m2, m3) => Grows(m1, m3)
    /\ \A m1, m2, e : Good(m1) /\ Good(m2) /\ Grows(m1, m2)
                         /\ May(x, m1, e) => May(x, m2, e)
    /\ \A m1, m2, e, a : Good(m1) /\ Good(m2) /\ Grows(m1, m2)
                            /\ Has(x, m1, e, a) => Has(x, m2, e, a)
    /\ \A m, e : Good(m) /\ May(x, m, e) =>
                    /\ Good(Call(x, m, e).md)
                    /\ Grows(m, Call(x, m, e).md)
                    /\ Has(x, Call(x, m, e).md, e, Call(x, m, e).is)
-----------------------------------------------------------------------------
LEMMA LeastNat ==
    ASSUME NEW T, T \subseteq Nat, T # {}
    PROVE  \E t \in T : \A u \in T : t <= u
<1>1. PICK t \in T : \A u \in T : ~ (<<u, t>> \in OpToRel(<, Nat))
    BY WFMin, NatLessThanWellFounded
<1>2. \A u \in T : ~ (u < t)
    BY <1>1, Zenon DEF OpToRel
<1> QED
    BY <1>2

(* A property of 0 .. n that goes from each number to the next.            *)
LEMMA Upwards ==
    ASSUME NEW n \in Nat, NEW T, T \subseteq 0 .. n,
           0 \in T,
           \A k \in 1 .. n : k - 1 \in T => k \in T
    PROVE  T = 0 .. n
<1> SUFFICES ASSUME (0 .. n) \ T # {} PROVE FALSE
    OBVIOUS
<1>1. PICK k \in (0 .. n) \ T : \A j \in (0 .. n) \ T : k <= j
    <2>1. (0 .. n) \ T \subseteq Nat
        OBVIOUS
    <2> QED
        BY <2>1, LeastNat
<1>2. k \in 1 .. n /\ k - 1 \in 0 .. n
    BY <1>1
<1>3. k - 1 \in T
    BY <1>1, <1>2
<1> QED
    BY <1>1, <1>2, <1>3

LEMMA AppendToList ==
    ASSUME NEW s, IsList(s), NEW e
    PROVE  /\ IsList(Append(s, e))
           /\ Len(s) \in Nat
           /\ Len(Append(s, e)) = Len(s) + 1
           /\ \A i \in 1 .. Len(s) : Append(s, e)[i] = s[i]
           /\ Append(s, e)[Len(s) + 1] = e
<1>1. PICK S : s \in Seq(S)
    BY DEF IsList
<1> DEFINE U == S \union {e}
<1>2. s \in Seq(U) /\ e \in U
    BY <1>1
<1> HIDE DEF U
<1>3. Append(s, e) \in Seq(U)
    BY <1>2
<1> QED
    BY <1>2, <1>3 DEF IsList

(* The stages of a chain                                                   *)
After(x, made, seq, i) ==
    [md |-> Call(x, made[i-1].md, seq[i]).md,
     is |-> Append(made[i-1].is, Call(x, made[i-1].md, seq[i]).is)]

IsMade(x, m, seq, n, made) ==
    made = [i \in 0 .. n |-> IF i = 0 THEN [md |-> m, is |-> <<>>]
                                      ELSE After(x, made, seq, i)]

LEMMA ChainExists ==
    ASSUME NEW x, NEW m, NEW seq, Len(seq) \in Nat
    PROVE  \E made : /\ IsMade(x, m, seq, Len(seq), made)
                     /\ Chain(x, m, seq) = made[Len(seq)]
<1> DEFINE n == Len(seq)
           T == {k \in 0 .. n : \E made : IsMade(x, m, seq, k, made)}
<1>1. 0 \in T
    <2>1. IsMade(x, m, seq, 0, [i \in 0..0 |-> [md |-> m, is |-> <<>>]])
        BY DEF IsMade
    <2> QED
        BY <2>1
<1>2. ASSUME NEW k \in 1 .. n, k - 1 \in T
      PROVE  k \in T
    <2>1. PICK f : IsMade(x, m, seq, k - 1, f)
        BY <1>2
    <2> DEFINE g == [i \in 0..k |-> IF i = k THEN After(x, f, seq, k) ELSE f[i]]
    <2>2. \A i \in 0 .. k : g[i] = IF i = 0 THEN [md |-> m, is |-> <<>>]
                                            ELSE After(x, g, seq, i)
        <3> SUFFICES ASSUME NEW i \in 0 .. k
                     PROVE  g[i] = IF i = 0 THEN [md |-> m, is |-> <<>>]
                                            ELSE After(x, g, seq, i)
            OBVIOUS
        <3>1. i # 0 => g[i-1] = f[i-1]
            OBVIOUS
        <3>2. i # 0 => After(x, g, seq, i) = After(x, f, seq, i)
            BY <3>1 DEF After
        <3>3. i # k => f[i] = IF i = 0 THEN [md |-> m, is |-> <<>>]
                                       ELSE After(x, f, seq, i)
            BY <2>1 DEF IsMade
        <3> QED
            BY <3>2, <3>3
    <2>3. g = [i \in 0..k |-> g[i]]
        OBVIOUS
    <2> HIDE DEF g
    <2>4. IsMade(x, m, seq, k, g)
        BY <2>2, <2>3 DEF IsMade
    <2> QED
        BY <2>4
<1>3. n \in T
    <2> HIDE DEF T
    <2>1. T \subseteq 0 .. n
        BY DEF T
    <2>2. T = 0 .. n
        BY <1>1, <1>2, <2>1, Upwards
    <2> QED
        BY <2>2
<1>4. \E made : IsMade(x, m, seq, n, made)
    BY <1>3
<1> DEFINE f == CHOOSE made : IsMade(x, m, seq, n, made)
<1>5. IsMade(x, m, seq, n, f)
    BY <1>4
<1>6. Chain(x, m, seq) = f[n]
    BY DEF Chain, IsMade, After
<1> QED
    BY <1>5, <1>6

(* A chain of requests leaves a good structure, and its answers are right. *)
THEOREM ChainHolds ==
    ASSUME NEW x, NEW m, NEW seq, Len(seq) \in Nat,
           Rules(x),
           Good(m), \A i \in 1 .. Len(seq) : May(x, m, seq[i])
    PROVE  /\ Good(Chain(x, m, seq).md)
           /\ Grows(m, Chain(x, m, seq).md)
           /\ IsList(Chain(x, m, seq).is)
           /\ Len(Chain(x, m, seq).is) = Len(seq)
           /\ \A i \in 1 .. Len(seq) :
                 Has(x, Chain(x, m, seq).md, seq[i], Chain(x, m, seq).is[i])
<1> DEFINE n == Len(seq)
<1>1. PICK made : IsMade(x, m, seq, n, made) /\ Chain(x, m, seq) = made[n]
    BY ChainExists
<1> DEFINE Right(c, k) == /\ Good(c.md) /\ Grows(m, c.md)
                          /\ IsList(c.is) /\ Len(c.is) = k
                          /\ \A i \in 1 .. k : Has(x, c.md, seq[i], c.is[i])
           T == {k \in 0 .. n : Right(made[k], k)}
<1>2. 0 \in T
    <2>1. made[0] = [md |-> m, is |-> <<>>]
        BY <1>1 DEF IsMade
    <2>2. IsList(<<>>) /\ Len(<<>>) = 0
        <3>1. <<>> \in Seq({})
            OBVIOUS
        <3> QED
            BY <3>1 DEF IsList
    <2>3. Grows(m, m)
        BY DEF Rules
    <2>4. made[0].md = m /\ made[0].is = <<>>
        BY <2>1
    <2>5. Right(made[0], 0)
        BY <2>2, <2>3, <2>4
    <2> QED
        BY <2>5
<1>3. ASSUME NEW k \in 1 .. n, k - 1 \in T
      PROVE  k \in T
    <2> DEFINE b == made[k-1]
               c == Call(x, b.md, seq[k])
    <2>1. /\ Good(b.md) /\ Grows(m, b.md) /\ IsList(b.is) /\ Len(b.is) = k - 1
          /\ \A i \in 1 .. k - 1 : Has(x, b.md, seq[i], b.is[i])
        BY <1>3
    <2>2. made[k].md = c.md /\ made[k].is = Append(b.is, c.is)
        <3> HIDE DEF n
        <3>1. made[k] = After(x, made, seq, k)
            BY <1>1 DEF IsMade, n
        <3> QED
            BY <3>1 DEF After
    <2> HIDE DEF b
    <2>3. May(x, b.md, seq[k])
        BY <2>1 DEF Rules
    <2>4. Good(c.md) /\ Grows(b.md, c.md) /\ Has(x, c.md, seq[k], c.is)
        BY <2>1, <2>3 DEF Rules
    <2> HIDE DEF c
    <2>5. Grows(m, c.md)
        BY <2>1, <2>4 DEF Rules
    <2>6. /\ IsList(made[k].is) /\ Len(made[k].is) = k
          /\ \A i \in 1 .. k - 1 : made[k].is[i] = b.is[i]
          /\ made[k].is[k] = c.is
        <3> HIDE DEF n
        <3>1. Len(b.is) + 1 = k
            BY <2>1
        <3> QED
            BY <2>1, <2>2, <3>1, AppendToList
    <2>7. \A i \in 1 .. k - 1 : Has(x, c.md, seq[i], b.is[i])
        BY <2>1, <2>4 DEF Rules
    <2>8. \A i \in 1 .. k : Has(x, made[k].md, seq[i], made[k].is[i])
        <3> SUFFICES ASSUME NEW i \in 1 .. k
                     PROVE  Has(x, made[k].md, seq[i], made[k].is[i])
            OBVIOUS
        <3>1. CASE i = k
            BY <2>2, <2>4, <2>6, <3>1
        <3>2. CASE i # k
            <4>1. i \in 1 .. k - 1
                BY <3>2
            <4> QED
                BY <2>2, <2>6, <2>7, <4>1
        <3> QED
            BY <3>1, <3>2
    <2>9. Right(made[k], k)
        BY <2>2, <2>4, <2>5, <2>6, <2>8
    <2> QED
        BY <2>9
<1>4. n \in T
    <2> HIDE DEF T
    <2>1. T \subseteq 0 .. n
        BY DEF T
    <2>2. T = 0 .. n
        BY <1>2, <1>3, <2>1, Upwards
    <2> QED
        BY <2>2
<1> QED
    BY <1>1, <1>4

(* A chain of requests that are all answered leaves the structure alone.   *)
THEOREM ChainStays ==
    ASSUME NEW x, NEW m, NEW seq, Len(seq) \in Nat,
           NEW S, NEW answers \in Seq(S), Len(answers) = Len(seq),
           \A i \in 1 .. Len(seq) :
               Call(x, m, seq[i]) = [md |-> m, is |-> answers[i]]
    PROVE  Chain(x, m, seq) = [md |-> m, is |-> answers]
<1> DEFINE n == Len(seq)
<1>1. PICK made : IsMade(x, m, seq, n, made) /\ Chain(x, m, seq) = made[n]
    BY ChainExists
<1> DEFINE first(k) == [i \in 1 .. k |-> answers[i]]
           T == {k \in 0 .. n : made[k] = [md |-> m, is |-> first(k)]}
<1>2. 0 \in T
    <2>1. made[0] = [md |-> m, is |-> <<>>]
        BY <1>1 DEF IsMade
    <2>2. first(0) = <<>>
        OBVIOUS
    <2> QED
        BY <2>1, <2>2
<1>3. ASSUME NEW k \in 1 .. n, k - 1 \in T
      PROVE  k \in T
    <2>1. made[k-1] = [md |-> m, is |-> first(k - 1)]
        BY <1>3
    <2>2. made[k] = After(x, made, seq, k)
        BY <1>1 DEF IsMade
    <2> HIDE DEF first
    <2>3. made[k] = [md |-> m, is |-> Append(first(k - 1), answers[k])]
        <3>1. made[k-1].md = m /\ made[k-1].is = first(k - 1)
            BY <2>1
        <3>2. Call(x, m, seq[k]) = [md |-> m, is |-> answers[k]]
            OBVIOUS
        <3>3. Call(x, m, seq[k]).md = m /\ Call(x, m, seq[k]).is = answers[k]
            BY <3>2
        <3> QED
            BY <2>2, <3>1, <3>3, Zenon DEF After
    <2>4. Append(first(k - 1), answers[k]) = first(k)
        <3>1. first(k - 1) \in Seq(S) /\ Len(first(k - 1)) = k - 1
            BY DEF first
        <3>2. answers[k] \in S
            OBVIOUS
        <3>3. \A i \in 1 .. k - 1 : first(k - 1)[i] = answers[i]
            BY DEF first
        <3> DEFINE a == Append(first(k - 1), answers[k])
        <3>4. /\ a \in Seq(S) /\ Len(a) = k
              /\ \A i \in 1 .. k - 1 : a[i] = answers[i]
              /\ a[k] = answers[k]
            BY <3>1, <3>2, <3>3
        <3> HIDE DEF a
        <3>5. a = [i \in 1 .. k |-> a[i]]
            BY <3>4
        <3>6. \A i \in 1 .. k : a[i] = answers[i]
            BY <3>4
        <3>7. a = first(k)
            BY <3>5, <3>6 DEF first
        <3> QED
            BY <3>7 DEF a
    <2>5. k \in 0 .. n
        OBVIOUS
    <2> QED
        BY <2>3, <2>4, <2>5
<1>4. n \in T
    <2> HIDE DEF T
    <2>1. T \subseteq 0 .. n
        BY DEF T
    <2>2. T = 0 .. n
        BY <1>2, <1>3, <2>1, Upwards
    <2> QED
        BY <2>2
<1>5. first(n) = answers
    OBVIOUS
<1> QED
    BY <1>1, <1>4, <1>5
=============================================================================

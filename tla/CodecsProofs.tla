---------------------------- MODULE CodecsProofs ----------------------------
(***************************************************************************)
(* What is read is what was written, for every input: any octets, secrets  *)
(* and suites of any length, any frequency.                                *)
(*                                                                         *)
(* Each reading is a loop, and each argument an induction along it: over   *)
(* the set of the numbers at which something holds (Induction), the loop   *)
(* being a function of how many rounds it has made (LoopExists).  A text   *)
(* that was put together piece by piece has a tail behind every piece      *)
(* (FlattenTails); a round of the loop that reads one piece takes the text *)
(* from one tail to the next.                                              *)
(***************************************************************************)
EXTENDS Codecs, SequenceTheorems, WellFoundedInduction, TLAPS

-----------------------------------------------------------------------------
(* Induction, and recursive functions *)

(* Induction over the numbers, of a set. *)
LEMMA Induction ==
  ASSUME NEW T \in SUBSET Nat, 0 \in T, \A n \in T : n + 1 \in T
  PROVE  \A n \in Nat : n \in T
<1> SUFFICES ASSUME Nat \ T # {} PROVE FALSE
  OBVIOUS
<1>1. \E x \in Nat \ T : \A y \in Nat \ T : ~(y < x)
  <2>1. \E x \in Nat \ T : \A y \in Nat \ T : <<y, x>> \notin OpToRel(<, Nat)
    BY NatLessThanWellFounded, WFMin
  <2> QED BY <2>1 DEF OpToRel
<1>2. PICK x \in Nat \ T : \A y \in Nat \ T : ~(y < x)
  BY <1>1
<1>3. x # 0 /\ x - 1 \in Nat
  OBVIOUS
<1>4. x - 1 \in T
  BY <1>2, <1>3
<1>5. (x - 1) + 1 \in T
  BY <1>4
<1> QED BY <1>2, <1>3, <1>5

(* Up to a number. *)
LEMMA BoundedInduction ==
  ASSUME NEW n \in Nat, NEW T, 0 \in T, \A i \in 1 .. n : i - 1 \in T => i \in T
  PROVE  \A i \in 0 .. n : i \in T
<1> DEFINE U == {i \in Nat : i <= n => i \in T}
<1>1. 0 \in U
  OBVIOUS
<1>2. ASSUME NEW i \in U PROVE i + 1 \in U
  <2>1. CASE i + 1 <= n
    <3>1. i \in T /\ i + 1 \in 1 .. n /\ (i + 1) - 1 = i
      BY <2>1
    <3> QED BY <3>1
  <2> QED BY <2>1
<1>3. \A i \in Nat : i \in U
  <2> HIDE DEF U
  <2>1. U \in SUBSET Nat
    BY DEF U
  <2> QED BY <1>1, <1>2, <2>1, Induction
<1> QED BY <1>3

(* What a loop over positions 1 .. n may run through. *)
Loops(S, n, a, step) ==
  {f \in [0 .. n -> S] : f[0] = a /\ \A i \in 1 .. n : f[i] = step[<<f[i - 1], i>>]}

(* A loop over positions 1 .. n whose state stays in S has a function from *)
(* positions to states.                                                    *)
LEMMA LoopExists ==
  ASSUME NEW S, NEW n \in Nat, NEW a \in S, NEW step \in [S \X (1 .. n) -> S]
  PROVE  Loops(S, n, a, step) # {}
<1> DEFINE Runs(k) ==
             {f \in [0 .. k -> S] : f[0] = a /\ \A j \in 1 .. k : f[j] = step[<<f[j - 1], j>>]}
           T == {k \in 0 .. n : Runs(k) # {}}
<1>1. 0 \in T
  <2> DEFINE f == [i \in 0 .. 0 |-> a]
  <2>1. f \in [0 .. 0 -> S] /\ f[0] = a /\ 1 .. 0 = {}
    OBVIOUS
  <2> HIDE DEF f
  <2>2. f \in Runs(0)
    BY <2>1
  <2> QED BY <2>2
<1>2. ASSUME NEW i \in 1 .. n, i - 1 \in T PROVE i \in T
  <2>1. PICK f \in Runs(i - 1) : TRUE
    BY <1>2
  <2> DEFINE g == [j \in 0 .. i |-> IF j = i THEN step[<<f[i - 1], i>>] ELSE f[j]]
  <2>2. f[i - 1] \in S
    BY <2>1
  <2>3. <<f[i - 1], i>> \in S \X (1 .. n)
    BY <2>2
  <2>4. step[<<f[i - 1], i>>] \in S
    BY <2>3
  <2>5. g \in [0 .. i -> S]
    BY <2>1, <2>4
  <2>6. g[0] = a
    BY <2>1
  <2>7. ASSUME NEW j \in 1 .. i PROVE g[j] = step[<<g[j - 1], j>>]
    <3>1. CASE j = i
      <4>1. g[j] = step[<<f[i - 1], i>>] /\ g[j - 1] = f[i - 1]
        BY <3>1
      <4> QED BY <3>1, <4>1
    <3>2. CASE j # i
      <4>1. j \in 1 .. i - 1 /\ j - 1 \in 0 .. i - 1 /\ j - 1 # i
        BY <3>2
      <4>2. g[j] = f[j] /\ g[j - 1] = f[j - 1]
        BY <3>2, <4>1
      <4> QED BY <2>1, <4>1, <4>2
    <3> QED BY <3>1, <3>2
  <2>8. g \in Runs(i)
    <3> HIDE DEF g
    <3> QED BY <2>5, <2>6, <2>7
  <2>9. i \in 0 .. n
    OBVIOUS
  <2> HIDE DEF g, Runs
  <2> QED BY <2>8, <2>9
<1>3. n \in T
  <2> HIDE DEF T
  <2> QED BY <1>1, <1>2, BoundedInduction
<1> QED BY <1>3 DEF Loops

-----------------------------------------------------------------------------
(* FlattenSeq *)

(* Two sequences put together. *)
LEMMA ConcatInSeq ==
  ASSUME NEW S, NEW s \in Seq(S), NEW t \in Seq(S)
  PROVE  s \o t \in Seq(S)
BY ConcatProperties

(* What FlattenSeq has put together after each of the sequences. *)
LEMMA FlattenHeads ==
  ASSUME NEW S, NEW c \in Seq(Seq(S))
  PROVE  \E heads \in [0 .. Len(c) -> Seq(S)] :
            /\ heads[0] = << >> /\ heads[Len(c)] = FlattenSeq(c)
            /\ \A i \in 1 .. Len(c) : heads[i] = heads[i - 1] \o c[i]
<1> DEFINE n == Len(c)
           Q == Seq(S)
           a == << >>
           step == [x \in Q \X (1 .. n) |-> x[1] \o c[x[2]]]
<1>1. n \in Nat /\ a \in Q /\ \A i \in 1 .. n : c[i] \in Q
  OBVIOUS
<1>2. step \in [Q \X (1 .. n) -> Q]
  BY <1>1
<1>3. Loops(Q, n, a, step) # {}
  <2> HIDE DEF step, Q, n, a
  <2> QED BY <1>1, <1>2, LoopExists
<1>4. PICK f \in Loops(Q, n, a, step) : TRUE
  BY <1>3
<1>5. f \in [0 .. n -> Q] /\ f[0] = << >>
  BY <1>4 DEF Loops
<1>6. ASSUME NEW i \in 1 .. n PROVE f[i] = f[i - 1] \o c[i]
  <2>1. f[i] = step[<<f[i - 1], i>>]
    BY <1>4 DEF Loops
  <2>2. <<f[i - 1], i>> \in Q \X (1 .. n)
    BY <1>5
  <2> QED BY <2>1, <2>2
<1>0. n \in Nat
  OBVIOUS
<1> HIDE DEF step
<1>7. CASE n = 0
  <2>1. FlattenSeq(c) = << >>
    BY <1>7 DEF FlattenSeq
  <2> QED BY <1>5, <1>6, <1>7, <2>1
<1>8. CASE n # 0
  <2> DEFINE g == [i \in 1 .. n |-> f[i]]
             flat == CHOOSE h : h = [i \in 1 .. n |-> IF i = 1 THEN c[i] ELSE h[i - 1] \o c[i]]
  <2>1. ASSUME NEW i \in 1 .. n PROVE g[i] = IF i = 1 THEN c[i] ELSE g[i - 1] \o c[i]
    <3>1. CASE i = 1
      <4>1. f[i] = f[0] \o c[1] /\ i = 1
        <5>1. i - 1 = 0
          BY <3>1
        <5>2. f[i] = f[i - 1] \o c[i]
          BY <1>6
        <5> QED BY <3>1, <5>1, <5>2
      <4>2. << >> \o c[1] = c[1]
        BY <1>1, <3>1, ConcatEmptySeq
      <4> QED BY <1>5, <3>1, <4>1, <4>2
    <3>2. CASE i # 1
      <4>1. i - 1 \in 1 .. n
        BY <3>2
      <4> QED BY <1>6, <3>2, <4>1
    <3> QED BY <3>1, <3>2
  <2>2. g = [i \in 1 .. n |-> IF i = 1 THEN c[i] ELSE g[i - 1] \o c[i]]
    BY <2>1
  <2>3. \E h : h = [i \in 1 .. n |-> IF i = 1 THEN c[i] ELSE h[i - 1] \o c[i]]
    <3> HIDE DEF g
    <3> QED BY <2>2, Zenon
  <2>4. flat = [i \in 1 .. n |-> IF i = 1 THEN c[i] ELSE flat[i - 1] \o c[i]]
    BY <2>3, Zenon
  <2>5. FlattenSeq(c) = flat[n]
    BY <1>8 DEF FlattenSeq
  <2> HIDE DEF flat, g
  <2> DEFINE T == {i \in Nat : i = 0 \/ (i \in 1 .. n /\ flat[i] = f[i])}
  <2>6. ASSUME NEW i \in 1 .. n, i - 1 \in T PROVE i \in T
    <3>1. CASE i = 1
      <4>1. flat[1] = c[1]
        BY <2>4, <3>1
      <4>2. f[i] = f[0] \o c[1] /\ i = 1
        <5>1. i - 1 = 0
          BY <3>1
        <5>2. f[i] = f[i - 1] \o c[i]
          BY <1>6
        <5> QED BY <3>1, <5>1, <5>2
      <4>3. << >> \o c[1] = c[1]
        BY <1>1, <3>1, ConcatEmptySeq
      <4> QED BY <1>5, <3>1, <4>1, <4>2, <4>3
    <3>2. CASE i # 1
      <4>1. i - 1 \in 1 .. n /\ flat[i - 1] = f[i - 1]
        BY <2>6, <3>2
      <4>2. flat[i] = flat[i - 1] \o c[i]
        BY <2>4, <3>2
      <4>3. f[i] = f[i - 1] \o c[i]
        BY <1>6
      <4>4. flat[i] = f[i] /\ i \in Nat
        BY <4>1, <4>2, <4>3
      <4> QED BY <4>4
    <3> QED BY <3>1, <3>2
  <2>7. n \in T
    <3>1. 0 \in T
      OBVIOUS
    <3> HIDE DEF T, n
    <3> QED BY <1>0, <2>6, <3>1, BoundedInduction, SMTT(30)
  <2> QED BY <1>5, <1>6, <1>8, <2>5, <2>7
<1> QED BY <1>7, <1>8

(* FlattenSeq stays within the type. *)
LEMMA FlattenType ==
  ASSUME NEW S, NEW c \in Seq(Seq(S))
  PROVE  FlattenSeq(c) \in Seq(S)
<1>1. PICK heads \in [0 .. Len(c) -> Seq(S)] : heads[Len(c)] = FlattenSeq(c)
  BY FlattenHeads
<1>2. Len(c) \in 0 .. Len(c)
  OBVIOUS
<1> QED BY <1>1, <1>2

(* What is still to come after each of them. *)
Tails(S, c) ==
  {tails \in [0 .. Len(c) -> Seq(S)] :
     /\ tails[0] = FlattenSeq(c) /\ tails[Len(c)] = << >>
     /\ \A i \in 1 .. Len(c) : tails[i - 1] = c[i] \o tails[i]}

(* There are such. *)
LEMMA FlattenTails ==
  ASSUME NEW S, NEW c \in Seq(Seq(S))
  PROVE  Tails(S, c) # {}
<1> DEFINE n == Len(c)
           Q == Seq(S)
           a == << >>
           step == [x \in Q \X (1 .. n) |-> c[(n - x[2]) + 1] \o x[1]]
<1>1. n \in Nat /\ a \in Q /\ \A i \in 1 .. n : c[i] \in Q /\ (n - i) + 1 \in 1 .. n
  OBVIOUS
<1>2. step \in [Q \X (1 .. n) -> Q]
  BY <1>1
<1>3. Loops(Q, n, a, step) # {}
  <2> HIDE DEF step, Q, n, a
  <2> QED BY <1>1, <1>2, LoopExists
<1>4. PICK f \in Loops(Q, n, a, step) : TRUE
  BY <1>3
<1>5. f \in [0 .. n -> Q] /\ f[0] = << >>
  BY <1>4 DEF Loops
<1>6. ASSUME NEW i \in 1 .. n PROVE f[i] = c[(n - i) + 1] \o f[i - 1]
  <2>1. f[i] = step[<<f[i - 1], i>>]
    BY <1>4 DEF Loops
  <2>2. <<f[i - 1], i>> \in Q \X (1 .. n)
    BY <1>5
  <2> QED BY <2>1, <2>2
<1>0. n \in Nat
  OBVIOUS
<1> HIDE DEF step
<1> DEFINE tails == [i \in 0 .. n |-> f[n - i]]
<1>7. tails \in [0 .. n -> Q] /\ tails[n] = << >>
  BY <1>1, <1>5
<1>8. ASSUME NEW i \in 1 .. n PROVE tails[i - 1] = c[i] \o tails[i]
  <2>1. n - (i - 1) \in 1 .. n /\ (n - (i - 1)) - 1 = n - i /\ (n - (n - (i - 1))) + 1 = i
    BY <1>1
  <2>2. f[n - (i - 1)] = c[i] \o f[n - i]
    BY <1>6, <2>1
  <2>3. i - 1 \in 0 .. n /\ i \in 0 .. n
    BY <1>0
  <2> QED BY <2>2, <2>3
<1>9. PICK heads \in [0 .. n -> Q] :
         /\ heads[0] = << >> /\ heads[n] = FlattenSeq(c)
         /\ \A i \in 1 .. n : heads[i] = heads[i - 1] \o c[i]
  BY FlattenHeads
<1> HIDE DEF tails
<1> DEFINE T == {i \in 0 .. n : heads[i] \o tails[i] = tails[0]}
<1>10. ASSUME NEW i \in 1 .. n, i - 1 \in T PROVE i \in T
  <2>0. i - 1 \in 0 .. n /\ i \in 0 .. n
    BY <1>0
  <2>1. heads[i - 1] \in Q /\ c[i] \in Q /\ tails[i] \in Q
    BY <1>1, <1>7, <1>9, <2>0
  <2>2. heads[i] \o tails[i] = (heads[i - 1] \o c[i]) \o tails[i]
    BY <1>9
  <2>3. (heads[i - 1] \o c[i]) \o tails[i] = heads[i - 1] \o (c[i] \o tails[i])
    <3> DEFINE x == heads[i - 1]
               y == c[i]
               z == tails[i]
    <3>1. x \in Seq(S) /\ y \in Seq(S) /\ z \in Seq(S)
      BY <2>1
    <3> HIDE DEF x, y, z
    <3>2. (x \o y) \o z = x \o (y \o z)
      BY <3>1, SMTT(30)
    <3> QED BY <3>2 DEF x, y, z
  <2>4. heads[i - 1] \o (c[i] \o tails[i]) = heads[i - 1] \o tails[i - 1]
    BY <1>8
  <2>5. heads[i - 1] \o tails[i - 1] = tails[0]
    BY <1>10
  <2> QED BY <2>0, <2>2, <2>3, <2>4, <2>5
<1>11. n \in T
  <2>1. 0 \in T
    <3>1. tails[0] \in Q
      BY <1>1, <1>7
    <3> QED BY <1>1, <1>9, <3>1, ConcatEmptySeq
  <2> HIDE DEF T, n
  <2>2. \A i \in 0 .. n : i \in T
    BY <1>0, <1>10, <2>1, BoundedInduction
  <2> QED BY <1>0, <2>2
<1>12. heads[n] \o << >> = heads[n]
  BY <1>1, <1>9, ConcatEmptySeq
<1>13. tails[0] = FlattenSeq(c)
  BY <1>7, <1>9, <1>11, <1>12
<1>14. tails \in Tails(S, c)
  BY <1>7, <1>8, <1>13 DEF Tails
<1> QED BY <1>14

-----------------------------------------------------------------------------
(* Sequences put together and taken apart *)

(* The elements of two sequences put together. *)
LEMMA ConcatSays ==
  ASSUME NEW S, NEW s \in Seq(S), NEW t \in Seq(S)
  PROVE  /\ s \o t \in Seq(S) /\ Len(s \o t) = Len(s) + Len(t)
         /\ \A i \in 1 .. Len(s) : (s \o t)[i] = s[i]
         /\ \A i \in 1 .. Len(t) : (s \o t)[Len(s) + i] = t[i]
<1> DEFINE b == s \o t
<1>1. b \in Seq(S) /\ Len(b) = Len(s) + Len(t)
  BY ConcatProperties
<1>2. \A i \in 1 .. Len(s) + Len(t) : b[i] = IF i <= Len(s) THEN s[i] ELSE t[i - Len(s)]
  BY ConcatProperties
<1> HIDE DEF b
<1>3. Len(s) \in Nat /\ Len(t) \in Nat
  OBVIOUS
<1>4. \A i \in 1 .. Len(s) : b[i] = s[i]
  BY <1>2, <1>3
<1>5. ASSUME NEW i \in 1 .. Len(t) PROVE b[Len(s) + i] = t[i]
  <2>1. Len(s) + i \in 1 .. Len(s) + Len(t) /\ ~(Len(s) + i <= Len(s)) /\ (Len(s) + i) - Len(s) = i
    BY <1>3
  <2> QED BY <1>2, <2>1
<1> QED BY <1>1, <1>4, <1>5 DEF b

(* The elements from a place on. *)
LEMMA FromSays ==
  ASSUME NEW S, NEW s \in Seq(S), NEW m \in Nat \ {0}, m <= Len(s) + 1
  PROVE  /\ From(s, m) \in Seq(S) /\ Len(From(s, m)) = (Len(s) - m) + 1
         /\ \A i \in 1 .. (Len(s) - m) + 1 : From(s, m)[i] = s[(m - 1) + i]
<1> DEFINE u == SubSeq(s, m, Len(s))
<1>1. Len(s) \in Nat /\ m \in Int /\ Len(s) \in Int /\ \A i \in m .. Len(s) : s[i] \in S
  OBVIOUS
<1>2. /\ u \in Seq(S) /\ Len(u) = IF m <= Len(s) THEN (Len(s) - m) + 1 ELSE 0
      /\ \A i \in 1 .. (Len(s) - m) + 1 : u[i] = s[(m + i) - 1]
  BY <1>1, SubSeqProperties
<1> HIDE DEF u
<1>3. Len(u) = (Len(s) - m) + 1
  BY <1>1, <1>2
<1>4. \A i \in 1 .. (Len(s) - m) + 1 : (m + i) - 1 = (m - 1) + i
  BY <1>1
<1> QED BY <1>2, <1>3, <1>4 DEF u, From

(* Tail is one such. *)
LEMMA TailIsFrom ==
  ASSUME NEW S, NEW s \in Seq(S), s # << >>
  PROVE  Tail(s) = From(s, 2)
BY TailIsSubSeq DEF From

(* From a place in the second of two. *)
LEMMA FromConcat ==
  ASSUME NEW S, NEW s \in Seq(S), NEW t \in Seq(S), NEW m \in Nat \ {0}, m <= Len(t) + 1
  PROVE  From(s \o t, Len(s) + m) = From(t, m)
<1> DEFINE b == s \o t
           u == From(b, Len(s) + m)
           v == From(t, m)
<1>1. /\ b \in Seq(S) /\ Len(b) = Len(s) + Len(t)
      /\ \A i \in 1 .. Len(t) : b[Len(s) + i] = t[i]
  BY ConcatSays
<1>2. Len(s) \in Nat /\ Len(t) \in Nat
  OBVIOUS
<1> HIDE DEF b
<1>3. /\ u \in Seq(S) /\ Len(u) = (Len(b) - (Len(s) + m)) + 1
      /\ \A i \in 1 .. (Len(b) - (Len(s) + m)) + 1 : u[i] = b[((Len(s) + m) - 1) + i]
  <2> DEFINE k == Len(s) + m
  <2>1. b \in Seq(S) /\ k \in Nat \ {0} /\ k <= Len(b) + 1
    BY <1>1, <1>2
  <2> HIDE DEF k
  <2>2. /\ From(b, k) \in Seq(S) /\ Len(From(b, k)) = (Len(b) - k) + 1
        /\ \A i \in 1 .. (Len(b) - k) + 1 : From(b, k)[i] = b[(k - 1) + i]
    BY <2>1, FromSays
  <2> QED BY <2>2 DEF k
<1>4. /\ v \in Seq(S) /\ Len(v) = (Len(t) - m) + 1
      /\ \A i \in 1 .. (Len(t) - m) + 1 : v[i] = t[(m - 1) + i]
  BY FromSays
<1> HIDE DEF u, v
<1>5. (Len(b) - (Len(s) + m)) + 1 = (Len(t) - m) + 1
  BY <1>1, <1>2
<1>6. ASSUME NEW i \in 1 .. (Len(t) - m) + 1 PROVE u[i] = v[i]
  <2>1. ((Len(s) + m) - 1) + i = Len(s) + ((m - 1) + i) /\ (m - 1) + i \in 1 .. Len(t)
    BY <1>2
  <2>2. u[i] = b[((Len(s) + m) - 1) + i] /\ v[i] = t[(m - 1) + i]
    BY <1>3, <1>4, <1>5
  <2> QED BY <1>1, <2>1, <2>2
<1>7. u = v
  BY <1>3, <1>4, <1>5, <1>6, SeqEqual
<1> QED BY <1>7 DEF u, v, b

(* Tail takes from the first of two. *)
LEMMA TailConcat ==
  ASSUME NEW S, NEW s \in Seq(S), NEW t \in Seq(S), s # << >>
  PROVE  Tail(s \o t) = Tail(s) \o t
<1> DEFINE b == s \o t
           r == Tail(s)
           u == Tail(b)
           v == r \o t
<1>1. /\ b \in Seq(S) /\ Len(b) = Len(s) + Len(t)
      /\ \A i \in 1 .. Len(s) : b[i] = s[i]
      /\ \A i \in 1 .. Len(t) : b[Len(s) + i] = t[i]
  BY ConcatSays
<1>2. Len(s) \in Nat /\ Len(t) \in Nat /\ Len(s) >= 1
  OBVIOUS
<1> HIDE DEF b
<1>3. b # << >>
  BY <1>1, <1>2
<1>4. r \in Seq(S) /\ Len(r) = Len(s) - 1 /\ \A i \in 1 .. Len(r) : r[i] = s[i + 1]
  BY HeadTailProperties
<1>5. u \in Seq(S) /\ Len(u) = Len(b) - 1 /\ \A i \in 1 .. Len(u) : u[i] = b[i + 1]
  BY <1>1, <1>3, HeadTailProperties
<1> HIDE DEF r, u
<1>6. /\ v \in Seq(S) /\ Len(v) = Len(r) + Len(t)
      /\ \A i \in 1 .. Len(r) : v[i] = r[i]
      /\ \A i \in 1 .. Len(t) : v[Len(r) + i] = t[i]
  <2>1. r \in Seq(S)
    BY <1>4
  <2> QED BY <2>1, ConcatSays
<1> HIDE DEF v
<1>7. Len(u) = Len(v)
  BY <1>1, <1>2, <1>4, <1>5, <1>6
<1>8. ASSUME NEW i \in 1 .. Len(v) PROVE u[i] = v[i]
  <2>1. u[i] = b[i + 1]
    BY <1>5, <1>7
  <2>2. CASE i <= Len(r)
    <3>1. i \in 1 .. Len(r) /\ i + 1 \in 1 .. Len(s)
      BY <1>2, <1>4, <2>2
    <3> QED BY <1>1, <1>4, <1>6, <2>1, <3>1
  <2>3. CASE i > Len(r)
    <3> DEFINE k == i - Len(r)
    <3>1. k \in 1 .. Len(t) /\ i = Len(r) + k /\ i + 1 = Len(s) + k
      BY <1>2, <1>4, <1>6, <2>3
    <3> HIDE DEF k
    <3>2. v[i] = t[k]
      BY <1>6, <3>1
    <3>3. b[i + 1] = t[k]
      BY <1>1, <3>1
    <3> QED BY <2>1, <3>2, <3>3
  <2> QED BY <1>2, <1>4, <2>2, <2>3
<1>9. u = v
  BY <1>5, <1>6, <1>7, <1>8, SeqEqual
<1> QED BY <1>9 DEF b, r, u, v

(* How they are put together does not matter. *)
LEMMA Assoc ==
  ASSUME NEW S, NEW s \in Seq(S), NEW t \in Seq(S), NEW u \in Seq(S)
  PROVE  (s \o t) \o u = s \o (t \o u)
OBVIOUS

(* A prefix, element by element. *)
LEMMA PrefixSays ==
  ASSUME NEW S, NEW s \in Seq(S), NEW t \in Seq(S)
  PROVE  IsPrefix(s, t) <=> Len(s) <= Len(t) /\ \A i \in 1 .. Len(s) : s[i] = t[i]
<1>1. CASE Len(s) <= Len(t)
  <2> DEFINE u == SubSeq(t, 1, Len(s))
  <2>1. SubSeq(s, 1, Len(s)) = s
    BY SubSeqFull
  <2>2. u \in Seq(S) /\ Len(u) = Len(s) /\ \A i \in 1 .. Len(s) : u[i] = t[i]
    BY <1>1
  <2> HIDE DEF u
  <2>3. s = u <=> \A i \in 1 .. Len(s) : s[i] = u[i]
    BY <2>2
  <2> QED BY <1>1, <2>1, <2>2, <2>3 DEF IsPrefix, u
<1> QED BY <1>1 DEF IsPrefix

-----------------------------------------------------------------------------
(* Names *)

(* KeyMgmtNames, written out. *)
LEMMA NamesListed ==
  KeyMgmtNames =
    {<<"EAP">>, <<"PSK">>, <<"SAE">>, <<"OWE">>, <<"DPP">>, <<"None">>, <<"?">>,
     <<"FT", "/", "EAP">>, <<"FT", "/", "PSK">>, <<"FT", "/", "SAE">>,
     <<"EAP", "-", "SHA256">>, <<"PSK", "-", "SHA256">>, <<"EAP", "-", "SHA384">>,
     <<"EAP", "-", "SUITE", "-", "B">>, <<"EAP", "-", "SUITE", "-", "B", "-", "192">>,
     <<"SAE", "-", "EXT", "-", "KEY">>, <<"FT", "/", "SAE", "-", "EXT", "-", "KEY">>,
     <<"FILS", "-", "SHA256">>, <<"FILS", "-", "SHA384">>,
     <<"FT", "/", "FILS", "-", "SHA256">>, <<"FT", "/", "FILS", "-", "SHA384">>}
<1>1. {<<w>> : w \in {"EAP", "PSK", "SAE", "OWE", "DPP", "None", "?"}}
        = {<<"EAP">>, <<"PSK">>, <<"SAE">>, <<"OWE">>, <<"DPP">>, <<"None">>, <<"?">>}
  OBVIOUS
<1>2. FT({<<"EAP">>, <<"PSK">>, <<"SAE">>})
        = {<<"FT", "/", "EAP">>, <<"FT", "/", "PSK">>, <<"FT", "/", "SAE">>}
  BY DEF FT
<1>3. FT(Strong) = {<<"FT", "/", "SAE", "-", "EXT", "-", "KEY">>}
  BY DEF FT, Strong
<1>4. FT(Fils) = {<<"FT", "/", "FILS", "-", "SHA256">>, <<"FT", "/", "FILS", "-", "SHA384">>}
  BY DEF FT, Fils
<1> QED BY <1>1, <1>2, <1>3, <1>4 DEF KeyMgmtNames, Strong, Fils

(* The words of a flags column. *)
Words == STRING \cup {"EAP", "PSK", "SAE", "OWE", "DPP", "None", "?", "FT", "/", "-", "SHA256",
                      "SHA384", "SUITE", "B", "192", "EXT", "KEY", "FILS", "+", "CCMP", "WPA2",
                      "ESS"}

(* They are sequences of words. *)
LEMMA NamesAreWords == \A n \in KeyMgmtNames : n \in Seq(Words)
<1>1. \A a, b, c, d, e, f, g \in Words :
         /\ <<a>> \in Seq(Words) /\ <<a, b, c>> \in Seq(Words) /\ <<a, b, c, d, e>> \in Seq(Words)
         /\ <<a, b, c, d, e, f, g>> \in Seq(Words)
  OBVIOUS
<1> DEFINE P(a) == <<a>> \in Seq(Words)
           Q(a, b, c) == <<a, b, c>> \in Seq(Words)
           R(a, b, c, d, e) == <<a, b, c, d, e>> \in Seq(Words)
           T(a, b, c, d, e, f, g) == <<a, b, c, d, e, f, g>> \in Seq(Words)
<1>2. P("EAP") /\ P("PSK") /\ P("SAE") /\ P("OWE") /\ P("DPP") /\ P("None") /\ P("?")
  BY <1>1 DEF Words
<1>3. /\ Q("FT", "/", "EAP") /\ Q("FT", "/", "PSK") /\ Q("FT", "/", "SAE")
      /\ Q("EAP", "-", "SHA256") /\ Q("PSK", "-", "SHA256") /\ Q("EAP", "-", "SHA384")
      /\ Q("FILS", "-", "SHA256") /\ Q("FILS", "-", "SHA384")
  BY <1>1 DEF Words
<1>4. /\ R("EAP", "-", "SUITE", "-", "B") /\ R("SAE", "-", "EXT", "-", "KEY")
      /\ R("FT", "/", "FILS", "-", "SHA256") /\ R("FT", "/", "FILS", "-", "SHA384")
  BY <1>1 DEF Words
<1>5. T("EAP", "-", "SUITE", "-", "B", "-", "192") /\ T("FT", "/", "SAE", "-", "EXT", "-", "KEY")
  BY <1>1 DEF Words
<1> QED BY <1>2, <1>3, <1>4, <1>5, NamesListed

(* No name has a + in it, or CCMP, and none ends in a dash. *)
LEMMA NamesSay ==
  \A n \in KeyMgmtNames :
     /\ n \in Seq(Words) /\ Len(n) >= 1 /\ n[Len(n)] # "-"
     /\ \A i \in 1 .. Len(n) : n[i] # "+" /\ n[i] # "CCMP"
<1> DEFINE Fine(n) == /\ Len(n) >= 1 /\ n[Len(n)] # "-"
                      /\ \A i \in 1 .. Len(n) : n[i] # "+" /\ n[i] # "CCMP"
<1>1. \A n \in {<<"EAP">>, <<"PSK">>, <<"SAE">>, <<"OWE">>, <<"DPP">>, <<"None">>, <<"?">>} :
        Fine(n)
  BY SMTT(30)
<1>2. \A n \in {<<"FT", "/", "EAP">>, <<"FT", "/", "PSK">>, <<"FT", "/", "SAE">>} : Fine(n)
  BY SMTT(30)
<1>3. \A n \in {<<"EAP", "-", "SHA256">>, <<"PSK", "-", "SHA256">>, <<"EAP", "-", "SHA384">>,
                <<"FILS", "-", "SHA256">>, <<"FILS", "-", "SHA384">>} : Fine(n)
  BY SMTT(30)
<1>a. ASSUME NEW a, NEW b, NEW c, NEW d, NEW e, NEW f, NEW g,
             \A w \in {a, b, c, d, e, f, g} : w # "+" /\ w # "CCMP", e # "-", g # "-"
      PROVE  Fine(<<a, b, c, d, e>>) /\ Fine(<<a, b, c, d, e, f, g>>)
  <2>1. Fine(<<a, b, c, d, e>>)
    <3> DEFINE n == <<a, b, c, d, e>>
    <3>1. Len(n) = 5 /\ n[5] = e /\ n[1] = a /\ n[2] = b /\ n[3] = c /\ n[4] = d
      OBVIOUS
    <3>2. 1 .. 5 = {1, 2, 3, 4, 5}
      OBVIOUS
    <3> HIDE DEF n
    <3>3. Fine(n)
      BY <1>a, <3>1, <3>2
    <3> QED BY <3>3 DEF n
  <2>2. Fine(<<a, b, c, d, e, f, g>>)
    <3> DEFINE n == <<a, b, c, d, e, f, g>>
    <3>1. /\ Len(n) = 7 /\ n[5] = e /\ n[1] = a /\ n[2] = b /\ n[3] = c /\ n[4] = d
          /\ n[6] = f /\ n[7] = g
      OBVIOUS
    <3>2. 1 .. 7 = {1, 2, 3, 4, 5, 6, 7}
      OBVIOUS
    <3> HIDE DEF n
    <3>3. Fine(n)
      BY <1>a, <3>1, <3>2
    <3> QED BY <3>3 DEF n
  <2> QED BY <2>1, <2>2
<1> HIDE DEF Fine
<1>4. \A n \in {<<"EAP", "-", "SUITE", "-", "B">>, <<"SAE", "-", "EXT", "-", "KEY">>,
                <<"FT", "/", "FILS", "-", "SHA256">>,
                <<"FT", "/", "FILS", "-", "SHA384">>} : Fine(n)
  BY <1>a
<1>5. \A n \in {<<"EAP", "-", "SUITE", "-", "B", "-", "192">>,
                <<"FT", "/", "SAE", "-", "EXT", "-", "KEY">>} : Fine(n)
  BY <1>a
<1>6. \A n \in KeyMgmtNames : Fine(n)
  BY <1>1, <1>2, <1>3, <1>4, <1>5, NamesListed
<1> QED BY <1>6, NamesAreWords DEF Fine

(* What a candidate is. *)
LEMMA CandidateSays ==
  ASSUME NEW body \in Seq(Words), NEW n \in Candidates(body)
  PROVE  /\ n \in KeyMgmtNames /\ n \in Seq(Words) /\ Len(n) \in 1 .. Len(body)
         /\ \A i \in 1 .. Len(n) : n[i] = body[i]
         /\ Len(n) = Len(body) \/ body[Len(n) + 1] \in {"+", "-"}
<1>1. n \in KeyMgmtNames /\ IsPrefix(n, body) /\ EndsThere(body, n)
  BY DEF Candidates
<1>2. n \in Seq(Words) /\ Len(n) >= 1
  BY <1>1, NamesSay
<1>3. Len(n) <= Len(body) /\ \A i \in 1 .. Len(n) : n[i] = body[i]
  BY <1>1, <1>2, PrefixSays
<1>4. Len(n) = Len(body) \/ body[Len(n) + 1] \in {"+", "-"}
  BY <1>1 DEF EndsThere
<1> QED BY <1>1, <1>2, <1>3, <1>4

(* What is a candidate. *)
LEMMA CandidateIf ==
  ASSUME NEW body \in Seq(Words), NEW n \in KeyMgmtNames, Len(n) <= Len(body),
         \A i \in 1 .. Len(n) : n[i] = body[i],
         Len(n) = Len(body) \/ body[Len(n) + 1] \in {"+", "-"}
  PROVE  n \in Candidates(body)
<1>1. n \in Seq(Words)
  BY NamesSay
<1>2. IsPrefix(n, body)
  BY <1>1, PrefixSays
<1> QED BY <1>2 DEF Candidates, EndsThere

(* At most one name is read at a place. *)
LEMMA NameAtSays ==
  ASSUME NEW body \in Seq(Words)
  PROVE  /\ NameAt(body) \subseteq Candidates(body)
         /\ \A m, n \in NameAt(body) : m = n
<1>1. NameAt(body) \subseteq Candidates(body)
  BY DEF NameAt
<1>2. ASSUME NEW m \in NameAt(body), NEW n \in NameAt(body) PROVE m = n
  <2>1. /\ m \in Seq(Words) /\ Len(m) \in 1 .. Len(body) /\ \A i \in 1 .. Len(m) : m[i] = body[i]
        /\ n \in Seq(Words) /\ Len(n) \in 1 .. Len(body) /\ \A i \in 1 .. Len(n) : n[i] = body[i]
    BY <1>1, CandidateSays
  <2>2. Len(m) <= Len(n) /\ Len(n) <= Len(m)
    BY DEF NameAt
  <2>3. Len(m) = Len(n)
    BY <2>1, <2>2
  <2>4. \A i \in 1 .. Len(m) : m[i] = n[i]
    BY <2>1, <2>3
  <2> QED BY <2>1, <2>3, <2>4, SeqEqual
<1> QED BY <1>1, <1>2

(* Where a text has ended there is no name. *)
LEMMA NothingAtEnd == NameAt(<< >>) = {}
<1>1. << >> \in Seq(Words) /\ Len(<< >>) = 0
  OBVIOUS
<1>2. \A n \in Candidates(<< >>) : Len(n) \in 1 .. Len(<< >>)
  BY <1>1, CandidateSays
<1>3. Candidates(<< >>) = {}
  BY <1>1, <1>2
<1> QED BY <1>3 DEF NameAt

(* A name that stands alone is read whole. *)
LEMMA NameAtName ==
  ASSUME NEW s \in KeyMgmtNames
  PROVE  NameAt(s) = {s}
<1>1. s \in Seq(Words)
  BY NamesSay
<1>2. s \in Candidates(s)
  BY <1>1, CandidateIf
<1>3. \A n \in Candidates(s) : Len(n) <= Len(s)
  BY <1>1, CandidateSays
<1>4. s \in NameAt(s)
  BY <1>2, <1>3 DEF NameAt
<1> QED BY <1>1, <1>4, NameAtSays

(* What follows a suite: another one, or the cipher. *)
Follows(t) == \/ t = <<"-", "CCMP">>
              \/ t \in Seq(Words) /\ t # << >> /\ t[1] = "+"

(* How what follows begins. *)
LEMMA FollowsSays ==
  ASSUME NEW t, Follows(t)
  PROVE  /\ t \in Seq(Words) /\ Len(t) >= 1 /\ t[1] \in {"+", "-"}
         /\ t[1] = "-" => t = <<"-", "CCMP">> /\ Len(t) = 2 /\ t[2] = "CCMP"
<1>1. CASE t = <<"-", "CCMP">>
  <2>1. "-" \in Words /\ "CCMP" \in Words
    BY DEF Words
  <2>2. t \in Seq(Words)
    BY <1>1, <2>1
  <2> QED BY <1>1, <2>2
<1>2. CASE t \in Seq(Words) /\ t # << >> /\ t[1] = "+"
  BY <1>2
<1> QED BY <1>1, <1>2 DEF Follows

(* A suite among others is read as it would be alone. *)
LEMMA CandidatesBefore ==
  ASSUME NEW s \in Seq(Words), \A i \in 1 .. Len(s) : s[i] # "+", NEW t, Follows(t)
  PROVE  Candidates(s \o t) = Candidates(s)
<1> DEFINE b == s \o t
<1>1. t \in Seq(Words) /\ Len(t) >= 1 /\ t[1] \in {"+", "-"}
  BY FollowsSays
<1>2. /\ b \in Seq(Words) /\ Len(b) = Len(s) + Len(t)
      /\ \A i \in 1 .. Len(s) : b[i] = s[i]
      /\ \A i \in 1 .. Len(t) : b[Len(s) + i] = t[i]
  <2>1. \A i \in 1 .. Len(t) : Len(s) + i \in 1 .. Len(s) + Len(t)
                               /\ ~(Len(s) + i <= Len(s)) /\ (Len(s) + i) - Len(s) = i
    BY <1>1
  <2> QED BY <1>1, <2>1, ConcatProperties
<1> HIDE DEF b
<1>3. ASSUME NEW n \in Candidates(b) PROVE n \in Candidates(s)
  <2>1. /\ n \in KeyMgmtNames /\ n \in Seq(Words) /\ Len(n) \in 1 .. Len(b)
        /\ \A i \in 1 .. Len(n) : n[i] = b[i]
        /\ Len(n) = Len(b) \/ b[Len(n) + 1] \in {"+", "-"}
    BY <1>2, CandidateSays
  <2>2. n[Len(n)] # "-" /\ \A i \in 1 .. Len(n) : n[i] # "+" /\ n[i] # "CCMP"
    BY <2>1, NamesSay
  <2>3. Len(n) <= Len(s)
    <3> SUFFICES ASSUME Len(n) >= Len(s) + 1 PROVE FALSE
      BY <2>1
    <3>1. n[Len(s) + 1] = t[1]
      BY <1>1, <1>2, <2>1
    <3>2. t[1] = "-"
      BY <1>1, <2>1, <2>2, <3>1
    <3>3. Len(n) # Len(s) + 1
      BY <2>2, <3>1, <3>2
    <3>4. Len(t) = 2 /\ t[2] = "CCMP"
      BY <3>2, FollowsSays
    <3>5. Len(s) + 2 \in 1 .. Len(n) /\ n[Len(s) + 2] = t[2]
      BY <1>2, <2>1, <3>3, <3>4
    <3> QED BY <2>2, <3>4, <3>5
  <2>4. \A i \in 1 .. Len(n) : n[i] = s[i]
    BY <1>2, <2>1, <2>3
  <2>5. Len(n) = Len(s) \/ s[Len(n) + 1] \in {"+", "-"}
    BY <1>1, <1>2, <2>1, <2>3
  <2> QED BY <2>1, <2>3, <2>4, <2>5, CandidateIf
<1>4. ASSUME NEW n \in Candidates(s) PROVE n \in Candidates(b)
  <2>1. /\ n \in KeyMgmtNames /\ n \in Seq(Words) /\ Len(n) \in 1 .. Len(s)
        /\ \A i \in 1 .. Len(n) : n[i] = s[i]
        /\ Len(n) = Len(s) \/ s[Len(n) + 1] \in {"+", "-"}
    BY CandidateSays
  <2>2. Len(n) <= Len(b) /\ \A i \in 1 .. Len(n) : n[i] = b[i]
    BY <1>1, <1>2, <2>1
  <2>3. b[Len(n) + 1] \in {"+", "-"}
    <3>1. CASE Len(n) = Len(s)
      BY <1>1, <1>2, <3>1
    <3>2. CASE Len(n) # Len(s)
      BY <1>2, <2>1, <3>2
    <3> QED BY <3>1, <3>2
  <2> QED BY <1>2, <2>1, <2>2, <2>3, CandidateIf
<1>5. Candidates(b) = Candidates(s)
  BY <1>3, <1>4
<1> QED BY <1>5 DEF b

(* And so is the name read there. *)
LEMMA NameAtBefore ==
  ASSUME NEW s \in Seq(Words), \A i \in 1 .. Len(s) : s[i] # "+", NEW t, Follows(t)
  PROVE  NameAt(s \o t) = NameAt(s)
BY CandidatesBefore DEF NameAt

(* Of a suite without a name only a name it goes on from is read. *)
LEMMA ForeignSays ==
  ASSUME NEW s \in Seq(Words), \A i \in 1 .. Len(s) : s[i] # "+", s \notin KeyMgmtNames,
         NEW name \in NameAt(s)
  PROVE  Len(name) < Len(s) /\ s[Len(name) + 1] = "-" /\ IsPrefix(name \o <<"-">>, s)
<1>1. /\ name \in KeyMgmtNames /\ name \in Seq(Words) /\ Len(name) \in 1 .. Len(s)
      /\ \A i \in 1 .. Len(name) : name[i] = s[i]
      /\ Len(name) = Len(s) \/ s[Len(name) + 1] \in {"+", "-"}
  BY CandidateSays, NameAtSays
<1>2. Len(name) # Len(s)
  BY <1>1, SeqEqual
<1>3. Len(name) < Len(s) /\ s[Len(name) + 1] = "-"
  BY <1>1, <1>2
<1> DEFINE p == name \o <<"-">>
<1>4. "-" \in Words
  BY DEF Words
<1>5. <<"-">> \in Seq(Words)
  BY <1>4
<1>6. /\ p \in Seq(Words) /\ Len(p) = Len(name) + 1
      /\ \A i \in 1 .. Len(name) : p[i] = name[i]
      /\ p[Len(name) + 1] = "-"
  BY <1>1, <1>5
<1> HIDE DEF p
<1>7. IsPrefix(p, s)
  <2>1. Len(p) <= Len(s) /\ \A i \in 1 .. Len(p) : p[i] = s[i]
    BY <1>1, <1>3, <1>6
  <2> QED BY <1>6, <2>1, PrefixSays
<1> QED BY <1>3, <1>7 DEF p

(* What a reading of a group goes through. *)
Readings == [names : SUBSET KeyMgmtNames, rest : Seq(Words)]

(* Reading a name keeps to the type. *)
LEMMA ReadNameType == \A s \in Readings : ReadName(s) \in Readings
<1> SUFFICES ASSUME NEW s \in Readings PROVE ReadName(s) \in Readings
  OBVIOUS
<1>1. s.names \in SUBSET KeyMgmtNames /\ s.rest \in Seq(Words)
  BY DEF Readings
<1>2. << >> \in Seq(Words)
  OBVIOUS
<1>3. CASE NameAt(s.rest) = {}
  <2>1. ReadName(s) = [s EXCEPT !.rest = << >>]
    BY <1>3 DEF ReadName
  <2> QED BY <1>2, <2>1 DEF Readings
<1>4. CASE NameAt(s.rest) # {}
  <2> DEFINE name == CHOOSE n \in NameAt(s.rest) : TRUE
             more == Len(s.rest) > Len(name) /\ s.rest[Len(name) + 1] = "+"
             next == IF more THEN SubSeq(s.rest, Len(name) + 2, Len(s.rest)) ELSE << >>
  <2>1. name \in NameAt(s.rest)
    BY <1>4
  <2>2. name \in KeyMgmtNames /\ Len(name) \in Nat
    BY <1>1, <2>1, NameAtSays, CandidateSays
  <2>3. next \in Seq(Words)
    BY <1>1, <1>2, <2>2
  <2>4. ReadName(s) = [names |-> s.names \cup {name}, rest |-> next]
    BY <1>4 DEF ReadName
  <2> HIDE DEF name, next
  <2> QED BY <1>1, <2>2, <2>3, <2>4 DEF Readings
<1> QED BY <1>3, <1>4

(* The loop of _scan_key_mgmt() runs through states of it. *)
LEMMA ScanRuns ==
  ASSUME NEW body \in Seq(Words)
  PROVE  \E after \in [0 .. Len(body) -> Readings] :
            /\ after[0] = [names |-> {}, rest |-> body]
            /\ \A i \in 1 .. Len(body) : after[i] = ReadName(after[i - 1])
            /\ ScanKeyMgmt(body) = after[Len(body)].names
<1> DEFINE n == Len(body)
           a == [names |-> {}, rest |-> body]
           step == [x \in Readings \X (1 .. n) |-> ReadName(x[1])]
           Unfolds(f) == f = [k \in 0 .. n |-> IF k = 0 THEN a ELSE ReadName(f[k - 1])]
           run == CHOOSE f : Unfolds(f)
<1>1. n \in Nat /\ a \in Readings
  BY DEF Readings
<1>2. step \in [Readings \X (1 .. n) -> Readings]
  BY ReadNameType
<1>3. PICK f \in Loops(Readings, n, a, step) : TRUE
  <2> HIDE DEF n, a, step
  <2> QED BY <1>1, <1>2, LoopExists
<1>4. f \in [0 .. n -> Readings] /\ f[0] = a
  BY <1>3 DEF Loops
<1>5. \A i \in 1 .. n : f[i] = ReadName(f[i - 1])
  <2> TAKE i \in 1 .. n
  <2>1. f[i] = step[<<f[i - 1], i>>]
    BY <1>3 DEF Loops
  <2>2. <<f[i - 1], i>> \in Readings \X (1 .. n)
    BY <1>4
  <2> QED BY <2>1, <2>2
<1>6. Unfolds(f)
  <2> HIDE DEF n, a, step
  <2> QED BY <1>1, <1>4, <1>5
<1>7. Unfolds(run)
  <2> HIDE DEF Unfolds
  <2> QED BY <1>6
<1>8. ScanKeyMgmt(body) = run[n].names
  BY DEF ScanKeyMgmt
<1> HIDE DEF run, step, a, n
<1>9. run[0] = a /\ \A i \in 1 .. n : run[i] = ReadName(run[i - 1])
  BY <1>1, <1>7
<1>10. DOMAIN run = 0 .. n /\ run = [k \in 0 .. n |-> run[k]]
  BY <1>7
<1> DEFINE T == {k \in Nat : run[k] \in Readings}
<1>11. \A k \in 0 .. n : k \in T
  <2>1. 0 \in T
    BY <1>1, <1>9
  <2>2. \A i \in 1 .. n : i - 1 \in T => i \in T
    BY <1>1, <1>9, ReadNameType
  <2> HIDE DEF T
  <2> QED BY <1>1, <2>1, <2>2, BoundedInduction
<1>12. run \in [0 .. n -> Readings]
  BY <1>10, <1>11
<1> QED BY <1>8, <1>9, <1>12 DEF n, a

(* The first suites that have names. *)
Known(names, k) == \A i \in 1 .. k : names[i] \in KeyMgmtNames

(* What is read of suites of which the first f are known, and no more. *)
ReadOf(names, f) ==
  {names[i] : i \in 1 .. f} \cup (IF f < Len(names) THEN NameAt(names[f + 1]) ELSE {})

(* The cipher behind a group. *)
Cipher == <<"-", "CCMP">>

(* There is a first suite without a name, or none. *)
LEMMA FirstForeign ==
  ASSUME NEW names, Len(names) \in Nat
  PROVE  \E f \in 0 .. Len(names) :
            Known(names, f) /\ (f < Len(names) => names[f + 1] \notin KeyMgmtNames)
<1> SUFFICES ASSUME \A f \in 0 .. Len(names) :
                       Known(names, f) => f < Len(names) /\ names[f + 1] \in KeyMgmtNames
             PROVE  FALSE
  OBVIOUS
<1> DEFINE T == {k \in Nat : Known(names, k)}
<1>1. 0 \in T
  BY DEF Known
<1>2. ASSUME NEW i \in 1 .. Len(names), i - 1 \in T PROVE i \in T
  <2>1. i - 1 \in 0 .. Len(names) /\ (i - 1) + 1 = i
    OBVIOUS
  <2>2. names[i] \in KeyMgmtNames
    BY <1>2, <2>1
  <2> QED BY <1>2, <2>2 DEF Known
<1>3. Len(names) \in T
  <2> HIDE DEF T
  <2>1. \A i \in 0 .. Len(names) : i \in T
    BY <1>1, <1>2, BoundedInduction
  <2> QED BY <2>1
<1> QED BY <1>3

(* The suites of a group, each with what follows it. *)
LEMMA GroupTails ==
  ASSUME NEW names \in Seq(Seq(Words)), names # << >>
  PROVE  \E tails \in [0 .. Len(names) -> Seq(Words)] :
            /\ tails[Len(names)] = << >>
            /\ \A k \in 1 .. Len(names) :
                  /\ tails[k - 1] # << >> /\ tails[k - 1][1] = "+"
                  /\ Tail(tails[k - 1]) \in Seq(Words)
                  /\ Tail(tails[k - 1]) = names[k] \o tails[k]
            /\ Group(names) = (<<"WPA2", "-">> \o Tail(tails[0])) \o Cipher
            /\ Len(tails[0]) >= Len(names)
<1> DEFINE n == Len(names)
           c == [i \in DOMAIN names |-> <<"+">> \o names[i]]
<1>1. n \in Nat /\ n >= 1 /\ DOMAIN names = 1 .. n
  OBVIOUS
<1>2. <<"+">> \in Seq(Words)
  <2>1. "+" \in Words
    BY DEF Words
  <2> QED BY <2>1
<1>3. \A i \in 1 .. n : names[i] \in Seq(Words)
  OBVIOUS
<1>4. \A i \in 1 .. n : <<"+">> \o names[i] \in Seq(Words)
  BY <1>2, <1>3, ConcatInSeq
<1>5. c \in Seq(Seq(Words)) /\ Len(c) = n /\ \A i \in 1 .. n : c[i] = <<"+">> \o names[i]
  BY <1>1, <1>4
<1> HIDE DEF n
<1>6. Group(names) = (<<"WPA2", "-">> \o Tail(FlattenSeq(c))) \o Cipher
  BY DEF Group, JoinedBy, Cipher
<1> HIDE DEF c
<1>7. PICK tails \in [0 .. n -> Seq(Words)] :
         /\ tails[0] = FlattenSeq(c) /\ tails[n] = << >>
         /\ \A i \in 1 .. n : tails[i - 1] = c[i] \o tails[i]
  <2>1. Tails(Words, c) # {}
    BY <1>5, FlattenTails
  <2> QED BY <1>5, <2>1 DEF Tails
<1>8. ASSUME NEW k \in 1 .. n
      PROVE  /\ tails[k - 1] # << >> /\ tails[k - 1][1] = "+"
             /\ Tail(tails[k - 1]) \in Seq(Words)
             /\ Tail(tails[k - 1]) = names[k] \o tails[k]
             /\ Len(tails[k - 1]) >= Len(tails[k]) + 1
  <2> DEFINE x == names[k]
             y == tails[k]
             z == tails[k - 1]
  <2>1. x \in Seq(Words) /\ y \in Seq(Words) /\ z \in Seq(Words)
    BY <1>1, <1>3, <1>7, SMTT(30)
  <2>2. z = (<<"+">> \o x) \o y
    BY <1>5, <1>7
  <2> HIDE DEF x, y, z
  <2>3. /\ x \o y \in Seq(Words) /\ Len(x \o y) = Len(x) + Len(y)
        /\ Len(z) = Len(x \o y) + 1 /\ z[1] = "+"
    BY <1>2, <2>1, <2>2
  <2>4. \A i \in 1 .. Len(x \o y) : z[i + 1] = (x \o y)[i]
    BY <1>2, <2>1, <2>2, <2>3, SMTT(30)
  <2>7. z # << >> /\ Len(z) >= Len(y) + 1
    BY <2>1, <2>3
  <2>5. Tail(z) \in Seq(Words) /\ Len(Tail(z)) = Len(x \o y)
        /\ \A i \in 1 .. Len(x \o y) : Tail(z)[i] = z[i + 1]
    BY <2>1, <2>3, <2>7, HeadTailProperties
  <2>6. Tail(z) = x \o y
    <3> DEFINE u == Tail(z)
               v == x \o y
    <3>1. u \in Seq(Words) /\ v \in Seq(Words) /\ Len(u) = Len(v)
          /\ \A i \in 1 .. Len(v) : u[i] = v[i]
      BY <2>3, <2>4, <2>5
    <3> HIDE DEF u, v
    <3>2. u = v
      BY <3>1, SeqEqual
    <3> QED BY <3>2 DEF u, v
  <2> QED BY <2>3, <2>5, <2>6, <2>7 DEF x, y, z
<1> DEFINE T == {k \in 0 .. n : Len(tails[0]) >= Len(tails[k]) + k}
<1>9. n \in T
  <2>1. 0 \in T
    BY <1>1, <1>7
  <2>2. ASSUME NEW i \in 1 .. n, i - 1 \in T PROVE i \in T
    <3>1. tails[0] \in Seq(Words) /\ tails[i - 1] \in Seq(Words) /\ tails[i] \in Seq(Words)
      BY <1>1, <1>7
    <3>2. Len(tails[0]) >= Len(tails[i - 1]) + (i - 1)
      BY <2>2
    <3>3. Len(tails[i - 1]) >= Len(tails[i]) + 1
      BY <1>8
    <3> QED BY <1>1, <3>1, <3>2, <3>3
  <2> HIDE DEF T
  <2>3. \A i \in 0 .. n : i \in T
    BY <1>1, <2>1, <2>2, BoundedInduction
  <2> QED BY <1>1, <2>3
<1>10. Len(tails[0]) >= n
  <2>1. Len(tails[n]) = 0
    BY <1>7
  <2> QED BY <1>9, <2>1
<1> QED BY <1>6, <1>7, <1>8, <1>10 DEF n

(* The cipher is words, and may follow. *)
LEMMA CipherSays == Cipher \in Seq(Words) /\ Len(Cipher) = 2 /\ Follows(Cipher)
<1>1. "-" \in Words /\ "CCMP" \in Words
  BY DEF Words
<1> QED BY <1>1 DEF Cipher, Follows

(* What follows the suites still to come is more of them, or the cipher.   *)
LEMMA TailFollows ==
  ASSUME NEW t \in Seq(Words), t # << >> => t[1] = "+"
  PROVE  /\ Follows(t \o Cipher) /\ t \o Cipher \in Seq(Words)
         /\ t = << >> => t \o Cipher = Cipher
         /\ t # << >> => (t \o Cipher)[1] = "+" /\ Tail(t \o Cipher) = Tail(t) \o Cipher
<1>1. CASE t = << >>
  <2>1. t \o Cipher = Cipher
    BY <1>1, CipherSays, ConcatEmptySeq
  <2> QED BY <1>1, <2>1, CipherSays
<1>2. CASE t # << >>
  <2>1. Len(t) \in Nat \ {0} /\ t[1] = "+"
    BY <1>2
  <2>2. t \o Cipher \in Seq(Words) /\ Len(t \o Cipher) = Len(t) + 2 /\ (t \o Cipher)[1] = t[1]
    <3> DEFINE u == Cipher
               b == t \o u
    <3>1. u \in Seq(Words) /\ Len(u) = 2
      BY CipherSays
    <3> HIDE DEF u
    <3>2. b \in Seq(Words) /\ Len(b) = Len(t) + Len(u) /\ \A i \in 1 .. Len(t) : b[i] = t[i]
      BY <3>1, ConcatSays, ZenonT(60)
    <3> HIDE DEF b
    <3>3. b \in Seq(Words) /\ Len(b) = Len(t) + 2 /\ b[1] = t[1]
      BY <2>1, <3>1, <3>2
    <3> QED BY <3>3 DEF b, u
  <2>3. Tail(t \o Cipher) = Tail(t) \o Cipher
    BY <1>2, CipherSays, TailConcat
  <2>4. Follows(t \o Cipher)
    BY <2>1, <2>2 DEF Follows
  <2> QED BY <1>2, <2>1, <2>2, <2>3, <2>4
<1> QED BY <1>1, <1>2

(* One round over a suite that has a name, and over one that has none. *)
LEMMA ReadKnown ==
  ASSUME NEW names, NEW s \in KeyMgmtNames, NEW t, Follows(t)
  PROVE  ReadName([names |-> names, rest |-> s \o t])
           = [names |-> names \cup {s}, rest |-> IF t[1] = "+" THEN Tail(t) ELSE << >>]
<1> DEFINE b == s \o t
           r == [names |-> names, rest |-> b]
<1>1. t \in Seq(Words) /\ Len(t) >= 1 /\ t # << >>
  BY FollowsSays
<1>2. s \in Seq(Words) /\ \A i \in 1 .. Len(s) : s[i] # "+"
  BY NamesSay
<1>3. /\ b \in Seq(Words) /\ Len(b) = Len(s) + Len(t)
      /\ \A i \in 1 .. Len(t) : b[Len(s) + i] = t[i]
  BY <1>1, <1>2
<1>4. NameAt(b) = {s}
  BY <1>2, NameAtBefore, NameAtName
<1>5. SubSeq(b, Len(s) + 2, Len(b)) = Tail(t)
  <2>1. From(b, Len(s) + 2) = From(t, 2)
    BY <1>1, <1>2, FromConcat
  <2>2. From(t, 2) = Tail(t)
    BY <1>1, TailIsFrom
  <2> QED BY <2>1, <2>2 DEF From
<1>6. Len(b) > Len(s) /\ b[Len(s) + 1] = t[1]
  BY <1>1, <1>2, <1>3
<1> HIDE DEF b
<1>7. /\ r.rest = b /\ r.names = names /\ NameAt(r.rest) # {}
      /\ (CHOOSE n \in NameAt(r.rest) : TRUE) = s
  BY <1>4
<1> HIDE DEF r
<1>8. ReadName(r)
        = [names |-> names \cup {s}, rest |-> IF t[1] = "+" THEN Tail(t) ELSE << >>]
  BY <1>5, <1>6, <1>7 DEF ReadName
<1> QED BY <1>8 DEF r, b

(* A round at a suite without a name: the reading ends. *)
LEMMA ReadForeign ==
  ASSUME NEW names, NEW s \in Seq(Words), \A i \in 1 .. Len(s) : s[i] # "+",
         s \notin KeyMgmtNames, NEW t, Follows(t)
  PROVE  ReadName([names |-> names, rest |-> s \o t])
           = [names |-> names \cup NameAt(s), rest |-> << >>]
<1> DEFINE b == s \o t
           r == [names |-> names, rest |-> b]
<1>1. NameAt(b) = NameAt(s)
  BY NameAtBefore
<1>2. t \in Seq(Words)
  BY FollowsSays
<1>3. \A i \in 1 .. Len(s) : b[i] = s[i]
  BY <1>2
<1> HIDE DEF b
<1>4. r.rest = b /\ r.names = names
  OBVIOUS
<1>5. CASE NameAt(s) = {}
  <2>1. ReadName(r) = [r EXCEPT !.rest = << >>]
    BY <1>1, <1>4, <1>5 DEF ReadName
  <2>2. [r EXCEPT !.rest = << >>] = [names |-> names, rest |-> << >>]
    OBVIOUS
  <2> QED BY <1>5, <2>1, <2>2 DEF r, b
<1>6. CASE NameAt(s) # {}
  <2>1. PICK name \in NameAt(s) : TRUE
    BY <1>6
  <2>2. NameAt(s) = {name}
    BY <2>1, NameAtSays
  <2>3. Len(name) < Len(s) /\ s[Len(name) + 1] = "-"
    BY ForeignSays
  <2>4. Len(name) \in Nat
    BY NameAtSays, CandidateSays
  <2>5. b[Len(name) + 1] # "+"
    BY <1>3, <2>3, <2>4
  <2>6. NameAt(r.rest) # {} /\ (CHOOSE n \in NameAt(r.rest) : TRUE) = name
    BY <1>1, <1>4, <2>2
  <2> HIDE DEF r
  <2>7. ReadName(r) = [names |-> names \cup {name}, rest |-> << >>]
    BY <1>4, <2>5, <2>6 DEF ReadName
  <2> QED BY <2>2, <2>7 DEF r, b
<1> QED BY <1>5, <1>6

(* A round at the end: nothing more is read. *)
LEMMA ReadNothing ==
  ASSUME NEW names
  PROVE  ReadName([names |-> names, rest |-> << >>]) = [names |-> names, rest |-> << >>]
BY NothingAtEnd DEF ReadName

(* The suites of a group: no + in one, tails[k] is what stands behind the  *)
(* k-th, and the first f of them have names.                               *)
Grouped(names, tails, f) ==
  /\ names \in Seq(Seq(Words)) /\ names # << >>
  /\ \A k \in 1 .. Len(names) : \A i \in 1 .. Len(names[k]) : names[k][i] # "+"
  /\ tails \in [0 .. Len(names) -> Seq(Words)] /\ tails[Len(names)] = << >>
  /\ \A k \in 1 .. Len(names) :
        /\ tails[k - 1] # << >> /\ tails[k - 1][1] = "+"
        /\ Tail(tails[k - 1]) \in Seq(Words)
        /\ Tail(tails[k - 1]) = names[k] \o tails[k]
  /\ f \in 0 .. Len(names) /\ Known(names, f)
  /\ f < Len(names) => names[f + 1] \notin KeyMgmtNames

(* What is left to read behind a suite. *)
Rest(names, tails, k) == IF k < Len(names) THEN Tail(tails[k]) \o Cipher ELSE << >>

(* What the loop has read after k rounds. *)
ReadAfter(names, tails, f, k) ==
  IF k <= f THEN [names |-> {names[i] : i \in 1 .. k}, rest |-> Rest(names, tails, k)]
  ELSE [names |-> ReadOf(names, f), rest |-> << >>]

(* What stands at the front when a suite is due. *)
LEMMA SuiteAt ==
  ASSUME NEW names, NEW tails, NEW f, Grouped(names, tails, f), NEW k \in 1 .. Len(names)
  PROVE  /\ names[k] \in Seq(Words) /\ \A i \in 1 .. Len(names[k]) : names[k][i] # "+"
         /\ Follows(tails[k] \o Cipher)
         /\ Rest(names, tails, k - 1) = names[k] \o (tails[k] \o Cipher)
         /\ Rest(names, tails, k)
              = IF (tails[k] \o Cipher)[1] = "+" THEN Tail(tails[k] \o Cipher) ELSE << >>
<1> DEFINE n == Len(names)
           s == names[k]
           t == tails[k]
           b == t \o Cipher
<1>1. n \in Nat /\ n >= 1 /\ s \in Seq(Words) /\ \A i \in 1 .. Len(s) : s[i] # "+"
  BY DEF Grouped
<1>2. k \in 0 .. n /\ k \in 1 .. n
  OBVIOUS
<1>3. t \in Seq(Words) /\ (k = n => t = << >>)
  BY <1>2 DEF Grouped
<1>4. k # n => t # << >> /\ t[1] = "+"
  <2> SUFFICES ASSUME k # n PROVE t # << >> /\ t[1] = "+"
    OBVIOUS
  <2> DEFINE j == k + 1
  <2>1. j \in 1 .. n /\ j - 1 = k
    BY <1>1, <1>2
  <2> HIDE DEF j
  <2>2. tails[j - 1] # << >> /\ tails[j - 1][1] = "+"
    BY <2>1 DEF Grouped
  <2> QED BY <2>1, <2>2
<1>5. Tail(tails[k - 1]) = s \o t
  BY <1>2 DEF Grouped
<1>6. Rest(names, tails, k - 1) = (s \o t) \o Cipher
  <2>1. k - 1 < n
    BY <1>1
  <2> QED BY <2>1, <1>5 DEF Rest
<1> HIDE DEF s, t
<1>7. (s \o t) \o Cipher = s \o b
  BY <1>1, <1>3, CipherSays, Assoc, SMTT(30)
<1>8. /\ Follows(b)
      /\ t = << >> => b = Cipher
      /\ t # << >> => b[1] = "+" /\ Tail(b) = Tail(t) \o Cipher
  BY <1>3, <1>4, TailFollows
<1> HIDE DEF b
<1>9. Rest(names, tails, k) = IF b[1] = "+" THEN Tail(b) ELSE << >>
  <2>1. CASE k = n
    <3>1. b[1] = "-"
      BY <1>3, <1>8, <2>1 DEF Cipher
    <3>2. Rest(names, tails, k) = << >>
      BY <1>1, <2>1 DEF Rest
    <3> QED BY <3>1, <3>2
  <2>2. CASE k # n
    <3>1. k < n
      BY <1>1, <1>2, <2>2
    <3>2. Rest(names, tails, k) = Tail(t) \o Cipher
      BY <3>1 DEF Rest, t
    <3> QED BY <1>4, <1>8, <2>2, <3>2
  <2> QED BY <2>1, <2>2
<1> QED BY <1>1, <1>6, <1>7, <1>8, <1>9 DEF b, s, t

(* One more of a sequence, as a set. *)
LEMMA OneMore ==
  ASSUME NEW names, NEW k \in Nat \ {0}
  PROVE  {names[i] : i \in 1 .. k - 1} \cup {names[k]} = {names[i] : i \in 1 .. k}
<1>1. 1 .. k = 1 .. k - 1 \cup {k}
  OBVIOUS
<1> QED BY <1>1

(* One round reads one suite. *)
LEMMA ReadStep ==
  ASSUME NEW names, NEW tails, NEW f, Grouped(names, tails, f), NEW k \in Nat \ {0}
  PROVE  ReadName(ReadAfter(names, tails, f, k - 1)) = ReadAfter(names, tails, f, k)
<1> DEFINE n == Len(names)
           t == tails[k] \o Cipher
           s == names[k]
           First(j) == {names[i] : i \in 1 .. j}
           here == Rest(names, tails, k - 1)
           next == Rest(names, tails, k)
<1>1. /\ n \in Nat /\ f \in Nat /\ f <= n /\ Known(names, f)
      /\ (f < n => names[f + 1] \notin KeyMgmtNames)
  BY DEF Grouped
<1>2. k \in 1 .. n => /\ s \in Seq(Words) /\ \A i \in 1 .. Len(s) : s[i] # "+"
                      /\ Follows(t) /\ here = s \o t
                      /\ next = IF t[1] = "+" THEN Tail(t) ELSE << >>
  BY SuiteAt
<1>3. First(k - 1) \cup {s} = First(k)
  BY OneMore
<1>4. ReadAfter(names, tails, f, k - 1) =
        IF k - 1 <= f THEN [names |-> First(k - 1), rest |-> here]
        ELSE [names |-> ReadOf(names, f), rest |-> << >>]
  BY DEF ReadAfter
<1>5. ReadAfter(names, tails, f, k) =
        IF k <= f THEN [names |-> First(k), rest |-> next]
        ELSE [names |-> ReadOf(names, f), rest |-> << >>]
  BY DEF ReadAfter
<1>6. ReadOf(names, f) = First(f) \cup (IF f < n THEN NameAt(names[f + 1]) ELSE {})
  BY DEF ReadOf
<1>7. k - 1 = n => here = << >>
  BY <1>1 DEF Rest
<1>8. k <= f => s \in KeyMgmtNames
  BY <1>1 DEF Known
<1>9. k = f + 1 => First(k - 1) = First(f) /\ s = names[f + 1]
  BY <1>1
<1> HIDE DEF n, t, s, First, here, next
<1>10. CASE k <= f
  <2>1. k \in 1 .. n /\ k - 1 <= f
    BY <1>1, <1>10
  <2>2. ReadName([names |-> First(k - 1), rest |-> s \o t])
          = [names |-> First(k - 1) \cup {s}, rest |-> IF t[1] = "+" THEN Tail(t) ELSE << >>]
    BY <1>2, <1>8, <1>10, <2>1, ReadKnown
  <2> QED BY <1>2, <1>3, <1>4, <1>5, <1>10, <2>1, <2>2
<1>11. CASE k = f + 1 /\ f < n
  <2>1. k \in 1 .. n /\ k - 1 <= f /\ ~(k <= f) /\ s \notin KeyMgmtNames
    BY <1>1, <1>9, <1>11
  <2>2. ReadName([names |-> First(k - 1), rest |-> s \o t])
          = [names |-> First(k - 1) \cup NameAt(s), rest |-> << >>]
    BY <1>2, <2>1, ReadForeign
  <2>3. First(k - 1) \cup NameAt(s) = ReadOf(names, f)
    BY <1>6, <1>9, <1>11
  <2> QED BY <1>2, <1>4, <1>5, <2>1, <2>2, <2>3
<1>12. CASE k = f + 1 /\ f = n
  <2>1. k - 1 <= f /\ ~(k <= f) /\ k - 1 = n
    BY <1>1, <1>12
  <2>2. ReadName([names |-> First(k - 1), rest |-> << >>])
          = [names |-> First(k - 1), rest |-> << >>]
    BY ReadNothing
  <2>3. First(k - 1) = ReadOf(names, f)
    BY <1>1, <1>6, <1>9, <1>12
  <2> QED BY <1>4, <1>5, <1>7, <2>1, <2>2, <2>3
<1>13. CASE k > f + 1
  <2>1. ~(k - 1 <= f) /\ ~(k <= f)
    BY <1>1, <1>13
  <2> QED BY <1>4, <1>5, <2>1, ReadNothing
<1> QED BY <1>1, <1>10, <1>11, <1>12, <1>13

(* So the loop reads them all, up to the first without a name. *)
LEMMA ScanGroup ==
  ASSUME NEW names, NEW tails, NEW f, Grouped(names, tails, f), Len(tails[0]) >= Len(names)
  PROVE  ScanKeyMgmt(Tail(tails[0]) \o Cipher) = ReadOf(names, f)
<1> DEFINE n == Len(names)
           r == Tail(tails[0])
           body == r \o Cipher
<1>1. n \in Nat /\ n >= 1 /\ f \in Nat /\ f <= n
  BY DEF Grouped
<1>2. tails[0] \in Seq(Words) /\ tails[0] # << >> /\ r \in Seq(Words)
  <2>1. 1 \in 1 .. n /\ 0 \in 0 .. n /\ 1 - 1 = 0
    BY <1>1
  <2>2. tails[1 - 1] # << >> /\ Tail(tails[1 - 1]) \in Seq(Words)
    BY <2>1 DEF Grouped
  <2> QED BY <2>1, <2>2 DEF Grouped
<1>3. Len(r) = Len(tails[0]) - 1 /\ Len(tails[0]) \in Nat
  BY <1>2, HeadTailProperties
<1>4. Rest(names, tails, 0) = body
  BY <1>1 DEF Rest
<1> HIDE DEF n, r
<1>5. body \in Seq(Words) /\ Len(body) = Len(r) + Len(Cipher)
  BY <1>2, CipherSays, ConcatSays
<1>6. Len(body) \in Nat /\ ~(Len(body) <= f)
  BY <1>1, <1>3, <1>5, CipherSays DEF n
<1> HIDE DEF body
<1>7. PICK after \in [0 .. Len(body) -> Readings] :
         /\ after[0] = [names |-> {}, rest |-> body]
         /\ \A i \in 1 .. Len(body) : after[i] = ReadName(after[i - 1])
         /\ ScanKeyMgmt(body) = after[Len(body)].names
  BY <1>5, ScanRuns
<1> DEFINE T == {k \in Nat : after[k] = ReadAfter(names, tails, f, k)}
<1>8. 0 \in T
  <2>1. ReadAfter(names, tails, f, 0) = [names |-> {names[i] : i \in 1 .. 0}, rest |-> body]
    <3>1. ReadAfter(names, tails, f, 0) =
            IF 0 <= f THEN [names |-> {names[i] : i \in 1 .. 0}, rest |-> Rest(names, tails, 0)]
            ELSE [names |-> ReadOf(names, f), rest |-> << >>]
      BY DEF ReadAfter
    <3>2. 0 <= f
      BY <1>1
    <3> QED BY <1>4, <3>1, <3>2
  <2>2. {names[i] : i \in 1 .. 0} = {}
    OBVIOUS
  <2> QED BY <1>7, <2>1, <2>2
<1>9. ASSUME NEW k \in 1 .. Len(body), k - 1 \in T PROVE k \in T
  <2>1. k \in Nat \ {0}
    BY <1>6
  <2>2. after[k] = ReadName(after[k - 1])
    BY <1>7
  <2> QED BY <1>9, <2>1, <2>2, ReadStep
<1>10. after[Len(body)] = ReadAfter(names, tails, f, Len(body))
  <2> HIDE DEF T
  <2>1. \A k \in 0 .. Len(body) : k \in T
    BY <1>6, <1>8, <1>9, BoundedInduction
  <2> QED BY <1>6, <2>1 DEF T
<1> QED BY <1>6, <1>7, <1>10 DEF ReadAfter, body, r

(* What parse_security() makes of a group. *)
Plain(names) ==
  /\ names \in Seq(Seq(Words))
  /\ \A k \in 1 .. Len(names) : \A i \in 1 .. Len(names[k]) : names[k][i] # "+"

(* parse_security() on the flags of an access point with one group. *)
LEMMA GroupRead ==
  ASSUME NEW names, Plain(names), names # << >>
  PROVE  \E f \in 0 .. Len(names) :
            /\ Known(names, f) /\ (f < Len(names) => names[f + 1] \notin KeyMgmtNames)
            /\ ParseSecurity({Group(names), <<"ESS">>})
                 = [key_mgmt |-> ReadOf(names, f), protocols |-> {"WPA2"}, flags |-> {<<"ESS">>}]
<1>1. Len(names) \in Nat
  BY DEF Plain
<1>2. PICK f \in 0 .. Len(names) :
         Known(names, f) /\ (f < Len(names) => names[f + 1] \notin KeyMgmtNames)
  BY <1>1, FirstForeign
<1>3. PICK tails \in [0 .. Len(names) -> Seq(Words)] :
            /\ tails[Len(names)] = << >>
            /\ \A k \in 1 .. Len(names) :
                  /\ tails[k - 1] # << >> /\ tails[k - 1][1] = "+"
                  /\ Tail(tails[k - 1]) \in Seq(Words)
                  /\ Tail(tails[k - 1]) = names[k] \o tails[k]
            /\ Group(names) = (<<"WPA2", "-">> \o Tail(tails[0])) \o Cipher
            /\ Len(tails[0]) >= Len(names)
  <2>1. names \in Seq(Seq(Words))
    BY DEF Plain
  <2> QED BY <2>1, GroupTails
<1>4. Grouped(names, tails, f)
  BY <1>2, <1>3 DEF Grouped, Plain
<1> DEFINE g == Group(names)
           body == Tail(tails[0]) \o Cipher
           head == <<"WPA2", "-">>
<1>5. ScanKeyMgmt(body) = ReadOf(names, f)
  BY <1>3, <1>4, ScanGroup
<1>6. Tail(tails[0]) \in Seq(Words)
  <2>1. 1 \in 1 .. Len(names) /\ 1 - 1 = 0
    BY <1>1
  <2>2. Tail(tails[1 - 1]) \in Seq(Words)
    BY <1>3, <2>1
  <2> QED BY <2>1, <2>2
<1>7. head \in Seq(Words) /\ Len(head) = 2
  <2>1. "WPA2" \in Words /\ "-" \in Words
    BY DEF Words
  <2> QED BY <2>1
<1>8. g = head \o body
  <2> DEFINE r == Tail(tails[0])
             c == Cipher
  <2>1. r \in Seq(Words) /\ c \in Seq(Words)
    BY <1>6, CipherSays
  <2>2. Group(names) = (head \o r) \o c
    BY <1>3
  <2> HIDE DEF head, r, c
  <2>3. (head \o r) \o c = head \o (r \o c)
    BY <1>7, <2>1, Assoc, SMTT(30)
  <2> QED BY <2>2, <2>3 DEF r, c
<1>9. body \in Seq(Words) /\ Len(body) = Len(Tail(tails[0])) + Len(Cipher)
  BY <1>6, CipherSays, ConcatSays
<1>10. Len(body) >= 1 /\ Len(body) \in Nat
  BY <1>6, <1>9, CipherSays
<1>11. head[1] = "WPA2" /\ head[2] = "-"
  OBVIOUS
<1> HIDE DEF g, body, head
<1>12. Len(g) > 1 /\ g[1] = "WPA2" /\ g[2] = "-"
  <2>1. Len(g) = Len(head) + Len(body) /\ \A i \in 1 .. Len(head) : g[i] = head[i]
    <3>1. head \in Seq(Words) /\ body \in Seq(Words)
      BY <1>7, <1>9
    <3>2. /\ Len(head \o body) = Len(head) + Len(body)
          /\ \A i \in 1 .. Len(head) : (head \o body)[i] = head[i]
      BY <3>1, ConcatSays
    <3> QED BY <1>8, <3>2
  <2> QED BY <1>7, <1>10, <1>11, <2>1
<1>13. SubSeq(g, 3, Len(g)) = body
  <2>1. From(head \o body, Len(head) + 1) = From(body, 1)
    <3>1. head \in Seq(Words) /\ body \in Seq(Words) /\ 1 \in Nat \ {0} /\ 1 <= Len(body) + 1
      BY <1>7, <1>9, <1>10
    <3> DEFINE m == 1
    <3> HIDE DEF m
    <3>2. m \in Nat \ {0} /\ m <= Len(body) + 1
      BY <3>1 DEF m
    <3>3. From(head \o body, Len(head) + m) = From(body, m)
      BY <3>1, <3>2, FromConcat
    <3> QED BY <3>3 DEF m
  <2>2. From(body, 1) = body
    BY <1>9, SubSeqFull DEF From
  <2> QED BY <1>7, <1>8, <2>1, <2>2 DEF From
<1> DEFINE groups == {g, <<"ESS">>}
           secured == {h \in groups : Secured(h)}
<1>14. Secured(g) /\ ~Secured(<<"ESS">>)
  BY <1>12 DEF Secured, Protocols
<1>15. secured = {g} /\ groups \ secured = {<<"ESS">>}
  <2>1. g # <<"ESS">>
    BY <1>14
  <2> QED BY <1>14, <2>1
<1>16. ParseSecurity(groups)
         = [key_mgmt |-> UNION {ScanKeyMgmt(SubSeq(h, 3, Len(h))) : h \in secured},
            protocols |-> {h[1] : h \in secured},
            flags |-> groups \ secured]
  BY DEF ParseSecurity
<1> HIDE DEF groups, secured
<1>17. UNION {ScanKeyMgmt(SubSeq(h, 3, Len(h))) : h \in secured} = ReadOf(names, f)
  BY <1>5, <1>13, <1>15
<1>18. {h[1] : h \in secured} = {"WPA2"}
  BY <1>12, <1>15
<1> QED BY <1>2, <1>15, <1>16, <1>17, <1>18 DEF groups, g

(* The suites of a state as sequences of words. *)
LEMMA SuitesAreWords ==
  ASSUME suites \in Seq(Suites)
  PROVE  Plain(suites)
<1>1. STRING \subseteq Words
  BY DEF Words
<1>2. \A s \in Suites : s \in Seq(Words) /\ \A i \in 1 .. Len(s) : s[i] # "+"
  <2> TAKE s \in Suites
  <2>1. s \in Seq(STRING) /\ \A i \in 1 .. Len(s) : s[i] # "+"
    BY SuitesAssumption DEF Contains
  <2>2. s \in Seq(Words)
    BY <1>1, <2>1, SeqMonotonic
  <2> QED BY <2>1, <2>2
<1>3. Suites \subseteq Seq(Words)
  BY <1>2
<1>4. suites \in Seq(Seq(Words))
  BY <1>3, SeqMonotonic
<1> QED BY <1>2, <1>4, SMTT(30) DEF Plain

(* SuitesAsAdvertised holds of any suites. *)
LEMMA AsAdvertised ==
  ASSUME suites \in Seq(Suites)
  PROVE  SuitesAsAdvertised
<1> DEFINE n == Len(suites)
           Named_(k) == \A i \in 1 .. k : suites[i] \in KeyMgmtNames
           advertised == {suites[i] : i \in {k \in DOMAIN suites : Named_(k)}}
           read == ParseSecurity(Flags).key_mgmt
<1>0. n \in Nat /\ DOMAIN suites = 1 .. n
  OBVIOUS
<1> SUFFICES /\ advertised \subseteq read
             /\ \A name \in read \ advertised : \E k \in DOMAIN suites :
                   Named_(k - 1) /\ ~Named_(k) /\ IsPrefix(name \o <<"-">>, suites[k])
  BY DEF SuitesAsAdvertised
<1>1. CASE suites = << >>
  <2>1. advertised = {}
    BY <1>1
  <2>2. Flags = {<<"ESS">>}
    BY <1>1 DEF Flags
  <2>3. ~Secured(<<"ESS">>)
    BY DEF Secured
  <2>4. {h \in {<<"ESS">>} : Secured(h)} = {}
    BY <2>3
  <2>5. read = {}
    BY <2>2, <2>4 DEF ParseSecurity
  <2> QED BY <2>1, <2>5
<1>2. CASE suites # << >>
  <2>1. PICK f \in 0 .. n :
            /\ Known(suites, f) /\ (f < n => suites[f + 1] \notin KeyMgmtNames)
            /\ ParseSecurity({Group(suites), <<"ESS">>})
                 = [key_mgmt |-> ReadOf(suites, f), protocols |-> {"WPA2"}, flags |-> {<<"ESS">>}]
    BY <1>2, SuitesAreWords, GroupRead
  <2>2. read = {suites[i] : i \in 1 .. f} \cup (IF f < n THEN NameAt(suites[f + 1]) ELSE {})
    BY <1>2, <2>1 DEF Flags, ReadOf
  <2>3. \A k \in 1 .. n : Named_(k) <=> k <= f
    <3> TAKE k \in 1 .. n
    <3>1. k <= f => Named_(k)
      BY <2>1 DEF Known
    <3>2. ~(k <= f) => f < n /\ f + 1 \in 1 .. k
      BY <1>0
    <3> QED BY <2>1, <3>1, <3>2
  <2>4. {k \in DOMAIN suites : Named_(k)} = 1 .. f
    BY <1>0, <2>3
  <2>5. advertised = {suites[i] : i \in 1 .. f}
    BY <2>4
  <2>6. ASSUME NEW name \in read \ advertised
        PROVE  \E k \in DOMAIN suites :
                  Named_(k - 1) /\ ~Named_(k) /\ IsPrefix(name \o <<"-">>, suites[k])
    <3>1. f < n /\ name \in NameAt(suites[f + 1])
      BY <2>2, <2>5
    <3>2. f + 1 \in 1 .. n /\ (f + 1) - 1 = f
      BY <1>0, <3>1
    <3>3. Named_((f + 1) - 1) /\ ~Named_(f + 1)
      <4>1. Named_(f)
        BY <2>1 DEF Known
      <4>2. ~Named_(f + 1)
        BY <1>0, <2>3, <3>2
      <4> QED BY <3>2, <4>1, <4>2
    <3> DEFINE s == suites[f + 1]
    <3>4. s \in Seq(Words) /\ (\A i \in 1 .. Len(s) : s[i] # "+") /\ s \notin KeyMgmtNames
          /\ name \in NameAt(s)
      BY <2>1, <3>1, <3>2, SuitesAreWords DEF Plain
    <3> HIDE DEF s
    <3>5. IsPrefix(name \o <<"-">>, s)
      BY <3>4, ForeignSays
    <3> QED BY <1>0, <3>2, <3>3, <3>5 DEF s
  <2> QED BY <2>2, <2>5, <2>6
<1> QED BY <1>1, <1>2

(* What the predicates look for in one name. *)
PersonalName(n, word) ==
  n = <<word>> \/ IsSuffix(<<"/", word>>, n) \/ IsPrefix(<<word, "-">>, n)

(* A prefix and a suffix of two words. *)
LEMMA PairSays ==
  ASSUME NEW n \in Seq(Words), NEW a \in Words, NEW b \in Words
  PROVE  /\ IsPrefix(<<a, b>>, n) <=> Len(n) >= 2 /\ n[1] = a /\ n[2] = b
         /\ IsSuffix(<<a, b>>, n) <=> Len(n) >= 2 /\ n[Len(n) - 1] = a /\ n[Len(n)] = b
<1> DEFINE p == <<a, b>>
           q == <<b, a>>
           r == Reverse(n)
<1>1. p \in Seq(Words) /\ Len(p) = 2 /\ p[1] = a /\ p[2] = b
  OBVIOUS
<1>2. q \in Seq(Words) /\ Len(q) = 2 /\ q[1] = b /\ q[2] = a
  OBVIOUS
<1>3. r \in Seq(Words) /\ Len(r) = Len(n) /\ \A i \in 1 .. Len(n) : r[i] = n[(Len(n) - i) + 1]
  BY DEF Reverse
<1>4. Reverse(p) = q
  <2>1. Reverse(p) = [i \in 1 .. 2 |-> p[(2 - i) + 1]]
    BY <1>1 DEF Reverse
  <2>2. [i \in 1 .. 2 |-> p[(2 - i) + 1]] = q
    BY <1>1
  <2> QED BY <2>1, <2>2
<1> HIDE DEF p, q, r
<1>5. 1 .. 2 = {1, 2} /\ Len(n) \in Nat
  OBVIOUS
<1>6. IsPrefix(p, n) <=> Len(p) <= Len(n) /\ \A i \in 1 .. Len(p) : p[i] = n[i]
  BY <1>1, PrefixSays
<1>7. IsPrefix(q, r) <=> Len(q) <= Len(r) /\ \A i \in 1 .. Len(q) : q[i] = r[i]
  <2>1. q \in Seq(Words) /\ r \in Seq(Words)
    BY <1>2, <1>3
  <2> HIDE DEF r
  <2> QED BY <2>1, PrefixSays
<1>8. IsPrefix(p, n) <=> Len(n) >= 2 /\ n[1] = a /\ n[2] = b
  BY <1>1, <1>5, <1>6
<1>9. Len(n) >= 2 => r[1] = n[Len(n)] /\ r[2] = n[Len(n) - 1]
  <2> SUFFICES ASSUME Len(n) >= 2 PROVE r[1] = n[Len(n)] /\ r[2] = n[Len(n) - 1]
    OBVIOUS
  <2>1. /\ 1 \in 1 .. Len(n) /\ 2 \in 1 .. Len(n)
        /\ (Len(n) - 1) + 1 = Len(n) /\ (Len(n) - 2) + 1 = Len(n) - 1
    BY <1>5
  <2> QED BY <1>3, <2>1
<1>10. IsPrefix(q, r) <=> Len(n) >= 2 /\ n[Len(n) - 1] = a /\ n[Len(n)] = b
  BY <1>2, <1>3, <1>5, <1>7, <1>9
<1>11. IsSuffix(p, n) <=> IsPrefix(q, r)
  BY <1>4 DEF IsSuffix, r
<1> QED BY <1>8, <1>10, <1>11 DEF p

(* Every suite of the PSK kind is one wpa_psk finds. *)
LEMMA PassphraseNames ==
  \A n \in KeyMgmtNames : Contains(n, "PSK") => PersonalName(n, "PSK")
<1>1. \A n \in KeyMgmtNames : Contains(n, "PSK") =>
         n \in {<<"PSK">>, <<"FT", "/", "PSK">>, <<"PSK", "-", "SHA256">>}
  BY NamesListed DEF Contains
<1>2. "PSK" \in Words /\ "/" \in Words /\ "-" \in Words
  BY DEF Words
<1>3. PersonalName(<<"PSK">>, "PSK")
  BY DEF PersonalName
<1>4. <<"FT", "/", "PSK">> \in KeyMgmtNames /\ <<"PSK", "-", "SHA256">> \in KeyMgmtNames
  BY NamesListed
<1>5. IsSuffix(<<"/", "PSK">>, <<"FT", "/", "PSK">>)
  <2> DEFINE n == <<"FT", "/", "PSK">>
  <2>1. n \in Seq(Words) /\ Len(n) = 3 /\ n[2] = "/" /\ n[3] = "PSK"
    BY <1>4, NamesAreWords
  <2> HIDE DEF n
  <2>2. IsSuffix(<<"/", "PSK">>, n)
          <=> Len(n) >= 2 /\ n[Len(n) - 1] = "/" /\ n[Len(n)] = "PSK"
    BY <1>2, <2>1, PairSays
  <2>3. Len(n) >= 2 /\ Len(n) - 1 = 2
    BY <2>1
  <2>4. IsSuffix(<<"/", "PSK">>, n)
    BY <2>1, <2>2, <2>3
  <2> QED BY <2>4 DEF n
<1>6. IsPrefix(<<"PSK", "-">>, <<"PSK", "-", "SHA256">>)
  <2> DEFINE n == <<"PSK", "-", "SHA256">>
  <2>1. n \in Seq(Words) /\ Len(n) = 3 /\ n[1] = "PSK" /\ n[2] = "-"
    BY <1>4, NamesAreWords
  <2> HIDE DEF n
  <2>2. IsPrefix(<<"PSK", "-">>, n)
    BY <1>2, <2>1, PairSays
  <2> QED BY <2>2 DEF n
<1> QED BY <1>1, <1>3, <1>5, <1>6 DEF PersonalName

(* Every suite of the SAE kind but one is one wpa_sae finds. *)
LEMMA SaeNames ==
  \A n \in KeyMgmtNames : PersonalName(n, "SAE") <=> Contains(n, "SAE") /\ n \notin FT(Strong)
<1> DEFINE long == <<"FT", "/", "SAE", "-", "EXT", "-", "KEY">>
           key == <<"SAE", "-", "EXT", "-", "KEY">>
           ft == <<"FT", "/", "SAE">>
<1>1. \A n \in KeyMgmtNames : Contains(n, "SAE") => n \in {<<"SAE">>, ft, key, long}
  BY NamesListed DEF Contains
<1>2. FT(Strong) = {long}
  BY DEF FT, Strong
<1>3. "SAE" \in Words /\ "/" \in Words /\ "-" \in Words
  BY DEF Words
<1>4. ft \in Seq(Words) /\ key \in Seq(Words) /\ long \in Seq(Words)
  <2>1. ft \in KeyMgmtNames /\ key \in KeyMgmtNames /\ long \in KeyMgmtNames
    BY NamesListed
  <2> QED BY <2>1, NamesAreWords
<1>5. Len(ft) = 3 /\ ft[2] = "/" /\ ft[3] = "SAE" /\ ft # long
  OBVIOUS
<1>6. Len(key) = 5 /\ key[1] = "SAE" /\ key[2] = "-" /\ key # long
  OBVIOUS
<1>7. Len(long) = 7 /\ long[1] = "FT" /\ long[7] = "KEY" /\ long # <<"SAE">>
  OBVIOUS
<1> HIDE DEF long, key, ft
<1>8. PersonalName(<<"SAE">>, "SAE") /\ PersonalName(ft, "SAE") /\ PersonalName(key, "SAE")
  <2>1. IsSuffix(<<"/", "SAE">>, ft)
    <3>1. IsSuffix(<<"/", "SAE">>, ft)
            <=> Len(ft) >= 2 /\ ft[Len(ft) - 1] = "/" /\ ft[Len(ft)] = "SAE"
      BY <1>3, <1>4, PairSays
    <3>2. Len(ft) >= 2 /\ Len(ft) - 1 = 2
      BY <1>5
    <3> QED BY <1>5, <3>1, <3>2
  <2>2. IsPrefix(<<"SAE", "-">>, key)
    BY <1>3, <1>4, <1>6, PairSays
  <2> QED BY <2>1, <2>2 DEF PersonalName
<1>9. ~PersonalName(long, "SAE")
  <2>1. ~IsSuffix(<<"/", "SAE">>, long)
    BY <1>3, <1>4, <1>7, PairSays, ZenonT(60)
  <2>2. ~IsPrefix(<<"SAE", "-">>, long)
    BY <1>3, <1>4, <1>7, PairSays
  <2> QED BY <1>7, <2>1, <2>2 DEF PersonalName
<1>10. ASSUME NEW n \in KeyMgmtNames, PersonalName(n, "SAE") PROVE Contains(n, "SAE")
  <2>1. n \in Seq(Words)
    BY NamesSay
  <2>2. CASE n = <<"SAE">>
    BY <2>2 DEF Contains
  <2>3. CASE IsSuffix(<<"/", "SAE">>, n)
    <3>1. Len(n) >= 2 /\ n[Len(n)] = "SAE"
      BY <1>3, <2>1, <2>3, PairSays
    <3> QED BY <2>1, <3>1 DEF Contains
  <2>4. CASE IsPrefix(<<"SAE", "-">>, n)
    <3>1. Len(n) >= 2 /\ n[1] = "SAE"
      BY <1>3, <2>1, <2>4, PairSays
    <3> QED BY <2>1, <3>1 DEF Contains
  <2> QED BY <1>10, <2>2, <2>3, <2>4 DEF PersonalName
<1> QED BY <1>1, <1>2, <1>5, <1>6, <1>7, <1>8, <1>9, <1>10

(* A suite wpa_enterprise finds. *)
EnterpriseName(n) ==
  \/ n = <<"EAP">> \/ IsPrefix(<<"EAP", "-">>, n)
  \/ \E i \in 1 .. Len(n) - 1 : n[i] = "/" /\ n[i + 1] = "EAP"

(* Every suite of the EAP kind is one wpa_enterprise finds. *)
LEMMA EapNames == \A n \in KeyMgmtNames : Contains(n, "EAP") => EnterpriseName(n)
<1> DEFINE ft == <<"FT", "/", "EAP">>
           dashed == {<<"EAP", "-", "SHA256">>, <<"EAP", "-", "SHA384">>,
                      <<"EAP", "-", "SUITE", "-", "B">>,
                      <<"EAP", "-", "SUITE", "-", "B", "-", "192">>}
<1>1. \A n \in KeyMgmtNames : Contains(n, "EAP") => n \in {<<"EAP">>, ft} \cup dashed
  BY NamesListed DEF Contains
<1>2. "EAP" \in Words /\ "-" \in Words
  BY DEF Words
<1>3. Len(ft) = 3 /\ ft[2] = "/" /\ ft[3] = "EAP"
  OBVIOUS
<1>4. \A n \in dashed : n \in KeyMgmtNames /\ Len(n) >= 2 /\ n[1] = "EAP" /\ n[2] = "-"
  <2>1. dashed \subseteq KeyMgmtNames
    BY NamesListed
  <2>2. \A n \in dashed : n[1] = "EAP" /\ n[2] = "-"
    OBVIOUS
  <2>3. \A n \in dashed : Len(n) >= 2
    OBVIOUS
  <2> QED BY <2>1, <2>2, <2>3
<1> HIDE DEF ft, dashed
<1>5. EnterpriseName(ft)
  BY <1>3 DEF EnterpriseName
<1>6. \A n \in dashed : EnterpriseName(n)
  <2> TAKE n \in dashed
  <2>1. n \in Seq(Words) /\ Len(n) >= 2 /\ n[1] = "EAP" /\ n[2] = "-"
    BY <1>4, NamesAreWords
  <2>2. IsPrefix(<<"EAP", "-">>, n)
    BY <1>2, <2>1, PairSays
  <2> QED BY <2>2 DEF EnterpriseName
<1>7. EnterpriseName(<<"EAP">>)
  BY DEF EnterpriseName
<1> QED BY <1>1, <1>5, <1>6, <1>7

(* NeverTakenForOpen holds of any suites. *)
LEMMA NeverOpen ==
  ASSUME suites \in Seq(Suites)
  PROVE  NeverTakenForOpen
<1> DEFINE n == Len(suites)
           read == ParseSecurity(Flags)
           Offered(word) == {k \in read.key_mgmt : Contains(k, word)}
           foreign == ToSet(suites) \ KeyMgmtNames
<1>0. n \in Nat /\ DOMAIN suites = 1 .. n
  OBVIOUS
<1>1. /\ read.key_mgmt \subseteq KeyMgmtNames
      /\ suites # << >> => ~Open(read)
      /\ foreign = {} => read.key_mgmt = {suites[i] : i \in 1 .. n}
  <2>1. CASE suites = << >>
    <3>1. Flags = {<<"ESS">>}
      BY <2>1 DEF Flags
    <3>2. ~Secured(<<"ESS">>)
      BY DEF Secured
    <3>3. {h \in {<<"ESS">>} : Secured(h)} = {}
      BY <3>2
    <3>4. read.key_mgmt = {}
      BY <3>1, <3>3 DEF ParseSecurity
    <3>5. 1 .. n = {}
      BY <2>1
    <3> QED BY <2>1, <3>4, <3>5
  <2>2. CASE suites # << >>
    <3>1. PICK f \in 0 .. n :
              /\ Known(suites, f) /\ (f < n => suites[f + 1] \notin KeyMgmtNames)
              /\ ParseSecurity({Group(suites), <<"ESS">>})
                   = [key_mgmt |-> ReadOf(suites, f), protocols |-> {"WPA2"}, flags |-> {<<"ESS">>}]
      BY <2>2, SuitesAreWords, GroupRead
    <3>2. /\ read.key_mgmt = {suites[i] : i \in 1 .. f}
                                \cup (IF f < n THEN NameAt(suites[f + 1]) ELSE {})
          /\ read.protocols = {"WPA2"}
      <4>1. read = [key_mgmt |-> ReadOf(suites, f), protocols |-> {"WPA2"}, flags |-> {<<"ESS">>}]
        BY <2>2, <3>1 DEF Flags
      <4> HIDE DEF read
      <4> QED BY <4>1 DEF ReadOf
    <3>3. read.key_mgmt \subseteq KeyMgmtNames
      BY <3>1, <3>2 DEF Known, NameAt, Candidates
    <3>4. ~Open(read)
      BY <3>2 DEF Open
    <3>5. ASSUME foreign = {} PROVE read.key_mgmt = {suites[i] : i \in 1 .. n}
      <4>1. ~(f < n)
        <5>1. SUFFICES ASSUME f < n PROVE FALSE
          OBVIOUS
        <5>2. f + 1 \in DOMAIN suites
          BY <1>0, <5>1
        <5>3. suites[f + 1] \in ToSet(suites)
          BY <5>2 DEF ToSet
        <5> QED BY <3>1, <3>5, <5>1, <5>3
      <4>2. f = n
        <5> HIDE DEF n
        <5> QED BY <1>0, <4>1
      <4> QED BY <3>2, <4>1, <4>2
    <3> QED BY <3>3, <3>4, <3>5
  <2> QED BY <2>1, <2>2
<1>2. Psk(read) <=> \E k \in read.key_mgmt : PersonalName(k, "PSK")
  BY DEF Psk, Personal, PersonalName
<1>3. Sae(read) <=> \E k \in read.key_mgmt : PersonalName(k, "SAE")
  BY DEF Sae, Personal, PersonalName
<1>4. Enterprise(read) <=> \E k \in read.key_mgmt : EnterpriseName(k)
  BY DEF Enterprise, EnterpriseName
<1> HIDE DEF read
<1>5. Offered("PSK") # {} => Psk(read)
  BY <1>1, <1>2, PassphraseNames
<1>6. Offered("EAP") # {} => Enterprise(read)
  BY <1>1, <1>4, EapNames
<1>7. /\ Offered("SAE") \ FT(Strong) # {} => Sae(read)
      /\ Sae(read) => Offered("SAE") # {}
  BY <1>1, <1>3, SaeNames
<1>8. SaeOnly(read) /\ foreign = {} => \A i \in DOMAIN suites : ~Contains(suites[i], "PSK")
  <2>1. SUFFICES ASSUME SaeOnly(read), foreign = {}, NEW i \in DOMAIN suites,
                        Contains(suites[i], "PSK")
                 PROVE  FALSE
    OBVIOUS
  <2>2. suites[i] \in read.key_mgmt
    BY <1>0, <1>1, <2>1
  <2>3. Offered("PSK") # {}
    BY <2>1, <2>2
  <2> QED BY <1>5, <2>1, <2>3 DEF SaeOnly
<1> QED BY <1>1, <1>5, <1>6, <1>7, <1>8 DEF NeverTakenForOpen, read

-----------------------------------------------------------------------------
(* Octets, and how they are spelt *)

(* Octets. *)
Bytes == 0 .. 255

(* A hex digit is read as what it was written for. *)
LEMMA HexDigitSays ==
  \A v \in 0 .. 15 :
     /\ HexDigitOf(v) \in HexDigits /\ DigitValue(HexDigitOf(v)) = v
     /\ HexDigitOf(v) \in Bytes /\ HexDigitOf(v) \notin {Quote, Backslash, UpperP}
<1> TAKE v \in 0 .. 15
<1>1. CASE v < 10
  <2>1. HexDigitOf(v) = 48 + v /\ 48 + v \in 48 .. 57
    BY <1>1 DEF HexDigitOf
  <2>2. DigitValue(48 + v) = v
    BY <2>1 DEF DigitValue
  <2> QED BY <2>1, <2>2 DEF HexDigits, Bytes, Quote, Backslash, UpperP
<1>2. CASE ~(v < 10)
  <2>1. HexDigitOf(v) = 87 + v /\ 87 + v \in 97 .. 102
    BY <1>2 DEF HexDigitOf
  <2>2. 87 + v \notin 48 .. 57 /\ 87 + v \notin 65 .. 70
    BY <2>1
  <2>3. DigitValue(87 + v) = v
    BY <2>2 DEF DigitValue
  <2> QED BY <2>1, <2>3 DEF HexDigits, Bytes, Quote, Backslash, UpperP
<1> QED BY <1>1, <1>2

(* An octet and its two digits. *)
LEMMA OctetSays ==
  \A c \in Bytes :
     c \div 16 \in 0 .. 15 /\ c % 16 \in 0 .. 15 /\ (c \div 16) * 16 + (c % 16) = c
BY DEF Bytes

(* The number two digits spell. *)
LEMMA NumberOfTwo ==
  ASSUME NEW s \in Seq(Nat), Len(s) = 2
  PROVE  Number(s, 16) = DigitValue(s[1]) * 16 + DigitValue(s[2])
<1> DEFINE D(i) == DigitValue(s[i])
           Unfolds(f) == f = [i \in 0 .. 2 |-> IF i = 0 THEN 0 ELSE f[i - 1] * 16 + D(i)]
           run == CHOOSE f : Unfolds(f)
           g == [i \in 0 .. 2 |-> IF i = 0 THEN 0 ELSE IF i = 1 THEN 0 * 16 + D(1)
                                  ELSE (0 * 16 + D(1)) * 16 + D(2)]
<1>1. \A i \in 1 .. 2 : D(i) \in Int
  <2>1. \A i \in 1 .. Len(s) : s[i] \in Nat
    BY ElementOfSeq
  <2>2. \A i \in 1 .. 2 : s[i] \in Nat
    BY <2>1
  <2> QED BY <2>2, SMTT(30) DEF DigitValue
<1>2. Number(s, 16) = run[2]
  BY DEF Number
<1> HIDE DEF D
<1>3. Unfolds(g)
  <2>1. 0 .. 2 = {0, 1, 2}
    OBVIOUS
  <2>2. g[0] = 0 /\ g[1] = g[0] * 16 + D(1) /\ g[2] = g[1] * 16 + D(2)
    OBVIOUS
  <2>3. \A i \in 0 .. 2 : g[i] = IF i = 0 THEN 0 ELSE g[i - 1] * 16 + D(i)
    <3>1. 1 - 1 = 0 /\ 2 - 1 = 1
      OBVIOUS
    <3> HIDE DEF g
    <3> QED BY <2>1, <2>2, <3>1
  <2>4. g = [i \in 0 .. 2 |-> g[i]]
    OBVIOUS
  <2> HIDE DEF g
  <2> QED BY <2>3, <2>4
<1>4. Unfolds(run)
  <2> HIDE DEF Unfolds
  <2> QED BY <1>3
<1> HIDE DEF run
<1>5. run[0] = 0 /\ run[1] = run[0] * 16 + D(1) /\ run[2] = run[1] * 16 + D(2)
  BY <1>4
<1>6. run[1] = D(1)
  BY <1>1, <1>5
<1> QED BY <1>1, <1>2, <1>5, <1>6 DEF D

(* Two characters of each octet, at twice its place. *)
LEMMA HexOfSays ==
  ASSUME NEW octets \in Seq(Bytes)
  PROVE  /\ HexOf(octets) \in Seq(HexDigits \cap Bytes)
         /\ Len(HexOf(octets)) = 2 * Len(octets)
         /\ \A i \in 1 .. Len(octets) :
               /\ HexOf(octets)[2 * i - 1] = HexDigitOf(octets[i] \div 16)
               /\ HexOf(octets)[2 * i] = HexDigitOf(octets[i] % 16)
<1> DEFINE S == HexDigits \cap Bytes
           n == Len(octets)
           c == [i \in DOMAIN octets |->
                   <<HexDigitOf(octets[i] \div 16), HexDigitOf(octets[i] % 16)>>]
<1>1. n \in Nat /\ DOMAIN octets = 1 .. n
  OBVIOUS
<1>2. \A i \in 1 .. n : /\ HexDigitOf(octets[i] \div 16) \in S
                        /\ HexDigitOf(octets[i] % 16) \in S
  <2> TAKE i \in 1 .. n
  <2>1. octets[i] \in Bytes
    OBVIOUS
  <2>2. octets[i] \div 16 \in 0 .. 15 /\ octets[i] % 16 \in 0 .. 15
    BY <2>1, OctetSays
  <2> QED BY <2>2, HexDigitSays
<1>3. c \in Seq(Seq(S)) /\ Len(c) = n
  <2>1. \A a, b \in S : <<a, b>> \in Seq(S)
    OBVIOUS
  <2>2. \A i \in 1 .. n : c[i] \in Seq(S)
    <3> HIDE DEF n, S
    <3> QED BY <1>1, <1>2, <2>1
  <2> HIDE DEF S
  <2> QED BY <1>1, <2>2
<1>4. \A i \in 1 .. n : /\ Len(c[i]) = 2 /\ c[i][1] = HexDigitOf(octets[i] \div 16)
                        /\ c[i][2] = HexDigitOf(octets[i] % 16)
  BY <1>1
<1>5. FlattenSeq(c) = HexOf(octets)
  BY DEF HexOf
<1> HIDE DEF c, S
<1>6. PICK tails \in Tails(S, c) : TRUE
  BY <1>3, FlattenTails
<1>7. /\ tails \in [0 .. n -> Seq(S)] /\ tails[0] = HexOf(octets) /\ tails[n] = << >>
      /\ \A i \in 1 .. n : tails[i - 1] = c[i] \o tails[i]
  BY <1>3, <1>5, <1>6 DEF Tails
<1> HIDE DEF n
<1>8. ASSUME NEW i \in 1 .. n
      PROVE  /\ Len(tails[i - 1]) = 2 + Len(tails[i])
             /\ tails[i - 1][1] = c[i][1] /\ tails[i - 1][2] = c[i][2]
             /\ \A j \in 1 .. Len(tails[i]) : tails[i - 1][2 + j] = tails[i][j]
  <2>1. c[i] \in Seq(S) /\ tails[i] \in Seq(S) /\ Len(c[i]) = 2
    <3>1. \A k \in 1 .. Len(c) : c[k] \in Seq(S)
      BY <1>3
    <3>2. i \in 1 .. Len(c) /\ i \in 0 .. n
      BY <1>1, <1>3
    <3> QED BY <1>4, <1>7, <3>1, <3>2
  <2>2. /\ Len(c[i] \o tails[i]) = Len(c[i]) + Len(tails[i])
        /\ \A j \in 1 .. Len(c[i]) : (c[i] \o tails[i])[j] = c[i][j]
        /\ \A j \in 1 .. Len(tails[i]) : (c[i] \o tails[i])[Len(c[i]) + j] = tails[i][j]
    <3> DEFINE u == c[i]
               v == tails[i]
    <3>1. u \in Seq(S) /\ v \in Seq(S)
      BY <2>1
    <3> HIDE DEF u, v
    <3>2. /\ Len(u \o v) = Len(u) + Len(v)
          /\ \A j \in 1 .. Len(u) : (u \o v)[j] = u[j]
          /\ \A j \in 1 .. Len(v) : (u \o v)[Len(u) + j] = v[j]
      BY <3>1, ConcatSays
    <3> QED BY <3>2 DEF u, v
  <2>3. 1 \in 1 .. Len(c[i]) /\ 2 \in 1 .. Len(c[i])
    BY <2>1
  <2>4. tails[i - 1] = c[i] \o tails[i]
    BY <1>7
  <2> DEFINE b == c[i] \o tails[i]
  <2> HIDE DEF b
  <2>5. b = tails[i - 1] /\ Len(b) = 2 + Len(tails[i]) /\ b[1] = c[i][1] /\ b[2] = c[i][2]
        /\ \A j \in 1 .. Len(tails[i]) : b[2 + j] = tails[i][j]
    BY <2>1, <2>2, <2>3, <2>4 DEF b
  <2> QED BY <2>5
<1> DEFINE T == {k \in Nat : /\ Len(tails[0]) = 2 * k + Len(tails[k])
                             /\ \A j \in 1 .. Len(tails[k]) : tails[0][2 * k + j] = tails[k][j]}
<1>9. \A k \in 0 .. n : k \in T
  <2>1. 0 \in T
    <3>1. Len(tails[0]) \in Nat
      BY <1>1, <1>7
    <3> QED BY <3>1
  <2>2. ASSUME NEW i \in 1 .. n, i - 1 \in T PROVE i \in T
    <3>1. Len(tails[i]) \in Nat /\ i \in Nat
      BY <1>1, <1>7
    <3>2. Len(tails[0]) = 2 * (i - 1) + (2 + Len(tails[i]))
      BY <1>8, <2>2
    <3>3. ASSUME NEW j \in 1 .. Len(tails[i]) PROVE tails[0][2 * i + j] = tails[i][j]
      <4>1. 2 + j \in 1 .. 2 + Len(tails[i]) /\ 2 * (i - 1) + (2 + j) = 2 * i + j
        BY <3>1
      <4>2. tails[0][2 * (i - 1) + (2 + j)] = tails[i - 1][2 + j]
        BY <1>8, <2>2, <4>1
      <4> QED BY <1>8, <4>1, <4>2
    <3>4. Len(tails[0]) = 2 * i + Len(tails[i])
      <4> DEFINE a == Len(tails[0])
                 b == Len(tails[i])
      <4> HIDE DEF a, b
      <4>1. b \in Nat /\ i \in Nat /\ a = 2 * (i - 1) + (2 + b)
        BY <3>1, <3>2 DEF a, b
      <4>2. a = 2 * i + b
        BY <4>1
      <4> QED BY <4>2 DEF a, b
    <3> QED BY <3>1, <3>3, <3>4
  <2> HIDE DEF T
  <2> QED BY <1>1, <2>1, <2>2, BoundedInduction
<1>10. Len(tails[0]) = 2 * n
  <2>1. n \in T
    <3> HIDE DEF T
    <3> QED BY <1>1, <1>9
  <2>2. Len(tails[0]) = 2 * n + Len(tails[n]) /\ Len(tails[n]) = 0
    BY <1>7, <2>1
  <2> QED BY <1>1, <2>2
<1>11. ASSUME NEW i \in 1 .. n
       PROVE tails[0][2 * i - 1] = c[i][1] /\ tails[0][2 * i] = c[i][2]
  <2>1. i - 1 \in T /\ Len(tails[i]) \in Nat
    <3>1. i - 1 \in 0 .. n /\ i \in 0 .. n
      BY <1>1
    <3>2. i - 1 \in T
      <4> HIDE DEF T
      <4> QED BY <1>9, <3>1
    <3>3. tails[i] \in Seq(S)
      BY <1>7, <3>1
    <3>4. Len(tails[i]) \in Nat
      BY <3>3
    <3> HIDE DEF T
    <3> QED BY <3>2, <3>4
  <2>2. 1 \in 1 .. Len(tails[i - 1]) /\ 2 \in 1 .. Len(tails[i - 1])
    <3>1. Len(tails[i - 1]) = 2 + Len(tails[i])
      BY <1>8
    <3>2. Len(tails[i]) \in Nat
      BY <2>1
    <3> QED BY <3>1, <3>2
  <2>3. tails[0][2 * (i - 1) + 1] = tails[i - 1][1] /\ tails[0][2 * (i - 1) + 2] = tails[i - 1][2]
    BY <2>1, <2>2
  <2>4. 2 * (i - 1) + 1 = 2 * i - 1 /\ 2 * (i - 1) + 2 = 2 * i
    BY <1>1
  <2> QED BY <1>8, <2>3, <2>4
<1> QED BY <1>1, <1>4, <1>7, <1>10, <1>11 DEF n, S

(* A text that begins with a character. *)
LEMMA BeginsWith ==
  ASSUME NEW S, NEW n \in Seq(S), NEW a \in S
  PROVE  IsPrefix(<<a>>, n) <=> Len(n) >= 1 /\ n[1] = a
<1> DEFINE q == <<a>>
<1>1. q \in Seq(S) /\ Len(q) = 1 /\ q[1] = a
  OBVIOUS
<1> HIDE DEF q
<1>2. 1 .. 1 = {1} /\ Len(n) \in Nat
  OBVIOUS
<1>3. IsPrefix(q, n) <=> Len(q) <= Len(n) /\ \A i \in 1 .. Len(q) : q[i] = n[i]
  BY <1>1, PrefixSays
<1>4. IsPrefix(q, n) <=> Len(n) >= 1 /\ n[1] = a
  BY <1>1, <1>2, <1>3
<1> QED BY <1>4 DEF q

(* And with two. *)
LEMMA BeginsWithTwo ==
  ASSUME NEW S, NEW n \in Seq(S), NEW a \in S, NEW b \in S
  PROVE  IsPrefix(<<a, b>>, n) <=> Len(n) >= 2 /\ n[1] = a /\ n[2] = b
<1> DEFINE p == <<a, b>>
<1>1. p \in Seq(S) /\ Len(p) = 2 /\ p[1] = a /\ p[2] = b
  OBVIOUS
<1> HIDE DEF p
<1>2. 1 .. 2 = {1, 2} /\ Len(n) \in Nat
  OBVIOUS
<1>3. IsPrefix(p, n) <=> Len(p) <= Len(n) /\ \A i \in 1 .. Len(p) : p[i] = n[i]
  BY <1>1, PrefixSays
<1>4. IsPrefix(p, n) <=> Len(n) >= 2 /\ n[1] = a /\ n[2] = b
  BY <1>1, <1>2, <1>3
<1> QED BY <1>4 DEF p

(* A hexdump is read as the octets it is of: from_config(), of what        *)
(* config_value() or dpp_hex() wrote (ssid.py:117).                        *)
THEOREM HexReadsBack ==
  ASSUME NEW octets \in Seq(Bytes)
  PROVE  FromConfig(HexOf(octets)) = octets
<1> DEFINE value == HexOf(octets)
           n == Len(octets)
<1>1. /\ value \in Seq(Bytes) /\ Len(value) = 2 * n
      /\ \A i \in 1 .. n : /\ value[2 * i - 1] = HexDigitOf(octets[i] \div 16)
                           /\ value[2 * i] = HexDigitOf(octets[i] % 16)
  <2>1. value \in Seq(HexDigits \cap Bytes)
    BY HexOfSays
  <2>2. value \in Seq(Bytes)
    BY <2>1, SeqMonotonic
  <2> QED BY <2>2, HexOfSays
<1>2. \A i \in DOMAIN value : value[i] \in HexDigits
  <2>1. value \in Seq(HexDigits \cap Bytes)
    BY HexOfSays
  <2> HIDE DEF value
  <2>2. \A i \in 1 .. Len(value) : value[i] \in HexDigits \cap Bytes
    BY <2>1, ElementOfSeq
  <2> QED BY <2>1, <2>2
<1> HIDE DEF value
<1>3. n \in Nat /\ \A i \in 1 .. n : octets[i] \in Bytes
  BY ElementOfSeq
<1>4. Quote \in Bytes /\ UpperP \in Bytes /\ Quote \notin HexDigits /\ UpperP \notin HexDigits
  BY DEF Quote, UpperP, Bytes, HexDigits
<1>5. ~IsPrefix(<<Quote>>, value) /\ ~IsPrefix(<<UpperP, Quote>>, value)
  <2>1. Len(value) >= 1 => value[1] \in HexDigits
    BY <1>1, <1>2
  <2>2. /\ IsPrefix(<<Quote>>, value) <=> Len(value) >= 1 /\ value[1] = Quote
        /\ IsPrefix(<<UpperP, Quote>>, value)
             <=> Len(value) >= 2 /\ value[1] = UpperP /\ value[2] = Quote
    BY <1>1, <1>4, BeginsWith, BeginsWithTwo
  <2>3. Len(value) \in Nat
    BY <1>1
  <2> QED BY <1>4, <2>1, <2>2, <2>3
<1>6. Len(value) % 2 = 0 /\ Len(value) \div 2 = n
  <2>1. (2 * n) % 2 = 0 /\ (2 * n) \div 2 = n
    BY <1>3
  <2> QED BY <1>1, <2>1
<1>7. FromConfig(value) = [i \in 1 .. n |-> Number(SubSeq(value, 2 * i - 1, 2 * i), 16)]
  <2>1. ~(Len(value) % 2 = 1) /\ ~(\E i \in DOMAIN value : value[i] \notin HexDigits)
    BY <1>2, <1>6
  <2>2. FromConfig(value)
          = [i \in 1 .. Len(value) \div 2 |-> Number(SubSeq(value, 2 * i - 1, 2 * i), 16)]
    BY <1>5, <2>1, Zenon DEF FromConfig
  <2> QED BY <1>6, <2>2
<1>8. ASSUME NEW i \in 1 .. n
      PROVE  Number(SubSeq(value, 2 * i - 1, 2 * i), 16) = octets[i]
  <2> DEFINE s == SubSeq(value, 2 * i - 1, 2 * i)
  <2>1. 2 * i - 1 \in Nat /\ 2 * i - 1 >= 1 /\ 2 * i <= Len(value)
    BY <1>1, <1>3
  <2>2. s \in Seq(Bytes) /\ Len(s) = 2 /\ s[1] = value[2 * i - 1] /\ s[2] = value[2 * i]
    <3> DEFINE a == 2 * i - 1
               b == 2 * i
    <3>1. a \in Nat /\ b \in Nat /\ a >= 1 /\ b <= Len(value) /\ (b - a) + 1 = 2
          /\ (a + 1) - 1 = a /\ (a + 2) - 1 = b
      BY <2>1
    <3> HIDE DEF a, b
    <3>2. \A k \in a .. b : value[k] \in Bytes
      <4>1. \A k \in a .. b : k \in 1 .. Len(value)
        BY <1>1, <3>1
      <4> QED BY <1>1, <4>1, ElementOfSeq
    <3>3. /\ SubSeq(value, a, b) \in Seq(Bytes)
          /\ Len(SubSeq(value, a, b)) = IF a <= b THEN (b - a) + 1 ELSE 0
          /\ \A k \in 1 .. (b - a) + 1 : SubSeq(value, a, b)[k] = value[(a + k) - 1]
      BY <3>1, <3>2, SubSeqProperties
    <3>4. 1 \in 1 .. (b - a) + 1 /\ 2 \in 1 .. (b - a) + 1 /\ a <= b
      BY <3>1
    <3> QED BY <3>1, <3>3, <3>4 DEF a, b
  <2> HIDE DEF s
  <2>3. s \in Seq(Nat)
    <3>1. Bytes \subseteq Nat
      BY DEF Bytes
    <3> QED BY <2>2, <3>1, SeqMonotonic
  <2>4. Number(s, 16) = DigitValue(s[1]) * 16 + DigitValue(s[2])
    BY <2>2, <2>3, NumberOfTwo
  <2> DEFINE c == octets[i]
  <2>5. c \in Bytes
    BY <1>3
  <2>6. s[1] = HexDigitOf(c \div 16) /\ s[2] = HexDigitOf(c % 16)
    BY <1>1, <2>2
  <2> HIDE DEF c
  <2>7. c \div 16 \in 0 .. 15 /\ c % 16 \in 0 .. 15 /\ (c \div 16) * 16 + (c % 16) = c
    BY <2>5, OctetSays
  <2>8. DigitValue(s[1]) = c \div 16 /\ DigitValue(s[2]) = c % 16
    BY <2>6, <2>7, HexDigitSays
  <2>9. Number(s, 16) = c
    BY <2>4, <2>7, <2>8
  <2> QED BY <2>9 DEF s, c
<1> DEFINE back == [i \in 1 .. n |-> Number(SubSeq(value, 2 * i - 1, 2 * i), 16)]
<1>9. back = octets
  <2>1. \A i \in 1 .. n : back[i] = octets[i]
    BY <1>8
  <2>2. DOMAIN octets = 1 .. n /\ octets = [i \in 1 .. n |-> octets[i]]
    OBVIOUS
  <2>3. back = [i \in 1 .. n |-> octets[i]]
    BY <1>8
  <2> QED BY <2>2, <2>3
<1> QED BY <1>7, <1>9 DEF value

(* The front of two sequences put together. *)
LEMMA FrontOfConcat ==
  ASSUME NEW S, NEW s \in Seq(S), NEW t \in Seq(S)
  PROVE  SubSeq(s \o t, 1, Len(s)) = s
<1> DEFINE b == s \o t
           u == SubSeq(b, 1, Len(s))
<1>1. /\ b \in Seq(S) /\ Len(b) = Len(s) + Len(t)
      /\ \A i \in 1 .. Len(s) : b[i] = s[i]
  BY ConcatSays
<1>2. Len(s) \in Nat /\ Len(t) \in Nat
  OBVIOUS
<1> HIDE DEF b
<1>3. u \in Seq(S) /\ Len(u) = Len(s) /\ \A i \in 1 .. Len(s) : u[i] = b[i]
  BY <1>1, <1>2
<1> HIDE DEF u
<1>4. u = s
  BY <1>1, <1>3, SeqEqual
<1> QED BY <1>4 DEF u, b

(* What stands between quotes. *)
LEMMA UnquotedSays ==
  ASSUME NEW s \in Seq(Bytes)
  PROVE  Unquoted(s \o <<Quote>>) = s
<1> DEFINE t == <<Quote>>
           b == s \o t
<1>1. t \in Seq(Bytes) /\ Len(t) = 1 /\ t[1] = Quote
  BY DEF Quote, Bytes
<1> HIDE DEF t
<1>2. /\ b \in Seq(Bytes) /\ Len(b) = Len(s) + Len(t)
      /\ \A i \in 1 .. Len(t) : b[Len(s) + i] = t[i]
  <2>1. t \in Seq(Bytes)
    BY <1>1
  <2> QED BY <2>1, ConcatSays
<1>3. SubSeq(b, 1, Len(s)) = s
  BY <1>1, FrontOfConcat
<1>4. Len(s) \in Nat
  OBVIOUS
<1> HIDE DEF b
<1>5. Len(b) - 1 = Len(s) /\ b[Len(b)] = Quote /\ b # << >>
  BY <1>1, <1>2, <1>4
<1>6. Last(b) = Quote /\ Front(b) = s
  BY <1>3, <1>5 DEF Last, Front
<1>7. Unquoted(b) = s
  BY <1>5, <1>6 DEF Unquoted
<1> QED BY <1>7 DEF b, t

(* A quoted value is read as what is quoted. *)
LEMMA QuotedReads ==
  ASSUME NEW s \in Seq(Bytes)
  PROVE  FromConfig(<<Quote>> \o s \o <<Quote>>) = s
<1> DEFINE q == <<Quote>>
           r == s \o q
           value == q \o r
<1>1. q \in Seq(Bytes) /\ Len(q) = 1 /\ q[1] = Quote /\ q # << >> /\ Quote \in Bytes
  BY DEF Quote, Bytes
<1>0. Tail(q) = << >>
  OBVIOUS
<1>2. Unquoted(r) = s
  BY UnquotedSays
<1> HIDE DEF q
<1>3. r \in Seq(Bytes)
  BY <1>1, ConcatSays
<1>4. q \o s \o q = value
  BY <1>1, Assoc
<1> HIDE DEF r
<1>5. /\ value \in Seq(Bytes) /\ Len(value) = Len(q) + Len(r)
      /\ \A i \in 1 .. Len(q) : value[i] = q[i]
  BY <1>1, <1>3, ConcatSays
<1>6. Tail(value) = r
  <2>1. Tail(value) = Tail(q) \o r
    BY <1>1, <1>3, TailConcat
  <2> QED BY <1>0, <1>3, <2>1, ConcatEmptySeq
<1> HIDE DEF value
<1>7. IsPrefix(<<Quote>>, value)
  <2>1. IsPrefix(<<Quote>>, value) <=> Len(value) >= 1 /\ value[1] = Quote
    BY <1>1, <1>5, BeginsWith
  <2>2. Len(r) \in Nat
    BY <1>3
  <2> QED BY <1>1, <1>5, <2>1, <2>2
<1>8. FromConfig(value) = s
  BY <1>2, <1>6, <1>7 DEF FromConfig
<1> QED BY <1>4, <1>8 DEF q

(* A P"..." value is read as the escapes it quotes. *)
LEMMA EscapedReads ==
  ASSUME NEW s \in Seq(Bytes)
  PROVE  FromConfig(<<UpperP, Quote>> \o s \o <<Quote>>) = PrintfDecode(s)
<1> DEFINE p == <<UpperP, Quote>>
           q == <<Quote>>
           r == s \o q
           value == p \o r
<1>1. q \in Seq(Bytes)
  BY DEF Quote, Bytes
<1>2. p \in Seq(Bytes) /\ Len(p) = 2 /\ p[1] = UpperP /\ p[2] = Quote
      /\ Quote \in Bytes /\ UpperP \in Bytes /\ UpperP # Quote
  BY DEF Quote, UpperP, Bytes
<1>3. Unquoted(r) = s
  BY UnquotedSays
<1> HIDE DEF p, q
<1>4. r \in Seq(Bytes)
  BY <1>1, ConcatSays
<1>5. p \o s \o q = value
  <2>1. (p \o s) \o q = p \o (s \o q)
    BY <1>1, <1>2, Assoc, SMTT(30)
  <2> QED BY <2>1
<1> HIDE DEF r
<1>6. /\ value \in Seq(Bytes) /\ Len(value) = Len(p) + Len(r)
      /\ \A i \in 1 .. Len(p) : value[i] = p[i]
  BY <1>2, <1>4, ConcatSays, ZenonT(60)
<1>7. From(value, 3) = r
  <2> DEFINE one == 1
  <2>1. one \in Nat \ {0} /\ one <= Len(r) + 1
    <3>1. Len(r) \in Nat
      BY <1>4
    <3> QED BY <3>1
  <2>3. Len(p) + one = 3
    BY <1>2
  <2> HIDE DEF one
  <2>4. From(p \o r, Len(p) + one) = From(r, one)
    BY <1>2, <1>4, <2>1, FromConcat
  <2>5. From(r, 1) = r
    BY <1>4, SubSeqFull DEF From
  <2> QED BY <2>3, <2>4, <2>5 DEF one
<1> HIDE DEF value
<1>8. IsPrefix(<<UpperP, Quote>>, value) /\ ~IsPrefix(<<Quote>>, value)
  <2>1. IsPrefix(<<UpperP, Quote>>, value)
             <=> Len(value) >= 2 /\ value[1] = UpperP /\ value[2] = Quote
    BY <1>2, <1>6, BeginsWithTwo
  <2>2. IsPrefix(<<Quote>>, value) <=> Len(value) >= 1 /\ value[1] = Quote
    BY <1>2, <1>6, BeginsWith
  <2>3. Len(r) \in Nat
    BY <1>4
  <2>4. Len(value) >= 2 /\ value[1] = UpperP /\ value[2] = Quote
    BY <1>2, <1>6, <2>3
  <2> QED BY <1>2, <2>1, <2>2, <2>4
<1>9. s # Refused
  <2>1. ASSUME s = Refused PROVE FALSE
    <3>1. Len(s) = 1 /\ s[1] = 256
      BY <2>1 DEF Refused
    <3>2. s[1] \in Bytes
      BY <3>1, ElementOfSeq
    <3> QED BY <3>1, <3>2 DEF Bytes
  <2> QED BY <2>1
<1>10. FromConfig(value) = PrintfDecode(s)
  BY <1>3, <1>7, <1>8, <1>9 DEF FromConfig
<1> QED BY <1>5, <1>10 DEF p, q

(* A quoted value begins with a quote. *)
LEMMA QuotedBegins ==
  ASSUME NEW s \in Seq(Bytes)
  PROVE  IsPrefix(<<Quote>>, <<Quote>> \o s \o <<Quote>>)
<1> DEFINE q == <<Quote>>
           r == s \o q
           value == q \o r
<1>1. q \in Seq(Bytes) /\ Len(q) = 1 /\ q[1] = Quote /\ Quote \in Bytes
  BY DEF Quote, Bytes
<1> HIDE DEF q
<1>2. r \in Seq(Bytes)
  BY <1>1, ConcatSays
<1>3. q \o s \o q = value
  BY <1>1, Assoc
<1> HIDE DEF r
<1>4. /\ value \in Seq(Bytes) /\ Len(value) = Len(q) + Len(r)
      /\ \A i \in 1 .. Len(q) : value[i] = q[i]
  BY <1>1, <1>2, ConcatSays, ZenonT(60)
<1> HIDE DEF value
<1>5. IsPrefix(q, value)
  <2>1. IsPrefix(<<Quote>>, value) <=> Len(value) >= 1 /\ value[1] = Quote
    BY <1>1, <1>4, BeginsWith
  <2>2. Len(r) \in Nat
    BY <1>2
  <2> QED BY <1>1, <1>4, <2>1, <2>2 DEF q
<1> QED BY <1>3, <1>5 DEF q

(* What the daemon prints of one octet. *)
Piece(c) ==
  CASE c \in {Backslash, Quote} -> <<Backslash, c>>
    [] c = 27 -> <<Backslash, 101>>
    [] c = 10 -> <<Backslash, 110>>
    [] c = 13 -> <<Backslash, 114>>
    [] c = 9 -> <<Backslash, 116>>
    [] c \in Printable \ {Backslash, Quote} -> <<c>>
    [] OTHER -> <<Backslash, LowerX>> \o HexOf(<<c>>)

(* printf_encode() writes one piece for each octet. *)
LEMMA EncodedInPieces ==
  \A octets : PrintfEncode(octets) = FlattenSeq([i \in DOMAIN octets |-> Piece(octets[i])])
BY DEF PrintfEncode, Piece

(* An octet that has a letter behind a backslash. *)
Lettered(c, e) ==
  /\ Piece(c) = <<Backslash, e>> /\ e \in DOMAIN Named /\ Named[e] = c

(* The octets with a letter of their own. *)
LEMMA LetteredOctets ==
  /\ Lettered(Backslash, Backslash) /\ Lettered(Quote, Quote) /\ Lettered(27, 101)
  /\ Lettered(10, 110) /\ Lettered(13, 114) /\ Lettered(9, 116)
<1>1. /\ Piece(Backslash) = <<Backslash, Backslash>> /\ Piece(Quote) = <<Backslash, Quote>>
      /\ Piece(27) = <<Backslash, 101>> /\ Piece(10) = <<Backslash, 110>>
      /\ Piece(13) = <<Backslash, 114>> /\ Piece(9) = <<Backslash, 116>>
  BY DEF Piece, Backslash, Quote, Printable
<1>2. DOMAIN Named = {92, 34, 110, 114, 116, 101}
  BY DEF Named
<1>3. /\ Named[92] = 92 /\ Named[34] = 34 /\ Named[110] = 10 /\ Named[114] = 13
      /\ Named[116] = 9 /\ Named[101] = 27
  BY DEF Named
<1> QED BY <1>1, <1>2, <1>3 DEF Lettered, Backslash, Quote

(* One round of printf_decode(), at a letter. *)
LEMMA FirstNamed ==
  ASSUME NEW text, text[1] = Backslash, text # <<Backslash>>, NEW e \in DOMAIN Named, text[2] = e
  PROVE  FirstOf(text) = Reads(<<Named[e]>>, 2)
<1>1. e # LowerX /\ e \notin OctalDigits
  BY DEF Named, LowerX, OctalDigits
<1> QED BY <1>1 DEF FirstOf

(* And at an x. *)
LEMMA FirstHex ==
  ASSUME NEW text, text[1] = Backslash, text # <<Backslash>>, text[2] = LowerX, NEW hex,
         hex = Leading(From(text, 3), HexDigits, 2)
  PROVE  FirstOf(text) = Reads(IF hex = << >> THEN << >> ELSE <<Number(hex, 16)>>, 2 + Len(hex))
<1>1. LowerX \notin DOMAIN Named /\ LowerX \notin OctalDigits
  BY DEF Named, LowerX, OctalDigits
<1> QED BY <1>1 DEF FirstOf

(* A piece that is a letter is read as its octet. *)
LEMMA LetteredReads ==
  ASSUME NEW c \in Bytes, NEW e \in Bytes, Lettered(c, e), NEW t \in Seq(Bytes)
  PROVE  FirstOf(Piece(c) \o t) = Reads(<<c>>, Len(Piece(c)))
<1> DEFINE p == Piece(c)
           text == p \o t
<1>1. p = <<Backslash, e>> /\ e \in DOMAIN Named /\ Named[e] = c
  BY DEF Lettered
<1>2. p \in Seq(Bytes) /\ Len(p) = 2 /\ p[1] = Backslash /\ p[2] = e
  BY <1>1 DEF Backslash, Bytes
<1> HIDE DEF p
<1>3. /\ text \in Seq(Bytes) /\ Len(text) = Len(p) + Len(t)
      /\ \A i \in 1 .. Len(p) : text[i] = p[i]
  <2>1. p \in Seq(Bytes)
    BY <1>2
  <2> QED BY <2>1, ConcatSays
<1> HIDE DEF text
<1>4. text[1] = Backslash /\ text[2] = e /\ text # <<Backslash>>
  <2>1. Len(t) \in Nat /\ Len(<<Backslash>>) = 1
    OBVIOUS
  <2> QED BY <1>2, <1>3, <2>1, SMTT(30)
<1>5. FirstOf(text) = Reads(<<Named[e]>>, 2)
  BY <1>1, <1>4, FirstNamed
<1> QED BY <1>1, <1>2, <1>5 DEF p, text

(* The digits a text begins with. *)
LEMMA LeadingTwo ==
  ASSUME NEW u \in Seq(Bytes), NEW digits, Len(u) >= 2, u[1] \in digits, u[2] \in digits
  PROVE  Leading(u, digits, 2) = SubSeq(u, 1, 2)
<1> DEFINE Short == {i \in 0 .. 2 : i <= Len(u) /\ \A j \in 1 .. i : u[j] \in digits}
           Longest(i) == \A j \in Short : j <= i
           most == CHOOSE i \in Short : Longest(i)
<1>1. Leading(u, digits, 2) = SubSeq(u, 1, most)
  BY DEF Leading
<1>2. 2 \in Short
  <2>1. 1 .. 2 = {1, 2}
    OBVIOUS
  <2> QED BY <2>1
<1>3. \A j \in Short : j \in 0 .. 2
  OBVIOUS
<1> HIDE DEF Short
<1>4. Longest(2)
  BY <1>3
<1>5. most \in Short /\ Longest(most)
  <2> HIDE DEF Longest
  <2> QED BY <1>2, <1>4
<1>6. most = 2
  BY <1>2, <1>3, <1>5
<1> QED BY <1>1, <1>6

(* An octet that is printed as a backslash, an x and two digits. *)
LEMMA HexPieceReads ==
  ASSUME NEW c \in Bytes, Piece(c) = <<Backslash, LowerX>> \o HexOf(<<c>>), NEW t \in Seq(Bytes)
  PROVE  /\ Piece(c) \in Seq(Bytes) /\ Len(Piece(c)) = 4
         /\ FirstOf(Piece(c) \o t) = Reads(<<c>>, Len(Piece(c)))
<1> DEFINE p == <<Backslash, LowerX>>
           hx == HexOf(<<c>>)
           u == hx \o t
           text == p \o u
<1>1. p \in Seq(Bytes) /\ Len(p) = 2 /\ p[1] = Backslash /\ p[2] = LowerX
  BY DEF Backslash, LowerX, Bytes
<1>2. /\ hx \in Seq(Bytes) /\ Len(hx) = 2
      /\ hx[1] = HexDigitOf(c \div 16) /\ hx[2] = HexDigitOf(c % 16)
  <2> DEFINE o == <<c>>
  <2>1. o \in Seq(Bytes) /\ Len(o) = 1 /\ o[1] = c
    OBVIOUS
  <2> HIDE DEF o
  <2>2. /\ HexOf(o) \in Seq(HexDigits \cap Bytes) /\ Len(HexOf(o)) = 2 * Len(o)
        /\ \A i \in 1 .. Len(o) : /\ HexOf(o)[2 * i - 1] = HexDigitOf(o[i] \div 16)
                                  /\ HexOf(o)[2 * i] = HexDigitOf(o[i] % 16)
    BY <2>1, HexOfSays
  <2>3. 1 \in 1 .. Len(o) /\ 2 * 1 - 1 = 1 /\ 2 * 1 = 2
    BY <2>1
  <2>4. HexOf(o) \in Seq(Bytes)
    BY <2>2, SeqMonotonic
  <2>5. HexOf(o)[1] = HexDigitOf(o[1] \div 16) /\ HexOf(o)[2] = HexDigitOf(o[1] % 16)
    BY <2>2, <2>3
  <2> QED BY <2>1, <2>2, <2>4, <2>5, SMTT(30) DEF o
<1>3. c \div 16 \in 0 .. 15 /\ c % 16 \in 0 .. 15 /\ (c \div 16) * 16 + (c % 16) = c
  BY OctetSays
<1>4. Piece(c) = p \o hx
  OBVIOUS
<1> HIDE DEF p, hx
<1>0. p \in Seq(Bytes) /\ hx \in Seq(Bytes) /\ t \in Seq(Bytes)
  BY <1>1, <1>2
<1>5. p \o hx \in Seq(Bytes) /\ Len(p \o hx) = 4
  <2>1. p \o hx \in Seq(Bytes) /\ Len(p \o hx) = Len(p) + Len(hx)
    BY <1>0, ConcatSays
  <2> QED BY <1>1, <1>2, <2>1
<1>6. (p \o hx) \o t = text
  BY <1>0, Assoc, SMTT(30)
<1>7. /\ u \in Seq(Bytes) /\ Len(u) = Len(hx) + Len(t)
      /\ \A i \in 1 .. Len(hx) : u[i] = hx[i]
  <2>1. hx \in Seq(Bytes)
    BY <1>2
  <2> QED BY <2>1, ConcatSays
<1>8. SubSeq(u, 1, 2) = hx
  BY <1>2, FrontOfConcat
<1> HIDE DEF u
<1>9. /\ text \in Seq(Bytes) /\ Len(text) = Len(p) + Len(u)
      /\ \A i \in 1 .. Len(p) : text[i] = p[i]
  <2>1. p \in Seq(Bytes) /\ u \in Seq(Bytes)
    BY <1>1, <1>7
  <2> QED BY <2>1, ConcatSays
<1>10. From(text, 3) = u
  <2> DEFINE one == 1
  <2>1. one \in Nat \ {0} /\ one <= Len(u) + 1 /\ Len(p) + one = 3
    <3>1. Len(u) \in Nat
      BY <1>7
    <3> QED BY <1>1, <3>1
  <2> HIDE DEF one
  <2>2. From(p \o u, Len(p) + one) = From(u, one)
    BY <1>1, <1>7, <2>1, FromConcat
  <2>3. From(u, 1) = u
    BY <1>7, SubSeqFull DEF From
  <2> QED BY <2>1, <2>2, <2>3 DEF one
<1> HIDE DEF text
<1>11. Leading(u, HexDigits, 2) = hx
  <2>1. Len(t) \in Nat
    OBVIOUS
  <2>2. Len(u) >= 2 /\ u[1] = hx[1] /\ u[2] = hx[2]
    BY <1>2, <1>7, <2>1
  <2>3. u[1] \in HexDigits /\ u[2] \in HexDigits
    BY <1>2, <1>3, <2>2, HexDigitSays
  <2> QED BY <1>7, <1>8, <2>2, <2>3, LeadingTwo
<1>12. text[1] = Backslash /\ text[2] = LowerX /\ text # <<Backslash>>
  <2>1. Len(u) \in Nat /\ Len(<<Backslash>>) = 1
    BY <1>7
  <2>2. 1 \in 1 .. Len(p) /\ 2 \in 1 .. Len(p)
    BY <1>1
  <2>3. Len(text) # 1
    BY <1>1, <1>9, <2>1
  <2> QED BY <1>1, <1>9, <2>1, <2>2, <2>3
<1>13. Number(hx, 16) = c
  <2>1. hx \in Seq(Nat)
    <3>1. Bytes \subseteq Nat
      BY DEF Bytes
    <3> QED BY <1>2, <3>1, SeqMonotonic
  <2>2. Number(hx, 16) = DigitValue(hx[1]) * 16 + DigitValue(hx[2])
    BY <1>2, <2>1, NumberOfTwo
  <2>3. DigitValue(hx[1]) = c \div 16 /\ DigitValue(hx[2]) = c % 16
    BY <1>2, <1>3, HexDigitSays
  <2> QED BY <1>3, <2>2, <2>3
<1>14. hx # << >>
  <2>1. Len(hx) # 0
    BY <1>2
  <2> QED BY <2>1
<1>15. FirstOf(text) = Reads(<<c>>, 4)
  <2>2. FirstOf(text) = Reads(IF hx = << >> THEN << >> ELSE <<Number(hx, 16)>>, 2 + Len(hx))
    BY <1>10, <1>11, <1>12, FirstHex
  <2>3. 2 + Len(hx) = 4
    BY <1>2
  <2> QED BY <1>13, <1>14, <2>2, <2>3
<1> QED BY <1>4, <1>5, <1>6, <1>15

(* A printable octet stands for itself. *)
LEMMA PlainPieceReads ==
  ASSUME NEW c \in Bytes, Piece(c) = <<c>>, c # Backslash, NEW t \in Seq(Bytes)
  PROVE  FirstOf(Piece(c) \o t) = Reads(<<c>>, Len(Piece(c)))
<1> DEFINE p == <<c>>
           text == p \o t
<1>1. p \in Seq(Bytes) /\ Len(p) = 1 /\ p[1] = c
  OBVIOUS
<1>2. Piece(c) = p
  OBVIOUS
<1> HIDE DEF p
<1>3. \A i \in 1 .. Len(p) : text[i] = p[i]
  BY <1>1, ConcatSays
<1> HIDE DEF text
<1>4. text[1] # Backslash /\ text[1] = c
  BY <1>1, <1>3
<1>5. FirstOf(text) = Reads(<<c>>, 1)
  BY <1>4 DEF FirstOf
<1> QED BY <1>1, <1>2, <1>5 DEF text

(* So is every piece. *)
LEMMA PieceReads ==
  ASSUME NEW c \in Bytes, NEW t \in Seq(Bytes)
  PROVE  /\ Piece(c) \in Seq(Bytes) /\ Len(Piece(c)) >= 1
         /\ FirstOf(Piece(c) \o t) = Reads(<<c>>, Len(Piece(c)))
<1> DEFINE Goal == /\ Piece(c) \in Seq(Bytes) /\ Len(Piece(c)) >= 1
                   /\ FirstOf(Piece(c) \o t) = Reads(<<c>>, Len(Piece(c)))
<1>1. ASSUME NEW e \in Bytes, Lettered(c, e) PROVE Goal
  <2>1. Piece(c) = <<Backslash, e>> /\ Backslash \in Bytes
    BY <1>1 DEF Lettered, Backslash, Bytes
  <2>2. Piece(c) \in Seq(Bytes) /\ Len(Piece(c)) >= 1
    BY <2>1
  <2> QED BY <1>1, <2>2, LetteredReads
<1>2. CASE c \in {Backslash, Quote, 27, 10, 13, 9}
  <2>1. \E e \in Bytes : Lettered(c, e)
    <3>1. {Backslash, Quote, 101, 110, 114, 116} \subseteq Bytes
      BY DEF Backslash, Quote, Bytes
    <3> QED BY <1>2, <3>1, LetteredOctets
  <2> HIDE DEF Goal
  <2>2. PICK e \in Bytes : Lettered(c, e)
    BY <2>1
  <2> HIDE DEF Goal
  <2>3. Goal
    BY <1>1, <2>2
  <2> QED BY <2>3 DEF Goal
<1>3. CASE c \notin {Backslash, Quote, 27, 10, 13, 9} /\ c \in Printable
  <2>1. Piece(c) = <<c>>
    BY <1>3 DEF Piece
  <2>2. Piece(c) \in Seq(Bytes) /\ Len(Piece(c)) >= 1
    BY <2>1
  <2> QED BY <1>3, <2>1, <2>2, PlainPieceReads
<1>4. CASE c \notin {Backslash, Quote, 27, 10, 13, 9} /\ c \notin Printable
  <2>1. Piece(c) = <<Backslash, LowerX>> \o HexOf(<<c>>)
    BY <1>4 DEF Piece
  <2>2. /\ Piece(c) \in Seq(Bytes) /\ Len(Piece(c)) = 4
        /\ FirstOf(Piece(c) \o t) = Reads(<<c>>, Len(Piece(c)))
    BY <2>1, HexPieceReads
  <2> QED BY <2>2
<1> QED BY <1>2, <1>3, <1>4

(* One more of a sequence, at its front. *)
LEMMA OneMoreOf ==
  ASSUME NEW S, NEW s \in Seq(S), NEW k \in 1 .. Len(s)
  PROVE  SubSeq(s, 1, k - 1) \o <<s[k]>> = SubSeq(s, 1, k)
<1> DEFINE u == SubSeq(s, 1, k - 1)
           v == SubSeq(s, 1, k)
           o == <<s[k]>>
           b == u \o o
<1>1. k \in Nat /\ k >= 1 /\ k <= Len(s) /\ Len(s) \in Nat /\ s[k] \in S
  BY ElementOfSeq
<1>2. u \in Seq(S) /\ Len(u) = k - 1 /\ \A i \in 1 .. k - 1 : u[i] = s[i]
  BY <1>1
<1>3. v \in Seq(S) /\ Len(v) = k /\ \A i \in 1 .. k : v[i] = s[i]
  BY <1>1
<1>4. o \in Seq(S) /\ Len(o) = 1 /\ o[1] = s[k]
  BY <1>1
<1>0. u \in Seq(S) /\ o \in Seq(S)
  BY <1>2, <1>4
<1> HIDE DEF u, v, o
<1>5. /\ b \in Seq(S) /\ Len(b) = Len(u) + Len(o)
      /\ \A i \in 1 .. Len(u) : b[i] = u[i]
      /\ \A i \in 1 .. Len(o) : b[Len(u) + i] = o[i]
  BY <1>0, ConcatSays
<1> HIDE DEF b
<1>6. Len(b) = k
  BY <1>1, <1>2, <1>4, <1>5
<1>7. ASSUME NEW i \in 1 .. k PROVE b[i] = v[i]
  <2>1. CASE i = k
    <3>1. 1 \in 1 .. Len(o) /\ Len(u) + 1 = k
      BY <1>1, <1>2, <1>4
    <3>2. b[Len(u) + 1] = o[1]
      BY <1>5, <3>1
    <3> QED BY <1>3, <1>4, <2>1, <3>1, <3>2
  <2>2. CASE i # k
    <3>1. i \in 1 .. k - 1 /\ i \in 1 .. Len(u)
      BY <1>1, <1>2, <2>2
    <3> QED BY <1>2, <1>3, <1>5, <3>1
  <2> QED BY <2>1, <2>2
<1>8. b = v
  BY <1>3, <1>5, <1>6, <1>7, SeqEqual
<1> QED BY <1>8 DEF b, u, v, o

(* The pieces of an SSID, each with what follows it. *)
Encoded(s, tails) ==
  /\ s \in Seq(Bytes)
  /\ tails \in [0 .. Len(s) -> Seq(Bytes)] /\ tails[Len(s)] = << >>
  /\ \A k \in 1 .. Len(s) : tails[k - 1] = Piece(s[k]) \o tails[k]

(* The texts still to be read, octet by octet. *)
LEMMA EncodedTails ==
  ASSUME NEW s \in Seq(Bytes)
  PROVE  \E tails : Encoded(s, tails) /\ tails[0] = PrintfEncode(s)
<1> DEFINE n == Len(s)
           c == [i \in DOMAIN s |-> Piece(s[i])]
<1>1. n \in Nat /\ DOMAIN s = 1 .. n
  OBVIOUS
<1>2. \A i \in 1 .. n : Piece(s[i]) \in Seq(Bytes)
  <2> TAKE i \in 1 .. n
  <2>1. s[i] \in Bytes /\ << >> \in Seq(Bytes)
    BY ElementOfSeq
  <2> QED BY <2>1, PieceReads
<1>3. c \in Seq(Seq(Bytes)) /\ Len(c) = n /\ \A i \in 1 .. n : c[i] = Piece(s[i])
  <2> HIDE DEF n
  <2> QED BY <1>1, <1>2
<1>4. FlattenSeq(c) = PrintfEncode(s)
  BY EncodedInPieces
<1> HIDE DEF c
<1>5. PICK tails \in Tails(Bytes, c) : TRUE
  BY <1>3, FlattenTails
<1>6. /\ tails \in [0 .. n -> Seq(Bytes)] /\ tails[0] = PrintfEncode(s) /\ tails[n] = << >>
      /\ \A i \in 1 .. n : tails[i - 1] = Piece(s[i]) \o tails[i]
  BY <1>3, <1>4, <1>5 DEF Tails
<1> QED BY <1>6 DEF Encoded

(* Each of them is at least as long as what it stands for. *)
LEMMA EncodedSays ==
  ASSUME NEW s, NEW tails, Encoded(s, tails)
  PROVE  /\ tails[0] \in Seq(Bytes) /\ Len(tails[0]) >= Len(s)
         /\ \A k \in 1 .. Len(s) :
               /\ s[k] \in Bytes /\ tails[k] \in Seq(Bytes) /\ Piece(s[k]) \in Seq(Bytes)
               /\ Len(tails[k - 1]) >= 1 + Len(tails[k]) /\ tails[k - 1] # << >>
<1> DEFINE n == Len(s)
<1>1. /\ s \in Seq(Bytes) /\ n \in Nat
      /\ tails \in [0 .. n -> Seq(Bytes)] /\ tails[n] = << >>
      /\ \A k \in 1 .. n : tails[k - 1] = Piece(s[k]) \o tails[k]
  BY DEF Encoded
<1>2. ASSUME NEW k \in 1 .. n
      PROVE  /\ s[k] \in Bytes /\ tails[k] \in Seq(Bytes) /\ Piece(s[k]) \in Seq(Bytes)
             /\ Len(tails[k - 1]) >= 1 + Len(tails[k]) /\ tails[k - 1] # << >>
  <2>1. s[k] \in Bytes
    BY <1>1, ElementOfSeq
  <2>2. tails[k] \in Seq(Bytes)
    BY <1>1
  <2> DEFINE p == Piece(s[k])
             t == tails[k]
  <2>3. p \in Seq(Bytes) /\ Len(p) >= 1 /\ t \in Seq(Bytes) /\ tails[k - 1] = p \o t
    BY <1>1, <2>1, <2>2, PieceReads
  <2> HIDE DEF p, t
  <2>4. Len(p \o t) = Len(p) + Len(t) /\ Len(p) \in Nat /\ Len(t) \in Nat
    <3>1. p \in Seq(Bytes) /\ t \in Seq(Bytes)
      BY <2>3
    <3> QED BY <3>1, ConcatSays
  <2>5. Len(tails[k - 1]) >= 1 + Len(t) /\ Len(tails[k - 1]) # 0
    BY <2>3, <2>4
  <2>6. tails[k - 1] # << >>
    BY <2>5
  <2> QED BY <2>1, <2>3, <2>5, <2>6 DEF p, t
<1> HIDE DEF n
<1> DEFINE T == {k \in Nat : k + Len(tails[k]) <= Len(tails[0])}
<1>3. tails[0] \in Seq(Bytes) /\ \A k \in 0 .. n : Len(tails[k]) \in Nat
  BY <1>1
<1>4. 0 \in T
  BY <1>1, <1>3
<1>5. ASSUME NEW i \in 1 .. n, i - 1 \in T PROVE i \in T
  <2> DEFINE a == Len(tails[0])
             b == Len(tails[i])
             c == Len(tails[i - 1])
  <2>1. i \in Nat /\ i >= 1 /\ a \in Nat /\ b \in Nat /\ c \in Nat
    BY <1>1, <1>3
  <2>2. (i - 1) + c <= a /\ c >= 1 + b
    BY <1>2, <1>5
  <2> HIDE DEF a, b, c
  <2>3. i + b <= a
    BY <2>1, <2>2
  <2> QED BY <2>1, <2>3 DEF a, b
<1>6. n \in T
  <2> HIDE DEF T
  <2>1. \A k \in 0 .. n : k \in T
    BY <1>1, <1>4, <1>5, BoundedInduction
  <2> QED BY <1>1, <2>1
<1>7. n <= Len(tails[0])
  <2>1. Len(tails[n]) = 0
    BY <1>1
  <2> QED BY <1>1, <1>6, <2>1
<1> QED BY <1>2, <1>3, <1>7 DEF n

(* One round of printf_decode() reads one octet. *)
LEMMA RoundReads ==
  ASSUME NEW s, NEW tails, Encoded(s, tails), NEW k \in 1 .. Len(s)
  PROVE  Round([octets |-> SubSeq(s, 1, k - 1), rest |-> tails[k - 1]])
           = [octets |-> SubSeq(s, 1, k), rest |-> tails[k]]
<1> DEFINE c == s[k]
           p == Piece(c)
           t == tails[k]
           here == SubSeq(s, 1, k - 1)
<1>1. c \in Bytes /\ t \in Seq(Bytes) /\ p \in Seq(Bytes) /\ tails[k - 1] # << >>
  BY EncodedSays
<1>2. tails[k - 1] = p \o t
  BY DEF Encoded
<1>3. here \o <<c>> = SubSeq(s, 1, k)
  <2>1. s \in Seq(Bytes)
    BY DEF Encoded
  <2> QED BY <2>1, OneMoreOf
<1> HIDE DEF c
<1>4. FirstOf(p \o t) = Reads(<<c>>, Len(p))
  BY <1>1, PieceReads
<1> HIDE DEF p, t, here
<1>5. From(p \o t, 1 + Len(p)) = t
  <2> DEFINE one == 1
  <2>1. one \in Nat \ {0} /\ one <= Len(t) + 1 /\ 1 + Len(p) = Len(p) + one
    <3>1. Len(t) \in Nat /\ Len(p) \in Nat
      BY <1>1
    <3> QED BY <3>1
  <2> HIDE DEF one
  <2>2. From(p \o t, Len(p) + one) = From(t, one)
    BY <1>1, <2>1, FromConcat
  <2>3. From(t, 1) = t
    BY <1>1, SubSeqFull DEF From
  <2> QED BY <2>1, <2>2, <2>3 DEF one
<1> DEFINE state == [octets |-> here, rest |-> p \o t]
<1>6. state.octets = here /\ state.rest = p \o t
  OBVIOUS
<1> HIDE DEF state
<1>7. FirstOf(state.rest).octets = <<c>> /\ FirstOf(state.rest).length = Len(p)
  BY <1>4, <1>6 DEF Reads
<1>8. Round(state) = [octets |-> here \o <<c>>, rest |-> From(p \o t, 1 + Len(p))]
  BY <1>1, <1>2, <1>6, <1>7 DEF Round
<1> QED BY <1>2, <1>3, <1>5, <1>8 DEF state, here, t

(* printf_decode() undoes the daemon's printf_encode(), whatever the       *)
(* octets and however long they go on (ssid.py:34).                        *)
THEOREM EncodingReadsBack ==
  ASSUME NEW s \in Seq(Bytes)
  PROVE  PrintfEncode(s) \in Seq(Bytes) /\ PrintfDecode(PrintfEncode(s)) = s
<1>1. PICK tails : Encoded(s, tails) /\ tails[0] = PrintfEncode(s)
  BY EncodedTails
<1> DEFINE text == PrintfEncode(s)
           n == Len(s)
           N == Len(text)
           After_(k) == IF k <= n THEN [octets |-> SubSeq(s, 1, k), rest |-> tails[k]]
                        ELSE [octets |-> s, rest |-> << >>]
           a == [octets |-> << >>, rest |-> text]
           Unfolds(f) == f = [k \in 0 .. N |-> IF k = 0 THEN a ELSE Round(f[k - 1])]
           run == CHOOSE f : Unfolds(f)
           g == [k \in 0 .. N |-> After_(k)]
<1>2. text \in Seq(Bytes) /\ N \in Nat /\ n \in Nat /\ n <= N
  BY <1>1, EncodedSays
<1>3. tails[n] = << >> /\ SubSeq(s, 1, n) = s /\ SubSeq(s, 1, 0) = << >>
  BY <1>1, SubSeqFull DEF Encoded
<1>4. After_(0) = a /\ After_(N).octets = s
  <2>1. CASE N = n
    BY <1>1, <1>2, <1>3, <2>1
  <2>2. CASE N # n
    BY <1>1, <1>2, <1>3, <2>2
  <2> QED BY <2>1, <2>2
<1>5. ASSUME NEW k \in 1 .. N PROVE After_(k) = Round(After_(k - 1))
  <2>1. CASE k <= n
    <3>1. k \in 1 .. n /\ k - 1 <= n
      BY <1>2, <2>1
    <3> QED BY <1>1, <2>1, <3>1, RoundReads
  <2>2. CASE ~(k <= n)
    <3>1. After_(k - 1) = [octets |-> s, rest |-> << >>]
      <4>1. CASE k - 1 <= n
        <5>1. k - 1 = n
          BY <1>2, <2>2, <4>1
        <5> QED BY <1>3, <4>1, <5>1
      <4>2. CASE ~(k - 1 <= n)
        BY <4>2
      <4> QED BY <4>1, <4>2
    <3>2. Round([octets |-> s, rest |-> << >>]) = [octets |-> s, rest |-> << >>]
      BY DEF Round
    <3>3. After_(k) = [octets |-> s, rest |-> << >>]
      BY <2>2
    <3> QED BY <3>1, <3>2, <3>3
  <2> QED BY <2>1, <2>2
<1>6. PrintfDecode(text) = run[N].octets
  BY DEF PrintfDecode
<1> HIDE DEF After_, a
<1>7. Unfolds(g)
  <2>1. \A k \in 0 .. N : g[k] = IF k = 0 THEN a ELSE Round(g[k - 1])
    <3> TAKE k \in 0 .. N
    <3>1. CASE k = 0
      BY <1>4, <3>1
    <3>2. CASE k # 0
      <4>1. k \in 1 .. N /\ k - 1 \in 0 .. N
        BY <1>2, <3>2
      <4> QED BY <1>5, <3>2, <4>1
    <3> QED BY <3>1, <3>2
  <2>2. g = [k \in 0 .. N |-> g[k]]
    OBVIOUS
  <2> HIDE DEF g
  <2> QED BY <2>1, <2>2
<1>8. Unfolds(run)
  <2> HIDE DEF Unfolds
  <2> QED BY <1>7
<1> HIDE DEF run
<1>9. run[0] = a /\ \A k \in 1 .. N : run[k] = Round(run[k - 1])
  <2>1. \A k \in 0 .. N : run[k] = IF k = 0 THEN a ELSE Round(run[k - 1])
    BY <1>8
  <2> QED BY <1>2, <2>1
<1> DEFINE T == {k \in Nat : run[k] = After_(k)}
<1>10. N \in T
  <2>1. 0 \in T
    BY <1>4, <1>9
  <2>2. ASSUME NEW k \in 1 .. N, k - 1 \in T PROVE k \in T
    <3>1. run[k] = Round(run[k - 1]) /\ k \in Nat
      BY <1>2, <1>9
    <3> QED BY <1>5, <2>2, <3>1
  <2> HIDE DEF T, N
  <2>3. \A k \in 0 .. N : k \in T
    BY <1>2, <2>1, <2>2, BoundedInduction
  <2> QED BY <1>2, <2>3
<1> QED BY <1>2, <1>4, <1>6, <1>10

(* ConfigCarriesSsid holds of any SSID. *)
LEMMA ConfigCarries ==
  ASSUME ssid \in Seq(Bytes)
  PROVE  ConfigCarriesSsid
<1>1. FromConfig(ConfigValue(ssid)) = ssid
  BY QuotedReads, HexReadsBack DEF ConfigValue
<1>2. FromConfig(<<UpperP, Quote>> \o PrintfEncode(ssid) \o <<Quote>>) = ssid
  BY EncodingReadsBack, EscapedReads
<1> QED BY <1>1, <1>2 DEF ConfigCarriesSsid

-----------------------------------------------------------------------------
(* Parameters, from the line they are joined to *)

(* Where each of the tails begins. *)
TailsOf(S, n, tails) ==
  \A k \in 0 .. n :
     /\ tails[k] \in Seq(S) /\ Len(tails[k]) <= Len(tails[0])
     /\ \A j \in 1 .. Len(tails[k]) :
           tails[0][(Len(tails[0]) - Len(tails[k])) + j] = tails[k][j]

(* Where the tails stand in the whole. *)
LEMMA TailsPlaces ==
  ASSUME NEW S, NEW c \in Seq(Seq(S)), NEW tails \in Tails(S, c)
  PROVE  TailsOf(S, Len(c), tails)
<1> DEFINE n == Len(c)
           L(k) == Len(tails[k])
           T == {k \in Nat : /\ L(k) <= L(0)
                             /\ \A j \in 1 .. L(k) : tails[0][(L(0) - L(k)) + j] = tails[k][j]}
<1>1. /\ n \in Nat /\ tails \in [0 .. n -> Seq(S)]
      /\ \A i \in 1 .. n : tails[i - 1] = c[i] \o tails[i]
  BY DEF Tails
<1>2. \A k \in 0 .. n : tails[k] \in Seq(S) /\ L(k) \in Nat
  BY <1>1
<1>3. ASSUME NEW i \in 1 .. n
      PROVE  /\ c[i] \in Seq(S) /\ Len(c[i]) \in Nat /\ L(i) \in Nat /\ L(i - 1) = Len(c[i]) + L(i)
             /\ \A j \in 1 .. L(i) : tails[i - 1][Len(c[i]) + j] = tails[i][j]
  <2> DEFINE p == c[i]
             t == tails[i]
  <2>1. p \in Seq(S) /\ t \in Seq(S)
    BY <1>1, <1>2, ElementOfSeq
  <2>2. tails[i - 1] = p \o t
    BY <1>1
  <2> HIDE DEF p, t
  <2>3. /\ Len(p \o t) = Len(p) + Len(t)
        /\ \A j \in 1 .. Len(t) : (p \o t)[Len(p) + j] = t[j]
    BY <2>1, ConcatSays
  <2>4. Len(p) \in Nat /\ Len(t) \in Nat
    BY <2>1
  <2> QED BY <2>1, <2>2, <2>3, <2>4 DEF p, t
<1>4. 0 \in T
  <2>1. L(0) \in Nat
    BY <1>1, <1>2
  <2> HIDE DEF L
  <2>2. \A j \in 1 .. L(0) : (L(0) - L(0)) + j = j
    BY <2>1
  <2> QED BY <2>1, <2>2
<1> HIDE DEF L
<1>5. ASSUME NEW i \in 1 .. n, i - 1 \in T PROVE i \in T
  <2> DEFINE m == Len(c[i])
             b == L(i)
             d == L(i - 1)
             a == L(0)
  <2>1. i \in Nat /\ m \in Nat /\ b \in Nat /\ d = m + b /\ d <= a /\ a \in Nat
    BY <1>1, <1>2, <1>3, <1>5
  <2>2. \A j \in 1 .. d : tails[0][(a - d) + j] = tails[i - 1][j]
    BY <1>5
  <2>3. \A j \in 1 .. b : tails[i - 1][m + j] = tails[i][j]
    BY <1>3
  <2> HIDE DEF m, b, d, a
  <2>4. ASSUME NEW j \in 1 .. b PROVE tails[0][(a - b) + j] = tails[i][j]
    <3>1. m + j \in 1 .. d /\ (a - d) + (m + j) = (a - b) + j
      BY <2>1
    <3> QED BY <2>2, <2>3, <3>1
  <2>5. b <= a
    BY <2>1
  <2> QED BY <2>1, <2>4, <2>5 DEF a, b
<1>6. \A k \in 0 .. n : k \in T
  <2> HIDE DEF T, n
  <2> QED BY <1>1, <1>4, <1>5, BoundedInduction
<1> QED BY <1>2, <1>6 DEF L, TailsOf

-----------------------------------------------------------------------------
ScanStates == [tokens : Seq(Seq(Bytes)), current : Seq(Bytes), quoted : BOOLEAN, escaped : BOOLEAN]
At(tokens, current) ==
  [tokens |-> tokens, current |-> current, quoted |-> FALSE, escaped |-> FALSE]

(* A round of split_params() keeps to the type. *)
LEMMA ScanType == \A s \in ScanStates, c \in Bytes : Scan(s, c) \in ScanStates
<1> SUFFICES ASSUME NEW s \in ScanStates, NEW c \in Bytes PROVE Scan(s, c) \in ScanStates
  OBVIOUS
<1>1. /\ s = [tokens |-> s.tokens, current |-> s.current, quoted |-> s.quoted,
               escaped |-> s.escaped]
      /\ s.tokens \in Seq(Seq(Bytes)) /\ s.current \in Seq(Bytes)
      /\ s.quoted \in BOOLEAN /\ s.escaped \in BOOLEAN
  BY DEF ScanStates
<1>2. Append(s.current, c) \in Seq(Bytes) /\ << >> \in Seq(Bytes)
  BY <1>1
<1>3. Append(s.tokens, s.current) \in Seq(Seq(Bytes))
  BY <1>1
<1> DEFINE longer == Append(s.current, c)
           more == Append(s.tokens, s.current)
           none == << >>
<1>4. longer \in Seq(Bytes) /\ none \in Seq(Bytes) /\ more \in Seq(Seq(Bytes))
  BY <1>2, <1>3
<1>5. \/ Scan(s, c) = [s EXCEPT !.current = longer, !.escaped = FALSE]
      \/ Scan(s, c) = [s EXCEPT !.current = longer, !.escaped = TRUE]
      \/ Scan(s, c) = [s EXCEPT !.current = longer, !.quoted = ~s.quoted]
      \/ Scan(s, c) = s
      \/ Scan(s, c) = [s EXCEPT !.tokens = more, !.current = none]
      \/ Scan(s, c) = [s EXCEPT !.current = longer]
  BY DEF Scan
<1> HIDE DEF longer, more, none
<1>6. (~s.quoted) \in BOOLEAN
  BY <1>1
<1> QED BY <1>1, <1>4, <1>5, <1>6 DEF ScanStates

(* A character of a word, and the blank behind one. *)
LEMMA ScanWord ==
  ASSUME NEW tokens, NEW current, NEW c, c # Quote, c # Space
  PROVE  Scan(At(tokens, current), c) = At(tokens, Append(current, c))
<1> DEFINE s == At(tokens, current)
<1>1. s.tokens = tokens /\ s.current = current /\ s.quoted = FALSE /\ s.escaped = FALSE
  BY DEF At
<1>2. Scan(s, c) = [s EXCEPT !.current = Append(@, c)]
  BY <1>1 DEF Scan
<1> QED BY <1>2 DEF At

(* A blank ends a word. *)
LEMMA ScanBlank ==
  ASSUME NEW tokens, NEW current, current # << >>
  PROVE  Scan(At(tokens, current), Space) = At(Append(tokens, current), << >>)
<1> DEFINE s == At(tokens, current)
<1>1. s.tokens = tokens /\ s.current = current /\ s.quoted = FALSE /\ s.escaped = FALSE
  BY DEF At
<1>2. Space # Quote
  BY DEF Space, Quote
<1>3. Scan(s, Space) = [s EXCEPT !.tokens = Append(@, s.current), !.current = << >>]
  BY <1>1, <1>2 DEF Scan
<1> QED BY <1>3 DEF At

(* What split_params() returns. *)
Ended(s) == IF s.current = << >> THEN s.tokens ELSE Append(s.tokens, s.current)

(* split_params() as a run over its text. *)
LEMMA SplitRuns ==
  ASSUME NEW text \in Seq(Bytes)
  PROVE  \E scan \in [0 .. Len(text) -> ScanStates] :
            /\ scan[0] = At(<< >>, << >>)
            /\ \A i \in 1 .. Len(text) : scan[i] = Scan(scan[i - 1], text[i])
            /\ SplitParams(text) = Ended(scan[Len(text)])
<1> DEFINE n == Len(text)
           a == At(<< >>, << >>)
           step == [x \in ScanStates \X (1 .. n) |-> Scan(x[1], text[x[2]])]
           Unfolds(f) == f = [i \in 0 .. n |-> IF i = 0 THEN a ELSE Scan(f[i - 1], text[i])]
           run == CHOOSE f : Unfolds(f)
<1>1. n \in Nat /\ a \in ScanStates /\ \A i \in 1 .. n : text[i] \in Bytes
  <2>1. \A i \in 1 .. n : text[i] \in Bytes
    BY ElementOfSeq
  <2> QED BY <2>1 DEF ScanStates, At
<1>2. step \in [ScanStates \X (1 .. n) -> ScanStates]
  BY <1>1, ScanType
<1>3. PICK f \in Loops(ScanStates, n, a, step) : TRUE
  <2> HIDE DEF n, a, step
  <2> QED BY <1>1, <1>2, LoopExists
<1>4. f \in [0 .. n -> ScanStates] /\ f[0] = a
  BY <1>3 DEF Loops
<1>5. \A i \in 1 .. n : f[i] = Scan(f[i - 1], text[i])
  <2> TAKE i \in 1 .. n
  <2>1. f[i] = step[<<f[i - 1], i>>]
    BY <1>3 DEF Loops
  <2>2. <<f[i - 1], i>> \in ScanStates \X (1 .. n)
    <3> HIDE DEF n, a, step
    <3>1. i - 1 \in 0 .. n
      BY <1>1
    <3> QED BY <1>4, <3>1
  <2> QED BY <2>1, <2>2
<1>6. Unfolds(f)
  <2> HIDE DEF n, a, step
  <2> QED BY <1>1, <1>4, <1>5
<1>7. Unfolds(run)
  <2> HIDE DEF Unfolds
  <2> QED BY <1>6
<1>8. SplitParams(text) = Ended(run[n])
  BY DEF SplitParams, At, Ended
<1> HIDE DEF run, step, a, n
<1>9. run[0] = a /\ \A i \in 1 .. n : run[i] = Scan(run[i - 1], text[i])
  BY <1>1, <1>7
<1>10. DOMAIN run = 0 .. n /\ run = [k \in 0 .. n |-> run[k]]
  BY <1>7
<1> DEFINE T == {k \in Nat : run[k] \in ScanStates}
<1>11. \A k \in 0 .. n : k \in T
  <2>1. 0 \in T
    BY <1>1, <1>9
  <2>2. \A i \in 1 .. n : i - 1 \in T => i \in T
    BY <1>1, <1>9, ScanType
  <2> HIDE DEF T
  <2> QED BY <1>1, <2>1, <2>2, BoundedInduction
<1>12. run \in [0 .. n -> ScanStates]
  BY <1>10, <1>11
<1> QED BY <1>8, <1>9, <1>12 DEF n, a

(* A word without quotes. *)
Word(w) == w \in Seq(Bytes) /\ w # << >> /\ \A i \in 1 .. Len(w) : w[i] # Quote /\ w[i] # Space

(* A run of the scanner, and where a word stands in its text.  A word      *)
(* takes the scanner from one state to another if every run that comes to  *)
(* the word in the one leaves it in the other.  It is readable if it is    *)
(* read whole, begun between two words.                                    *)
Scanned(scan, text, N) == \A i \in 1 .. N : scan[i] = Scan(scan[i - 1], text[i])
StandsAt(w, text, q) == \A j \in 1 .. Len(w) : text[q + j] = w[j]
Reaches(w, text, scan, N, q) ==
  N \in Nat /\ q \in Nat /\ q + Len(w) <= N /\ Scanned(scan, text, N) /\ StandsAt(w, text, q)
Passes(w, a, b, text, scan, N, q) ==
  Reaches(w, text, scan, N, q) /\ scan[q] = a => scan[q + Len(w)] = b
Over(w, a, b) == \A text, scan, N, q : Passes(w, a, b, text, scan, N, q)
Readable(w) ==
  w \in Seq(Bytes) /\ w # << >> /\ \A tokens : Over(w, At(tokens, << >>), At(tokens, w))

(* Words with blanks between them, each with what follows it. *)
Blanked(words) == [i \in DOMAIN words |-> <<Space>> \o words[i]]
Joined(words) == Tail(FlattenSeq(Blanked(words)))

(* str.join() with a blank. *)
LEMMA JoinedByBlanks == \A words : JoinedBy(Space, words) = Joined(words)
BY DEF JoinedBy, Joined, Blanked

(* Words that can all be read. *)
WordsOnly(words) == words \in Seq(Seq(Bytes)) /\ \A i \in 1 .. Len(words) : Readable(words[i])

(* The run, over a word. *)
LEMMA ScanReadsWord ==
  ASSUME NEW text, NEW scan, NEW N \in Nat, Scanned(scan, text, N),
         NEW w, Word(w), NEW q \in Nat, q + Len(w) <= N, StandsAt(w, text, q),
         NEW tokens, scan[q] = At(tokens, << >>)
  PROVE  scan[q + Len(w)] = At(tokens, w)
<1> DEFINE n == Len(w)
           T == {j \in Nat : scan[q + j] = At(tokens, SubSeq(w, 1, j))}
<1>1. w \in Seq(Bytes) /\ n \in Nat /\ \A j \in 1 .. n : w[j] # Quote /\ w[j] # Space
  BY DEF Word
<1>2. 0 \in T
  <2>1. SubSeq(w, 1, 0) = << >> /\ q + 0 = q
    BY <1>1
  <2> QED BY <2>1
<1>3. ASSUME NEW j \in 1 .. n, j - 1 \in T PROVE j \in T
  <2>1. q + j \in 1 .. N /\ (q + j) - 1 = q + (j - 1) /\ j \in Nat
    BY <1>1
  <2>2. scan[q + j] = Scan(scan[q + (j - 1)], w[j])
    BY <2>1 DEF Scanned, StandsAt
  <2>3. scan[q + (j - 1)] = At(tokens, SubSeq(w, 1, j - 1))
    BY <1>3
  <2>4. Append(SubSeq(w, 1, j - 1), w[j]) = SubSeq(w, 1, j)
    <3>1. SubSeq(w, 1, j - 1) \o <<w[j]>> = SubSeq(w, 1, j)
      BY <1>1, OneMoreOf
    <3>2. SubSeq(w, 1, j - 1) \in Seq(Bytes) /\ w[j] \in Bytes
      <4>1. w[j] \in Bytes
        BY <1>1, ElementOfSeq
      <4> QED BY <1>1, <4>1
    <3>3. Append(SubSeq(w, 1, j - 1), w[j]) = SubSeq(w, 1, j - 1) \o <<w[j]>>
      BY <3>2, AppendIsConcat
    <3> QED BY <3>1, <3>3
  <2>5. scan[q + j] = At(tokens, SubSeq(w, 1, j))
    <3> DEFINE current == SubSeq(w, 1, j - 1)
               c == w[j]
    <3>1. c # Quote /\ c # Space
      BY <1>1
    <3>2. scan[q + j] = Scan(At(tokens, current), c) /\ Append(current, c) = SubSeq(w, 1, j)
      BY <2>2, <2>3, <2>4
    <3> HIDE DEF current, c
    <3>3. Scan(At(tokens, current), c) = At(tokens, Append(current, c))
      BY <3>1, ScanWord
    <3> QED BY <3>2, <3>3
  <2> QED BY <2>1, <2>5
<1>4. n \in T
  <2> HIDE DEF T, n
  <2>1. \A j \in 0 .. n : j \in T
    BY <1>1, <1>2, <1>3, BoundedInduction
  <2> QED BY <1>1, <2>1
<1>5. SubSeq(w, 1, n) = w
  BY <1>1, SubSeqFull
<1> QED BY <1>4, <1>5

(* A word without quotes can be read. *)
LEMMA WordIsReadable == \A w : Word(w) => Readable(w)
<1> SUFFICES ASSUME NEW w, Word(w), NEW tokens, NEW text, NEW scan, NEW N, NEW q
             PROVE  Passes(w, At(tokens, << >>), At(tokens, w), text, scan, N, q)
  BY DEF Readable, Word, Over
<1>1. SUFFICES ASSUME Reaches(w, text, scan, N, q), scan[q] = At(tokens, << >>)
               PROVE  scan[q + Len(w)] = At(tokens, w)
  BY DEF Passes
<1>2. N \in Nat /\ q \in Nat /\ q + Len(w) <= N /\ Scanned(scan, text, N) /\ StandsAt(w, text, q)
  BY <1>1 DEF Reaches
<1> QED BY <1>1, <1>2, ScanReadsWord

(* Where the words of a joined text stand: word k behind starts[k - 1]     *)
(* characters, and a blank behind each but the last.                       *)
Placed(words, text, starts) ==
  /\ text \in Seq(Bytes) /\ starts \in [0 .. Len(words) -> Nat] /\ starts[0] = 0
  /\ \A k \in 1 .. Len(words) :
        /\ starts[k] = starts[k - 1] + (Len(words[k]) + 1)
        /\ starts[k] <= Len(text) + 1
        /\ \A j \in 1 .. Len(words[k]) : text[starts[k - 1] + j] = words[k][j]
        /\ k < Len(words) => text[starts[k]] = Space
  /\ starts[Len(words)] = Len(text) + 1

(* Where the words stand in the text they are joined to. *)
LEMMA JoinedPlaces ==
  ASSUME NEW words, WordsOnly(words), words # << >>
  PROVE  \E starts : Placed(words, Joined(words), starts)
<1> DEFINE n == Len(words)
           c == Blanked(words)
           o == <<Space>>
<1>1. n \in Nat /\ n >= 1 /\ DOMAIN words = 1 .. n /\ words \in Seq(Seq(Bytes))
  BY DEF WordsOnly
<1>2. o \in Seq(Bytes) /\ Len(o) = 1 /\ o[1] = Space
  BY DEF Space, Bytes
<1>3. \A k \in 1 .. n : words[k] \in Seq(Bytes) /\ Len(words[k]) \in Nat
  BY <1>1, ElementOfSeq
<1>0. Blanked(words) = [k \in 1 .. n |-> o \o words[k]]
  BY <1>1 DEF Blanked
<1> HIDE DEF o, n, c
<1>4. ASSUME NEW k \in 1 .. n
      PROVE  /\ o \o words[k] \in Seq(Bytes) /\ Len(o \o words[k]) = 1 + Len(words[k])
             /\ (o \o words[k])[1] = Space
             /\ \A j \in 1 .. Len(words[k]) : (o \o words[k])[1 + j] = words[k][j]
  <2> DEFINE w == words[k]
  <2>1. o \in Seq(Bytes) /\ w \in Seq(Bytes)
    BY <1>2, <1>3
  <2> HIDE DEF w
  <2>2. /\ o \o w \in Seq(Bytes) /\ Len(o \o w) = Len(o) + Len(w)
        /\ \A i \in 1 .. Len(o) : (o \o w)[i] = o[i]
        /\ \A i \in 1 .. Len(w) : (o \o w)[Len(o) + i] = w[i]
    BY <2>1, ConcatSays
  <2>3. (o \o w)[1] = Space
    <3>1. 1 \in 1 .. Len(o)
      BY <1>2
    <3> QED BY <1>2, <2>2, <3>1
  <2> QED BY <1>2, <2>2, <2>3 DEF w
<1>5. c \in Seq(Seq(Bytes)) /\ Len(c) = n /\ \A k \in 1 .. n : c[k] = o \o words[k]
  <2>1. c = [k \in 1 .. n |-> o \o words[k]]
    BY <1>0 DEF c
  <2>2. \A k \in 1 .. n : c[k] \in Seq(Bytes)
    BY <1>4, <2>1
  <2>0. n \in Nat
    BY <1>1
  <2> DEFINE F(k) == o \o words[k]
  <2>4. \A k \in 1 .. n : F(k) \in Seq(Bytes)
    BY <1>4
  <2>5. c = [k \in 1 .. n |-> F(k)]
    BY <2>1
  <2> HIDE DEF F
  <2>3. c \in Seq(Seq(Bytes)) /\ Len(c) = n
    BY <2>0, <2>4, <2>5
  <2> QED BY <2>1, <2>3 DEF F
<1>6. PICK tails \in Tails(Bytes, c) : TRUE
  BY <1>5, FlattenTails
<1>7. /\ tails \in [0 .. n -> Seq(Bytes)] /\ tails[0] = FlattenSeq(c) /\ tails[n] = << >>
      /\ \A k \in 1 .. n : tails[k - 1] = (o \o words[k]) \o tails[k]
  BY <1>5, <1>6 DEF Tails
<1>8. \A k \in 0 .. n :
         /\ tails[k] \in Seq(Bytes) /\ Len(tails[k]) <= Len(tails[0])
         /\ \A j \in 1 .. Len(tails[k]) :
               tails[0][(Len(tails[0]) - Len(tails[k])) + j] = tails[k][j]
  <2>1. c \in Seq(Seq(Bytes))
    BY <1>5
  <2>2. TailsOf(Bytes, Len(c), tails)
    BY <2>1, TailsPlaces
  <2> QED BY <1>5, <2>2 DEF TailsOf
<1> DEFINE starts == [k \in 0 .. n |-> Len(tails[0]) - Len(tails[k])]
           text == Joined(words)
<1>9. \A k \in 0 .. n : starts[k] \in Nat /\ Len(tails[k]) \in Nat
  BY <1>7, <1>8
<1>10. ASSUME NEW k \in 1 .. n
       PROVE  /\ Len(tails[k - 1]) = (1 + Len(words[k])) + Len(tails[k])
              /\ tails[k - 1][1] = Space
              /\ \A j \in 1 .. Len(words[k]) : tails[k - 1][1 + j] = words[k][j]
  <2> DEFINE w == o \o words[k]
             t == tails[k]
             m == Len(words[k])
  <2>0. k \in 0 .. n
    BY <1>1
  <2>1. w \in Seq(Bytes) /\ t \in Seq(Bytes)
    BY <1>4, <1>8, <2>0
  <2>2. tails[k - 1] = w \o t
    BY <1>7
  <2>3. Len(w) = 1 + m /\ m \in Nat /\ w[1] = Space
        /\ \A j \in 1 .. m : w[1 + j] = words[k][j]
    BY <1>3, <1>4
  <2> HIDE DEF w, t, m
  <2>4. /\ Len(w \o t) = Len(w) + Len(t)
        /\ \A i \in 1 .. Len(w) : (w \o t)[i] = w[i]
    BY <2>1, ConcatSays
  <2>5. 1 \in 1 .. Len(w) /\ \A j \in 1 .. m : 1 + j \in 1 .. Len(w)
    BY <2>3
  <2>6. Len(tails[k - 1]) = (1 + m) + Len(t)
    BY <2>2, <2>3, <2>4
  <2>7. tails[k - 1][1] = Space
    BY <2>2, <2>3, <2>4, <2>5
  <2>8. \A j \in 1 .. m : tails[k - 1][1 + j] = words[k][j]
    BY <2>2, <2>3, <2>4, <2>5
  <2> QED BY <2>6, <2>7, <2>8 DEF t, m
<1>11. tails[0] # << >> /\ Len(tails[0]) >= 1
  <2>1. 1 \in 1 .. n /\ 1 - 1 = 0 /\ 1 \in 0 .. n
    BY <1>1
  <2>2. Len(tails[0]) = (1 + Len(words[1])) + Len(tails[1])
    BY <1>10, <2>1
  <2> DEFINE d == Len(tails[0])
             m == Len(words[1])
             b == Len(tails[1])
  <2>4. m \in Nat /\ b \in Nat /\ d = (1 + m) + b
    BY <1>3, <1>9, <2>1, <2>2
  <2> HIDE DEF d, m, b
  <2>5. d >= 1
    BY <2>4
  <2>3. Len(tails[0]) >= 1
    BY <2>5 DEF d
  <2> QED BY <2>3
<1>12. /\ text \in Seq(Bytes) /\ Len(text) = Len(tails[0]) - 1
       /\ \A i \in 1 .. Len(text) : text[i] = tails[0][i + 1]
  <2>1. text = Tail(tails[0])
    BY <1>7 DEF Joined, c
  <2>0. 0 \in 0 .. n
    BY <1>1
  <2>2. tails[0] \in Seq(Bytes)
    BY <1>8, <2>0
  <2> HIDE DEF text
  <2> QED BY <1>11, <2>1, <2>2, HeadTailProperties
<1> HIDE DEF text
<1> DEFINE a == Len(tails[0])
<1>13. a \in Nat /\ a >= 1 /\ Len(text) = a - 1
  BY <1>1, <1>9, <1>11, <1>12
<1>14. ASSUME NEW k \in 1 .. n
       PROVE  /\ starts[k] = starts[k - 1] + (Len(words[k]) + 1)
              /\ starts[k] <= Len(text) + 1
              /\ \A j \in 1 .. Len(words[k]) : text[starts[k - 1] + j] = words[k][j]
              /\ k < n => text[starts[k]] = Space
  <2> DEFINE b == Len(tails[k])
             d == Len(tails[k - 1])
             m == Len(words[k])
  <2>1. k \in 0 .. n /\ k - 1 \in 0 .. n
    BY <1>1
  <2>2. starts[k] = a - b /\ starts[k - 1] = a - d
    BY <2>1
  <2>3. a \in Nat /\ b \in Nat /\ d \in Nat /\ m \in Nat /\ d <= a /\ d = (1 + m) + b
    BY <1>3, <1>8, <1>9, <1>10, <1>13, <2>1
  <2>4. \A j \in 1 .. d : tails[0][(a - d) + j] = tails[k - 1][j]
    BY <1>8, <2>1
  <2>5. \A j \in 1 .. m : tails[k - 1][1 + j] = words[k][j]
    BY <1>10
  <2>6. k < n => b >= 1 /\ tails[k][1] = Space
    <3>1. SUFFICES ASSUME k < n PROVE b >= 1 /\ tails[k][1] = Space
      OBVIOUS
    <3>2. k + 1 \in 1 .. n /\ (k + 1) - 1 = k /\ k + 1 \in 0 .. n
      BY <1>1, <3>1
    <3>3. tails[k][1] = Space /\ Len(tails[k]) = (1 + Len(words[k + 1])) + Len(tails[k + 1])
      BY <1>10, <3>2
    <3> DEFINE x == Len(words[k + 1])
               y == Len(tails[k + 1])
    <3>4. x \in Nat /\ y \in Nat /\ b = (1 + x) + y
      BY <1>3, <1>9, <3>2, <3>3
    <3> HIDE DEF x, y, b
    <3>5. b >= 1
      BY <3>4
    <3> QED BY <3>3, <3>5
  <2>7. \A j \in 1 .. b : tails[0][(a - b) + j] = tails[k][j]
    BY <1>8, <2>1
  <2> HIDE DEF b, d, m, a, starts
  <2>8. starts[k] = starts[k - 1] + (m + 1) /\ starts[k] <= Len(text) + 1
    BY <1>13, <2>2, <2>3
  <2>9. ASSUME NEW j \in 1 .. m PROVE text[starts[k - 1] + j] = words[k][j]
    <3>1. /\ (a - d) + j \in 1 .. Len(text) /\ ((a - d) + j) + 1 = (a - d) + (1 + j)
          /\ 1 + j \in 1 .. d
      BY <1>13, <2>3
    <3>2. text[(a - d) + j] = tails[0][((a - d) + j) + 1]
      BY <1>12, <3>1
    <3> QED BY <2>2, <2>4, <2>5, <3>1, <3>2
  <2>10. ASSUME k < n PROVE text[starts[k]] = Space
    <3>1. a - b \in 1 .. Len(text) /\ 1 \in 1 .. b
      BY <1>13, <2>3, <2>6, <2>10
    <3>2. text[a - b] = tails[0][(a - b) + 1]
      BY <1>12, <3>1
    <3> QED BY <2>2, <2>6, <2>7, <2>10, <3>1, <3>2
  <2> QED BY <2>8, <2>9, <2>10 DEF m
<1>15. starts \in [0 .. n -> Nat] /\ starts[0] = 0 /\ starts[n] = Len(text) + 1
  <2>1. starts \in [0 .. n -> Nat]
    BY <1>9
  <2>2. starts[0] = 0
    BY <1>1, <1>13
  <2>3. Len(tails[n]) = 0
    BY <1>7
  <2>4. starts[n] = a - 0
    <3>1. n \in 0 .. n
      BY <1>1
    <3>2. starts[n] = a - Len(tails[n])
      BY <3>1
    <3> QED BY <2>3, <3>2
  <2> HIDE DEF starts, a
  <2>5. starts[n] = Len(text) + 1
    BY <1>13, <2>4
  <2> QED BY <2>1, <2>2, <2>5
<1>16. Placed(words, text, starts)
  <2> HIDE DEF starts
  <2> QED BY <1>12, <1>14, <1>15 DEF Placed, n
<1> QED BY <1>16 DEF text

(* split_params() takes words with blanks between them apart into just     *)
(* those words (events.py:456).                                            *)
THEOREM JoinedReads ==
  ASSUME NEW words, WordsOnly(words), words # << >>
  PROVE  SplitParams(Joined(words)) = words
<1> DEFINE n == Len(words)
           text == Joined(words)
           N == Len(text)
<1>1. n \in Nat /\ n >= 1 /\ words \in Seq(Seq(Bytes))
  BY DEF WordsOnly
<1>2. PICK starts : Placed(words, text, starts)
  BY JoinedPlaces
<1>3. /\ text \in Seq(Bytes) /\ starts \in [0 .. n -> Nat] /\ starts[0] = 0
      /\ starts[n] = N + 1
      /\ \A k \in 1 .. n :
            /\ starts[k] = starts[k - 1] + (Len(words[k]) + 1) /\ starts[k] <= N + 1
            /\ \A j \in 1 .. Len(words[k]) : text[starts[k - 1] + j] = words[k][j]
            /\ k < n => text[starts[k]] = Space
  BY <1>2 DEF Placed
<1>4. PICK scan \in [0 .. N -> ScanStates] :
         /\ scan[0] = At(<< >>, << >>)
         /\ \A i \in 1 .. N : scan[i] = Scan(scan[i - 1], text[i])
         /\ SplitParams(text) = Ended(scan[N])
  BY <1>3, SplitRuns
<1>5. N \in Nat
  BY <1>3
<1> HIDE DEF N, text, n
<1>6. ASSUME NEW k \in 1 .. n
      PROVE  /\ words[k] \in Seq(Bytes) /\ words[k] # << >> /\ Readable(words[k])
             /\ Len(words[k]) \in Nat /\ starts[k - 1] \in Nat /\ starts[k] \in Nat
             /\ starts[k - 1] + Len(words[k]) <= N
             /\ starts[k - 1] + Len(words[k]) = starts[k] - 1
  <2>1. words[k] \in Seq(Bytes) /\ words[k] # << >> /\ Readable(words[k])
    BY DEF WordsOnly, Readable, n
  <2>2. Len(words[k]) \in Nat
    BY <2>1
  <2>3. starts[k - 1] \in Nat /\ starts[k] \in Nat
    BY <1>1, <1>3
  <2>4. starts[k] = starts[k - 1] + (Len(words[k]) + 1) /\ starts[k] <= N + 1
    BY <1>3
  <2> DEFINE q == starts[k - 1]
             e == starts[k]
             m == Len(words[k])
  <2>5. q \in Nat /\ e \in Nat /\ m \in Nat /\ e = q + (m + 1) /\ e <= N + 1
    BY <2>2, <2>3, <2>4
  <2> HIDE DEF q, e, m
  <2>6. q + m <= N /\ q + m = e - 1
    BY <1>5, <2>5
  <2> QED BY <2>1, <2>5, <2>6 DEF q, e, m
<1>7. ASSUME NEW k \in 1 .. n, NEW tokens, scan[starts[k - 1]] = At(tokens, << >>)
      PROVE  scan[starts[k] - 1] = At(tokens, words[k])
  <2> DEFINE w == words[k]
             q == starts[k - 1]
  <2>1. Readable(w) /\ q \in Nat /\ q + Len(w) <= N
    BY <1>6
  <2>6. q + Len(w) = starts[k] - 1
    BY <1>6
  <2>2. StandsAt(w, text, q)
    BY <1>3 DEF StandsAt
  <2>3. scan[q] = At(tokens, << >>)
    BY <1>7
  <2> HIDE DEF w, q
  <2>4. Scanned(scan, text, N)
    BY <1>4 DEF Scanned
  <2>5. scan[q + Len(w)] = At(tokens, w)
    <3>1. Reaches(w, text, scan, N, q)
      BY <1>5, <2>1, <2>2, <2>4 DEF Reaches
    <3>2. Passes(w, At(tokens, << >>), At(tokens, w), text, scan, N, q)
      BY <2>1 DEF Readable, Over
    <3> QED BY <2>3, <3>1, <3>2 DEF Passes
  <2>7. scan[starts[k] - 1] = At(tokens, w)
    BY <2>5, <2>6
  <2> QED BY <2>7 DEF w
<1> DEFINE T == {k \in Nat : k < n => scan[starts[k]] = At(SubSeq(words, 1, k), << >>)}
<1>8. 0 \in T
  <2>1. SubSeq(words, 1, 0) = << >>
    BY <1>1
  <2> QED BY <1>3, <1>4, <2>1
<1>9. ASSUME NEW k \in 1 .. n, k - 1 \in T PROVE k \in T
  <2>1. SUFFICES ASSUME k < n PROVE scan[starts[k]] = At(SubSeq(words, 1, k), << >>)
    BY <1>1
  <2> DEFINE tokens == SubSeq(words, 1, k - 1)
             q == starts[k]
  <2>2. scan[starts[k - 1]] = At(tokens, << >>)
    BY <1>1, <1>9, <2>1
  <2>3. tokens \in Seq(Seq(Bytes)) /\ tokens \o <<words[k]>> = SubSeq(words, 1, k)
    BY <1>1, OneMoreOf DEF n
  <2> HIDE DEF tokens
  <2>4. scan[q - 1] = At(tokens, words[k])
    BY <1>7, <2>2
  <2>5. q \in 1 .. N /\ text[q] = Space
    <3>1. k + 1 \in 1 .. n /\ (k + 1) - 1 = k
      BY <1>1, <2>1
    <3>2. q - 1 = starts[k - 1] + Len(words[k]) /\ starts[k - 1] \in Nat /\ Len(words[k]) \in Nat
      BY <1>6
    <3>3. q + Len(words[k + 1]) <= N /\ Len(words[k + 1]) \in Nat /\ q \in Nat
      BY <1>6, <3>1
    <3> DEFINE x == starts[k - 1]
               y == Len(words[k])
               z == Len(words[k + 1])
    <3> HIDE DEF q, x, y, z
    <3>4. q \in 1 .. N
      <4>1. q - 1 = x + y /\ x \in Nat /\ y \in Nat /\ q + z <= N /\ z \in Nat /\ q \in Nat
        BY <3>2, <3>3 DEF x, y, z
      <4> QED BY <1>5, <4>1
    <3>5. text[q] = Space
      BY <1>3, <2>1 DEF q
    <3> QED BY <3>4, <3>5
  <2> HIDE DEF q
  <2>6. scan[q] = Scan(scan[q - 1], text[q])
    BY <1>4, <2>5
  <2>7. words[k] # << >> /\ words[k] \in Seq(Bytes)
    BY <1>6
  <2>8. Scan(At(tokens, words[k]), Space) = At(Append(tokens, words[k]), << >>)
    BY <2>7, ScanBlank
  <2>9. Append(tokens, words[k]) = tokens \o <<words[k]>>
    BY <2>3, <2>7, AppendIsConcat
  <2> QED BY <2>3, <2>4, <2>5, <2>6, <2>8, <2>9 DEF q
<1>10. n - 1 \in T /\ n \in 1 .. n
  <2> HIDE DEF T
  <2>1. \A k \in 0 .. n : k \in T
    BY <1>1, <1>8, <1>9, BoundedInduction
  <2> QED BY <1>1, <2>1
<1> DEFINE tokens == SubSeq(words, 1, n - 1)
<1>11. scan[N] = At(tokens, words[n])
  <2>1. scan[starts[n - 1]] = At(tokens, << >>)
    BY <1>1, <1>10
  <2> HIDE DEF tokens
  <2>2. scan[starts[n] - 1] = At(tokens, words[n])
    BY <1>7, <1>10, <2>1
  <2> QED BY <1>3, <1>5, <2>2
<1>12. words[n] # << >> /\ words[n] \in Seq(Bytes)
  BY <1>6, <1>10
<1>13. tokens \in Seq(Seq(Bytes)) /\ tokens \o <<words[n]>> = words
  <2>1. SubSeq(words, 1, n) = words
    BY <1>1, SubSeqFull DEF n
  <2>2. SubSeq(words, 1, n - 1) \o <<words[n]>> = SubSeq(words, 1, n)
    BY <1>1, <1>10, OneMoreOf DEF n
  <2> QED BY <1>1, <2>1, <2>2
<1> HIDE DEF tokens
<1>14. Ended(scan[N]) = Append(tokens, words[n])
  BY <1>11, <1>12 DEF Ended, At
<1>15. Append(tokens, words[n]) = tokens \o <<words[n]>>
  BY <1>12, <1>13, AppendIsConcat
<1> QED BY <1>4, <1>13, <1>14, <1>15 DEF text

(* The least of a set. *)
LEMMA MinSays ==
  ASSUME NEW S, NEW m \in S, \A y \in S : m <= y, S \subseteq Nat
  PROVE  Min(S) = m
<1> DEFINE Least(x) == \A y \in S : x <= y
<1>1. Min(S) = CHOOSE x \in S : Least(x)
  BY DEF Min
<1>2. Least(m)
  OBVIOUS
<1>3. Min(S) \in S /\ Least(Min(S))
  <2> HIDE DEF Least
  <2> QED BY <1>1, <1>2
<1>4. Min(S) <= m /\ m <= Min(S)
  BY <1>3
<1>5. Min(S) \in Nat /\ m \in Nat
  BY <1>3
<1> QED BY <1>4, <1>5

(* And the greatest. *)
LEMMA MaxSays ==
  ASSUME NEW S, NEW m \in S, \A y \in S : m >= y, S \subseteq Nat
  PROVE  Max(S) = m
<1> DEFINE Most(x) == \A y \in S : x >= y
<1>1. Max(S) = CHOOSE x \in S : Most(x)
  BY DEF Max
<1>2. Most(m)
  OBVIOUS
<1>3. Max(S) \in S /\ Most(Max(S))
  <2> HIDE DEF Most
  <2> QED BY <1>1, <1>2
<1>4. Max(S) >= m /\ m >= Max(S)
  BY <1>3
<1>5. Max(S) \in Nat /\ m \in Nat
  BY <1>3
<1> QED BY <1>4, <1>5

(* What stands before a character and what behind it, taken apart. *)
LEMMA TakenApart ==
  ASSUME NEW c \in Bytes, NEW key \in Seq(Bytes), \A i \in 1 .. Len(key) : key[i] # c,
         NEW value \in Seq(Bytes)
  PROVE  /\ key \o <<c>> \o value \in Seq(Bytes)
         /\ Len(key \o <<c>> \o value) = Len(key) + 1 + Len(value)
         /\ \A i \in 1 .. Len(key) : (key \o <<c>> \o value)[i] = key[i]
         /\ (key \o <<c>> \o value)[Len(key) + 1] = c
         /\ \A i \in 1 .. Len(value) : (key \o <<c>> \o value)[(Len(key) + 1) + i] = value[i]
         /\ Contains(key \o <<c>> \o value, c)
         /\ Before(key \o <<c>> \o value, c) = key
         /\ After(key \o <<c>> \o value, c) = value
<1> DEFINE e == <<c>>
           h == key \o e
           w == h \o value
           n == Len(key)
<1>1. e \in Seq(Bytes) /\ Len(e) = 1 /\ e[1] = c
  OBVIOUS
<1>2. n \in Nat /\ Len(value) \in Nat
  OBVIOUS
<1>0. e \in Seq(Bytes) /\ key \in Seq(Bytes) /\ value \in Seq(Bytes)
  BY <1>1
<1> HIDE DEF e
<1>3. /\ h \in Seq(Bytes) /\ Len(h) = n + Len(e)
      /\ \A i \in 1 .. n : h[i] = key[i]
      /\ \A i \in 1 .. Len(e) : h[n + i] = e[i]
  BY <1>0, ConcatSays
<1>4. SubSeq(h, 1, n) = key
  BY <1>0, FrontOfConcat
<1> HIDE DEF h, n
<1>5. Len(h) = n + 1 /\ h[n + 1] = c
  <2>1. 1 \in 1 .. Len(e)
    BY <1>1
  <2> QED BY <1>1, <1>3, <2>1
<1>6. h \in Seq(Bytes) /\ value \in Seq(Bytes)
  BY <1>3
<1>7. /\ w \in Seq(Bytes) /\ Len(w) = Len(h) + Len(value)
      /\ \A i \in 1 .. Len(h) : w[i] = h[i]
      /\ \A i \in 1 .. Len(value) : w[Len(h) + i] = value[i]
  BY <1>6, ConcatSays
<1>8. From(w, Len(h) + 1) = value
  <2> DEFINE one == 1
  <2>1. one \in Nat \ {0} /\ one <= Len(value) + 1
    BY <1>2
  <2> HIDE DEF one
  <2>2. From(h \o value, Len(h) + one) = From(value, one)
    BY <1>6, <2>1, FromConcat
  <2>3. From(value, 1) = value
    BY <1>6, SubSeqFull DEF From
  <2> QED BY <2>2, <2>3 DEF one
<1> HIDE DEF w
<1>9. /\ Len(w) = (n + 1) + Len(value) /\ \A i \in 1 .. n : w[i] = key[i]
      /\ w[n + 1] = c
      /\ \A i \in 1 .. Len(value) : w[(n + 1) + i] = value[i]
  <2>1. \A i \in 1 .. n + 1 : w[i] = h[i]
    BY <1>5, <1>7
  <2>2. n + 1 \in 1 .. n + 1 /\ \A i \in 1 .. n : i \in 1 .. n + 1
    BY <1>2
  <2> QED BY <1>3, <1>5, <1>7, <2>1, <2>2
<1>10. n + 1 \in Places(w, c)
  <2>1. n + 1 \in 1 .. Len(w)
    BY <1>2, <1>9
  <2> QED BY <1>7, <1>9, <2>1 DEF Places
<1>11. Min(Places(w, c) \cup {Len(w) + 1}) = n + 1
  <2> DEFINE P == Places(w, c) \cup {Len(w) + 1}
  <2>1. Len(w) \in Nat
    BY <1>7
  <2>2. ASSUME NEW y \in Places(w, c) PROVE y \in Nat /\ n + 1 <= y
    <3>1. y \in 1 .. Len(w) /\ w[y] = c
      BY <1>7 DEF Places
    <3>2. y \notin 1 .. n
      BY <1>9, <3>1 DEF n
    <3> QED BY <1>2, <2>1, <3>1, <3>2
  <2>3. n + 1 \in P /\ (\A y \in P : n + 1 <= y) /\ P \subseteq Nat
    BY <1>2, <1>9, <1>10, <2>1, <2>2
  <2> HIDE DEF P
  <2>4. Min(P) = n + 1
    BY <2>3, MinSays
  <2> QED BY <2>4 DEF P
<1>12. Before(w, c) = key
  <2>1. (n + 1) - 1 = n
    BY <1>2
  <2>2. Before(w, c) = SubSeq(w, 1, n)
    BY <1>11, <2>1 DEF Before
  <2> DEFINE u == SubSeq(w, 1, n)
  <2>3. u \in Seq(Bytes) /\ Len(u) = n /\ \A i \in 1 .. n : u[i] = w[i]
    <3>1. n <= Len(w) /\ Len(w) \in Nat
      BY <1>2, <1>7, <1>9
    <3> QED BY <1>2, <1>7, <3>1
  <2> HIDE DEF u
  <2>4. u = key
    BY <1>9, <2>3, SeqEqual DEF n
  <2> QED BY <2>2, <2>4 DEF u
<1>13. After(w, c) = value
  <2>1. n + 2 = Len(h) + 1
    BY <1>2, <1>5
  <2> QED BY <1>8, <1>12, <2>1 DEF After, n
<1>14. Contains(w, c)
  BY <1>7, <1>10 DEF Contains, Places
<1> QED BY <1>7, <1>9, <1>12, <1>13, <1>14 DEF w, h, e, n

(* Parameters as they may be printed: no blanks and quotes in them. *)
Unquotable(text) ==
  text \in Seq(Bytes) /\ \A i \in 1 .. Len(text) : text[i] # Quote /\ text[i] # Space
Key(text) == Unquotable(text) /\ text # << >> /\ \A i \in 1 .. Len(text) : text[i] # Equals
Params(fields) ==
  /\ Len(fields) \in Nat /\ DOMAIN fields = 1 .. Len(fields) /\ Len(fields) >= 1
  /\ \A i \in 1 .. Len(fields) :
        /\ fields[i] = <<fields[i][1], fields[i][2]>>
        /\ Key(fields[i][1]) /\ Unquotable(fields[i][2])
  /\ \A i, j \in 1 .. Len(fields) : fields[i][1] = fields[j][1] => i = j
WordOf(f) == f[1] \o <<Equals>> \o f[2]
WordsOf(fields) == [i \in DOMAIN fields |-> WordOf(fields[i])]
FirstFields(fields, k) == {fields[i] : i \in 1 .. k}

(* name=value is a word, and is taken apart at the =. *)
LEMMA WordSays ==
  ASSUME NEW f, Key(f[1]), Unquotable(f[2])
  PROVE  /\ Word(WordOf(f)) /\ Contains(WordOf(f), Equals)
         /\ Before(WordOf(f), Equals) = f[1] /\ f[1] # << >>
         /\ After(WordOf(f), Equals) = f[2] /\ Bare(f[2]) = f[2]
<1> DEFINE key == f[1]
           value == f[2]
           w == WordOf(f)
           m == Len(key)
           n == Len(value)
<1>1. /\ key \in Seq(Bytes) /\ key # << >>
      /\ \A i \in 1 .. m : key[i] # Quote /\ key[i] # Space /\ key[i] # Equals
  BY DEF Key, Unquotable
<1>2. value \in Seq(Bytes) /\ \A i \in 1 .. n : value[i] # Quote /\ value[i] # Space
  BY DEF Unquotable
<1>3. w = key \o <<Equals>> \o value
  BY DEF WordOf
<1>4. m \in Nat /\ n \in Nat
  BY <1>1, <1>2
<1> HIDE DEF w, key, value
<1>5. key \in Seq(Bytes) /\ (\A i \in 1 .. Len(key) : key[i] # Equals) /\ value \in Seq(Bytes)
      /\ Equals \in Bytes
  BY <1>1, <1>2 DEF Equals, Bytes
<1>6. /\ key \o <<Equals>> \o value \in Seq(Bytes)
      /\ Len(key \o <<Equals>> \o value) = Len(key) + 1 + Len(value)
      /\ \A i \in 1 .. Len(key) : (key \o <<Equals>> \o value)[i] = key[i]
      /\ (key \o <<Equals>> \o value)[Len(key) + 1] = Equals
      /\ \A i \in 1 .. Len(value) : (key \o <<Equals>> \o value)[(Len(key) + 1) + i] = value[i]
      /\ Contains(key \o <<Equals>> \o value, Equals)
      /\ Before(key \o <<Equals>> \o value, Equals) = key
      /\ After(key \o <<Equals>> \o value, Equals) = value
  BY <1>5, TakenApart
<1>7. /\ w \in Seq(Bytes) /\ Len(w) = m + 1 + n
      /\ \A i \in 1 .. m : w[i] = key[i]
      /\ w[m + 1] = Equals
      /\ \A i \in 1 .. n : w[(m + 1) + i] = value[i]
      /\ Contains(w, Equals) /\ Before(w, Equals) = key /\ After(w, Equals) = value
  BY <1>3, <1>6
<1> HIDE DEF m, n
<1>8. ASSUME NEW i \in 1 .. Len(w) PROVE w[i] # Quote /\ w[i] # Space
  <2>1. CASE i \in 1 .. m
    BY <1>1, <1>7, <2>1
  <2>2. CASE i = m + 1
    BY <1>7, <2>2 DEF Equals, Quote, Space
  <2>3. CASE i \notin 1 .. m /\ i # m + 1
    <3>1. i - (m + 1) \in 1 .. n /\ (m + 1) + (i - (m + 1)) = i
      BY <1>4, <1>7, <2>3
    <3> DEFINE j == i - (m + 1)
    <3>2. j \in 1 .. n /\ (m + 1) + j = i
      BY <3>1
    <3> HIDE DEF j
    <3>3. w[i] = value[j]
      BY <1>7, <3>2
    <3> QED BY <1>2, <3>2, <3>3
  <2> QED BY <2>1, <2>2, <2>3
<1>9. w # << >>
  <2>1. Len(w) # 0
    BY <1>4, <1>7
  <2> QED BY <2>1
<1>10. Word(w)
  BY <1>7, <1>8, <1>9 DEF Word
<1>11. Bare(value) = value
  <2>1. n >= 2 => Head(value) # Quote
    <3>1. SUFFICES ASSUME n >= 2 PROVE Head(value) # Quote
      OBVIOUS
    <3>2. 1 \in 1 .. n
      BY <1>4, <3>1
    <3>3. value[1] # Quote
      BY <1>2, <3>2
    <3>4. value # << >>
      BY <3>1 DEF n
    <3> QED BY <1>2, <3>3, <3>4
  <2> QED BY <2>1 DEF Bare, n
<1> QED BY <1>1, <1>7, <1>10, <1>11 DEF w, key, value

(* Words joined are octets. *)
LEMMA JoinedIsText ==
  ASSUME NEW words, WordsOnly(words), words # << >>
  PROVE  Joined(words) \in Seq(Bytes)
<1>1. PICK starts : Placed(words, Joined(words), starts)
  BY JoinedPlaces
<1> QED BY <1>1 DEF Placed

(* A word that tells a field, and words that tell fields. *)
Tells(word, f) ==
  /\ Readable(word) /\ Contains(word, Equals) /\ Before(word, Equals) = f[1] /\ f[1] # << >>
  /\ Bare(After(word, Equals)) = f[2] /\ f = <<f[1], f[2]>>
Told(words, fields) ==
  /\ Len(fields) \in Nat /\ Len(fields) >= 1
  /\ words \in Seq(Seq(Bytes)) /\ Len(words) = Len(fields)
  /\ \A i \in 1 .. Len(fields) : Tells(words[i], fields[i])
  /\ \A i, j \in 1 .. Len(fields) : fields[i][1] = fields[j][1] => i = j

(* What is put into the dictionary of the first fields is their next.      *)
LEMMA PutNext ==
  ASSUME NEW fields, NEW k \in Nat \ {0}, fields[k] = <<fields[k][1], fields[k][2]>>,
         \A i \in 1 .. k : fields[i][1] = fields[k][1] => i = k
  PROVE  Put(FirstFields(fields, k - 1), fields[k][1], fields[k][2]) = FirstFields(fields, k)
<1>1. \A i \in 1 .. k - 1 : i \in 1 .. k /\ i # k
  OBVIOUS
<1>2. \A p \in FirstFields(fields, k - 1) : p[1] # fields[k][1]
  BY <1>1 DEF FirstFields
<1>3. 1 .. k = 1 .. k - 1 \cup {k}
  OBVIOUS
<1>4. FirstFields(fields, k) = FirstFields(fields, k - 1) \cup {fields[k]}
  BY <1>3 DEF FirstFields
<1> QED BY <1>2, <1>4 DEF Put

(* A parameter line is made of words. *)
LEMMA FieldsAreWords ==
  ASSUME NEW fields, Params(fields)
  PROVE  Told(WordsOf(fields), fields)
<1> DEFINE n == Len(fields)
           words == WordsOf(fields)
<1>1. n \in Nat /\ n >= 1 /\ DOMAIN fields = 1 .. n
  BY DEF Params
<1>2. ASSUME NEW i \in 1 .. n PROVE words[i] \in Seq(Bytes) /\ Tells(words[i], fields[i])
  <2>1. words[i] = WordOf(fields[i])
    BY <1>1 DEF WordsOf
  <2> DEFINE f == fields[i]
  <2>2. Key(f[1]) /\ Unquotable(f[2]) /\ f = <<f[1], f[2]>>
    BY DEF Params
  <2> HIDE DEF f
  <2>3. /\ Word(WordOf(f)) /\ Contains(WordOf(f), Equals)
        /\ Before(WordOf(f), Equals) = f[1] /\ f[1] # << >>
        /\ After(WordOf(f), Equals) = f[2] /\ Bare(f[2]) = f[2]
    BY <2>2, WordSays
  <2>4. Readable(WordOf(f))
    BY <2>3, WordIsReadable
  <2>5. Tells(WordOf(f), f)
    BY <2>2, <2>3, <2>4 DEF Tells
  <2> QED BY <2>1, <2>3, <2>5 DEF Word, f
<1>3. words = [i \in 1 .. n |-> words[i]]
  BY <1>1 DEF WordsOf
<1>6. \A i, j \in 1 .. n : fields[i][1] = fields[j][1] => i = j
  BY DEF Params
<1> HIDE DEF words, n
<1>4. words \in Seq(Seq(Bytes)) /\ Len(words) = n
  BY <1>1, <1>2, <1>3
<1> QED BY <1>1, <1>2, <1>4, <1>6 DEF Told, words, n

(* parse_params() finds the fields its words tell. *)
LEMMA ToldRead ==
  ASSUME NEW words, NEW fields, Told(words, fields)
  PROVE  /\ ParseParams(Joined(words)) = FirstFields(fields, Len(fields))
         /\ Joined(words) \in Seq(Bytes)
<1> DEFINE n == Len(fields)
           text == Joined(words)
           Next_(pairs, t) ==
             IF ~Contains(t, Equals) \/ Before(t, Equals) = << >> THEN pairs
             ELSE Put(pairs, Before(t, Equals), Bare(After(t, Equals)))
           Unfolds(f) == f = [i \in 0 .. n |-> IF i = 0 THEN {} ELSE Next_(f[i - 1], words[i])]
           run == CHOOSE f : Unfolds(f)
           g == [i \in 0 .. n |-> FirstFields(fields, i)]
<1>1. n \in Nat /\ n >= 1
  BY DEF Told
<1>2. ASSUME NEW i \in 1 .. n
      PROVE  \A pairs : Next_(pairs, words[i]) = Put(pairs, fields[i][1], fields[i][2])
  <2>1. Tells(words[i], fields[i])
    BY DEF Told
  <2> QED BY <2>1 DEF Tells
<1>3. Len(words) = n /\ words # << >> /\ WordsOnly(words)
  <2>1. words \in Seq(Seq(Bytes)) /\ Len(words) = n
    BY DEF Told
  <2>2. \A i \in 1 .. n : Readable(words[i])
    BY DEF Told, Tells
  <2> HIDE DEF n
  <2> QED BY <1>1, <2>1, <2>2 DEF WordsOnly
<1>4. SplitParams(text) = words
  <2> QED BY <1>3, JoinedReads
<1>5. ParseParams(text) = run[n]
  <2> HIDE DEF text, n
  <2> QED BY <1>3, <1>4 DEF ParseParams
<1> HIDE DEF Next_, n
<1>6. \A k \in 1 .. n : FirstFields(fields, k) = Next_(FirstFields(fields, k - 1), words[k])
  <2> TAKE k \in 1 .. n
  <2>1. k \in Nat \ {0} /\ \A i \in 1 .. k : i \in 1 .. n
    BY <1>1
  <2>2. fields[k] = <<fields[k][1], fields[k][2]>>
    BY DEF Told, Tells, n
  <2>3. \A i \in 1 .. k : fields[i][1] = fields[k][1] => i = k
    BY <2>1 DEF Told, n
  <2>4. Put(FirstFields(fields, k - 1), fields[k][1], fields[k][2]) = FirstFields(fields, k)
    BY <2>1, <2>2, <2>3, PutNext
  <2> QED BY <1>2, <2>4
<1>7. FirstFields(fields, 0) = {}
  BY DEF FirstFields
<1>8. Unfolds(g)
  <2>1. \A k \in 0 .. n : g[k] = IF k = 0 THEN {} ELSE Next_(g[k - 1], words[k])
    <3> TAKE k \in 0 .. n
    <3>1. CASE k = 0
      BY <1>1, <1>7, <3>1
    <3>2. CASE k # 0
      <4>1. k \in 1 .. n /\ k - 1 \in 0 .. n
        BY <1>1, <3>2
      <4> QED BY <1>6, <3>2, <4>1
    <3> QED BY <3>1, <3>2
  <2>2. g = [k \in 0 .. n |-> g[k]]
    OBVIOUS
  <2> HIDE DEF g
  <2> QED BY <2>1, <2>2
<1>9. Unfolds(run)
  <2> HIDE DEF Unfolds
  <2> QED BY <1>8
<1> HIDE DEF run
<1>10. run[0] = {} /\ \A k \in 1 .. n : run[k] = Next_(run[k - 1], words[k])
  <2>1. \A k \in 0 .. n : run[k] = IF k = 0 THEN {} ELSE Next_(run[k - 1], words[k])
    BY <1>9
  <2> QED BY <1>1, <2>1
<1> DEFINE T == {k \in Nat : run[k] = FirstFields(fields, k)}
<1>11. n \in T
  <2>1. 0 \in T
    BY <1>7, <1>10
  <2>2. ASSUME NEW k \in 1 .. n, k - 1 \in T PROVE k \in T
    BY <1>1, <1>6, <1>10, <2>2
  <2> HIDE DEF T
  <2>3. \A k \in 0 .. n : k \in T
    BY <1>1, <2>1, <2>2, BoundedInduction
  <2> QED BY <1>1, <2>3
<1>12. text \in Seq(Bytes)
  BY <1>3, JoinedIsText
<1> QED BY <1>5, <1>11, <1>12 DEF n

(* parse_params() finds in a line of parameters the fields it was made of, *)
(* each whole, and no others (events.py:501).                              *)
THEOREM ParamsRead ==
  ASSUME NEW fields, Params(fields)
  PROVE  ParseParams(Joined(WordsOf(fields))) = FirstFields(fields, Len(fields))
BY FieldsAreWords, ToldRead

-----------------------------------------------------------------------------
(* Parameters, as they are sent *)

(* A run of a selection from four. *)
KeepsOn(kept, p, keep) ==
  /\ kept[0] = << >>
  /\ \A i \in 1 .. 4 : kept[i] = IF i \in keep THEN Append(kept[i - 1], p[i]) ELSE kept[i - 1]

(* Kept, as a run over four. *)
LEMMA KeptOfFour ==
  ASSUME NEW p, Len(p) = 4, NEW keep
  PROVE  \E kept : KeepsOn(kept, p, keep) /\ Kept(p, keep) = kept[4]
<1> DEFINE More(k, i) == IF i \in keep THEN Append(k, p[i]) ELSE k
           Unfolds(f) == f = [i \in 0 .. 4 |->
                                IF i = 0 THEN << >>
                                ELSE IF i \in keep THEN Append(f[i - 1], p[i]) ELSE f[i - 1]]
           run == CHOOSE f : Unfolds(f)
           a == More(<< >>, 1)
           b == More(a, 2)
           c == More(b, 3)
           d == More(c, 4)
           g == [i \in 0 .. 4 |-> IF i = 0 THEN << >> ELSE IF i = 1 THEN a
                                  ELSE IF i = 2 THEN b ELSE IF i = 3 THEN c ELSE d]
<1>1. Kept(p, keep) = run[4]
  BY DEF Kept
<1>2. Unfolds(g)
  <2>1. 0 .. 4 = {0, 1, 2, 3, 4} /\ 1 - 1 = 0 /\ 2 - 1 = 1 /\ 3 - 1 = 2 /\ 4 - 1 = 3
    OBVIOUS
  <2>2. g[0] = << >> /\ g[1] = a /\ g[2] = b /\ g[3] = c /\ g[4] = d
    OBVIOUS
  <2>3. g = [i \in 0 .. 4 |-> g[i]]
    OBVIOUS
  <2>4. /\ a = More(g[0], 1) /\ b = More(g[1], 2) /\ c = More(g[2], 3) /\ d = More(g[3], 4)
    BY <2>2
  <2> HIDE DEF g, a, b, c, d
  <2>5. \A i \in 0 .. 4 : g[i] = IF i = 0 THEN << >> ELSE More(g[i - 1], i)
    <3> HIDE DEF More
    <3> QED BY <2>1, <2>2, <2>4
  <2>6. \A i \in 0 .. 4 : g[i] = IF i = 0 THEN << >>
                                 ELSE IF i \in keep THEN Append(g[i - 1], p[i]) ELSE g[i - 1]
    BY <2>5
  <2> QED BY <2>3, <2>6
<1>3. Unfolds(run)
  <2> HIDE DEF Unfolds
  <2> QED BY <1>2
<1> HIDE DEF run, g, a, b, c, d
<1>4. KeepsOn(run, p, keep)
  <2>1. \A i \in 0 .. 4 : run[i] = IF i = 0 THEN << >>
                                   ELSE IF i \in keep THEN Append(run[i - 1], p[i])
                                   ELSE run[i - 1]
    BY <1>3
  <2>2. \A i \in 1 .. 4 : i \in 0 .. 4 /\ i # 0
    OBVIOUS
  <2> QED BY <2>1, <2>2 DEF KeepsOn
<1> QED BY <1>1, <1>4

(* A sequence known by its elements is Append. *)
LEMMA AppendIs ==
  ASSUME NEW S, NEW s \in Seq(S), NEW e \in S, NEW t \in Seq(S), Len(t) = Len(s) + 1,
         \A i \in 1 .. Len(s) : t[i] = s[i], t[Len(s) + 1] = e
  PROVE  Append(s, e) = t
<1> DEFINE u == Append(s, e)
<1>1. /\ u \in Seq(S) /\ Len(u) = Len(s) + 1
      /\ \A i \in 1 .. Len(s) : u[i] = s[i]
      /\ u[Len(s) + 1] = e
  BY AppendProperties
<1> HIDE DEF u
<1>2. Len(s) \in Nat
  OBVIOUS
<1>3. \A i \in 1 .. Len(u) : u[i] = t[i]
  BY <1>1, <1>2
<1>4. u = t
  BY <1>1, <1>3, SeqEqual
<1> QED BY <1>4 DEF u

(* What is kept of four. *)
LEMMA KeptCases ==
  ASSUME NEW a, NEW b, NEW c, NEW d, NEW keep, 1 \in keep, 2 \in keep
  PROVE  /\ 3 \in keep /\ 4 \in keep => Kept(<<a, b, c, d>>, keep) = <<a, b, c, d>>
         /\ 3 \in keep /\ 4 \notin keep => Kept(<<a, b, c, d>>, keep) = <<a, b, c>>
         /\ 3 \notin keep /\ 4 \in keep => Kept(<<a, b, c, d>>, keep) = <<a, b, d>>
<1> DEFINE p == <<a, b, c, d>>
<1>1. Len(p) = 4 /\ p[1] = a /\ p[2] = b /\ p[3] = c /\ p[4] = d
  OBVIOUS
<1> HIDE DEF p
<1>2. PICK kept : KeepsOn(kept, p, keep) /\ Kept(p, keep) = kept[4]
  BY <1>1, KeptOfFour
<1>3. 1 - 1 = 0 /\ 2 - 1 = 1 /\ 3 - 1 = 2 /\ 4 - 1 = 3
      /\ 1 \in 1 .. 4 /\ 2 \in 1 .. 4 /\ 3 \in 1 .. 4 /\ 4 \in 1 .. 4
  OBVIOUS
<1>4. /\ kept[0] = << >> /\ kept[1] = Append(kept[0], a) /\ kept[2] = Append(kept[1], b)
      /\ kept[3] = IF 3 \in keep THEN Append(kept[2], c) ELSE kept[2]
      /\ kept[4] = IF 4 \in keep THEN Append(kept[3], d) ELSE kept[3]
  BY <1>1, <1>2, <1>3 DEF KeepsOn
<1>5. /\ Append(<< >>, a) = <<a>> /\ Append(<<a>>, b) = <<a, b>>
      /\ Append(<<a, b>>, c) = <<a, b, c>>
      /\ Append(<<a, b>>, d) = <<a, b, d>> /\ Append(<<a, b, c>>, d) = <<a, b, c, d>>
  <2>1. Append(<< >>, a) = <<a>>
    OBVIOUS
  <2> DEFINE S == {a, b, c, d}
             s1 == <<a>>
             s2 == <<a, b>>
             s3 == <<a, b, c>>
             s4 == <<a, b, c, d>>
  <2>2. Append(s1, b) = s2
    <3>1. s1 \in Seq(S) /\ s2 \in Seq(S) /\ b \in S /\ Len(s2) = Len(s1) + 1
          /\ (\A i \in 1 .. Len(s1) : s2[i] = s1[i]) /\ s2[Len(s1) + 1] = b
      OBVIOUS
    <3> HIDE DEF S, s1, s2
    <3> QED BY <3>1, AppendIs
  <2>3. \A e \in {c, d} : Append(s2, e) = <<a, b, e>>
    <3> TAKE e \in {c, d}
    <3> DEFINE t == <<a, b, e>>
    <3>1. s2 \in Seq(S) /\ t \in Seq(S) /\ e \in S /\ Len(t) = Len(s2) + 1
          /\ (\A i \in 1 .. Len(s2) : t[i] = s2[i]) /\ t[Len(s2) + 1] = e
      OBVIOUS
    <3> HIDE DEF S, s2, t
    <3>2. Append(s2, e) = t
      BY <3>1, AppendIs
    <3> QED BY <3>2 DEF t
  <2>4. Append(s3, d) = s4
    <3>1. s3 \in Seq(S) /\ s4 \in Seq(S) /\ d \in S /\ Len(s4) = Len(s3) + 1
          /\ (\A i \in 1 .. Len(s3) : s4[i] = s3[i]) /\ s4[Len(s3) + 1] = d
      OBVIOUS
    <3> HIDE DEF S, s3, s4
    <3> QED BY <3>1, AppendIs
  <2> QED BY <2>1, <2>2, <2>3, <2>4
<1>6. kept[2] = <<a, b>>
  BY <1>4, <1>5
<1> QED BY <1>2, <1>4, <1>5, <1>6 DEF p

(* A key of one letter has nothing to take off. *)
LEMMA BaredLetter ==
  ASSUME NEW c \in Bytes, c # Underscore
  PROVE  Bared(<<c>>) = <<c>>
<1> DEFINE name == <<c>>
           S == {0} \cup {i \in DOMAIN name : name[i] # Underscore}
<1>1. DOMAIN name = {1} /\ name[1] = c /\ name \in Seq(Bytes) /\ Len(name) = 1
  OBVIOUS
<1> HIDE DEF name
<1>2. S = {0, 1}
  BY <1>1
<1>3. 1 \in S /\ (\A y \in S : 1 >= y) /\ S \subseteq Nat
  BY <1>2
<1>4. Bared(name) = SubSeq(name, 1, Max(S))
  BY DEF Bared
<1> HIDE DEF S
<1> DEFINE one == 1
<1>5. one \in S /\ (\A y \in S : one >= y) /\ S \subseteq Nat
  BY <1>3
<1> HIDE DEF one
<1>6. Max(S) = one
  BY <1>5, MaxSays
<1>7. SubSeq(name, 1, 1) = name
  BY <1>1, SubSeqFull
<1> QED BY <1>4, <1>6, <1>7 DEF one, name

(* What is given, as fields. *)
Gives(given, fields) ==
  /\ DOMAIN given = DOMAIN fields /\ given # << >>
  /\ \A i \in DOMAIN given :
        Bared(given[i][1]) = fields[i][1] /\ given[i][2] = {fields[i][2]}

(* format_params() joins the words of what is given. *)
LEMMA FormatSays ==
  ASSUME NEW params, NEW given, NEW fields, Gives(given, fields),
         Kept(params, {i \in DOMAIN params : params[i][2] # {}}) = given
  PROVE  FormatParams(params) = Joined(WordsOf(fields))
<1> DEFINE w(q) == Bared(q[1]) \o <<Equals>> \o (CHOOSE v \in q[2] : TRUE)
           asked == [i \in DOMAIN given |-> w(given[i])]
<1>1. FormatParams(params) = JoinedBy(Space, asked)
  <2> DEFINE G == Kept(params, {i \in DOMAIN params : params[i][2] # {}})
  <2>1. FormatParams(params)
          = IF G = << >> THEN << >> ELSE JoinedBy(Space, [i \in DOMAIN G |-> w(G[i])])
    BY Zenon DEF FormatParams
  <2>2. G = given /\ given # << >>
    BY DEF Gives
  <2> HIDE DEF G, w
  <2> QED BY <2>1, <2>2
<1>2. \A i \in DOMAIN given : w(given[i]) = WordOf(fields[i])
  BY ZenonT(60) DEF Gives, WordOf
<1>3. DOMAIN WordsOf(fields) = DOMAIN given
        /\ \A i \in DOMAIN given : WordsOf(fields)[i] = WordOf(fields[i])
  BY DEF Gives, WordsOf
<1>4. asked = WordsOf(fields)
  <2>1. DOMAIN asked = DOMAIN given /\ \A i \in DOMAIN given : asked[i] = w(given[i])
    OBVIOUS
  <2>2. asked = [i \in DOMAIN given |-> asked[i]]
    OBVIOUS
  <2>3. WordsOf(fields) = [i \in DOMAIN given |-> WordsOf(fields)[i]]
    BY <1>3 DEF WordsOf
  <2> HIDE DEF asked, w
  <2> QED BY <1>2, <1>3, <2>1, <2>2, <2>3
<1> HIDE DEF asked
<1> QED BY <1>1, <1>4, JoinedByBlanks

(* No octets are a refusal. *)
LEMMA NotRefused == \A s \in Seq(Bytes) : s # Refused
<1> SUFFICES ASSUME NEW s \in Seq(Bytes), s = Refused PROVE FALSE
  OBVIOUS
<1>1. Len(s) = 1 /\ s[1] = 256
  BY DEF Refused
<1>2. s[1] \in Bytes
  <2>1. 1 \in 1 .. Len(s)
    BY <1>1
  <2> QED BY <2>1, ElementOfSeq
<1> QED BY <1>1, <1>2 DEF Bytes

(* parse_params() finds what format_params() was given. *)
LEMMA FormatReads ==
  ASSUME NEW params, NEW given, NEW fields, Gives(given, fields), Params(fields),
         Kept(params, {i \in DOMAIN params : params[i][2] # {}}) = given
  PROVE  /\ ParseParams(FormatParams(params)) = FirstFields(fields, Len(fields))
         /\ FormatParams(params) # Refused
<1>1. FormatParams(params) = Joined(WordsOf(fields))
  BY FormatSays
<1>2. Joined(WordsOf(fields)) \in Seq(Bytes)
  BY FieldsAreWords, ToldRead
<1> QED BY <1>1, <1>2, ParamsRead, NotRefused

(* A key of one letter. *)
Letter(k) == Key(k) /\ Bared(k) = k

(* The keys are such letters. *)
LEMMA Letters ==
  /\ Letter(ConfKey) /\ Letter(SsidKey) /\ Letter(PassKey) /\ Letter(PskKey)
  /\ Letter(ConfiguratorKey)
<1>1. ASSUME NEW c \in 99 .. 115 PROVE Letter(<<c>>)
  <2>1. c \in Bytes /\ c # Underscore /\ c # Quote /\ c # Space /\ c # Equals
    BY DEF Bytes, Underscore, Quote, Space, Equals
  <2>2. Bared(<<c>>) = <<c>>
    BY <2>1, BaredLetter
  <2> DEFINE k == <<c>>
  <2>3. k \in Seq(Bytes) /\ Len(k) = 1 /\ k[1] = c /\ k # << >>
    BY <2>1
  <2> HIDE DEF k
  <2>4. \A i \in 1 .. Len(k) : k[i] = c
    BY <2>3
  <2>5. Key(k)
    BY <2>1, <2>3, <2>4 DEF Key, Unquotable
  <2> QED BY <2>2, <2>5 DEF Letter, k
<1>2. /\ 99 \in 99 .. 115 /\ 115 \in 99 .. 115 /\ 112 \in 99 .. 115 /\ 107 \in 99 .. 115
      /\ 103 \in 99 .. 115
  OBVIOUS
<1> QED BY <1>1, <1>2 DEF ConfKey, SsidKey, PassKey, PskKey, ConfiguratorKey

(* Fields as given, and as sent; how three and four of them arrive. *)
Given(k, v) == <<k, {v}>>
Pair(k, v) == <<k, v>>

(* What reads a parameter line of these keys and values, in this order, finds them all. *)
ThreeArrive(j, k, l, u, v, w) ==
  /\ Gives(<<Given(j, u), Given(k, v), Given(l, w)>>,
           <<Pair(j, u), Pair(k, v), Pair(l, w)>>)
  /\ Params(<<Pair(j, u), Pair(k, v), Pair(l, w)>>)
  /\ FirstFields(<<Pair(j, u), Pair(k, v), Pair(l, w)>>, 3)
       = {Pair(j, u), Pair(k, v), Pair(l, w)}

(* Four of them. *)
FourArrive(j, k, l, m, u, v, w, x) ==
  /\ Gives(<<Given(j, u), Given(k, v), Given(l, w), Given(m, x)>>,
           <<Pair(j, u), Pair(k, v), Pair(l, w), Pair(m, x)>>)
  /\ Params(<<Pair(j, u), Pair(k, v), Pair(l, w), Pair(m, x)>>)
  /\ FirstFields(<<Pair(j, u), Pair(k, v), Pair(l, w), Pair(m, x)>>, 4)
       = {Pair(j, u), Pair(k, v), Pair(l, w), Pair(m, x)}

(* Three of them are. *)
LEMMA ThreeGiven ==
  ASSUME NEW j, NEW k, NEW l, Letter(j), Letter(k), Letter(l), j # k, j # l, k # l,
         NEW u, NEW v, NEW w, Unquotable(u), Unquotable(v), Unquotable(w)
  PROVE  ThreeArrive(j, k, l, u, v, w)
<1> DEFINE given == <<Given(j, u), Given(k, v), Given(l, w)>>
           fields == <<Pair(j, u), Pair(k, v), Pair(l, w)>>
<1>1. /\ DOMAIN given = 1 .. 3 /\ given # << >>
      /\ given[1] = Given(j, u) /\ given[2] = Given(k, v) /\ given[3] = Given(l, w)
  OBVIOUS
<1>2. /\ DOMAIN fields = 1 .. 3 /\ Len(fields) = 3
      /\ fields[1] = Pair(j, u) /\ fields[2] = Pair(k, v) /\ fields[3] = Pair(l, w)
  OBVIOUS
<1>3. 1 .. 3 = {1, 2, 3}
  OBVIOUS
<1> HIDE DEF given, fields
<1>4. \A i \in 1 .. 3 : /\ fields[i] = <<fields[i][1], fields[i][2]>>
                        /\ Letter(fields[i][1]) /\ Unquotable(fields[i][2])
                        /\ given[i][1] = fields[i][1] /\ given[i][2] = {fields[i][2]}
  BY <1>1, <1>2, <1>3 DEF Given, Pair
<1>5. fields[1][1] = j /\ fields[2][1] = k /\ fields[3][1] = l
  BY <1>2 DEF Pair
<1>6. \A a, b \in 1 .. 3 : fields[a][1] = fields[b][1] => a = b
  BY <1>3, <1>5
<1>7. Params(fields)
  BY <1>2, <1>4, <1>6 DEF Params, Letter
<1>8. Gives(given, fields)
  BY <1>1, <1>2, <1>4 DEF Gives, Letter
<1>9. FirstFields(fields, 3) = {Pair(j, u), Pair(k, v), Pair(l, w)}
  BY <1>2, <1>3 DEF FirstFields
<1> QED BY <1>7, <1>8, <1>9 DEF given, fields, ThreeArrive

(* Four of them are. *)
LEMMA FourGiven ==
  ASSUME NEW j, NEW k, NEW l, NEW m, Letter(j), Letter(k), Letter(l), Letter(m),
         j # k, j # l, k # l, m # j, m # k, m # l,
         NEW u, NEW v, NEW w, NEW x, Unquotable(u), Unquotable(v), Unquotable(w), Unquotable(x)
  PROVE  FourArrive(j, k, l, m, u, v, w, x)
<1> DEFINE given == <<Given(j, u), Given(k, v), Given(l, w), Given(m, x)>>
           fields == <<Pair(j, u), Pair(k, v), Pair(l, w), Pair(m, x)>>
<1>1. /\ DOMAIN given = 1 .. 4 /\ given # << >>
      /\ given[1] = Given(j, u) /\ given[2] = Given(k, v) /\ given[3] = Given(l, w)
      /\ given[4] = Given(m, x)
  OBVIOUS
<1>2. /\ DOMAIN fields = 1 .. 4 /\ Len(fields) = 4
      /\ fields[1] = Pair(j, u) /\ fields[2] = Pair(k, v) /\ fields[3] = Pair(l, w)
      /\ fields[4] = Pair(m, x)
  OBVIOUS
<1>3. 1 .. 4 = {1, 2, 3, 4}
  OBVIOUS
<1> HIDE DEF given, fields
<1>4. \A i \in 1 .. 4 : /\ fields[i] = <<fields[i][1], fields[i][2]>>
                        /\ Letter(fields[i][1]) /\ Unquotable(fields[i][2])
                        /\ given[i][1] = fields[i][1] /\ given[i][2] = {fields[i][2]}
  BY <1>1, <1>2, <1>3 DEF Given, Pair
<1>5. fields[1][1] = j /\ fields[2][1] = k /\ fields[3][1] = l /\ fields[4][1] = m
  BY <1>2 DEF Pair
<1>6. \A a, b \in 1 .. 4 : fields[a][1] = fields[b][1] => a = b
  BY <1>3, <1>5
<1>7. Params(fields)
  BY <1>2, <1>4, <1>6 DEF Params, Letter
<1>8. Gives(given, fields)
  BY <1>1, <1>2, <1>4 DEF Gives, Letter
<1>9. FirstFields(fields, 4) = {Pair(j, u), Pair(k, v), Pair(l, w), Pair(m, x)}
  BY <1>2, <1>3 DEF FirstFields
<1> QED BY <1>7, <1>8, <1>9 DEF given, fields, FourArrive

-----------------------------------------------------------------------------
(* The secrets sent *)

(* A sequence in pieces of one. *)
LEMMA FlattenOnes ==
  ASSUME NEW S, NEW s \in Seq(S)
  PROVE  FlattenSeq([i \in DOMAIN s |-> <<s[i]>>]) = s
<1> DEFINE n == Len(s)
           c == [i \in DOMAIN s |-> <<s[i]>>]
<1>1. n \in Nat /\ DOMAIN s = 1 .. n
  OBVIOUS
<1>2. \A i \in 1 .. n : s[i] \in S /\ <<s[i]>> \in Seq(S)
  BY ElementOfSeq
<1>3. c \in Seq(Seq(S)) /\ Len(c) = n /\ \A i \in 1 .. n : c[i] = <<s[i]>>
  <2> HIDE DEF n
  <2> QED BY <1>1, <1>2
<1> HIDE DEF c
<1>4. PICK heads \in [0 .. Len(c) -> Seq(S)] :
         /\ heads[0] = << >> /\ heads[Len(c)] = FlattenSeq(c)
         /\ \A i \in 1 .. Len(c) : heads[i] = heads[i - 1] \o c[i]
  BY <1>3, FlattenHeads
<1> DEFINE T == {k \in Nat : heads[k] = SubSeq(s, 1, k)}
<1>5. 0 \in T
  <2>1. SubSeq(s, 1, 0) = << >>
    OBVIOUS
  <2> QED BY <1>4, <2>1
<1>6. ASSUME NEW k \in 1 .. n, k - 1 \in T PROVE k \in T
  <2>1. heads[k] = heads[k - 1] \o <<s[k]>> /\ heads[k - 1] = SubSeq(s, 1, k - 1)
    BY <1>3, <1>4, <1>6
  <2>2. SubSeq(s, 1, k - 1) \o <<s[k]>> = SubSeq(s, 1, k)
    BY OneMoreOf
  <2> QED BY <2>1, <2>2
<1>7. n \in T
  <2> HIDE DEF T, n
  <2>1. \A k \in 0 .. n : k \in T
    BY <1>1, <1>5, <1>6, BoundedInduction
  <2> QED BY <1>1, <2>1
<1>8. SubSeq(s, 1, n) = s
  BY SubSeqFull
<1> QED BY <1>3, <1>4, <1>7, <1>8 DEF c

(* Without quotes and backslashes, quoting is putting quotes around. *)
LEMMA QuoteTextSays ==
  ASSUME NEW s \in Seq(Bytes), \A i \in 1 .. Len(s) : s[i] \notin {Backslash, Quote}
  PROVE  QuoteText(s) = <<Quote>> \o s \o <<Quote>>
<1>1. [i \in DOMAIN s |-> IF s[i] \in {Backslash, Quote} THEN <<Backslash, s[i]>> ELSE <<s[i]>>]
        = [i \in DOMAIN s |-> <<s[i]>>]
  OBVIOUS
<1>2. FlattenSeq([i \in DOMAIN s |-> <<s[i]>>]) = s
  BY FlattenOnes
<1> QED BY <1>1, <1>2 DEF QuoteText

(* A hexdump has no quote or blank. *)
LEMMA HexIsUnquotable ==
  ASSUME NEW s \in Seq(Bytes)
  PROVE  Unquotable(HexOf(s))
<1> DEFINE h == HexOf(s)
<1>1. h \in Seq(HexDigits \cap Bytes)
  BY HexOfSays
<1> HIDE DEF h
<1>2. h \in Seq(Bytes)
  BY <1>1, SeqMonotonic
<1>3. \A i \in 1 .. Len(h) : h[i] \in HexDigits
  BY <1>1, ElementOfSeq
<1>4. Quote \notin HexDigits /\ Space \notin HexDigits
  BY DEF Quote, Space, HexDigits
<1> QED BY <1>2, <1>3, <1>4 DEF Unquotable, h

(* Neither has a raw key. *)
LEMMA RawIsUnquotable ==
  ASSUME NEW s \in Seq(Bytes), IsRawPsk(s)
  PROVE  Unquotable(s) /\ s # << >> /\ ~IsPrefix(<<Quote>>, s)
<1>1. Len(s) = KeyDigits /\ \A i \in 1 .. Len(s) : s[i] \in HexDigits
  BY DEF IsRawPsk, ToSet
<1>2. Quote \notin HexDigits /\ Space \notin HexDigits /\ Quote \in Bytes
  BY DEF Quote, Space, HexDigits, Bytes
<1>3. Len(s) >= 1
  BY <1>1, LengthsAssumption
<1>4. s # << >>
  BY <1>3
<1>5. Unquotable(s)
  BY <1>1, <1>2 DEF Unquotable
<1>6. ~IsPrefix(<<Quote>>, s)
  <2>1. IsPrefix(<<Quote>>, s) <=> Len(s) >= 1 /\ s[1] = Quote
    BY <1>2, BeginsWith
  <2>2. s[1] # Quote
    BY <1>1, <1>2, <1>3
  <2> QED BY <2>1, <2>2
<1> QED BY <1>4, <1>5, <1>6

(* Nor one letter. *)
LEMMA OneLetter == \A c \in 36 .. 255 : <<c>> \in Seq(Bytes) /\ Unquotable(<<c>>)
<1> TAKE c \in 36 .. 255
<1> DEFINE k == <<c>>
<1>1. k \in Seq(Bytes) /\ Len(k) = 1 /\ k[1] = c /\ c # Quote /\ c # Space
  BY DEF Bytes, Quote, Space
<1> HIDE DEF k
<1>2. \A i \in 1 .. Len(k) : k[i] = c
  BY <1>1
<1> QED BY <1>1, <1>2 DEF Unquotable, k

(* The keys are different. *)
LEMMA KeysDiffer ==
  /\ ConfKey # SsidKey /\ ConfKey # PassKey /\ ConfKey # PskKey /\ ConfKey # ConfiguratorKey
  /\ SsidKey # PassKey /\ SsidKey # PskKey /\ SsidKey # ConfiguratorKey
  /\ PassKey # PskKey /\ PassKey # ConfiguratorKey /\ PskKey # ConfiguratorKey
BY DEF ConfKey, SsidKey, PassKey, PskKey, ConfiguratorKey

(* The exchange with a passphrase, and with a key. *)
AsPass(secret) == ConfiguratorParams(<<K>>, <<K>>, {secret}, {}, {<<49>>})
AsKey(secret) == ConfiguratorParams(<<K>>, secret, {}, {secret}, {})
Conf == Pair(ConfKey, <<K>>)
Name(s) == Pair(SsidKey, HexOf(s))

(* The values the model fixes. *)
LEMMA Constants == <<K>> \in Seq(Bytes) /\ Unquotable(<<K>>) /\ Unquotable(<<49>>)
BY OneLetter DEF K

(* A passphrase goes out under its key, and nothing else does. *)
LEMMA PassSent ==
  ASSUME NEW s \in Seq(Bytes), s # << >>
  PROVE  ParseParams(AsPass(s)) =
           {Conf, Name(<<K>>), Pair(PassKey, HexOf(s)), Pair(ConfiguratorKey, <<49>>)}
<1> DEFINE u == <<K>>
           v == HexOf(<<K>>)
           w == HexOf(s)
           x == <<49>>
           given == <<Given(ConfKey, u), Given(SsidKey, v), Given(PassKey, w),
                      Given(ConfiguratorKey, x)>>
           fields == <<Pair(ConfKey, u), Pair(SsidKey, v), Pair(PassKey, w),
                       Pair(ConfiguratorKey, x)>>
           keep == {i \in DOMAIN given : given[i][2] # {}}
<1>1. Unquotable(u) /\ Unquotable(v) /\ Unquotable(w) /\ Unquotable(x)
  BY Constants, HexIsUnquotable
<1>2. v # Refused
  BY <1>1, NotRefused DEF Unquotable
<1>3. AsPass(s) = FormatParams(given)
  <2>1. DppHex(<<K>>) = v /\ DppHex(s) = w
    BY DEF DppHex
  <2>2. ~({s} \subseteq {<< >>}) /\ {DppHex(p) : p \in {s}} = {w}
    BY <2>1
  <2>3. ~(({s} = {}) = ({} = {})) /\ ~(\E key \in {} : ~IsRawPsk(key))
    OBVIOUS
  <2> HIDE DEF u, v, w, x
  <2> QED BY <1>2, <2>1, <2>2, <2>3 DEF AsPass, ConfiguratorParams, Given, u, x
<1>4. keep = 1 .. 4
  <2>1. DOMAIN given = 1 .. 4 /\ 1 .. 4 = {1, 2, 3, 4}
    OBVIOUS
  <2>2. given[1][2] # {} /\ given[2][2] # {} /\ given[3][2] # {} /\ given[4][2] # {}
    BY DEF Given
  <2> HIDE DEF given
  <2> QED BY <2>1, <2>2
<1>5. Kept(given, keep) = given
  <2> HIDE DEF keep
  <2>1. 1 \in keep /\ 2 \in keep /\ 3 \in keep /\ 4 \in keep
    BY <1>4
  <2> QED BY <2>1, KeptCases
<1> HIDE DEF u, v, w, x
<1>6. Gives(given, fields) /\ Params(fields)
      /\ FirstFields(fields, 4) = {Pair(ConfKey, u), Pair(SsidKey, v), Pair(PassKey, w),
                                   Pair(ConfiguratorKey, x)}
  <2>1. /\ Letter(ConfKey) /\ Letter(SsidKey) /\ Letter(PassKey) /\ Letter(ConfiguratorKey)
        /\ ConfKey # SsidKey /\ ConfKey # PassKey /\ SsidKey # PassKey
        /\ ConfiguratorKey # ConfKey /\ ConfiguratorKey # SsidKey /\ ConfiguratorKey # PassKey
    BY Letters, KeysDiffer
  <2> HIDE DEF given, fields
  <2>2. FourArrive(ConfKey, SsidKey, PassKey, ConfiguratorKey, u, v, w, x)
    BY <1>1, <2>1, FourGiven
  <2> QED BY <2>2 DEF FourArrive, given, fields
<1>7. Len(fields) = 4
  OBVIOUS
<1> HIDE DEF given, fields
<1>8. ParseParams(FormatParams(given)) = FirstFields(fields, Len(fields))
  BY <1>5, <1>6, FormatReads DEF keep
<1> QED BY <1>3, <1>6, <1>7, <1>8 DEF Conf, Name, u, v, w, x

(* In place of an empty one nothing goes out under its key. *)
LEMMA NoPassSent ==
  ParseParams(AsPass(<< >>)) = {Conf, Name(<<K>>), Pair(ConfiguratorKey, <<49>>)}
<1> DEFINE u == <<K>>
           v == HexOf(<<K>>)
           x == <<49>>
           none == <<PskKey, {}>>
           params == <<Given(ConfKey, u), Given(SsidKey, v), none, Given(ConfiguratorKey, x)>>
           given == <<Given(ConfKey, u), Given(SsidKey, v), Given(ConfiguratorKey, x)>>
           fields == <<Pair(ConfKey, u), Pair(SsidKey, v), Pair(ConfiguratorKey, x)>>
           keep == {i \in DOMAIN params : params[i][2] # {}}
<1>1. Unquotable(u) /\ Unquotable(v) /\ Unquotable(x)
  BY Constants, HexIsUnquotable
<1>2. v # Refused
  BY <1>1, NotRefused DEF Unquotable
<1>3. AsPass(<< >>) = FormatParams(params)
  <2>1. DppHex(<<K>>) = v
    BY DEF DppHex
  <2>2. {<< >>} \subseteq {<< >>}
    OBVIOUS
  <2>3. ~(({<< >>} = {}) = ({} = {})) /\ ~(\E key \in {} : ~IsRawPsk(key))
    OBVIOUS
  <2> HIDE DEF u, v, x
  <2> QED BY <1>2, <2>1, <2>2, <2>3 DEF AsPass, ConfiguratorParams, Given, u, x
<1>4. keep = {1, 2, 4}
  <2>1. DOMAIN params = 1 .. 4 /\ 1 .. 4 = {1, 2, 3, 4}
    OBVIOUS
  <2>2. params[1][2] # {} /\ params[2][2] # {} /\ params[3][2] = {} /\ params[4][2] # {}
    BY DEF Given
  <2> HIDE DEF params
  <2> QED BY <2>1, <2>2
<1>5. Kept(params, keep) = given
  <2> HIDE DEF keep
  <2>1. 1 \in keep /\ 2 \in keep /\ 3 \notin keep /\ 4 \in keep
    BY <1>4
  <2> QED BY <2>1, KeptCases
<1> HIDE DEF u, v, x
<1>6. Gives(given, fields) /\ Params(fields)
      /\ FirstFields(fields, 3) = {Pair(ConfKey, u), Pair(SsidKey, v), Pair(ConfiguratorKey, x)}
  <2>1. /\ Letter(ConfKey) /\ Letter(SsidKey) /\ Letter(ConfiguratorKey)
        /\ ConfKey # SsidKey /\ ConfKey # ConfiguratorKey /\ SsidKey # ConfiguratorKey
    BY Letters, KeysDiffer
  <2>2. ThreeArrive(ConfKey, SsidKey, ConfiguratorKey, u, v, x)
    BY <1>1, <2>1, ThreeGiven
  <2> QED BY <2>2 DEF ThreeArrive, given, fields
<1>7. Len(fields) = 3
  OBVIOUS
<1> HIDE DEF given, fields, params
<1>8. ParseParams(FormatParams(params)) = FirstFields(fields, Len(fields))
  BY <1>5, <1>6, FormatReads DEF keep
<1> QED BY <1>3, <1>6, <1>7, <1>8 DEF Conf, Name, u, v, x

(* A raw key goes out as it is, and what is not one is refused. *)
LEMMA KeySent ==
  ASSUME NEW s \in Seq(Bytes)
  PROVE  /\ AsKey(s) = Refused <=> ~IsRawPsk(s)
         /\ AsKey(s) # Refused =>
               ParseParams(AsKey(s)) = {Conf, Name(s), Pair(PskKey, s)}
<1>1. CASE ~IsRawPsk(s)
  BY <1>1 DEF AsKey, ConfiguratorParams
<1>2. CASE IsRawPsk(s)
  <2> DEFINE u == <<K>>
             v == HexOf(s)
             none == <<ConfiguratorKey, {}>>
             params == <<Given(ConfKey, u), Given(SsidKey, v), Given(PskKey, s), none>>
             given == <<Given(ConfKey, u), Given(SsidKey, v), Given(PskKey, s)>>
             fields == <<Pair(ConfKey, u), Pair(SsidKey, v), Pair(PskKey, s)>>
             keep == {i \in DOMAIN params : params[i][2] # {}}
  <2>1. Unquotable(u) /\ Unquotable(v) /\ Unquotable(s) /\ s # << >>
    BY <1>2, Constants, HexIsUnquotable, RawIsUnquotable
  <2>2. v # Refused
    BY <2>1, NotRefused DEF Unquotable
  <2>3. AsKey(s) = FormatParams(params)
    <3>1. DppHex(s) = v
      BY <2>1 DEF DppHex
    <3>2. {} \subseteq {<< >>}
      OBVIOUS
    <3>3. ~(({} = {}) = ({s} = {})) /\ ~(\E key \in {s} : ~IsRawPsk(key))
      BY <1>2
    <3> HIDE DEF u, v
    <3> QED BY <2>2, <3>1, <3>2, <3>3 DEF AsKey, ConfiguratorParams, Given, u
  <2>4. keep = {1, 2, 3}
    <3>1. DOMAIN params = 1 .. 4 /\ 1 .. 4 = {1, 2, 3, 4}
      OBVIOUS
    <3>2. params[1][2] # {} /\ params[2][2] # {} /\ params[3][2] # {} /\ params[4][2] = {}
      BY DEF Given
    <3> HIDE DEF params
    <3> QED BY <3>1, <3>2
  <2>5. Kept(params, keep) = given
    <3> HIDE DEF keep
    <3>1. 1 \in keep /\ 2 \in keep /\ 3 \in keep /\ 4 \notin keep
      BY <2>4
    <3> QED BY <3>1, KeptCases
  <2> HIDE DEF u, v
  <2>6. Gives(given, fields) /\ Params(fields)
        /\ FirstFields(fields, 3) = {Pair(ConfKey, u), Pair(SsidKey, v), Pair(PskKey, s)}
    <3>1. /\ Letter(ConfKey) /\ Letter(SsidKey) /\ Letter(PskKey)
          /\ ConfKey # SsidKey /\ ConfKey # PskKey /\ SsidKey # PskKey
      BY Letters, KeysDiffer
    <3>2. Unquotable(u) /\ Unquotable(v) /\ Unquotable(s)
      BY <2>1
    <3>3. ThreeArrive(ConfKey, SsidKey, PskKey, u, v, s)
      BY <3>1, <3>2, ThreeGiven
    <3> QED BY <3>3 DEF ThreeArrive, given, fields
  <2>7. Len(fields) = 3
    OBVIOUS
  <2> HIDE DEF given, fields, params
  <2>8. /\ ParseParams(FormatParams(params)) = FirstFields(fields, Len(fields))
        /\ FormatParams(params) # Refused
    BY <2>5, <2>6, FormatReads DEF keep
  <2> QED BY <1>2, <2>3, <2>6, <2>7, <2>8 DEF Conf, Name, u, v
<1> QED BY <1>1, <1>2

(* A psk variable is read as the secret it was made of, and as its kind. *)
LEMMA PskReads ==
  ASSUME NEW s \in Seq(Bytes), \A i \in 1 .. Len(s) : s[i] \notin {Backslash, Quote}
  PROVE  DaemonPsk(PskValue(s)) = IF IsRawPsk(s) THEN <<"key", s>>
                                  ELSE IF IsPassphrase(s) THEN <<"passphrase", s>>
                                  ELSE <<"refused", << >>>>
<1>1. CASE IsRawPsk(s)
  <2>1. ~IsPrefix(<<Quote>>, s)
    BY <1>1, RawIsUnquotable
  <2> QED BY <1>1, <2>1 DEF PskValue, DaemonPsk
<1>2. CASE ~IsRawPsk(s)
  <2> DEFINE value == <<Quote>> \o s \o <<Quote>>
  <2>1. PskValue(s) = value
    BY <1>2, QuoteTextSays DEF PskValue
  <2>2. FromConfig(value) = s
    BY QuotedReads
  <2>3. IsPrefix(<<Quote>>, value)
    BY QuotedBegins
  <2>4. s # Refused
    BY NotRefused
  <2> HIDE DEF value
  <2> QED BY <1>2, <2>1, <2>2, <2>3, <2>4 DEF DaemonPsk
<1> QED BY <1>1, <1>2

(* SecretsArriveWhole holds of any secret. *)
LEMMA SecretsWhole ==
  ASSUME ssid \in Seq(Bytes)
  PROVE  SecretsArriveWhole
<1> DEFINE common(name) == {<<ConfKey, <<K>>>>, <<SsidKey, HexOf(name)>>}
<1>1. \A name : common(name) = {Conf, Name(name)}
  BY DEF Conf, Name, Pair
<1> HIDE DEF common
<1>2. ToSet(ssid) \subseteq 0 .. 127 \ {Quote, Backslash} =>
        DaemonPsk(PskValue(ssid))
          = IF IsRawPsk(ssid) THEN <<"key", ssid>>
            ELSE IF IsPassphrase(ssid) THEN <<"passphrase", ssid>>
            ELSE <<"refused", << >>>>
  <2> SUFFICES ASSUME ToSet(ssid) \subseteq 0 .. 127 \ {Quote, Backslash}
               PROVE  DaemonPsk(PskValue(ssid))
                        = IF IsRawPsk(ssid) THEN <<"key", ssid>>
                          ELSE IF IsPassphrase(ssid) THEN <<"passphrase", ssid>>
                          ELSE <<"refused", << >>>>
    OBVIOUS
  <2>1. \A i \in 1 .. Len(ssid) : ssid[i] \notin {Backslash, Quote}
    BY DEF ToSet
  <2> QED BY <2>1, PskReads
<1>3. /\ ssid # << >> =>
           ParseParams(AsPass(ssid)) \ common(<<K>>)
             = {<<ConfiguratorKey, <<49>>>>, <<PassKey, HexOf(ssid)>>}
      /\ \A p \in Field(ParseParams(AsPass(ssid)), PassKey) : FromHex(p) = ssid
  <2>1. CASE ssid = << >>
    <3>1. ParseParams(AsPass(ssid)) = {Conf, Name(<<K>>), Pair(ConfiguratorKey, <<49>>)}
      BY <2>1, NoPassSent
    <3>2. /\ Pair(ConfiguratorKey, <<49>>) # Conf /\ Pair(ConfiguratorKey, <<49>>) # Name(<<K>>)
          /\ Pair(ConfiguratorKey, <<49>>)[1] # PassKey /\ Conf[1] # PassKey
          /\ Name(<<K>>)[1] # PassKey
      BY KeysDiffer DEF Conf, Name, Pair
    <3>3. Field(ParseParams(AsPass(ssid)), PassKey) = {}
      BY <3>1, <3>2 DEF Field
    <3> QED BY <1>1, <2>1, <3>1, <3>2, <3>3 DEF Pair
  <2>2. CASE ssid # << >>
    <3> DEFINE pass == Pair(PassKey, HexOf(ssid))
               last == Pair(ConfiguratorKey, <<49>>)
    <3>1. ParseParams(AsPass(ssid)) = {Conf, Name(<<K>>), pass, last}
      BY <2>2, PassSent
    <3>2. /\ last # Conf /\ last # Name(<<K>>) /\ pass # Conf /\ pass # Name(<<K>>)
          /\ last[1] # PassKey /\ Conf[1] # PassKey /\ Name(<<K>>)[1] # PassKey
          /\ pass[2] = HexOf(ssid)
      BY KeysDiffer DEF Conf, Name, Pair
    <3>3. pass = <<PassKey, HexOf(ssid)>> /\ last = <<ConfiguratorKey, <<49>>>>
      BY DEF Pair
    <3> HIDE DEF pass, last
    <3>4. \A p \in Field(ParseParams(AsPass(ssid)), PassKey) : p = HexOf(ssid)
      BY <3>1, <3>2 DEF Field
    <3>5. FromHex(HexOf(ssid)) = ssid
      BY HexReadsBack DEF FromHex
    <3>6. ParseParams(AsPass(ssid)) \ common(<<K>>) = {last, pass}
      BY <1>1, <3>1, <3>2
    <3> QED BY <2>2, <3>3, <3>4, <3>5, <3>6
  <2> QED BY <2>1, <2>2
<1>4. /\ AsKey(ssid) = Refused <=> ~IsRawPsk(ssid)
      /\ AsKey(ssid) # Refused => ParseParams(AsKey(ssid)) = common(ssid) \cup {<<PskKey, ssid>>}
  BY <1>1, KeySent DEF Pair
<1> QED BY <1>2, <1>3, <1>4 DEF SecretsArriveWhole, AsPass, AsKey, common

-----------------------------------------------------------------------------
(* Quoted words *)

(* What takes the scanner from one state to another, put together. *)
LEMMA OverNone == \A a : Over(<< >>, a, a)
BY DEF Over, Passes, Reaches

(* Over one character. *)
LEMMA OverOne ==
  ASSUME NEW c, NEW a
  PROVE  Over(<<c>>, a, Scan(a, c))
<1> SUFFICES ASSUME NEW text, NEW scan, NEW N, NEW q
             PROVE  Passes(<<c>>, a, Scan(a, c), text, scan, N, q)
  BY DEF Over
<1>1. SUFFICES ASSUME Reaches(<<c>>, text, scan, N, q), scan[q] = a
               PROVE  scan[q + Len(<<c>>)] = Scan(a, c)
  BY DEF Passes
<1> DEFINE w == <<c>>
<1>2. Len(w) = 1 /\ w[1] = c
  OBVIOUS
<1> HIDE DEF w
<1>3. N \in Nat /\ q \in Nat /\ q + 1 <= N /\ Scanned(scan, text, N) /\ StandsAt(w, text, q)
  BY <1>1, <1>2 DEF Reaches, w
<1>4. text[q + 1] = c
  <2>1. 1 \in 1 .. Len(w)
    BY <1>2
  <2> QED BY <1>2, <1>3, <2>1 DEF StandsAt
<1>5. q + 1 \in 1 .. N /\ (q + 1) - 1 = q
  BY <1>3
<1>6. scan[q + 1] = Scan(scan[q], c)
  BY <1>3, <1>4, <1>5 DEF Scanned
<1> QED BY <1>1, <1>2, <1>6 DEF w

(* Over two texts, one behind the other. *)
LEMMA OverBoth ==
  ASSUME NEW u \in Seq(Bytes), NEW v \in Seq(Bytes), NEW a, NEW b, NEW d,
         Over(u, a, b), Over(v, b, d)
  PROVE  Over(u \o v, a, d)
<1> DEFINE w == u \o v
           m == Len(u)
           n == Len(v)
<1>1. /\ w \in Seq(Bytes) /\ Len(w) = m + n
      /\ \A i \in 1 .. m : w[i] = u[i]
      /\ \A i \in 1 .. n : w[m + i] = v[i]
  BY ConcatSays
<1>2. m \in Nat /\ n \in Nat
  OBVIOUS
<1> HIDE DEF w
<1> SUFFICES ASSUME NEW text, NEW scan, NEW N, NEW q
             PROVE  Passes(w, a, d, text, scan, N, q)
  BY DEF Over, w
<1>3. SUFFICES ASSUME Reaches(w, text, scan, N, q), scan[q] = a
               PROVE  scan[q + Len(w)] = d
  BY DEF Passes
<1>4. N \in Nat /\ q \in Nat /\ q + Len(w) <= N /\ Scanned(scan, text, N) /\ StandsAt(w, text, q)
  BY <1>3 DEF Reaches
<1> HIDE DEF m, n
<1>5. Reaches(u, text, scan, N, q)
  <2>1. q + m <= N
    BY <1>1, <1>2, <1>4
  <2>2. \A j \in 1 .. m : j \in 1 .. Len(w)
    BY <1>1, <1>2
  <2>3. StandsAt(u, text, q)
    BY <1>1, <1>4, <2>2 DEF StandsAt, m
  <2> QED BY <1>4, <2>1, <2>3 DEF Reaches, m
<1>6. scan[q + m] = b
  <2>1. Passes(u, a, b, text, scan, N, q)
    BY DEF Over
  <2> QED BY <1>3, <1>5, <2>1 DEF Passes, m
<1>7. Reaches(v, text, scan, N, q + m)
  <2>1. q + m \in Nat /\ (q + m) + n <= N
    BY <1>1, <1>2, <1>4
  <2>2. ASSUME NEW j \in 1 .. n PROVE text[(q + m) + j] = v[j]
    <3>1. m + j \in 1 .. Len(w) /\ (q + m) + j = q + (m + j)
      BY <1>1, <1>2, <1>4
    <3> QED BY <1>1, <1>4, <3>1 DEF StandsAt
  <2>3. StandsAt(v, text, q + m)
    BY <2>2 DEF StandsAt, n
  <2> QED BY <1>4, <2>1, <2>3 DEF Reaches, n
<1>8. scan[(q + m) + n] = d
  <2>1. Passes(v, b, d, text, scan, N, q + m)
    BY DEF Over
  <2> QED BY <1>6, <1>7, <2>1 DEF Passes, n
<1>9. (q + m) + n = q + Len(w)
  BY <1>1, <1>2, <1>4
<1> QED BY <1>8, <1>9

(* The states inside quotes, and behind a backslash there. *)
InQuotes(tokens, current) ==
  [tokens |-> tokens, current |-> current, quoted |-> TRUE, escaped |-> FALSE]
Behind(tokens, current) ==
  [tokens |-> tokens, current |-> current, quoted |-> TRUE, escaped |-> TRUE]

(* How the scanner goes into quotes, on inside them, and out. *)
LEMMA ScanQuotes ==
  ASSUME NEW tokens, NEW current \in Seq(Bytes)
  PROVE  /\ Scan(At(tokens, current), Quote) = InQuotes(tokens, current \o <<Quote>>)
         /\ Scan(InQuotes(tokens, current), Quote) = At(tokens, current \o <<Quote>>)
         /\ Scan(InQuotes(tokens, current), Backslash) = Behind(tokens, current \o <<Backslash>>)
         /\ \A c \in Bytes :
               /\ Scan(Behind(tokens, current), c) = InQuotes(tokens, current \o <<c>>)
               /\ c \notin {Quote, Backslash} =>
                     Scan(InQuotes(tokens, current), c) = InQuotes(tokens, current \o <<c>>)
<1>1. Quote \in Bytes /\ Backslash \in Bytes /\ Quote # Backslash /\ Quote # Space
  BY DEF Quote, Backslash, Bytes, Space
<1>2. \A c \in Bytes : Append(current, c) = current \o <<c>>
  BY AppendIsConcat
<1>3. Scan(At(tokens, current), Quote) = InQuotes(tokens, Append(current, Quote))
  <2> DEFINE s == At(tokens, current)
  <2>1. s.quoted = FALSE /\ s.escaped = FALSE /\ s.current = current
    BY DEF At
  <2>2. Scan(s, Quote) = [s EXCEPT !.current = Append(@, Quote), !.quoted = ~@]
    BY <1>1, <2>1 DEF Scan
  <2> QED BY <2>2 DEF At, InQuotes
<1> DEFINE s == InQuotes(tokens, current)
<1>4. s.quoted = TRUE /\ s.escaped = FALSE /\ s.current = current
  BY DEF InQuotes
<1>5. Scan(s, Quote) = At(tokens, Append(current, Quote))
  <2>1. Scan(s, Quote) = [s EXCEPT !.current = Append(@, Quote), !.quoted = ~@]
    BY <1>1, <1>4 DEF Scan
  <2> QED BY <2>1 DEF At, InQuotes
<1>6. Scan(s, Backslash) = Behind(tokens, Append(current, Backslash))
  <2>1. Scan(s, Backslash) = [s EXCEPT !.current = Append(@, Backslash), !.escaped = TRUE]
    BY <1>1, <1>4 DEF Scan
  <2> QED BY <2>1 DEF Behind, InQuotes
<1>7. ASSUME NEW c \in Bytes
      PROVE  Scan(Behind(tokens, current), c) = InQuotes(tokens, Append(current, c))
  <2> DEFINE b == Behind(tokens, current)
  <2>1. b.escaped = TRUE
    BY DEF Behind
  <2>2. Scan(b, c) = [b EXCEPT !.current = Append(@, c), !.escaped = FALSE]
    BY <2>1 DEF Scan
  <2> QED BY <2>2 DEF Behind, InQuotes
<1>8. ASSUME NEW c \in Bytes, c \notin {Quote, Backslash}
      PROVE  Scan(s, c) = InQuotes(tokens, Append(current, c))
  <2>1. Scan(s, c) = [s EXCEPT !.current = Append(@, c)]
    BY <1>4, <1>8 DEF Scan
  <2> QED BY <2>1 DEF InQuotes
<1> QED BY <1>1, <1>2, <1>3, <1>5, <1>6, <1>7, <1>8

(* Texts put together have what each has, if that survives putting two     *)
(* together.                                                               *)
LEMMA FlattenKeeps ==
  ASSUME NEW S, NEW P \in SUBSET Seq(S), << >> \in P, \A u, v \in P : u \o v \in P,
         NEW c \in Seq(P)
  PROVE  FlattenSeq(c) \in P
<1> DEFINE n == Len(c)
<1>1. n \in Nat /\ \A i \in 1 .. n : c[i] \in P
  <2>1. \A i \in 1 .. n : c[i] \in P
    BY ElementOfSeq
  <2> QED BY <2>1
<1>2. c \in Seq(Seq(S))
  BY SeqMonotonic
<1>3. PICK tails \in Tails(S, c) : TRUE
  BY <1>2, FlattenTails
<1>4. /\ tails[0] = FlattenSeq(c) /\ tails[n] = << >>
      /\ \A i \in 1 .. n : tails[i - 1] = c[i] \o tails[i]
  BY <1>3 DEF Tails
<1> HIDE DEF n
<1> DEFINE T == {k \in Nat : tails[n - k] \in P}
<1>5. 0 \in T
  BY <1>1, <1>4
<1>6. ASSUME NEW k \in 1 .. n, k - 1 \in T PROVE k \in T
  <2> DEFINE i == (n - k) + 1
  <2>1. i \in 1 .. n /\ i - 1 = n - k /\ n - (k - 1) = i /\ k \in Nat
    BY <1>1
  <2>2. tails[i] \in P
    BY <1>6, <2>1
  <2> HIDE DEF i
  <2>3. c[i] \in P /\ tails[i - 1] = c[i] \o tails[i]
    BY <1>1, <1>4, <2>1
  <2>4. tails[i - 1] \in P
    BY <2>2, <2>3
  <2> QED BY <2>1, <2>4
<1>7. n \in T
  <2> HIDE DEF T
  <2>1. \A k \in 0 .. n : k \in T
    BY <1>1, <1>5, <1>6, BoundedInduction
  <2> QED BY <1>1, <2>1
<1>8. n - n = 0
  BY <1>1
<1> QED BY <1>4, <1>7, <1>8

(* A text that keeps the scanner inside the quotes it stands in. *)
Enclosed(u) ==
  /\ u \in Seq(Bytes)
  /\ \A tokens : \A current \in Seq(Bytes) :
        Over(u, InQuotes(tokens, current), InQuotes(tokens, current \o u))

(* Two sequences of one. *)
LEMMA TwoTogether ==
  ASSUME NEW S, NEW a \in S, NEW b \in S
  PROVE  <<a>> \o <<b>> = <<a, b>>
<1> DEFINE s == <<a>>
           t == <<b>>
           v == <<a, b>>
           w == s \o t
<1>1. s \in Seq(S) /\ t \in Seq(S) /\ Len(s) = 1 /\ Len(t) = 1 /\ s[1] = a /\ t[1] = b
  OBVIOUS
<1>2. v \in Seq(S) /\ Len(v) = 2 /\ v[1] = a /\ v[2] = b
  OBVIOUS
<1> HIDE DEF s, t, v
<1>3. /\ w \in Seq(S) /\ Len(w) = Len(s) + Len(t)
      /\ \A i \in 1 .. Len(s) : w[i] = s[i]
      /\ \A i \in 1 .. Len(t) : w[Len(s) + i] = t[i]
  BY <1>1, ConcatSays
<1> HIDE DEF w
<1>4. Len(w) = 2 /\ w[1] = a /\ w[1 + 1] = b
  BY <1>1, <1>3
<1>5. \A i \in 1 .. 2 : i = 1 \/ i = 2
  OBVIOUS
<1>6. w[2] = b
  BY <1>4
<1>7. w = v
  <2>1. \A i \in 1 .. Len(w) : w[i] = v[i]
    BY <1>2, <1>4, <1>5, <1>6
  <2> QED BY <1>2, <1>3, <1>4, <2>1, SeqEqual
<1> QED BY <1>7 DEF s, t, v, w

(* Nothing keeps it there, *)
LEMMA EnclosedNone == Enclosed(<< >>)
<1>1. \A current \in Seq(Bytes) : current \o << >> = current
  BY ConcatEmptySeq
<1>2. << >> \in Seq(Bytes)
  OBVIOUS
<1> QED BY <1>1, <1>2, OverNone DEF Enclosed

(* and so do two such texts together, *)
LEMMA EnclosedBoth ==
  ASSUME NEW u, NEW v, Enclosed(u), Enclosed(v)
  PROVE  Enclosed(u \o v)
<1>1. u \in Seq(Bytes) /\ v \in Seq(Bytes)
  BY DEF Enclosed
<1>2. u \o v \in Seq(Bytes)
  BY <1>1, ConcatInSeq
<1>3. ASSUME NEW tokens, NEW current \in Seq(Bytes)
      PROVE  Over(u \o v, InQuotes(tokens, current), InQuotes(tokens, current \o (u \o v)))
  <2> DEFINE w == u \o v
             past == current \o u
             a == InQuotes(tokens, current)
             b == InQuotes(tokens, past)
             d == InQuotes(tokens, past \o v)
  <2>1. past \in Seq(Bytes)
    BY <1>1, ConcatInSeq
  <2>2. past \o v = current \o w
    BY <1>1, Assoc
  <2> HIDE DEF past, w
  <2>3. Over(u, a, b)
    BY DEF Enclosed, past
  <2>4. Over(v, b, d)
    BY <2>1 DEF Enclosed
  <2> HIDE DEF a, b, d
  <2>5. Over(u \o v, a, d)
    BY <1>1, <2>3, <2>4, OverBoth
  <2> QED BY <2>2, <2>5 DEF a, d, w
<1> QED BY <1>2, <1>3 DEF Enclosed

(* a character that is no quote or backslash, *)
LEMMA EnclosedOne ==
  ASSUME NEW c \in Bytes, c # Quote, c # Backslash
  PROVE  Enclosed(<<c>>)
<1>1. <<c>> \in Seq(Bytes)
  OBVIOUS
<1>2. ASSUME NEW tokens, NEW current \in Seq(Bytes)
      PROVE  Over(<<c>>, InQuotes(tokens, current), InQuotes(tokens, current \o <<c>>))
  <2>1. Scan(InQuotes(tokens, current), c) = InQuotes(tokens, current \o <<c>>)
    BY ScanQuotes
  <2>2. Over(<<c>>, InQuotes(tokens, current), Scan(InQuotes(tokens, current), c))
    BY OverOne
  <2> QED BY <2>1, <2>2
<1> QED BY <1>1, <1>2 DEF Enclosed

(* and a backslash with whatever is behind it. *)
LEMMA EnclosedEscape ==
  ASSUME NEW c \in Bytes
  PROVE  Enclosed(<<Backslash, c>>)
<1> DEFINE o == <<Backslash>>
           e == <<c>>
<1>1. o \in Seq(Bytes) /\ e \in Seq(Bytes) /\ o \o e = <<Backslash, c>>
  <2>1. Backslash \in Bytes
    BY DEF Backslash, Bytes
  <2> QED BY <2>1, TwoTogether
<1>2. ASSUME NEW tokens, NEW current \in Seq(Bytes)
      PROVE  Over(o \o e, InQuotes(tokens, current), InQuotes(tokens, current \o (o \o e)))
  <2> DEFINE w == o \o e
             past == current \o o
             a == InQuotes(tokens, current)
             b == Behind(tokens, past)
             d == InQuotes(tokens, past \o e)
  <2>1. past \in Seq(Bytes)
    BY <1>1, ConcatInSeq
  <2>2. past \o e = current \o w
    BY <1>1, Assoc
  <2>3. Scan(a, Backslash) = b
    BY ScanQuotes
  <2>4. Over(o, a, Scan(a, Backslash))
    BY OverOne
  <2> HIDE DEF past
  <2>5. Scan(b, c) = d
    BY <2>1, ScanQuotes
  <2>6. Over(e, b, Scan(b, c))
    BY OverOne
  <2> HIDE DEF a, b, d, o, e, w
  <2>7. Over(o, a, b) /\ Over(e, b, d)
    BY <2>3, <2>4, <2>5, <2>6
  <2>8. Over(o \o e, a, d)
    BY <1>1, <2>7, OverBoth
  <2> QED BY <2>2, <2>8 DEF a, d, w
<1> HIDE DEF o, e
<1>3. o \o e \in Seq(Bytes)
  BY <1>1, ConcatInSeq
<1>4. Enclosed(o \o e)
  BY <1>2, <1>3 DEF Enclosed
<1> QED BY <1>1, <1>4

(* What stands in quotes as the daemon prints it. *)
Inside == {u \in Seq(Printable) : Enclosed(u)}

(* Two such texts together are one. *)
LEMMA InsideBoth == \A u, v \in Inside : u \o v \in Inside
BY EnclosedBoth, ConcatInSeq DEF Inside

(* A hex digit is one. *)
LEMMA HexDigitInside ==
  ASSUME NEW h \in HexDigits
  PROVE  <<h>> \in Inside
<1>1. h \in Bytes /\ h \in Printable /\ h # Quote /\ h # Backslash
  BY DEF HexDigits, Bytes, Printable, Quote, Backslash
<1>2. Enclosed(<<h>>)
  BY <1>1, EnclosedOne
<1>3. <<h>> \in Seq(Printable)
  BY <1>1
<1> QED BY <1>2, <1>3 DEF Inside

(* So is an escape. *)
LEMMA EscapeInside ==
  ASSUME NEW e \in Printable
  PROVE  <<Backslash, e>> \in Inside
<1>1. e \in Bytes /\ Backslash \in Printable
  BY DEF Bytes, Printable, Backslash
<1>2. Enclosed(<<Backslash, e>>)
  BY <1>1, EnclosedEscape
<1>3. <<Backslash, e>> \in Seq(Printable)
  BY <1>1
<1> QED BY <1>2, <1>3 DEF Inside

(* So is what printf_encode() writes for an octet. *)
LEMMA PieceInside ==
  ASSUME NEW c \in Bytes
  PROVE  Piece(c) \in Inside
<1>1. CASE c \in {Backslash, Quote, 27, 10, 13, 9}
  <2>1. \E e \in Printable : Piece(c) = <<Backslash, e>>
    <3>1. {Backslash, Quote, 101, 110, 114, 116} \subseteq Printable
      BY DEF Backslash, Quote, Printable
    <3> QED BY <1>1, <3>1, LetteredOctets DEF Lettered
  <2> QED BY <2>1, EscapeInside
<1>2. CASE c \notin {Backslash, Quote, 27, 10, 13, 9} /\ c \in Printable
  <2>1. Piece(c) = <<c>>
    BY <1>2 DEF Piece
  <2>2. Enclosed(<<c>>)
    BY <1>2, EnclosedOne
  <2>3. <<c>> \in Seq(Printable)
    BY <1>2
  <2> QED BY <2>1, <2>2, <2>3 DEF Inside
<1>3. CASE c \notin {Backslash, Quote, 27, 10, 13, 9} /\ c \notin Printable
  <2> DEFINE p == <<Backslash, LowerX>>
             hx == HexOf(<<c>>)
  <2>1. Piece(c) = p \o hx
    BY <1>3 DEF Piece
  <2>2. p \in Inside
    <3>1. LowerX \in Printable
      BY DEF LowerX, Printable
    <3> QED BY <3>1, EscapeInside
  <2>3. hx \in Seq(HexDigits \cap Bytes) /\ Len(hx) = 2
    <3> DEFINE o == <<c>>
    <3>1. o \in Seq(Bytes) /\ Len(o) = 1
      OBVIOUS
    <3> HIDE DEF o
    <3>2. HexOf(o) \in Seq(HexDigits \cap Bytes) /\ Len(HexOf(o)) = 2 * Len(o)
      BY <3>1, HexOfSays
    <3> QED BY <3>1, <3>2 DEF o
  <2> HIDE DEF p, hx
  <2>4. hx[1] \in HexDigits /\ hx[2] \in HexDigits
    <3>1. 1 \in 1 .. Len(hx) /\ 2 \in 1 .. Len(hx)
      BY <2>3
    <3>2. hx[1] \in HexDigits \cap Bytes /\ hx[2] \in HexDigits \cap Bytes
      BY <2>3, <3>1, ElementOfSeq
    <3> QED BY <3>2
  <2>5. hx = <<hx[1]>> \o <<hx[2]>>
    <3>1. <<hx[1]>> \o <<hx[2]>> = <<hx[1], hx[2]>>
      BY <2>4, TwoTogether
    <3>2. hx = <<hx[1], hx[2]>>
      BY <2>3
    <3> QED BY <3>1, <3>2
  <2>6. <<hx[1]>> \in Inside /\ <<hx[2]>> \in Inside
    BY <2>4, HexDigitInside
  <2>7. hx \in Inside
    BY <2>5, <2>6, InsideBoth
  <2> QED BY <2>1, <2>2, <2>7, InsideBoth
<1> QED BY <1>1, <1>2, <1>3

(* So is a whole SSID. *)
LEMMA EncodedInside ==
  ASSUME NEW s \in Seq(Bytes)
  PROVE  PrintfEncode(s) \in Inside
<1> DEFINE c == [i \in DOMAIN s |-> Piece(s[i])]
<1>1. \A i \in DOMAIN s : Piece(s[i]) \in Inside
  <2> TAKE i \in DOMAIN s
  <2>1. s[i] \in Bytes
    BY ElementOfSeq
  <2> QED BY <2>1, PieceInside
<1>2. c \in Seq(Inside)
  BY <1>1
<1>3. PrintfEncode(s) = FlattenSeq(c)
  BY EncodedInPieces
<1> HIDE DEF c
<1>4. << >> \in Inside
  BY EnclosedNone DEF Inside
<1>5. Inside \in SUBSET Seq(Printable)
  BY DEF Inside
<1>6. FlattenSeq(c) \in Inside
  BY <1>2, <1>4, <1>5, InsideBoth, FlattenKeeps
<1> QED BY <1>3, <1>6

(* Such a text between quotes, behind a key, is one word of the parameters *)
(* and tells the field it was made of.                                     *)
LEMMA QuotedTells ==
  ASSUME NEW key, Key(key), NEW u \in Inside
  PROVE  Tells(WordOf(<<key, <<Quote>> \o u \o <<Quote>>>>), <<key, u>>)
<1> DEFINE q == <<Quote>>
           e == <<Equals>>
           value == q \o u \o q
           w == key \o e \o value
           head == key \o e
<1>1. q \in Seq(Bytes) /\ e \in Seq(Bytes) /\ u \in Seq(Bytes) /\ key \in Seq(Bytes)
  <2>1. q \in Seq(Bytes) /\ e \in Seq(Bytes)
    BY DEF Quote, Equals, Bytes
  <2> QED BY <2>1 DEF Inside, Enclosed, Key, Unquotable
<1>2. WordOf(<<key, value>>) = w
  BY DEF WordOf
<1>3. value \in Seq(Bytes) /\ head \in Seq(Bytes) /\ q \o u \in Seq(Bytes)
  <2> HIDE DEF q, e
  <2>1. q \o u \in Seq(Bytes)
    BY <1>1, ConcatInSeq
  <2> QED BY <1>1, <2>1, ConcatInSeq
<1>4. Contains(w, Equals) /\ Before(w, Equals) = key /\ After(w, Equals) = value
  <2>1. Equals \in Bytes /\ key \in Seq(Bytes) /\ \A i \in 1 .. Len(key) : key[i] # Equals
    BY <1>1 DEF Key, Equals, Bytes
  <2> HIDE DEF q, value
  <2>2. /\ Contains(key \o <<Equals>> \o value, Equals)
        /\ Before(key \o <<Equals>> \o value, Equals) = key
        /\ After(key \o <<Equals>> \o value, Equals) = value
    BY <1>3, <2>1, TakenApart, ZenonT(60)
  <2> QED BY <2>2
<1>5. Bare(value) = u
  <2>0. Len(q) = 1 /\ q[1] = Quote
    OBVIOUS
  <2> DEFINE r == q \o u
             n == Len(u)
  <2>1. n \in Nat
    BY <1>1
  <2> HIDE DEF q, n
  <2>2. /\ Len(r) = 1 + n /\ r[1] = Quote /\ \A i \in 1 .. n : r[1 + i] = u[i]
    <3>1. /\ Len(q \o u) = Len(q) + Len(u)
          /\ \A i \in 1 .. Len(q) : (q \o u)[i] = q[i]
          /\ \A i \in 1 .. Len(u) : (q \o u)[Len(q) + i] = u[i]
      BY <1>1, ConcatSays
    <3>2. 1 \in 1 .. Len(q)
      BY <2>0
    <3> QED BY <2>0, <3>1, <3>2 DEF n
  <2>3. r \in Seq(Bytes)
    BY <1>3
  <2> HIDE DEF r
  <2>4. /\ Len(r \o q) = Len(r) + Len(q)
        /\ \A i \in 1 .. Len(r) : (r \o q)[i] = r[i]
        /\ \A i \in 1 .. Len(q) : (r \o q)[Len(r) + i] = q[i]
    BY <1>1, <2>3, ConcatSays
  <2>5. value = r \o q
    BY DEF r
  <2> HIDE DEF value
  <2>6. /\ Len(value) = n + 2 /\ value[1] = Quote /\ value[n + 2] = Quote
        /\ \A i \in 1 .. n : value[1 + i] = u[i]
    <3>1. 1 \in 1 .. Len(r) /\ 1 \in 1 .. Len(q) /\ (1 + n) + 1 = n + 2
      BY <2>0, <2>1, <2>2
    <3>2. value[1] = Quote /\ value[Len(r) + 1] = Quote
      BY <2>0, <2>2, <2>4, <2>5, <3>1
    <3>3. ASSUME NEW i \in 1 .. n PROVE value[1 + i] = u[i]
      <4>1. 1 + i \in 1 .. Len(r)
        BY <2>1, <2>2
      <4>2. (r \o q)[1 + i] = r[1 + i]
        BY <2>4, <4>1
      <4> QED BY <2>2, <2>5, <4>2
    <3>4. Len(value) = (1 + n) + 1
      BY <2>0, <2>2, <2>4, <2>5
    <3> QED BY <2>1, <2>2, <3>1, <3>2, <3>3, <3>4
  <2> DEFINE v == SubSeq(value, 2, Len(value) - 1)
  <2>7. v \in Seq(Bytes) /\ Len(v) = n /\ \A i \in 1 .. n : v[i] = value[1 + i]
    <3>1. Len(value) - 1 = n + 1 /\ n + 1 <= Len(value)
      BY <2>1, <2>6
    <3> QED BY <1>3, <2>1, <2>6, <3>1
  <2> HIDE DEF v
  <2>8. v = u
    BY <1>1, <2>6, <2>7, SeqEqual DEF n
  <2>9. Len(value) >= 2 /\ Head(value) = Quote /\ Last(value) = Quote
    BY <1>3, <2>1, <2>6 DEF Last
  <2> QED BY <2>8, <2>9 DEF Bare, v
<1>6. Readable(w)
  <2>1. Word(head)
    <3> HIDE DEF e
    <3>1. Len(e) = 1 /\ e[1] = Equals
      BY DEF e
    <3>2. /\ Len(head) = Len(key) + Len(e)
          /\ \A i \in 1 .. Len(key) : head[i] = key[i]
          /\ \A i \in 1 .. Len(e) : head[Len(key) + i] = e[i]
      BY <1>1, ConcatSays
    <3>3. Len(key) \in Nat
      BY <1>1
    <3> HIDE DEF head
    <3>4. ASSUME NEW i \in 1 .. Len(head) PROVE head[i] # Quote /\ head[i] # Space
      <4>1. CASE i \in 1 .. Len(key)
        BY <3>2, <4>1 DEF Key, Unquotable
      <4>2. CASE i \notin 1 .. Len(key)
        <5>1. i = Len(key) + 1 /\ 1 \in 1 .. Len(e)
          BY <3>1, <3>2, <3>3, <4>2
        <5>2. head[i] = Equals
          BY <3>1, <3>2, <5>1
        <5> QED BY <5>2 DEF Equals, Quote, Space
      <4> QED BY <4>1, <4>2
    <3>5. head # << >>
      <4>1. Len(head) # 0
        BY <3>1, <3>2, <3>3
      <4> QED BY <4>1
    <3> QED BY <1>3, <3>4, <3>5 DEF Word
  <2>2. ASSUME NEW tokens PROVE Over(w, At(tokens, << >>), At(tokens, w))
    <3> DEFINE a == At(tokens, << >>)
               b == At(tokens, head)
               c == InQuotes(tokens, head \o q)
               d == InQuotes(tokens, (head \o q) \o u)
               f == At(tokens, ((head \o q) \o u) \o q)
    <3>1. Over(head, a, b)
      BY <2>1, WordIsReadable DEF Readable
    <3>2. Over(q, b, c)
      <4>1. Scan(b, Quote) = c
        BY <1>3, ScanQuotes
      <4>2. Over(<<Quote>>, b, Scan(b, Quote))
        BY OverOne
      <4> QED BY <4>1, <4>2
    <3>3. head \o q \in Seq(Bytes) /\ (head \o q) \o u \in Seq(Bytes)
      <4> HIDE DEF q, head
      <4>1. head \o q \in Seq(Bytes)
        BY <1>1, <1>3, ConcatInSeq
      <4> QED BY <1>1, <4>1, ConcatInSeq
    <3>4. Over(u, c, d)
      <4> DEFINE past == head \o q
      <4>1. past \in Seq(Bytes)
        BY <3>3
      <4> HIDE DEF past
      <4>2. Over(u, InQuotes(tokens, past), InQuotes(tokens, past \o u))
        BY <4>1 DEF Inside, Enclosed
      <4> QED BY <4>2 DEF past
    <3>5. Over(q, d, f)
      <4> DEFINE past == (head \o q) \o u
      <4>1. past \in Seq(Bytes)
        BY <3>3
      <4> HIDE DEF past
      <4>2. Scan(InQuotes(tokens, past), Quote) = At(tokens, past \o <<Quote>>)
        BY <4>1, ScanQuotes
      <4>3. Over(<<Quote>>, InQuotes(tokens, past), Scan(InQuotes(tokens, past), Quote))
        BY OverOne
      <4> QED BY <4>2, <4>3 DEF past
    <3> HIDE DEF a, b, c, d, f, head, q, e
    <3>6. Over(q \o u, b, d)
      BY <1>1, <3>2, <3>4, OverBoth
    <3>7. Over((q \o u) \o q, b, f)
      BY <1>1, <1>3, <3>5, <3>6, OverBoth
    <3>8. Over(value, b, f)
      BY <3>7
    <3> HIDE DEF value
    <3>9. Over(head \o value, a, f)
      BY <1>3, <3>1, <3>8, OverBoth
    <3>10. head \o value = w
      BY DEF head
    <3>11. ((head \o q) \o u) \o q = head \o value
      <4> DEFINE z == q \o u
      <4>1. (head \o q) \o u = head \o z
        BY <1>1, <1>3, Assoc, SMTT(30)
      <4>2. z \in Seq(Bytes)
        BY <1>3
      <4> HIDE DEF z
      <4>a. head \in Seq(Bytes) /\ q \in Seq(Bytes)
        BY <1>1, <1>3
      <4> HIDE DEF w
      <4>3. (head \o z) \o q = head \o (z \o q)
        BY <4>2, <4>a, Assoc, SMTT(30)
      <4> QED BY <4>1, <4>3 DEF z, value
    <3> QED BY <3>9, <3>10, <3>11 DEF a, f
  <2>3. w \in Seq(Bytes) /\ w # << >>
    <3>1. w = head \o value
      OBVIOUS
    <3>2. head # << >>
      BY <2>1 DEF Word
    <3> HIDE DEF w, head, value
    <3>3. w \in Seq(Bytes) /\ Len(w) = Len(head) + Len(value)
      BY <1>3, <3>1, ConcatSays
    <3>4. Len(head) # 0 /\ Len(head) \in Nat /\ Len(value) \in Nat
      BY <1>3, <3>2
    <3>5. Len(w) # 0
      BY <3>3, <3>4
    <3> QED BY <3>3, <3>5
  <2> HIDE DEF w
  <2> QED BY <2>2, <2>3 DEF Readable
<1>7. key # << >>
  BY SMTT(30) DEF Key
<1> HIDE DEF w, value
<1> QED BY <1>2, <1>4, <1>5, <1>6, <1>7 DEF Tells, value, q

-----------------------------------------------------------------------------
(* Split and joined *)

(* Parts of a text, and the steps in which split() finds them. *)
Texts == Seq(Bytes)
Parts == {p \in Seq(Texts) : p # << >>}
SplitStep(p, x, c) == IF x = c THEN Append(p, << >>) ELSE Lengthened(p, x)
Splits(run, text, c) ==
  /\ run \in [0 .. Len(text) -> Parts] /\ run[0] = << << >> >>
  /\ \A i \in 1 .. Len(text) : run[i] = SplitStep(run[i - 1], text[i], c)

(* The last part gets longer, the others stay. *)
LEMMA LengthenedSays ==
  ASSUME NEW p \in Parts, NEW x \in Bytes
  PROVE  /\ Lengthened(p, x) \in Parts /\ Len(Lengthened(p, x)) = Len(p)
         /\ Lengthened(p, x)[Len(p)] = Append(p[Len(p)], x)
         /\ \A i \in 1 .. Len(p) : i # Len(p) => Lengthened(p, x)[i] = p[i]
<1> DEFINE n == Len(p)
           e == Append(p[n], x)
           q == [p EXCEPT ![n] = e]
<1>1. p \in Seq(Texts) /\ p # << >>
  BY DEF Parts
<1>2. n \in Nat /\ n >= 1 /\ n \in 1 .. n /\ n \in DOMAIN p /\ DOMAIN p = 1 .. n
  BY <1>1
<1>3. Lengthened(p, x) = q
  BY DEF Lengthened
<1>4. e \in Texts
  <2>1. p[n] \in Texts
    BY <1>1, <1>2, ElementOfSeq, SMTT(30)
  <2> QED BY <2>1 DEF Texts
<1> HIDE DEF e
<1>5. q[n] = e /\ (\A i \in 1 .. n : i # n => q[i] = p[i]) /\ DOMAIN q = 1 .. n
  BY <1>2, ZenonT(60)
<1>6. \A i \in 1 .. n : q[i] \in Texts
  BY <1>1, <1>2, <1>4, <1>5, ElementOfSeq, ZenonT(60)
<1>7. q = [i \in 1 .. n |-> q[i]]
  BY <1>2
<1> HIDE DEF q, n
<1>8. q \in Seq(Texts) /\ Len(q) = n
  BY <1>2, <1>6, <1>7
<1>9. q # << >>
  BY <1>2, <1>8
<1> QED BY <1>3, <1>5, <1>8, <1>9, ZenonT(60) DEF Parts, n, e

(* A step of split() keeps to the type. *)
LEMMA SplitStepType ==
  ASSUME NEW p \in Parts, NEW x \in Bytes, NEW c
  PROVE  SplitStep(p, x, c) \in Parts
<1>1. CASE x = c
  <2> DEFINE e == << >>
  <2>1. p \in Seq(Texts) /\ e \in Texts
    BY DEF Parts, Texts
  <2> HIDE DEF e
  <2>2. Append(p, e) \in Seq(Texts) /\ Append(p, e) # << >>
    BY <2>1, AppendProperties
  <2> QED BY <1>1, <2>2 DEF SplitStep, Parts, e
<1>2. CASE x # c
  BY <1>2, LengthenedSays DEF SplitStep
<1> QED BY <1>1, <1>2

(* split() as a run over its text. *)
LEMMA SplitUnfolds ==
  ASSUME NEW text \in Seq(Bytes), NEW c
  PROVE  \E run : Splits(run, text, c) /\ Split(text, c) = run[Len(text)]
<1> DEFINE n == Len(text)
           a == << << >> >>
           step == [x \in Parts \X (1 .. n) |-> SplitStep(x[1], text[x[2]], c)]
           More(p, i) == IF text[i] = c THEN Append(p, << >>) ELSE Lengthened(p, text[i])
           Unfolds(f) == f = [i \in 0 .. n |-> IF i = 0 THEN a ELSE More(f[i - 1], i)]
           run == CHOOSE f : Unfolds(f)
<1>1. n \in Nat /\ a \in Parts /\ \A i \in 1 .. n : text[i] \in Bytes
  <2>1. \A i \in 1 .. n : text[i] \in Bytes
    BY ElementOfSeq
  <2> DEFINE e == << >>
  <2>2. e \in Texts
    BY DEF Texts
  <2> HIDE DEF e
  <2>3. <<e>> \in Seq(Texts) /\ <<e>> # << >>
    BY <2>2
  <2> QED BY <2>1, <2>3 DEF Parts, e
<1>2. step \in [Parts \X (1 .. n) -> Parts]
  BY <1>1, SplitStepType
<1>3. PICK f \in Loops(Parts, n, a, step) : TRUE
  <2> HIDE DEF n, a, step
  <2> QED BY <1>1, <1>2, LoopExists
<1>4. f \in [0 .. n -> Parts] /\ f[0] = a
  BY <1>3 DEF Loops
<1>5. \A p : \A i \in 1 .. n : More(p, i) = SplitStep(p, text[i], c)
  BY DEF SplitStep
<1> HIDE DEF More
<1>6. \A i \in 1 .. n : f[i] = More(f[i - 1], i)
  <2> TAKE i \in 1 .. n
  <2>1. f[i] = step[<<f[i - 1], i>>]
    BY <1>3 DEF Loops
  <2>2. <<f[i - 1], i>> \in Parts \X (1 .. n)
    <3> HIDE DEF n, a, step
    <3>1. i - 1 \in 0 .. n
      BY <1>1
    <3> QED BY <1>4, <3>1
  <2>3. f[i] = SplitStep(f[i - 1], text[i], c)
    BY <2>1, <2>2
  <2> QED BY <1>5, <2>3
<1>7. Unfolds(f)
  <2> HIDE DEF n, a, step
  <2>1. \A i \in 0 .. n : f[i] = IF i = 0 THEN a ELSE More(f[i - 1], i)
    <3> TAKE i \in 0 .. n
    <3>1. i # 0 => i \in 1 .. n
      BY <1>1
    <3> QED BY <1>4, <1>6, <3>1
  <2> QED BY <1>4, <2>1
<1>8. Unfolds(run)
  <2> HIDE DEF Unfolds
  <2> QED BY <1>7
<1>9. Split(text, c) = run[n]
  BY DEF Split, More
<1> HIDE DEF run, step, a, n
<1>10. \A i \in 0 .. n : run[i] = IF i = 0 THEN a ELSE More(run[i - 1], i)
  BY <1>8
<1>11. run[0] = a /\ \A i \in 1 .. n : run[i] = SplitStep(run[i - 1], text[i], c)
  <2>1. 0 \in 0 .. n /\ \A i \in 1 .. n : i \in 0 .. n /\ i # 0
    BY <1>1
  <2> QED BY <1>5, <1>10, <2>1
<1>12. run = [k \in 0 .. n |-> run[k]]
  BY <1>8
<1> DEFINE T == {k \in Nat : run[k] \in Parts}
<1>13. \A k \in 0 .. n : k \in T
  <2>1. 0 \in T
    BY <1>1, <1>11
  <2>2. \A i \in 1 .. n : i - 1 \in T => i \in T
    BY <1>1, <1>11, SplitStepType
  <2> HIDE DEF T
  <2> QED BY <1>1, <2>1, <2>2, BoundedInduction
<1>14. run \in [0 .. n -> Parts]
  BY <1>12, <1>13
<1> QED BY <1>9, <1>11, <1>14 DEF Splits, n, a

(* Nothing is split into one part, which is empty. *)
LEMMA SplitNothing ==
  ASSUME NEW c
  PROVE  Split(<< >>, c) = << << >> >>
<1> DEFINE t == << >>
<1>1. t \in Seq(Bytes) /\ Len(t) = 0
  OBVIOUS
<1> HIDE DEF t
<1>2. PICK run : Splits(run, t, c) /\ Split(t, c) = run[Len(t)]
  BY <1>1, SplitUnfolds
<1> QED BY <1>1, <1>2 DEF Splits, t

(* One character more. *)
LEMMA SplitMore ==
  ASSUME NEW t \in Seq(Bytes), NEW x \in Bytes, NEW c
  PROVE  /\ Split(t, c) \in Parts
         /\ Split(t \o <<x>>, c) = SplitStep(Split(t, c), x, c)
<1> DEFINE o == <<x>>
           u == t \o o
           n == Len(t)
<1>1. o \in Seq(Bytes) /\ Len(o) = 1 /\ o[1] = x /\ n \in Nat
  OBVIOUS
<1> HIDE DEF o
<1>2. /\ u \in Seq(Bytes) /\ Len(u) = n + 1 /\ \A i \in 1 .. n : u[i] = t[i]
      /\ u[n + 1] = x
  <2>0. t \in Seq(Bytes) /\ o \in Seq(Bytes)
    BY <1>1
  <2> HIDE DEF n
  <2>1. /\ u \in Seq(Bytes) /\ Len(u) = Len(t) + Len(o)
        /\ \A i \in 1 .. Len(t) : u[i] = t[i]
        /\ \A i \in 1 .. Len(o) : u[Len(t) + i] = o[i]
    BY <2>0, ConcatSays
  <2>2. 1 \in 1 .. Len(o)
    BY <1>1
  <2> QED BY <1>1, <2>1, <2>2 DEF n
<1> HIDE DEF u
<1>3. PICK f : Splits(f, t, c) /\ Split(t, c) = f[n]
  BY SplitUnfolds
<1>4. PICK g : Splits(g, u, c) /\ Split(u, c) = g[n + 1]
  BY <1>2, SplitUnfolds
<1> HIDE DEF n
<1>5. /\ f[0] = << << >> >> /\ f \in [0 .. n -> Parts]
      /\ \A i \in 1 .. n : f[i] = SplitStep(f[i - 1], t[i], c)
  BY <1>3 DEF Splits, n
<1>6. /\ g[0] = << << >> >>
      /\ \A i \in 1 .. n + 1 : g[i] = SplitStep(g[i - 1], u[i], c)
  BY <1>2, <1>4 DEF Splits
<1> DEFINE T == {k \in Nat : f[k] = g[k]}
<1>7. n \in T
  <2>1. 0 \in T
    BY <1>5, <1>6
  <2>2. \A k \in 1 .. n : k - 1 \in T => k \in T
    <3> TAKE k \in 1 .. n
    <3>1. k \in 1 .. n + 1 /\ k \in Nat
      BY <1>1
    <3> QED BY <1>2, <1>5, <1>6, <3>1
  <2> HIDE DEF T
  <2>3. \A k \in 0 .. n : k \in T
    BY <1>1, <2>1, <2>2, BoundedInduction
  <2> QED BY <1>1, <2>3
<1>8. g[n + 1] = SplitStep(g[n], x, c)
  <2>1. n + 1 \in 1 .. n + 1 /\ (n + 1) - 1 = n
    BY <1>1
  <2> QED BY <1>2, <1>6, <2>1
<1>9. f[n] \in Parts
  BY <1>1, <1>5
<1> QED BY <1>3, <1>4, <1>7, <1>8, <1>9 DEF u, o

(* One part gets longer. *)
LEMMA LengthenedOne ==
  ASSUME NEW w \in Seq(Bytes), NEW x \in Bytes
  PROVE  Lengthened(<<w>>, x) = <<w \o <<x>>>>
<1> DEFINE p == <<w>>
           q == <<w \o <<x>>>>
<1>0. Append(w, x) = w \o <<x>>
  BY AppendIsConcat
<1>1. p \in Parts /\ Len(p) = 1 /\ p[1] = w
  BY DEF Parts, Texts
<1> HIDE DEF p
<1>2. /\ Lengthened(p, x) \in Parts /\ Len(Lengthened(p, x)) = 1
      /\ Lengthened(p, x)[1] = Append(w, x)
  BY <1>1, LengthenedSays, ZenonT(60)
<1> DEFINE r == Lengthened(p, x)
<1>3. r \in Seq(Texts) /\ Len(r) = 1 /\ r[1] = w \o <<x>>
  BY <1>0, <1>2 DEF Parts
<1> HIDE DEF r
<1>4. r = <<r[1]>>
  BY <1>3
<1> QED BY <1>3, <1>4 DEF p, r

(* What has none of them is not split. *)
LEMMA SplitWhole ==
  ASSUME NEW c, NEW u \in Seq(Bytes), \A i \in 1 .. Len(u) : u[i] # c
  PROVE  Split(u, c) = <<u>>
<1> DEFINE n == Len(u)
           Front_(k) == SubSeq(u, 1, k)
           T == {k \in Nat : Split(Front_(k), c) = <<Front_(k)>>}
<1>1. n \in Nat /\ Front_(n) = u /\ Front_(0) = << >>
  BY SubSeqFull
<1>2. 0 \in T
  BY <1>1, SplitNothing
<1>3. ASSUME NEW k \in 1 .. n, k - 1 \in T PROVE k \in T
  <2> DEFINE w == Front_(k - 1)
             x == u[k]
  <2>1. w \o <<x>> = Front_(k)
    BY OneMoreOf
  <2>2. w \in Seq(Bytes) /\ x \in Bytes /\ x # c /\ k \in Nat
    <3>1. x \in Bytes
      BY ElementOfSeq
    <3> QED BY <1>1, <3>1
  <2>3. Split(w, c) = <<w>>
    BY <1>3
  <2> HIDE DEF w, x, Front_
  <2>4. Split(w \o <<x>>, c) = SplitStep(Split(w, c), x, c)
    BY <2>2, SplitMore
  <2>5. SplitStep(<<w>>, x, c) = <<w \o <<x>>>>
    BY <2>2, LengthenedOne DEF SplitStep
  <2> QED BY <2>1, <2>2, <2>3, <2>4, <2>5
<1>4. n \in T
  <2> HIDE DEF T, n
  <2>1. \A k \in 0 .. n : k \in T
    BY <1>1, <1>2, <1>3, BoundedInduction
  <2> QED BY <1>1, <2>1
<1> HIDE DEF Front_
<1> QED BY <1>1, <1>4

(* A step leaves the parts in front alone. *)
LEMMA StepBehind ==
  ASSUME NEW u \in Seq(Bytes), NEW p \in Parts, NEW x \in Bytes, NEW c
  PROVE  SplitStep(<<u>> \o p, x, c) = <<u>> \o SplitStep(p, x, c)
<1> DEFINE o == <<u>>
           h == o \o p
<1>1. o \in Seq(Texts) /\ Len(o) = 1 /\ o[1] = u /\ p \in Seq(Texts) /\ p # << >>
  BY DEF Parts, Texts
<1>2. o \in Seq(Texts) /\ p \in Seq(Texts)
  BY <1>1
<1> HIDE DEF o
<1>3. /\ h \in Seq(Texts) /\ Len(h) = Len(o) + Len(p)
      /\ \A i \in 1 .. Len(o) : h[i] = o[i]
      /\ \A i \in 1 .. Len(p) : h[Len(o) + i] = p[i]
  BY <1>2, ConcatSays
<1> DEFINE n == Len(p)
<1>4. n \in Nat /\ n >= 1
  BY <1>1
<1>5. CASE x = c
  <2> DEFINE e == << >>
  <2>1. e \in Texts
    BY DEF Texts
  <2> HIDE DEF e
  <2>2. <<e>> \in Seq(Texts)
    BY <2>1
  <2>3. Append(h, e) = h \o <<e>> /\ Append(p, e) = p \o <<e>>
    BY <1>2, <1>3, <2>1, AppendIsConcat
  <2> DEFINE l == <<e>>
  <2>4. l \in Seq(Texts)
    BY <2>2
  <2> HIDE DEF l
  <2>5. (o \o p) \o l = o \o (p \o l)
    BY <1>2, <2>4, Assoc, SMTT(30)
  <2>6. SplitStep(h, x, c) = Append(h, e) /\ SplitStep(p, x, c) = Append(p, e)
    BY <1>5 DEF SplitStep, e
  <2> QED BY <2>3, <2>5, <2>6 DEF l, o
<1>6. CASE x # c
  <2> DEFINE q == Lengthened(p, x)
             b == o \o q
             a == Lengthened(h, x)
  <2>0. h # << >>
    <3>1. Len(h) # 0
      BY <1>1, <1>3, <1>4
    <3> QED BY <3>1
  <2>a. h \in Parts
    BY <1>3, <2>0 DEF Parts
  <2> HIDE DEF h
  <2>1. /\ q \in Parts /\ Len(q) = n /\ q[n] = Append(p[n], x)
        /\ \A i \in 1 .. n : i # n => q[i] = p[i]
    BY LengthenedSays
  <2>2. /\ a \in Parts /\ Len(a) = Len(h) /\ a[Len(h)] = Append(h[Len(h)], x)
        /\ \A i \in 1 .. Len(h) : i # Len(h) => a[i] = h[i]
    BY <2>a, LengthenedSays
  <2> HIDE DEF a, q
  <2>3. q \in Seq(Texts) /\ a \in Seq(Texts)
    BY <2>1, <2>2 DEF Parts
  <2>4. /\ b \in Seq(Texts) /\ Len(b) = Len(o) + Len(q)
        /\ \A i \in 1 .. Len(o) : b[i] = o[i]
        /\ \A i \in 1 .. Len(q) : b[Len(o) + i] = q[i]
    BY <1>2, <2>3, ConcatSays
  <2> HIDE DEF b
  <2>5. Len(h) = n + 1 /\ Len(b) = n + 1 /\ Len(a) = n + 1
    BY <1>1, <1>3, <1>4, <2>1, <2>2, <2>4
  <2>6. ASSUME NEW i \in 1 .. n + 1 PROVE a[i] = b[i]
    <3>1. CASE i = 1
      <4>1. 1 \in 1 .. Len(o) /\ 1 \in 1 .. Len(h) /\ 1 # Len(h)
        BY <1>1, <1>4, <2>5
      <4> QED BY <1>3, <2>2, <2>4, <3>1, <4>1 DEF h
    <3>2. CASE i # 1
      <4> DEFINE j == i - 1
      <4>1. j \in 1 .. n /\ i = Len(o) + j /\ (j = n <=> i = Len(h)) /\ i \in 1 .. Len(h)
        BY <1>1, <1>4, <2>5, <3>2
      <4> HIDE DEF j
      <4>2. b[i] = q[j]
        BY <2>1, <2>4, <4>1
      <4>3. h[i] = p[j]
        BY <1>3, <4>1 DEF h
      <4>4. CASE j = n
        BY <2>1, <2>2, <4>1, <4>2, <4>3, <4>4
      <4>5. CASE j # n
        BY <2>1, <2>2, <4>1, <4>2, <4>3, <4>5
      <4> QED BY <4>4, <4>5
    <3> QED BY <3>1, <3>2
  <2>7. a = b
    BY <2>3, <2>4, <2>5, <2>6, SeqEqual
  <2> QED BY <1>6, <2>7 DEF SplitStep, a, b, q, h, o
<1> QED BY <1>5, <1>6 DEF h, o

(* One more character behind two texts. *)
LEMMA AssocOne ==
  ASSUME NEW h \in Seq(Bytes), NEW w \in Seq(Bytes), NEW x \in Bytes
  PROVE  (h \o w) \o <<x>> = h \o (w \o <<x>>)
<1> DEFINE o == <<x>>
<1>1. o \in Seq(Bytes)
  OBVIOUS
<1> HIDE DEF o
<1>2. (h \o w) \o o = h \o (w \o o)
  BY <1>1, Assoc
<1> QED BY <1>2 DEF o

(* The first part, and what follows it. *)
LEMMA SplitFirst ==
  ASSUME NEW c \in Bytes, NEW u \in Seq(Bytes), \A i \in 1 .. Len(u) : u[i] # c,
         NEW v \in Seq(Bytes)
  PROVE  Split((u \o <<c>>) \o v, c) = <<u>> \o Split(v, c)
<1> DEFINE n == Len(v)
           h == u \o <<c>>
           Front_(k) == SubSeq(v, 1, k)
           T == {k \in Nat : Split(h \o Front_(k), c) = <<u>> \o Split(Front_(k), c)}
<1>1. n \in Nat /\ Front_(n) = v /\ Front_(0) = << >>
  BY SubSeqFull
<1>2. h \in Seq(Bytes)
  OBVIOUS
<1>3. 0 \in T
  <2> DEFINE e == << >>
  <2>1. Split(h, c) = SplitStep(Split(u, c), c, c)
    BY SplitMore
  <2>2. Split(u, c) = <<u>>
    BY SplitWhole
  <2>3. SplitStep(<<u>>, c, c) = Append(<<u>>, e)
    BY DEF SplitStep
  <2>4. u \in Texts /\ e \in Texts
    BY DEF Texts
  <2> HIDE DEF e, h
  <2>5. Append(<<u>>, e) = <<u>> \o <<e>>
    <3>1. <<u>> \in Seq(Texts)
      BY <2>4
    <3> QED BY <2>4, <3>1, AppendIsConcat
  <2>6. Split(e, c) = <<e>>
    BY SplitNothing DEF e
  <2>7. h \o << >> = h
    BY <1>2, ConcatEmptySeq
  <2> QED BY <1>1, <2>1, <2>2, <2>3, <2>5, <2>6, <2>7 DEF e
<1> HIDE DEF h
<1>4. ASSUME NEW k \in 1 .. n, k - 1 \in T PROVE k \in T
  <2> DEFINE w == Front_(k - 1)
             x == v[k]
  <2>1. w \o <<x>> = Front_(k)
    BY OneMoreOf
  <2>2. w \in Seq(Bytes) /\ x \in Bytes /\ k \in Nat
    <3>1. x \in Bytes
      BY ElementOfSeq
    <3> QED BY <1>1, <3>1
  <2>3. Split(h \o w, c) = <<u>> \o Split(w, c)
    BY <1>4
  <2> HIDE DEF w, Front_
  <2>4. h \o w \in Seq(Bytes)
    BY <1>2, <2>2, ConcatInSeq
  <2>5. (h \o w) \o <<x>> = h \o (w \o <<x>>)
    BY <1>2, <2>2, AssocOne
  <2> HIDE DEF x
  <2>6. /\ Split((h \o w) \o <<x>>, c) = SplitStep(Split(h \o w, c), x, c)
        /\ Split(w \o <<x>>, c) = SplitStep(Split(w, c), x, c)
        /\ Split(w, c) \in Parts
    BY <2>2, <2>4, SplitMore
  <2>7. SplitStep(<<u>> \o Split(w, c), x, c) = <<u>> \o SplitStep(Split(w, c), x, c)
    BY <2>2, <2>6, StepBehind, ZenonT(60)
  <2>8. Split(h \o Front_(k), c) = <<u>> \o Split(Front_(k), c)
    BY <2>1, <2>3, <2>5, <2>6, <2>7
  <2> QED BY <2>2, <2>8
<1>5. n \in T
  <2> HIDE DEF T, n
  <2>1. \A k \in 0 .. n : k \in T
    BY <1>1, <1>3, <1>4, BoundedInduction
  <2> QED BY <1>1, <2>1
<1> HIDE DEF Front_
<1> QED BY <1>1, <1>5 DEF h

(* From one place on, and from the next. *)
LEMMA FromStep ==
  ASSUME NEW S, NEW s \in Seq(S), NEW i \in 1 .. Len(s)
  PROVE  /\ <<s[i]>> \o From(s, i + 1) = From(s, i)
         /\ From(s, i) \in Seq(S) /\ From(s, i + 1) \in Seq(S)
<1> DEFINE o == <<s[i]>>
           u == From(s, i + 1)
           v == From(s, i)
           b == o \o u
           n == Len(s)
<1>1. n \in Nat /\ i \in Nat \ {0} /\ i <= n + 1 /\ i + 1 \in Nat \ {0} /\ i + 1 <= n + 1
  OBVIOUS
<1>2. o \in Seq(S) /\ Len(o) = 1 /\ o[1] = s[i]
  <2>1. s[i] \in S
    BY ElementOfSeq
  <2> QED BY <2>1
<1>3. /\ u \in Seq(S) /\ Len(u) = (n - (i + 1)) + 1
      /\ \A j \in 1 .. (n - (i + 1)) + 1 : u[j] = s[((i + 1) - 1) + j]
  BY <1>1, FromSays
<1>4. /\ v \in Seq(S) /\ Len(v) = (n - i) + 1
      /\ \A j \in 1 .. (n - i) + 1 : v[j] = s[(i - 1) + j]
  BY <1>1, FromSays
<1>5. o \in Seq(S) /\ u \in Seq(S)
  BY <1>2, <1>3
<1> HIDE DEF o, u, v
<1>6. /\ b \in Seq(S) /\ Len(b) = Len(o) + Len(u)
      /\ \A j \in 1 .. Len(o) : b[j] = o[j]
      /\ \A j \in 1 .. Len(u) : b[Len(o) + j] = u[j]
  BY <1>5, ConcatSays
<1> HIDE DEF b, n
<1>7. Len(b) = (n - i) + 1
  BY <1>1, <1>2, <1>3, <1>6
<1>8. ASSUME NEW j \in 1 .. (n - i) + 1 PROVE b[j] = v[j]
  <2>1. CASE j = 1
    <3>1. 1 \in 1 .. Len(o) /\ (i - 1) + 1 = i
      BY <1>1, <1>2
    <3> QED BY <1>2, <1>4, <1>6, <2>1, <3>1
  <2>2. CASE j # 1
    <3> DEFINE k == j - 1
    <3>1. k \in 1 .. Len(u) /\ k \in 1 .. (n - (i + 1)) + 1 /\ j = Len(o) + k
          /\ ((i + 1) - 1) + k = (i - 1) + j
      <4>1. n \in Nat /\ i \in Nat /\ j \in 1 .. (n - i) + 1 /\ j # 1
        BY <1>1, <2>2
      <4>2. k \in 1 .. (n - (i + 1)) + 1 /\ j = 1 + k /\ ((i + 1) - 1) + k = (i - 1) + j
        BY <4>1
      <4> QED BY <1>2, <1>3, <4>2
    <3> HIDE DEF k
    <3>2. b[j] = u[k]
      BY <1>6, <3>1
    <3>3. u[k] = s[(i - 1) + j]
      BY <1>3, <3>1
    <3> QED BY <1>4, <3>2, <3>3
  <2> QED BY <2>1, <2>2
<1>9. b = v
  BY <1>4, <1>6, <1>7, <1>8, SeqEqual
<1> QED BY <1>3, <1>4, <1>9 DEF b, o, u, v

(* The texts without a character. *)
Without(c) == {u \in Seq(Bytes) : \A i \in 1 .. Len(u) : u[i] # c}

(* The parts of a joined text, and what is still to come after each. *)
Links(S, c, parts, tails) ==
  /\ parts \in Seq(Seq(S)) /\ parts # << >> /\ tails \in [0 .. Len(parts) -> Seq(S)]
  /\ tails[Len(parts)] = << >>
  /\ \A i \in 1 .. Len(parts) : tails[i - 1] = (<<c>> \o parts[i]) \o tails[i]
  /\ JoinedBy(c, parts) = parts[1] \o tails[1]

(* There are such. *)
LEMMA JoinedLinks ==
  ASSUME NEW S, NEW c \in S, NEW parts \in Seq(Seq(S)), parts # << >>
  PROVE  \E tails : Links(S, c, parts, tails)
<1> DEFINE o == <<c>>
           n == Len(parts)
           d == [i \in DOMAIN parts |-> o \o parts[i]]
<1>1. o \in Seq(S) /\ o # << >> /\ Tail(o) = << >>
  OBVIOUS
<1>2. n \in Nat /\ DOMAIN parts = 1 .. n /\ 1 \in 1 .. n
  OBVIOUS
<1>a. JoinedBy(c, parts) = Tail(FlattenSeq(d))
  BY DEF JoinedBy
<1> HIDE DEF o
<1>3. \A i \in 1 .. n : o \o parts[i] \in Seq(S) /\ parts[i] \in Seq(S)
  <2> TAKE i \in 1 .. n
  <2>1. parts[i] \in Seq(S)
    <3> DEFINE Q == Seq(S)
    <3>1. parts \in Seq(Q) /\ i \in 1 .. Len(parts)
      OBVIOUS
    <3> HIDE DEF Q
    <3>2. parts[i] \in Q
      BY <3>1, ElementOfSeq
    <3> QED BY <3>2 DEF Q
  <2> QED BY <1>1, <2>1, ConcatInSeq
<1>4. d \in Seq(Seq(S)) /\ Len(d) = n /\ \A i \in 1 .. n : d[i] = o \o parts[i]
  <2> HIDE DEF n
  <2> QED BY <1>2, <1>3
<1> HIDE DEF d
<1>5. PICK tails \in Tails(S, d) : TRUE
  BY <1>4, FlattenTails
<1>6. /\ tails \in [0 .. n -> Seq(S)] /\ tails[0] = FlattenSeq(d) /\ tails[n] = << >>
      /\ \A i \in 1 .. n : tails[i - 1] = (o \o parts[i]) \o tails[i]
  BY <1>4, <1>5 DEF Tails
<1>7. tails[1] \in Seq(S) /\ parts[1] \in Seq(S) /\ o \in Seq(S)
  <2> DEFINE Q == Seq(S)
  <2>1. tails \in [0 .. n -> Q] /\ 1 \in 0 .. n
    BY <1>2, <1>6
  <2> HIDE DEF Q, n
  <2>2. tails[1] \in Q
    BY <2>1
  <2>3. parts[1] \in Seq(S)
    BY <1>2, <1>3
  <2> QED BY <1>1, <2>2, <2>3 DEF Q
<1>8. tails[0] = (o \o parts[1]) \o tails[1]
  <2>1. 1 - 1 = 0
    OBVIOUS
  <2> QED BY <1>2, <1>6, <2>1
<1>9. Tail(tails[0]) = parts[1] \o tails[1]
  <2> DEFINE p == parts[1]
             t == tails[1]
             r == p \o t
  <2>1. p \in Seq(S) /\ t \in Seq(S) /\ tails[0] = (o \o p) \o t
    BY <1>7, <1>8
  <2> HIDE DEF p, t, n
  <2>a. o \in Seq(S) /\ p \in Seq(S) /\ t \in Seq(S)
    BY <1>1, <2>1
  <2>2. (o \o p) \o t = o \o (p \o t)
    BY <2>a, Assoc, SMTT(30)
  <2>3. r \in Seq(S)
    BY <2>1, ConcatInSeq
  <2>4. tails[0] = o \o r
    BY <2>1, <2>2
  <2> HIDE DEF r
  <2>5. Tail(o \o r) = Tail(o) \o r
    BY <1>1, <2>3, TailConcat
  <2>6. << >> \o r = r
    BY <2>3, ConcatEmptySeq
  <2> QED BY <1>1, <2>4, <2>5, <2>6 DEF r, p, t
<1> QED BY <1>a, <1>6, <1>9 DEF Links, o

(* Joined texts stay within the type. *)
LEMMA JoinedByType ==
  ASSUME NEW S, NEW c \in S, NEW parts \in Seq(Seq(S)), parts # << >>
  PROVE  JoinedBy(c, parts) \in Seq(S)
<1>1. PICK tails : Links(S, c, parts, tails)
  BY JoinedLinks
<1>2. 1 \in 1 .. Len(parts) /\ 1 \in 0 .. Len(parts)
  OBVIOUS
<1>3. tails[1] \in Seq(S)
  BY <1>1, <1>2 DEF Links
<1>4. parts[1] \in Seq(S)
  <2> DEFINE Q == Seq(S)
  <2>1. parts \in Seq(Q)
    OBVIOUS
  <2> HIDE DEF Q
  <2>2. parts[1] \in Q
    BY <1>2, <2>1, ElementOfSeq
  <2> QED BY <2>2 DEF Q
<1>5. parts[1] \o tails[1] \in Seq(S)
  BY <1>3, <1>4, ConcatInSeq
<1> QED BY <1>1, <1>5 DEF Links

(* split() takes apart what join() put together. *)
LEMMA SplitJoined ==
  ASSUME NEW c \in Bytes, NEW parts \in Seq(Without(c)), parts # << >>
  PROVE  Split(JoinedBy(c, parts), c) = parts
<1> DEFINE n == Len(parts)
<1>1. n \in Nat /\ n >= 1
  OBVIOUS
<1>2. \A i \in 1 .. n : parts[i] \in Without(c)
  BY ElementOfSeq
<1>3. parts \in Seq(Texts)
  <2>1. Without(c) \subseteq Texts
    BY DEF Without, Texts
  <2> QED BY <2>1, SeqMonotonic
<1>4. PICK tails : Links(Bytes, c, parts, tails)
  BY <1>3, JoinedLinks DEF Texts
<1>5. /\ tails \in [0 .. n -> Seq(Bytes)] /\ tails[n] = << >>
      /\ \A i \in 1 .. n : tails[i - 1] = (<<c>> \o parts[i]) \o tails[i]
      /\ JoinedBy(c, parts) = parts[1] \o tails[1]
  BY <1>4 DEF Links
<1> HIDE DEF n
<1> DEFINE Reads_(k) == \A x \in Without(c) :
             Split(x \o tails[n - k], c) = <<x>> \o From(parts, (n - k) + 1)
           T == {k \in Nat : Reads_(k)}
<1>6. 0 \in T
  <2>1. ASSUME NEW x \in Without(c)
        PROVE  Split(x \o tails[n - 0], c) = <<x>> \o From(parts, (n - 0) + 1)
    <3>1. x \in Seq(Bytes) /\ \A i \in 1 .. Len(x) : x[i] # c
      BY DEF Without
    <3>2. n - 0 = n /\ x \o << >> = x
      BY <1>1, <3>1, ConcatEmptySeq
    <3>3. Split(x, c) = <<x>>
      BY <3>1, SplitWhole
    <3>4. From(parts, n + 1) = << >>
      BY <1>1, <1>3 DEF From, n
    <3>5. <<x>> \o << >> = <<x>>
      <4>1. <<x>> \in Seq(Texts)
        BY <3>1 DEF Texts
      <4> QED BY <4>1, ConcatEmptySeq
    <3> QED BY <1>5, <3>2, <3>3, <3>4, <3>5
  <2> QED BY <2>1
<1>7. ASSUME NEW k \in 1 .. n, k - 1 \in T PROVE k \in T
  <2> DEFINE i == (n - k) + 1
             p == parts[i]
             t == tails[i]
  <2>1. i \in 1 .. n /\ i \in 0 .. n /\ i - 1 = n - k /\ n - (k - 1) = i /\ k \in Nat
    BY <1>1
  <2> HIDE DEF i
  <2>2. p \in Without(c) /\ t \in Seq(Bytes)
    BY <1>2, <1>5, <2>1
  <2>3. tails[n - k] = (<<c>> \o p) \o t
    BY <1>5, <2>1
  <2>4. Split(p \o t, c) = <<p>> \o From(parts, i + 1)
    <3>1. Reads_(k - 1)
      BY <1>7
    <3> QED BY <2>1, <2>2, <3>1
  <2>5. <<p>> \o From(parts, i + 1) = From(parts, i)
    <3>1. i \in 1 .. Len(parts)
      BY <2>1 DEF n
    <3> HIDE DEF n
    <3> QED BY <1>3, <3>1, FromStep
  <2> HIDE DEF p, t
  <2>6. p \in Seq(Bytes)
    BY <2>2 DEF Without
  <2>7. ASSUME NEW x \in Without(c)
        PROVE  Split(x \o tails[n - k], c) = <<x>> \o From(parts, i)
    <3> DEFINE o == <<c>>
               y == p \o t
    <3>1. x \in Seq(Bytes) /\ o \in Seq(Bytes) /\ y \in Seq(Bytes)
          /\ \A j \in 1 .. Len(x) : x[j] # c
      <4>1. y \in Seq(Bytes)
        BY <2>2, <2>6, ConcatInSeq
      <4> QED BY <4>1 DEF Without
    <3> HIDE DEF o
    <3>2. (o \o p) \o t = o \o y
      <4> HIDE DEF Reads_, T
      <4>1. o \in Seq(Bytes) /\ p \in Seq(Bytes) /\ t \in Seq(Bytes)
        BY <2>2, <2>6, <3>1
      <4>2. (o \o p) \o t = o \o (p \o t)
        BY <4>1, Assoc, SMTT(30)
      <4> QED BY <4>2
    <3> HIDE DEF y
    <3>3. x \o (o \o y) = (x \o o) \o y
      BY <3>1, Assoc, SMTT(30)
    <3>4. Split((x \o <<c>>) \o y, c) = <<x>> \o Split(y, c)
      BY <3>1, SplitFirst
    <3> QED BY <2>3, <2>4, <2>5, <3>2, <3>3, <3>4 DEF o, y
  <2>8. Reads_(k)
    BY <2>1, <2>7 DEF i
  <2> HIDE DEF Reads_
  <2> QED BY <2>1, <2>8
<1>8. n - 1 \in T
  <2> HIDE DEF T
  <2>1. \A k \in 0 .. n : k \in T
    BY <1>1, <1>6, <1>7, BoundedInduction
  <2> QED BY <1>1, <2>1
<1>9. n - (n - 1) = 1 /\ 1 \in 1 .. n
  BY <1>1
<1>10. parts[1] \in Without(c)
  BY <1>2, <1>9
<1>11. Split(parts[1] \o tails[1], c) = <<parts[1]>> \o From(parts, 1 + 1)
  BY <1>8, <1>9, <1>10
<1>12. <<parts[1]>> \o From(parts, 1 + 1) = From(parts, 1)
  <2> DEFINE one == 1
  <2>1. one \in 1 .. Len(parts)
    BY <1>9 DEF n
  <2> HIDE DEF one
  <2>2. <<parts[one]>> \o From(parts, one + 1) = From(parts, one)
    BY <1>3, <2>1, FromStep
  <2> QED BY <2>2 DEF one
<1>13. From(parts, 1) = parts
  BY <1>3, SubSeqFull DEF From
<1> QED BY <1>5, <1>11, <1>12, <1>13

(* Those are the texts of the other octets. *)
LEMMA WithoutIs == \A c : Without(c) = Seq(Bytes \ {c})
<1> SUFFICES ASSUME NEW c PROVE Without(c) = Seq(Bytes \ {c})
  OBVIOUS
<1> DEFINE B == Bytes \ {c}
<1>1. ASSUME NEW u \in Without(c) PROVE u \in Seq(B)
  <2>1. u \in Seq(Bytes) /\ \A i \in 1 .. Len(u) : u[i] # c
    BY DEF Without
  <2>2. \A i \in 1 .. Len(u) : u[i] \in B
    BY <2>1, ElementOfSeq
  <2>3. u = [i \in 1 .. Len(u) |-> u[i]] /\ Len(u) \in Nat
    BY <2>1
  <2> HIDE DEF B
  <2> QED BY <2>2, <2>3
<1>2. ASSUME NEW u \in Seq(B) PROVE u \in Without(c)
  <2>1. B \subseteq Bytes
    OBVIOUS
  <2>2. u \in Seq(Bytes)
    <3> HIDE DEF B
    <3> QED BY <2>1, SeqMonotonic
  <2>3. \A i \in 1 .. Len(u) : u[i] \in B
    <3> HIDE DEF B
    <3> QED BY ElementOfSeq
  <2> QED BY <2>2, <2>3 DEF Without
<1> QED BY <1>1, <1>2

(* Joining with one character brings no other in. *)
LEMMA JoinedWithout ==
  ASSUME NEW c \in Bytes, NEW x, c # x, NEW parts \in Seq(Without(x)), parts # << >>
  PROVE  JoinedBy(c, parts) \in Without(x)
<1> DEFINE B == Bytes \ {x}
<1>1. c \in B
  OBVIOUS
<1>2. parts \in Seq(Seq(B))
  BY WithoutIs
<1> HIDE DEF B
<1>3. JoinedBy(c, parts) \in Seq(B)
  BY <1>1, <1>2, JoinedByType
<1> QED BY <1>3, WithoutIs DEF B

(* What a text ends in. *)
EndsIn(u, x) == u \in Seq(Bytes) /\ u # << >> /\ u[Len(u)] = x

(* Two texts end as the second does. *)
LEMMA EndsBoth ==
  ASSUME NEW u \in Seq(Bytes), NEW v, NEW x, EndsIn(v, x)
  PROVE  EndsIn(u \o v, x)
<1> DEFINE w == u \o v
<1>1. v \in Seq(Bytes) /\ Len(v) \in Nat /\ Len(v) # 0 /\ v[Len(v)] = x
  BY DEF EndsIn
<1>2. /\ w \in Seq(Bytes) /\ Len(w) = Len(u) + Len(v)
      /\ \A i \in 1 .. Len(v) : w[Len(u) + i] = v[i]
  BY <1>1, ConcatSays
<1>3. Len(v) \in 1 .. Len(v) /\ Len(u) \in Nat
  BY <1>1
<1> HIDE DEF w
<1>4. w[Len(w)] = x
  BY <1>1, <1>2, <1>3
<1>5. w # << >>
  <2>1. Len(w) # 0
    BY <1>1, <1>2, <1>3
  <2> QED BY <2>1
<1> QED BY <1>2, <1>4, <1>5 DEF EndsIn, w

(* Joined texts end as the last does. *)
LEMMA JoinedEnds ==
  ASSUME NEW c \in Bytes, NEW parts \in Seq(Texts), parts # << >>, NEW x,
         EndsIn(parts[Len(parts)], x)
  PROVE  EndsIn(JoinedBy(c, parts), x)
<1> DEFINE n == Len(parts)
<1>1. n \in Nat /\ n >= 1
  OBVIOUS
<1>2. PICK tails : Links(Bytes, c, parts, tails)
  BY JoinedLinks DEF Texts
<1>3. /\ tails \in [0 .. n -> Seq(Bytes)] /\ tails[n] = << >>
      /\ \A i \in 1 .. n : tails[i - 1] = (<<c>> \o parts[i]) \o tails[i]
      /\ JoinedBy(c, parts) = parts[1] \o tails[1]
  BY <1>2 DEF Links
<1>4. \A i \in 1 .. n : parts[i] \in Seq(Bytes) /\ <<c>> \o parts[i] \in Seq(Bytes)
  <2> TAKE i \in 1 .. n
  <2>1. parts[i] \in Texts
    BY ElementOfSeq
  <2> DEFINE o == <<c>>
  <2>2. o \in Seq(Bytes)
    OBVIOUS
  <2> HIDE DEF o
  <2>3. o \o parts[i] \in Seq(Bytes)
    BY <2>1, <2>2, ConcatInSeq DEF Texts
  <2> QED BY <2>1, <2>3 DEF Texts, o
<1>5. EndsIn(parts[n], x)
  OBVIOUS
<1> HIDE DEF n
<1> DEFINE T == {k \in Nat : k = 0 \/ EndsIn(tails[n - k], x)}
<1>6. ASSUME NEW k \in 1 .. n, k - 1 \in T PROVE k \in T
  <2> DEFINE i == (n - k) + 1
             h == <<c>> \o parts[i]
  <2>1. i \in 1 .. n /\ i - 1 = n - k /\ n - (k - 1) = i /\ k \in Nat
    BY <1>1
  <2> HIDE DEF i
  <2>2. h \in Seq(Bytes) /\ tails[n - k] = h \o tails[i] /\ parts[i] \in Seq(Bytes)
    BY <1>3, <1>4, <2>1
  <2>3. CASE k = 1
    <3>1. i = n /\ tails[i] = << >>
      BY <1>1, <1>3, <2>3 DEF i
    <3> DEFINE o == <<c>>
    <3>2. o \in Seq(Bytes)
      OBVIOUS
    <3> HIDE DEF o
    <3>3. EndsIn(o \o parts[n], x)
      BY <1>5, <3>2, EndsBoth
    <3>4. h \o << >> = h
      <4> HIDE DEF h
      <4> QED BY <2>2, ConcatEmptySeq
    <3> QED BY <2>1, <2>2, <3>1, <3>3, <3>4 DEF o
  <2>4. CASE k # 1
    <3>1. EndsIn(tails[i], x)
      <4>1. k - 1 # 0
        BY <2>1, <2>4
      <4> QED BY <1>6, <2>1, <4>1
    <3> HIDE DEF h
    <3>2. EndsIn(h \o tails[i], x)
      BY <2>2, <3>1, EndsBoth
    <3> QED BY <2>1, <2>2, <3>2
  <2> QED BY <2>3, <2>4
<1>7. n - 1 \in T
  <2>1. 0 \in T
    OBVIOUS
  <2> HIDE DEF T
  <2>2. \A k \in 0 .. n : k \in T
    BY <1>1, <1>6, <2>1, BoundedInduction
  <2> QED BY <1>1, <2>2
<1>8. n - (n - 1) = 1 /\ (n - 1 = 0 <=> n = 1) /\ 1 \in 1 .. n
  BY <1>1
<1>9. CASE n = 1
  <2>1. parts[1] \in Seq(Bytes)
    BY <1>4, <1>8
  <2>2. parts[1] \o << >> = parts[1]
    BY <2>1, ConcatEmptySeq
  <2> QED BY <1>3, <1>5, <1>9, <2>2
<1>10. CASE n # 1
  <2>1. EndsIn(tails[1], x)
    BY <1>7, <1>8, <1>10
  <2>2. EndsIn(parts[1] \o tails[1], x)
    BY <1>4, <1>8, <2>1, EndsBoth
  <2> QED BY <1>3, <2>2
<1> QED BY <1>9, <1>10

(* rstrip() takes the one newline behind a text that ends in another       *)
(* character, and nothing of the text itself.                              *)
LEMMA NewlineGoes ==
  ASSUME NEW t, NEW x, EndsIn(t, x), x # Newline
  PROVE  WithoutNewlines(t \o <<Newline>>) = t /\ WithoutNewlines(t) = t
<1> DEFINE o == <<Newline>>
           w == t \o o
           n == Len(t)
<1>1. t \in Seq(Bytes) /\ n \in Nat /\ n # 0 /\ t[n] # Newline
  BY DEF EndsIn
<1>2. o \in Seq(Bytes) /\ Len(o) = 1 /\ o[1] = Newline
  BY DEF Newline, Bytes
<1> HIDE DEF o
<1>3. /\ w \in Seq(Bytes) /\ Len(w) = Len(t) + Len(o)
      /\ \A i \in 1 .. Len(t) : w[i] = t[i]
      /\ \A i \in 1 .. Len(o) : w[Len(t) + i] = o[i]
  BY <1>1, <1>2, ConcatSays, SMTT(30)
<1>4. SubSeq(w, 1, n) = t
  BY <1>1, <1>2, FrontOfConcat
<1>5. w[n + 1] = Newline /\ Len(w) = n + 1
  <2>1. 1 \in 1 .. Len(o)
    BY <1>2
  <2> QED BY <1>2, <1>3, <2>1
<1> HIDE DEF w
<1>6. ASSUME NEW u \in {t, w}
      PROVE  Max({0} \cup {i \in DOMAIN u : u[i] # Newline}) = n
  <2> DEFINE m == Len(u)
             S == {0} \cup {i \in 1 .. m : u[i] # Newline}
  <2>0. {0} \cup {i \in DOMAIN u : u[i] # Newline} = S
    <3>1. DOMAIN u = 1 .. m
      BY <1>1, <1>3
    <3> QED BY <3>1
  <2>1. m \in {n, n + 1}
    BY <1>5
  <2>2. u[n] # Newline
    <3>1. CASE u = t
      BY <1>1, <3>1
    <3>2. CASE u = w
      <4>1. n \in 1 .. Len(t)
        BY <1>1
      <4> QED BY <1>1, <1>3, <3>2, <4>1
    <3> QED BY <3>1, <3>2
  <2>3. m = n + 1 => u[n + 1] = Newline
    <3>1. m = n + 1 => u = w
      <4>1. Len(t) # n + 1
        BY <1>1
      <4> QED BY <4>1
    <3> QED BY <1>5, <3>1
  <2> HIDE DEF m, n
  <2>4. n \in Nat /\ n # 0
    BY <1>1 DEF n
  <2>5. n \in S /\ S \subseteq Nat
    BY <2>1, <2>2, <2>4
  <2>6. \A y \in S : n >= y
    <3> TAKE y \in S
    <3>1. CASE y = 0
      BY <2>4, <3>1
    <3>2. CASE y \in 1 .. m /\ u[y] # Newline
      <4>1. y # n + 1
        BY <2>1, <2>3, <2>4, <3>2
      <4> QED BY <2>1, <2>4, <3>2, <4>1
    <3> QED BY <3>1, <3>2
  <2> HIDE DEF S
  <2>7. Max(S) = n
    BY <2>5, <2>6, MaxSays
  <2> QED BY <2>0, <2>7
<1>7. SubSeq(t, 1, n) = t
  BY <1>1, SubSeqFull
<1> QED BY <1>4, <1>6, <1>7 DEF WithoutNewlines, w, o

(* A reply of several lines is read as those lines. *)
LEMMA RowsRead ==
  ASSUME NEW lines \in Seq(Without(Newline)), lines # << >>, lines[Len(lines)] # << >>
  PROVE  Lines(Rows(lines)) = lines
<1> DEFINE n == Len(lines)
           last == lines[n]
           x == last[Len(last)]
           t == JoinedBy(Newline, lines)
<1>1. Newline \in Bytes
  BY DEF Newline, Bytes
<1>2. last \in Without(Newline)
  <2>1. n \in 1 .. Len(lines)
    OBVIOUS
  <2> QED BY <2>1, ElementOfSeq
<1>3. last \in Seq(Bytes) /\ last # << >> /\ x # Newline
  <2>1. last \in Seq(Bytes) /\ \A i \in 1 .. Len(last) : last[i] # Newline
    BY <1>2 DEF Without
  <2>2. Len(last) \in 1 .. Len(last)
    BY <2>1
  <2> QED BY <2>1, <2>2
<1>4. EndsIn(last, x)
  BY <1>3 DEF EndsIn
<1>5. lines \in Seq(Texts)
  <2>1. Without(Newline) \subseteq Texts
    BY DEF Without, Texts
  <2> QED BY <2>1, SeqMonotonic
<1> HIDE DEF x
<1>6. EndsIn(t, x)
  BY <1>1, <1>4, <1>5, JoinedEnds
<1>7. WithoutNewlines(t \o <<Newline>>) = t
  BY <1>3, <1>6, NewlineGoes
<1>8. Split(t, Newline) = lines
  BY <1>1, SplitJoined
<1> QED BY <1>7, <1>8 DEF Lines, Rows

-----------------------------------------------------------------------------
(* Events *)

(* parse_event() on a message with a priority, a name and parameters. *)
LEMMA EventReads ==
  ASSUME NEW name \in Seq(Bytes), \A i \in 1 .. Len(name) : name[i] # Space,
         NEW params, NEW x, EndsIn(params, x), x # Newline
  PROVE  ParseEvent(<<Less, 51>> \o <<Greater>> \o (name \o <<Space>> \o params \o <<Newline>>))
           = [name |-> name, params |-> params]
<1> DEFINE body == name \o <<Space>> \o params
           key == <<Less, 51>>
           value == body \o <<Newline>>
           message == key \o <<Greater>> \o value
<1>1. params \in Seq(Bytes) /\ Space \in Bytes /\ Greater \in Bytes
  BY DEF EndsIn, Space, Greater, Bytes
<1>2. key \in Seq(Bytes) /\ Len(key) = 2 /\ key[1] = Less /\ key[2] = 51 /\ Tail(key) = <<51>>
  BY DEF Less, Bytes
<1>3. \A i \in 1 .. Len(key) : key[i] # Greater
  <2> HIDE DEF key
  <2>1. \A i \in 1 .. 2 : i = 1 \/ i = 2
    OBVIOUS
  <2>2. Less # Greater /\ 51 # Greater
    BY DEF Less, Greater
  <2> QED BY <1>2, <2>1, <2>2
<1>4. /\ body \in Seq(Bytes) /\ Before(body, Space) = name /\ After(body, Space) = params
  <2>1. /\ name \o <<Space>> \o params \in Seq(Bytes)
        /\ Before(name \o <<Space>> \o params, Space) = name
        /\ After(name \o <<Space>> \o params, Space) = params
    BY <1>1, TakenApart
  <2> QED BY <2>1
<1>5. EndsIn(body, x)
  <2> DEFINE h == name \o <<Space>>
  <2>1. h \in Seq(Bytes)
    <3> DEFINE o == <<Space>>
    <3>1. o \in Seq(Bytes)
      BY <1>1
    <3> HIDE DEF o
    <3>2. name \o o \in Seq(Bytes)
      BY <3>1, ConcatInSeq
    <3> QED BY <3>2 DEF o
  <2> HIDE DEF h
  <2>2. EndsIn(h \o params, x)
    BY <2>1, EndsBoth
  <2> QED BY <2>2 DEF h
<1> HIDE DEF body
<1>6. WithoutNewlines(value) = body
  BY <1>5, NewlineGoes
<1>7. value \in Seq(Bytes)
  <2> DEFINE o == <<Newline>>
  <2>1. o \in Seq(Bytes)
    BY DEF Newline, Bytes
  <2> HIDE DEF o
  <2>2. body \o o \in Seq(Bytes)
    BY <1>4, <2>1, ConcatInSeq
  <2> QED BY <2>2 DEF o
<1> HIDE DEF key, value
<1>8. /\ key \o <<Greater>> \o value \in Seq(Bytes)
      /\ Len(key \o <<Greater>> \o value) = Len(key) + 1 + Len(value)
      /\ \A i \in 1 .. Len(key) : (key \o <<Greater>> \o value)[i] = key[i]
      /\ Contains(key \o <<Greater>> \o value, Greater)
      /\ Before(key \o <<Greater>> \o value, Greater) = key
      /\ After(key \o <<Greater>> \o value, Greater) = value
  <2>1. /\ Greater \in Bytes /\ key \in Seq(Bytes) /\ value \in Seq(Bytes)
        /\ \A i \in 1 .. Len(key) : key[i] # Greater
    BY <1>1, <1>2, <1>3, <1>7
  <2> QED BY <2>1, TakenApart
<1>9. /\ message \in Seq(Bytes) /\ Len(message) = 3 + Len(value) /\ message[1] = Less
      /\ Contains(message, Greater) /\ Before(message, Greater) = key
      /\ After(message, Greater) = value
  <2>1. 1 \in 1 .. Len(key) /\ Len(value) \in Nat /\ Len(key) + 1 + Len(value) = 3 + Len(value)
    BY <1>2, <1>7
  <2> QED BY <1>2, <1>8, <2>1
<1> HIDE DEF message
<1>10. IsEventText(message)
  <2>1. Less \in Bytes /\ Len(message) >= 1
    <3>1. Len(value) \in Nat
      BY <1>7
    <3> QED BY <1>9, <3>1 DEF Less, Bytes
  <2>2. IsPrefix(<<Less>>, message)
    BY <1>9, <2>1, BeginsWith
  <2> QED BY <2>2 DEF IsEventText
<1>11. <<51>> # << >> /\ \A i \in DOMAIN <<51>> : <<51>>[i] \in 48 .. 57
  OBVIOUS
<1>12. ParseEvent(message) = [name |-> Before(body, Space), params |-> After(body, Space)]
  <2> DEFINE p == <<51>>
  <2>1. Tail(Before(message, Greater)) = p
    BY <1>2, <1>9
  <2>2. p # << >> /\ \A i \in DOMAIN p : p[i] \in 48 .. 57
    BY <1>11
  <2> HIDE DEF p
  <2> QED BY <1>6, <1>9, <1>10, <2>1, <2>2, Zenon DEF ParseEvent
<1> QED BY <1>4, <1>12 DEF message, key, value, body

(* A word without quotes tells its field. *)
LEMMA PlainTells ==
  ASSUME NEW k, NEW v, Key(k), Unquotable(v)
  PROVE  Tells(WordOf(<<k, v>>), <<k, v>>)
<1> DEFINE f == <<k, v>>
<1>1. f[1] = k /\ f[2] = v /\ f = <<f[1], f[2]>>
  OBVIOUS
<1> HIDE DEF f
<1>2. /\ Word(WordOf(f)) /\ Contains(WordOf(f), Equals)
      /\ Before(WordOf(f), Equals) = f[1] /\ f[1] # << >>
      /\ After(WordOf(f), Equals) = f[2] /\ Bare(f[2]) = f[2]
  BY <1>1, WordSays
<1>3. Readable(WordOf(f))
  BY <1>2, WordIsReadable
<1> QED BY <1>1, <1>2, <1>3 DEF Tells, f

(* The names the model fixes can be keys. *)
LEMMA LettersAreKeys ==
  /\ Key(IdKey) /\ Key(SsidKey) /\ Key(ReasonKey) /\ Key(FreqKey) /\ Key(LevelKey)
  /\ Key(FlagsKey) /\ Key(NoiseKey)
  /\ IdKey # SsidKey /\ IdKey # ReasonKey /\ SsidKey # ReasonKey
<1>1. ASSUME NEW c \in 100 .. 120 PROVE Key(<<c>>)
  <2> DEFINE o == <<c>>
  <2>1. o \in Seq(Bytes) /\ o # << >> /\ Len(o) = 1 /\ o[1] = c
    BY DEF Bytes
  <2>2. c # Quote /\ c # Space /\ c # Equals
    BY DEF Quote, Space, Equals
  <2> HIDE DEF o
  <2>3. \A i \in 1 .. Len(o) : i = 1
    BY <2>1
  <2>4. Key(o)
    BY <2>1, <2>2, <2>3 DEF Key, Unquotable
  <2> QED BY <2>4 DEF o
<1> QED BY <1>1 DEF IdKey, SsidKey, ReasonKey, FreqKey, LevelKey, FlagsKey, NoiseKey

(* What the daemon says of an SSID, as fields and as words. *)
Said(u) == <<<<IdKey, <<48>>>>, <<SsidKey, u>>, <<ReasonKey, <<K>>>>>>
WordsSaid(u) ==
  <<Param(IdKey, <<48>>), Param(SsidKey, <<Quote>> \o u \o <<Quote>>), Param(ReasonKey, <<K>>)>>

(* Those words tell those fields. *)
LEMMA SaidIsTold ==
  ASSUME NEW u \in Inside
  PROVE  Told(WordsSaid(u), Said(u))
<1> DEFINE f == Said(u)
           w == WordsSaid(u)
           quoted == <<Quote>> \o u \o <<Quote>>
<1>1. /\ Len(f) = 3 /\ f[1] = <<IdKey, <<48>>>> /\ f[2] = <<SsidKey, u>>
      /\ f[3] = <<ReasonKey, <<K>>>>
  BY DEF Said
<1>2. \A k, v : Param(k, v) = WordOf(<<k, v>>)
  BY DEF Param, WordOf
<1>3. /\ Len(w) = 3 /\ w[1] = Param(IdKey, <<48>>) /\ w[2] = Param(SsidKey, quoted)
      /\ w[3] = Param(ReasonKey, <<K>>) /\ w = <<w[1], w[2], w[3]>>
  BY DEF WordsSaid
<1> HIDE DEF quoted, f, w
<1>4. Unquotable(<<48>>) /\ Unquotable(<<K>>)
  BY OneLetter DEF K
<1>5. /\ Tells(Param(IdKey, <<48>>), <<IdKey, <<48>>>>)
      /\ Tells(Param(ReasonKey, <<K>>), <<ReasonKey, <<K>>>>)
  BY <1>2, <1>4, PlainTells, LettersAreKeys
<1>6. Tells(Param(SsidKey, quoted), <<SsidKey, u>>)
  <2>1. Tells(WordOf(<<SsidKey, <<Quote>> \o u \o <<Quote>>>>), <<SsidKey, u>>)
    BY QuotedTells, LettersAreKeys
  <2> QED BY <1>2, <2>1 DEF quoted
<1>7. Tells(w[1], f[1]) /\ Tells(w[2], f[2]) /\ Tells(w[3], f[3])
  BY <1>1, <1>3, <1>5, <1>6
<1>8. \A i \in 1 .. 3 : i = 1 \/ i = 2 \/ i = 3
  OBVIOUS
<1>9. \A i \in 1 .. Len(f) : Tells(w[i], f[i])
  BY <1>1, <1>7, <1>8
<1>10. w \in Seq(Seq(Bytes))
  <2>1. w[1] \in Seq(Bytes) /\ w[2] \in Seq(Bytes) /\ w[3] \in Seq(Bytes)
    BY <1>7 DEF Tells, Readable
  <2> DEFINE Q == Seq(Bytes)
  <2>2. w[1] \in Q /\ w[2] \in Q /\ w[3] \in Q
    BY <2>1
  <2> HIDE DEF Q
  <2>3. <<w[1], w[2], w[3]>> \in Seq(Q)
    BY <2>2
  <2> QED BY <1>3, <2>3 DEF Q
<1>11. \A i, j \in 1 .. Len(f) : f[i][1] = f[j][1] => i = j
  <2>1. f[1][1] = IdKey /\ f[2][1] = SsidKey /\ f[3][1] = ReasonKey
    BY <1>1
  <2> QED BY <1>1, <1>8, <2>1, LettersAreKeys
<1> QED BY <1>1, <1>3, <1>9, <1>10, <1>11 DEF Told, f, w

(* Number() as a run over its digits. *)
Counts(s, n) ==
  /\ n[0] = 0 /\ \A i \in 0 .. Len(s) : n[i] \in Int
  /\ \A i \in 1 .. Len(s) : n[i] = n[i - 1] * 10 + DigitValue(s[i])

(* There is such a run. *)
LEMMA NumberRuns ==
  ASSUME NEW s \in Seq(Nat)
  PROVE  \E n : Counts(s, n) /\ Number(s, 10) = n[Len(s)]
<1> DEFINE m == Len(s)
           step == [x \in Int \X (1 .. m) |-> x[1] * 10 + DigitValue(s[x[2]])]
           More(v, i) == v * 10 + DigitValue(s[i])
           Unfolds(f) == f = [i \in 0 .. m |-> IF i = 0 THEN 0 ELSE More(f[i - 1], i)]
           run == CHOOSE f : Unfolds(f)
<1>1. m \in Nat
  OBVIOUS
<1>2. \A i \in 1 .. m : DigitValue(s[i]) \in Int
  <2> TAKE i \in 1 .. m
  <2> DEFINE c == s[i]
  <2>1. c \in Nat
    BY ElementOfSeq
  <2> HIDE DEF c
  <2>2. DigitValue(c) \in Int
    <3>1. CASE c \in 48 .. 57
      BY <2>1, <3>1, SMTT(30) DEF DigitValue
    <3>2. CASE c \in 65 .. 70
      BY <2>1, <3>2, SMTT(30) DEF DigitValue
    <3>3. CASE c \notin 48 .. 57 /\ c \notin 65 .. 70
      <4>1. DigitValue(c) = c - 87
        BY <3>3, Zenon DEF DigitValue
      <4> QED BY <2>1, <4>1
    <3> QED BY <3>1, <3>2, <3>3
  <2> QED BY <2>2 DEF c
<1>3. step \in [Int \X (1 .. m) -> Int]
  <2> DEFINE D(i) == DigitValue(s[i])
  <2>1. \A i \in 1 .. m : D(i) \in Int
    BY <1>2
  <2>2. step = [x \in Int \X (1 .. m) |-> x[1] * 10 + D(x[2])]
    OBVIOUS
  <2> HIDE DEF D, m, step
  <2>3. \A x \in Int \X (1 .. m) : x[1] \in Int /\ D(x[2]) \in Int
    BY <2>1
  <2> QED BY <2>2, <2>3
<1>4. PICK f \in Loops(Int, m, 0, step) : TRUE
  <2> HIDE DEF m, step
  <2>1. 0 \in Int
    OBVIOUS
  <2> QED BY <1>1, <1>3, <2>1, LoopExists
<1>5. f \in [0 .. m -> Int] /\ f[0] = 0
  BY <1>4 DEF Loops
<1>6. \A i \in 1 .. m : f[i] = More(f[i - 1], i)
  <2> TAKE i \in 1 .. m
  <2>1. f[i] = step[<<f[i - 1], i>>]
    BY <1>4 DEF Loops
  <2>2. <<f[i - 1], i>> \in Int \X (1 .. m)
    <3> HIDE DEF m, step
    <3>1. i - 1 \in 0 .. m
      BY <1>1
    <3> QED BY <1>5, <3>1
  <2> QED BY <2>1, <2>2
<1>7. Number(s, 10) = run[m]
  BY DEF Number
<1>8. \A i \in 1 .. m : \A v \in Int : More(v, i) \in Int
  BY <1>2
<1> HIDE DEF More
<1>9. Unfolds(f)
  <2> HIDE DEF m, step
  <2>1. \A i \in 0 .. m : f[i] = IF i = 0 THEN 0 ELSE More(f[i - 1], i)
    <3> TAKE i \in 0 .. m
    <3>1. i # 0 => i \in 1 .. m
      BY <1>1
    <3> QED BY <1>5, <1>6, <3>1
  <2> QED BY <1>5, <2>1
<1>10. Unfolds(run)
  <2> HIDE DEF Unfolds
  <2> QED BY <1>9
<1> HIDE DEF run, step, m
<1>11. \A i \in 0 .. m : run[i] = IF i = 0 THEN 0 ELSE More(run[i - 1], i)
  BY <1>10
<1>12. run[0] = 0 /\ \A i \in 1 .. m : run[i] = More(run[i - 1], i)
  <2>1. 0 \in 0 .. m /\ \A i \in 1 .. m : i \in 0 .. m /\ i # 0
    BY <1>1
  <2> QED BY <1>11, <2>1
<1> DEFINE T == {k \in Nat : run[k] \in Int}
<1>13. \A k \in 0 .. m : k \in T
  <2>1. 0 \in T
    BY <1>12
  <2>2. ASSUME NEW k \in 1 .. m, k - 1 \in T PROVE k \in T
    <3> DEFINE v == run[k - 1]
    <3>1. v \in Int /\ run[k] = More(v, k) /\ k \in Nat
      BY <1>1, <1>12, <2>2
    <3> HIDE DEF v
    <3>2. More(v, k) \in Int
      BY <1>8, <3>1
    <3> QED BY <3>1, <3>2
  <2> HIDE DEF T
  <2> QED BY <1>1, <2>1, <2>2, BoundedInduction
<1>14. \A i \in 0 .. m : run[i] \in Int
  BY <1>13
<1>15. \A i \in 1 .. m : run[i] = run[i - 1] * 10 + DigitValue(s[i])
  BY <1>12 DEF More
<1> QED BY <1>7, <1>12, <1>14, <1>15 DEF Counts, m

(* The number a digit spells. *)
LEMMA NumberOfOne ==
  ASSUME NEW c \in 48 .. 57
  PROVE  AsInt(<<c>>) = c - 48 /\ IsNumber(<<c>>)
<1> DEFINE s == <<c>>
<1>1. s \in Seq(Nat) /\ Len(s) = 1 /\ s[1] = c /\ s # << >> /\ s \in Seq(Bytes)
  BY DEF Bytes
<1>a. ToSet(s) = {c}
  BY DEF ToSet
<1> HIDE DEF s
<1>2. PICK n : Counts(s, n) /\ Number(s, 10) = n[Len(s)]
  BY <1>1, NumberRuns
<1>3. n[0] = 0 /\ n[1] = n[1 - 1] * 10 + DigitValue(c)
  <2>1. 1 \in 1 .. Len(s)
    BY <1>1
  <2> QED BY <1>1, <1>2, <2>1 DEF Counts
<1>4. DigitValue(c) = c - 48
  BY DEF DigitValue
<1>5. Number(s, 10) = c - 48
  BY <1>1, <1>2, <1>3, <1>4
<1>6. ~IsPrefix(<<Minus>>, s)
  <2>1. Minus \in Bytes /\ c # Minus
    BY DEF Minus, Bytes
  <2> QED BY <1>1, <2>1, BeginsWith
<1> QED BY <1>1, <1>a, <1>5, <1>6 DEF AsInt, IsNumber, Magnitude, s

(* A field is found under its name, and under no other. *)
Apart(fields, n) == \A i, j \in 1 .. n : fields[i][1] = fields[j][1] => i = j
Chosen(fields, which) == {fields[i] : i \in which}

(* Among the fields chosen. *)
LEMMA FieldFound ==
  ASSUME NEW fields, NEW n, Apart(fields, n), NEW which \in SUBSET (1 .. n), NEW j \in 1 .. n
  PROVE  Field(Chosen(fields, which), fields[j][1])
           = IF j \in which THEN {fields[j][2]} ELSE {}
<1> DEFINE vs == Chosen(fields, which)
           key == fields[j][1]
<1>1. \A q : q \in vs <=> \E i \in which : q = fields[i]
  BY DEF Chosen
<1>2. \A i \in which : fields[i][1] = key => i = j
  BY DEF Apart
<1> HIDE DEF vs, key
<1>3. \A v : v \in Field(vs, key) <=> \E q \in vs : q[1] = key /\ v = q[2]
  BY DEF Field
<1>4. \A v : v \in Field(vs, key) <=> \E i \in which : fields[i][1] = key /\ v = fields[i][2]
  BY <1>1, <1>3
<1>5. fields[j][1] = key
  BY DEF key
<1>6. \A v : v \in Field(vs, key) <=> j \in which /\ v = fields[j][2]
  BY <1>2, <1>4, <1>5
<1>7. Field(vs, key) = IF j \in which THEN {fields[j][2]} ELSE {}
  BY <1>6
<1> QED BY <1>7 DEF vs, key

(* What is found in the three fields that tell of an SSID. *)
LEMMA SaidSays ==
  ASSUME NEW s \in Seq(Bytes)
  PROVE  LET vs == Chosen(Said(PrintfEncode(s)), 1 .. 3)
         IN  /\ Keys(vs) = {IdKey, SsidKey, ReasonKey}
             /\ IntField(vs, IdKey) = {0} /\ SsidField(vs, SsidKey) = {s}
             /\ Field(vs, ReasonKey) = {<<K>>}
<1> DEFINE u == PrintfEncode(s)
           f == Said(u)
           which == 1 .. 3
           vs == Chosen(f, which)
<1>1. PrintfDecode(u) = s
  BY EncodingReadsBack
<1>2. IdKey # SsidKey /\ IdKey # ReasonKey /\ SsidKey # ReasonKey
  BY LettersAreKeys
<1> HIDE DEF u
<1>3. /\ f[1][1] = IdKey /\ f[2][1] = SsidKey /\ f[3][1] = ReasonKey
      /\ f[1][2] = <<48>> /\ f[2][2] = u /\ f[3][2] = <<K>>
  BY DEF Said
<1>4. 1 .. 3 = {1, 2, 3}
  OBVIOUS
<1> HIDE DEF f
<1>5. Apart(f, 3)
  BY <1>2, <1>3, <1>4 DEF Apart
<1>6. \A k : k \in Keys(vs) <=> \E i \in 1 .. 3 : k = f[i][1]
  BY DEF Chosen, Keys
<1>7. Keys(vs) = {IdKey, SsidKey, ReasonKey}
  BY <1>3, <1>4, <1>6
<1>8. which \in SUBSET (1 .. 3) /\ 1 \in which /\ 2 \in which /\ 3 \in which
  OBVIOUS
<1>9. 1 \in 1 .. 3 /\ 2 \in 1 .. 3 /\ 3 \in 1 .. 3
  OBVIOUS
<1> HIDE DEF which
<1>10. Field(vs, f[1][1]) = {f[1][2]}
  BY <1>5, <1>8, <1>9, FieldFound
<1>11. Field(vs, f[2][1]) = {f[2][2]}
  BY <1>5, <1>8, <1>9, FieldFound
<1>12. Field(vs, f[3][1]) = {f[3][2]}
  BY <1>5, <1>8, <1>9, FieldFound
<1> HIDE DEF vs
<1>13. IntField(vs, IdKey) = {0}
  <2>1. AsInt(<<48>>) = 48 - 48 /\ 48 - 48 = 0
    BY NumberOfOne
  <2>2. \A v : v \in IntField(vs, IdKey) <=> v = AsInt(<<48>>)
    BY <1>3, <1>10 DEF IntField
  <2> QED BY <2>1, <2>2
<1>14. SsidField(vs, SsidKey) = {s}
  <2>1. \A v : v \in SsidField(vs, SsidKey) <=> v = PrintfDecode(u)
    BY <1>3, <1>11 DEF SsidField
  <2> QED BY <2>1, <1>1
<1>15. Field(vs, ReasonKey) = {<<K>>}
  BY <1>3, <1>12
<1> QED BY <1>7, <1>13, <1>14, <1>15 DEF vs, f, u, which

(* EventCarriesSsid holds of any SSID. *)
LEMMA EventCarries ==
  ASSUME ssid \in Seq(Bytes)
  PROVE  EventCarriesSsid
<1> DEFINE u == PrintfEncode(ssid)
           words == WordsSaid(u)
           params == JoinedBy(Space, words)
           vs == Chosen(Said(u), 1 .. 3)
           event == ParseEvent(EventMessage(ssid))
<1>1. u \in Inside
  BY EncodedInside
<1>2. EventMessage(ssid)
        = <<Less, 51>> \o <<Greater>> \o (SSID_TEMP_DISABLED \o <<Space>> \o params \o <<Newline>>)
  BY DEF EventMessage, WordsSaid
<1>a. /\ Keys(vs) = {IdKey, SsidKey, ReasonKey}
      /\ IntField(vs, IdKey) = {0} /\ SsidField(vs, SsidKey) = {ssid}
      /\ Field(vs, ReasonKey) = {<<K>>}
  BY SaidSays
<1> HIDE DEF u
<1>3. Told(words, Said(u))
  BY <1>1, SaidIsTold
<1>4. ParseParams(params) = vs
  <2>1. ParseParams(Joined(words)) = FirstFields(Said(u), Len(Said(u)))
    BY <1>3, ToldRead
  <2>2. Len(Said(u)) = 3
    BY DEF Said
  <2> QED BY <2>1, <2>2, JoinedByBlanks DEF FirstFields, Chosen
<1>5. EndsIn(params, K)
  <2>1. words \in Seq(Seq(Bytes)) /\ Len(words) = 3
    BY <1>3 DEF Told, Said
  <2>2. words[3] = (ReasonKey \o <<Equals>>) \o <<K>>
    BY DEF WordsSaid, Param
  <2> DEFINE o == <<K>>
             h == ReasonKey \o <<Equals>>
  <2>3. o \in Seq(Bytes) /\ o # << >> /\ Len(o) = 1 /\ o[1] = K
    BY DEF K, Bytes
  <2>4. h \in Seq(Bytes)
    BY DEF ReasonKey, Equals, Bytes
  <2> HIDE DEF o, h
  <2>5. EndsIn(o, K)
    BY <2>3 DEF EndsIn
  <2>6. EndsIn(h \o o, K)
    BY <2>4, <2>5, EndsBoth
  <2>7. EndsIn(words[Len(words)], K)
    BY <2>1, <2>2, <2>6 DEF h, o
  <2>8. words # << >>
    BY DEF WordsSaid
  <2> HIDE DEF words
  <2>9. Space \in Bytes
    BY DEF Space, Bytes
  <2> QED BY <2>1, <2>7, <2>8, <2>9, JoinedEnds DEF Texts
<1> HIDE DEF words, params, vs
<1>6. event = [name |-> SSID_TEMP_DISABLED, params |-> params]
  <2> DEFINE name == SSID_TEMP_DISABLED
             x == K
  <2>1. name \in Seq(Bytes) /\ Len(name) = 1 /\ name[1] = 75
    BY DEF SSID_TEMP_DISABLED, Bytes
  <2>3. x # Newline
    BY DEF K, Newline
  <2>5. EndsIn(params, x)
    BY <1>5
  <2> HIDE DEF name, x
  <2>2. \A i \in 1 .. Len(name) : name[i] # Space
    BY <2>1 DEF Space
  <2>6. name \in Seq(Bytes) /\ (\A i \in 1 .. Len(name) : name[i] # Space)
        /\ EndsIn(params, x) /\ x # Newline
    BY <2>1, <2>2, <2>3, <2>5
  <2>4. ParseEvent(<<Less, 51>> \o <<Greater>> \o (name \o <<Space>> \o params \o <<Newline>>))
          = [name |-> name, params |-> params]
    BY <2>6, EventReads
  <2> QED BY <1>2, <2>4 DEF name
<1> HIDE DEF event
<1>7. event.name = SSID_TEMP_DISABLED /\ event.params = params
  BY <1>6
<1>8. Keys(ParseParams(event.params)) = Variables
  BY <1>a, <1>4, <1>7 DEF Variables
<1>9. SsidTempDisabled(event) = {[id |-> {0}, ssid_bytes |-> {ssid}, reason |-> {<<K>>}]}
  BY <1>a, <1>4, <1>7 DEF SsidTempDisabled
<1> QED BY <1>8, <1>9 DEF EventCarriesSsid, event

-----------------------------------------------------------------------------
(* What is kept of a sequence *)

(* The steps of a selection, and the run they make. *)
KeptStep(p, e, wanted) == IF wanted THEN Append(p, e) ELSE p
Keeps(S, kept, seq, keep) ==
  /\ kept \in [0 .. Len(seq) -> Seq(S)] /\ kept[0] = << >>
  /\ \A i \in 1 .. Len(seq) : kept[i] = KeptStep(kept[i - 1], seq[i], i \in keep)

(* A step keeps to the type. *)
LEMMA KeptStepType ==
  ASSUME NEW S, NEW p \in Seq(S), NEW e \in S, NEW wanted
  PROVE  KeptStep(p, e, wanted) \in Seq(S)
<1>1. Append(p, e) \in Seq(S)
  BY AppendProperties
<1> QED BY <1>1 DEF KeptStep

(* There is such a run. *)
LEMMA KeptRuns ==
  ASSUME NEW S, NEW seq \in Seq(S), NEW keep
  PROVE  \E kept : Keeps(S, kept, seq, keep) /\ Kept(seq, keep) = kept[Len(seq)]
<1> DEFINE n == Len(seq)
           R == Seq(S)
           a == << >>
           step == [x \in R \X (1 .. n) |-> KeptStep(x[1], seq[x[2]], x[2] \in keep)]
           More(p, i) == IF i \in keep THEN Append(p, seq[i]) ELSE p
           Unfolds(f) == f = [i \in 0 .. n |-> IF i = 0 THEN a ELSE More(f[i - 1], i)]
           run == CHOOSE f : Unfolds(f)
<1>1. n \in Nat /\ a \in R /\ \A i \in 1 .. n : seq[i] \in S
  <2>1. \A i \in 1 .. n : seq[i] \in S
    BY ElementOfSeq
  <2> QED BY <2>1
<1>2. step \in [R \X (1 .. n) -> R]
  <2> HIDE DEF R
  <2>1. \A p \in R : \A i \in 1 .. n : KeptStep(p, seq[i], i \in keep) \in R
    BY <1>1, KeptStepType DEF R
  <2> QED BY <2>1
<1>3. PICK f \in Loops(R, n, a, step) : TRUE
  <2> HIDE DEF n, a, step, R
  <2> QED BY <1>1, <1>2, LoopExists
<1>4. f \in [0 .. n -> R] /\ f[0] = a
  BY <1>3 DEF Loops
<1>5. \A p : \A i \in 1 .. n : More(p, i) = KeptStep(p, seq[i], i \in keep)
  BY DEF KeptStep
<1> HIDE DEF More
<1>6. \A i \in 1 .. n : f[i] = More(f[i - 1], i)
  <2> TAKE i \in 1 .. n
  <2>1. f[i] = step[<<f[i - 1], i>>]
    BY <1>3 DEF Loops
  <2>2. <<f[i - 1], i>> \in R \X (1 .. n)
    <3> HIDE DEF n, a, step, R
    <3>1. i - 1 \in 0 .. n
      BY <1>1
    <3> QED BY <1>4, <3>1
  <2>3. f[i] = KeptStep(f[i - 1], seq[i], i \in keep)
    BY <2>1, <2>2
  <2> QED BY <1>5, <2>3
<1>7. Unfolds(f)
  <2> HIDE DEF n, a, step, R
  <2>1. \A i \in 0 .. n : f[i] = IF i = 0 THEN a ELSE More(f[i - 1], i)
    <3> TAKE i \in 0 .. n
    <3>1. i # 0 => i \in 1 .. n
      BY <1>1
    <3> QED BY <1>4, <1>6, <3>1
  <2> QED BY <1>4, <2>1
<1>8. Unfolds(run)
  <2> HIDE DEF Unfolds
  <2> QED BY <1>7
<1>9. Kept(seq, keep) = run[n]
  BY DEF Kept, More
<1> HIDE DEF run, step, a, n, R
<1>10. \A i \in 0 .. n : run[i] = IF i = 0 THEN a ELSE More(run[i - 1], i)
  BY <1>8
<1>11. run[0] = a /\ \A i \in 1 .. n : run[i] = KeptStep(run[i - 1], seq[i], i \in keep)
  <2>1. 0 \in 0 .. n /\ \A i \in 1 .. n : i \in 0 .. n /\ i # 0
    BY <1>1
  <2> QED BY <1>5, <1>10, <2>1
<1>12. run \in [0 .. n -> R]
  <2> DEFINE T == {k \in 0 .. n : run[k] \in R}
  <2>1. 0 \in T
    BY <1>1, <1>11
  <2>2. ASSUME NEW k \in 1 .. n, k - 1 \in T PROVE k \in T
    <3> DEFINE v == run[k - 1]
    <3>1. v \in R /\ seq[k] \in S
      BY <1>1, <2>2
    <3> HIDE DEF v
    <3>2. KeptStep(v, seq[k], k \in keep) \in R
      BY <3>1, KeptStepType DEF R
    <3>3. k \in 0 .. n
      BY <1>1
    <3> QED BY <1>11, <3>2, <3>3 DEF v
  <2>3. \A k \in 0 .. n : k \in T
    <3> HIDE DEF T
    <3> QED BY <1>1, <2>1, <2>2, BoundedInduction
  <2>4. \A k \in 0 .. n : run[k] \in R
    BY <2>3
  <2>5. run = [i \in 0 .. n |-> run[i]]
    BY <1>8
  <2> QED BY <2>4, <2>5
<1> QED BY <1>9, <1>11, <1>12 DEF Keeps, a, n, R

(* What is all wanted is all kept. *)
LEMMA KeptAll ==
  ASSUME NEW S, NEW seq \in Seq(S), NEW keep, 1 .. Len(seq) \subseteq keep
  PROVE  Kept(seq, keep) = seq
<1> DEFINE n == Len(seq)
<1>1. PICK kept : Keeps(S, kept, seq, keep) /\ Kept(seq, keep) = kept[n]
  BY KeptRuns
<1>2. n \in Nat
  OBVIOUS
<1> DEFINE T == {k \in 0 .. n : kept[k] = SubSeq(seq, 1, k)}
<1>3. 0 \in T
  <2>1. SubSeq(seq, 1, 0) = << >>
    OBVIOUS
  <2> QED BY <1>1, <1>2, <2>1 DEF Keeps
<1>4. ASSUME NEW k \in 1 .. n, k - 1 \in T PROVE k \in T
  <2> DEFINE p == SubSeq(seq, 1, k - 1)
             e == seq[k]
  <2>1. p \in Seq(S) /\ e \in S
    BY ElementOfSeq
  <2>2. p \o <<e>> = SubSeq(seq, 1, k)
    BY OneMoreOf
  <2>3. kept[k] = KeptStep(kept[k - 1], seq[k], k \in keep) /\ k \in keep
    BY <1>1 DEF Keeps
  <2>4. kept[k - 1] = p /\ k \in 0 .. n
    BY <1>4
  <2> HIDE DEF p, e
  <2>5. Append(p, e) = p \o <<e>>
    BY <2>1, AppendIsConcat
  <2>6. kept[k] = Append(p, e)
    BY <2>3, <2>4 DEF KeptStep, e
  <2> QED BY <2>2, <2>4, <2>5, <2>6
<1>5. \A k \in 0 .. n : k \in T
  <2> HIDE DEF T, n
  <2> QED BY <1>2, <1>3, <1>4, BoundedInduction
<1>6. kept[n] = SubSeq(seq, 1, n)
  BY <1>2, <1>5
<1>7. SubSeq(seq, 1, n) = seq
  OBVIOUS
<1> QED BY <1>1, <1>6, <1>7

-----------------------------------------------------------------------------
(* Tables *)

(* One text joined is that text. *)
LEMMA JoinedOne ==
  ASSUME NEW S, NEW c \in S, NEW x \in Seq(S)
  PROVE  JoinedBy(c, <<x>>) = x
<1> DEFINE Q == Seq(S)
           p == <<x>>
<1>1. x \in Q
  OBVIOUS
<1> HIDE DEF Q
<1>2. p \in Seq(Q) /\ p # << >> /\ Len(p) = 1 /\ p[1] = x
  BY <1>1
<1> HIDE DEF p
<1>3. PICK tails : Links(S, c, p, tails)
  BY <1>2, JoinedLinks DEF Q
<1>4. JoinedBy(c, p) = x \o << >>
  BY <1>2, <1>3 DEF Links
<1>5. x \o << >> = x
  OBVIOUS
<1> QED BY <1>4, <1>5 DEF p

(* The columns of a row that can be read: no tab or newline in them. *)
Columns(r, n) ==
  /\ n \in Nat /\ n >= 1 /\ Len(r) = n
  /\ r \in Seq(Without(Tab)) /\ r \in Seq(Without(Newline))
  /\ r[1] # << >> /\ r[1][1] # Space

(* A row is a line, and is taken apart into its columns. *)
LEMMA RowSays ==
  ASSUME NEW n, NEW r, Columns(r, n)
  PROVE  /\ JoinedBy(Tab, r) \in Without(Newline) /\ JoinedBy(Tab, r) # << >>
         /\ Split(JoinedBy(Tab, r), Tab) = r
<1> DEFINE j == JoinedBy(Tab, r)
           W == Without(Tab)
           X == Without(Newline)
<1>1. r \in Seq(W) /\ r \in Seq(X) /\ r # << >> /\ Len(r) >= 1 /\ r[1] # << >>
  BY DEF Columns
<1>2. Tab \in Bytes /\ Tab # Newline
  BY DEF Tab, Newline, Bytes
<1>3. j \in X
  BY <1>1, <1>2, JoinedWithout
<1>4. Split(j, Tab) = r
  BY <1>1, <1>2, SplitJoined
<1>5. j # << >>
  <2> SUFFICES ASSUME j = << >> PROVE FALSE
    OBVIOUS
  <2>1. r = << << >> >>
    BY <1>4, SplitNothing
  <2> QED BY <1>1, <2>1
<1> QED BY <1>3, <1>4, <1>5

(* parse_table() on a header and a row, twice. *)
LEMMA TableRead ==
  ASSUME NEW n, NEW r, Columns(r, n), NEW h \in Without(Newline)
  PROVE  ParseTable(Rows(<<h, JoinedBy(Tab, r), JoinedBy(Tab, r)>>), n) = <<r, r>>
<1> DEFINE j == JoinedBy(Tab, r)
           X == Without(Newline)
           lines == <<h, j, j>>
           two == <<r, r>>
           W == Without(Tab)
<1>1. j \in X /\ j # << >> /\ Split(j, Tab) = r
  BY RowSays
<1>2. /\ n \in Nat /\ n >= 1 /\ Len(r) = n /\ r \in Seq(W) /\ r[1] # << >> /\ r[1][1] # Space
  BY DEF Columns
<1>3. Lines(Rows(lines)) = lines
  <2> HIDE DEF j, X
  <2>1. lines \in Seq(X) /\ lines # << >> /\ lines[Len(lines)] # << >>
    BY <1>1 DEF X
  <2> HIDE DEF lines
  <2> QED BY <2>1, RowsRead DEF X
<1> HIDE DEF j
<1> DEFINE text == Rows(lines)
           rows == [i \in 1 .. Len(Lines(text)) - 1 |-> Split(Lines(text)[i + 1], Tab)]
           Blank(fields) == \A k \in DOMAIN fields : ToSet(fields[k]) \subseteq {Space}
           keep == {i \in DOMAIN rows : ~Blank(rows[i]) /\ Len(rows[i]) >= n}
           long == Kept(rows, keep)
           Cells(f) == [k \in 1 .. n |-> IF k < n THEN f[k] ELSE JoinedBy(Tab, From(f, n))]
<1>4. ParseTable(text, n) = [i \in DOMAIN long |-> Cells(long[i])]
  BY DEF ParseTable
<1>5. rows = two
  <2>1. Len(lines) = 3 /\ lines[1 + 1] = j /\ lines[2 + 1] = j /\ Lines(text) = lines
    BY <1>3
  <2>2. Len(lines) - 1 = 2 /\ 1 .. 2 = {1, 2}
    BY <2>1
  <2> HIDE DEF lines, text
  <2>3. rows = [i \in 1 .. 2 |-> Split(lines[i + 1], Tab)]
    BY <2>1, <2>2
  <2>4. \A i \in 1 .. 2 : Split(lines[i + 1], Tab) = r
    BY <1>1, <2>1, <2>2
  <2>5. rows = [i \in 1 .. 2 |-> r]
    BY <2>3, <2>4
  <2>6. two = [i \in 1 .. 2 |-> r]
    OBVIOUS
  <2> QED BY <2>5, <2>6
<1>6. DOMAIN two = 1 .. 2 /\ Len(two) = 2 /\ two \in Seq({r}) /\ \A i \in 1 .. 2 : two[i] = r
  OBVIOUS
<1>7. ~Blank(r)
  <2>1. 1 \in DOMAIN r
    BY <1>2
  <2>2. r[1] \in Seq(Bytes)
    <3>1. r[1] \in W
      <4>1. 1 \in 1 .. Len(r)
        BY <1>2
      <4> HIDE DEF W
      <4> QED BY <1>2, <4>1, ElementOfSeq
    <3> QED BY <3>1 DEF Without
  <2> DEFINE u == r[1]
  <2>3. u \in Seq(Bytes) /\ u # << >> /\ u[1] # Space
    BY <1>2, <2>2
  <2> HIDE DEF u
  <2>4. 1 \in DOMAIN u
    BY <2>3
  <2>5. u[1] \in ToSet(u)
    BY <2>4 DEF ToSet
  <2>6. ~(ToSet(u) \subseteq {Space})
    BY <2>3, <2>5
  <2> QED BY <2>1, <2>6 DEF u
<1> HIDE DEF Blank
<1>8. 1 .. Len(rows) \subseteq keep
  <2> HIDE DEF rows, two
  <2>1. DOMAIN rows = 1 .. 2 /\ Len(rows) = 2 /\ \A i \in 1 .. 2 : rows[i] = r
    BY <1>5, <1>6
  <2>2. n >= n
    BY <1>2
  <2> QED BY <1>2, <1>7, <2>1, <2>2
<1> HIDE DEF keep, rows
<1>9. long = two
  <2> HIDE DEF two
  <2>1. rows \in Seq({r})
    BY <1>5, <1>6
  <2>2. long = rows
    BY <1>8, <2>1, KeptAll
  <2> QED BY <1>5, <2>2
<1> HIDE DEF long, two
<1>10. ParseTable(text, n) = [i \in 1 .. 2 |-> Cells(r)]
  <2> HIDE DEF text, Cells
  <2>1. DOMAIN long = 1 .. 2 /\ \A i \in 1 .. 2 : long[i] = r
    BY <1>6, <1>9
  <2> QED BY <1>4, <2>1
<1>11. Cells(r) = r
  <2>1. From(r, n) = <<r[n]>>
    <3> HIDE DEF W
    <3>1. n \in 1 .. Len(r)
      BY <1>2
    <3>2. From(r, n) = <<r[n]>>
      <4> DEFINE f == From(r, n)
                 one == 1
      <4>1. /\ f \in Seq(W) /\ Len(f) = (Len(r) - n) + 1
            /\ \A i \in 1 .. (Len(r) - n) + 1 : f[i] = r[(n - 1) + i]
        <5>1. n \in Nat \ {0} /\ n <= Len(r) + 1
          BY <1>2
        <5> QED BY <1>2, <5>1, FromSays, ZenonT(60)
      <4>2. (Len(r) - n) + 1 = 1 /\ (n - 1) + 1 = n
        BY <1>2
      <4> HIDE DEF f
      <4>3. Len(f) = 1 /\ f[1] = r[n] /\ f \in Seq(W)
        BY <4>1, <4>2
      <4>4. f = <<f[1]>>
        BY <4>3
      <4> QED BY <4>3, <4>4 DEF f
    <3> QED BY <3>2
  <2>2. r[n] \in Seq(Bytes)
    <3>1. r[n] \in W
      <4>1. n \in 1 .. Len(r)
        BY <1>2
      <4> HIDE DEF W
      <4> QED BY <1>2, <4>1, ElementOfSeq
    <3> QED BY <3>1 DEF Without
  <2>3. JoinedBy(Tab, From(r, n)) = r[n]
    <3>1. Tab \in Bytes
      BY DEF Tab, Bytes
    <3> QED BY <2>1, <2>2, <3>1, JoinedOne
  <2>4. \A k \in 1 .. n : (IF k < n THEN r[k] ELSE JoinedBy(Tab, From(r, n))) = r[k]
    <3>1. \A k \in 1 .. n : k < n \/ k = n
      BY <1>2
    <3> QED BY <2>3, <3>1
  <2>5. r = [k \in 1 .. n |-> r[k]]
    <3> HIDE DEF W
    <3> QED BY <1>2
  <2> QED BY <2>4, <2>5
<1>12. two = [i \in 1 .. 2 |-> r]
  BY DEF two
<1> HIDE DEF text, Cells
<1>13. ParseTable(text, n) = two
  BY <1>10, <1>11, <1>12
<1> QED BY <1>13 DEF text, two, lines, j

-----------------------------------------------------------------------------
(* Numbers in print *)

(* Dividing by ten, and what is left. *)
LEMMA DividedByTen ==
  \A x \in Nat :
     /\ x \div 10 \in Nat /\ x % 10 \in 0 .. 9 /\ (x \div 10) * 10 + (x % 10) = x
     /\ x # 0 => x \div 10 < x
     /\ x = 0 => x \div 10 = 0
BY SMTT(30)

(* The number with its digits divided off, its width, and the digits. *)
Divides(rest, size) ==
  /\ rest[0] = size /\ \A k \in 0 .. size + 1 : rest[k] \in Nat
  /\ \A k \in 1 .. size + 1 : rest[k] = rest[k - 1] \div 10
IsWidth(rest, k) == rest[k] = 0 /\ (k = 1 \/ rest[k - 1] # 0)
Width(rest, size) == CHOOSE k \in 1 .. size + 1 : IsWidth(rest, k)
Digits(rest, width) == [i \in 1 .. width |-> 48 + (rest[width - i] % 10)]

(* Every number has a width. *)
LEMMA WidthSays ==
  ASSUME NEW size \in Nat, NEW rest, Divides(rest, size)
  PROVE  Width(rest, size) \in 1 .. size + 1 /\ IsWidth(rest, Width(rest, size))
<1> DEFINE m == size + 1
           T == {k \in 0 .. m : rest[k] + k <= size \/ rest[k] = 0}
           U == {k \in 0 .. m : k = 0 \/ rest[k] # 0}
<1>1. /\ m \in Nat /\ m >= 1 /\ rest[0] = size /\ \A k \in 0 .. m : rest[k] \in Nat
      /\ \A k \in 1 .. m : rest[k] = rest[k - 1] \div 10
  BY DEF Divides
<1>2. 0 \in T
  <2>1. size + 0 <= size /\ 0 \in 0 .. m
    BY <1>1
  <2> QED BY <1>1, <2>1
<1>3. ASSUME NEW k \in 1 .. m, k - 1 \in T PROVE k \in T
  <2> DEFINE a == rest[k - 1]
             b == rest[k]
  <2>1. a \in Nat /\ b \in Nat /\ b = a \div 10
    <3>1. k - 1 \in 0 .. m /\ k \in 0 .. m
      BY <1>1
    <3> QED BY <1>1, <3>1
  <2>2. a + (k - 1) <= size \/ a = 0
    BY <1>3
  <2> HIDE DEF a, b
  <2>3. a # 0 => b < a
    BY <2>1, DividedByTen
  <2>4. a = 0 => b = 0
    BY <2>1, DividedByTen
  <2> HIDE DEF m
  <2>5. b + k <= size \/ b = 0
    BY <1>1, <2>1, <2>2, <2>3, <2>4
  <2>6. k \in 0 .. m
    BY <1>1
  <2> QED BY <2>5, <2>6 DEF b
<1>4. \A k \in 0 .. m : k \in T
  <2> HIDE DEF T, m
  <2> QED BY <1>1, <1>2, <1>3, BoundedInduction
<1>5. rest[m] = 0
  <2>1. m \in 0 .. m
    BY <1>1
  <2>2. rest[m] + m <= size \/ rest[m] = 0
    BY <1>4, <2>1
  <2>3. rest[m] \in Nat
    BY <1>1, <2>1
  <2> DEFINE x == rest[m]
  <2> HIDE DEF x
  <2>4. x \in Nat /\ (x + (size + 1) <= size \/ x = 0)
    BY <2>2, <2>3 DEF x
  <2>5. x = 0
    BY <2>4
  <2> QED BY <2>5 DEF x
<1>6. \E k \in 1 .. m : IsWidth(rest, k)
  <2> SUFFICES ASSUME \A k \in 1 .. m : ~IsWidth(rest, k) PROVE FALSE
    OBVIOUS
  <2>1. 0 \in U
    BY <1>1
  <2>2. ASSUME NEW k \in 1 .. m, k - 1 \in U PROVE k \in U
    <3>1. k = 1 \/ rest[k - 1] # 0
      BY <1>1, <2>2
    <3>2. rest[k] # 0
      BY <3>1 DEF IsWidth
    <3>3. k \in 0 .. m
      BY <1>1
    <3> QED BY <3>2, <3>3
  <2>3. \A k \in 0 .. m : k \in U
    <3> HIDE DEF U, m
    <3> QED BY <1>1, <2>1, <2>2, BoundedInduction
  <2>4. m \in 0 .. m /\ m # 0
    BY <1>1
  <2> QED BY <1>5, <2>3, <2>4
<1> QED BY <1>6 DEF Width

(* Digits divided off spell the number they are of. *)
LEMMA DigitsSay ==
  ASSUME NEW size \in Nat, NEW rest, Divides(rest, size), NEW w \in 1 .. size + 1,
         IsWidth(rest, w)
  PROVE  /\ Digits(rest, w) \in Seq(48 .. 57) /\ Digits(rest, w) # << >>
         /\ Number(Digits(rest, w), 10) = size
<1> DEFINE d == Digits(rest, w)
           Low(i) == rest[w - i] % 10
<1>1. w \in Nat /\ w >= 1 /\ \A i \in 0 .. w : w - i \in 0 .. size + 1
  OBVIOUS
<1>2. \A i \in 0 .. w : rest[w - i] \in Nat
  BY <1>1 DEF Divides
<1>3. \A i \in 1 .. w : Low(i) \in 0 .. 9
  <2> TAKE i \in 1 .. w
  <2> DEFINE x == rest[w - i]
  <2>1. x \in Nat
    BY <1>1, <1>2
  <2> HIDE DEF x
  <2>2. x % 10 \in 0 .. 9
    BY <2>1, DividedByTen
  <2> QED BY <2>2 DEF x
<1>4. d = [i \in 1 .. w |-> 48 + Low(i)]
  BY DEF Digits
<1> HIDE DEF Low, d
<1>5. d \in Seq(48 .. 57) /\ Len(d) = w /\ \A i \in 1 .. w : d[i] = 48 + Low(i)
  <2>1. \A i \in 1 .. w : 48 + Low(i) \in 48 .. 57
    BY <1>3
  <2> QED BY <1>1, <1>4, <2>1
<1>6. d # << >>
  BY <1>1, <1>5
<1>7. d \in Seq(Nat)
  <2>1. \A i \in 1 .. w : d[i] \in Nat
    BY <1>3, <1>5
  <2> QED BY <1>1, <1>4, <2>1
<1>8. PICK n : Counts(d, n) /\ Number(d, 10) = n[Len(d)]
  BY <1>7, NumberRuns
<1>9. n[0] = 0 /\ \A i \in 1 .. w : n[i] = n[i - 1] * 10 + DigitValue(d[i])
  BY <1>5, <1>8 DEF Counts
<1> DEFINE T == {i \in 0 .. w : n[i] = rest[w - i]}
<1>10. 0 \in T
  <2>1. w - 0 = w /\ 0 \in 0 .. w
    BY <1>1
  <2> QED BY <1>9, <2>1 DEF IsWidth
<1>11. ASSUME NEW i \in 1 .. w, i - 1 \in T PROVE i \in T
  <2> DEFINE x == rest[w - i]
             y == rest[w - (i - 1)]
             l == Low(i)
             c == d[i]
  <2>1. n[i - 1] = y
    BY <1>11
  <2>2. x \in Nat /\ i \in 0 .. w
    BY <1>1, <1>2
  <2>3. y = x \div 10
    <3>1. w - (i - 1) \in 1 .. size + 1 /\ (w - (i - 1)) - 1 = w - i
      BY <1>1
    <3> DEFINE k == w - (i - 1)
    <3>2. rest[k] = rest[k - 1] \div 10
      <4> HIDE DEF k
      <4>1. k \in 1 .. size + 1
        BY <3>1 DEF k
      <4> QED BY <4>1 DEF Divides
    <3> QED BY <3>1, <3>2
  <2>4. l = x % 10 /\ l \in 0 .. 9
    BY <1>3 DEF Low
  <2>5. c = 48 + l
    BY <1>5
  <2>6. n[i] = n[i - 1] * 10 + DigitValue(c)
    BY <1>9
  <2> HIDE DEF x, y, l, c
  <2>7. c \in 48 .. 57 /\ c - 48 = l
    BY <2>4, <2>5
  <2>8. DigitValue(c) = l
    BY <2>7 DEF DigitValue
  <2>9. (x \div 10) * 10 + (x % 10) = x
    BY <2>2, DividedByTen
  <2>10. n[i] = x
    BY <2>1, <2>3, <2>4, <2>6, <2>8, <2>9
  <2> QED BY <2>2, <2>10 DEF x
<1>12. \A i \in 0 .. w : i \in T
  <2> HIDE DEF T
  <2> QED BY <1>1, <1>10, <1>11, BoundedInduction
<1>13. n[w] = rest[0]
  <2>1. w - w = 0 /\ w \in 0 .. w
    BY <1>1
  <2> QED BY <1>12, <2>1
<1> QED BY <1>5, <1>6, <1>8, <1>13 DEF d, Divides

(* A number without its sign. *)
SizeOf(n) == IF n < 0 THEN -n ELSE n

(* Decimal() as such a run. *)
LEMMA DecimalRuns ==
  ASSUME NEW n \in Int
  PROVE  \E rest : /\ Divides(rest, SizeOf(n))
                   /\ Decimal(n) = IF n < 0
                                   THEN <<Minus>> \o Digits(rest, Width(rest, SizeOf(n)))
                                   ELSE Digits(rest, Width(rest, SizeOf(n)))
<1> DEFINE size == SizeOf(n)
           m == size + 1
           step == [x \in Nat \X (1 .. m) |-> x[1] \div 10]
           More(v) == v \div 10
           Unfolds(f) == f = [k \in 0 .. m |-> IF k = 0 THEN size ELSE More(f[k - 1])]
           run == CHOOSE f : Unfolds(f)
           digits == Digits(run, Width(run, size))
<1>1. size \in Nat /\ m \in Nat
  BY DEF SizeOf
<1>2. Decimal(n) = IF n < 0 THEN <<Minus>> \o digits ELSE digits
  BY DEF Decimal, Digits, Width, IsWidth, SizeOf
<1> HIDE DEF size, digits
<1>3. step \in [Nat \X (1 .. m) -> Nat]
  BY DividedByTen
<1>4. PICK f \in Loops(Nat, m, size, step) : TRUE
  <2> HIDE DEF m, step
  <2> QED BY <1>1, <1>3, LoopExists, ZenonT(60)
<1>5. f \in [0 .. m -> Nat] /\ f[0] = size
  BY <1>4 DEF Loops
<1>6. \A i \in 1 .. m : f[i] = More(f[i - 1])
  <2> TAKE i \in 1 .. m
  <2>1. f[i] = step[<<f[i - 1], i>>]
    BY <1>4 DEF Loops
  <2>2. <<f[i - 1], i>> \in Nat \X (1 .. m)
    <3> HIDE DEF m, step
    <3>1. i - 1 \in 0 .. m
      BY <1>1
    <3> QED BY <1>5, <3>1
  <2> QED BY <2>1, <2>2
<1> HIDE DEF More
<1>7. Unfolds(f)
  <2> HIDE DEF m, step
  <2>1. \A i \in 0 .. m : f[i] = IF i = 0 THEN size ELSE More(f[i - 1])
    <3> TAKE i \in 0 .. m
    <3>1. i # 0 => i \in 1 .. m
      BY <1>1
    <3> QED BY <1>5, <1>6, <3>1
  <2> QED BY <1>5, <2>1
<1>8. Unfolds(run)
  <2> HIDE DEF Unfolds
  <2> QED BY <1>7
<1> HIDE DEF run, step
<1>9. run[0] = size /\ \A i \in 1 .. m : run[i] = run[i - 1] \div 10
  <2> HIDE DEF m
  <2>1. 0 \in 0 .. m /\ \A i \in 1 .. m : i \in 0 .. m /\ i # 0
    BY <1>1
  <2>2. \A i \in 0 .. m : run[i] = IF i = 0 THEN size ELSE More(run[i - 1])
    BY <1>8
  <2> QED BY <2>1, <2>2 DEF More
<1> DEFINE T == {k \in 0 .. m : run[k] \in Nat}
<1>10. \A k \in 0 .. m : k \in T
  <2>1. 0 \in T
    BY <1>1, <1>9
  <2>2. ASSUME NEW k \in 1 .. m, k - 1 \in T PROVE k \in T
    <3> DEFINE v == run[k - 1]
    <3>1. v \in Nat /\ run[k] = v \div 10 /\ k \in 0 .. m
      BY <1>1, <1>9, <2>2
    <3> HIDE DEF v
    <3>2. v \div 10 \in Nat
      BY <3>1, DividedByTen
    <3> QED BY <3>1, <3>2
  <2> HIDE DEF T, m
  <2> QED BY <1>1, <2>1, <2>2, BoundedInduction
<1>11. Divides(run, size)
  BY <1>9, <1>10 DEF Divides
<1> QED BY <1>2, <1>11 DEF digits, size

(* What a number is printed with. *)
Numeral(c) == c = Minus \/ c \in 48 .. 57

(* int() undoes the printing of a number. *)
LEMMA DecimalSays ==
  ASSUME NEW n \in Int
  PROVE  /\ Decimal(n) \in Seq(Bytes) /\ Decimal(n) # << >>
         /\ \A i \in 1 .. Len(Decimal(n)) : Numeral(Decimal(n)[i])
         /\ IsNumber(Decimal(n)) /\ AsInt(Decimal(n)) = n
<1> DEFINE size == SizeOf(n)
           N == 48 .. 57
           t == Decimal(n)
<1>1. size \in Nat /\ (n < 0 => n = -size) /\ (~(n < 0) => n = size)
  BY DEF SizeOf
<1>2. PICK rest : /\ Divides(rest, size)
                  /\ t = IF n < 0 THEN <<Minus>> \o Digits(rest, Width(rest, size))
                                  ELSE Digits(rest, Width(rest, size))
  BY DecimalRuns
<1> DEFINE d == Digits(rest, Width(rest, size))
<1> HIDE DEF size, t
<1>3. Width(rest, size) \in 1 .. size + 1 /\ IsWidth(rest, Width(rest, size))
  BY <1>1, <1>2, WidthSays
<1>4. d \in Seq(N) /\ d # << >> /\ Number(d, 10) = size
  <2> DEFINE w == Width(rest, size)
  <2> HIDE DEF w
  <2>1. w \in 1 .. size + 1 /\ IsWidth(rest, w)
    BY <1>3 DEF w
  <2>2. Digits(rest, w) \in Seq(48 .. 57) /\ Digits(rest, w) # << >>
        /\ Number(Digits(rest, w), 10) = size
    BY <1>1, <1>2, <2>1, DigitsSay
  <2> QED BY <2>2 DEF w
<1> HIDE DEF d
<1>5. t = IF n < 0 THEN <<Minus>> \o d ELSE d
  BY <1>2 DEF d
<1>6. /\ Len(d) \in Nat /\ \A i \in 1 .. Len(d) : d[i] \in N
      /\ d \in Seq(Bytes)
  <2>1. \A i \in 1 .. Len(d) : d[i] \in N
    <3> HIDE DEF N
    <3> QED BY <1>4, ElementOfSeq
  <2>2. Len(d) \in Nat /\ d = [i \in 1 .. Len(d) |-> d[i]]
    BY <1>4
  <2>3. \A i \in 1 .. Len(d) : d[i] \in Bytes
    BY <2>1 DEF Bytes
  <2> DEFINE m == Len(d)
  <2> HIDE DEF m
  <2>4. d \in Seq(Bytes)
    BY <2>2, <2>3 DEF m
  <2> QED BY <2>1, <2>2, <2>4
<1>7. ToSet(d) \subseteq N
  <2>1. DOMAIN d = 1 .. Len(d)
    BY <1>6
  <2> QED BY <1>6, <2>1 DEF ToSet
<1>8. Minus \in Bytes /\ Minus \notin N
  BY DEF Minus, Bytes
<1>9. CASE ~(n < 0)
  <2>1. t = d
    BY <1>5, <1>9
  <2>2. ~IsPrefix(<<Minus>>, d)
    <3>1. d[1] # Minus
      <4>1. 1 \in 1 .. Len(d)
        BY <1>4, <1>6
      <4> QED BY <1>6, <1>8, <4>1
    <3> QED BY <1>6, <1>8, <3>1, BeginsWith
  <2>3. IsNumber(d) /\ AsInt(d) = n
    <3>1. Magnitude(d) = d
      BY <2>2 DEF Magnitude
    <3> QED BY <1>1, <1>4, <1>7, <1>9, <2>2, <3>1 DEF IsNumber, AsInt
  <2> QED BY <1>4, <1>6, <2>1, <2>3 DEF t, Numeral
<1>10. CASE n < 0
  <2> DEFINE one == <<Minus>>
  <2>1. t = one \o d
    BY <1>5, <1>10
  <2>2. one \in Seq(Bytes) /\ Len(one) = 1 /\ one[1] = Minus /\ one # << >>
    BY <1>8
  <2>3. Tail(one) = << >>
    OBVIOUS
  <2> HIDE DEF one
  <2>4. /\ t \in Seq(Bytes) /\ Len(t) = 1 + Len(d) /\ t[1] = Minus
        /\ \A i \in 1 .. Len(d) : t[1 + i] = d[i]
    BY <1>6, <2>1, <2>2, ConcatSays
  <2>5. t # << >>
    BY <1>6, <2>4
  <2>6. Tail(t) = d
    <3>1. Tail(one \o d) = Tail(one) \o d
      BY <1>6, <2>2, TailConcat
    <3>2. << >> \o d = d
      BY <1>6
    <3> QED BY <2>1, <2>3, <3>1, <3>2
  <2>7. IsPrefix(<<Minus>>, t)
    BY <1>6, <1>8, <2>4, BeginsWith
  <2>8. Magnitude(t) = d
    BY <2>6, <2>7 DEF Magnitude
  <2>9. IsNumber(t) /\ AsInt(t) = n
    BY <1>1, <1>4, <1>7, <1>10, <2>7, <2>8 DEF IsNumber, AsInt
  <2>10. \A i \in 1 .. Len(t) : Numeral(t[i])
    <3> TAKE i \in 1 .. Len(t)
    <3>1. CASE i = 1
      BY <2>4, <3>1 DEF Numeral
    <3>2. CASE i # 1
      <4>1. i - 1 \in 1 .. Len(d) /\ 1 + (i - 1) = i
        BY <1>6, <2>4, <3>2
      <4> QED BY <1>6, <2>4, <4>1 DEF Numeral
    <3> QED BY <3>1, <3>2
  <2> QED BY <2>4, <2>5, <2>9, <2>10 DEF t
<1> QED BY <1>9, <1>10

-----------------------------------------------------------------------------
(* The tables that list networks *)

(* What can stand in a column, and on a line. *)
Cell(x) == x \in Without(Tab) /\ x \in Without(Newline)

(* A letter can, and a digit, and nothing. *)
LEMMA LetterCell == Cell(<<K>>) /\ Cell(<<48>>) /\ Cell(<< >>)
<1>1. \A c \in {K, 48} : Cell(<<c>>)
  <2> TAKE c \in {K, 48}
  <2> DEFINE o == <<c>>
  <2>1. c \in Bytes /\ c # Tab /\ c # Newline
    BY DEF K, Tab, Newline, Bytes
  <2>2. o \in Seq(Bytes) /\ Len(o) = 1 /\ o[1] = c
    BY <2>1
  <2> HIDE DEF o
  <2>3. \A i \in 1 .. Len(o) : o[i] # Tab /\ o[i] # Newline
    BY <2>1, <2>2
  <2>4. Cell(o)
    BY <2>2, <2>3 DEF Cell, Without
  <2> QED BY <2>4 DEF o
<1>2. Cell(<< >>)
  BY DEF Cell, Without
<1> QED BY <1>1, <1>2

(* So can a number. *)
LEMMA DecimalCell ==
  ASSUME NEW n \in Int
  PROVE  Cell(Decimal(n))
<1> DEFINE d == Decimal(n)
<1>1. d \in Seq(Bytes) /\ \A i \in 1 .. Len(d) : Numeral(d[i])
  BY DecimalSays
<1> HIDE DEF d
<1>2. \A c : Numeral(c) => c # Tab /\ c # Newline
  BY DEF Numeral, Minus, Tab, Newline
<1>3. Cell(d)
  BY <1>1, <1>2 DEF Cell, Without
<1> QED BY <1>3 DEF d

(* So can an SSID as printed. *)
LEMMA InsideCell ==
  ASSUME NEW u \in Inside
  PROVE  Cell(u) /\ u \in Seq(Bytes)
<1>1. u \in Seq(Printable)
  BY DEF Inside
<1>2. \A i \in 1 .. Len(u) : u[i] \in Printable
  <2> DEFINE P == Printable
  <2>1. u \in Seq(P)
    BY <1>1
  <2> HIDE DEF P
  <2>2. \A i \in 1 .. Len(u) : u[i] \in P
    BY <2>1, ElementOfSeq
  <2> QED BY <2>2 DEF P
<1>a. \A c \in Printable : c # Tab /\ c # Newline /\ c \in Bytes
  BY DEF Printable, Tab, Newline, Bytes
<1>3. \A i \in 1 .. Len(u) : u[i] # Tab /\ u[i] # Newline /\ u[i] \in Bytes
  BY <1>2, <1>a
<1>4. u \in Seq(Bytes)
  <2>1. Len(u) \in Nat /\ u = [i \in 1 .. Len(u) |-> u[i]]
    BY <1>1
  <2> DEFINE m == Len(u)
  <2> HIDE DEF m
  <2> QED BY <1>3, <2>1 DEF m
<1> QED BY <1>3, <1>4 DEF Cell, Without

(* list_networks() on two rows. *)
LEMMA NetworksRead ==
  ASSUME NEW s \in Seq(Bytes)
  PROVE  Networks(NetworkTable(s))
           = [i \in 1 .. 2 |-> [id |-> 0, ssid_bytes |-> s, bssid |-> <<K>>, flags |-> << >>]]
<1> DEFINE u == PrintfEncode(s)
           z == <<48>>
           k == <<K>>
           e == << >>
           r == <<z, u, k, e>>
           two == <<r, r>>
           Row(f) == [id |-> AsInt(f[1]), ssid_bytes |-> PrintfDecode(f[2]),
                      bssid |-> f[3], flags |-> f[4]]
           keep == {i \in DOMAIN two : IsNumber(two[i][1])}
<1>1. PrintfDecode(u) = s /\ Cell(u)
  BY EncodingReadsBack, EncodedInside, InsideCell
<1>2. Cell(z) /\ Cell(k) /\ Cell(e)
  BY LetterCell
<1>3. z # << >> /\ z[1] # Space
  BY DEF Space
<1>4. AsInt(z) = 0 /\ IsNumber(z)
  <2>1. AsInt(<<48>>) = 48 - 48 /\ IsNumber(<<48>>)
    BY NumberOfOne
  <2> QED BY <2>1
<1> HIDE DEF u, z, k, e
<1>5. Columns(r, 4)
  <2> DEFINE W == Without(Tab)
             X == Without(Newline)
  <2>1. z \in W /\ u \in W /\ k \in W /\ e \in W /\ z \in X /\ u \in X /\ k \in X /\ e \in X
    BY <1>1, <1>2 DEF Cell
  <2> HIDE DEF W, X
  <2>2. r \in Seq(W) /\ r \in Seq(X) /\ Len(r) = 4 /\ r[1] = z
    BY <2>1
  <2> HIDE DEF r
  <2> QED BY <1>3, <2>2 DEF Columns, W, X
<1>6. r[1] = z /\ r[2] = u /\ r[3] = k /\ r[4] = e
  OBVIOUS
<1>7. NetworkTable(s) = Rows(<<k, JoinedBy(Tab, r), JoinedBy(Tab, r)>>)
  BY DEF NetworkTable, NetworkRow, u, z, k, e
<1> HIDE DEF r
<1>8. ParseTable(NetworkTable(s), 4) = two
  BY <1>2, <1>5, <1>7, TableRead DEF Cell
<1>9. two \in Seq({r}) /\ Len(two) = 2 /\ DOMAIN two = 1 .. 2 /\ \A i \in 1 .. 2 : two[i] = r
  OBVIOUS
<1>10. Networks(NetworkTable(s))
         = [i \in DOMAIN Kept(two, keep) |-> Row(Kept(two, keep)[i])]
  BY <1>8 DEF Networks
<1> HIDE DEF two
<1>11. 1 .. Len(two) \subseteq keep
  BY <1>4, <1>6, <1>9
<1> HIDE DEF keep
<1>12. Kept(two, keep) = two
  BY <1>9, <1>11, KeptAll
<1>13. Row(r) = [id |-> 0, ssid_bytes |-> s, bssid |-> k, flags |-> e]
  BY <1>1, <1>4, <1>6
<1> HIDE DEF Row
<1>14. Networks(NetworkTable(s)) = [i \in 1 .. 2 |-> Row(r)]
  BY <1>9, <1>10, <1>12
<1> QED BY <1>13, <1>14 DEF k, e

(* A row of scan_results(), as it is read. *)
Found(s) ==
  [bssid |-> <<K>>, frequency |-> 2412, signal_level |-> level, flags |-> <<K>>,
   ssid |-> PrintfEncode(s), ssid_bytes |-> s]

(* scan_results() on two rows. *)
LEMMA ScanRead ==
  ASSUME NEW s \in Seq(Bytes), level \in Int
  PROVE  ScanResults(ScanTable(s)) = [i \in 1 .. 2 |-> Found(s)]
<1> DEFINE u == PrintfEncode(s)
           k == <<K>>
           m == Decimal(2412)
           l == Decimal(level)
           r == <<k, m, l, k, u>>
           two == <<r, r>>
           Row(f) == [bssid |-> f[1], frequency |-> AsInt(f[2]), signal_level |-> AsInt(f[3]),
                      flags |-> f[4], ssid |-> f[5], ssid_bytes |-> PrintfDecode(f[5])]
           keep == {i \in DOMAIN two : IsNumber(two[i][2]) /\ IsNumber(two[i][3])}
<1>1. PrintfDecode(u) = s /\ Cell(u)
  BY EncodingReadsBack, EncodedInside, InsideCell
<1>2. 2412 \in Int
  OBVIOUS
<1>3. Cell(k) /\ Cell(m) /\ Cell(l)
  BY <1>2, LetterCell, DecimalCell
<1>4. k # << >> /\ k[1] # Space
  BY DEF K, Space
<1>5. AsInt(m) = 2412 /\ IsNumber(m) /\ AsInt(l) = level /\ IsNumber(l)
  BY <1>2, DecimalSays
<1> HIDE DEF u, m, l, k
<1>6. Columns(r, 5)
  <2> DEFINE W == Without(Tab)
             X == Without(Newline)
  <2>1. u \in W /\ k \in W /\ m \in W /\ l \in W /\ u \in X /\ k \in X /\ m \in X /\ l \in X
    BY <1>1, <1>3 DEF Cell
  <2> HIDE DEF W, X
  <2>2. r \in Seq(W) /\ r \in Seq(X) /\ Len(r) = 5 /\ r[1] = k
    BY <2>1
  <2> HIDE DEF r
  <2> QED BY <1>4, <2>2 DEF Columns, W, X
<1>7. r[1] = k /\ r[2] = m /\ r[3] = l /\ r[4] = k /\ r[5] = u
  OBVIOUS
<1>8. ScanTable(s) = Rows(<<k, JoinedBy(Tab, r), JoinedBy(Tab, r)>>)
  BY DEF ScanTable, ScanRow, u, m, l, k
<1> HIDE DEF r
<1>9. ParseTable(ScanTable(s), 5) = two
  BY <1>3, <1>6, <1>8, TableRead DEF Cell
<1>10. two \in Seq({r}) /\ Len(two) = 2 /\ DOMAIN two = 1 .. 2 /\ \A i \in 1 .. 2 : two[i] = r
  OBVIOUS
<1>11. ScanResults(ScanTable(s))
         = [i \in DOMAIN Kept(two, keep) |-> Row(Kept(two, keep)[i])]
  BY <1>9 DEF ScanResults
<1> HIDE DEF two
<1>12. 1 .. Len(two) \subseteq keep
  BY <1>5, <1>7, <1>10
<1> HIDE DEF keep
<1>13. Kept(two, keep) = two
  BY <1>10, <1>12, KeptAll
<1>14. Row(r) = Found(s)
  BY <1>1, <1>5, <1>7 DEF Found, k, u
<1> HIDE DEF Row
<1>15. ScanResults(ScanTable(s)) = [i \in 1 .. 2 |-> Row(r)]
  BY <1>10, <1>11, <1>13
<1> QED BY <1>14, <1>15

-----------------------------------------------------------------------------
(* Blocks of variables *)

(* What is kept of a sequence of fields: those wanted, and no others. *)
Thinned(S, p, seq, keep, k) ==
  /\ p \in Seq(S) /\ Apart(p, Len(p))
  /\ \A i \in 1 .. Len(p) : \E m \in keep \cap (1 .. k) : p[i] = seq[m]
  /\ \A m \in keep \cap (1 .. k) : \E i \in 1 .. Len(p) : p[i] = seq[m]

(* A step keeps it so. *)
LEMMA ThinnedStep ==
  ASSUME NEW S, NEW seq \in Seq(S), Apart(seq, Len(seq)), NEW keep, NEW k \in 1 .. Len(seq),
         NEW p, Thinned(S, p, seq, keep, k - 1)
  PROVE  Thinned(S, KeptStep(p, seq[k], k \in keep), seq, keep, k)
<1> DEFINE e == seq[k]
           n == Len(p)
<1>1. e \in S
  BY ElementOfSeq
<1>2. p \in Seq(S) /\ n \in Nat
  BY DEF Thinned
<1>3. \A m : m \in 1 .. k <=> m \in 1 .. k - 1 \/ m = k
  OBVIOUS
<1>4. CASE k \notin keep
  <2>1. keep \cap (1 .. k) = keep \cap (1 .. k - 1)
    BY <1>3, <1>4
  <2> QED BY <1>4, <2>1 DEF Thinned, KeptStep
<1>5. CASE k \in keep
  <2> DEFINE q == Append(p, e)
  <2>1. /\ q \in Seq(S) /\ Len(q) = n + 1 /\ q[n + 1] = e
        /\ \A i \in 1 .. n : q[i] = p[i]
    BY <1>1, <1>2, AppendProperties
  <2> HIDE DEF q
  <2>2. \A i : i \in 1 .. Len(q) <=> i \in 1 .. n \/ i = n + 1
    BY <1>2, <2>1
  <2>3. \A i \in 1 .. n : \E m \in keep \cap (1 .. k - 1) : p[i] = seq[m]
    BY DEF Thinned
  <2>4. \A i \in 1 .. n : p[i][1] # e[1]
    <3> TAKE i \in 1 .. n
    <3>1. PICK m \in keep \cap (1 .. k - 1) : p[i] = seq[m]
      BY <2>3
    <3>2. m \in 1 .. Len(seq) /\ m # k
      OBVIOUS
    <3> QED BY <3>1, <3>2 DEF Apart
  <2>5. Apart(q, Len(q))
    <3>1. \A i, j \in 1 .. n : p[i][1] = p[j][1] => i = j
      BY DEF Thinned, Apart
    <3> HIDE DEF e, n
    <3>2. \A i, j \in 1 .. Len(q) : q[i][1] = q[j][1] => i = j
      BY <2>1, <2>2, <2>4, <3>1
    <3> QED BY <3>2 DEF Apart
  <2>6. \A i \in 1 .. Len(q) : \E m \in keep \cap (1 .. k) : q[i] = seq[m]
    <3> TAKE i \in 1 .. Len(q)
    <3>1. CASE i \in 1 .. n
      <4>1. PICK m \in keep \cap (1 .. k - 1) : p[i] = seq[m]
        BY <2>3, <3>1
      <4>2. m \in keep \cap (1 .. k)
        BY <1>3
      <4> QED BY <2>1, <3>1, <4>1, <4>2
    <3>2. CASE i = n + 1
      <4>1. k \in keep \cap (1 .. k)
        BY <1>3, <1>5
      <4> QED BY <2>1, <3>2, <4>1
    <3> QED BY <2>2, <3>1, <3>2
  <2>7. \A m \in keep \cap (1 .. k) : \E i \in 1 .. Len(q) : q[i] = seq[m]
    <3> TAKE m \in keep \cap (1 .. k)
    <3>1. CASE m = k
      BY <2>1, <2>2, <3>1
    <3>2. CASE m # k
      <4>1. m \in keep \cap (1 .. k - 1)
        BY <1>3, <3>2
      <4>2. PICK i \in 1 .. n : p[i] = seq[m]
        BY <4>1 DEF Thinned
      <4> QED BY <2>1, <2>2, <4>2
    <3> QED BY <3>1, <3>2
  <2>8. Thinned(S, q, seq, keep, k)
    BY <2>1, <2>5, <2>6, <2>7 DEF Thinned
  <2> QED BY <1>5, <2>8 DEF KeptStep, q
<1> QED BY <1>4, <1>5

(* So what is kept are the fields wanted. *)
LEMMA KeptSays ==
  ASSUME NEW S, NEW seq \in Seq(S), Apart(seq, Len(seq)), NEW keep
  PROVE  Thinned(S, Kept(seq, keep), seq, keep, Len(seq))
<1> DEFINE n == Len(seq)
<1>1. PICK kept : Keeps(S, kept, seq, keep) /\ Kept(seq, keep) = kept[n]
  BY KeptRuns
<1>2. n \in Nat
  OBVIOUS
<1> DEFINE T == {k \in 0 .. n : Thinned(S, kept[k], seq, keep, k)}
<1>3. 0 \in T
  <2>1. << >> \in Seq(S) /\ Len(<< >>) = 0 /\ 1 .. 0 = {}
    OBVIOUS
  <2>2. kept[0] = << >> /\ 0 \in 0 .. n
    BY <1>1, <1>2 DEF Keeps
  <2> QED BY <2>1, <2>2 DEF Thinned, Apart
<1>4. ASSUME NEW k \in 1 .. n, k - 1 \in T PROVE k \in T
  <2> DEFINE p == kept[k - 1]
  <2>1. kept[k] = KeptStep(p, seq[k], k \in keep) /\ k \in 0 .. n
    BY <1>1, <1>2 DEF Keeps
  <2>2. Thinned(S, p, seq, keep, k - 1)
    BY <1>4
  <2> HIDE DEF p, T
  <2>3. Thinned(S, KeptStep(p, seq[k], k \in keep), seq, keep, k)
    BY <2>2, ThinnedStep
  <2> QED BY <2>1, <2>3 DEF T
<1>5. \A k \in 0 .. n : k \in T
  <2> HIDE DEF T, n
  <2> QED BY <1>2, <1>3, <1>4, BoundedInduction
<1>6. n \in T
  BY <1>2, <1>5
<1> QED BY <1>1, <1>6

(* As a set of fields. *)
LEMMA ThinnedIsChosen ==
  ASSUME NEW S, NEW p, NEW seq, NEW keep, NEW n, Thinned(S, p, seq, keep, n),
         keep \subseteq 1 .. n
  PROVE  FirstFields(p, Len(p)) = Chosen(seq, keep)
<1>1. \A i \in 1 .. Len(p) : \E m \in keep : p[i] = seq[m]
  BY DEF Thinned
<1>2. \A m \in keep : \E i \in 1 .. Len(p) : p[i] = seq[m]
  BY DEF Thinned
<1> DEFINE a == FirstFields(p, Len(p))
           b == Chosen(seq, keep)
<1>3. \A x : x \in a <=> \E i \in 1 .. Len(p) : x = p[i]
  BY DEF FirstFields
<1>4. \A x : x \in b <=> \E m \in keep : x = seq[m]
  BY DEF Chosen
<1> HIDE DEF a, b
<1>5. \A x : x \in a <=> x \in b
  BY <1>1, <1>2, <1>3, <1>4
<1>6. a = b
  BY <1>5
<1> QED BY <1>6 DEF a, b

(* Fields that can be lines of a block. *)
Entries ==
  {f \in Texts \X Texts :
     Key(f[1]) /\ f[1] \in Without(Newline) /\ f[2] \in Without(Newline)}

(* Such a field is a line, and is taken apart at the =. *)
LEMMA EntrySays ==
  ASSUME NEW f \in Entries
  PROVE  /\ Param(f[1], f[2]) \in Without(Newline) /\ Param(f[1], f[2]) # << >>
         /\ Contains(Param(f[1], f[2]), Equals)
         /\ Before(Param(f[1], f[2]), Equals) = f[1] /\ After(Param(f[1], f[2]), Equals) = f[2]
         /\ f = <<f[1], f[2]>>
<1> DEFINE key == f[1]
           value == f[2]
           w == Param(key, value)
           B == Bytes \ {Newline}
<1>1. /\ key \in Seq(Bytes) /\ (\A i \in 1 .. Len(key) : key[i] # Equals)
      /\ key \in Seq(B) /\ value \in Seq(B) /\ value \in Seq(Bytes)
      /\ f = <<f[1], f[2]>>
  BY WithoutIs DEF Entries, Key, Unquotable, Texts
<1> HIDE DEF key, value
<1>2. w = key \o <<Equals>> \o value
  BY DEF Param
<1> HIDE DEF w
<1>3. Equals \in Bytes /\ Equals # Newline
  BY DEF Equals, Newline, Bytes
<1>4. key \in Seq(Bytes) /\ (\A i \in 1 .. Len(key) : key[i] # Equals) /\ value \in Seq(Bytes)
      /\ Equals \in Bytes
  BY <1>1, <1>3
<1>5. /\ key \o <<Equals>> \o value \in Seq(Bytes)
      /\ Len(key \o <<Equals>> \o value) = Len(key) + 1 + Len(value)
      /\ Contains(key \o <<Equals>> \o value, Equals)
      /\ Before(key \o <<Equals>> \o value, Equals) = key
      /\ After(key \o <<Equals>> \o value, Equals) = value
  BY <1>4, TakenApart
<1>6. w # << >>
  <2>1. Len(w) = Len(key) + 1 + Len(value) /\ w \in Seq(Bytes)
    BY <1>2, <1>5
  <2>2. Len(key) \in Nat /\ Len(value) \in Nat
    BY <1>1
  <2> QED BY <2>1, <2>2
<1>7. w \in Seq(B)
  <2> DEFINE o == <<Equals>>
  <2>1. o \in Seq(B)
    <3>1. Equals \in B
      BY <1>3
    <3> HIDE DEF B
    <3> QED BY <3>1
  <2> HIDE DEF o, B
  <2>2. key \o o \in Seq(B)
    BY <1>1, <2>1, ConcatInSeq
  <2>3. (key \o o) \o value \in Seq(B)
    BY <1>1, <2>2, ConcatInSeq
  <2> QED BY <1>2, <2>3 DEF o
<1> QED BY <1>1, <1>2, <1>5, <1>6, <1>7, WithoutIs DEF w, key, value

(* parse_variables() finds the fields of its lines. *)
LEMMA VariablesRead ==
  ASSUME NEW fields \in Seq(Entries), fields # << >>, Apart(fields, Len(fields))
  PROVE  ParseVariables(Rows([i \in DOMAIN fields |-> Param(fields[i][1], fields[i][2])]))
           = FirstFields(fields, Len(fields))
<1> DEFINE n == Len(fields)
           X == Without(Newline)
           lines == [i \in DOMAIN fields |-> Param(fields[i][1], fields[i][2])]
           text == Rows(lines)
           More(pairs, t) == Put(pairs, Before(t, Equals), After(t, Equals))
           keep == {i \in DOMAIN Lines(text) : Contains(Lines(text)[i], Equals)}
           keyed == Kept(Lines(text), keep)
           Unfolds(f) == f = [i \in 0 .. n |-> IF i = 0 THEN {} ELSE More(f[i - 1], lines[i])]
           run == CHOOSE f : Unfolds(f)
           g == [i \in 0 .. n |-> FirstFields(fields, i)]
<1>1. n \in Nat /\ n >= 1 /\ DOMAIN fields = 1 .. n
  OBVIOUS
<1>2. \A i \in 1 .. n : fields[i] \in Entries
  <2> DEFINE E == Entries
  <2>1. fields \in Seq(E)
    OBVIOUS
  <2> HIDE DEF E
  <2>2. \A i \in 1 .. n : fields[i] \in E
    BY <2>1, ElementOfSeq
  <2> QED BY <2>2 DEF E
<1>3. ASSUME NEW i \in 1 .. n
      PROVE  /\ lines[i] \in X /\ lines[i] # << >> /\ Contains(lines[i], Equals)
             /\ Before(lines[i], Equals) = fields[i][1]
             /\ After(lines[i], Equals) = fields[i][2]
             /\ fields[i] = <<fields[i][1], fields[i][2]>>
  <2> DEFINE f == fields[i]
  <2>1. f \in Entries /\ lines[i] = Param(f[1], f[2])
    BY <1>1, <1>2
  <2> HIDE DEF f, lines, X
  <2>2. /\ Param(f[1], f[2]) \in Without(Newline) /\ Param(f[1], f[2]) # << >>
        /\ Contains(Param(f[1], f[2]), Equals)
        /\ Before(Param(f[1], f[2]), Equals) = f[1] /\ After(Param(f[1], f[2]), Equals) = f[2]
        /\ f = <<f[1], f[2]>>
    BY <2>1, EntrySays
  <2> QED BY <2>1, <2>2 DEF f, X
<1>4. lines = [i \in 1 .. n |-> lines[i]]
  BY <1>1
<1> HIDE DEF lines, n
<1>5. lines \in Seq(X) /\ Len(lines) = n /\ lines # << >> /\ lines[Len(lines)] # << >>
  <2> HIDE DEF X
  <2>1. \A i \in 1 .. n : lines[i] \in X
    BY <1>3
  <2>2. lines \in Seq(X) /\ Len(lines) = n
    BY <1>1, <1>4, <2>1
  <2>3. n \in 1 .. n
    BY <1>1
  <2>4. lines[n] # << >>
    BY <1>3, <2>3
  <2> QED BY <1>1, <2>2, <2>4
<1>6. Lines(text) = lines
  BY <1>5, RowsRead
<1>7. keyed = lines
  <2>1. 1 .. Len(lines) \subseteq keep
    <3> HIDE DEF text
    <3>1. DOMAIN lines = 1 .. n
      BY <1>4
    <3> QED BY <1>3, <1>5, <1>6, <3>1
  <2> HIDE DEF keep, X
  <2> QED BY <1>5, <1>6, <2>1, KeptAll
<1>8. ParseVariables(text) = run[n]
  <2>1. Len(keyed) = n
    BY <1>5, <1>7
  <2>2. ParseVariables(text)
          = (CHOOSE f : f = [i \in 0 .. Len(keyed) |->
                               IF i = 0 THEN {} ELSE More(f[i - 1], keyed[i])])[Len(keyed)]
    BY DEF ParseVariables
  <2> HIDE DEF keyed, More, text
  <2> QED BY <1>7, <2>1, <2>2
<1>9. \A i \in 1 .. n : \A pairs : More(pairs, lines[i]) = Put(pairs, fields[i][1], fields[i][2])
  BY <1>3
<1> HIDE DEF More, keyed, keep, text
<1>10. \A k \in 1 .. n : FirstFields(fields, k) = More(FirstFields(fields, k - 1), lines[k])
  <2> TAKE k \in 1 .. n
  <2>1. k \in Nat \ {0} /\ \A i \in 1 .. k : i \in 1 .. n
    BY <1>1
  <2>2. fields[k] = <<fields[k][1], fields[k][2]>>
    BY <1>3
  <2>3. \A i \in 1 .. k : fields[i][1] = fields[k][1] => i = k
    BY <2>1 DEF Apart, n
  <2>4. Put(FirstFields(fields, k - 1), fields[k][1], fields[k][2]) = FirstFields(fields, k)
    BY <2>1, <2>2, <2>3, PutNext
  <2> QED BY <1>9, <2>4
<1>11. FirstFields(fields, 0) = {}
  BY DEF FirstFields
<1>12. Unfolds(g)
  <2>1. \A k \in 0 .. n : g[k] = IF k = 0 THEN {} ELSE More(g[k - 1], lines[k])
    <3> TAKE k \in 0 .. n
    <3>1. CASE k = 0
      BY <1>1, <1>11, <3>1
    <3>2. CASE k # 0
      <4>1. k \in 1 .. n /\ k - 1 \in 0 .. n
        BY <1>1, <3>2
      <4> QED BY <1>10, <3>2, <4>1
    <3> QED BY <3>1, <3>2
  <2>2. g = [k \in 0 .. n |-> g[k]]
    OBVIOUS
  <2> HIDE DEF g
  <2> QED BY <2>1, <2>2
<1>13. Unfolds(run)
  <2> HIDE DEF Unfolds
  <2> QED BY <1>12
<1> HIDE DEF run
<1>14. run[0] = {} /\ \A k \in 1 .. n : run[k] = More(run[k - 1], lines[k])
  <2>1. \A k \in 0 .. n : run[k] = IF k = 0 THEN {} ELSE More(run[k - 1], lines[k])
    BY <1>13
  <2> QED BY <1>1, <2>1
<1> DEFINE T == {k \in Nat : run[k] = FirstFields(fields, k)}
<1>15. n \in T
  <2>1. 0 \in T
    BY <1>11, <1>14
  <2>2. ASSUME NEW k \in 1 .. n, k - 1 \in T PROVE k \in T
    BY <1>1, <1>10, <1>14, <2>2
  <2> HIDE DEF T
  <2>3. \A k \in 0 .. n : k \in T
    BY <1>1, <2>1, <2>2, BoundedInduction
  <2> QED BY <1>1, <2>3
<1>16. run[n] = FirstFields(fields, n)
  BY <1>15
<1>17. ParseVariables(text) = FirstFields(fields, n)
  BY <1>8, <1>16
<1> QED BY <1>17 DEF text, lines, n

(* And of a block, those named. *)
LEMMA BlockRead ==
  ASSUME NEW fields \in Seq(Entries), Apart(fields, Len(fields)), NEW named,
         NEW m \in 1 .. Len(fields), fields[m][1] \in named
  PROVE  ParseVariables(Block(fields, named))
           = Chosen(fields, {i \in DOMAIN fields : fields[i][1] \in named})
<1> DEFINE E == Entries
           n == Len(fields)
           keep == {i \in DOMAIN fields : fields[i][1] \in named}
           p == Kept(fields, keep)
<1>1. fields \in Seq(E) /\ DOMAIN fields = 1 .. n /\ keep \subseteq 1 .. n /\ m \in keep
      /\ Apart(fields, n)
  <2>1. fields \in Seq(E) /\ DOMAIN fields = 1 .. n
    OBVIOUS
  <2> QED BY <2>1
<1>2. Block(fields, named) = Rows([i \in DOMAIN p |-> Param(p[i][1], p[i][2])])
  BY DEF Block
<1> HIDE DEF keep, E
<1>3. Thinned(E, p, fields, keep, n)
  BY <1>1, KeptSays
<1> HIDE DEF p, n
<1>4. p \in Seq(E) /\ Apart(p, Len(p))
  BY <1>3 DEF Thinned
<1>5. p # << >>
  <2>1. m \in keep \cap (1 .. n)
    BY <1>1
  <2>2. \E i \in 1 .. Len(p) : p[i] = fields[m]
    BY <1>3, <2>1 DEF Thinned
  <2>3. 1 .. Len(<< >>) = {}
    OBVIOUS
  <2> QED BY <2>2, <2>3
<1>6. FirstFields(p, Len(p)) = Chosen(fields, keep)
  BY <1>1, <1>3, ThinnedIsChosen, ZenonT(60)
<1>7. ParseVariables(Rows([i \in DOMAIN p |-> Param(p[i][1], p[i][2])]))
        = FirstFields(p, Len(p))
  BY <1>4, <1>5, VariablesRead DEF E
<1> QED BY <1>2, <1>6, <1>7 DEF keep

(* Lines are octets. *)
LEMMA RowsType ==
  ASSUME NEW lines \in Seq(Texts), lines # << >>
  PROVE  Rows(lines) \in Seq(Bytes)
<1> DEFINE o == <<Newline>>
           j == JoinedBy(Newline, lines)
<1>1. Newline \in Bytes
  BY DEF Newline, Bytes
<1>2. j \in Seq(Bytes)
  BY <1>1, JoinedByType DEF Texts
<1>3. o \in Seq(Bytes)
  BY <1>1
<1> HIDE DEF o, j
<1>4. j \o o \in Seq(Bytes)
  BY <1>2, <1>3, ConcatInSeq
<1> QED BY <1>4 DEF Rows, j, o

(* What can be such a field. *)
LEMMA EntryIf ==
  ASSUME NEW k, NEW v, Key(k), Cell(k), Cell(v)
  PROVE  <<k, v>> \in Entries
BY DEF Entries, Cell, Without, Texts

(* The names are letters, without tab or newline. *)
LEMMA NamesAreCells ==
  /\ Cell(IdKey) /\ Cell(SsidKey) /\ Cell(ReasonKey) /\ Cell(FreqKey) /\ Cell(LevelKey)
  /\ Cell(FlagsKey) /\ Cell(NoiseKey)
<1>1. \A c \in 97 .. 122 : Cell(<<c>>)
  <2> TAKE c \in 97 .. 122
  <2> DEFINE o == <<c>>
  <2>1. c \in Bytes /\ c # Tab /\ c # Newline
    BY DEF Tab, Newline, Bytes
  <2>2. o \in Seq(Bytes) /\ Len(o) = 1 /\ o[1] = c
    BY <2>1
  <2> HIDE DEF o
  <2>3. \A i \in 1 .. Len(o) : o[i] # Tab /\ o[i] # Newline
    BY <2>1, <2>2
  <2>4. Cell(o)
    BY <2>2, <2>3 DEF Cell, Without
  <2> QED BY <2>4 DEF o
<1> QED BY <1>1 DEF IdKey, SsidKey, ReasonKey, FreqKey, LevelKey, FlagsKey, NoiseKey

(* What is said of an SSID can be such fields. *)
LEMMA SaidIsEntries ==
  ASSUME NEW u \in Inside
  PROVE  Said(u) \in Seq(Entries) /\ Len(Said(u)) = 3 /\ Apart(Said(u), 3)
<1> DEFINE a == <<IdKey, <<48>>>>
           b == <<SsidKey, u>>
           d == <<ReasonKey, <<K>>>>
           f == Said(u)
<1>1. a \in Entries /\ b \in Entries /\ d \in Entries
  BY EntryIf, NamesAreCells, LettersAreKeys, LetterCell, InsideCell
<1>2. a[1] # b[1] /\ a[1] # d[1] /\ b[1] # d[1]
  BY LettersAreKeys
<1>3. f = <<a, b, d>>
  BY DEF Said
<1> HIDE DEF a, b, d, f
<1>4. f[1] = a /\ f[2] = b /\ f[3] = d /\ Len(f) = 3
  BY <1>3
<1>5. 1 .. 3 = {1, 2, 3}
  OBVIOUS
<1>6. \A i, j \in 1 .. 3 : f[i][1] = f[j][1] => i = j
  BY <1>2, <1>4, <1>5
<1> DEFINE E == Entries
<1> HIDE DEF E
<1>7. a \in E /\ b \in E /\ d \in E
  BY <1>1 DEF E
<1>8. f \in Seq(E)
  BY <1>3, <1>7
<1> QED BY <1>4, <1>6, <1>8 DEF f, E, Apart

(* parse_variables() finds them in their block. *)
LEMMA VariablesSaid ==
  ASSUME NEW s \in Seq(Bytes)
  PROVE  /\ ParseVariables(VariableBlock(s)) = Chosen(Said(PrintfEncode(s)), 1 .. 3)
         /\ VariableBlock(s) \in Seq(Bytes)
<1> DEFINE u == PrintfEncode(s)
           f == Said(u)
           keep == {i \in DOMAIN f : f[i][1] \in Variables}
<1>1. u \in Inside
  BY EncodedInside
<1>2. VariableBlock(s) = Block(f, Variables)
  BY DEF VariableBlock, Said
<1> HIDE DEF u
<1>3. f \in Seq(Entries) /\ Len(f) = 3 /\ Apart(f, Len(f))
  BY <1>1, SaidIsEntries
<1>4. f[1][1] \in Variables /\ f[2][1] \in Variables /\ f[3][1] \in Variables
  BY DEF Said, Variables
<1> HIDE DEF f
<1>5. keep = 1 .. 3
  <2>1. DOMAIN f = 1 .. 3 /\ 1 .. 3 = {1, 2, 3}
    BY <1>3
  <2> QED BY <1>4, <2>1
<1>6. 1 \in 1 .. Len(f)
  BY <1>3
<1>7. ParseVariables(Block(f, Variables)) = Chosen(f, {i \in DOMAIN f : f[i][1] \in Variables})
  <2> DEFINE V == Variables
             m == 1
  <2>1. m \in 1 .. Len(f) /\ f[m][1] \in V
    BY <1>4, <1>6
  <2> HIDE DEF V, m
  <2>2. ParseVariables(Block(f, V)) = Chosen(f, {i \in DOMAIN f : f[i][1] \in V})
    BY <1>3, <2>1, BlockRead
  <2> QED BY <2>2 DEF V
<1>8. Block(f, Variables) \in Seq(Bytes)
  <2> DEFINE E == Entries
             p == Kept(f, keep)
             lines == [i \in DOMAIN p |-> Param(p[i][1], p[i][2])]
  <2>1. p = f
    <3>1. f \in Seq(E) /\ 1 .. Len(f) \subseteq keep
      BY <1>3, <1>5
    <3> HIDE DEF E, keep
    <3> QED BY <3>1, KeptAll
  <2>2. Block(f, Variables) = Rows(lines)
    BY DEF Block
  <2> HIDE DEF p
  <2>3. DOMAIN p = 1 .. 3 /\ \A i \in 1 .. 3 : p[i] \in Entries
    <3> HIDE DEF E
    <3>1. f \in Seq(E)
      BY <1>3 DEF E
    <3>2. \A i \in 1 .. 3 : f[i] \in E
      BY <1>3, <3>1, ElementOfSeq
    <3> QED BY <1>3, <2>1, <3>2 DEF E
  <2>4. \A i \in 1 .. 3 : lines[i] \in Texts
    <3> TAKE i \in 1 .. 3
    <3> DEFINE e == p[i]
    <3>1. e \in Entries /\ lines[i] = Param(e[1], e[2])
      BY <2>3
    <3> HIDE DEF e, lines
    <3>2. Param(e[1], e[2]) \in Without(Newline)
      BY <3>1, EntrySays
    <3> QED BY <3>1, <3>2 DEF Without, Texts
  <2>5. lines = [i \in 1 .. 3 |-> lines[i]]
    BY <2>3
  <2> HIDE DEF lines
  <2>6. lines \in Seq(Texts) /\ lines # << >>
    <3> DEFINE X == Texts
    <3>1. \A i \in 1 .. 3 : lines[i] \in X
      BY <2>4
    <3> HIDE DEF X
    <3>2. lines \in Seq(X) /\ Len(lines) = 3
      BY <2>5, <3>1
    <3>3. lines # << >>
      <4>1. Len(<< >>) = 0 /\ 3 # 0
        OBVIOUS
      <4> QED BY <3>2, <4>1, Zenon
    <3> QED BY <3>2, <3>3 DEF X
  <2> QED BY <2>2, <2>6, RowsType
<1> QED BY <1>2, <1>5, <1>7, <1>8 DEF f, u

(* The pairs of digits of an address. *)
Pairs == <<<<48, 50>>, <<97, 98>>, <<48, 48>>, <<48, 48>>, <<48, 51>>, <<48, 49>>>>

(* An address is one, and has nothing to strip. *)
LEMMA MacSays ==
  /\ Mac \in Seq(HexDigits \cup {Colon}) /\ Mac # << >> /\ IsAddress(Mac)
<1> DEFINE M == HexDigits \cup {Colon}
           H == HexDigits
           Two == {p \in Seq(H) : Len(p) = 2}
           parts == Pairs
<1>1. \A c, d \in H : <<c, d>> \in Two
  <2> HIDE DEF H
  <2> QED OBVIOUS
<1>2. 48 \in H /\ 49 \in H /\ 50 \in H /\ 51 \in H /\ 97 \in H /\ 98 \in H
  BY DEF HexDigits
<1>3. Colon \in Bytes /\ Colon \in M /\ Colon \notin H /\ H \subseteq Bytes /\ H \subseteq M
  BY DEF Colon, HexDigits, Bytes
<1>4. Mac = JoinedBy(Colon, parts)
  BY DEF Mac, Pairs
<1> HIDE DEF Two
<1>5. /\ <<48, 50>> \in Two /\ <<97, 98>> \in Two /\ <<48, 48>> \in Two
      /\ <<48, 51>> \in Two /\ <<48, 49>> \in Two
  <2> HIDE DEF H
  <2> QED BY <1>1, <1>2
<1>6. parts \in Seq(Two) /\ Len(parts) = 6 /\ parts # << >>
  <2> DEFINE a == <<48, 50>>
             b == <<97, 98>>
             c == <<48, 48>>
             d == <<48, 51>>
             e == <<48, 49>>
  <2>1. parts = <<a, b, c, c, d, e>>
    BY DEF Pairs
  <2>2. a \in Two /\ b \in Two /\ c \in Two /\ d \in Two /\ e \in Two
    BY <1>5
  <2> HIDE DEF a, b, c, d, e, parts
  <2> QED BY <2>1, <2>2
<1> HIDE DEF parts, M, H
<1>7. \A i \in 1 .. 6 : parts[i] \in Two
  BY <1>6, ElementOfSeq
<1>8. ASSUME NEW p \in Two
      PROVE  /\ p \in Seq(M) /\ p \in Without(Colon) /\ Len(p) = 2 /\ ToSet(p) \subseteq H
  <2>1. p \in Seq(H) /\ Len(p) = 2
    BY DEF Two
  <2>2. \A i \in 1 .. Len(p) : p[i] \in H
    BY <2>1, ElementOfSeq
  <2>3. p = [i \in 1 .. Len(p) |-> p[i]] /\ Len(p) \in Nat /\ DOMAIN p = 1 .. Len(p)
    BY <2>1
  <2> DEFINE m == Len(p)
  <2> HIDE DEF m
  <2>4. p \in Seq(M) /\ p \in Seq(Bytes)
    BY <1>3, <2>2, <2>3 DEF m
  <2>5. \A i \in 1 .. Len(p) : p[i] # Colon
    BY <1>3, <2>2
  <2>6. ToSet(p) \subseteq H
    BY <2>2, <2>3 DEF ToSet
  <2> QED BY <2>1, <2>4, <2>5, <2>6 DEF Without
<1>9. parts = [i \in 1 .. 6 |-> parts[i]]
  BY <1>6
<1>10. Mac \in Seq(M)
  <2> DEFINE Q == Seq(M)
  <2>1. \A i \in 1 .. 6 : parts[i] \in Q
    BY <1>7, <1>8
  <2> HIDE DEF Q
  <2>2. parts \in Seq(Q)
    BY <1>9, <2>1
  <2> QED BY <1>3, <1>4, <1>6, <2>2, JoinedByType DEF Q
<1>11. Split(Mac, Colon) = parts
  <2> DEFINE W == Without(Colon)
  <2>1. \A i \in 1 .. 6 : parts[i] \in W
    BY <1>7, <1>8
  <2> HIDE DEF W
  <2>2. parts \in Seq(W)
    BY <1>9, <2>1
  <2> QED BY <1>3, <1>4, <1>6, <2>2, SplitJoined DEF W
<1>12. Mac # << >>
  <2> SUFFICES ASSUME Mac = << >> PROVE FALSE
    OBVIOUS
  <2> DEFINE e == << >>
  <2>1. parts = <<e>>
    BY <1>11, SplitNothing
  <2> HIDE DEF e
  <2>2. Len(parts) = 1
    BY <2>1
  <2>3. Len(parts) = 6 /\ 6 # 1
    BY <1>6
  <2> QED BY <2>2, <2>3, Zenon
<1>13. IsAddress(Mac)
  <2>1. \A i \in 1 .. 6 : Len(parts[i]) = 2 /\ ToSet(parts[i]) \subseteq H
    BY <1>7, <1>8
  <2> HIDE DEF Two
  <2> QED BY <1>6, <1>11, <2>1 DEF IsAddress, H
<1> QED BY <1>10, <1>12, <1>13 DEF M, H

(* strip() of what has nothing to strip. *)
LEMMA StrippedBare ==
  ASSUME NEW t \in Seq(Bytes), t # << >>,
         \A i \in 1 .. Len(t) : t[i] \notin {Space, Tab, Newline}
  PROVE  Stripped(t) = t
<1> DEFINE n == Len(t)
           Ink == {i \in DOMAIN t : t[i] \notin {Space, Tab, Newline}}
           one == 1
<1>1. n \in Nat /\ n >= 1 /\ DOMAIN t = 1 .. n
  OBVIOUS
<1>2. Ink = 1 .. n
  BY <1>1
<1>3. Stripped(t) = IF Ink = {} THEN << >> ELSE SubSeq(t, Min(Ink), Max(Ink))
  BY DEF Stripped
<1>a. one \in 1 .. n /\ n \in 1 .. n /\ \A i \in 1 .. n : one <= i /\ n >= i
  BY <1>1
<1>b. 1 .. n \subseteq Nat
  OBVIOUS
<1> HIDE DEF Ink, one, n
<1>4. Min(Ink) = one
  BY <1>2, <1>a, <1>b, MinSays
<1>5. Max(Ink) = n
  BY <1>2, <1>a, <1>b, MaxSays
<1>6. Ink # {}
  BY <1>2, <1>a
<1>7. SubSeq(t, 1, n) = t
  BY DEF n
<1> QED BY <1>3, <1>4, <1>5, <1>6, <1>7 DEF one

(* The address and the variables of a station. *)
LEMMA StationRead ==
  ASSUME NEW s \in Seq(Bytes)
  PROVE  AddressedVariables(StationReply(s))
           = [address |-> {Mac}, variables |-> ParseVariables(VariableBlock(s))]
<1> DEFINE mac == Mac
           block == VariableBlock(s)
           M == HexDigits \cup {Colon}
<1>1. mac \in Seq(M) /\ mac # << >> /\ IsAddress(mac)
  BY MacSays
<1>2. block \in Seq(Bytes)
  BY VariablesSaid
<1>3. \A c \in M : c \in Bytes /\ c # Space /\ c # Tab /\ c # Newline
  BY DEF HexDigits, Colon, Bytes, Space, Tab, Newline
<1>4. StationReply(s) = mac \o <<Newline>> \o block
  BY DEF StationReply
<1> HIDE DEF mac, block, M
<1>5. \A i \in 1 .. Len(mac) : mac[i] \in M
  BY <1>1, ElementOfSeq
<1>6. mac \in Seq(Bytes)
  <2>1. Len(mac) \in Nat /\ mac = [i \in 1 .. Len(mac) |-> mac[i]]
    BY <1>1
  <2> DEFINE m == Len(mac)
  <2> HIDE DEF m
  <2> QED BY <1>3, <1>5, <2>1 DEF m
<1>7. \A i \in 1 .. Len(mac) : mac[i] # Newline /\ mac[i] \notin {Space, Tab, Newline}
  BY <1>3, <1>5
<1>8. Newline \in Bytes
  BY DEF Newline, Bytes
<1>9. mac \in Seq(Bytes) /\ (\A i \in 1 .. Len(mac) : mac[i] # Newline) /\ block \in Seq(Bytes)
  BY <1>2, <1>6, <1>7
<1>10. /\ Before(mac \o <<Newline>> \o block, Newline) = mac
       /\ After(mac \o <<Newline>> \o block, Newline) = block
  BY <1>8, <1>9, TakenApart, SMTT(30)
<1>11. Stripped(mac) = mac
  <2>1. \A i \in 1 .. Len(mac) : mac[i] \notin {Space, Tab, Newline}
    BY <1>7
  <2> QED BY <1>1, <1>6, <2>1, StrippedBare
<1>12. AddressedVariables(StationReply(s))
         = [address |-> {mac}, variables |-> ParseVariables(block)]
  BY <1>1, <1>4, <1>10, <1>11 DEF AddressedVariables
<1> QED BY <1>12 DEF mac, block

(* RepliesCarrySsid holds of any SSID. *)
LEMMA RepliesCarry ==
  ASSUME ssid \in Seq(Bytes), level \in Int
  PROVE  RepliesCarrySsid
<1> DEFINE networks == Networks(NetworkTable(ssid))
           found == ScanResults(ScanTable(ssid))
           block == ParseVariables(VariableBlock(ssid))
           one == [id |-> 0, ssid_bytes |-> ssid, bssid |-> <<K>>, flags |-> << >>]
           other == Found(ssid)
<1>1. networks = [i \in 1 .. 2 |-> one]
  BY NetworksRead
<1>2. found = [i \in 1 .. 2 |-> other]
  BY ScanRead
<1>3. one.ssid_bytes = ssid /\ other.ssid_bytes = ssid
  BY DEF Found
<1>4. block = Chosen(Said(PrintfEncode(ssid)), 1 .. 3)
  BY VariablesSaid
<1>5. Keys(block) = Variables /\ Status(block).ssid_bytes = {ssid}
  <2>1. LET vs == Chosen(Said(PrintfEncode(ssid)), 1 .. 3)
        IN  /\ Keys(vs) = {IdKey, SsidKey, ReasonKey}
            /\ SsidField(vs, SsidKey) = {ssid}
    BY SaidSays
  <2> HIDE DEF block
  <2> QED BY <1>4, <2>1 DEF Variables, Status
<1>6. AddressedVariables(StationReply(ssid)) = [address |-> {Mac}, variables |-> block]
  BY StationRead
<1> HIDE DEF networks, found, block, one, other
<1>7. Len(networks) = 2 /\ Len(found) = 2
  BY <1>1, <1>2
<1>8. \A i \in 1 .. 2 : networks[i].ssid_bytes = ssid /\ found[i].ssid_bytes = ssid
  BY <1>1, <1>2, <1>3
<1> QED BY <1>5, <1>6, <1>7, <1>8 DEF RepliesCarrySsid, networks, found, block

(* TextsCarrySsid does. *)
LEMMA TextsCarry ==
  ASSUME ssid \in Seq(Bytes), level \in Int
  PROVE  TextsCarrySsid
BY EventCarries, RepliesCarry DEF TextsCarrySsid

(* The names are different. *)
LEMMA NamesDiffer ==
  /\ IdKey # FreqKey /\ IdKey # LevelKey /\ IdKey # FlagsKey /\ IdKey # SsidKey
  /\ FreqKey # LevelKey /\ FreqKey # FlagsKey /\ FreqKey # SsidKey /\ FreqKey # NoiseKey
  /\ LevelKey # FlagsKey /\ LevelKey # SsidKey /\ LevelKey # NoiseKey /\ FlagsKey # SsidKey
<1> DEFINE Letter_(c) == <<c>>
<1>1. \A c, d : Letter_(c) = Letter_(d) => c = d
  <2>1. \A c : Letter_(c)[1] = c
    OBVIOUS
  <2> HIDE DEF Letter_
  <2> QED BY <2>1
<1>2. /\ IdKey = Letter_(105) /\ FreqKey = Letter_(102) /\ LevelKey = Letter_(108)
      /\ FlagsKey = Letter_(109) /\ SsidKey = Letter_(115) /\ NoiseKey = Letter_(110)
  BY DEF IdKey, FreqKey, LevelKey, FlagsKey, SsidKey, NoiseKey
<1> HIDE DEF Letter_
<1> QED BY <1>1, <1>2

(* What is found under a name in a block of those named. *)
LEMMA NamedFound ==
  ASSUME NEW fields, NEW n, DOMAIN fields = 1 .. n, Apart(fields, n), NEW named, NEW j \in 1 .. n
  PROVE  Field(Chosen(fields, {i \in DOMAIN fields : fields[i][1] \in named}), fields[j][1])
           = IF fields[j][1] \in named THEN {fields[j][2]} ELSE {}
<1> DEFINE keep == {i \in DOMAIN fields : fields[i][1] \in named}
<1>1. keep \in SUBSET (1 .. n) /\ (j \in keep <=> fields[j][1] \in named)
  OBVIOUS
<1> HIDE DEF keep
<1>2. Field(Chosen(fields, keep), fields[j][1]) = IF j \in keep THEN {fields[j][2]} ELSE {}
  BY <1>1, FieldFound
<1> QED BY <1>1, <1>2 DEF keep

(* The readings of one value, or of none. *)
LEMMA IntFieldOf ==
  ASSUME NEW vs, NEW key
  PROVE  /\ Field(vs, key) = {} => IntField(vs, key) = {} /\ SsidField(vs, key) = {}
         /\ \A v : Field(vs, key) = {v} =>
               IntField(vs, key) = {AsInt(v)} /\ SsidField(vs, key) = {PrintfDecode(v)}
BY DEF IntField, SsidField

(* bss() on a reply with the fields asked for. *)
LEMMA BssRead ==
  ASSUME ssid \in Seq(Bytes), level \in Int,
         mask \subseteq {FreqKey, LevelKey, FlagsKey, SsidKey}
  PROVE  Bss(ParseVariables(BssReply))
           = [id |-> {0},
              frequency |-> IF FreqKey \in mask THEN {2412} ELSE {},
              signal_level |-> IF LevelKey \in mask THEN {level} ELSE {},
              ssid |-> IF SsidKey \in mask THEN {PrintfEncode(ssid)} ELSE {},
              ssid_bytes |-> IF SsidKey \in mask THEN {ssid} ELSE {},
              flags |-> IF FlagsKey \in mask THEN {<<K>>} ELSE {}]
<1> DEFINE u == PrintfEncode(ssid)
           k == <<K>>
           z == <<48>>
           m == Decimal(2412)
           l == Decimal(level)
           a == <<IdKey, z>>
           b == <<FreqKey, m>>
           c == <<LevelKey, l>>
           d == <<FlagsKey, k>>
           e == <<SsidKey, u>>
           f == <<a, b, c, d, e>>
           named == mask \cup {IdKey}
           vs == Chosen(f, {i \in DOMAIN f : f[i][1] \in named})
           In(key, v) == IF key \in named THEN {v} ELSE {}
<1>1. PrintfDecode(u) = ssid /\ Cell(u)
  BY EncodingReadsBack, EncodedInside, InsideCell
<1>2. 2412 \in Int
  OBVIOUS
<1>3. Cell(k) /\ Cell(z) /\ Cell(m) /\ Cell(l)
  BY <1>2, LetterCell, DecimalCell
<1>4. AsInt(z) = 0
  <2>1. AsInt(<<48>>) = 48 - 48 /\ IsNumber(<<48>>)
    BY NumberOfOne
  <2> QED BY <2>1
<1>5. AsInt(m) = 2412 /\ AsInt(l) = level
  BY <1>2, DecimalSays
<1>6. BssReply = Block(f, named)
  BY DEF BssReply
<1> HIDE DEF u, k, z, m, l
<1>7. a \in Entries /\ b \in Entries /\ c \in Entries /\ d \in Entries /\ e \in Entries
  BY <1>1, <1>3, EntryIf, NamesAreCells, LettersAreKeys
<1>8. /\ a[1] = IdKey /\ b[1] = FreqKey /\ c[1] = LevelKey /\ d[1] = FlagsKey /\ e[1] = SsidKey
      /\ a[2] = z /\ b[2] = m /\ c[2] = l /\ d[2] = k /\ e[2] = u
  OBVIOUS
<1> HIDE DEF a, b, c, d, e
<1>9. /\ f[1] = a /\ f[2] = b /\ f[3] = c /\ f[4] = d /\ f[5] = e
      /\ DOMAIN f = 1 .. 5 /\ Len(f) = 5
  OBVIOUS
<1>10. f \in Seq(Entries)
  <2> DEFINE E == Entries
  <2>1. a \in E /\ b \in E /\ c \in E /\ d \in E /\ e \in E
    BY <1>7
  <2> HIDE DEF E
  <2>2. f \in Seq(E)
    BY <2>1
  <2> QED BY <2>2 DEF E
<1> HIDE DEF f
<1>11. Apart(f, 5)
  <2>1. 1 .. 5 = {1, 2, 3, 4, 5}
    OBVIOUS
  <2>2. /\ f[1][1] = IdKey /\ f[2][1] = FreqKey /\ f[3][1] = LevelKey /\ f[4][1] = FlagsKey
        /\ f[5][1] = SsidKey
    BY <1>8, <1>9
  <2>3. \A i, j \in 1 .. 5 : f[i][1] = f[j][1] => i = j
    BY <2>1, <2>2, NamesDiffer
  <2> QED BY <2>3 DEF Apart
<1>12. IdKey \in named /\ (FreqKey \in named <=> FreqKey \in mask)
       /\ (LevelKey \in named <=> LevelKey \in mask) /\ (FlagsKey \in named <=> FlagsKey \in mask)
       /\ (SsidKey \in named <=> SsidKey \in mask)
  BY NamesDiffer
<1> HIDE DEF named
<1>13. ParseVariables(BssReply) = vs
  <2> DEFINE one == 1
  <2>1. one \in 1 .. Len(f) /\ f[one][1] \in named /\ Apart(f, Len(f))
    BY <1>8, <1>9, <1>11, <1>12
  <2> HIDE DEF one, vs
  <2>2. ParseVariables(Block(f, named)) = Chosen(f, {i \in DOMAIN f : f[i][1] \in named})
    BY <1>10, <2>1, BlockRead
  <2> QED BY <1>6, <2>2 DEF vs
<1>14. \A j \in 1 .. 5 : Field(vs, f[j][1]) = In(f[j][1], f[j][2])
  <2> TAKE j \in 1 .. 5
  <2> DEFINE n == 5
  <2>1. DOMAIN f = 1 .. n /\ Apart(f, n) /\ j \in 1 .. n
    BY <1>9, <1>11
  <2> HIDE DEF n
  <2>2. Field(Chosen(f, {i \in DOMAIN f : f[i][1] \in named}), f[j][1])
          = IF f[j][1] \in named THEN {f[j][2]} ELSE {}
    BY <2>1, NamedFound
  <2> QED BY <2>2
<1> HIDE DEF vs
<1>15. /\ Field(vs, IdKey) = In(IdKey, z) /\ Field(vs, FreqKey) = In(FreqKey, m)
       /\ Field(vs, LevelKey) = In(LevelKey, l) /\ Field(vs, FlagsKey) = In(FlagsKey, k)
       /\ Field(vs, SsidKey) = In(SsidKey, u)
  <2>1. 1 \in 1 .. 5 /\ 2 \in 1 .. 5 /\ 3 \in 1 .. 5 /\ 4 \in 1 .. 5 /\ 5 \in 1 .. 5
    OBVIOUS
  <2> HIDE DEF In
  <2> QED BY <1>8, <1>9, <1>14, <2>1
<1>16. /\ IntField(vs, IdKey) = {0}
       /\ IntField(vs, FreqKey) = IF FreqKey \in mask THEN {2412} ELSE {}
       /\ IntField(vs, LevelKey) = IF LevelKey \in mask THEN {level} ELSE {}
       /\ SsidField(vs, SsidKey) = IF SsidKey \in mask THEN {ssid} ELSE {}
       /\ Field(vs, SsidKey) = IF SsidKey \in mask THEN {u} ELSE {}
       /\ Field(vs, FlagsKey) = IF FlagsKey \in mask THEN {k} ELSE {}
  <2>1. \A key, v : Field(vs, key) = In(key, v) =>
          /\ IntField(vs, key) = IF key \in named THEN {AsInt(v)} ELSE {}
          /\ SsidField(vs, key) = IF key \in named THEN {PrintfDecode(v)} ELSE {}
    BY IntFieldOf
  <2>2. IntField(vs, IdKey) = {0}
    BY <1>4, <1>12, <1>15, <2>1
  <2>3. IntField(vs, FreqKey) = IF FreqKey \in mask THEN {2412} ELSE {}
    BY <1>5, <1>12, <1>15, <2>1
  <2>4. IntField(vs, LevelKey) = IF LevelKey \in mask THEN {level} ELSE {}
    BY <1>5, <1>12, <1>15, <2>1
  <2>5. SsidField(vs, SsidKey) = IF SsidKey \in mask THEN {ssid} ELSE {}
    BY <1>1, <1>12, <1>15, <2>1
  <2>6. /\ Field(vs, SsidKey) = IF SsidKey \in mask THEN {u} ELSE {}
        /\ Field(vs, FlagsKey) = IF FlagsKey \in mask THEN {k} ELSE {}
    BY <1>12, <1>15
  <2> QED BY <2>2, <2>3, <2>4, <2>5, <2>6
<1>17. Bss(vs) = [id |-> {0},
              frequency |-> IF FreqKey \in mask THEN {2412} ELSE {},
              signal_level |-> IF LevelKey \in mask THEN {level} ELSE {},
              ssid |-> IF SsidKey \in mask THEN {u} ELSE {},
              ssid_bytes |-> IF SsidKey \in mask THEN {ssid} ELSE {},
              flags |-> IF FlagsKey \in mask THEN {k} ELSE {}]
  BY <1>16 DEF Bss
<1> QED BY <1>13, <1>17 DEF u, k

(* signal_poll() on a reply. *)
LEMMA PollRead ==
  ASSUME level \in Int
  PROVE  SignalPoll(ParseVariables(PollReply))
           = [rssi |-> {level} \ {-9999}, noise |-> {level} \ {9999}, frequency |-> {2412}]
<1> DEFINE m == Decimal(2412)
           l == Decimal(level)
           a == <<LevelKey, l>>
           b == <<NoiseKey, l>>
           c == <<FreqKey, m>>
           f == <<a, b, c>>
           named == {LevelKey, NoiseKey, FreqKey}
           vs == Chosen(f, {i \in DOMAIN f : f[i][1] \in named})
           In(key, v) == IF key \in named THEN {v} ELSE {}
<1>1. 2412 \in Int
  OBVIOUS
<1>2. Cell(m) /\ Cell(l)
  BY <1>1, DecimalCell
<1>3. AsInt(m) = 2412 /\ AsInt(l) = level
  BY <1>1, DecimalSays
<1>4. PollReply = Block(f, named)
  BY DEF PollReply
<1> HIDE DEF m, l
<1>5. a \in Entries /\ b \in Entries /\ c \in Entries
  BY <1>2, EntryIf, NamesAreCells, LettersAreKeys
<1>6. /\ a[1] = LevelKey /\ b[1] = NoiseKey /\ c[1] = FreqKey
      /\ a[2] = l /\ b[2] = l /\ c[2] = m
  OBVIOUS
<1> HIDE DEF a, b, c
<1>7. f[1] = a /\ f[2] = b /\ f[3] = c /\ DOMAIN f = 1 .. 3 /\ Len(f) = 3
  OBVIOUS
<1>8. f \in Seq(Entries)
  <2> DEFINE E == Entries
  <2>1. a \in E /\ b \in E /\ c \in E
    BY <1>5
  <2> HIDE DEF E
  <2>2. f \in Seq(E)
    BY <2>1
  <2> QED BY <2>2 DEF E
<1> HIDE DEF f
<1>9. Apart(f, 3)
  <2>1. 1 .. 3 = {1, 2, 3}
    OBVIOUS
  <2>2. f[1][1] = LevelKey /\ f[2][1] = NoiseKey /\ f[3][1] = FreqKey
    BY <1>6, <1>7
  <2>3. \A i, j \in 1 .. 3 : f[i][1] = f[j][1] => i = j
    BY <2>1, <2>2, NamesDiffer
  <2> QED BY <2>3 DEF Apart
<1>10. LevelKey \in named /\ NoiseKey \in named /\ FreqKey \in named
  OBVIOUS
<1> HIDE DEF named
<1>11. ParseVariables(PollReply) = vs
  <2> DEFINE one == 1
  <2>1. one \in 1 .. Len(f) /\ f[one][1] \in named /\ Apart(f, Len(f))
    BY <1>6, <1>7, <1>9, <1>10
  <2> HIDE DEF one, vs
  <2>2. ParseVariables(Block(f, named)) = Chosen(f, {i \in DOMAIN f : f[i][1] \in named})
    BY <1>8, <2>1, BlockRead
  <2> QED BY <1>4, <2>2 DEF vs
<1>12. \A j \in 1 .. 3 : Field(vs, f[j][1]) = In(f[j][1], f[j][2])
  <2> TAKE j \in 1 .. 3
  <2> DEFINE n == 3
  <2>1. DOMAIN f = 1 .. n /\ Apart(f, n) /\ j \in 1 .. n
    BY <1>7, <1>9
  <2> HIDE DEF n
  <2>2. Field(Chosen(f, {i \in DOMAIN f : f[i][1] \in named}), f[j][1])
          = IF f[j][1] \in named THEN {f[j][2]} ELSE {}
    BY <2>1, NamedFound
  <2> QED BY <2>2
<1> HIDE DEF vs
<1>13. /\ Field(vs, LevelKey) = In(LevelKey, l) /\ Field(vs, NoiseKey) = In(NoiseKey, l)
       /\ Field(vs, FreqKey) = In(FreqKey, m)
  <2>1. 1 \in 1 .. 3 /\ 2 \in 1 .. 3 /\ 3 \in 1 .. 3
    OBVIOUS
  <2> HIDE DEF In
  <2> QED BY <1>6, <1>7, <1>12, <2>1
<1>14. /\ IntField(vs, LevelKey) = {level} /\ IntField(vs, NoiseKey) = {level}
       /\ IntField(vs, FreqKey) = {2412}
  <2>1. Field(vs, LevelKey) = {l} /\ Field(vs, NoiseKey) = {l} /\ Field(vs, FreqKey) = {m}
    BY <1>10, <1>13
  <2> HIDE DEF In
  <2>2. /\ IntField(vs, LevelKey) = {AsInt(l)} /\ IntField(vs, NoiseKey) = {AsInt(l)}
        /\ IntField(vs, FreqKey) = {AsInt(m)}
    BY <2>1, IntFieldOf
  <2> QED BY <1>3, <2>2
<1> QED BY <1>11, <1>14 DEF SignalPoll, INVALID_NOISE

(* A refusal. *)
FailReply == <<70, 65, 73, 76, Newline>>

(* signal_poll() on a refusal: there is nothing in it. *)
LEMMA RefusalRead ==
  SignalPoll(ParseVariables(FailReply)) = [rssi |-> {}, noise |-> {}, frequency |-> {}]
<1> DEFINE t == <<70, 65, 73, 76>>
           o == <<Newline>>
           x == 76
           keep == {i \in DOMAIN Lines(FailReply) : Contains(Lines(FailReply)[i], Equals)}
           keyed == Kept(Lines(FailReply), keep)
           More(pairs, w) == Put(pairs, Before(w, Equals), After(w, Equals))
           Unfolds(f) ==
             f = [i \in 0 .. Len(keyed) |-> IF i = 0 THEN {} ELSE More(f[i - 1], keyed[i])]
           run == CHOOSE f : Unfolds(f)
<1>1. /\ t \in Seq(Bytes) /\ t # << >> /\ Len(t) = 4
      /\ t[1] = 70 /\ t[2] = 65 /\ t[3] = 73 /\ t[4] = x
  BY DEF Bytes
<1>2. FailReply = t \o o
  BY DEF FailReply
<1>3. x # Newline
  BY DEF Newline
<1>4. 1 .. 4 = {1, 2, 3, 4}
  OBVIOUS
<1>5. 70 # Newline /\ 65 # Newline /\ 73 # Newline /\ 76 # Newline
      /\ 70 # Equals /\ 65 # Equals /\ 73 # Equals /\ 76 # Equals
  BY DEF Newline, Equals
<1>6. \A i \in 1 .. Len(t) : t[i] # Newline /\ t[i] # Equals
  BY <1>1, <1>4, <1>5
<1> HIDE DEF t, x
<1>7. EndsIn(t, x)
  BY <1>1 DEF EndsIn
<1>8. WithoutNewlines(t \o <<Newline>>) = t
  BY <1>3, <1>7, NewlineGoes
<1>9. Split(t, Newline) = <<t>>
  <2>1. \A i \in 1 .. Len(t) : t[i] # Newline
    BY <1>6
  <2> QED BY <1>1, <2>1, SplitWhole
<1>10. Lines(FailReply) = <<t>>
  BY <1>2, <1>8, <1>9 DEF Lines
<1>11. ~Contains(t, Equals)
  BY <1>1, <1>6 DEF Contains
<1>12. keyed = << >>
  <2> DEFINE lines == <<t>>
             X == Seq(Bytes)
  <2>1. lines \in Seq(X) /\ Len(lines) = 1 /\ lines[1] = t /\ DOMAIN lines = {1}
    <3> HIDE DEF X
    <3>1. t \in X
      BY <1>1 DEF X
    <3> QED BY <3>1
  <2> HIDE DEF lines, X
  <2>2. 1 \notin keep
    BY <1>10, <1>11, <2>1 DEF lines
  <2> HIDE DEF keep
  <2>3. PICK kept : Keeps(X, kept, lines, keep) /\ Kept(lines, keep) = kept[Len(lines)]
    BY <2>1, KeptRuns
  <2>4. kept[0] = << >> /\ kept[1] = KeptStep(kept[1 - 1], lines[1], 1 \in keep)
    <3>1. 1 \in 1 .. Len(lines)
      BY <2>1
    <3> QED BY <2>3, <3>1 DEF Keeps
  <2>5. kept[1] = << >>
    <3>1. 1 - 1 = 0
      OBVIOUS
    <3> QED BY <2>2, <2>4, <3>1 DEF KeptStep
  <2> QED BY <1>10, <2>1, <2>3, <2>5 DEF lines
<1>13. ParseVariables(FailReply) = run[Len(keyed)]
  BY DEF ParseVariables
<1> HIDE DEF keyed, keep, More
<1>14. Len(keyed) = 0
  BY <1>12
<1>15. Unfolds(run)
  <2> DEFINE g == [i \in 0 .. Len(keyed) |-> {}]
  <2>1. \A i \in 0 .. Len(keyed) : (IF i = 0 THEN {} ELSE More(g[i - 1], keyed[i])) = {}
    BY <1>14
  <2>2. Unfolds(g)
    <3> HIDE DEF g
    <3>1. g = [i \in 0 .. Len(keyed) |-> {}]
      BY DEF g
    <3> QED BY <2>1, <3>1
  <2> HIDE DEF Unfolds
  <2> QED BY <2>2
<1> HIDE DEF run
<1>16. run[0] = {}
  <2>1. 0 \in 0 .. Len(keyed)
    BY <1>14
  <2> QED BY <1>15, <2>1
<1>17. ParseVariables(FailReply) = {}
  BY <1>13, <1>14, <1>16
<1>18. \A key : IntField({}, key) = {}
  BY DEF IntField, Field
<1> QED BY <1>17, <1>18 DEF SignalPoll

(* SameUnderSameName holds of any network, whatever is asked for. *)
LEMMA SameReading ==
  ASSUME ssid \in Seq(Bytes), level \in Int,
         mask \subseteq {FreqKey, LevelKey, FlagsKey, SsidKey}
  PROVE  SameUnderSameName
<1> DEFINE row == ScanResults(ScanTable(ssid))[1]
           bss == Bss(ParseVariables(BssReply))
           u == PrintfEncode(ssid)
           Masked(key, value) == IF key \in mask THEN {value} ELSE {}
<1>1. row = Found(ssid)
  <2>1. ScanResults(ScanTable(ssid)) = [i \in 1 .. 2 |-> Found(ssid)]
    BY ScanRead
  <2>2. 1 \in 1 .. 2
    OBVIOUS
  <2> HIDE DEF row
  <2>3. row = [i \in 1 .. 2 |-> Found(ssid)][1]
    BY <2>1 DEF row
  <2> QED BY <2>2, <2>3
<1> HIDE DEF row, bss
<1>2. /\ row.signal_level = level /\ row.frequency = 2412 /\ row.ssid = u
      /\ row.ssid_bytes = ssid /\ row.flags = <<K>>
  BY <1>1 DEF Found
<1>3. bss = [id |-> {0}, frequency |-> Masked(FreqKey, 2412),
             signal_level |-> Masked(LevelKey, level), ssid |-> Masked(SsidKey, u),
             ssid_bytes |-> Masked(SsidKey, ssid), flags |-> Masked(FlagsKey, <<K>>)]
  BY BssRead DEF bss
<1> HIDE DEF u
<1>4. bss = [id |-> {0},
             frequency |-> Masked(FreqKey, row.frequency),
             signal_level |-> Masked(LevelKey, row.signal_level),
             ssid |-> Masked(SsidKey, row.ssid),
             ssid_bytes |-> Masked(SsidKey, row.ssid_bytes),
             flags |-> Masked(FlagsKey, row.flags)]
  BY <1>2, <1>3
<1>5. SignalPoll(ParseVariables(PollReply))
        = [rssi |-> {level} \ {-9999}, noise |-> {level} \ {9999}, frequency |-> {2412}]
  BY PollRead
<1>6. SignalPoll(ParseVariables(<<70, 65, 73, 76, Newline>>))
        = [rssi |-> {}, noise |-> {}, frequency |-> {}]
  BY RefusalRead DEF FailReply
<1>7. row.signal_level = level
  BY <1>2
<1> QED BY <1>4, <1>5, <1>6, <1>7 DEF SameUnderSameName, row, bss

-----------------------------------------------------------------------------
(* Channels *)

(* The classes one by one. *)
LEMMA ClassesListed ==
  \A o \in OperatingClasses :
    \/ o.class = 81  /\ o.start = 2407 /\ o.channels = 1 .. 13
    \/ o.class = 82  /\ o.start = 2414 /\ o.channels = {14}
    \/ o.class = 115 /\ o.start = 5000 /\ o.channels = EveryFourth(36, 48)
    \/ o.class = 118 /\ o.start = 5000 /\ o.channels = EveryFourth(52, 64)
    \/ o.class = 121 /\ o.start = 5000 /\ o.channels = EveryFourth(100, 144)
    \/ o.class = 125 /\ o.start = 5000 /\ o.channels = EveryFourth(149, 177)
    \/ o.class = 131 /\ o.start = 5950 /\ o.channels = EveryFourth(1, 233)
    \/ o.class = 136 /\ o.start = 5925 /\ o.channels = {2}
BY DEF OperatingClasses

(* What dpp_channel() answers, band by band. *)
LEMMA ChannelSays ==
  ASSUME NEW f \in Nat
  PROVE  /\ TwoGHz(f) => DppChannel(f) = <<81, (f - 2412) \div 5 + 1>>
         /\ f = 2484 => DppChannel(f) = <<82, 14>>
         /\ FiveGHz(f) => DppChannel(f) = <<FiveGHzClass(f), FiveGHzChannel(f)>>
         /\ f = 5935 => DppChannel(f) = <<136, 2>>
         /\ SixGHz(f) => DppChannel(f) = <<131, (f - 5950) \div 5>>
         /\ ~TwoGHz(f) /\ f # 2484 /\ ~FiveGHz(f) /\ f # 5935 /\ ~SixGHz(f)
              => DppChannel(f) = NoChannel
<1>1. TwoGHz(f) => f \in 2412 .. 2472
  BY DEF TwoGHz
<1>2. FiveGHz(f) => f \in 5180 .. 5885
  BY DEF FiveGHz
<1>3. SixGHz(f) => f \in 5955 .. 7115
  BY DEF SixGHz
<1> QED BY <1>1, <1>2, <1>3 DEF DppChannel

(* The class, away from the 5 GHz channels. *)
LEMMA OtherClasses ==
  \A f \in Nat : ~FiveGHz(f) => DppChannel(f)[1] \in {0, 81, 82, 131, 136}
BY DEF DppChannel, NoChannel

(* The class of a 5 GHz number, by its range. *)
LEMMA FiveGHzSays ==
  ASSUME NEW f \in Nat, FiveGHz(f)
  PROVE  LET c == FiveGHzChannel(f)
             k == FiveGHzClass(f)
         IN  \/ k = 115 /\ c \in 36 .. 48
             \/ k = 118 /\ c \in 52 .. 64
             \/ k = 121 /\ c \in 100 .. 144
             \/ k = 125 /\ c \in 149 .. 177
<1> DEFINE class == CHOOSE c \in FiveGHzClasses : FiveGHzChannel(f) \in c[2] .. c[3]
<1>1. class \in FiveGHzClasses /\ FiveGHzChannel(f) \in class[2] .. class[3]
  BY DEF FiveGHz
<1>2. FiveGHzClass(f) = class[1]
  BY DEF FiveGHzClass
<1> HIDE DEF class
<1> QED BY <1>1, <1>2 DEF FiveGHzClasses

(* A channel there is: dpp_channel() names it, with its class, for the     *)
(* frequency it is at and for no other.                                    *)
LEMMA ChannelNamed ==
  ASSUME NEW f \in Nat, NEW o \in OperatingClasses, NEW c \in o.channels
  PROVE  DppChannel(f) = <<o.class, c>> <=> CentreOf(o, c) = f
<1> USE ChannelSays
<1>0. CentreOf(o, c) = o.start + 5 * c
  BY DEF CentreOf
<1>1. CASE o.class = 81 /\ o.start = 2407 /\ o.channels = 1 .. 13
  <2>1. c \in 1 .. 13
    BY <1>1
  <2>2. CASE TwoGHz(f)
    <3>1. 5 * ((f - 2412) \div 5) = f - 2412 /\ (f - 2412) \div 5 \in Int
      BY <2>2 DEF TwoGHz
    <3>2. DppChannel(f) = <<81, (f - 2412) \div 5 + 1>>
      BY <2>2
    <3> QED BY <1>0, <1>1, <2>1, <3>1, <3>2
  <2>3. CASE ~TwoGHz(f)
    <3>1. f # 2407 + 5 * c
      BY <2>1, <2>3 DEF TwoGHz
    <3>2. DppChannel(f) # <<81, c>>
      BY <2>1, <2>3, FiveGHzSays DEF NoChannel
    <3> QED BY <1>0, <1>1, <3>1, <3>2
  <2> QED BY <2>2, <2>3
<1>2. CASE o.class = 82 /\ o.start = 2414 /\ o.channels = {14}
  <2>1. c = 14 /\ CentreOf(o, c) = 2484
    BY <1>0, <1>2
  <2>2. f # 2484 => DppChannel(f) # <<82, 14>>
    BY FiveGHzSays DEF NoChannel
  <2> QED BY <1>2, <2>1, <2>2
<1>3. CASE /\ o.start = 5000
           /\ \/ o.class = 115 /\ o.channels = EveryFourth(36, 48)
              \/ o.class = 118 /\ o.channels = EveryFourth(52, 64)
              \/ o.class = 121 /\ o.channels = EveryFourth(100, 144)
              \/ o.class = 125 /\ o.channels = EveryFourth(149, 177)
  <2>1. \/ o.class = 115 /\ c \in 36 .. 48
        \/ o.class = 118 /\ c \in 52 .. 64
        \/ o.class = 121 /\ c \in 100 .. 144
        \/ o.class = 125 /\ c \in 149 .. 177
    BY <1>3 DEF EveryFourth
  <2>2. CASE FiveGHz(f)
    <3>1. 5 * FiveGHzChannel(f) = f - 5000 /\ FiveGHzChannel(f) \in Int
      BY <2>2 DEF FiveGHz, FiveGHzChannel
    <3>2. DppChannel(f) = <<FiveGHzClass(f), FiveGHzChannel(f)>>
      BY <2>2
    <3>3. CentreOf(o, c) = f <=> c = FiveGHzChannel(f)
      <4> DEFINE d == FiveGHzChannel(f)
      <4>1. c \in Int /\ CentreOf(o, c) = 5000 + 5 * c
        BY <1>0, <1>3, <2>1
      <4> HIDE DEF d
      <4>2. d \in Int /\ 5 * d = f - 5000
        BY <3>1 DEF d
      <4>3. CentreOf(o, c) = f <=> c = d
        BY <4>1, <4>2
      <4> QED BY <4>3 DEF d
    <3>4. c = FiveGHzChannel(f) => o.class = FiveGHzClass(f)
      BY <2>1, <2>2, FiveGHzSays
    <3> QED BY <3>2, <3>3, <3>4
  <2>3. CASE ~FiveGHz(f)
    <3>1. f # 5000 + 5 * c
      <4> SUFFICES ASSUME f = 5000 + 5 * c PROVE FiveGHz(f)
        BY <2>3
      <4>1. c \in 36 .. 177
        BY <2>1
      <4>3. f \in 5180 .. 5885
        BY <4>1
      <4>4. (f - 5180) % 5 = 0
        BY <4>1
      <4>5. FiveGHzChannel(f) = c
        BY <4>1 DEF FiveGHzChannel
      <4>2. \E k \in FiveGHzClasses : c \in k[2] .. k[3]
        BY <2>1 DEF FiveGHzClasses
      <4> QED BY <4>2, <4>3, <4>4, <4>5 DEF FiveGHz
    <3>2. DppChannel(f) # <<o.class, c>>
      <4>1. DppChannel(f)[1] # o.class
        BY <2>1, <2>3, OtherClasses
      <4> QED BY <4>1
    <3> QED BY <1>0, <1>3, <3>1, <3>2
  <2> QED BY <2>2, <2>3
<1>4. CASE o.class = 131 /\ o.start = 5950 /\ o.channels = EveryFourth(1, 233)
  <2>1. c \in 1 .. 233 /\ (c - 1) % 4 = 0
    BY <1>4 DEF EveryFourth
  <2>2. CASE SixGHz(f)
    <3>1. 5 * ((f - 5950) \div 5) = f - 5950 /\ (f - 5950) \div 5 \in Int
      BY <2>2 DEF SixGHz
    <3>2. DppChannel(f) = <<131, (f - 5950) \div 5>>
      BY <2>2
    <3> QED BY <1>0, <1>4, <2>1, <3>1, <3>2
  <2>3. CASE ~SixGHz(f)
    <3>1. f # 5950 + 5 * c
      BY <2>1, <2>3 DEF SixGHz
    <3>2. DppChannel(f) # <<131, c>>
      BY <2>1, <2>3, FiveGHzSays DEF NoChannel
    <3> QED BY <1>0, <1>4, <3>1, <3>2
  <2> QED BY <2>2, <2>3
<1>5. CASE o.class = 136 /\ o.start = 5925 /\ o.channels = {2}
  <2>1. c = 2 /\ CentreOf(o, c) = 5935
    BY <1>0, <1>5
  <2>2. f # 5935 => DppChannel(f) # <<136, 2>>
    BY FiveGHzSays DEF NoChannel
  <2> QED BY <1>5, <2>1, <2>2
<1>6. \/ o.class = 81  /\ o.start = 2407 /\ o.channels = 1 .. 13
      \/ o.class = 82  /\ o.start = 2414 /\ o.channels = {14}
      \/ o.start = 5000 /\ \/ o.class = 115 /\ o.channels = EveryFourth(36, 48)
                           \/ o.class = 118 /\ o.channels = EveryFourth(52, 64)
                           \/ o.class = 121 /\ o.channels = EveryFourth(100, 144)
                           \/ o.class = 125 /\ o.channels = EveryFourth(149, 177)
      \/ o.class = 131 /\ o.start = 5950 /\ o.channels = EveryFourth(1, 233)
      \/ o.class = 136 /\ o.start = 5925 /\ o.channels = {2}
  BY ONLY ClassesListed
<1> QED BY ONLY <1>1, <1>2, <1>3, <1>4, <1>5, <1>6

(* Away from 5 GHz dpp_channel() answers with nothing but such channels. *)
LEMMA ChannelExists ==
  ASSUME NEW f \in Nat, DppChannel(f) # NoChannel, f \notin 5180 .. 5885
  PROVE  \E o \in OperatingClasses : \E c \in o.channels : DppChannel(f) = <<o.class, c>>
<1> USE ChannelSays
<1>1. CASE TwoGHz(f)
  <2> DEFINE o == [class |-> 81,  start |-> 2407, channels |-> 1 .. 13]
             c == (f - 2412) \div 5 + 1
  <2>1. c \in 1 .. 13
    BY <1>1 DEF TwoGHz
  <2>2. DppChannel(f) = <<o.class, c>> /\ c \in o.channels
    BY <1>1, <2>1
  <2>3. o \in OperatingClasses
    BY DEF OperatingClasses
  <2> QED BY <2>2, <2>3
<1>2. CASE f = 2484
  <2> DEFINE o == [class |-> 82,  start |-> 2414, channels |-> {14}]
  <2>1. DppChannel(f) = <<o.class, 14>> /\ 14 \in o.channels
    BY <1>2
  <2>2. o \in OperatingClasses
    BY DEF OperatingClasses
  <2> QED BY <2>1, <2>2
<1>3. CASE f = 5935
  <2> DEFINE o == [class |-> 136, start |-> 5925, channels |-> {2}]
  <2>1. DppChannel(f) = <<o.class, 2>> /\ 2 \in o.channels
    BY <1>3
  <2>2. o \in OperatingClasses
    BY DEF OperatingClasses
  <2> QED BY <2>1, <2>2
<1>4. CASE SixGHz(f)
  <2> DEFINE o == [class |-> 131, start |-> 5950, channels |-> EveryFourth(1, 233)]
             c == (f - 5950) \div 5
  <2>0. PICK q \in 0 .. 58 : f = 5955 + 20 * q
    <3> DEFINE d == (f - 5955) \div 20
    <3>1. f \in 5955 .. 7115 /\ (f - 5955) % 20 = 0
      BY <1>4 DEF SixGHz
    <3>2. f - 5955 = 20 * d /\ d \in Int
      BY <3>1
    <3> HIDE DEF d
    <3>3. d \in 0 .. 58 /\ f = 5955 + 20 * d
      BY <3>1, <3>2
    <3> QED BY <3>3
  <2>1. c = 4 * q + 1 /\ c \in 1 .. 233 /\ (c - 1) % 4 = 0
    BY <2>0
  <2>2. DppChannel(f) = <<o.class, c>> /\ c \in o.channels
    BY <1>4, <2>1 DEF EveryFourth
  <2>3. o \in OperatingClasses
    BY DEF OperatingClasses
  <2> QED BY <2>2, <2>3
<1>5. ~FiveGHz(f)
  BY DEF FiveGHz
<1> QED BY <1>1, <1>2, <1>3, <1>4, <1>5

-----------------------------------------------------------------------------
(* The specification *)

(* What Init and Next keep to. *)
TypeOK ==
  /\ subject \in {"ssid", "bss", "suites", "channel"}
  /\ ssid \in Seq(Octets) /\ suites \in Seq(Suites)
  /\ frequency \in Frequencies \cup {0} /\ level \in Levels \cup {0}
  /\ mask \subseteq {FreqKey, LevelKey, FlagsKey, SsidKey}
  /\ subject # "suites" => suites = << >>
  /\ subject \notin {"ssid", "bss"} => ssid = << >>

(* It holds at first. *)
LEMMA TypeInit == Init => TypeOK
BY DEF Init, TypeOK

(* Every step keeps it. *)
LEMMA TypeNext == TypeOK /\ [Next]_vars => TypeOK'
<1> SUFFICES ASSUME TypeOK, [Next]_vars PROVE TypeOK'
  OBVIOUS
<1>1. CASE AddOctet
  BY <1>1 DEF AddOctet, TypeOK
<1>2. CASE AddSuite
  BY <1>2 DEF AddSuite, TypeOK
<1>3. CASE UNCHANGED vars
  BY <1>3 DEF vars, TypeOK
<1> QED BY <1>1, <1>2, <1>3 DEF Next

(* The octets, suites and frequencies of a behaviour stay what the         *)
(* constants allow, and what is not being built stays empty.               *)
LEMMA Types == Spec => []TypeOK
BY TypeInit, TypeNext, PTL DEF Spec

(* Type correctness, in the terms of the lemmas above. *)
LEMMA SsidIsBytes == TypeOK => ssid \in Seq(Bytes)
<1>1. Octets \subseteq Bytes
  BY OctetsAssumption DEF Bytes
<1>2. TypeOK => ssid \in Seq(Octets)
  BY DEF TypeOK
<1> QED BY <1>1, <1>2, SeqMonotonic

(* And of the level. *)
LEMMA LevelIsNumber == TypeOK => level \in Int
<1>1. TypeOK => level \in Levels \cup {0}
  BY DEF TypeOK
<1>2. 0 \in Int
  OBVIOUS
<1> QED BY <1>1, <1>2, LevelsAssumption

(* parse_security() reads from a group the suites advertised, up to the    *)
(* first without a name, and of that one at most a name it goes on from    *)
(* (security.py:44).                                                       *)
THEOREM AsAdvertisedAlways == Spec => []SuitesAsAdvertised
<1>1. TypeOK => SuitesAsAdvertised
  BY AsAdvertised DEF TypeOK
<1> QED BY <1>1, Types, PTL

(* No access point that advertises a group is taken for an open one; a     *)
(* passphrase, an EAP and an SAE suite but FT/SAE-EXT-KEY are found among  *)
(* its suites, however many there are and in whatever order; and sae_only  *)
(* is true of none that offers a passphrase suite, as long as every suite  *)
(* has a name here (security.py:102, :116-:132, :145).                     *)
THEOREM NeverTakenForOpenAlways == Spec => []NeverTakenForOpen
<1>1. TypeOK => NeverTakenForOpen
  BY NeverOpen DEF TypeOK
<1> QED BY <1>1, Types, PTL

(* An SSID of any octets comes out of a configuration as it went in, in    *)
(* each of the three spellings from_config() knows (ssid.py:91).           *)
THEOREM ConfigCarriesSsidAlways == Spec => []ConfigCarriesSsid
<1>1. TypeOK => ConfigCarriesSsid
  BY SsidIsBytes, ConfigCarries
<1> QED BY <1>1, Types, PTL

(* A secret that is not empty is what a DPP exchange is sent, whole, a key *)
(* that is none being refused (dpp.py:113); and one of ASCII octets with   *)
(* no quote or backslash reaches the daemon in a psk variable as the key   *)
(* or the passphrase it is, or is refused there (ssid.py:186).             *)
THEOREM SecretsArriveWholeAlways == Spec => []SecretsArriveWhole
<1>1. TypeOK => SecretsArriveWhole
  BY SsidIsBytes, SecretsWhole
<1> QED BY <1>1, Types, PTL

(* The channel a bootstrapping URI names (dpp.py:73) is the one of all the *)
(* global classes that the frequency is the centre of, whenever there is   *)
(* one; where there is none, none is named away from 5 GHz, and at 5 GHz a *)
(* number of no channel at most.                                           *)
THEOREM ChannelHasFrequencyAlways == Spec => []ChannelHasFrequency
<1>1. TypeOK => ChannelHasFrequency
  <2>1. TypeOK => frequency \in Nat
    BY FrequenciesAssumption DEF TypeOK
  <2>2. ASSUME frequency \in Nat PROVE ChannelHasFrequency
    <3>1. \A o \in OperatingClasses : \A c \in o.channels :
            DppChannel(frequency) = <<o.class, c>> <=> CentreOf(o, c) = frequency
      BY <2>2, ChannelNamed
    <3>2. DppChannel(frequency) # NoChannel /\ frequency \notin 5180 .. 5885 =>
            \E o \in OperatingClasses : \E c \in o.channels :
              DppChannel(frequency) = <<o.class, c>>
      BY <2>2, ChannelExists
    <3> QED BY ONLY <3>1, <3>2 DEF ChannelHasFrequency
  <2> QED BY <2>1, <2>2
<1> QED BY <1>1, Types, PTL

(* An SSID of any octets comes out of an event, out of both tables, out of *)
(* a block of variables and out of one headed by an address as it went in, *)
(* and what stands around it is neither hidden nor added to                *)
(* (events.py:488, :567, replies.py:49).                                   *)
THEOREM TextsCarrySsidAlways == Spec => []TextsCarrySsid
<1>1. TypeOK => TextsCarrySsid
  BY SsidIsBytes, LevelIsNumber, TextsCarry
<1> QED BY <1>1, Types, PTL

(* A scan row and a BSS block report the same network under the same       *)
(* names, whichever fields were asked for and whatever the level; a field  *)
(* not asked for, a reading not taken and a refusal have no value          *)
(* (replies.py:270, :272, :185).                                           *)
THEOREM SameUnderSameNameAlways == Spec => []SameUnderSameName
<1>1. TypeOK => SameUnderSameName
  <2>1. TypeOK => mask \subseteq {FreqKey, LevelKey, FlagsKey, SsidKey}
    BY DEF TypeOK
  <2> QED BY <2>1, SsidIsBytes, LevelIsNumber, SameReading
<1> QED BY <1>1, Types, PTL
=============================================================================

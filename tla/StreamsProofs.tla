---------------------------- MODULE StreamsProofs ----------------------------
(***************************************************************************)
(* Proofs about modules Sse and Streams, for every body that a provider    *)
(* can send, however it is cut into chunks: what the parser makes of the   *)
(* bytes of an event, what the adapter makes of the events and the         *)
(* observer of their usage, and the inductive invariant of a stream, which *)
(* ExchangeProofs turns into theorems of the specification.                *)
(***************************************************************************)
EXTENDS Streams, WellFoundedInduction, TLAPS
-----------------------------------------------------------------------------
(***************************************************************************)
(* Numbers.  The library's induction theorems take an operator; these take *)
(* a set, which the provers can instantiate.                               *)
(***************************************************************************)

(* The least-number principle. *)
LEMMA Least ==
    ASSUME NEW T, T \subseteq Nat, T # {}
    PROVE  \E n \in T : \A m \in T : n <= m
<1> DEFINE R == OpToRel(<, Nat)
<1>1. IsWellFoundedOn(R, Nat)
    BY NatLessThanWellFounded
<1>2. \A m, n \in Nat : m < n => <<m, n>> \in R
    BY DEF OpToRel
<1> HIDE DEF R
<1>3. PICK n \in T : \A m \in T : ~ (<<m, n>> \in R)
    BY <1>1, WFMin
<1>4. ASSUME NEW m \in T
      PROVE  n <= m
    <2>1. m \in Nat /\ n \in Nat /\ <<m, n>> \notin R
        BY <1>3
    <2>2. ~ (m < n)
        BY <1>2, <2>1
    <2>3. QED
        BY <2>1, <2>2
<1>5. QED
    BY <1>4

(* Induction: a set with 0 that is closed under successor. *)
LEMMA Induction ==
    ASSUME NEW S, 0 \in S, \A n \in Nat : n \in S => n + 1 \in S
    PROVE  \A n \in Nat : n \in S
<1> SUFFICES ASSUME NEW x \in Nat, x \notin S
             PROVE  FALSE
    OBVIOUS
<1> DEFINE T == Nat \ S
<1>1. T \subseteq Nat /\ T # {}
    OBVIOUS
<1> HIDE DEF T
<1>2. PICK n \in T : \A m \in T : n <= m
    BY <1>1, Least
<1>3. n \in Nat /\ n # 0 /\ n - 1 \in Nat /\ n - 1 \notin T
    BY <1>2 DEF T
<1>4. QED
    BY <1>2, <1>3 DEF T

(* The least member of a set of natural numbers. *)
LEMMA MinIs ==
    ASSUME NEW T, T \subseteq Nat, T # {}
    PROVE  Min(T) \in T /\ \A m \in T : Min(T) <= m
<1>1. \E n \in T : \A m \in T : n <= m
    BY Least
<1>2. QED
    BY <1>1 DEF Min

(* The greatest member of a bounded one. *)
LEMMA MaxIs ==
    ASSUME NEW k \in Nat, NEW T, T \subseteq 0..k, T # {}
    PROVE  Max(T) \in T /\ \A m \in T : Max(T) >= m
<1> DEFINE U == {k - m : m \in T}
<1>1. U \subseteq Nat /\ U # {}
    <2>1. \A m \in T : k - m \in Nat
        OBVIOUS
    <2>2. QED
        BY <2>1
<1>2. PICK u \in U : \A v \in U : u <= v
    <2> HIDE DEF U
    <2>1. QED
        BY <1>1, Least
<1>3. PICK n \in T : u = k - n
    OBVIOUS
<1>4. \A m \in T : n >= m
    BY <1>2, <1>3
<1>5. QED
    BY <1>4 DEF Max

(* What Min is, when a least element is known. *)
LEMMA MinAt ==
    ASSUME NEW T, T \subseteq Nat, NEW n \in T, \A m \in T : n <= m
    PROVE  Min(T) = n
<1>1. Min(T) \in T /\ \A m \in T : Min(T) <= m
    BY MinIs
<1>2. n \in Nat /\ Min(T) \in Nat /\ Min(T) <= n /\ n <= Min(T)
    BY <1>1
<1>3. QED
    BY <1>2

(* What is the greatest member is Max. *)
LEMMA MaxAt ==
    ASSUME NEW T, T \subseteq Nat, NEW n \in T, \A m \in T : n >= m
    PROVE  Max(T) = n
<1>1. Max(T) \in T /\ \A m \in T : Max(T) >= m
    BY DEF Max
<1>2. n \in Nat /\ Max(T) \in Nat /\ Max(T) >= n /\ n >= Max(T)
    BY <1>1
<1>3. QED
    BY <1>2
-----------------------------------------------------------------------------
(***************************************************************************)
(* Concatenation of a sequence of sequences.                               *)
(***************************************************************************)

(* f is the function that FlattenSeq is defined by. *)
Flattens(f, s, n) == f = [i \in 1..n |-> IF i = 1 THEN s[i] ELSE f[i - 1] \o s[i]]

(* The recursion of FlattenSeq has a solution of every length. *)
LEMMA FlattenExists ==
    ASSUME NEW s
    PROVE  \A n \in Nat : \E f : Flattens(f, s, n)
<1> DEFINE P == {n \in Nat : \E f : Flattens(f, s, n)}
<1>1. 0 \in P
    <2> DEFINE f == [i \in 1..0 |-> i]
    <2>1. Flattens(f, s, 0)
        BY DEF Flattens
    <2>2. QED
        BY <2>1
<1>2. ASSUME NEW n \in Nat, n \in P
      PROVE  n + 1 \in P
    <2>1. PICK f : Flattens(f, s, n)
        BY <1>2
    <2> DEFINE g == [i \in 1..(n + 1) |->
                        IF i = n + 1 THEN IF i = 1 THEN s[i] ELSE f[i - 1] \o s[i] ELSE f[i]]
    <2>2. ASSUME NEW i \in 1..(n + 1)
          PROVE  g[i] = IF i = 1 THEN s[i] ELSE g[i - 1] \o s[i]
        <3>1. CASE i = n + 1
            BY <3>1
        <3>2. CASE i # n + 1
            <4>1. i \in 1..n /\ g[i] = f[i] /\ (i # 1 => i - 1 \in 1..n /\ g[i - 1] = f[i - 1])
                BY <3>2
            <4>2. f[i] = IF i = 1 THEN s[i] ELSE f[i - 1] \o s[i]
                BY <2>1, <4>1 DEF Flattens
            <4>3. QED
                BY <4>1, <4>2
        <3>3. QED
            BY <3>1, <3>2
    <2>3. Flattens(g, s, n + 1)
        BY <2>2 DEF Flattens
    <2>4. QED
        BY <2>3
<1> HIDE DEF P
<1>3. \A n \in Nat : n \in P
    BY <1>1, <1>2, Induction
<1>4. QED
    BY <1>3 DEF P

(* Two of them agree as long as their sequences do. *)
LEMMA FlattenAgrees ==
    ASSUME NEW s, NEW t, NEW n \in Nat, NEW m \in Nat, n <= m, NEW f, NEW g,
           Flattens(f, s, n), Flattens(g, t, m), \A i \in 1..n : s[i] = t[i]
    PROVE  \A i \in 1..n : f[i] = g[i]
<1> DEFINE P == {i \in Nat : i \in 1..n => f[i] = g[i]}
<1>1. 0 \in P
    OBVIOUS
<1>2. ASSUME NEW i \in Nat, i \in P
      PROVE  i + 1 \in P
    <2>1. SUFFICES ASSUME i + 1 \in 1..n
                   PROVE  f[i + 1] = g[i + 1]
        OBVIOUS
    <2>2. /\ f[i + 1] = IF i + 1 = 1 THEN s[i + 1] ELSE f[(i + 1) - 1] \o s[i + 1]
          /\ g[i + 1] = IF i + 1 = 1 THEN t[i + 1] ELSE g[(i + 1) - 1] \o t[i + 1]
        <3>1. i + 1 \in 1..m
            BY <2>1
        <3>2. QED
            BY <2>1, <3>1 DEF Flattens
    <2>3. (i + 1) - 1 = i /\ s[i + 1] = t[i + 1] /\ (i + 1 # 1 => f[i] = g[i])
        BY <1>2, <2>1
    <2>4. QED
        BY <2>2, <2>3
<1> HIDE DEF P
<1>3. \A i \in Nat : i \in P
    BY <1>1, <1>2, Induction
<1>4. QED
    BY <1>3 DEF P

(* FlattenSeq is the last value of such a solution. *)
LEMMA FlattenIs ==
    ASSUME NEW s, Len(s) \in Nat, Len(s) # 0
    PROVE  \E f : Flattens(f, s, Len(s)) /\ FlattenSeq(s) = f[Len(s)]
<1> DEFINE f == CHOOSE g : g = [i \in 1..Len(s) |-> IF i = 1 THEN s[i] ELSE g[i - 1] \o s[i]]
<1>1. FlattenSeq(s) = f[Len(s)]
    BY DEF FlattenSeq
<1>2. \E g : g = [i \in 1..Len(s) |-> IF i = 1 THEN s[i] ELSE g[i - 1] \o s[i]]
    BY FlattenExists DEF Flattens
<1>3. f = [i \in 1..Len(s) |-> IF i = 1 THEN s[i] ELSE f[i - 1] \o s[i]]
    BY <1>2
<1> HIDE DEF f
<1>4. Flattens(f, s, Len(s))
    BY <1>3 DEF Flattens
<1>5. QED
    BY <1>1, <1>4

(* One more sequence is appended to what the others come to. *)
LEMMA FlattenLonger ==
    ASSUME NEW s, NEW t, NEW n \in Nat, n # 0, Len(s) = n, Len(t) = n + 1, \A i \in 1..n : s[i] = t[i]
    PROVE  FlattenSeq(t) = FlattenSeq(s) \o t[n + 1]
<1>1. PICK f : Flattens(f, s, n) /\ FlattenSeq(s) = f[n]
    BY FlattenIs
<1>2. PICK g : Flattens(g, t, n + 1) /\ FlattenSeq(t) = g[n + 1]
    <2>1. Len(t) \in Nat /\ Len(t) # 0
        OBVIOUS
    <2>2. QED
        BY <2>1, FlattenIs
<1>3. f[n] = g[n]
    <2>1. n + 1 \in Nat /\ n <= n + 1 /\ n \in 1..n
        OBVIOUS
    <2>2. \A i \in 1..n : f[i] = g[i]
        BY <1>1, <1>2, <2>1, FlattenAgrees, SMTT(40)
    <2>3. QED
        BY <2>1, <2>2
<1>4. g[n + 1] = g[n] \o t[n + 1]
    <2>1. n + 1 \in 1..(n + 1) /\ n + 1 # 1 /\ (n + 1) - 1 = n
        OBVIOUS
    <2>2. g[n + 1] = IF n + 1 = 1 THEN t[n + 1] ELSE g[(n + 1) - 1] \o t[n + 1]
        BY <1>2, <2>1 DEF Flattens
    <2>3. QED
        BY <2>1, <2>2
<1>5. QED
    BY <1>1, <1>2, <1>3, <1>4

(* One sequence. *)
LEMMA FlattenOne ==
    ASSUME NEW t, Len(t) = 1
    PROVE  FlattenSeq(t) = t[1]
<1>1. PICK g : Flattens(g, t, 1) /\ FlattenSeq(t) = g[1]
    <2>1. Len(t) \in Nat /\ Len(t) # 0
        OBVIOUS
    <2>2. QED
        BY <2>1, FlattenIs
<1>2. QED
    BY <1>1 DEF Flattens

(* The same for Append, and with no sequence before it. *)
LEMMA FlattenStep ==
    ASSUME NEW S, NEW s \in Seq(Seq(S)), NEW x \in Seq(S)
    PROVE  FlattenSeq(Append(s, x)) = FlattenSeq(s) \o x
<1> DEFINE t == Append(s, x)
           n == Len(s)
<1>1. /\ n \in Nat /\ Len(t) = n + 1 /\ t[n + 1] = x
      /\ \A i \in 1..n : s[i] = t[i]
    OBVIOUS
<1>2. CASE n = 0
    <2>1. s = <<>> /\ FlattenSeq(s) = <<>>
        BY <1>2 DEF FlattenSeq
    <2>2. FlattenSeq(t) = x
        <3> HIDE DEF t
        <3>1. QED
            BY <1>1, <1>2, FlattenOne
    <2>3. <<>> \o x = x
        OBVIOUS
    <2>4. QED
        BY <2>1, <2>2, <2>3
<1>3. CASE n # 0
    <2> HIDE DEF t
    <2>1. FlattenSeq(t) = FlattenSeq(s) \o t[n + 1]
        BY <1>1, <1>3, FlattenLonger
    <2>2. QED
        BY <1>1, <2>1 DEF t
<1>4. QED
    BY <1>2, <1>3

(* No sequence. *)
LEMMA FlattenEmpty == FlattenSeq(<<>>) = <<>>
    BY DEF FlattenSeq

(* A sequence that is not empty is its front and its last element. *)
LEMMA FrontAndLast ==
    ASSUME NEW S, NEW s \in Seq(S), NEW n \in Nat, Len(s) = n + 1
    PROVE  /\ SubSeq(s, 1, n) \in Seq(S) /\ Len(SubSeq(s, 1, n)) = n
           /\ s[n + 1] \in S
           /\ s = Append(SubSeq(s, 1, n), s[n + 1])
    OBVIOUS

(* The elements of a flattened sequence. *)
LEMMA FlattenType ==
    ASSUME NEW S, NEW s \in Seq(Seq(S))
    PROVE  FlattenSeq(s) \in Seq(S)
<1> DEFINE P == {n \in Nat : \A t \in Seq(Seq(S)) : Len(t) = n => FlattenSeq(t) \in Seq(S)}
<1>1. 0 \in P
    <2>1. \A t \in Seq(Seq(S)) : Len(t) = 0 => t = <<>>
        OBVIOUS
    <2>2. <<>> \in Seq(S)
        OBVIOUS
    <2>3. QED
        BY <2>1, <2>2, FlattenEmpty
<1>2. ASSUME NEW n \in Nat, n \in P
      PROVE  n + 1 \in P
    <2>1. SUFFICES ASSUME NEW t \in Seq(Seq(S)), Len(t) = n + 1
                   PROVE  FlattenSeq(t) \in Seq(S)
        OBVIOUS
    <2> DEFINE r == SubSeq(t, 1, n)
    <2>2. r \in Seq(Seq(S)) /\ Len(r) = n /\ t[n + 1] \in Seq(S) /\ t = Append(r, t[n + 1])
        BY <2>1, FrontAndLast
    <2> HIDE DEF r
    <2>3. FlattenSeq(r) \in Seq(S)
        BY <1>2, <2>2
    <2>4. FlattenSeq(t) = FlattenSeq(r) \o t[n + 1]
        BY <2>2, FlattenStep
    <2>5. QED
        BY <2>2, <2>3, <2>4
<1> HIDE DEF P
<1>3. \A n \in Nat : n \in P
    BY <1>1, <1>2, Induction
<1>4. Len(s) \in Nat
    OBVIOUS
<1>5. QED
    BY <1>3, <1>4 DEF P

(* What the first k of them come to, and how long that is. *)
Upto(s, k) == FlattenSeq(SubSeq(s, 1, k))
Off(s, k) == Len(Upto(s, k))

(* One sequence more is flattened. *)
LEMMA UptoStep ==
    ASSUME NEW S, NEW s \in Seq(Seq(S)), NEW k \in Nat, k < Len(s)
    PROVE  /\ s[k + 1] \in Seq(S) /\ Upto(s, k) \in Seq(S)
           /\ Upto(s, k + 1) = Upto(s, k) \o s[k + 1]
<1> DEFINE r == SubSeq(s, 1, k)
<1>1. r \in Seq(Seq(S)) /\ s[k + 1] \in Seq(S) /\ SubSeq(s, 1, k + 1) = Append(r, s[k + 1])
    OBVIOUS
<1> HIDE DEF r
<1>2. FlattenSeq(r) \in Seq(S)
    BY <1>1, FlattenType
<1>3. FlattenSeq(Append(r, s[k + 1])) = FlattenSeq(r) \o s[k + 1]
    BY <1>1, FlattenStep
<1>4. QED
    BY <1>1, <1>2, <1>3 DEF Upto, r

(* None and all of them. *)
LEMMA UptoEnds ==
    ASSUME NEW S, NEW s \in Seq(Seq(S))
    PROVE  Upto(s, 0) = <<>> /\ Upto(s, Len(s)) = FlattenSeq(s)
<1>1. SubSeq(s, 1, 0) = <<>> /\ SubSeq(s, 1, Len(s)) = s
    OBVIOUS
<1>2. QED
    BY <1>1, FlattenEmpty DEF Upto

(* The elements, and how many there are. *)
LEMMA UptoType ==
    ASSUME NEW S, NEW s \in Seq(Seq(S)), NEW k \in 0..Len(s)
    PROVE  Upto(s, k) \in Seq(S) /\ Off(s, k) \in Nat
<1>1. SubSeq(s, 1, k) \in Seq(Seq(S))
    OBVIOUS
<1>2. Upto(s, k) \in Seq(S)
    BY <1>1, FlattenType DEF Upto
<1>3. QED
    BY <1>2 DEF Off

(* Where the elements of the next sequence are. *)
LEMMA OffStep ==
    ASSUME NEW S, NEW s \in Seq(Seq(S)), NEW k \in Nat, k < Len(s)
    PROVE  /\ Off(s, k) \in Nat /\ Len(s[k + 1]) \in Nat
           /\ Off(s, k + 1) = Off(s, k) + Len(s[k + 1])
           /\ \A i \in 1..Off(s, k) : Upto(s, k + 1)[i] = Upto(s, k)[i]
           /\ \A i \in 1..Len(s[k + 1]) : Upto(s, k + 1)[Off(s, k) + i] = s[k + 1][i]
<1> DEFINE u == Upto(s, k)
           x == s[k + 1]
<1>1. x \in Seq(S) /\ u \in Seq(S) /\ Upto(s, k + 1) = u \o x
    BY UptoStep
<1> HIDE DEF u, x
<1>2. /\ Len(u) \in Nat /\ Len(x) \in Nat /\ Len(u \o x) = Len(u) + Len(x)
      /\ \A i \in 1..Len(u) : (u \o x)[i] = u[i]
      /\ \A i \in 1..Len(x) : (u \o x)[Len(u) + i] = x[i]
    BY <1>1
<1>3. QED
    BY <1>1, <1>2 DEF Off, u, x

(* What the first k come to is where what the first j come to begins. *)
LEMMA UptoGrows ==
    ASSUME NEW S, NEW s \in Seq(Seq(S)), NEW k \in Nat, NEW j \in Nat, k <= j, j <= Len(s)
    PROVE  /\ Off(s, k) <= Off(s, j)
           /\ \A i \in 1..Off(s, k) : Upto(s, j)[i] = Upto(s, k)[i]
<1> DEFINE Begins(m) == /\ Off(s, k) <= Off(s, m)
                        /\ \A i \in 1..Off(s, k) : Upto(s, m)[i] = Upto(s, k)[i]
           P == {d \in Nat : k + d <= Len(s) => Begins(k + d)}
<1>1. 0 \in P
    <2>1. Off(s, k) \in Nat /\ k + 0 = k
        BY UptoType
    <2>2. Begins(k)
        BY <2>1
    <2> HIDE DEF Begins
    <2>3. QED
        BY <2>1, <2>2
<1>2. ASSUME NEW d \in Nat, d \in P
      PROVE  d + 1 \in P
    <2>1. SUFFICES ASSUME k + (d + 1) <= Len(s)
                   PROVE  Begins(k + (d + 1))
        OBVIOUS
    <2> DEFINE m == k + d
    <2>2. m \in Nat /\ m < Len(s) /\ k + (d + 1) = m + 1 /\ k \in 0..Len(s) /\ Begins(m)
        BY <1>2, <2>1
    <2> HIDE DEF m
    <2>3. /\ Off(s, m) \in Nat /\ Len(s[m + 1]) \in Nat
          /\ Off(s, m + 1) = Off(s, m) + Len(s[m + 1])
          /\ \A i \in 1..Off(s, m) : Upto(s, m + 1)[i] = Upto(s, m)[i]
        BY <2>2, OffStep
    <2>4. Off(s, k) \in Nat
        BY <2>2, UptoType
    <2>5. Begins(m + 1)
        BY <2>2, <2>3, <2>4
    <2>6. QED
        BY <2>2, <2>5
<1> HIDE DEF P
<1>3. \A d \in Nat : d \in P
    BY <1>1, <1>2, Induction
<1>4. j - k \in Nat /\ k + (j - k) = j
    OBVIOUS
<1>5. QED
    BY <1>3, <1>4 DEF P

(* The elements of the concatenation: the i-th of the (k+1)-th sequence. *)
LEMMA FlattenAt ==
    ASSUME NEW S, NEW s \in Seq(Seq(S))
    PROVE  /\ FlattenSeq(s) \in Seq(S)
           /\ Off(s, 0) = 0 /\ Off(s, Len(s)) = Len(FlattenSeq(s))
           /\ \A k \in 0..Len(s) : Off(s, k) \in Nat /\ Off(s, k) <= Len(FlattenSeq(s))
           /\ \A k \in 0..(Len(s) - 1) :
                 /\ Off(s, k + 1) = Off(s, k) + Len(s[k + 1])
                 /\ \A i \in 1..Len(s[k + 1]) : FlattenSeq(s)[Off(s, k) + i] = s[k + 1][i]
<1> DEFINE n == Len(s)
<1>1. n \in Nat /\ FlattenSeq(s) \in Seq(S)
    BY FlattenType
<1>2. Off(s, 0) = 0 /\ Upto(s, n) = FlattenSeq(s) /\ Off(s, n) = Len(FlattenSeq(s))
    BY UptoEnds DEF Off
<1> HIDE DEF n
<1>3. ASSUME NEW k \in 0..n
      PROVE  Off(s, k) \in Nat /\ Off(s, k) <= Off(s, n)
    <2>1. k \in Nat /\ n \in Nat /\ k <= n /\ n <= Len(s)
        BY <1>1 DEF n
    <2>2. Off(s, k) <= Off(s, n)
        BY <2>1, UptoGrows
    <2>3. QED
        BY <2>2, UptoType DEF n
<1>4. ASSUME NEW k \in 0..(n - 1)
      PROVE  /\ Off(s, k + 1) = Off(s, k) + Len(s[k + 1])
             /\ \A i \in 1..Len(s[k + 1]) : FlattenSeq(s)[Off(s, k) + i] = s[k + 1][i]
    <2>1. k \in Nat /\ k < n /\ k + 1 \in Nat /\ k + 1 <= n /\ n \in Nat
        BY <1>1
    <2>2. /\ Off(s, k) \in Nat /\ Len(s[k + 1]) \in Nat
          /\ Off(s, k + 1) = Off(s, k) + Len(s[k + 1])
          /\ \A i \in 1..Len(s[k + 1]) : Upto(s, k + 1)[Off(s, k) + i] = s[k + 1][i]
        BY <2>1, OffStep DEF n
    <2>3. \A i \in 1..Off(s, k + 1) : Upto(s, n)[i] = Upto(s, k + 1)[i]
        <3>1. n <= Len(s)
            BY <1>1 DEF n
        <3>2. QED
            BY <2>1, <3>1, UptoGrows
    <2>4. \A i \in 1..Len(s[k + 1]) : Off(s, k) + i \in 1..Off(s, k + 1)
        BY <2>2
    <2>5. QED
        BY <1>2, <2>2, <2>3, <2>4
<1>5. QED
    BY <1>1, <1>2, <1>3, <1>4 DEF n
-----------------------------------------------------------------------------
(***************************************************************************)
(* The bytes of lines and of events.                                       *)
(***************************************************************************)
AnyLine == LineType \cup {Line("end", "", None, None, None)}
ByteType == [line : AnyLine, half : {0, 1, 2}]

(* A half of a line is no line end. *)
LEMMA HalfByte ==
    ASSUME NEW line \in LineType, NEW half \in {1, 2}
    PROVE  Byte(line, half) \in ByteType /\ Byte(line, half).half = half
           /\ Byte(line, half).line = line /\ Byte(line, half) # Newline
<1>1. line \in AnyLine /\ half \in {0, 1, 2}
    BY DEF AnyLine
<1>2. Byte(line, half) \in ByteType /\ Byte(line, half).half = half /\ Byte(line, half).line = line
    BY <1>1 DEF Byte, ByteType
<1>3. Newline.half = 0
    BY DEF Newline, Byte
<1>4. QED
    BY <1>2, <1>3

(* A line end is no half of a line, and is text. *)
LEMMA NewlineByte ==
    /\ Newline \in ByteType /\ Newline.half = 0 /\ Newline.half # 1 /\ Newline.half # 2
    /\ Newline.line.value = "" /\ Newline.line.value # "not utf-8"
<1> DEFINE end == Line("end", "", None, None, None)
<1>1. end \in AnyLine /\ end.value = ""
    BY DEF AnyLine, Line
<1> HIDE DEF end
<1>2. [line |-> end, half |-> 0] \in ByteType
    BY <1>1 DEF ByteType
<1>3. Newline = [line |-> end, half |-> 0]
    BY DEF Newline, Byte, end
<1>4. Newline.half = 0 /\ Newline.line = end
    BY <1>3
<1>5. Newline.half # 1 /\ Newline.half # 2
    BY <1>4
<1>6. Newline.line.value = "" /\ Newline.line.value # "not utf-8"
    BY <1>1, <1>4
<1>7. QED
    BY <1>2, <1>3, <1>4, <1>5, <1>6

(* Halves and line ends take turns. *)
LEMMA Thirds ==
    ASSUME NEW i \in Nat
    PROVE  i % 3 \in 0..2 /\ (i % 3 = 0 => (i + 1) % 3 = 1) /\ (i % 3 = 1 => (i + 1) % 3 = 2)
           /\ (i % 3 = 2 => (i + 1) % 3 = 0) /\ (3 * i) % 3 = 0
    OBVIOUS

(* The position of a half, from the line it is of. *)
LEMMA ThirdsBack ==
    ASSUME NEW i \in Nat
    PROVE  /\ i % 3 = 1 => i = 3 * ((i + 2) \div 3) - 2
           /\ i % 3 = 2 => i = 3 * ((i + 2) \div 3) - 1
    OBVIOUS

(* The line that a position is in; its halves are of one line. *)
LEMMA ThirdsOf ==
    ASSUME NEW n \in Nat, NEW i \in Nat, 1 <= i, i <= 3 * n
    PROVE  (i + 2) \div 3 \in 1..n /\ (i % 3 = 1 => ((i + 1) + 2) \div 3 = (i + 2) \div 3)
    OBVIOUS

(* The bytes of lines, one by one. *)
LEMMA LinesAt ==
    ASSUME NEW lines \in Seq(LineType)
    PROVE  /\ Lines(lines) \in Seq(ByteType) /\ Len(Lines(lines)) = 3 * Len(lines)
           /\ \A i \in 1..(3 * Len(lines)) :
                 Lines(lines)[i] = IF i % 3 = 0 THEN Newline
                                   ELSE Byte(lines[(i + 2) \div 3], i % 3)
<1> DEFINE n == Len(lines)
<1>1. n \in Nat /\ 3 * n \in Nat
    OBVIOUS
<1>2. \A i \in 1..(3 * n) :
          /\ (i + 2) \div 3 \in 1..n /\ i % 3 \in 0..2
          /\ i % 3 # 0 => i % 3 \in {1, 2}
    BY <1>1, Thirds, ThirdsOf
<1>3. \A i \in 1..(3 * n) :
          (IF i % 3 = 0 THEN Newline ELSE Byte(lines[(i + 2) \div 3], i % 3)) \in ByteType
    <2>1. \A j \in 1..n : lines[j] \in LineType
        OBVIOUS
    <2> HIDE DEF n
    <2>2. QED
        BY <1>2, <2>1, HalfByte, NewlineByte
<1>4. QED
    BY <1>1, <1>3 DEF Lines

(* A sequence with an element after it. *)
LEMMA WithLast ==
    ASSUME NEW S, NEW s \in Seq(S), NEW x \in S
    PROVE  /\ s \o <<x>> \in Seq(S) /\ Len(s \o <<x>>) = Len(s) + 1
           /\ \A i \in 1..Len(s) : (s \o <<x>>)[i] = s[i]
           /\ (s \o <<x>>)[Len(s) + 1] = x
    OBVIOUS

(* The bytes of an event: those of its lines and the blank line. *)
LEMMA EncodedAt ==
    ASSUME NEW event \in Seq(LineType)
    PROVE  /\ Encoded(event) \in Seq(ByteType) /\ Len(Encoded(event)) = 3 * Len(event) + 1
           /\ \A i \in 1..(3 * Len(event)) : Encoded(event)[i] = Lines(event)[i]
           /\ Encoded(event)[3 * Len(event) + 1] = Newline
<1> DEFINE l == Lines(event)
           m == 3 * Len(event)
<1>1. l \in Seq(ByteType) /\ Len(l) = m /\ m \in Nat
    BY LinesAt
<1> HIDE DEF l, m
<1>2. /\ l \o <<Newline>> \in Seq(ByteType) /\ Len(l \o <<Newline>>) = m + 1
      /\ \A i \in 1..m : (l \o <<Newline>>)[i] = l[i]
      /\ (l \o <<Newline>>)[m + 1] = Newline
    <2> DEFINE x == Newline
    <2>1. x \in ByteType
        BY NewlineByte
    <2> HIDE DEF x
    <2>2. /\ l \o <<x>> \in Seq(ByteType) /\ Len(l \o <<x>>) = Len(l) + 1
          /\ \A i \in 1..Len(l) : (l \o <<x>>)[i] = l[i]
          /\ (l \o <<x>>)[Len(l) + 1] = x
        BY <1>1, <2>1, WithLast
    <2>3. QED
        BY <1>1, <2>2 DEF x
<1>3. QED
    BY <1>2 DEF Encoded, l, m

(* Where a line ends in the bytes of lines. *)
LEMMA NewlinesAt ==
    ASSUME NEW lines \in Seq(LineType), NEW i \in 1..(3 * Len(lines))
    PROVE  /\ Lines(lines)[i] = Newline <=> i % 3 = 0
           /\ i % 3 # 0 => /\ (i + 2) \div 3 \in 1..Len(lines)
                           /\ lines[(i + 2) \div 3] \in LineType
                           /\ Lines(lines)[i].line = lines[(i + 2) \div 3]
           /\ Lines(lines)[i].half = i % 3
<1>1. Lines(lines)[i] = IF i % 3 = 0 THEN Newline ELSE Byte(lines[(i + 2) \div 3], i % 3)
    BY LinesAt
<1>2. Len(lines) \in Nat /\ i \in Nat /\ 1 <= i /\ i <= 3 * Len(lines)
    OBVIOUS
<1>3. (i + 2) \div 3 \in 1..Len(lines) /\ i % 3 \in 0..2 /\ (i % 3 # 0 => i % 3 \in {1, 2})
    BY <1>2, Thirds, ThirdsOf
<1> DEFINE line == lines[(i + 2) \div 3]
           half == i % 3
<1>4. line \in LineType
    BY <1>3
<1> HIDE DEF line, half
<1>5. CASE half = 0
    BY <1>1, <1>5, NewlineByte DEF half
<1>6. CASE half # 0
    <2>1. Lines(lines)[i] = Byte(line, half) /\ half \in {1, 2}
        BY <1>1, <1>3, <1>6 DEF line, half
    <2>2. /\ Byte(line, half).half = half /\ Byte(line, half).line = line
          /\ Byte(line, half) # Newline
        BY <1>4, <2>1, HalfByte
    <2>3. QED
        BY <1>3, <1>4, <1>6, <2>1, <2>2 DEF line, half
<1>7. QED
    BY <1>5, <1>6

(* No event is over in the middle of its lines. *)
LEMMA NoDelimiter ==
    ASSUME NEW lines \in Seq(LineType), NEW buffer \in Seq(ByteType), Len(buffer) <= 3 * Len(lines),
           \A i \in 1..Len(buffer) : buffer[i] = Lines(lines)[i]
    PROVE  Delimiters(buffer) = {}
<1> SUFFICES ASSUME NEW i \in 1..(Len(buffer) - 1), buffer[i] = Newline, buffer[i + 1] = Newline
             PROVE  FALSE
    BY DEF Delimiters
<1>1. /\ i \in 1..Len(buffer) /\ i \in 1..(3 * Len(lines))
      /\ i + 1 \in 1..Len(buffer) /\ i + 1 \in 1..(3 * Len(lines)) /\ i \in Nat
    OBVIOUS
<1>2. Lines(lines)[i] = Newline /\ Lines(lines)[i + 1] = Newline
    BY <1>1
<1>3. i % 3 = 0 /\ (i + 1) % 3 = 0
    BY <1>1, <1>2, NewlinesAt
<1>4. QED
    BY <1>1, <1>3, Thirds

(* The first blank line is the one that ends the event. *)
LEMMA FirstDelimiter ==
    ASSUME NEW event \in Event, NEW buffer \in Seq(ByteType), 3 * Len(event) + 1 <= Len(buffer),
           \A i \in 1..(3 * Len(event) + 1) : buffer[i] = Encoded(event)[i]
    PROVE  /\ Delimiters(buffer) # {} /\ Min(Delimiters(buffer)) = 3 * Len(event)
           /\ Len(event) \in Nat /\ Len(event) >= 1
<1> DEFINE n == Len(event)
<1>1. event \in Seq(LineType) /\ n \in Nat /\ n >= 1 /\ Len(buffer) \in Nat
    BY DEF Event
<1>2. /\ \A i \in 1..(3 * n) : buffer[i] = Lines(event)[i]
      /\ buffer[3 * n + 1] = Newline
    <2>1. /\ \A i \in 1..(3 * n) : Encoded(event)[i] = Lines(event)[i]
          /\ Encoded(event)[3 * n + 1] = Newline
        BY <1>1, EncodedAt
    <2>2. 3 * n + 1 \in 1..(3 * n + 1) /\ \A i \in 1..(3 * n) : i \in 1..(3 * n + 1)
        BY <1>1
    <2>3. QED
        BY <2>1, <2>2
<1>3. \A i \in 1..(3 * n) : buffer[i] = Newline <=> i % 3 = 0
    BY <1>1, <1>2, NewlinesAt
<1>4. 3 * n \in Delimiters(buffer)
    <2>1. 3 * n \in 1..(Len(buffer) - 1) /\ 3 * n \in 1..(3 * n) /\ (3 * n) % 3 = 0
        BY <1>1
    <2>2. QED
        BY <1>2, <1>3, <2>1 DEF Delimiters
<1>5. \A i \in Delimiters(buffer) : 3 * n <= i
    <2> SUFFICES ASSUME NEW i \in Delimiters(buffer), i < 3 * n
                 PROVE  FALSE
        BY <1>1 DEF Delimiters
    <2>1. i \in Nat /\ i \in 1..(3 * n) /\ i + 1 \in 1..(3 * n)
        BY <1>1 DEF Delimiters
    <2>2. buffer[i] = Newline /\ buffer[i + 1] = Newline
        BY DEF Delimiters
    <2>3. i % 3 = 0 /\ (i + 1) % 3 = 0
        BY <1>3, <2>1, <2>2
    <2>4. QED
        BY <2>1, <2>3, Thirds
<1>6. Delimiters(buffer) \subseteq Nat
    BY <1>1 DEF Delimiters
<1>7. Min(Delimiters(buffer)) = 3 * n
    BY <1>4, <1>5, <1>6, MinAt
<1>8. QED
    BY <1>1, <1>4, <1>7

(* The text of an event: its lines without the last line's end, and        *)
(* nothing but line ends after that.                                       *)
IsTextOf(text, event) ==
    /\ text \in Seq(ByteType) /\ 3 * Len(event) - 1 <= Len(text)
    /\ \A i \in 1..(3 * Len(event) - 1) : text[i] = Lines(event)[i]
    /\ \A i \in (3 * Len(event))..Len(text) : text[i] = Newline

(* An event has a line. *)
LEMMA EventLen ==
    ASSUME NEW event \in Event
    PROVE  /\ event \in Seq(LineType) /\ Len(event) \in Nat /\ Len(event) >= 1
           /\ \A j \in 1..Len(event) : event[j] \in LineType
    BY DEF Event

(* Both the whole of an event, as the properties read it, and what         *)
(* next_event cuts out of the buffer, as the parser does, are its text.    *)
LEMMA EventTexts ==
    ASSUME NEW event \in Event
    PROVE  /\ IsTextOf(Encoded(event), event)
           /\ IsTextOf(SubSeq(Encoded(event), 1, 3 * Len(event) - 1), event)
<1> DEFINE n == Len(event)
           e == Encoded(event)
<1>1. n \in Nat /\ n >= 1 /\ event \in Seq(LineType)
    BY EventLen
<1>2. /\ e \in Seq(ByteType) /\ Len(e) = 3 * n + 1 /\ e[3 * n + 1] = Newline
      /\ \A i \in 1..(3 * n) : e[i] = Lines(event)[i]
    BY <1>1, EncodedAt
<1>3. Lines(event)[3 * n] = Newline
    <2>1. 3 * n \in 1..(3 * n) /\ (3 * n) % 3 = 0
        BY <1>1, Thirds
    <2>2. QED
        BY <1>1, <2>1, NewlinesAt
<1> HIDE DEF n, e
<1>4. \A i \in (3 * n)..(3 * n + 1) : e[i] = Newline
    <2>1. \A i \in (3 * n)..(3 * n + 1) : i = 3 * n \/ i = 3 * n + 1
        BY <1>1
    <2>2. 3 * n \in 1..(3 * n)
        BY <1>1
    <2>3. QED
        BY <1>2, <1>3, <2>1, <2>2
<1>5. IsTextOf(e, event)
    BY <1>1, <1>2, <1>4 DEF IsTextOf, n
<1>6. IsTextOf(SubSeq(e, 1, 3 * n - 1), event)
    <2> DEFINE t == SubSeq(e, 1, 3 * n - 1)
    <2>1. t \in Seq(ByteType) /\ Len(t) = 3 * n - 1 /\ \A i \in 1..(3 * n - 1) : t[i] = e[i]
        BY <1>1, <1>2
    <2> HIDE DEF t
    <2>2. \A i \in 1..(3 * n - 1) : i \in 1..(3 * n)
        BY <1>1
    <2>3. 3 * n - 1 <= Len(t) /\ \A i \in (3 * n)..Len(t) : FALSE
        BY <1>1, <2>1
    <2>4. QED
        BY <1>2, <2>1, <2>2, <2>3 DEF IsTextOf, n, t
<1>7. QED
    BY <1>5, <1>6 DEF n, e

(* What stands at a place of a text. *)
LEMMA TextAt ==
    ASSUME NEW event \in Event, NEW text, IsTextOf(text, event), NEW i \in 1..Len(text)
    PROVE  \/ text[i] = Newline
           \/ /\ i < 3 * Len(event) /\ i % 3 \in {1, 2} /\ text[i].half = i % 3
              /\ (i + 2) \div 3 \in 1..Len(event)
              /\ text[i].line = event[(i + 2) \div 3]
<1> DEFINE n == Len(event)
<1>1. event \in Seq(LineType) /\ n \in Nat /\ n >= 1 /\ Len(text) \in Nat /\ i \in Nat
    BY EventLen DEF IsTextOf
<1>2. CASE i < 3 * n
    <2>1. i \in 1..(3 * n - 1) /\ i \in 1..(3 * n) /\ i % 3 \in 0..2
        BY <1>1, <1>2, Thirds
    <2>2. text[i] = Lines(event)[i]
        BY <2>1 DEF IsTextOf
    <2>3. CASE i % 3 = 0
        BY <1>1, <2>1, <2>2, <2>3, NewlinesAt
    <2>4. CASE i % 3 # 0
        <3>1. i % 3 \in {1, 2}
            BY <2>1, <2>4
        <3>2. QED
            BY <1>1, <1>2, <2>1, <2>2, <2>4, <3>1, NewlinesAt
    <2>5. QED
        BY <2>3, <2>4
<1>3. CASE ~ (i < 3 * n)
    <2>1. i \in (3 * n)..Len(text)
        BY <1>1, <1>3
    <2>2. QED
        BY <2>1 DEF IsTextOf
<1>4. QED
    BY <1>2, <1>3

(* Where the two halves of the j-th line are. *)
LEMMA HalvesAt ==
    ASSUME NEW event \in Event, NEW text, IsTextOf(text, event), NEW j \in 1..Len(event)
    PROVE  /\ 3 * j - 2 \in 1..Len(text) /\ 3 * j - 1 \in 1..Len(text)
           /\ text[3 * j - 2] = Byte(event[j], 1) /\ text[3 * j - 1] = Byte(event[j], 2)
           /\ event[j] \in LineType
<1> DEFINE n == Len(event)
<1>1. event \in Seq(LineType) /\ n \in Nat /\ n >= 1 /\ Len(text) \in Nat /\ event[j] \in LineType
    BY EventLen DEF IsTextOf
<1>2. /\ 3 * j - 2 \in 1..(3 * n - 1) /\ 3 * j - 1 \in 1..(3 * n - 1)
      /\ 3 * j - 2 \in 1..(3 * n) /\ 3 * j - 1 \in 1..(3 * n)
      /\ (3 * j - 2) % 3 = 1 /\ (3 * j - 1) % 3 = 2
      /\ ((3 * j - 2) + 2) \div 3 = j /\ ((3 * j - 1) + 2) \div 3 = j
    BY <1>1
<1>3. Lines(event)[3 * j - 2] = Byte(event[j], 1) /\ Lines(event)[3 * j - 1] = Byte(event[j], 2)
    <2> DEFINE a == 3 * j - 2
               b == 3 * j - 1
    <2>1. /\ a \in 1..(3 * n) /\ a % 3 = 1 /\ (a + 2) \div 3 = j
          /\ b \in 1..(3 * n) /\ b % 3 = 2 /\ (b + 2) \div 3 = j
        BY <1>2
    <2> HIDE DEF a, b
    <2>2. \A i \in 1..(3 * n) :
             Lines(event)[i] = IF i % 3 = 0 THEN Newline ELSE Byte(event[(i + 2) \div 3], i % 3)
        BY <1>1, LinesAt
    <2>3. Lines(event)[a] = Byte(event[j], 1) /\ Lines(event)[b] = Byte(event[j], 2)
        BY <2>1, <2>2
    <2>4. QED
        BY <2>3 DEF a, b
<1>4. QED
    BY <1>1, <1>2, <1>3 DEF IsTextOf

(* std::str::from_utf8 on the text of an event looks at its lines only. *)
LEMMA TextUtf8 ==
    ASSUME NEW event \in Event, NEW text, IsTextOf(text, event)
    PROVE  IsUtf8(text) <=> \A j \in 1..Len(event) : event[j].value # "not utf-8"
<1>1. event \in Seq(LineType) /\ Len(event) \in Nat /\ Len(event) >= 1 /\ Len(text) \in Nat
    BY EventLen DEF IsTextOf
<1>2. ASSUME IsUtf8(text), NEW j \in 1..Len(event)
      PROVE  event[j].value # "not utf-8"
    <2>1. 3 * j - 2 \in 1..Len(text) /\ text[3 * j - 2].line = event[j]
        BY HalvesAt, HalfByte
    <2>2. QED
        BY <1>2, <2>1 DEF IsUtf8
<1>3. ASSUME \A j \in 1..Len(event) : event[j].value # "not utf-8", NEW i \in 1..Len(text)
      PROVE  /\ text[i].line.value # "not utf-8"
             /\ text[i].half = 1 => i < Len(text) /\ text[i + 1] = Byte(text[i].line, 2)
             /\ text[i].half = 2 => i > 1 /\ text[i - 1] = Byte(text[i].line, 1)
    <2>1. CASE text[i] = Newline
        BY <2>1, NewlineByte, Zenon
    <2>2. CASE text[i] # Newline
        <3> DEFINE j == (i + 2) \div 3
        <3>1. /\ i < 3 * Len(event) /\ i % 3 \in {1, 2} /\ text[i].half = i % 3
              /\ j \in 1..Len(event) /\ text[i].line = event[j]
            BY <2>2, TextAt
        <3>2. i \in Nat /\ (i % 3 = 1 => i = 3 * j - 2) /\ (i % 3 = 2 => i = 3 * j - 1)
            BY <1>1, <3>1
        <3> HIDE DEF j
        <3>3. /\ 3 * j - 1 \in 1..Len(text)
              /\ text[3 * j - 2] = Byte(event[j], 1) /\ text[3 * j - 1] = Byte(event[j], 2)
            BY <3>1, HalvesAt
        <3>4. CASE i % 3 = 1
            <4>1. i + 1 = 3 * j - 1 /\ i < Len(text)
                BY <1>1, <3>1, <3>2, <3>3, <3>4
            <4>2. QED
                <5>1. text[i].half = 1 /\ text[i].half # 2
                    BY <3>1, <3>4
                <5>2. text[i].line.value # "not utf-8"
                    BY <1>3, <3>1
                <5>3. text[i + 1] = Byte(text[i].line, 2)
                    BY <3>1, <3>3, <4>1
                <5>4. QED
                    BY <4>1, <5>1, <5>2, <5>3
        <3>5. CASE i % 3 = 2
            <4>1. i - 1 = 3 * j - 2 /\ i > 1
                BY <1>1, <3>1, <3>2, <3>3, <3>5
            <4>2. QED
                <5>1. text[i].half = 2 /\ text[i].half # 1
                    BY <3>1, <3>5
                <5>2. text[i].line.value # "not utf-8"
                    BY <1>3, <3>1
                <5>3. text[i - 1] = Byte(text[i].line, 1)
                    BY <3>1, <3>3, <4>1
                <5>4. QED
                    BY <4>1, <5>1, <5>2, <5>3
        <3>6. QED
            BY <3>1, <3>4, <3>5
    <2>3. QED
        BY <2>1, <2>2
<1>4. QED
    BY <1>2, <1>3 DEF IsUtf8

(* parse on the text of an event looks at its lines only: those of a field *)
(* are found where their first halves are.                                 *)
HeadsOf(event, field) == {3 * j - 2 : j \in {k \in 1..Len(event) : event[k].field = field}}

(* The lines of a field, by where they are in the text. *)
LEMMA HeadsAt ==
    ASSUME NEW event \in Event, NEW text, IsTextOf(text, event), NEW field
    PROVE  /\ {i \in 1..Len(text) : text[i].half = 1 /\ text[i].line.field = field}
                 = HeadsOf(event, field)
           /\ HeadsOf(event, field) \subseteq 0..(3 * Len(event))
           /\ \A i \in HeadsOf(event, field) : text[i] = Byte(event[(i + 2) \div 3], 1)
<1>1. event \in Seq(LineType) /\ Len(event) \in Nat /\ Len(event) >= 1 /\ Len(text) \in Nat
    BY EventLen DEF IsTextOf
<1>2. ASSUME NEW i \in 1..Len(text), text[i].half = 1, text[i].line.field = field
      PROVE  i \in HeadsOf(event, field)
    <2>1. text[i] # Newline
        BY <1>2, NewlineByte, Zenon
    <2> DEFINE j == (i + 2) \div 3
    <2>2. /\ i < 3 * Len(event) /\ i % 3 = 1
          /\ j \in 1..Len(event) /\ text[i].line = event[j]
        BY <1>2, <2>1, TextAt
    <2>3. i = 3 * j - 2
        BY <1>1, <2>2, ThirdsBack
    <2> HIDE DEF j
    <2>4. QED
        BY <1>2, <2>2, <2>3 DEF HeadsOf
<1>3. ASSUME NEW j \in 1..Len(event), event[j].field = field
      PROVE  /\ 3 * j - 2 \in 1..Len(text) /\ text[3 * j - 2] = Byte(event[j], 1)
             /\ text[3 * j - 2].half = 1 /\ text[3 * j - 2].line.field = field
             /\ 3 * j - 2 \in 0..(3 * Len(event)) /\ ((3 * j - 2) + 2) \div 3 = j
    <2>1. /\ 3 * j - 2 \in 1..Len(text) /\ text[3 * j - 2] = Byte(event[j], 1)
          /\ event[j] \in LineType
        BY HalvesAt
    <2>2. Byte(event[j], 1).half = 1 /\ Byte(event[j], 1).line = event[j]
        BY <2>1, HalfByte
    <2>3. 3 * j - 2 \in 0..(3 * Len(event)) /\ ((3 * j - 2) + 2) \div 3 = j
        BY <1>1
    <2>4. QED
        BY <1>3, <2>1, <2>2, <2>3
<1>4. ASSUME NEW i \in HeadsOf(event, field)
      PROVE  /\ i \in 1..Len(text) /\ text[i].half = 1 /\ text[i].line.field = field
             /\ i \in 0..(3 * Len(event)) /\ text[i] = Byte(event[(i + 2) \div 3], 1)
    <2>1. PICK j \in 1..Len(event) : event[j].field = field /\ i = 3 * j - 2
        BY DEF HeadsOf
    <2>2. QED
        BY <1>3, <2>1
<1>5. QED
    BY <1>2, <1>4

LineAt(event, i) == event[(i + 2) \div 3]

Parsed(event) ==
    [event |-> IF HeadsOf(event, "event") = {} THEN ""
               ELSE LineAt(event, Max(HeadsOf(event, "event"))).value,
     data  |-> [i \in HeadsOf(event, "data") |-> LineAt(event, i)]]

(* Each of them is a line of the event. *)
LEMMA HeadLine ==
    ASSUME NEW event \in Event, NEW field, NEW i \in HeadsOf(event, field)
    PROVE  LineAt(event, i) \in LineType /\ LineAt(event, i).field = field /\ i \in Nat
           /\ \E j \in 1..Len(event) : LineAt(event, i) = event[j]
<1>1. PICK j \in 1..Len(event) : event[j].field = field /\ i = 3 * j - 2
    BY DEF HeadsOf
<1>2. Len(event) \in Nat /\ event[j] \in LineType
    BY EventLen
<1>3. i \in Nat /\ (i + 2) \div 3 = j
    BY <1>1, <1>2
<1>4. QED
    BY <1>1, <1>2, <1>3 DEF LineAt

(* SseParser::parse depends on the lines of an event only. *)
LEMMA ParseText ==
    ASSUME NEW event \in Event, NEW text, IsTextOf(text, event)
    PROVE  parse(text) = Parsed(event)
<1> DEFINE Heads(field) == {i \in 1..Len(text) : text[i].half = 1 /\ text[i].line.field = field}
<1>1. /\ Heads("event") = HeadsOf(event, "event")
      /\ Heads("data") = HeadsOf(event, "data")
    BY HeadsAt
<1>2. ASSUME NEW field, NEW i \in HeadsOf(event, field)
      PROVE  text[i].line = LineAt(event, i)
    <2>1. text[i] = Byte(LineAt(event, i), 1)
        BY HeadsAt DEF LineAt
    <2>2. LineAt(event, i) \in LineType
        BY HeadLine
    <2>3. QED
        BY <2>1, <2>2, HalfByte
<1>3. parse(text) = [event |-> IF Heads("event") = {} THEN "" ELSE text[Max(Heads("event"))].line.value,
                     data  |-> [i \in Heads("data") |-> text[i].line]]
    BY DEF parse
<1> HIDE DEF Heads
<1>4. HeadsOf(event, "event") # {} =>
          text[Max(HeadsOf(event, "event"))].line = LineAt(event, Max(HeadsOf(event, "event")))
    <2>1. HeadsOf(event, "event") \subseteq 0..(3 * Len(event)) /\ 3 * Len(event) \in Nat
        BY HeadsAt, EventLen
    <2>2. HeadsOf(event, "event") # {} => Max(HeadsOf(event, "event")) \in HeadsOf(event, "event")
        BY <2>1, MaxIs
    <2>3. QED
        BY <1>2, <2>2
<1>5. [i \in HeadsOf(event, "data") |-> text[i].line]
        = [i \in HeadsOf(event, "data") |-> LineAt(event, i)]
    BY <1>2
<1>6. QED
    BY <1>1, <1>3, <1>4, <1>5 DEF Parsed

(* The data: line that is read as JSON is one of the event's. *)
LEMMA PayloadType ==
    ASSUME NEW event \in Event
    PROVE  \/ Payload(Parsed(event)) = None
           \/ /\ Payload(Parsed(event)) \in LineType
              /\ \E j \in 1..Len(event) : Payload(Parsed(event)) = event[j]
<1> DEFINE data == [i \in HeadsOf(event, "data") |-> LineAt(event, i)]
           json == {i \in DOMAIN data : DOMAIN data = {i} /\ data[i].value = "json"}
<1>1. Parsed(event).data = data
    BY DEF Parsed
<1>2. Payload(Parsed(event)) = IF json = {} THEN None ELSE data[Min(json)]
    BY <1>1 DEF Payload
<1>3. CASE json = {}
    BY <1>2, <1>3
<1>4. CASE json # {}
    <2>1. json \subseteq HeadsOf(event, "data")
        OBVIOUS
    <2>2. json \subseteq Nat
        BY <2>1, HeadLine
    <2> HIDE DEF json
    <2>3. Min(json) \in HeadsOf(event, "data")
        BY <1>4, <2>1, <2>2, MinIs
    <2>4. Payload(Parsed(event)) = LineAt(event, Min(json))
        BY <1>2, <1>4, <2>3
    <2>5. QED
        BY <2>3, <2>4, HeadLine
<1>5. QED
    BY <1>3, <1>4

(* What parse finds in an event of Anthropic's. *)
LEMMA NameAndData ==
    ASSUME NEW event \in Event, Len(event) = 2, event[1] = Name(event[1].value),
           event[2].field = "data"
    PROVE  /\ Parsed(event).event = event[1].value
           /\ Payload(Parsed(event)) = IF event[2].value = "json" THEN event[2] ELSE None
<1>1. event[1].field = "event" /\ event[2].field # "event" /\ event[1].field # "data"
    BY DEF Name, Line
<1>2. HeadsOf(event, "event") = {1} /\ HeadsOf(event, "data") = {4}
    <2>1. {k \in 1..Len(event) : event[k].field = "event"} = {1}
        BY <1>1
    <2>2. {k \in 1..Len(event) : event[k].field = "data"} = {2}
        BY <1>1
    <2>3. {3 * j - 2 : j \in {1}} = {1} /\ {3 * j - 2 : j \in {2}} = {4}
        OBVIOUS
    <2>4. QED
        BY <2>1, <2>2, <2>3 DEF HeadsOf
<1>3. LineAt(event, 1) = event[1] /\ LineAt(event, 4) = event[2]
    BY DEF LineAt
<1>4. Max({1}) = 1
    BY MaxAt
<1>5. Parsed(event) = [event |-> event[1].value, data |-> [i \in {4} |-> event[2]]]
    BY <1>2, <1>3, <1>4 DEF Parsed
<1>6. {i \in {4} : {4} = {i} /\ [k \in {4} |-> event[2]][i].value = "json"}
        = IF event[2].value = "json" THEN {4} ELSE {}
    OBVIOUS
<1>7. Min({4}) = 4
    BY MinAt
<1>8. QED
    BY <1>5, <1>6, <1>7 DEF Payload

(* A single line has no name or no data. *)
LEMMA OneLine ==
    ASSUME NEW event \in Event, Len(event) = 1
    PROVE  Payload(Parsed(event)) = None \/ Parsed(event).event = ""
<1>1. CASE event[1].field = "data"
    <2>1. HeadsOf(event, "event") = {}
        BY <1>1 DEF HeadsOf
    <2>2. QED
        BY <2>1 DEF Parsed
<1>2. CASE event[1].field # "data"
    <2>1. HeadsOf(event, "data") = {}
        BY <1>2 DEF HeadsOf
    <2>2. Parsed(event).data = [i \in {} |-> LineAt(event, i)]
        BY <2>1 DEF Parsed
    <2>3. QED
        BY <2>2 DEF Payload
<1>3. QED
    BY <1>1, <1>2
-----------------------------------------------------------------------------
(***************************************************************************)
(* The bytes of a stream: events, and lines that no blank line ends.       *)
(***************************************************************************)
Codes(events) == [i \in 1..Len(events) |-> Encoded(events[i])]
Pos(events, k) == Off(Codes(events), k)
TextOf(events, rest) == Wire(events) \o Lines(rest)

(* The events of a wire as bytes. *)
LEMMA CodesType ==
    ASSUME NEW events \in Seq(Event)
    PROVE  /\ Codes(events) \in Seq(Seq(ByteType)) /\ Len(Codes(events)) = Len(events)
           /\ Len(events) \in Nat
           /\ \A k \in 1..Len(events) :
                 /\ events[k] \in Event /\ events[k] \in Seq(LineType)
                 /\ Codes(events)[k] = Encoded(events[k])
                 /\ Codes(events)[k] \in Seq(ByteType)
<1>1. Len(events) \in Nat /\ \A k \in 1..Len(events) : events[k] \in Event
    OBVIOUS
<1>2. \A k \in 1..Len(events) : events[k] \in Seq(LineType)
    BY <1>1, EventLen
<1>3. \A k \in 1..Len(events) : Encoded(events[k]) \in Seq(ByteType)
    BY <1>2, EncodedAt
<1>4. Codes(events) \in [1..Len(events) -> Seq(ByteType)]
    BY <1>3 DEF Codes
<1>5. QED
    BY <1>1, <1>2, <1>3, <1>4 DEF Codes

(* Where the bytes of each event are on the wire. *)
LEMMA WireAt ==
    ASSUME NEW events \in Seq(Event)
    PROVE  /\ Wire(events) \in Seq(ByteType)
           /\ Pos(events, 0) = 0 /\ Pos(events, Len(events)) = Len(Wire(events))
           /\ \A k \in 0..Len(events) : Pos(events, k) \in Nat /\ Pos(events, k) <= Len(Wire(events))
           /\ \A k \in 0..(Len(events) - 1) :
                 /\ Pos(events, k + 1) = Pos(events, k) + (3 * Len(events[k + 1]) + 1)
                 /\ \A i \in 1..(3 * Len(events[k + 1]) + 1) :
                       Wire(events)[Pos(events, k) + i] = Encoded(events[k + 1])[i]
<1> DEFINE s == Codes(events)
           n == Len(events)
<1>1. s \in Seq(Seq(ByteType)) /\ Len(s) = n /\ n \in Nat
    BY CodesType
<1>2. Wire(events) = FlattenSeq(s)
    BY DEF Wire, Codes
<1>3. \A k \in 0..(n - 1) : s[k + 1] = Encoded(events[k + 1]) /\ Len(s[k + 1]) = 3 * Len(events[k + 1]) + 1
    <2> SUFFICES ASSUME NEW k \in 0..(n - 1)
                 PROVE  s[k + 1] = Encoded(events[k + 1]) /\ Len(s[k + 1]) = 3 * Len(events[k + 1]) + 1
        OBVIOUS
    <2>1. k + 1 \in 1..n
        BY <1>1
    <2>2. s[k + 1] = Encoded(events[k + 1]) /\ events[k + 1] \in Seq(LineType)
        BY <2>1, CodesType
    <2>3. QED
        BY <2>2, EncodedAt
<1> HIDE DEF s, n
<1>4. /\ FlattenSeq(s) \in Seq(ByteType)
      /\ Off(s, 0) = 0 /\ Off(s, n) = Len(FlattenSeq(s))
      /\ \A k \in 0..n : Off(s, k) \in Nat /\ Off(s, k) <= Len(FlattenSeq(s))
      /\ \A k \in 0..(n - 1) :
            /\ Off(s, k + 1) = Off(s, k) + Len(s[k + 1])
            /\ \A i \in 1..Len(s[k + 1]) : FlattenSeq(s)[Off(s, k) + i] = s[k + 1][i]
    BY <1>1, FlattenAt
<1>5. \A k \in 0..(n - 1) :
            /\ Off(s, k + 1) = Off(s, k) + (3 * Len(events[k + 1]) + 1)
            /\ \A i \in 1..(3 * Len(events[k + 1]) + 1) :
                  FlattenSeq(s)[Off(s, k) + i] = Encoded(events[k + 1])[i]
    BY <1>3, <1>4
<1>6. QED
    BY <1>2, <1>4, <1>5 DEF Pos, s, n

(* The elements of a concatenation. *)
LEMMA ConcatAt ==
    ASSUME NEW S, NEW s \in Seq(S), NEW t \in Seq(S)
    PROVE  /\ s \o t \in Seq(S) /\ Len(s \o t) = Len(s) + Len(t)
           /\ Len(s) \in Nat /\ Len(t) \in Nat
           /\ \A i \in 1..Len(s) : (s \o t)[i] = s[i]
           /\ \A i \in 1..Len(t) : (s \o t)[Len(s) + i] = t[i]
    OBVIOUS

(* Where the bytes of each event, and of the lines after the last one, are *)
(* in a body.                                                              *)
LEMMA StreamAt ==
    ASSUME NEW events \in Seq(Event), NEW rest \in Seq(LineType)
    PROVE  LET text == TextOf(events, rest)
               n    == Len(events)
           IN  /\ text \in Seq(ByteType) /\ n \in Nat
               /\ Pos(events, 0) = 0 /\ Len(text) = Pos(events, n) + 3 * Len(rest)
               /\ \A k \in 0..n : Pos(events, k) \in Nat /\ Pos(events, k) <= Len(text)
               /\ \A k \in 0..(n - 1) :
                     /\ Pos(events, k + 1) = Pos(events, k) + (3 * Len(events[k + 1]) + 1)
                     /\ \A i \in 1..(3 * Len(events[k + 1]) + 1) :
                           text[Pos(events, k) + i] = Encoded(events[k + 1])[i]
               /\ \A i \in 1..(3 * Len(rest)) : text[Pos(events, n) + i] = Lines(rest)[i]
<1> DEFINE w == Wire(events)
           l == Lines(rest)
           n == Len(events)
           pos(k) == Pos(events, k)
           size(k) == 3 * Len(events[k + 1]) + 1
<1>n. n \in Nat
    OBVIOUS
<1>w. w \in Seq(ByteType) /\ pos(0) = 0 /\ pos(n) = Len(w)
    BY WireAt
<1>1. /\ \A k \in 0..n : pos(k) \in Nat /\ pos(k) <= Len(w)
      /\ \A k \in 0..(n - 1) :
            /\ pos(k + 1) = pos(k) + size(k)
            /\ \A i \in 1..size(k) : w[pos(k) + i] = Encoded(events[k + 1])[i]
    BY WireAt
<1>2. l \in Seq(ByteType) /\ Len(l) = 3 * Len(rest)
    BY LinesAt
<1>3. \A k \in 0..(n - 1) : size(k) \in Nat /\ k \in 0..n /\ k + 1 \in 0..n
    <2>1. \A k \in 0..(n - 1) : k + 1 \in 1..n /\ k \in 0..n /\ k + 1 \in 0..n
        BY <1>n
    <2>2. \A k \in 1..n : Len(events[k]) \in Nat
        BY EventLen
    <2>3. \A k \in 0..(n - 1) : Len(events[k + 1]) \in Nat
        BY <2>1, <2>2
    <2>4. QED
        BY <2>1, <2>3
<1>4. TextOf(events, rest) = w \o l
    BY DEF TextOf
<1> HIDE DEF w, l, n, pos, size
<1>5. /\ w \o l \in Seq(ByteType) /\ Len(w \o l) = Len(w) + Len(l)
      /\ Len(w) \in Nat /\ Len(l) \in Nat
      /\ \A i \in 1..Len(w) : (w \o l)[i] = w[i]
      /\ \A i \in 1..Len(l) : (w \o l)[Len(w) + i] = l[i]
    <2>1. w \in Seq(ByteType) /\ l \in Seq(ByteType)
        BY <1>w, <1>2
    <2>2. QED
        BY <2>1, ConcatAt
<1>6. ASSUME NEW k \in 0..(n - 1), NEW i \in 1..size(k)
      PROVE  (w \o l)[pos(k) + i] = Encoded(events[k + 1])[i]
    <2>1. /\ pos(k) \in Nat /\ pos(k + 1) <= Len(w) /\ pos(k + 1) = pos(k) + size(k)
          /\ w[pos(k) + i] = Encoded(events[k + 1])[i] /\ size(k) \in Nat
        BY <1>1, <1>3
    <2>2. pos(k) + i \in 1..Len(w)
        BY <1>5, <2>1
    <2>3. QED
        BY <1>5, <2>1, <2>2
<1>7. \A k \in 0..n : pos(k) \in Nat /\ pos(k) <= Len(w \o l)
    BY <1>1, <1>5
<1>8. /\ pos(0) = 0 /\ Len(w \o l) = pos(n) + 3 * Len(rest)
      /\ \A i \in 1..(3 * Len(rest)) : (w \o l)[pos(n) + i] = l[i]
    BY <1>w, <1>2, <1>5
<1>9. QED
    BY <1>n, <1>1, <1>4, <1>5, <1>6, <1>7, <1>8, ZenonT(40) DEF n, pos, size, l
-----------------------------------------------------------------------------
(***************************************************************************)
(* SseParser::next_event on what is left of a stream when k events have    *)
(* been taken and r bytes have come.                                       *)
(***************************************************************************)
LEMMA PartAt ==
    ASSUME NEW S, NEW s \in Seq(S), NEW p \in Nat, NEW r \in Nat, p <= r, r <= Len(s)
    PROVE  /\ SubSeq(s, p + 1, r) \in Seq(S) /\ Len(SubSeq(s, p + 1, r)) = r - p
           /\ \A i \in 1..(r - p) : SubSeq(s, p + 1, r)[i] = s[p + i]
<1>1. Len(s) \in Nat
    OBVIOUS
<1>2. SubSeq(s, p + 1, r) = [i \in 1..(r - p) |-> s[p + i]]
    <2>1. (r + 1) - (p + 1) = r - p /\ \A i \in 1..(r - p) : (i + (p + 1)) - 1 = p + i
        OBVIOUS
    <2>2. SubSeq(s, p + 1, r) = [i \in 1..((r + 1) - (p + 1)) |-> s[(i + (p + 1)) - 1]]
        OBVIOUS
    <2>3. QED
        BY <2>1, <2>2
<1>3. \A i \in 1..(r - p) : s[p + i] \in S
    BY <1>1
<1>4. QED
    BY <1>2, <1>3

(* Sequences with the same elements are the same. *)
LEMMA SameSeq ==
    ASSUME NEW S, NEW s \in Seq(S), NEW t \in Seq(S), Len(s) = Len(t),
           \A i \in 1..Len(s) : s[i] = t[i]
    PROVE  s = t
    OBVIOUS

(* A part of a part. *)
LEMMA PartOfPart ==
    ASSUME NEW S, NEW s \in Seq(S), NEW p \in Nat, NEW q \in Nat, NEW r \in Nat,
           p <= q, q <= r, r <= Len(s)
    PROVE  SubSeq(SubSeq(s, p + 1, r), (q - p) + 1, r - p) = SubSeq(s, q + 1, r)
<1> DEFINE t == SubSeq(s, p + 1, r)
           u == SubSeq(t, (q - p) + 1, r - p)
           v == SubSeq(s, q + 1, r)
<1>0. p <= r /\ q - p \in Nat /\ r - p \in Nat /\ q - p <= r - p
    OBVIOUS
<1>1. t \in Seq(S) /\ Len(t) = r - p /\ \A i \in 1..(r - p) : t[i] = s[p + i]
    BY <1>0, PartAt
<1>2. v \in Seq(S) /\ Len(v) = r - q /\ \A i \in 1..(r - q) : v[i] = s[q + i]
    BY PartAt
<1> HIDE DEF t, v
<1>3. /\ u \in Seq(S) /\ Len(u) = (r - p) - (q - p)
      /\ \A i \in 1..((r - p) - (q - p)) : u[i] = t[(q - p) + i]
    <2> DEFINE d == q - p
               m == r - p
    <2>1. d \in Nat /\ m \in Nat /\ d <= m /\ m <= Len(t)
        BY <1>0, <1>1
    <2>2. u = SubSeq(t, d + 1, m)
        OBVIOUS
    <2> HIDE DEF d, m, u
    <2>3. /\ SubSeq(t, d + 1, m) \in Seq(S) /\ Len(SubSeq(t, d + 1, m)) = m - d
          /\ \A i \in 1..(m - d) : SubSeq(t, d + 1, m)[i] = t[d + i]
        BY <1>1, <2>1, PartAt
    <2>4. QED
        BY <2>2, <2>3 DEF d, m
<1> HIDE DEF u
<1>4. (r - p) - (q - p) = r - q /\ \A i \in 1..(r - q) : (q - p) + i \in 1..(r - p) /\ p + ((q - p) + i) = q + i
    OBVIOUS
<1>5. Len(u) = Len(v) /\ \A i \in 1..Len(u) : u[i] = v[i]
    BY <1>1, <1>2, <1>3, <1>4
<1>6. u = v
    BY <1>2, <1>3, <1>5, SameSeq
<1>7. QED
    BY <1>6 DEF u, v, t

(* Two parts that meet. *)
LEMMA PartsMeet ==
    ASSUME NEW S, NEW s \in Seq(S), NEW p \in Nat, NEW q \in Nat, NEW r \in Nat,
           p <= q, q <= r, r <= Len(s)
    PROVE  SubSeq(s, p + 1, q) \o SubSeq(s, q + 1, r) = SubSeq(s, p + 1, r)
<1> DEFINE t == SubSeq(s, p + 1, q)
           u == SubSeq(s, q + 1, r)
           v == SubSeq(s, p + 1, r)
<1>0. p <= r /\ q <= Len(s)
    OBVIOUS
<1>1. t \in Seq(S) /\ Len(t) = q - p /\ \A i \in 1..(q - p) : t[i] = s[p + i]
    BY <1>0, PartAt
<1>2. u \in Seq(S) /\ Len(u) = r - q /\ \A i \in 1..(r - q) : u[i] = s[q + i]
    BY <1>0, PartAt
<1>3. v \in Seq(S) /\ Len(v) = r - p /\ \A i \in 1..(r - p) : v[i] = s[p + i]
    BY <1>0, PartAt
<1> HIDE DEF t, u, v
<1>4. /\ t \o u \in Seq(S) /\ Len(t \o u) = Len(t) + Len(u)
      /\ \A i \in 1..Len(t) : (t \o u)[i] = t[i]
      /\ \A i \in 1..Len(u) : (t \o u)[Len(t) + i] = u[i]
    <2>1. t \in Seq(S) /\ u \in Seq(S)
        BY <1>1, <1>2
    <2>2. QED
        BY <2>1, ConcatAt
<1>5. ASSUME NEW i \in 1..(r - p)
      PROVE  (t \o u)[i] = v[i]
    <2>1. CASE i <= q - p
        <3>1. i \in 1..(q - p)
            BY <2>1
        <3>2. QED
            BY <1>1, <1>3, <1>4, <3>1
    <2>2. CASE ~ (i <= q - p)
        <3> DEFINE j == i - (q - p)
        <3>1. j \in 1..(r - q) /\ (q - p) + j = i /\ q + j = p + i
            BY <2>2
        <3> HIDE DEF j
        <3>2. (t \o u)[(q - p) + j] = u[j]
            BY <1>1, <1>2, <1>4, <3>1
        <3>3. QED
            BY <1>2, <1>3, <3>1, <3>2
    <2>3. QED
        BY <2>1, <2>2
<1>6. Len(t \o u) = r - p
    BY <1>1, <1>2, <1>4
<1>7. t \o u = v
    BY <1>3, <1>4, <1>5, <1>6, SameSeq
<1>8. QED
    BY <1>7 DEF t, u, v

Decodes(event) == IsUtf8(Encoded(event))

(* The whole of the next event has come. *)
LEMMA NextEvent ==
    ASSUME NEW events \in Seq(Event), NEW rest \in Seq(LineType), NEW k \in Nat, k < Len(events),
           NEW r \in Nat, Pos(events, k + 1) <= r, r <= Len(TextOf(events, rest))
    PROVE  LET left(j) == SubSeq(TextOf(events, rest), Pos(events, j) + 1, r)
           IN  next_event(left(k)) =
                 IF Decodes(events[k + 1])
                 THEN [event |-> <<Parsed(events[k + 1])>>, buffer |-> left(k + 1)]
                 ELSE [event |-> <<>>, buffer |-> left(k)]
<1> DEFINE text == TextOf(events, rest)
           event == events[k + 1]
           n == Len(event)
           p == Pos(events, k)
           q == Pos(events, k + 1)
           b == SubSeq(text, p + 1, r)
           e == Encoded(event)
<1>1. k \in 0..Len(events) /\ k \in 0..(Len(events) - 1) /\ k + 1 \in 1..Len(events) /\ k + 1 \in 0..Len(events)
    OBVIOUS
<1>2. event \in Event /\ n \in Nat /\ n >= 1 /\ event \in Seq(LineType)
    BY <1>1, EventLen, CodesType
<1>3. text \in Seq(ByteType) /\ p \in Nat /\ q = p + (3 * n + 1)
    BY <1>1, StreamAt
<1>4. \A i \in 1..(3 * n + 1) : text[p + i] = e[i]
    BY <1>1, StreamAt
<1>5. e \in Seq(ByteType) /\ Len(e) = 3 * n + 1
    BY <1>2, EncodedAt
<1> HIDE DEF text, p, q, e, n, event
<1>6. p <= r /\ r <= Len(text) /\ q <= r /\ q \in Nat /\ q - p = 3 * n + 1 /\ p <= q /\ 3 * n + 1 <= r - p
    BY <1>2, <1>3 DEF q, text
<1>7. b \in Seq(ByteType) /\ Len(b) = r - p /\ \A i \in 1..(r - p) : b[i] = text[p + i]
    BY <1>3, <1>6, PartAt
<1> HIDE DEF b
<1>8. 3 * n + 1 <= Len(b) /\ \A i \in 1..(3 * n + 1) : b[i] = e[i]
    <2>1. \A i \in 1..(3 * n + 1) : i \in 1..(r - p)
        BY <1>2, <1>6, <1>3
    <2>2. QED
        BY <1>4, <1>6, <1>7, <2>1
<1>9. Delimiters(b) # {} /\ Min(Delimiters(b)) = 3 * n
    <2>1. /\ 3 * Len(event) + 1 <= Len(b)
          /\ \A i \in 1..(3 * Len(event) + 1) : b[i] = Encoded(event)[i]
        BY <1>8 DEF e, n
    <2>2. Delimiters(b) # {} /\ Min(Delimiters(b)) = 3 * Len(event)
        BY <1>2, <1>7, <2>1, FirstDelimiter
    <2>3. QED
        BY <2>2 DEF n
<1>10. SubSeq(b, 1, 3 * n - 1) = SubSeq(e, 1, 3 * n - 1)
    <2> DEFINE m == 3 * n - 1
    <2>1. m \in Nat /\ m <= Len(b) /\ m <= Len(e) /\ \A i \in 1..m : i \in 1..(3 * n + 1)
        BY <1>2, <1>5, <1>8
    <2> HIDE DEF m
    <2>2. SubSeq(b, 1, m) = [i \in 1..m |-> b[i]] /\ SubSeq(e, 1, m) = [i \in 1..m |-> e[i]]
        BY <1>5, <1>7, <2>1
    <2>3. QED
        BY <1>8, <2>1, <2>2 DEF m
<1>11. IsTextOf(e, event) /\ IsTextOf(SubSeq(e, 1, 3 * n - 1), event)
    BY <1>2, EventTexts DEF e, n
<1>12. SubSeq(b, 3 * n + 2, Len(b)) = SubSeq(text, q + 1, r)
    <2>1. SubSeq(SubSeq(text, p + 1, r), (q - p) + 1, r - p) = SubSeq(text, q + 1, r)
        <3>1. text \in Seq(ByteType) /\ p \in Nat /\ q \in Nat /\ p <= q /\ q <= r /\ r <= Len(text)
            BY <1>3, <1>6
        <3>2. QED
            BY <3>1, PartOfPart
    <2>2. (q - p) + 1 = 3 * n + 2
        BY <1>2, <1>6
    <2>3. QED
        BY <1>7, <2>1, <2>2 DEF b
<1>13. /\ IsUtf8(SubSeq(e, 1, 3 * n - 1)) <=> IsUtf8(e)
       /\ parse(SubSeq(e, 1, 3 * n - 1)) = Parsed(event)
    <2> DEFINE t == SubSeq(e, 1, 3 * n - 1)
    <2>1. IsTextOf(t, event)
        BY <1>11
    <2> HIDE DEF t
    <2>2. parse(t) = Parsed(event) /\ (IsUtf8(t) <=> \A j \in 1..Len(event) : event[j].value # "not utf-8")
        BY <1>2, <2>1, ParseText, TextUtf8
    <2>3. IsUtf8(e) <=> \A j \in 1..Len(event) : event[j].value # "not utf-8"
        BY <1>2, <1>11, TextUtf8
    <2>4. QED
        BY <2>2, <2>3 DEF t
<1>14. next_event(b) = IF ~ IsUtf8(SubSeq(b, 1, 3 * n - 1)) THEN [event |-> <<>>, buffer |-> b]
                       ELSE [event |-> <<parse(SubSeq(b, 1, 3 * n - 1))>>,
                             buffer |-> SubSeq(b, 3 * n + 2, Len(b))]
    BY <1>9 DEF next_event
<1>15. next_event(b) = IF IsUtf8(e) THEN [event |-> <<Parsed(event)>>, buffer |-> SubSeq(text, q + 1, r)]
                       ELSE [event |-> <<>>, buffer |-> b]
    BY <1>10, <1>12, <1>13, <1>14
<1>16. QED
    BY <1>15 DEF b, event, e, text, p, q, Decodes

(* It has not, or there is none. *)
LEMMA NoEvent ==
    ASSUME NEW events \in Seq(Event), NEW rest \in Seq(LineType), NEW k \in 0..Len(events),
           NEW r \in Nat, Pos(events, k) <= r, r <= Len(TextOf(events, rest)),
           k < Len(events) => r < Pos(events, k + 1)
    PROVE  LET left == SubSeq(TextOf(events, rest), Pos(events, k) + 1, r)
           IN  next_event(left) = [event |-> <<>>, buffer |-> left]
<1> DEFINE text == TextOf(events, rest)
           p == Pos(events, k)
           b == SubSeq(text, p + 1, r)
<1>1. text \in Seq(ByteType) /\ p \in Nat /\ Len(events) \in Nat
    BY StreamAt
<1>2. b \in Seq(ByteType) /\ Len(b) = r - p /\ \A i \in 1..(r - p) : b[i] = text[p + i]
    <2> HIDE DEF text
    <2>1. text \in Seq(ByteType) /\ p \in Nat /\ p <= r /\ r <= Len(text)
        BY <1>1 DEF text
    <2> HIDE DEF p
    <2>2. QED
        BY <2>1, PartAt
<1>3. \E lines \in Seq(LineType) :
          Len(b) <= 3 * Len(lines) /\ \A i \in 1..Len(b) : b[i] = Lines(lines)[i]
    <2>1. CASE k < Len(events)
        <3> DEFINE event == events[k + 1]
                   n == Len(event)
        <3>1. k \in 0..(Len(events) - 1) /\ k + 1 \in 1..Len(events)
            BY <1>1, <2>1
        <3>2. event \in Seq(LineType) /\ n \in Nat
            BY <3>1, EventLen, CodesType
        <3>3. Pos(events, k + 1) = p + (3 * n + 1) /\ \A i \in 1..(3 * n + 1) : text[p + i] = Encoded(event)[i]
            BY <3>1, StreamAt
        <3>4. \A i \in 1..(3 * n) : Encoded(event)[i] = Lines(event)[i]
            BY <3>2, EncodedAt
        <3> HIDE DEF text, p, n, event, b
        <3>5. r - p <= 3 * n
            BY <1>1, <2>1, <3>2, <3>3 DEF p
        <3>6. \A i \in 1..Len(b) : i \in 1..(3 * n) /\ i \in 1..(3 * n + 1) /\ i \in 1..(r - p)
            BY <1>1, <1>2, <3>2, <3>5
        <3>7. Len(b) <= 3 * Len(event) /\ \A i \in 1..Len(b) : b[i] = Lines(event)[i]
            BY <1>2, <3>3, <3>4, <3>5, <3>6 DEF n
        <3>8. QED
            BY <3>2, <3>7
    <2>2. CASE ~ (k < Len(events))
        <3> DEFINE m == 3 * Len(rest)
        <3>1. k = Len(events) /\ m \in Nat
            BY <1>1, <2>2
        <3>2. Len(text) = p + m /\ \A i \in 1..m : text[p + i] = Lines(rest)[i]
            BY <3>1, StreamAt
        <3>3. r <= Len(text)
            OBVIOUS
        <3> HIDE DEF text, p, m, b
        <3>4. r - p <= m
            BY <1>1, <3>1, <3>2, <3>3
        <3>5. \A i \in 1..Len(b) : i \in 1..m /\ i \in 1..(r - p)
            BY <1>1, <1>2, <3>1, <3>4
        <3>6. Len(b) <= 3 * Len(rest) /\ \A i \in 1..Len(b) : b[i] = Lines(rest)[i]
            BY <1>2, <3>2, <3>4, <3>5 DEF m
        <3>7. QED
            BY <3>6
    <2>3. QED
        BY <2>1, <2>2
<1> HIDE DEF b
<1>4. Delimiters(b) = {}
    BY <1>2, <1>3, NoDelimiter
<1>5. next_event(b) = [event |-> <<>>, buffer |-> b]
    BY <1>4 DEF next_event
<1>6. QED
    BY <1>5 DEF b, p, text
-----------------------------------------------------------------------------
(***************************************************************************)
(* while let Some(event) = parser.next_event().                            *)
(***************************************************************************)
EndOf(buffer, n) == SubSeq(buffer, Len(buffer) - n + 1, Len(buffer))

PulledFrom(f, buffer, n) ==
    LET step == next_event(EndOf(buffer, n))
    IN  IF step.event = <<>> THEN [events |-> <<>>, buffer |-> step.buffer]
        ELSE [events |-> step.event \o f[Len(step.buffer)].events,
              buffer |-> f[Len(step.buffer)].buffer]

(* f is the function that pulled is defined by. *)
Pulls(f, buffer, m) == f = [n \in 0..m |-> PulledFrom(f, buffer, n)]

(* An event that is taken leaves fewer bytes. *)
LEMMA Shrinks ==
    ASSUME NEW b \in Seq(ByteType), next_event(b).event # <<>>
    PROVE  Len(next_event(b).buffer) \in 0..(Len(b) - 1)
<1> DEFINE ends == Delimiters(b)
           pos == Min(ends)
<1>1. CASE ends = {} \/ ~ IsUtf8(SubSeq(b, 1, pos - 1))
    BY <1>1 DEF next_event
<1>2. CASE ~ (ends = {} \/ ~ IsUtf8(SubSeq(b, 1, pos - 1)))
    <2>1. ends \subseteq 1..(Len(b) - 1) /\ ends # {} /\ Len(b) \in Nat
        BY <1>2 DEF Delimiters
    <2>2. ends \subseteq Nat
        BY <2>1
    <2>3. next_event(b).buffer = SubSeq(b, pos + 2, Len(b))
        BY <1>2 DEF next_event
    <2> HIDE DEF ends
    <2>4. pos \in ends
        BY <2>1, <2>2, MinIs
    <2>5. pos \in 1..(Len(b) - 1)
        BY <2>1, <2>4
    <2> DEFINE q == pos + 1
    <2>6. q \in Nat /\ q <= Len(b) /\ q >= 1 /\ pos + 2 = q + 1
        BY <2>1, <2>5
    <2> HIDE DEF q, pos
    <2>7. Len(SubSeq(b, q + 1, Len(b))) = Len(b) - q
        BY <2>1, <2>6, PartAt
    <2>8. QED
        BY <2>1, <2>3, <2>6, <2>7
<1>3. QED
    BY <1>1, <1>2

(* The last bytes of a buffer. *)
LEMMA EndOfType ==
    ASSUME NEW b \in Seq(ByteType), NEW n \in 0..Len(b)
    PROVE  EndOf(b, n) \in Seq(ByteType) /\ Len(EndOf(b, n)) = n
<1> DEFINE p == Len(b) - n
<1>1. p \in Nat /\ Len(b) \in Nat /\ p <= Len(b) /\ Len(b) - p = n /\ Len(b) - n + 1 = p + 1
    OBVIOUS
<1> HIDE DEF p
<1>2. /\ SubSeq(b, p + 1, Len(b)) \in Seq(ByteType)
      /\ Len(SubSeq(b, p + 1, Len(b))) = Len(b) - p
    <2>1. Len(b) <= Len(b)
        BY <1>1
    <2>2. QED
        BY <1>1, <2>1, PartAt
<1>3. QED
    BY <1>1, <1>2 DEF EndOf

(* The recursion of pulled has a solution of every length. *)
LEMMA PullsExists ==
    ASSUME NEW b \in Seq(ByteType)
    PROVE  \A m \in Nat : m <= Len(b) => \E f : Pulls(f, b, m)
<1> DEFINE P == {m \in Nat : m <= Len(b) => \E f : Pulls(f, b, m)}
           Left(n) == Len(next_event(EndOf(b, n)).buffer)
<1>0. Len(b) \in Nat
    OBVIOUS
<1>1. ASSUME NEW n \in 0..Len(b), NEW f, NEW g,
             \A i \in 0..(n - 1) : f[i] = g[i]
      PROVE  PulledFrom(f, b, n) = PulledFrom(g, b, n)
    <2>1. CASE next_event(EndOf(b, n)).event = <<>>
        BY <2>1 DEF PulledFrom
    <2>2. CASE next_event(EndOf(b, n)).event # <<>>
        <3> DEFINE e == EndOf(b, n)
        <3>1. e \in Seq(ByteType) /\ Len(e) = n
            BY EndOfType
        <3> HIDE DEF e
        <3>2. Len(next_event(e).buffer) \in 0..(Len(e) - 1)
            BY <2>2, <3>1, Shrinks DEF e
        <3>3. f[Left(n)] = g[Left(n)]
            BY <1>1, <3>1, <3>2 DEF e
        <3>4. QED
            BY <2>2, <3>3 DEF PulledFrom
    <2>3. QED
        BY <2>1, <2>2
<1>2. 0 \in P
    <2> DEFINE f == [n \in 0..0 |-> PulledFrom(<<>>, b, n)]
    <2>1. ASSUME NEW n \in 0..0
          PROVE  f[n] = PulledFrom(f, b, n)
        <3>1. n \in 0..Len(b) /\ \A i \in 0..(n - 1) : <<>>[i] = f[i]
            BY <1>0
        <3>2. f[n] = PulledFrom(<<>>, b, n)
            OBVIOUS
        <3> HIDE DEF f
        <3>3. PulledFrom(<<>>, b, n) = PulledFrom(f, b, n)
            BY <1>1, <3>1
        <3>4. QED
            BY <3>2, <3>3
    <2>2. Pulls(f, b, 0)
        BY <2>1 DEF Pulls
    <2>3. QED
        BY <2>2
<1>3. ASSUME NEW m \in Nat, m \in P
      PROVE  m + 1 \in P
    <2>1. SUFFICES ASSUME m + 1 <= Len(b)
                   PROVE  \E f : Pulls(f, b, m + 1)
        OBVIOUS
    <2>2. PICK f : Pulls(f, b, m)
        BY <1>0, <1>3, <2>1
    <2> DEFINE g == [n \in 0..(m + 1) |-> IF n = m + 1 THEN PulledFrom(f, b, n) ELSE f[n]]
    <2>3. \A i \in 0..m : f[i] = g[i]
        OBVIOUS
    <2>4. ASSUME NEW n \in 0..(m + 1)
          PROVE  g[n] = PulledFrom(g, b, n)
        <3>1. g[n] = PulledFrom(f, b, n)
            <4>1. CASE n = m + 1
                BY <4>1
            <4>2. CASE n # m + 1
                <5>1. n \in 0..m /\ g[n] = f[n]
                    BY <4>2
                <5>2. f[n] = PulledFrom(f, b, n)
                    BY <2>2, <5>1 DEF Pulls
                <5>3. QED
                    BY <5>1, <5>2
            <4>3. QED
                BY <4>1, <4>2
        <3> HIDE DEF g
        <3>2. n \in 0..Len(b) /\ \A i \in 0..(n - 1) : f[i] = g[i]
            BY <1>0, <2>1, <2>3
        <3>3. PulledFrom(f, b, n) = PulledFrom(g, b, n)
            BY <1>1, <3>2
        <3>4. QED
            BY <3>1, <3>3
    <2>5. Pulls(g, b, m + 1)
        BY <2>4 DEF Pulls
    <2>6. QED
        BY <2>5
<1> HIDE DEF P
<1>4. \A m \in Nat : m \in P
    BY <1>2, <1>3, Induction
<1>5. QED
    BY <1>4 DEF P

(* pulled is the last value of such a solution. *)
LEMMA PulledIs ==
    ASSUME NEW b \in Seq(ByteType)
    PROVE  \E f : Pulls(f, b, Len(b)) /\ pulled(b) = f[Len(b)]
<1> DEFINE f == CHOOSE g : g = [n \in 0..Len(b) |-> PulledFrom(g, b, n)]
<1>1. pulled(b) = f[Len(b)]
    BY DEF pulled, PulledFrom, EndOf
<1>2. \E g : g = [n \in 0..Len(b) |-> PulledFrom(g, b, n)]
    <2>1. Len(b) \in Nat /\ Len(b) <= Len(b)
        OBVIOUS
    <2>2. QED
        BY <2>1, PullsExists DEF Pulls
<1>3. f = [n \in 0..Len(b) |-> PulledFrom(f, b, n)]
    BY <1>2
<1> HIDE DEF f
<1>4. Pulls(f, b, Len(b))
    BY <1>3 DEF Pulls
<1>5. QED
    BY <1>1, <1>4

(* The events after the first j, up to the m-th, as they are parsed. *)
ParsedFrom(events, j, m) == [i \in 1..(m - j) |-> Parsed(events[j + i])]

(* No event. *)
LEMMA ParsedNone ==
    ASSUME NEW events, NEW j \in Nat
    PROVE  ParsedFrom(events, j, j) = <<>>
<1>1. 1..(j - j) = {}
    OBVIOUS
<1>2. QED
    BY <1>1 DEF ParsedFrom

(* The first of the events, and the others. *)
LEMMA ParsedCons ==
    ASSUME NEW events, NEW j \in Nat, NEW m \in Nat, j + 1 <= m
    PROVE  <<Parsed(events[j + 1])>> \o ParsedFrom(events, j + 1, m) = ParsedFrom(events, j, m)
<1> DEFINE S == {Parsed(events[i]) : i \in Nat}
           s == <<Parsed(events[j + 1])>>
           t == ParsedFrom(events, j + 1, m)
           u == ParsedFrom(events, j, m)
           n == m - (j + 1)
<1>1. n \in Nat /\ m - j = n + 1
    OBVIOUS
<1>2. t = [i \in 1..n |-> Parsed(events[(j + 1) + i])] /\ u = [i \in 1..(n + 1) |-> Parsed(events[j + i])]
    BY <1>1 DEF ParsedFrom
<1> HIDE DEF n, t, u
<1>3. \A i \in Nat : Parsed(events[(j + 1) + i]) \in S /\ Parsed(events[j + i]) \in S
    OBVIOUS
<1>4. Parsed(events[j + 1]) \in S
    OBVIOUS
<1> HIDE DEF S
<1>5. t \in Seq(S) /\ Len(t) = n /\ u \in Seq(S) /\ Len(u) = n + 1
    <2>1. n + 1 \in Nat /\ \A i \in 1..(n + 1) : i \in Nat
        BY <1>1
    <2>2. t \in [1..n -> S] /\ u \in [1..(n + 1) -> S]
        <3>1. \A i \in 1..n : i \in Nat
            BY <1>1
        <3>2. QED
            BY <1>2, <1>3, <2>1, <3>1
    <2>3. QED
        BY <1>1, <2>1, <2>2
<1>6. s \in Seq(S) /\ Len(s) = 1 /\ s[1] = Parsed(events[j + 1])
    BY <1>4
<1> HIDE DEF s
<1>7. /\ s \o t \in Seq(S) /\ Len(s \o t) = Len(s) + Len(t)
      /\ \A i \in 1..Len(s) : (s \o t)[i] = s[i]
      /\ \A i \in 1..Len(t) : (s \o t)[Len(s) + i] = t[i]
    <2>1. s \in Seq(S) /\ t \in Seq(S)
        BY <1>5, <1>6
    <2>2. QED
        BY <2>1, ConcatAt
<1>8. ASSUME NEW i \in 1..(n + 1)
      PROVE  (s \o t)[i] = u[i]
    <2>1. CASE i = 1
        BY <1>1, <1>2, <1>6, <1>7, <2>1
    <2>2. CASE i # 1
        <3> DEFINE h == i - 1
        <3>1. h \in 1..n /\ 1 + h = i /\ (j + 1) + h = j + i
            BY <1>1, <2>2
        <3> HIDE DEF h
        <3>2. (s \o t)[1 + h] = t[h]
            BY <1>5, <1>6, <1>7, <3>1
        <3>3. t[h] = Parsed(events[(j + 1) + h])
            BY <1>2, <3>1
        <3>4. u[i] = Parsed(events[j + i])
            BY <1>2
        <3>5. QED
            BY <3>1, <3>2, <3>3, <3>4
    <2>3. QED
        BY <2>1, <2>2
<1>9. Len(s \o t) = Len(u) /\ Len(u) = n + 1
    BY <1>1, <1>5, <1>6, <1>7
<1>10. s \o t = u
    BY <1>5, <1>7, <1>8, <1>9, SameSeq
<1>11. QED
    BY <1>10 DEF s, t, u

(* Where the parser stops: at the end, at an event that has not come whole *)
(* or at one that it cannot decode.                                        *)
StopsAt(events, r, m) ==
    m < Len(events) /\ Pos(events, m + 1) <= r => ~ Decodes(events[m + 1])

(* The loop around next_event, on a buffer that begins with event k + 1    *)
(* and reaches to byte r of the body: it gives the events that are whole   *)
(* by r and decode, up to the first one that is not or does not, and       *)
(* leaves what comes after them.                                           *)
LEMMA PulledAt ==
    ASSUME NEW events \in Seq(Event), NEW rest \in Seq(LineType), NEW k \in 0..Len(events),
           NEW r \in Nat, Pos(events, k) <= r, r <= Len(TextOf(events, rest))
    PROVE  LET left(j) == SubSeq(TextOf(events, rest), Pos(events, j) + 1, r)
           IN  \E m \in k..Len(events) :
                  /\ Pos(events, m) <= r /\ StopsAt(events, r, m)
                  /\ \A j \in (k + 1)..m : Decodes(events[j])
                  /\ pulled(left(k)) = [events |-> ParsedFrom(events, k, m), buffer |-> left(m)]
<1> DEFINE text == TextOf(events, rest)
           n == Len(events)
           pos(j) == Pos(events, j)
           left(j) == SubSeq(text, pos(j) + 1, r)
           b == left(k)
           Result(j, m) == [events |-> ParsedFrom(events, j, m), buffer |-> left(m)]
           Stops(j, m) == /\ m \in j..n /\ pos(m) <= r /\ StopsAt(events, r, m)
                          /\ \A i \in (j + 1)..m : Decodes(events[i])
<1>1. text \in Seq(ByteType) /\ n \in Nat /\ k \in Nat /\ k <= n
    BY StreamAt
<1>2. /\ \A j \in 0..n : pos(j) \in Nat
      /\ \A j \in 0..(n - 1) : pos(j) <= pos(j + 1)
    <2>1. \A j \in 0..n : pos(j) \in Nat
        BY StreamAt
    <2>2. ASSUME NEW j \in 0..(n - 1)
          PROVE  pos(j) <= pos(j + 1)
        <3>1. pos(j + 1) = pos(j) + (3 * Len(events[j + 1]) + 1)
            BY StreamAt
        <3>2. j + 1 \in 1..n /\ j \in 0..n
            BY <1>1
        <3>3. Len(events[j + 1]) \in Nat /\ pos(j) \in Nat
            BY <2>1, <3>2, EventLen, CodesType
        <3> HIDE DEF pos
        <3>4. QED
            BY <3>1, <3>3
    <2>3. QED
        BY <2>1, <2>2
<1>3. ASSUME NEW j \in 0..n, k <= j, pos(j) <= r
      PROVE  /\ left(j) \in Seq(ByteType) /\ Len(left(j)) = r - pos(j)
             /\ left(j) = EndOf(b, r - pos(j)) /\ r - pos(j) \in 0..Len(b) /\ Len(b) = r - pos(k)
    <2> DEFINE p == pos(k)
               q == pos(j)
    <2>1. p \in Nat /\ q \in Nat /\ q <= r /\ r <= Len(text) /\ p <= r
        BY <1>1, <1>2, <1>3
    <2>2. p <= q
        <3> DEFINE c == Codes(events)
        <3>1. c \in Seq(Seq(ByteType)) /\ j \in Nat /\ k \in Nat /\ j <= Len(c)
            BY <1>1, CodesType
        <3> HIDE DEF c
        <3>2. Off(c, k) <= Off(c, j)
            BY <1>3, <3>1, UptoGrows
        <3>3. QED
            BY <3>2 DEF c, Pos
    <2> HIDE DEF p, q, text
    <2>3. SubSeq(SubSeq(text, p + 1, r), (q - p) + 1, r - p) = SubSeq(text, q + 1, r)
        <3>1. text \in Seq(ByteType)
            BY <1>1
        <3>2. QED
            BY <2>1, <2>2, <3>1, PartOfPart
    <2>4. /\ SubSeq(text, p + 1, r) \in Seq(ByteType) /\ Len(SubSeq(text, p + 1, r)) = r - p
        BY <1>1, <2>1, PartAt
    <2>5. /\ SubSeq(text, q + 1, r) \in Seq(ByteType) /\ Len(SubSeq(text, q + 1, r)) = r - q
        BY <1>1, <2>1, PartAt
    <2>6. (r - p) - (r - q) = q - p /\ r - q \in 0..(r - p)
        BY <2>1, <2>2
    <2>7. EndOf(SubSeq(text, p + 1, r), r - q) = SubSeq(text, q + 1, r)
        BY <2>3, <2>4, <2>6 DEF EndOf
    <2>8. QED
        BY <2>4, <2>5, <2>6, <2>7 DEF p, q, text
<1>4. b \in Seq(ByteType) /\ Len(b) = r - pos(k)
    BY <1>1, <1>2, <1>3
<1>5. PICK f : Pulls(f, b, Len(b)) /\ pulled(b) = f[Len(b)]
    <2> HIDE DEF b
    <2>1. QED
        BY <1>4, PulledIs
<1>6. ASSUME NEW j \in 0..n, k <= j, pos(j) <= r
      PROVE  f[r - pos(j)] = LET step == next_event(left(j))
                             IN  IF step.event = <<>> THEN [events |-> <<>>, buffer |-> step.buffer]
                                 ELSE [events |-> step.event \o f[Len(step.buffer)].events,
                                       buffer |-> f[Len(step.buffer)].buffer]
    <2>1. r - pos(j) \in 0..Len(b) /\ left(j) = EndOf(b, r - pos(j))
        BY <1>3, <1>6
    <2> HIDE DEF b, left, pos
    <2>2. f[r - pos(j)] = PulledFrom(f, b, r - pos(j))
        BY <1>5, <2>1 DEF Pulls
    <2>3. QED
        BY <2>1, <2>2 DEF PulledFrom
<1> DEFINE Holds(d) == \A j \in 0..n : j + d = n /\ k <= j /\ pos(j) <= r =>
                           \E m \in j..n : Stops(j, m) /\ f[r - pos(j)] = Result(j, m)
           P == {d \in Nat : Holds(d)}
<1>7. ASSUME NEW j \in 0..n, k <= j, pos(j) <= r, next_event(left(j)) = [event |-> <<>>, buffer |-> left(j)],
             StopsAt(events, r, j)
      PROVE  \E m \in j..n : Stops(j, m) /\ f[r - pos(j)] = Result(j, m)
    <2>1. j \in Nat /\ j \in j..n /\ \A i \in (j + 1)..j : Decodes(events[i])
        BY <1>1
    <2>2. f[r - pos(j)] = [events |-> <<>>, buffer |-> left(j)]
        <3> HIDE DEF left, pos
        <3>1. next_event(left(j)).event = <<>> /\ next_event(left(j)).buffer = left(j)
            BY <1>7
        <3>2. QED
            BY <1>6, <1>7, <3>1
    <2>3. ParsedFrom(events, j, j) = <<>>
        BY <2>1, ParsedNone
    <2>4. Stops(j, j) /\ f[r - pos(j)] = Result(j, j)
        BY <1>7, <2>1, <2>2, <2>3
    <2>5. QED
        BY <2>1, <2>4
<1>8. ASSUME NEW j \in 0..n, k <= j, pos(j) <= r, j < n => r < pos(j + 1)
      PROVE  \E m \in j..n : Stops(j, m) /\ f[r - pos(j)] = Result(j, m)
    <2>1. next_event(left(j)) = [event |-> <<>>, buffer |-> left(j)]
        BY <1>8, NoEvent
    <2>2. StopsAt(events, r, j)
        <3>1. j < n => pos(j + 1) \in Nat
            <4>1. j < n => j + 1 \in 0..n
                BY <1>1
            <4>2. QED
                BY <1>2, <4>1
        <3>2. QED
            BY <1>8, <3>1 DEF StopsAt
    <2> HIDE DEF left, pos, Stops, Result
    <2>3. QED
        BY <1>7, <1>8, <2>1, <2>2
<1>9. 0 \in P
    <2> HIDE DEF left, pos, Stops, Result
    <2>1. \A j \in 0..n : j + 0 = n => ~ (j < n)
        BY <1>1
    <2>2. QED
        BY <1>8, <2>1
<1>10. ASSUME NEW d \in Nat, d \in P
       PROVE  d + 1 \in P
    <2>0. SUFFICES Holds(d + 1)
        <3> HIDE DEF Holds
        <3>1. QED
            OBVIOUS
    <2>1. SUFFICES ASSUME NEW j \in 0..n, j + (d + 1) = n, k <= j, pos(j) <= r
                   PROVE  \E m \in j..n : Stops(j, m) /\ f[r - pos(j)] = Result(j, m)
        OBVIOUS
    <2>2. j \in Nat /\ j < n /\ j + 1 \in 0..n /\ (j + 1) + d = n /\ k <= j + 1 /\ j \in 0..(n - 1)
        BY <1>1, <2>1
    <2>3. pos(j) \in Nat /\ pos(j + 1) \in Nat /\ pos(j) <= pos(j + 1)
        BY <1>2, <2>2
    <2>4. CASE r < pos(j + 1)
        <3> HIDE DEF left, pos, Stops, Result
        <3>1. QED
            BY <1>8, <2>1, <2>4
    <2>5. CASE ~ (r < pos(j + 1))
        <3>1. pos(j + 1) <= r
            BY <2>3, <2>5
        <3>2. next_event(left(j)) =
                 IF Decodes(events[j + 1])
                 THEN [event |-> <<Parsed(events[j + 1])>>, buffer |-> left(j + 1)]
                 ELSE [event |-> <<>>, buffer |-> left(j)]
            BY <2>2, <3>1, NextEvent
        <3>3. CASE ~ Decodes(events[j + 1])
            <4>1. StopsAt(events, r, j)
                BY <3>3 DEF StopsAt
            <4> HIDE DEF left, pos, Stops, Result
            <4>2. QED
                BY <1>7, <2>1, <3>2, <3>3, <4>1
        <3>4. CASE Decodes(events[j + 1])
            <4>1. PICK m \in (j + 1)..n : Stops(j + 1, m) /\ f[r - pos(j + 1)] = Result(j + 1, m)
                <5> HIDE DEF left, pos, Stops, Result
                <5>1. QED
                    BY <1>10, <2>2, <3>1
            <4>2. Len(left(j + 1)) = r - pos(j + 1)
                BY <1>3, <2>2, <3>1
            <4>3. f[r - pos(j)] = [events |-> <<Parsed(events[j + 1])>> \o f[r - pos(j + 1)].events,
                                   buffer |-> f[r - pos(j + 1)].buffer]
                <5> DEFINE step == next_event(left(j))
                <5>1. step = [event |-> <<Parsed(events[j + 1])>>, buffer |-> left(j + 1)]
                    BY <3>2, <3>4
                <5>2. step.event = <<Parsed(events[j + 1])>> /\ step.buffer = left(j + 1) /\ step.event # <<>>
                    <6> HIDE DEF step, left
                    <6>1. QED
                        BY <5>1
                <5>3. f[r - pos(j)] = [events |-> step.event \o f[Len(step.buffer)].events,
                                       buffer |-> f[Len(step.buffer)].buffer]
                    <6> HIDE DEF left, pos
                    <6>1. QED
                        BY <1>6, <2>1, <5>2
                <5> HIDE DEF step, left, pos
                <5>4. QED
                    BY <4>2, <5>2, <5>3
            <4>4. <<Parsed(events[j + 1])>> \o ParsedFrom(events, j + 1, m) = ParsedFrom(events, j, m)
                <5>1. m \in Nat /\ j + 1 <= m
                    BY <2>2, <4>1
                <5>2. QED
                    BY <2>2, <5>1, ParsedCons
            <4>5. f[r - pos(j)] = Result(j, m)
                <5>1. /\ Result(j + 1, m).events = ParsedFrom(events, j + 1, m)
                      /\ Result(j + 1, m).buffer = left(m)
                    OBVIOUS
                <5> HIDE DEF left, pos
                <5>2. QED
                    BY <4>1, <4>3, <4>4, <5>1
            <4>6. m \in j..n /\ \A i \in (j + 1)..m : i = j + 1 \/ i \in ((j + 1) + 1)..m
                BY <2>2, <4>1
            <4>7. Stops(j, m)
                BY <3>4, <4>1, <4>6
            <4>8. QED
                BY <4>5, <4>6, <4>7
        <3>5. QED
            BY <3>3, <3>4
    <2>6. QED
        BY <2>4, <2>5
<1> HIDE DEF P
<1>11. \A d \in Nat : d \in P
    BY <1>9, <1>10, Induction
<1>12. PICK m \in k..n : Stops(k, m) /\ f[r - pos(k)] = Result(k, m)
    <2>1. n - k \in Nat /\ k + (n - k) = n /\ k <= k /\ pos(k) <= r /\ k \in 0..n
        BY <1>1
    <2>2. n - k \in P
        BY <1>11, <2>1
    <2> HIDE DEF pos, Stops, Result
    <2>3. QED
        BY <2>1, <2>2 DEF P
<1>13. pulled(b) = Result(k, m)
    <2> HIDE DEF b, Result
    <2>1. QED
        BY <1>4, <1>5, <1>12
<1>14. QED
    BY <1>12, <1>13
-----------------------------------------------------------------------------
(***************************************************************************)
(* AnthropicTransform::process, event by event.                            *)
(***************************************************************************)
IsNamed(event, name) == Len(event) = 2 /\ event[1] = Name(name) /\ event[2].value = "json"
IsStart(event) == IsNamed(event, "message_start") /\ event[2].prompt # None
IsDelta(event) == IsNamed(event, "message_delta") /\ event[2].completion # None

StartsIn(events, k) == {i \in 1..k : IsStart(events[i])}
DeltasIn(events, k) == {i \in 1..k : IsDelta(events[i])}

(* KnownAfter, by the events that count. *)
LEMMA KnownIs ==
    ASSUME NEW events, NEW k
    PROVE  KnownAfter(events, k) =
             [prompt     |-> IF StartsIn(events, k) = {} THEN 0 ELSE events[Max(StartsIn(events, k))][2].prompt,
              completion |-> IF DeltasIn(events, k) = {} THEN 0
                             ELSE events[Max(DeltasIn(events, k))][2].completion]
<1>1. /\ StartsIn(events, k) = {i \in {j \in 1..k : /\ Len(events[j]) = 2 /\ events[j][1] = Name("message_start")
                                                    /\ events[j][2].value = "json"} :
                                    events[i][2].prompt # None}
      /\ DeltasIn(events, k) = {i \in {j \in 1..k : /\ Len(events[j]) = 2 /\ events[j][1] = Name("message_delta")
                                                    /\ events[j][2].value = "json"} :
                                    events[i][2].completion # None}
    BY DEF StartsIn, DeltasIn, IsStart, IsDelta, IsNamed
<1>2. QED
    BY <1>1, Zenon DEF KnownAfter

(* A greater number is the greatest. *)
LEMMA MaxGrows ==
    ASSUME NEW T, NEW k \in Nat, T \subseteq 1..k
    PROVE  Max(T \cup {k + 1}) = k + 1
<1> DEFINE U == T \cup {k + 1}
<1>1. U \subseteq Nat /\ k + 1 \in U /\ \A m \in U : k + 1 >= m
    OBVIOUS
<1> HIDE DEF U
<1>2. Max(U) = k + 1
    BY <1>1, MaxAt
<1>3. QED
    BY <1>2 DEF U

(* What one event more adds to the counts. *)
LEMMA KnownStep ==
    ASSUME NEW events, NEW k \in Nat
    PROVE  LET event == events[k + 1]
               known == KnownAfter(events, k)
           IN  /\ known = [prompt |-> known.prompt, completion |-> known.completion]
               /\ KnownAfter(events, k + 1) =
                    [prompt     |-> IF IsStart(event) THEN event[2].prompt ELSE known.prompt,
                     completion |-> IF IsDelta(event) THEN event[2].completion ELSE known.completion]
<1> DEFINE event == events[k + 1]
           known == KnownAfter(events, k)
           prompt(T) == IF T = {} THEN 0 ELSE events[Max(T)][2].prompt
           completion(T) == IF T = {} THEN 0 ELSE events[Max(T)][2].completion
<1>1. /\ StartsIn(events, k + 1) = StartsIn(events, k) \cup (IF IsStart(event) THEN {k + 1} ELSE {})
      /\ DeltasIn(events, k + 1) = DeltasIn(events, k) \cup (IF IsDelta(event) THEN {k + 1} ELSE {})
    <2>1. \A i : i \in 1..(k + 1) <=> i \in 1..k \/ i = k + 1
        OBVIOUS
    <2>2. QED
        BY <2>1 DEF StartsIn, DeltasIn
<1>2. StartsIn(events, k) \subseteq 1..k /\ DeltasIn(events, k) \subseteq 1..k
    BY DEF StartsIn, DeltasIn
<1>3. prompt(StartsIn(events, k + 1)) = IF IsStart(event) THEN event[2].prompt ELSE prompt(StartsIn(events, k))
    <2>1. CASE IsStart(event)
        <3>1. StartsIn(events, k + 1) = StartsIn(events, k) \cup {k + 1}
            BY <1>1, <2>1
        <3>2. Max(StartsIn(events, k) \cup {k + 1}) = k + 1
            BY <1>2, MaxGrows
        <3>3. QED
            BY <2>1, <3>1, <3>2
    <2>2. CASE ~ IsStart(event)
        BY <1>1, <2>2
    <2>3. QED
        BY <2>1, <2>2
<1>4. completion(DeltasIn(events, k + 1)) =
          IF IsDelta(event) THEN event[2].completion ELSE completion(DeltasIn(events, k))
    <2>1. CASE IsDelta(event)
        <3>1. DeltasIn(events, k + 1) = DeltasIn(events, k) \cup {k + 1}
            BY <1>1, <2>1
        <3>2. Max(DeltasIn(events, k) \cup {k + 1}) = k + 1
            BY <1>2, MaxGrows
        <3>3. QED
            BY <2>1, <3>1, <3>2
    <2>2. CASE ~ IsDelta(event)
        BY <1>1, <2>2
    <2>3. QED
        BY <2>1, <2>2
<1>5. /\ known = [prompt |-> prompt(StartsIn(events, k)), completion |-> completion(DeltasIn(events, k))]
      /\ KnownAfter(events, k + 1) = [prompt |-> prompt(StartsIn(events, k + 1)),
                                      completion |-> completion(DeltasIn(events, k + 1))]
    BY KnownIs
<1> HIDE DEF prompt, completion, known, event
<1>6. known.prompt = prompt(StartsIn(events, k)) /\ known.completion = completion(DeltasIn(events, k))
    BY <1>5
<1>7. QED
    BY <1>3, <1>4, <1>5, <1>6 DEF known, event

(* Nothing is known at first. *)
LEMMA KnownFirst ==
    ASSUME NEW events
    PROVE  KnownAfter(events, 0) = AnthropicTransform_new
<1>1. StartsIn(events, 0) = {} /\ DeltasIn(events, 0) = {}
    BY DEF StartsIn, DeltasIn
<1>2. QED
    BY <1>1, KnownIs DEF AnthropicTransform_new

(* What is known are counts that were reported, or zero. *)
LEMMA KnownType ==
    ASSUME NEW events \in Seq(Event), NEW k \in 0..Len(events)
    PROVE  /\ KnownAfter(events, k).prompt \in Tokens \cup {0}
           /\ KnownAfter(events, k).completion \in Tokens \cup {0}
           /\ KnownAfter(events, k) \in Usage
<1>1. k \in Nat /\ Len(events) \in Nat
    OBVIOUS
<1>2. ASSUME NEW i \in 1..k, Len(events[i]) = 2
      PROVE  /\ events[i][2].prompt \in Tokens \cup {0, None}
             /\ events[i][2].completion \in Tokens \cup {0, None}
    <2>1. i \in 1..Len(events)
        BY <1>1
    <2>2. events[i][2] \in LineType
        BY <1>2, <2>1, EventLen, CodesType
    <2>3. QED
        BY <2>2 DEF LineType
<1>3. StartsIn(events, k) # {} => events[Max(StartsIn(events, k))][2].prompt \in Tokens \cup {0}
    <2> DEFINE T == StartsIn(events, k)
    <2>1. T \subseteq 0..k
        BY DEF StartsIn
    <2>2. T # {} => Max(T) \in T
        <3> HIDE DEF T
        <3>1. QED
            BY <1>1, <2>1, MaxIs
    <2>3. \A i \in T : i \in 1..k /\ Len(events[i]) = 2 /\ events[i][2].prompt # None
        BY DEF StartsIn, IsStart, IsNamed
    <2> HIDE DEF T
    <2>4. QED
        BY <1>2, <2>2, <2>3 DEF T
<1>4. DeltasIn(events, k) # {} => events[Max(DeltasIn(events, k))][2].completion \in Tokens \cup {0}
    <2> DEFINE T == DeltasIn(events, k)
    <2>1. T \subseteq 0..k
        BY DEF DeltasIn
    <2>2. T # {} => Max(T) \in T
        <3> HIDE DEF T
        <3>1. QED
            BY <1>1, <2>1, MaxIs
    <2>3. \A i \in T : i \in 1..k /\ Len(events[i]) = 2 /\ events[i][2].completion # None
        BY DEF DeltasIn, IsDelta, IsNamed
    <2> HIDE DEF T
    <2>4. QED
        BY <1>2, <2>2, <2>3 DEF T
<1>5. /\ KnownAfter(events, k).prompt \in Tokens \cup {0}
      /\ KnownAfter(events, k).completion \in Tokens \cup {0}
    BY <1>3, <1>4, KnownIs
<1>6. KnownAfter(events, k) = [prompt |-> KnownAfter(events, k).prompt,
                               completion |-> KnownAfter(events, k).completion]
    BY <1>1, KnownStep
<1>7. Tokens \cup {0} \subseteq Nat
    BY ConnectorsAssumption
<1>8. QED
    BY <1>5, <1>6, <1>7 DEF Usage

(* One event: the counts that it adds and what it is translated to. *)
LEMMA ProcessAt ==
    ASSUME NEW events \in Seq(Event), NEW k \in Nat, k < Len(events), AnthropicEvent(events[k + 1])
    PROVE  process(KnownAfter(events, k), Parsed(events[k + 1]))
             = [transform |-> KnownAfter(events, k + 1), out |-> Translation(events, k + 1)]
<1> DEFINE event == events[k + 1]
           known == KnownAfter(events, k)
           after == KnownAfter(events, k + 1)
           parsed == Parsed(event)
           payload == Payload(parsed)
           name == event[1].value
           line == Last(event)
<1>1. event \in Event /\ k + 1 \in 1..Len(events)
    <2>1. k + 1 \in 1..Len(events)
        OBVIOUS
    <2>2. QED
        BY <2>1, CodesType
<1>2. /\ known = [prompt |-> known.prompt, completion |-> known.completion]
      /\ after = [prompt     |-> IF IsStart(event) THEN event[2].prompt ELSE known.prompt,
                  completion |-> IF IsDelta(event) THEN event[2].completion ELSE known.completion]
    BY KnownStep
<1>3. Translation(events, k + 1) =
         IF line.value # "json" THEN <<>>
         ELSE CASE name = "message_start"           -> <<chunk("role")>>
                [] name = "content_block_delta"     ->
                      IF line.text = None THEN <<>> ELSE <<chunk(line.text)>>
                [] name = "message_delta"           ->
                      <<chunk("finish"), usage_chunk(after)>>
                [] OTHER                            -> <<>>
    BY DEF Translation
<1> DEFINE counted == [known EXCEPT !.completion = OrElse(payload.completion, known.completion)]
           started == [known EXCEPT !.prompt = OrElse(payload.prompt, known.prompt)]
<1>4. process(known, parsed) =
        IF payload = None THEN [transform |-> known, out |-> <<>>]
        ELSE CASE parsed.event = "message_start" ->
                    [transform |-> started, out |-> <<chunk("role")>>]
               [] parsed.event = "content_block_delta" /\ payload.text # None ->
                    [transform |-> known, out |-> <<chunk(payload.text)>>]
               [] parsed.event = "message_delta" ->
                    [transform |-> counted, out |-> <<chunk("finish"), usage_chunk(counted)>>]
               [] OTHER -> [transform |-> known, out |-> <<>>]
    BY DEF process
<1>5. CASE Len(event) = 1
    <2>1. after = known
        BY <1>2, <1>5 DEF IsStart, IsDelta, IsNamed
    <2>2. payload = None \/ parsed.event = ""
        BY <1>1, <1>5, OneLine
    <2>3. line = event[1]
        BY <1>5 DEF Last
    <2> HIDE DEF known, after, parsed, payload, name, line, event, started, counted
    <2>4. process(known, parsed) = [transform |-> known, out |-> <<>>]
        <3>1. CASE payload = None
            BY <1>4, <3>1
        <3>2. CASE payload # None
            <4>1. parsed.event = ""
                BY <2>2, <3>2
            <4>2. QED
                BY <1>4, <3>2, <4>1
        <3>3. QED
            BY <3>1, <3>2
    <2>5. Translation(events, k + 1) = <<>>
        <3>1. CASE line.value # "json"
            BY <1>3, <3>1
        <3>2. CASE line.value = "json"
            <4>1. name = "json"
                BY <2>3, <3>2 DEF name
            <4>2. QED
                BY <1>3, <3>2, <4>1
        <3>3. QED
            BY <3>1, <3>2
    <2>6. QED
        BY <2>1, <2>4, <2>5 DEF known, after, parsed, event
<1>6. CASE Len(event) = 2 /\ event[1] = Name(event[1].value) /\ event[2].field = "data"
    <2>1. parsed.event = name /\ payload = IF event[2].value = "json" THEN event[2] ELSE None
        BY <1>1, <1>6, NameAndData
    <2>2. line = event[2] /\ event[2] \in LineType
        BY <1>1, <1>6, EventLen DEF Last
    <2>3. event[2] # None
        BY <2>2, StreamsAssumption
    <2>4. /\ IsNamed(event, "message_start") <=> name = "message_start" /\ event[2].value = "json"
          /\ IsNamed(event, "message_delta") <=> name = "message_delta" /\ event[2].value = "json"
        <3>1. Name("message_start").value = "message_start" /\ Name("message_delta").value = "message_delta"
            BY DEF Name, Line
        <3>2. name = "message_start" => event[1] = Name("message_start")
            BY <1>6
        <3>3. name = "message_delta" => event[1] = Name("message_delta")
            BY <1>6
        <3>4. QED
            BY <1>6, <3>1, <3>2, <3>3 DEF IsNamed
    <2> DEFINE a == known.prompt
               b == known.completion
    <2>5. known = [prompt |-> a, completion |-> b]
        BY <1>2
    <2> HIDE DEF a, b, known
    <2>6. /\ counted = [prompt |-> a, completion |-> OrElse(payload.completion, b)]
          /\ started = [prompt |-> OrElse(payload.prompt, a), completion |-> b]
        <3> HIDE DEF payload
        <3>1. known.prompt = a /\ known.completion = b
            BY <2>5
        <3>2. QED
            BY <2>5, <3>1
    <2>7. after = [prompt |-> IF IsStart(event) THEN event[2].prompt ELSE a,
                   completion |-> IF IsDelta(event) THEN event[2].completion ELSE b]
        BY <1>2 DEF a, b
    <2> HIDE DEF after, parsed, payload, name, line, event, started, counted
    <2>8. CASE event[2].value # "json"
        <3>1. payload = None /\ ~ IsStart(event) /\ ~ IsDelta(event)
            BY <2>1, <2>8 DEF IsStart, IsDelta, IsNamed
        <3>2. after = known
            BY <2>5, <2>7, <3>1
        <3>3. Translation(events, k + 1) = <<>>
            BY <1>3, <2>2, <2>8
        <3>4. process(known, parsed) = [transform |-> known, out |-> <<>>]
            BY <1>4, <3>1
        <3>5. QED
            BY <3>2, <3>3, <3>4 DEF known, after, parsed, event
    <2>9. CASE event[2].value = "json"
        <3>0. payload = event[2] /\ payload # None /\ line = payload /\ line.value = "json"
            BY <2>1, <2>2, <2>3, <2>9
        <3>1. CASE name = "message_start"
            <4>1. ~ IsDelta(event) /\ (IsStart(event) <=> payload.prompt # None)
                BY <2>4, <2>9, <3>0, <3>1 DEF IsStart, IsDelta
            <4>2. after = started
                BY <2>6, <2>7, <3>0, <4>1 DEF OrElse
            <4>3. process(known, parsed) = [transform |-> started, out |-> <<chunk("role")>>]
                BY <1>4, <2>1, <3>0, <3>1
            <4>4. Translation(events, k + 1) = <<chunk("role")>>
                BY <1>3, <3>0, <3>1
            <4>5. QED
                BY <4>2, <4>3, <4>4 DEF known, after, parsed, event
        <3>2. CASE name = "message_delta"
            <4>1. ~ IsStart(event) /\ (IsDelta(event) <=> payload.completion # None)
                BY <2>4, <2>9, <3>0, <3>2 DEF IsStart, IsDelta
            <4>2. after = counted
                BY <2>6, <2>7, <3>0, <4>1 DEF OrElse
            <4>3. process(known, parsed)
                    = [transform |-> counted, out |-> <<chunk("finish"), usage_chunk(counted)>>]
                BY <1>4, <2>1, <3>0, <3>2
            <4>4. Translation(events, k + 1) = <<chunk("finish"), usage_chunk(after)>>
                BY <1>3, <3>0, <3>2
            <4>5. QED
                BY <4>2, <4>3, <4>4 DEF known, after, parsed, event
        <3>3. CASE name # "message_start" /\ name # "message_delta"
            <4>1. ~ IsStart(event) /\ ~ IsDelta(event)
                BY <2>4, <3>3 DEF IsStart, IsDelta
            <4>2. after = known
                BY <2>5, <2>7, <4>1
            <4>3. CASE name = "content_block_delta" /\ payload.text # None
                <5>1. process(known, parsed) = [transform |-> known, out |-> <<chunk(payload.text)>>]
                    BY <1>4, <2>1, <3>0, <4>3
                <5>2. Translation(events, k + 1) = <<chunk(line.text)>>
                    BY <1>3, <3>0, <4>3
                <5>3. QED
                    BY <3>0, <4>2, <5>1, <5>2 DEF known, after, parsed, event
            <4>4. CASE ~ (name = "content_block_delta" /\ payload.text # None)
                <5>1. process(known, parsed) = [transform |-> known, out |-> <<>>]
                    BY <1>4, <2>1, <3>0, <3>3, <4>4
                <5>2. Translation(events, k + 1) = <<>>
                    BY <1>3, <3>0, <3>3, <4>4
                <5>3. QED
                    BY <4>2, <5>1, <5>2 DEF known, after, parsed, event
            <4>5. QED
                BY <4>3, <4>4
        <3>4. QED
            BY <3>1, <3>2, <3>3
    <2>10. QED
        BY <2>8, <2>9
<1>7. QED
    BY <1>5, <1>6 DEF AnthropicEvent

(* The chunks that the adapter makes are events, *)
LEMMA JsonEvent ==
    ASSUME NEW text \in STRING \cup {None}, NEW prompt \in Tokens \cup {0, None},
           NEW completion \in Tokens \cup {0, None}
    PROVE  <<Json(text, prompt, completion)>> \in Event
<1>1. Json(text, prompt, completion) \in LineType
    BY StringsAssumption DEF Json, Line, LineType
<1> DEFINE line == Json(text, prompt, completion)
<1> HIDE DEF line
<1>2. line \in LineType
    BY <1>1 DEF line
<1>3. <<line>> \in Seq(LineType) /\ <<line>> # <<>>
    BY <1>2
<1>4. QED
    BY <1>3 DEF Event, line

(* and so is its end marker. *)
LEMMA DoneEvent == DONE_MARKER \in Event
<1> DEFINE line == Data("[DONE]")
<1>1. line \in LineType
    BY StringsAssumption DEF Data, Line, LineType
<1> HIDE DEF line
<1>2. <<line>> \in Seq(LineType) /\ <<line>> # <<>>
    BY <1>1
<1>3. QED
    BY <1>2 DEF Event, line, DONE_MARKER

(* So the translation of an event is a list of events. *)
LEMMA TranslationType ==
    ASSUME NEW events \in Seq(Event), NEW k \in 1..Len(events)
    PROVE  Translation(events, k) \in Seq(Event)
<1> DEFINE known == KnownAfter(events, k)
           line == Last(events[k])
           name == events[k][1].value
<1>1. line \in LineType
    <2>1. /\ Len(events[k]) \in Nat /\ Len(events[k]) >= 1
          /\ \A j \in 1..Len(events[k]) : events[k][j] \in LineType
        BY EventLen, CodesType
    <2>2. Len(events[k]) \in 1..Len(events[k])
        BY <2>1
    <2>3. QED
        BY <2>1, <2>2 DEF Last
<1>2. known.prompt \in Tokens \cup {0, None} /\ known.completion \in Tokens \cup {0, None}
    <2>1. k \in 0..Len(events)
        OBVIOUS
    <2>2. known.prompt \in Tokens \cup {0} /\ known.completion \in Tokens \cup {0}
        BY <2>1, KnownType
    <2>3. QED
        BY <2>2
<1>3. line.text \in STRING \cup {None}
    BY <1>1 DEF LineType
<1>4. Translation(events, k) =
         IF line.value # "json" THEN <<>>
         ELSE CASE name = "message_start"           -> <<chunk("role")>>
                [] name = "content_block_delta"     ->
                      IF line.text = None THEN <<>> ELSE <<chunk(line.text)>>
                [] name = "message_delta"           ->
                      <<chunk("finish"), usage_chunk(known)>>
                [] OTHER                            -> <<>>
    BY DEF Translation
<1> HIDE DEF known, line, name
<1>5. /\ chunk("role") \in Event /\ chunk("finish") \in Event /\ chunk(line.text) \in Event
      /\ usage_chunk(known) \in Event
    <2>1. "role" \in STRING \cup {None} /\ "finish" \in STRING \cup {None} /\ None \in STRING \cup {None}
          /\ None \in Tokens \cup {0, None}
        BY StringsAssumption
    <2>2. chunk("role") \in Event /\ chunk("finish") \in Event /\ chunk(line.text) \in Event
        BY <1>3, <2>1, JsonEvent DEF chunk
    <2>3. usage_chunk(known) \in Event
        BY <1>2, <2>1, JsonEvent DEF usage_chunk
    <2>4. QED
        BY <2>2, <2>3
<1> DEFINE role == chunk("role")
           finish == chunk("finish")
           text == chunk(line.text)
           counts == usage_chunk(known)
<1> HIDE DEF role, finish, text, counts
<1>6. <<>> \in Seq(Event) /\ <<role>> \in Seq(Event) /\ <<text>> \in Seq(Event)
      /\ <<finish, counts>> \in Seq(Event)
    BY <1>5 DEF role, finish, text, counts
<1>7. CASE line.value # "json"
    BY <1>4, <1>6, <1>7
<1>8. CASE line.value = "json"
    <2>1. CASE name = "message_start"
        BY <1>4, <1>6, <1>8, <2>1 DEF role
    <2>2. CASE name = "content_block_delta"
        BY <1>4, <1>6, <1>8, <2>2 DEF text
    <2>3. CASE name = "message_delta"
        BY <1>4, <1>6, <1>8, <2>3 DEF finish, counts
    <2>4. CASE name # "message_start" /\ name # "content_block_delta" /\ name # "message_delta"
        BY <1>4, <1>6, <1>8, <2>4
    <2>5. QED
        BY <2>1, <2>2, <2>3, <2>4
<1>9. QED
    BY <1>7, <1>8

(* f is the function that processed is defined by. *)
MadeFrom(f, transform, events, k) ==
    IF k = 0 THEN [transform |-> transform, out |-> <<>>]
    ELSE [transform |-> process(f[k - 1].transform, events[k]).transform,
          out |-> f[k - 1].out \o process(f[k - 1].transform, events[k]).out]

Makes(f, transform, events, n) == f = [k \in 0..n |-> MadeFrom(f, transform, events, k)]

(* The recursion of processed has a solution of every length. *)
LEMMA MakesExists ==
    ASSUME NEW transform, NEW events
    PROVE  \A n \in Nat : \E f : Makes(f, transform, events, n)
<1> DEFINE P == {n \in Nat : \E f : Makes(f, transform, events, n)}
<1>1. 0 \in P
    <2> DEFINE f == [k \in 0..0 |-> [transform |-> transform, out |-> <<>>]]
    <2>1. \A k \in 0..0 : f[k] = MadeFrom(f, transform, events, k)
        BY DEF MadeFrom
    <2>2. Makes(f, transform, events, 0)
        BY <2>1 DEF Makes
    <2>3. QED
        BY <2>2
<1>2. ASSUME NEW n \in Nat, n \in P
      PROVE  n + 1 \in P
    <2>1. PICK f : Makes(f, transform, events, n)
        BY <1>2
    <2> DEFINE g == [k \in 0..(n + 1) |-> IF k = n + 1 THEN MadeFrom(f, transform, events, k) ELSE f[k]]
    <2>2. ASSUME NEW k \in 0..(n + 1)
          PROVE  g[k] = MadeFrom(g, transform, events, k)
        <3>1. g[k] = MadeFrom(f, transform, events, k)
            <4>1. CASE k = n + 1
                BY <4>1
            <4>2. CASE k # n + 1
                <5>1. k \in 0..n /\ g[k] = f[k]
                    BY <4>2
                <5>2. f[k] = MadeFrom(f, transform, events, k)
                    BY <2>1, <5>1 DEF Makes
                <5>3. QED
                    BY <5>1, <5>2
            <4>3. QED
                BY <4>1, <4>2
        <3>2. k # 0 => f[k - 1] = g[k - 1]
            OBVIOUS
        <3> HIDE DEF g
        <3>3. MadeFrom(f, transform, events, k) = MadeFrom(g, transform, events, k)
            BY <3>2 DEF MadeFrom
        <3>4. QED
            BY <3>1, <3>3
    <2>3. Makes(g, transform, events, n + 1)
        BY <2>2 DEF Makes
    <2>4. QED
        BY <2>3
<1> HIDE DEF P
<1>3. \A n \in Nat : n \in P
    BY <1>1, <1>2, Induction
<1>4. QED
    BY <1>3 DEF P

(* processed is the last value of such a solution. *)
LEMMA ProcessedIs ==
    ASSUME NEW transform, NEW events, Len(events) \in Nat
    PROVE  \E f : Makes(f, transform, events, Len(events)) /\ processed(transform, events) = f[Len(events)]
<1> DEFINE f == CHOOSE g : g = [k \in 0..Len(events) |-> MadeFrom(g, transform, events, k)]
<1>1. processed(transform, events) = f[Len(events)]
    BY DEF processed, MadeFrom
<1>2. \E g : g = [k \in 0..Len(events) |-> MadeFrom(g, transform, events, k)]
    BY MakesExists DEF Makes
<1>3. f = [k \in 0..Len(events) |-> MadeFrom(f, transform, events, k)]
    BY <1>2
<1> HIDE DEF f
<1>4. Makes(f, transform, events, Len(events))
    BY <1>3 DEF Makes
<1>5. QED
    BY <1>1, <1>4

(* What the first k events are translated to. *)
Translations(events) == [k \in 1..Len(events) |-> Translation(events, k)]

(* The translations of events, event by event. *)
LEMMA TranslationsType ==
    ASSUME NEW events \in Seq(Event)
    PROVE  /\ Translations(events) \in Seq(Seq(Event)) /\ Len(Translations(events)) = Len(events)
           /\ \A k \in 1..Len(events) : Translations(events)[k] = Translation(events, k)
<1>1. Len(events) \in Nat /\ \A k \in 1..Len(events) : Translation(events, k) \in Seq(Event)
    BY TranslationType
<1>2. Translations(events) \in [1..Len(events) -> Seq(Event)]
    BY <1>1 DEF Translations
<1>3. QED
    BY <1>1, <1>2 DEF Translations

(* Concatenation is associative. *)
LEMMA Associates ==
    ASSUME NEW S, NEW s \in Seq(S), NEW t \in Seq(S), NEW u \in Seq(S)
    PROVE  (s \o t) \o u = s \o (t \o u) /\ t \o u \in Seq(S)
    OBVIOUS

(* A run of events: the counts known after it, and what is added to what   *)
(* the events before it were translated to.                                *)
LEMMA ProcessedAt ==
    ASSUME NEW events \in Seq(Event), \A i \in 1..Len(events) : AnthropicEvent(events[i]),
           NEW k \in Nat, NEW m \in Nat, k <= m, m <= Len(events)
    PROVE  LET made == processed(KnownAfter(events, k), ParsedFrom(events, k, m))
               upto(j) == Upto(Translations(events), j)
           IN  /\ made.transform = KnownAfter(events, m)
               /\ made.out \in Seq(Event)
               /\ upto(k) \o made.out = upto(m)
<1> DEFINE transform == KnownAfter(events, k)
           taken == ParsedFrom(events, k, m)
           z == Translations(events)
           n == m - k
<1>1. n \in Nat /\ Len(taken) = n /\ \A i \in 1..n : taken[i] = Parsed(events[k + i])
    <2>1. n \in Nat
        OBVIOUS
    <2> HIDE DEF n
    <2> DEFINE g == [i \in 1..n |-> Parsed(events[k + i])]
               S == {Parsed(events[k + i]) : i \in 1..n}
    <2>2. g \in [1..n -> S]
        OBVIOUS
    <2>3. Len(g) = n
        <3> HIDE DEF g, S
        <3>1. QED
            BY <2>1, <2>2
    <2>4. taken = g
        BY DEF ParsedFrom, n
    <2>5. QED
        BY <2>1, <2>3, <2>4
<1>2. z \in Seq(Seq(Event)) /\ Len(z) = Len(events) /\ Len(events) \in Nat
    BY TranslationsType
<1>3. PICK f : Makes(f, transform, taken, n) /\ processed(transform, taken) = f[n]
    <2> HIDE DEF transform, taken, n
    <2>1. Len(taken) \in Nat
        BY <1>1
    <2>2. QED
        BY <1>1, <2>1, ProcessedIs
<1> DEFINE Holds(i) == /\ f[i].transform = KnownAfter(events, k + i)
                       /\ f[i].out \in Seq(Event)
                       /\ Upto(z, k) \o f[i].out = Upto(z, k + i)
           P == {i \in Nat : i <= n => Holds(i)}
<1>4. \A i \in 0..n : f[i] = MadeFrom(f, transform, taken, i)
    <2> HIDE DEF transform, taken, n
    <2>1. QED
        BY <1>3 DEF Makes
<1>5. Upto(z, k) \in Seq(Event)
    <2>1. k \in 0..Len(z)
        BY <1>2
    <2> HIDE DEF z
    <2>2. QED
        BY <1>2, <2>1, UptoType
<1>6. 0 \in P
    <2>1. f[0] = [transform |-> transform, out |-> <<>>]
        <3> HIDE DEF transform, taken, n
        <3>1. 0 \in 0..n
            BY <1>1
        <3>2. QED
            BY <1>4, <3>1 DEF MadeFrom
    <2>2. k + 0 = k
        OBVIOUS
    <2> DEFINE u == Upto(z, k)
    <2>3. u \in Seq(Event)
        BY <1>5
    <2>4. u \o <<>> = u /\ <<>> \in Seq(Event)
        <3> HIDE DEF u
        <3>1. QED
            BY <2>3
    <2>5. Holds(0)
        BY <2>1, <2>2, <2>4
    <2> HIDE DEF Holds
    <2>6. QED
        BY <2>5
<1>7. ASSUME NEW i \in Nat, i \in P
      PROVE  i + 1 \in P
    <2>1. SUFFICES ASSUME i + 1 <= n
                   PROVE  Holds(i + 1)
        <3> HIDE DEF Holds
        <3>1. QED
            OBVIOUS
    <2> DEFINE j == k + i
    <2>2. /\ i <= n /\ i + 1 \in 0..n /\ i + 1 # 0 /\ (i + 1) - 1 = i /\ i + 1 \in 1..n
          /\ j \in Nat /\ j < Len(events) /\ k + (i + 1) = j + 1 /\ j + 1 \in 1..Len(events)
        BY <1>1, <1>2, <2>1
    <2>3. Holds(i)
        <3> HIDE DEF Holds
        <3>1. QED
            BY <1>7, <2>2
    <2> HIDE DEF j, n
    <2>4. /\ f[i].transform = KnownAfter(events, j)
          /\ f[i].out \in Seq(Event)
          /\ Upto(z, k) \o f[i].out = Upto(z, j)
        BY <2>3 DEF j
    <2>5. process(KnownAfter(events, j), Parsed(events[j + 1]))
             = [transform |-> KnownAfter(events, j + 1), out |-> Translation(events, j + 1)]
        BY <2>2, ProcessAt
    <2>6. taken[i + 1] = Parsed(events[j + 1])
        BY <1>1, <2>2
    <2> HIDE DEF taken, transform
    <2>7. f[i + 1] = [transform |-> process(f[i].transform, taken[i + 1]).transform,
                      out |-> f[i].out \o process(f[i].transform, taken[i + 1]).out]
        BY <1>4, <2>2 DEF MadeFrom
    <2> DEFINE t == Translation(events, j + 1)
    <2>8. f[i + 1].transform = KnownAfter(events, j + 1) /\ f[i + 1].out = f[i].out \o t
        <3> DEFINE after == KnownAfter(events, j + 1)
        <3>1. process(f[i].transform, taken[i + 1]) = [transform |-> after, out |-> t]
            BY <2>4, <2>5, <2>6
        <3> HIDE DEF after, t
        <3>2. QED
            BY <2>7, <3>1 DEF after
    <2>9. t \in Seq(Event) /\ t = z[j + 1]
        BY <2>2, TranslationType, TranslationsType
    <2> HIDE DEF t, z
    <2>10. Upto(z, j + 1) = Upto(z, j) \o t
        BY <1>2, <2>2, <2>9, UptoStep
    <2> DEFINE u == Upto(z, k)
               o == f[i].out
    <2>11. (u \o o) \o t = u \o (o \o t) /\ o \o t \in Seq(Event)
        <3>1. u \in Seq(Event) /\ o \in Seq(Event) /\ t \in Seq(Event)
            BY <1>5, <2>4, <2>9
        <3> HIDE DEF u, o
        <3>2. QED
            BY <3>1, Associates
    <2>12. QED
        BY <2>2, <2>4, <2>8, <2>10, <2>11
<1> HIDE DEF P, Holds
<1>8. \A i \in Nat : i \in P
    BY <1>6, <1>7, Induction
<1>9. Holds(n)
    BY <1>1, <1>8 DEF P
<1>10. k + n = m
    OBVIOUS
<1>11. QED
    <2> HIDE DEF n
    <2>1. QED
        BY <1>3, <1>9, <1>10 DEF Holds
-----------------------------------------------------------------------------
(***************************************************************************)
(* The observer, when the first c bytes of the events and of the lines     *)
(* after them have gone by: it has taken the first k events, and none of   *)
(* them had usage; or it has found the first that has.                     *)
(***************************************************************************)
UsageOf(event) == parse_chunk_usage(Parsed(event))

ObserverFields == {"provider", "model", "buffer", "found_usage"}

Searching(events, rest, c, o, cost) ==
    /\ cost = None
    /\ \E k \in 0..Len(events) :
          /\ Pos(events, k) <= c /\ StopsAt(events, c, k)
          /\ o.buffer = SubSeq(TextOf(events, rest), Pos(events, k) + 1, c)
          /\ \A j \in 1..k : Decodes(events[j]) /\ UsageOf(events[j]) = None

Found(events, c, o, cost) ==
    \E k \in 1..Len(events) :
       /\ Pos(events, k) <= c
       /\ UsageOf(events[k]) # None /\ cost = compute(o.provider, o.model, UsageOf(events[k]))
       /\ \A j \in 1..k : Decodes(events[j])
       /\ \A j \in 1..(k - 1) : UsageOf(events[j]) = None

Observed(events, rest, c, o, cost) ==
    /\ DOMAIN o = ObserverFields /\ o.found_usage \in BOOLEAN
    /\ IF o.found_usage THEN Found(events, c, o, cost) ELSE Searching(events, rest, c, o, cost)

(* Forward: the next bytes go by. *)
LEMMA ForwardOK ==
    ASSUME NEW events \in Seq(Event), NEW rest \in Seq(LineType),
           NEW c \in Nat, NEW d \in Nat, c <= d, d <= Len(TextOf(events, rest)),
           client = SubSeq(TextOf(events, rest), 1, c),
           Observed(events, rest, c, observer, charged),
           Forward(SubSeq(TextOf(events, rest), c + 1, d))
    PROVE  /\ client' = SubSeq(TextOf(events, rest), 1, d)
           /\ Observed(events, rest, d, observer', charged')
           /\ observer'.provider = observer.provider /\ observer'.model = observer.model
<1> DEFINE text == TextOf(events, rest)
           n == Len(events)
           bytes == SubSeq(text, c + 1, d)
<1>1. text \in Seq(ByteType) /\ n \in Nat /\ d <= Len(text) /\ \A j \in 0..n : Pos(events, j) \in Nat
    BY StreamAt
<1>2. client' = SubSeq(text, 1, d)
    <2> HIDE DEF text
    <2>1. 0 \in Nat /\ 0 <= c /\ 0 + 1 = 1
        OBVIOUS
    <2>2. SubSeq(text, 0 + 1, c) \o SubSeq(text, c + 1, d) = SubSeq(text, 0 + 1, d)
        BY <1>1, <2>1, PartsMeet
    <2>3. client' = client \o bytes
        BY DEF Forward, text
    <2>4. QED
        BY <2>1, <2>2, <2>3 DEF text
<1>3. CASE observer.found_usage
    <2>1. observer' = observer /\ charged' = charged
        BY <1>3 DEF Forward
    <2>2. PICK k \in 1..n : /\ Pos(events, k) <= c
                            /\ UsageOf(events[k]) # None
                            /\ charged = compute(observer.provider, observer.model, UsageOf(events[k]))
                            /\ \A j \in 1..k : Decodes(events[j])
                            /\ \A j \in 1..(k - 1) : UsageOf(events[j]) = None
        BY <1>3 DEF Observed, Found
    <2>3. Pos(events, k) <= d
        <3>1. Pos(events, k) \in Nat
            BY <1>1
        <3>2. QED
            BY <2>2, <3>1
    <2>4. Found(events, d, observer, charged)
        BY <2>2, <2>3 DEF Found
    <2>5. Observed(events, rest, d, observer, charged)
        BY <1>3, <2>4 DEF Observed
    <2>6. QED
        BY <1>2, <2>1, <2>5
<1>4. CASE ~ observer.found_usage
    <2>1. Searching(events, rest, c, observer, charged) /\ DOMAIN observer = ObserverFields
        BY <1>4 DEF Observed
    <2>2. PICK k \in 0..n : /\ Pos(events, k) <= c /\ StopsAt(events, c, k)
                            /\ observer.buffer = SubSeq(text, Pos(events, k) + 1, c)
                            /\ \A j \in 1..k : Decodes(events[j]) /\ UsageOf(events[j]) = None
        BY <2>1 DEF Searching
    <2> DEFINE p == Pos(events, k)
    <2>3. feed(observer.buffer, bytes) = SubSeq(text, p + 1, d) /\ p \in Nat /\ p <= d
        <3>1. p \in Nat /\ p <= c
            BY <1>1, <2>2
        <3> HIDE DEF p, text
        <3>2. SubSeq(text, p + 1, c) \o SubSeq(text, c + 1, d) = SubSeq(text, p + 1, d)
            BY <1>1, <3>1, PartsMeet
        <3>3. observer.buffer = SubSeq(text, p + 1, c)
            BY <2>2 DEF p
        <3>4. p <= d
            BY <3>1
        <3>5. QED
            BY <3>1, <3>2, <3>3, <3>4 DEF feed
    <2>4. PICK m \in k..n :
             /\ Pos(events, m) <= d /\ StopsAt(events, d, m)
             /\ \A j \in (k + 1)..m : Decodes(events[j])
             /\ pulled(SubSeq(text, p + 1, d))
                  = [events |-> ParsedFrom(events, k, m), buffer |-> SubSeq(text, Pos(events, m) + 1, d)]
        BY <2>3, PulledAt
    <2> DEFINE seen == pulled(feed(observer.buffer, bytes))
               taken == ParsedFrom(events, k, m)
               left == SubSeq(text, Pos(events, m) + 1, d)
               l == m - k
               usages == {i \in 1..l : UsageOf(events[k + i]) # None}
    <2>5. l \in Nat /\ k \in Nat /\ m \in Nat /\ k + l = m /\ m \in 0..n
        BY <1>1
    <2>6. Len(taken) = l /\ \A i \in 1..l : taken[i] = Parsed(events[k + i])
        <3> HIDE DEF l
        <3> DEFINE g == [i \in 1..l |-> Parsed(events[k + i])]
                   S == {Parsed(events[k + i]) : i \in 1..l}
        <3>1. g \in [1..l -> S]
            OBVIOUS
        <3>2. Len(g) = l
            <4> HIDE DEF g, S
            <4>1. QED
                BY <2>5, <3>1
        <3>3. taken = g
            BY DEF ParsedFrom, l
        <3>4. QED
            BY <3>2, <3>3
    <2>7. seen.events = taken /\ seen.buffer = left
        <3>1. seen = [events |-> taken, buffer |-> left]
            BY <2>3, <2>4
        <3> HIDE DEF seen, taken, left
        <3>2. QED
            BY <3>1
    <2>8. {i \in 1..Len(seen.events) : parse_chunk_usage(seen.events[i]) # None} = usages
        <3> HIDE DEF seen, taken, l
        <3>1. QED
            BY <2>6, <2>7 DEF UsageOf
    <2>9. /\ observer' = [observer EXCEPT !.buffer = IF usages = {} THEN seen.buffer ELSE <<>>,
                                          !.found_usage = usages # {}]
          /\ charged' = IF usages = {} THEN charged ELSE CostOf(seen.events[Min(usages)])
        <3> DEFINE U == {i \in 1..Len(seen.events) : parse_chunk_usage(seen.events[i]) # None}
        <3>1. /\ observer' = [observer EXCEPT !.buffer = IF U = {} THEN seen.buffer ELSE <<>>,
                                              !.found_usage = U # {}]
              /\ charged' = IF U = {} THEN charged ELSE CostOf(seen.events[Min(U)])
            BY <1>4, Zenon DEF Forward
        <3> HIDE DEF seen, usages, U
        <3>2. U = usages
            BY <2>8 DEF U
        <3>3. QED
            BY <3>1, <3>2
    <2> HIDE DEF seen, usages, taken, left, l
    <2>10. /\ DOMAIN observer' = ObserverFields
           /\ observer'.provider = observer.provider /\ observer'.model = observer.model
           /\ observer'.buffer = IF usages = {} THEN left ELSE <<>>
           /\ observer'.found_usage = (usages # {})
        BY <2>1, <2>7, <2>9 DEF ObserverFields
    <2>11. CASE usages = {}
        <3>1. ASSUME NEW j \in 1..m
              PROVE  Decodes(events[j]) /\ UsageOf(events[j]) = None
            <4>1. CASE j \in 1..k
                BY <2>2, <4>1
            <4>2. CASE j \notin 1..k
                <5> DEFINE i == j - k
                <5>1. i \in 1..l /\ k + i = j /\ j \in (k + 1)..m
                    BY <2>5, <4>2 DEF l
                <5> HIDE DEF i
                <5>2. UsageOf(events[k + i]) = None
                    BY <2>11, <5>1 DEF usages
                <5>3. QED
                    BY <2>4, <5>1, <5>2
            <4>3. QED
                BY <4>1, <4>2
        <3>2. charged' = None /\ observer'.buffer = left /\ observer'.found_usage = FALSE
            BY <2>1, <2>9, <2>10, <2>11 DEF Searching
        <3>3. Searching(events, rest, d, observer', charged')
            BY <2>4, <2>5, <3>1, <3>2 DEF Searching, left
        <3>4. Observed(events, rest, d, observer', charged')
            BY <2>10, <3>2, <3>3 DEF Observed
        <3>5. QED
            BY <1>2, <2>10, <3>4
    <2>12. CASE usages # {}
        <3> DEFINE u == Min(usages)
                   j == k + u
        <3>1. u \in usages /\ \A i \in usages : u <= i
            <4>1. usages \subseteq Nat
                BY DEF usages
            <4>2. QED
                BY <2>12, <4>1, MinIs
        <3>2. u \in 1..l /\ UsageOf(events[k + u]) # None
            BY <3>1 DEF usages
        <3> HIDE DEF u
        <3>3. u \in Nat /\ j \in 1..n /\ j \in 1..m /\ j \in Nat /\ m <= n
            BY <1>1, <2>5, <3>2 DEF l
        <3>4. charged' = compute(observer'.provider, observer'.model, UsageOf(events[j]))
            <4>1. charged' = compute(observer.provider, observer.model, parse_chunk_usage(seen.events[u]))
                BY <2>9, <2>12 DEF CostOf, u
            <4>2. seen.events[u] = Parsed(events[j])
                BY <2>6, <2>7, <3>2
            <4>3. QED
                BY <2>10, <4>1, <4>2 DEF UsageOf
        <3>5. ASSUME NEW i \in 1..j
              PROVE  Decodes(events[i])
            <4>1. i \in 1..k \/ i \in (k + 1)..m
                BY <2>5, <3>3
            <4>2. QED
                BY <2>2, <2>4, <4>1
        <3>6. ASSUME NEW i \in 1..(j - 1)
              PROVE  UsageOf(events[i]) = None
            <4>1. CASE i \in 1..k
                BY <2>2, <4>1
            <4>2. CASE i \notin 1..k
                <5> DEFINE h == i - k
                <5>1. h \in 1..l /\ k + h = i /\ ~ (u <= h)
                    BY <2>5, <3>2, <3>3, <4>2
                <5> HIDE DEF h
                <5>2. h \notin usages
                    BY <3>1, <5>1
                <5>3. QED
                    BY <5>1, <5>2 DEF usages
            <4>3. QED
                BY <4>1, <4>2
        <3>7. Pos(events, j) <= d
            <4> DEFINE z == Codes(events)
            <4>1. z \in Seq(Seq(ByteType)) /\ m <= Len(z) /\ j <= m /\ j \in 0..n
                BY <3>3, <2>5, CodesType
            <4> HIDE DEF z, j
            <4>2. Off(z, j) <= Off(z, m)
                BY <2>5, <3>3, <4>1, UptoGrows
            <4>3. Pos(events, j) <= Pos(events, m) /\ Pos(events, j) \in Nat /\ Pos(events, m) \in Nat
                BY <1>1, <2>5, <4>1, <4>2 DEF Pos, z
            <4>4. QED
                BY <2>4, <4>3
        <3>8. UsageOf(events[j]) # None
            BY <3>2
        <3> HIDE DEF j
        <3>9. Found(events, d, observer', charged')
            BY <3>3, <3>4, <3>5, <3>6, <3>7, <3>8 DEF Found
        <3>10. observer'.found_usage = TRUE
            BY <2>10, <2>12
        <3>11. Observed(events, rest, d, observer', charged')
            BY <2>10, <3>9, <3>10 DEF Observed
        <3>12. QED
            BY <1>2, <2>10, <3>11
    <2>13. QED
        BY <2>11, <2>12
<1>5. QED
    BY <1>3, <1>4
-----------------------------------------------------------------------------
(***************************************************************************)
(* The events that a parser can get at, and the response.                  *)
(***************************************************************************)
LEMMA ReadableIs ==
    ASSUME NEW events \in Seq(Event)
    PROVE  LET readable == Readable(events)
               n == Len(readable)
           IN  /\ readable \in Seq(Event) /\ n \in Nat /\ n <= Len(events)
               /\ \A i \in 1..n : readable[i] = events[i] /\ Decodes(events[i])
               /\ n < Len(events) => ~ Decodes(events[n + 1])
<1> DEFINE readable == Readable(events)
           n == Len(readable)
           stuck == {i \in 1..Len(events) : ~ Decodes(events[i])}
<1>1. readable = IF stuck = {} THEN events ELSE SubSeq(events, 1, Min(stuck) - 1)
    BY DEF Readable, Decodes
<1>2. Len(events) \in Nat
    OBVIOUS
<1>3. CASE stuck = {}
    <2>1. readable = events
        BY <1>1, <1>3
    <2>2. \A i \in 1..Len(events) : Decodes(events[i])
        BY <1>3
    <2> HIDE DEF readable
    <2>3. QED
        BY <1>2, <2>1, <2>2 DEF readable
<1>4. CASE stuck # {}
    <2> DEFINE s == Min(stuck)
               m == s - 1
    <2>1. stuck \subseteq Nat /\ \A i \in stuck : i \in 1..Len(events)
        BY <1>2
    <2>2. s \in stuck /\ \A i \in stuck : s <= i
        <3> HIDE DEF stuck
        <3>1. QED
            BY <1>4, <2>1, MinIs
    <2>3. s \in 1..Len(events) /\ ~ Decodes(events[s])
        BY <2>2
    <2> HIDE DEF s
    <2>4. m \in Nat /\ m < Len(events) /\ m + 1 = s
        BY <1>2, <2>3
    <2>5. readable = SubSeq(events, 1, m)
        BY <1>1, <1>4 DEF s
    <2> HIDE DEF m
    <2>6. /\ SubSeq(events, 1, m) \in Seq(Event) /\ Len(SubSeq(events, 1, m)) = m
          /\ \A i \in 1..m : SubSeq(events, 1, m)[i] = events[i]
        BY <2>4
    <2>7. ASSUME NEW i \in 1..m
          PROVE  Decodes(events[i])
        <3>1. i \in 1..Len(events) /\ ~ (s <= i)
            BY <1>2, <2>4
        <3>2. i \notin stuck
            BY <2>2, <3>1
        <3>3. QED
            BY <3>1, <3>2
    <2> HIDE DEF readable, stuck
    <2>8. QED
        BY <2>3, <2>4, <2>5, <2>6, <2>7 DEF readable
<1>5. QED
    BY <1>3, <1>4

Unended(script) == IF script.adapted THEN <<>> ELSE script.rest

(* The parts of a body. *)
LEMMA ScriptFacts ==
    ASSUME NEW script \in Script
    PROVE  /\ script.adapted \in BOOLEAN /\ script.whole \in BOOLEAN
           /\ script.events \in Seq(Event) /\ script.rest \in Seq(LineType)
           /\ Unended(script) \in Seq(LineType)
           /\ Bytes(script) = TextOf(script.events, script.rest)
<1>1. /\ script.adapted \in BOOLEAN /\ script.whole \in BOOLEAN
      /\ script.events \in Seq(Event) /\ script.rest \in Seq(LineType)
    BY DEF Script
<1>2. <<>> \in Seq(LineType)
    OBVIOUS
<1>3. QED
    BY <1>1, <1>2 DEF Unended, Bytes, TextOf

(* The response that a body stands for: its own events, or their           *)
(* translations in order and the end marker.                               *)
LEMMA ResponseIs ==
    ASSUME NEW script \in Script
    PROVE  LET response == ResponseTo(script)
               readable == Readable(script.events)
               z == Translations(readable)
           IN  /\ response \in Seq(Event)
               /\ ResponseBytes(script) = TextOf(response, Unended(script))
               /\ ~ script.adapted => response = script.events
               /\ script.adapted =>
                     /\ Len(response) = Off(z, Len(readable)) + 1
                     /\ response[Len(response)] = DONE_MARKER
                     /\ \A k \in 0..Len(readable) :
                           /\ Off(z, k) \in Nat /\ Off(z, k) <= Len(response)
                           /\ SubSeq(response, 1, Off(z, k)) = Upto(z, k)
<1> DEFINE response == ResponseTo(script)
           readable == Readable(script.events)
           z == Translations(readable)
<1>1. script.events \in Seq(Event) /\ script.rest \in Seq(LineType) /\ script.adapted \in BOOLEAN
    BY ScriptFacts
<1>2. CASE ~ script.adapted
    <2>1. response = script.events
        BY <1>2 DEF ResponseTo
    <2>2. ResponseBytes(script) = TextOf(response, Unended(script))
        BY <1>2 DEF ResponseBytes, TextOf, Unended
    <2>3. QED
        BY <1>1, <1>2, <2>1, <2>2
<1>3. CASE script.adapted
    <2>1. readable \in Seq(Event) /\ Len(readable) \in Nat
        BY <1>1, ReadableIs
    <2>2. z \in Seq(Seq(Event)) /\ Len(z) = Len(readable)
        BY <2>1, TranslationsType
    <2>3. response = FlattenSeq(z) \o <<DONE_MARKER>>
        BY <1>3 DEF ResponseTo, Translations
    <2> DEFINE f == FlattenSeq(z)
               n == Len(readable)
    <2>4. /\ f \in Seq(Event) /\ Off(z, n) = Len(f)
          /\ \A k \in 0..n : Off(z, k) \in Nat /\ Off(z, k) <= Len(f)
        <3> HIDE DEF z
        <3>1. QED
            BY <2>2, FlattenAt
    <2>5. \A k \in 0..n : Upto(z, k) \in Seq(Event) /\ \A i \in 1..Off(z, k) : f[i] = Upto(z, k)[i]
        <3> SUFFICES ASSUME NEW k \in 0..n
                     PROVE  Upto(z, k) \in Seq(Event) /\ \A i \in 1..Off(z, k) : f[i] = Upto(z, k)[i]
            OBVIOUS
        <3> HIDE DEF z
        <3>1. k \in 0..Len(z) /\ k \in Nat /\ k <= n /\ n \in Nat /\ n <= Len(z)
            BY <2>1, <2>2
        <3>2. Upto(z, k) \in Seq(Event)
            BY <2>2, <3>1, UptoType
        <3>3. Upto(z, n) = f
            BY <2>2, UptoEnds
        <3> HIDE DEF f, n
        <3>4. \A i \in 1..Off(z, k) : Upto(z, n)[i] = Upto(z, k)[i]
            BY <2>2, <3>1, UptoGrows
        <3>5. QED
            BY <3>2, <3>3, <3>4
    <2> HIDE DEF f
    <2>6. /\ response \in Seq(Event) /\ Len(response) = Len(f) + 1
          /\ \A i \in 1..Len(f) : response[i] = f[i]
          /\ response[Len(f) + 1] = DONE_MARKER
        <3> DEFINE x == DONE_MARKER
        <3>1. x \in Event
            BY DoneEvent
        <3> HIDE DEF x
        <3>2. /\ f \o <<x>> \in Seq(Event) /\ Len(f \o <<x>>) = Len(f) + 1
              /\ \A i \in 1..Len(f) : (f \o <<x>>)[i] = f[i]
              /\ (f \o <<x>>)[Len(f) + 1] = x
            BY <2>4, <3>1, WithLast
        <3>3. QED
            BY <2>3, <3>2 DEF x, f
    <2> HIDE DEF response
    <2>7. ASSUME NEW k \in 0..n
          PROVE  /\ Off(z, k) \in Nat /\ Off(z, k) <= Len(response)
                 /\ SubSeq(response, 1, Off(z, k)) = Upto(z, k)
        <3> DEFINE u == Upto(z, k)
                   o == Off(z, k)
        <3>1. /\ o \in Nat /\ o <= Len(f) /\ Len(f) \in Nat /\ u \in Seq(Event) /\ Len(u) = o
              /\ \A i \in 1..o : f[i] = u[i]
            BY <2>4, <2>5 DEF Off
        <3> HIDE DEF u, o
        <3>2. o <= Len(response) /\ \A i \in 1..o : response[i] = u[i]
            BY <2>6, <3>1
        <3>3. SubSeq(response, 1, o) \in Seq(Event) /\ Len(SubSeq(response, 1, o)) = o
              /\ \A i \in 1..o : SubSeq(response, 1, o)[i] = response[i]
            BY <2>6, <3>1, <3>2
        <3>4. SubSeq(response, 1, o) = u
            BY <3>1, <3>2, <3>3, SameSeq
        <3>5. QED
            BY <3>1, <3>2, <3>4 DEF o, u
    <2>8. ResponseBytes(script) = TextOf(response, Unended(script))
        <3>1. Lines(<<>>) = <<>>
            BY DEF Lines
        <3>2. QED
            BY <1>3, <3>1 DEF ResponseBytes, TextOf, Unended, response
    <2>9. /\ Len(response) = Off(z, n) + 1 /\ response[Len(response)] = DONE_MARKER
        BY <2>4, <2>6
    <2>10. QED
        BY <1>3, <2>6, <2>7, <2>8, <2>9 DEF response
<1>4. QED
    BY <1>2, <1>3

(* How long the first k events are. *)
LEMMA WireLen ==
    ASSUME NEW events \in Seq(Event), NEW k \in 0..Len(events)
    PROVE  Len(Wire(SubSeq(events, 1, k))) = Pos(events, k)
<1> DEFINE s == SubSeq(events, 1, k)
<1>1. k \in Nat /\ Len(events) \in Nat /\ s \in Seq(Event) /\ Len(s) = k /\ \A i \in 1..k : s[i] = events[i]
    OBVIOUS
<1>2. Codes(events) \in Seq(Seq(ByteType)) /\ Len(Codes(events)) = Len(events)
    BY CodesType
<1> HIDE DEF s
<1>3. Codes(s) = SubSeq(Codes(events), 1, k)
    <2>1. Codes(s) = [i \in 1..k |-> Encoded(events[i])]
        BY <1>1 DEF Codes
    <2>2. SubSeq(Codes(events), 1, k) = [i \in 1..k |-> Codes(events)[i]]
        <3> DEFINE z == Codes(events)
        <3> HIDE DEF z
        <3>1. z \in Seq(Seq(ByteType)) /\ k <= Len(z)
            BY <1>1, <1>2 DEF z
        <3>2. SubSeq(z, 1, k) = [i \in 1..k |-> z[i]]
            BY <1>1, <3>1
        <3>3. QED
            BY <3>2 DEF z
    <2>3. \A i \in 1..k : Codes(events)[i] = Encoded(events[i])
        BY <1>1 DEF Codes
    <2>4. QED
        BY <2>1, <2>2, <2>3
<1>4. Wire(s) = FlattenSeq(Codes(s))
    BY DEF Wire, Codes
<1>5. QED
    BY <1>3, <1>4 DEF Pos, Off, Upto, s

(* What the observer has charged, by the events that have gone by whole. *)
LEMMA ObservedCharge ==
    ASSUME NEW events \in Seq(Event), NEW rest \in Seq(LineType), NEW c \in Nat, NEW o, NEW cost,
           Observed(events, rest, c, o, cost)
    PROVE  LET readable == Readable(events)
               usage(k) == parse_chunk_usage(parse(Encoded(readable[k])))
               got == {k \in 1..Len(readable) :
                          /\ Len(Wire(SubSeq(readable, 1, k))) <= c
                          /\ usage(k) # None}
           IN  cost = IF got = {} THEN None ELSE compute(o.provider, o.model, usage(Min(got)))
<1> DEFINE readable == Readable(events)
           n == Len(readable)
           usage(k) == parse_chunk_usage(parse(Encoded(readable[k])))
           got == {k \in 1..n : Len(Wire(SubSeq(readable, 1, k))) <= c /\ usage(k) # None}
<1>1. /\ readable \in Seq(Event) /\ n \in Nat /\ n <= Len(events)
      /\ \A i \in 1..n : readable[i] = events[i] /\ Decodes(events[i])
      /\ n < Len(events) => ~ Decodes(events[n + 1])
    BY ReadableIs
<1>2. Len(events) \in Nat /\ \A j \in 0..Len(events) : Pos(events, j) \in Nat
    BY StreamAt
<1> HIDE DEF readable, n
<1>3. ASSUME NEW k \in 1..n
      PROVE  /\ k \in 1..Len(events)
             /\ usage(k) = UsageOf(events[k])
             /\ Len(Wire(SubSeq(readable, 1, k))) = Pos(events, k)
    <2>1. k \in 1..Len(events) /\ k \in 0..n /\ k \in 0..Len(events)
        BY <1>1, <1>2
    <2>2. events[k] \in Event /\ readable[k] = events[k]
        BY <1>1, <2>1
    <2>3. IsTextOf(Encoded(events[k]), events[k])
        BY <2>2, EventTexts
    <2>4. parse(Encoded(events[k])) = Parsed(events[k])
        BY <2>2, <2>3, ParseText
    <2>5. SubSeq(readable, 1, k) = SubSeq(events, 1, k)
        <3>1. SubSeq(readable, 1, k) = [i \in 1..k |-> readable[i]]
            BY <1>1 DEF n
        <3>2. SubSeq(events, 1, k) = [i \in 1..k |-> events[i]]
            BY <1>2, <2>1
        <3>3. \A i \in 1..k : readable[i] = events[i]
            <4>1. \A i \in 1..k : i \in 1..n
                BY <1>1
            <4>2. QED
                BY <1>1, <4>1
        <3>4. QED
            BY <3>1, <3>2, <3>3
    <2>6. Len(Wire(SubSeq(events, 1, k))) = Pos(events, k)
        BY <2>1, WireLen
    <2>7. QED
        BY <2>1, <2>2, <2>4, <2>5, <2>6 DEF UsageOf
<1>4. got = {k \in 1..n : Pos(events, k) <= c /\ UsageOf(events[k]) # None}
    BY <1>3
<1> HIDE DEF got, usage
<1>5. ASSUME NEW k \in Nat, k <= Len(events), \A j \in 1..k : Decodes(events[j])
      PROVE  k <= n
    <2> SUFFICES ASSUME ~ (k <= n)
                 PROVE  FALSE
        OBVIOUS
    <2>1. n < Len(events) /\ n + 1 \in 1..k
        BY <1>1, <1>2, <1>5
    <2>2. QED
        BY <1>1, <1>5, <2>1
<1>6. CASE o.found_usage
    <2>1. PICK k \in 1..Len(events) :
             /\ Pos(events, k) <= c
             /\ UsageOf(events[k]) # None /\ cost = compute(o.provider, o.model, UsageOf(events[k]))
             /\ \A j \in 1..k : Decodes(events[j])
             /\ \A j \in 1..(k - 1) : UsageOf(events[j]) = None
        BY <1>6 DEF Observed, Found
    <2>2. k \in 1..n
        BY <1>2, <1>5, <2>1
    <2>3. k \in got
        BY <1>4, <2>1, <2>2
    <2>4. ASSUME NEW j \in got, ~ (k <= j)
          PROVE  FALSE
        <3>1. j \in 1..n /\ UsageOf(events[j]) # None
            BY <1>4
        <3>2. j \in 1..(k - 1)
            BY <2>2, <2>4, <3>1
        <3>3. QED
            BY <2>1, <3>1, <3>2
    <2>5. got \subseteq Nat
        BY <1>1, <1>4
    <2>6. Min(got) = k
        BY <2>3, <2>4, <2>5, MinAt
    <2>7. usage(k) = UsageOf(events[k])
        BY <1>3, <2>2
    <2>8. cost = IF got = {} THEN None ELSE compute(o.provider, o.model, usage(Min(got)))
        BY <2>1, <2>3, <2>6, <2>7
    <2>9. QED
        BY <2>8 DEF got, usage, readable, n
<1>7. CASE ~ o.found_usage
    <2>1. cost = None
        BY <1>7 DEF Observed, Searching
    <2>2. PICK k \in 0..Len(events) :
             /\ Pos(events, k) <= c /\ StopsAt(events, c, k)
             /\ \A j \in 1..k : Decodes(events[j]) /\ UsageOf(events[j]) = None
        BY <1>7 DEF Observed, Searching
    <2>3. k \in Nat /\ k <= n
        BY <1>2, <1>5, <2>2
    <2>4. ASSUME NEW j \in got
          PROVE  FALSE
        <3>1. j \in 1..n /\ j \in Nat /\ UsageOf(events[j]) # None /\ Pos(events, j) <= c
            BY <1>1, <1>4
        <3>2. j \notin 1..k
            BY <2>2, <3>1
        <3>3. k < n /\ k < Len(events) /\ k + 1 \in 1..n /\ k + 1 <= j /\ j <= Len(events)
            BY <1>1, <1>2, <2>3, <3>1, <3>2
        <3>4. Decodes(events[k + 1])
            BY <1>1, <3>3
        <3>5. Pos(events, k + 1) <= Pos(events, j)
            <4> DEFINE z == Codes(events)
            <4>1. z \in Seq(Seq(ByteType)) /\ j <= Len(z) /\ k + 1 \in Nat
                BY <2>3, <3>3, CodesType
            <4> HIDE DEF z
            <4>2. Off(z, k + 1) <= Off(z, j)
                BY <3>1, <3>3, <4>1, UptoGrows
            <4>3. QED
                BY <4>2 DEF Pos, z
        <3>6. Pos(events, k + 1) \in Nat /\ Pos(events, j) \in Nat
            <4>1. k + 1 \in 0..Len(events) /\ j \in 0..Len(events)
                BY <1>2, <2>3, <3>1, <3>3
            <4>2. QED
                BY <1>2, <4>1
        <3>7. Pos(events, k + 1) <= c
            BY <3>1, <3>5, <3>6
        <3>8. QED
            BY <2>2, <3>3, <3>4, <3>7 DEF StopsAt
    <2>5. got = {}
        BY <2>4
    <2>6. cost = IF got = {} THEN None ELSE compute(o.provider, o.model, usage(Min(got)))
        BY <2>1, <2>5
    <2>7. QED
        BY <2>6 DEF got, usage, readable, n
<1>8. QED
    BY <1>6, <1>7

(* What is charged is a price of counts that were reported. *)
IsPrice(cost, provider, model) ==
    \E prompt, completion \in Tokens \cup {0} :
        cost = compute(provider, model, [prompt |-> prompt, completion |-> completion])

(* What the observer charges is a price at its provider and model. *)
LEMMA ObservedPrice ==
    ASSUME NEW events \in Seq(Event), NEW rest, NEW c, NEW o, NEW cost,
           Observed(events, rest, c, o, cost), cost # None
    PROVE  IsPrice(cost, o.provider, o.model)
<1>1. o.found_usage
    BY DEF Observed, Searching
<1>2. PICK k \in 1..Len(events) :
         /\ UsageOf(events[k]) # None /\ cost = compute(o.provider, o.model, UsageOf(events[k]))
    BY <1>1 DEF Observed, Found
<1> DEFINE payload == Payload(Parsed(events[k]))
<1>3. events[k] \in Event
    OBVIOUS
<1>4. payload = None \/ payload \in LineType
    BY <1>3, PayloadType
<1>5. /\ payload # None /\ payload.prompt # None /\ payload.completion # None
      /\ UsageOf(events[k]) = [prompt |-> payload.prompt, completion |-> payload.completion]
    <2>1. UsageOf(events[k]) = IF payload = None THEN None
                               ELSE IF payload.prompt = None \/ payload.completion = None THEN None
                               ELSE [prompt |-> payload.prompt, completion |-> payload.completion]
        BY DEF UsageOf, parse_chunk_usage
    <2> HIDE DEF payload
    <2>2. QED
        BY <1>2, <2>1
<1> HIDE DEF payload
<1>6. payload.prompt \in Tokens \cup {0} /\ payload.completion \in Tokens \cup {0}
    BY <1>4, <1>5 DEF LineType
<1>7. QED
    BY <1>2, <1>5, <1>6 DEF IsPrice
-----------------------------------------------------------------------------
(***************************************************************************)
(* The stream: the adapter when it has taken the first k events and the    *)
(* client has got the first e events of the response, and a stream that is *)
(* passed through.                                                         *)
(***************************************************************************)
StreamFields ==
    {"pc", "script", "read", "buffer", "transform", "pending", "upstream_done", "emitted_done"}

WellFormed(script) ==
    /\ script \in Script
    /\ script.adapted => \A i \in 1..Len(script.events) : AnthropicEvent(script.events[i])

AdaptedAt(s, bytes, k, e) ==
    LET readable == Readable(s.script.events)
        response == ResponseTo(s.script)
        made == Off(Translations(readable), k)
    IN  /\ Pos(s.script.events, k) <= s.read /\ StopsAt(s.script.events, s.read, k)
        /\ s.buffer = SubSeq(Bytes(s.script), Pos(s.script.events, k) + 1, s.read)
        /\ s.transform = KnownAfter(readable, k)
        /\ bytes = SubSeq(ResponseBytes(s.script), 1, Pos(response, e))
        /\ IF s.emitted_done THEN s.upstream_done /\ e = Len(response) /\ s.pending = <<>>
           ELSE e <= made /\ s.pending = SubSeq(response, e + 1, made)

Adapted(s, bytes) ==
    /\ s.upstream_done => s.read = Len(Bytes(s.script))
    /\ s.pc = "ended" => s.emitted_done
    /\ \E k \in 0..Len(Readable(s.script.events)), e \in 0..Len(ResponseTo(s.script)) :
          AdaptedAt(s, bytes, k, e)

PassedOn(s, bytes) ==
    /\ s.pending = <<>> /\ ~ s.upstream_done /\ ~ s.emitted_done
    /\ s.transform = AnthropicTransform_new
    /\ bytes = SubSeq(Bytes(s.script), 1, s.read)
    /\ s.pc = "ended" => s.read = Len(Bytes(s.script))

StreamOK(s, bytes) ==
    /\ DOMAIN s = StreamFields
    /\ s.pc \in {"none", "open", "ended", "aborted"} /\ WellFormed(s.script)
    /\ s.read \in 0..Len(Bytes(s.script))
    /\ s.upstream_done \in BOOLEAN /\ s.emitted_done \in BOOLEAN
    /\ s.transform \in Usage
    /\ s.pc # "none" => IF s.script.adapted THEN Adapted(s, bytes) ELSE PassedOn(s, bytes)

(* The bytes of one event in those of all of them. *)
LEMMA EventPart ==
    ASSUME NEW events \in Seq(Event), NEW rest \in Seq(LineType), NEW k \in Nat, k < Len(events)
    PROVE  /\ Encoded(events[k + 1]) = SubSeq(TextOf(events, rest), Pos(events, k) + 1, Pos(events, k + 1))
           /\ Pos(events, k) \in Nat /\ Pos(events, k + 1) \in Nat
           /\ Pos(events, k) <= Pos(events, k + 1) /\ Pos(events, k + 1) <= Len(TextOf(events, rest))
<1> DEFINE text == TextOf(events, rest)
           p == Pos(events, k)
           q == Pos(events, k + 1)
           m == 3 * Len(events[k + 1]) + 1
           x == Encoded(events[k + 1])
<1>1. k \in 0..Len(events) /\ k + 1 \in 0..Len(events) /\ k \in 0..(Len(events) - 1) /\ k + 1 \in 1..Len(events)
    OBVIOUS
<1>2. text \in Seq(ByteType) /\ p \in Nat /\ q \in Nat /\ q <= Len(text)
    BY <1>1, StreamAt
<1>3. q = p + m /\ \A i \in 1..m : text[p + i] = x[i]
    BY <1>1, StreamAt
<1>4. events[k + 1] \in Seq(LineType) /\ Len(events[k + 1]) \in Nat
    BY <1>1, EventLen, CodesType
<1>5. x \in Seq(ByteType) /\ Len(x) = m
    BY <1>4, EncodedAt
<1>6. m \in Nat
    BY <1>4
<1> HIDE DEF text, p, q, m, x
<1>7. p <= q /\ q - p = m
    BY <1>2, <1>3, <1>6
<1>8. /\ SubSeq(text, p + 1, q) \in Seq(ByteType) /\ Len(SubSeq(text, p + 1, q)) = q - p
      /\ \A i \in 1..(q - p) : SubSeq(text, p + 1, q)[i] = text[p + i]
    BY <1>2, <1>7, PartAt
<1>9. x = SubSeq(text, p + 1, q)
    <2> DEFINE y == SubSeq(text, p + 1, q)
    <2>1. y \in Seq(ByteType) /\ Len(y) = m /\ \A i \in 1..m : x[i] = y[i]
        BY <1>3, <1>7, <1>8
    <2> HIDE DEF y
    <2>2. x = y
        BY <1>5, <2>1, SameSeq
    <2>3. QED
        BY <2>2 DEF y
<1>10. QED
    BY <1>2, <1>7, <1>9 DEF text, p, q, x

(* The rest of a beginning. *)
LEMMA Remainder ==
    ASSUME NEW S, NEW r \in Seq(S), NEW s \in Seq(S), NEW t \in Seq(S), NEW b \in Nat, b <= Len(r),
           s \o t = SubSeq(r, 1, b)
    PROVE  t = SubSeq(r, Len(s) + 1, b) /\ Len(s) <= b
<1> DEFINE a == Len(s)
           u == SubSeq(r, a + 1, b)
<1>1. /\ s \o t \in Seq(S) /\ Len(s \o t) = Len(s) + Len(t)
      /\ Len(s) \in Nat /\ Len(t) \in Nat
      /\ \A i \in 1..Len(t) : (s \o t)[Len(s) + i] = t[i]
    BY ConcatAt
<1>2. Len(SubSeq(r, 1, b)) = b /\ \A i \in 1..b : SubSeq(r, 1, b)[i] = r[i]
    OBVIOUS
<1>3. b = a + Len(t) /\ a <= b /\ a \in Nat /\ b - a = Len(t)
    BY <1>1, <1>2
<1> HIDE DEF a
<1>4. u \in Seq(S) /\ Len(u) = b - a /\ \A i \in 1..(b - a) : u[i] = r[a + i]
    BY <1>3, PartAt
<1>5. ASSUME NEW i \in 1..Len(t)
      PROVE  t[i] = u[i]
    <2>1. i \in 1..(b - a) /\ a + i \in 1..b
        BY <1>1, <1>3
    <2>2. t[i] = (s \o t)[a + i]
        BY <1>1 DEF a
    <2>3. QED
        BY <1>2, <1>4, <2>1, <2>2
<1> HIDE DEF u
<1>6. t = u
    BY <1>3, <1>4, <1>5, SameSeq
<1>7. QED
    BY <1>3, <1>6 DEF u, a

(* The readable events of an adapted body. *)
LEMMA ReadableGiven ==
    ASSUME NEW script, WellFormed(script), script.adapted
    PROVE  LET readable == Readable(script.events)
           IN  /\ readable \in Seq(Event) /\ Len(readable) \in Nat /\ Len(readable) <= Len(script.events)
               /\ \A i \in 1..Len(readable) : /\ AnthropicEvent(readable[i])
                                              /\ readable[i] = script.events[i]
                                              /\ Decodes(script.events[i])
               /\ Len(readable) < Len(script.events) => ~ Decodes(script.events[Len(readable) + 1])
<1> DEFINE readable == Readable(script.events)
           n == Len(readable)
<1>1. script \in Script /\ script.events \in Seq(Event) /\ Len(script.events) \in Nat
    BY ScriptFacts DEF WellFormed
<1>2. /\ readable \in Seq(Event) /\ n \in Nat /\ n <= Len(script.events)
      /\ \A i \in 1..n : readable[i] = script.events[i] /\ Decodes(script.events[i])
      /\ n < Len(script.events) => ~ Decodes(script.events[n + 1])
    BY <1>1, ReadableIs
<1> HIDE DEF readable, n
<1>3. \A i \in 1..n : i \in 1..Len(script.events)
    BY <1>1, <1>2
<1>4. \A i \in 1..n : AnthropicEvent(readable[i])
    BY <1>2, <1>3 DEF WellFormed
<1>5. QED
    BY <1>2, <1>4 DEF readable, n

StreamInv ==
    /\ StreamOK(stream, client)
    /\ stream.pc # "none" =>
          Observed(ResponseTo(stream.script), Unended(stream.script), Len(client), observer, charged)

(* What a new stream is. *)
LEMMA OpenOK ==
    ASSUME NEW script, NEW provider, NEW model, WellFormed(script), Open(script, provider, model)
    PROVE  StreamInv' /\ observer'.provider = provider /\ observer'.model = model
<1> DEFINE events == script.events
           readable == Readable(events)
           response == ResponseTo(script)
           z == Translations(readable)
<1>1. /\ stream' = Stream_new(script, "open") /\ observer' = Observer_new(provider, model)
      /\ client' = <<>> /\ charged' = None
    BY DEF Open
<1>2. /\ DOMAIN stream' = StreamFields /\ stream'.pc = "open" /\ stream'.script = script
      /\ stream'.read = 0 /\ stream'.buffer = <<>> /\ stream'.transform = AnthropicTransform_new
      /\ stream'.pending = <<>> /\ stream'.upstream_done = FALSE /\ stream'.emitted_done = FALSE
    BY <1>1 DEF Stream_new, StreamFields
<1>3. /\ DOMAIN observer' = ObserverFields /\ observer'.buffer = <<>> /\ observer'.found_usage = FALSE
      /\ observer'.provider = provider /\ observer'.model = model
    BY <1>1 DEF Observer_new, ObserverFields
<1>4. /\ script \in Script /\ events \in Seq(Event) /\ script.rest \in Seq(LineType)
      /\ Unended(script) \in Seq(LineType) /\ script.adapted \in BOOLEAN
      /\ Bytes(script) = TextOf(events, script.rest)
    BY ScriptFacts DEF WellFormed
<1>5. response \in Seq(Event) /\ ResponseBytes(script) = TextOf(response, Unended(script))
    BY <1>4, ResponseIs
<1>6. AnthropicTransform_new \in Usage
    BY DEF AnthropicTransform_new, Usage
<1>7. /\ Bytes(script) \in Seq(ByteType) /\ Len(Bytes(script)) \in Nat /\ Pos(events, 0) = 0
      /\ ResponseBytes(script) \in Seq(ByteType) /\ Pos(response, 0) = 0
    <2>1. Bytes(script) \in Seq(ByteType) /\ Pos(events, 0) = 0
        BY <1>4, StreamAt
    <2>2. ResponseBytes(script) \in Seq(ByteType) /\ Pos(response, 0) = 0
        BY <1>4, <1>5, StreamAt
    <2>3. QED
        BY <2>1, <2>2
<1>8. /\ SubSeq(Bytes(script), 1, 0) = <<>> /\ SubSeq(ResponseBytes(script), 1, 0) = <<>>
      /\ SubSeq(Bytes(script), 0 + 1, 0) = <<>>
      /\ SubSeq(TextOf(response, Unended(script)), 0 + 1, 0) = <<>>
    <2>1. \A s \in Seq(ByteType) : SubSeq(s, 1, 0) = <<>> /\ SubSeq(s, 0 + 1, 0) = <<>>
        OBVIOUS
    <2>2. QED
        BY <1>5, <1>7, <2>1
<1>9. ASSUME NEW seq \in Seq(Event)
      PROVE  StopsAt(seq, 0, 0)
    <2>1. ASSUME 0 < Len(seq)
          PROVE  ~ (Pos(seq, 0 + 1) <= 0)
        <3>1. 0 \in 0..(Len(seq) - 1) /\ <<>> \in Seq(LineType) /\ 0 + 1 \in 1..Len(seq)
            BY <2>1
        <3>2. Pos(seq, 0 + 1) = Pos(seq, 0) + (3 * Len(seq[0 + 1]) + 1) /\ Pos(seq, 0) = 0
            BY <3>1, StreamAt
        <3>3. Len(seq[0 + 1]) \in Nat
            BY <3>1, EventLen, CodesType
        <3>4. QED
            BY <3>2, <3>3
    <2>2. QED
        BY <2>1 DEF StopsAt
<1>10. Observed(response, Unended(script), 0, observer', charged')
    <2>1. 0 \in 0..Len(response) /\ \A j \in 1..0 : FALSE
        BY <1>5
    <2>2. StopsAt(response, 0, 0)
        BY <1>5, <1>9
    <2>3. Searching(response, Unended(script), 0, observer', charged')
        <3>1. observer'.buffer = SubSeq(TextOf(response, Unended(script)), Pos(response, 0) + 1, 0)
            BY <1>3, <1>7, <1>8
        <3>2. Pos(response, 0) <= 0 /\ charged' = None
            BY <1>1, <1>7
        <3>3. QED
            BY <2>1, <2>2, <3>1, <3>2 DEF Searching
    <2>4. QED
        BY <1>3, <2>3 DEF Observed
<1>o. /\ DOMAIN stream' = StreamFields
      /\ stream'.pc \in {"none", "open", "ended", "aborted"} /\ WellFormed(stream'.script)
      /\ stream'.read \in 0..Len(Bytes(stream'.script))
      /\ stream'.upstream_done \in BOOLEAN /\ stream'.emitted_done \in BOOLEAN
      /\ stream'.transform \in Usage
    <2>1. stream'.read \in 0..Len(Bytes(stream'.script))
        BY <1>2, <1>7
    <2>2. QED
        BY <1>2, <1>6, <2>1
<1>11. CASE script.adapted
    <2>1. readable \in Seq(Event) /\ Len(readable) \in Nat
        BY <1>11, ReadableGiven
    <2>2. z \in Seq(Seq(Event))
        BY <2>1, TranslationsType
    <2>3. Off(z, 0) = 0
        <3> HIDE DEF z
        <3>1. QED
            BY <2>2, FlattenAt
    <2>4. SubSeq(response, 0 + 1, 0) = <<>>
        BY <1>5
    <2>5. 0 \in 0..Len(readable) /\ 0 \in 0..Len(response)
        BY <1>5, <2>1
    <2>6. StopsAt(events, 0, 0)
        BY <1>4, <1>9
    <2>7. KnownAfter(readable, 0) = AnthropicTransform_new
        BY KnownFirst
    <2>8. AdaptedAt(stream', client', 0, 0)
        <3>1. stream'.buffer = SubSeq(Bytes(script), Pos(events, 0) + 1, 0)
            BY <1>2, <1>7, <1>8
        <3>2. client' = SubSeq(ResponseBytes(script), 1, Pos(response, 0))
            BY <1>1, <1>7, <1>8
        <3>3. stream'.pending = SubSeq(response, 0 + 1, Off(z, 0)) /\ 0 <= Off(z, 0)
            BY <1>2, <2>3, <2>4
        <3>4. Pos(events, 0) <= stream'.read /\ StopsAt(events, stream'.read, 0)
            BY <1>2, <1>7, <2>6
        <3> HIDE DEF z, response, readable
        <3>5. QED
            BY <1>2, <2>7, <3>1, <3>2, <3>3, <3>4 DEF AdaptedAt, z, response, readable
    <2>9. Adapted(stream', client')
        BY <1>2, <2>5, <2>8 DEF Adapted
    <2>10. StreamOK(stream', client')
        BY <1>o, <1>2, <1>11, <2>9, Zenon DEF StreamOK
    <2>11. Len(client') = 0
        BY <1>1
    <2>12. QED
        BY <1>2, <1>3, <1>10, <2>10, <2>11 DEF StreamInv
<1>12. CASE ~ script.adapted
    <2>1. PassedOn(stream', client')
        BY <1>1, <1>2, <1>8 DEF PassedOn
    <2>2. StreamOK(stream', client')
        BY <1>o, <1>2, <1>12, <2>1, Zenon DEF StreamOK
    <2>3. Len(client') = 0
        BY <1>1
    <2>4. QED
        BY <1>2, <1>3, <1>10, <2>2, <2>3 DEF StreamInv
<1>13. QED
    BY <1>11, <1>12
-----------------------------------------------------------------------------
(* ReadChunk, with the adapter. *)
LEMMA ReadAdapted ==
    ASSUME StreamInv, NEW n \in 1..(Len(upstream) - stream.read), ReadChunk(n), stream.script.adapted
    PROVE  StreamInv' /\ UNCHANGED <<observer, client, charged>>
<1> DEFINE script == stream.script
           events == script.events
           text == Bytes(script)
           readable == Readable(events)
           response == ResponseTo(script)
           z == Translations(readable)
           c == stream.read
           d == c + n
           bytes == SubSeq(text, c + 1, d)
           seen == pulled(feed(stream.buffer, bytes))
           made == processed(stream.transform, seen.events)
<1>1. /\ stream.pc = "open" /\ stream.pending = <<>> /\ ~ stream.upstream_done
      /\ stream' = [stream EXCEPT !.read = @ + n, !.buffer = seen.buffer,
                                  !.transform = made.transform, !.pending = made.out]
      /\ UNCHANGED <<observer, client, charged>>
    BY Zenon DEF ReadChunk, Polling, upstream
<1>2. /\ DOMAIN stream = StreamFields /\ WellFormed(script)
      /\ c \in 0..Len(text) /\ stream.upstream_done \in BOOLEAN /\ stream.emitted_done \in BOOLEAN
      /\ Adapted(stream, client)
    BY <1>1 DEF StreamInv, StreamOK
<1>3. /\ script \in Script /\ events \in Seq(Event) /\ script.rest \in Seq(LineType)
      /\ text = TextOf(events, script.rest)
    BY <1>2, ScriptFacts DEF WellFormed
<1>4. text \in Seq(ByteType) /\ Len(events) \in Nat /\ \A j \in 0..Len(events) : Pos(events, j) \in Nat
    BY <1>3, StreamAt
<1>5. c \in Nat /\ d \in Nat /\ c <= d /\ d <= Len(text) /\ d \in 0..Len(text)
    BY <1>2, <1>4 DEF upstream
<1>6. PICK k \in 0..Len(readable), e \in 0..Len(response) : AdaptedAt(stream, client, k, e)
    BY <1>2 DEF Adapted
<1>7. /\ readable \in Seq(Event) /\ Len(readable) \in Nat /\ Len(readable) <= Len(events)
      /\ \A i \in 1..Len(readable) : AnthropicEvent(readable[i]) /\ readable[i] = events[i]
      /\ Len(readable) < Len(events) => ~ Decodes(events[Len(readable) + 1])
      /\ \A i \in 1..Len(readable) : Decodes(events[i])
    BY <1>2, ReadableGiven
<1>8. k \in Nat /\ k \in 0..Len(events) /\ Pos(events, k) \in Nat
    BY <1>4, <1>7
<1>9. /\ Pos(events, k) <= c
      /\ stream.buffer = SubSeq(text, Pos(events, k) + 1, c)
      /\ stream.transform = KnownAfter(readable, k)
      /\ client = SubSeq(ResponseBytes(script), 1, Pos(response, e))
      /\ stream.emitted_done = FALSE
      /\ e <= Off(z, k) /\ SubSeq(response, e + 1, Off(z, k)) = <<>>
    BY <1>1, <1>2, <1>6 DEF AdaptedAt
<1>10. feed(stream.buffer, bytes) = SubSeq(text, Pos(events, k) + 1, d) /\ Pos(events, k) <= d
    <2> DEFINE p == Pos(events, k)
    <2>1. p \in Nat /\ p <= c /\ text \in Seq(ByteType) /\ d <= Len(text) /\ p <= d /\ c <= d /\ c \in Nat /\ d \in Nat
        BY <1>4, <1>5, <1>8, <1>9
    <2>2. stream.buffer = SubSeq(text, p + 1, c)
        BY <1>9
    <2> HIDE DEF p, text, c, d
    <2>3. SubSeq(text, p + 1, c) \o SubSeq(text, c + 1, d) = SubSeq(text, p + 1, d)
        BY <2>1, PartsMeet
    <2>4. QED
        BY <2>1, <2>2, <2>3 DEF feed, p
<1>11. PICK m \in k..Len(events) :
          /\ Pos(events, m) <= d /\ StopsAt(events, d, m)
          /\ \A j \in (k + 1)..m : Decodes(events[j])
          /\ pulled(SubSeq(text, Pos(events, k) + 1, d))
               = [events |-> ParsedFrom(events, k, m), buffer |-> SubSeq(text, Pos(events, m) + 1, d)]
    <2> DEFINE rest == script.rest
    <2>1. /\ events \in Seq(Event) /\ rest \in Seq(LineType) /\ k \in 0..Len(events) /\ d \in Nat
          /\ Pos(events, k) <= d /\ d <= Len(TextOf(events, rest))
        BY <1>3, <1>5, <1>8, <1>10
    <2>2. text = TextOf(events, rest)
        BY <1>3
    <2> HIDE DEF d, events, text, rest
    <2>3. \E m \in k..Len(events) :
             /\ Pos(events, m) <= d /\ StopsAt(events, d, m)
             /\ \A j \in (k + 1)..m : Decodes(events[j])
             /\ pulled(SubSeq(TextOf(events, rest), Pos(events, k) + 1, d))
                  = [events |-> ParsedFrom(events, k, m),
                     buffer |-> SubSeq(TextOf(events, rest), Pos(events, m) + 1, d)]
        BY <2>1, PulledAt, Zenon
    <2>4. QED
        BY <2>2, <2>3, Zenon
<1>12. m \in Nat /\ k <= m /\ m <= Len(readable) /\ m \in 0..Len(readable)
    <2>1. m \in Nat /\ k <= m /\ m <= Len(events)
        BY <1>4, <1>8
    <2>2. ASSUME ~ (m <= Len(readable))
          PROVE  FALSE
        <3>1. Len(readable) < Len(events) /\ Len(readable) + 1 \in (k + 1)..m
            <4>1. Len(readable) \in Nat /\ k \in 0..Len(readable) /\ Len(events) \in Nat
                BY <1>4, <1>7
            <4> HIDE DEF readable, events
            <4>2. QED
                BY <2>1, <2>2, <4>1
        <3>2. Decodes(events[Len(readable) + 1])
            BY <1>11, <3>1, Zenon
        <3>3. ~ Decodes(events[Len(readable) + 1])
            BY <1>7, <3>1, Zenon
        <3>4. QED
            BY <3>2, <3>3
    <2>3. QED
        BY <1>7, <2>1, <2>2
<1>13. ParsedFrom(events, k, m) = ParsedFrom(readable, k, m)
    <2>1. \A i \in 1..(m - k) : k + i \in 1..Len(readable)
        BY <1>7, <1>8, <1>12
    <2>2. \A i \in 1..(m - k) : events[k + i] = readable[k + i]
        BY <1>7, <2>1
    <2>3. QED
        BY <2>2 DEF ParsedFrom
<1>14. seen.events = ParsedFrom(readable, k, m) /\ seen.buffer = SubSeq(text, Pos(events, m) + 1, d)
    <2> DEFINE x == ParsedFrom(readable, k, m)
               y == SubSeq(text, Pos(events, m) + 1, d)
    <2>1. seen = [events |-> x, buffer |-> y]
        BY <1>10, <1>11, <1>13
    <2> HIDE DEF seen, x, y
    <2>2. seen.events = x /\ seen.buffer = y
        BY <2>1
    <2>3. QED
        BY <2>2 DEF x, y
<1>15. /\ made.transform = KnownAfter(readable, m) /\ made.out \in Seq(Event)
       /\ Upto(z, k) \o made.out = Upto(z, m)
    <2> HIDE DEF seen
    <2>1. made = processed(KnownAfter(readable, k), ParsedFrom(readable, k, m))
        BY <1>9, <1>14
    <2> HIDE DEF made, readable
    <2>2. QED
        BY <1>7, <1>8, <1>12, <2>1, ProcessedAt
<1>16. /\ response \in Seq(Event) /\ Off(z, k) \in Nat /\ Off(z, m) \in Nat /\ Off(z, m) <= Len(response)
       /\ SubSeq(response, 1, Off(z, m)) = Upto(z, m) /\ Off(z, k) <= Len(response)
    BY <1>3, <1>12, ResponseIs
<1>17. e = Off(z, k)
    <2> DEFINE o == Off(z, k)
    <2>1. e \in Nat /\ o \in Nat /\ e <= o /\ o <= Len(response)
        BY <1>9, <1>16
    <2>2. SubSeq(response, e + 1, o) = <<>>
        BY <1>9
    <2> HIDE DEF o, response
    <2>3. response \in Seq(Event)
        BY <1>16 DEF response
    <2>4. Len(SubSeq(response, e + 1, o)) = o - e
        BY <2>1, <2>3, PartAt
    <2>5. Len(<<>>) = 0
        OBVIOUS
    <2>6. o - e = 0
        BY <2>2, <2>4, <2>5
    <2>7. e = o
        BY <2>1, <2>6
    <2>8. QED
        BY <2>7 DEF o
<1>18. e <= Off(z, m) /\ made.out = SubSeq(response, e + 1, Off(z, m))
    <2> DEFINE s == Upto(z, k)
               t == made.out
               b == Off(z, m)
    <2>1. s \in Seq(Event) /\ Len(s) = e
        <3>1. z \in Seq(Seq(Event)) /\ k \in 0..Len(z)
            BY <1>7, TranslationsType
        <3> HIDE DEF z
        <3>2. Upto(z, k) \in Seq(Event)
            BY <3>1, UptoType
        <3>3. QED
            BY <1>17, <3>2 DEF Off
    <2>2. /\ t \in Seq(Event) /\ response \in Seq(Event) /\ b \in Nat /\ b <= Len(response)
          /\ s \o t = SubSeq(response, 1, b)
        BY <1>15, <1>16
    <2> HIDE DEF s, t, b, response
    <2>3. t = SubSeq(response, Len(s) + 1, b) /\ Len(s) <= b
        BY <2>1, <2>2, Remainder
    <2>4. QED
        BY <2>1, <2>3 DEF s, t, b
<1> HIDE DEF seen, made, z, response, readable, text, events, d
<1>19. /\ DOMAIN stream' = StreamFields /\ stream'.pc = "open" /\ stream'.script = script
       /\ stream'.read = d /\ stream'.buffer = seen.buffer /\ stream'.transform = made.transform
       /\ stream'.pending = made.out /\ stream'.upstream_done = stream.upstream_done
       /\ stream'.emitted_done = stream.emitted_done
    BY <1>1, <1>2 DEF StreamFields, d
<1>20. AdaptedAt(stream', client', m, e)
    <2>1. client' = client
        BY <1>1
    <2>2. /\ Pos(events, m) <= stream'.read /\ StopsAt(events, stream'.read, m)
          /\ stream'.buffer = SubSeq(text, Pos(events, m) + 1, stream'.read)
          /\ stream'.transform = KnownAfter(readable, m)
          /\ client' = SubSeq(ResponseBytes(script), 1, Pos(response, e))
          /\ e <= Off(z, m) /\ stream'.pending = SubSeq(response, e + 1, Off(z, m))
          /\ stream'.emitted_done = FALSE
        BY <1>9, <1>11, <1>14, <1>15, <1>18, <1>19, <2>1
    <2>3. QED
        BY <1>19, <2>2 DEF AdaptedAt, text, events, readable, response, z
<1>21. Adapted(stream', client')
    <2>1. stream'.pc # "ended" /\ ~ stream'.upstream_done
        BY <1>1, <1>19
    <2>2. m \in 0..Len(Readable(stream'.script.events)) /\ e \in 0..Len(ResponseTo(stream'.script))
        BY <1>12, <1>19 DEF readable, events, response
    <2>3. QED
        BY <1>20, <2>1, <2>2 DEF Adapted
<1>22. stream'.transform \in Usage
    <2>1. made.transform \in Usage
        BY <1>7, <1>12, <1>15, KnownType
    <2>2. QED
        BY <1>19, <2>1
<1>23. StreamOK(stream', client')
    <2>1. stream'.read \in 0..Len(Bytes(stream'.script)) /\ stream'.script.adapted
          /\ stream'.pc \in {"none", "open", "ended", "aborted"}
        BY <1>5, <1>19 DEF text
    <2>2. QED
        BY <1>2, <1>19, <1>21, <1>22, <2>1, Zenon DEF StreamOK
<1>24. Observed(ResponseTo(script), Unended(script), Len(client), observer, charged)
    BY <1>1 DEF StreamInv
<1>25. QED
    BY <1>1, <1>19, <1>23, <1>24 DEF StreamInv

(* A step of the adapter that forwards the next event of the response. *)
LEMMA ForwardEvent ==
    ASSUME StreamInv, stream.pc # "none", NEW e \in Nat, e < Len(ResponseTo(stream.script)),
           client = SubSeq(ResponseBytes(stream.script), 1, Pos(ResponseTo(stream.script), e)),
           Forward(Encoded(ResponseTo(stream.script)[e + 1]))
    PROVE  LET script == stream.script
               response == ResponseTo(script)
           IN  /\ client' = SubSeq(ResponseBytes(script), 1, Pos(response, e + 1))
               /\ Observed(response, Unended(script), Len(client'), observer', charged')
               /\ observer'.provider = observer.provider /\ observer'.model = observer.model
<1> DEFINE script == stream.script
           response == ResponseTo(script)
           rest == Unended(script)
           text == TextOf(response, rest)
           c == Pos(response, e)
           d == Pos(response, e + 1)
<1>1. script \in Script
    BY DEF StreamInv, StreamOK, WellFormed
<1>2. response \in Seq(Event) /\ rest \in Seq(LineType) /\ ResponseBytes(script) = text
    BY <1>1, ResponseIs, ScriptFacts
<1>3. Observed(response, rest, Len(client), observer, charged)
    BY DEF StreamInv
<1> HIDE DEF response, rest
<1>4. /\ Encoded(response[e + 1]) = SubSeq(text, c + 1, d)
      /\ c \in Nat /\ d \in Nat /\ c <= d /\ d <= Len(text)
    <2>1. e < Len(response)
        BY DEF response
    <2>2. QED
        BY <1>2, <2>1, EventPart
<1>5. text \in Seq(ByteType)
    BY <1>2, StreamAt
<1>6. client = SubSeq(text, 1, c) /\ Forward(SubSeq(text, c + 1, d))
    BY <1>2, <1>4 DEF response
<1>7. \A i \in Nat : i <= Len(text) => Len(SubSeq(text, 1, i)) = i
    <2> HIDE DEF text
    <2>1. QED
        BY <1>5
<1>8. Len(client) = c
    <2> HIDE DEF text, c, d
    <2>1. c <= Len(text)
        BY <1>4, <1>5
    <2>2. QED
        BY <1>4, <1>6, <1>7, <2>1
<1>9. /\ client' = SubSeq(text, 1, d) /\ Observed(response, rest, d, observer', charged')
      /\ observer'.provider = observer.provider /\ observer'.model = observer.model
    <2>1. Observed(response, rest, c, observer, charged)
        BY <1>3, <1>8
    <2> HIDE DEF c, d
    <2>2. QED
        BY <1>2, <1>4, <1>6, <2>1, ForwardOK
<1>10. Len(client') = d
    BY <1>4, <1>7, <1>9
<1>11. QED
    BY <1>2, <1>9, <1>10 DEF response, rest

(* The adapter gives out a chunk of its queue. *)
LEMMA EmitPendingOK ==
    ASSUME StreamInv, EmitPending
    PROVE  /\ StreamInv'
           /\ observer'.provider = observer.provider /\ observer'.model = observer.model
<1> DEFINE script == stream.script
           events == script.events
           readable == Readable(events)
           response == ResponseTo(script)
           z == Translations(readable)
<1>1. /\ stream.pc = "open" /\ stream.pending # <<>>
      /\ stream' = [stream EXCEPT !.pending = Tail(stream.pending)]
      /\ Forward(Encoded(Head(stream.pending)))
    BY DEF EmitPending
<1>2. StreamOK(stream, client)
    BY DEF StreamInv
<1>3. /\ DOMAIN stream = StreamFields /\ WellFormed(script) /\ script \in Script
      /\ stream.read \in 0..Len(Bytes(script))
      /\ stream.upstream_done \in BOOLEAN /\ stream.emitted_done \in BOOLEAN
      /\ stream.transform \in Usage
    BY <1>2 DEF StreamOK, WellFormed
<1>4. script.adapted /\ Adapted(stream, client)
    BY <1>1, <1>2 DEF StreamOK, PassedOn
<1>5. PICK k \in 0..Len(readable), e \in 0..Len(response) : AdaptedAt(stream, client, k, e)
    BY <1>4 DEF Adapted
<1>6. /\ Pos(events, k) <= stream.read /\ StopsAt(events, stream.read, k)
      /\ stream.buffer = SubSeq(Bytes(script), Pos(events, k) + 1, stream.read)
      /\ stream.transform = KnownAfter(readable, k)
      /\ client = SubSeq(ResponseBytes(script), 1, Pos(response, e))
      /\ stream.emitted_done = FALSE
      /\ e <= Off(z, k) /\ stream.pending = SubSeq(response, e + 1, Off(z, k))
    BY <1>1, <1>3, <1>5 DEF AdaptedAt
<1> DEFINE o == Off(z, k)
<1>7. response \in Seq(Event) /\ o \in Nat /\ o <= Len(response) /\ Len(response) \in Nat
    BY <1>3, <1>4, ResponseIs
<1> HIDE DEF o, response, z, readable, events
<1>8. /\ e \in Nat /\ e < Len(response) /\ e + 1 <= o /\ e + 1 \in 0..Len(response)
      /\ Head(stream.pending) = response[e + 1]
      /\ Tail(stream.pending) = SubSeq(response, (e + 1) + 1, o)
    <2>1. e \in Nat /\ e <= o
        BY <1>6 DEF o
    <2> DEFINE s == SubSeq(response, e + 1, o)
               t == SubSeq(response, (e + 1) + 1, o)
    <2>2. stream.pending = s
        BY <1>6 DEF o
    <2>3. s \in Seq(Event) /\ Len(s) = o - e /\ \A i \in 1..(o - e) : s[i] = response[e + i]
        BY <1>7, <2>1, PartAt
    <2> HIDE DEF s
    <2>4. Len(s) # 0
        BY <1>1, <2>2, <2>3
    <2>5. e < o /\ e + 1 \in Nat /\ e + 1 <= o /\ e < Len(response) /\ e + 1 \in 0..Len(response)
        BY <1>7, <2>1, <2>3, <2>4
    <2>6. Head(s) = response[e + 1]
        <3>1. 1 \in 1..(o - e)
            BY <1>7, <2>1, <2>5
        <3>2. QED
            BY <2>3, <3>1
    <2>7. t \in Seq(Event) /\ Len(t) = o - (e + 1) /\ \A i \in 1..(o - (e + 1)) : t[i] = response[(e + 1) + i]
        <3> DEFINE f == e + 1
        <3>1. f \in Nat /\ f <= o
            BY <2>5
        <3> HIDE DEF f
        <3>2. /\ SubSeq(response, f + 1, o) \in Seq(Event) /\ Len(SubSeq(response, f + 1, o)) = o - f
              /\ \A i \in 1..(o - f) : SubSeq(response, f + 1, o)[i] = response[f + i]
            BY <1>7, <3>1, PartAt
        <3>3. QED
            BY <3>2 DEF f
    <2> HIDE DEF t
    <2>8. Tail(s) = t
        <3> DEFINE r == Tail(s)
        <3>1. r \in Seq(Event) /\ Len(r) = Len(s) - 1 /\ \A i \in 1..(Len(s) - 1) : r[i] = s[i + 1]
            BY <2>3, <2>4
        <3> HIDE DEF r
        <3>2. Len(s) - 1 = o - (e + 1) /\ \A i \in 1..(o - (e + 1)) : i + 1 \in 1..(o - e) /\ e + (i + 1) = (e + 1) + i
            BY <1>7, <2>1, <2>3, <2>5
        <3>3. Len(r) = Len(t) /\ \A i \in 1..Len(r) : r[i] = t[i]
            BY <2>3, <2>7, <3>1, <3>2
        <3>4. r = t
            BY <2>7, <3>1, <3>3, SameSeq
        <3>5. QED
            BY <3>4 DEF r
    <2>9. QED
        BY <2>1, <2>2, <2>5, <2>6, <2>8 DEF t
<1>9. /\ client' = SubSeq(ResponseBytes(script), 1, Pos(response, e + 1))
      /\ Observed(response, Unended(script), Len(client'), observer', charged')
      /\ observer'.provider = observer.provider /\ observer'.model = observer.model
    BY <1>1, <1>6, <1>8, ForwardEvent DEF response
<1>10. /\ DOMAIN stream' = StreamFields /\ stream'.pc = "open" /\ stream'.script = script
       /\ stream'.read = stream.read /\ stream'.buffer = stream.buffer /\ stream'.transform = stream.transform
       /\ stream'.pending = Tail(stream.pending) /\ stream'.upstream_done = stream.upstream_done
       /\ stream'.emitted_done = stream.emitted_done
    BY <1>1, <1>3 DEF StreamFields
<1>11. AdaptedAt(stream', client', k, e + 1)
    BY <1>6, <1>8, <1>9, <1>10 DEF AdaptedAt, response, events, readable, z, o
<1>12. Adapted(stream', client')
    <2>1. (stream'.upstream_done => stream'.read = Len(Bytes(stream'.script))) /\ stream'.pc # "ended"
        BY <1>4, <1>10 DEF Adapted
    <2>2. k \in 0..Len(Readable(stream'.script.events)) /\ e + 1 \in 0..Len(ResponseTo(stream'.script))
        BY <1>8, <1>10 DEF readable, events, response
    <2>3. QED
        BY <1>11, <2>1, <2>2 DEF Adapted
<1>13. StreamOK(stream', client')
    <2>1. stream'.script.adapted /\ stream'.pc \in {"none", "open", "ended", "aborted"}
          /\ stream'.read \in 0..Len(Bytes(stream'.script))
        BY <1>3, <1>4, <1>10
    <2>2. QED
        BY <1>3, <1>10, <1>12, <2>1, Zenon DEF StreamOK
<1>14. QED
    BY <1>9, <1>10, <1>13 DEF StreamInv, response

(* When the provider has ended, every event that can be read was taken. *)
LEMMA TakenAll ==
    ASSUME NEW script, WellFormed(script), script.adapted,
           NEW k \in 0..Len(Readable(script.events)),
           StopsAt(script.events, Len(Bytes(script)), k)
    PROVE  k = Len(Readable(script.events))
<1> DEFINE events == script.events
           n == Len(Readable(events))
<1>1. /\ n \in Nat /\ n <= Len(events) /\ \A i \in 1..n : Decodes(events[i])
    BY ReadableGiven
<1>2. /\ script \in Script /\ events \in Seq(Event) /\ script.rest \in Seq(LineType)
      /\ Bytes(script) = TextOf(events, script.rest)
    BY ScriptFacts DEF WellFormed
<1>3. Len(events) \in Nat /\ \A j \in 0..Len(events) : Pos(events, j) <= Len(Bytes(script))
    BY <1>2, StreamAt
<1>4. ASSUME k < n
      PROVE  FALSE
    <2>1. k + 1 \in 1..n /\ k < Len(events) /\ k + 1 \in 0..Len(events)
        BY <1>1, <1>3, <1>4
    <2>2. Pos(events, k + 1) <= Len(Bytes(script)) /\ Decodes(events[k + 1])
        BY <1>1, <1>3, <2>1
    <2>3. QED
        BY <2>1, <2>2 DEF StopsAt
<1>5. QED
    BY <1>1, <1>4

(* The adapter gives out the end marker. *)
LEMMA EmitDoneOK ==
    ASSUME StreamInv, EmitDone
    PROVE  /\ StreamInv'
           /\ observer'.provider = observer.provider /\ observer'.model = observer.model
<1> DEFINE script == stream.script
           events == script.events
           readable == Readable(events)
           response == ResponseTo(script)
           z == Translations(readable)
<1>1. /\ stream.pc = "open" /\ stream.upstream_done /\ stream.pending = <<>> /\ ~ stream.emitted_done
      /\ stream' = [stream EXCEPT !.emitted_done = TRUE]
      /\ Forward(Encoded(DONE_MARKER))
    BY DEF EmitDone
<1>2. StreamOK(stream, client)
    BY DEF StreamInv
<1>3. /\ DOMAIN stream = StreamFields /\ WellFormed(script) /\ script \in Script
      /\ stream.read \in 0..Len(Bytes(script))
      /\ stream.upstream_done \in BOOLEAN /\ stream.emitted_done \in BOOLEAN
      /\ stream.transform \in Usage
    BY <1>2 DEF StreamOK, WellFormed
<1>4. script.adapted /\ Adapted(stream, client)
    BY <1>1, <1>2 DEF StreamOK, PassedOn
<1>5. PICK k \in 0..Len(readable), e \in 0..Len(response) : AdaptedAt(stream, client, k, e)
    BY <1>4 DEF Adapted
<1>6. /\ Pos(events, k) <= stream.read /\ StopsAt(events, stream.read, k)
      /\ stream.buffer = SubSeq(Bytes(script), Pos(events, k) + 1, stream.read)
      /\ stream.transform = KnownAfter(readable, k)
      /\ client = SubSeq(ResponseBytes(script), 1, Pos(response, e))
      /\ e <= Off(z, k) /\ SubSeq(response, e + 1, Off(z, k)) = <<>>
    BY <1>1, <1>3, <1>5 DEF AdaptedAt
<1>7. stream.read = Len(Bytes(script))
    BY <1>1, <1>4 DEF Adapted
<1>8. k = Len(readable)
    BY <1>3, <1>4, <1>6, <1>7, TakenAll
<1> DEFINE o == Off(z, k)
<1>9. /\ response \in Seq(Event) /\ Len(response) \in Nat /\ o \in Nat
      /\ Len(response) = o + 1 /\ response[Len(response)] = DONE_MARKER
    BY <1>3, <1>4, <1>8, ResponseIs
<1>10. e = o
    <2>1. e \in Nat /\ e <= o /\ SubSeq(response, e + 1, o) = <<>>
        BY <1>6
    <2> HIDE DEF o, response
    <2>2. o <= Len(response)
        BY <1>9
    <2>3. Len(SubSeq(response, e + 1, o)) = o - e
        BY <1>9, <2>1, <2>2, PartAt
    <2>4. Len(<<>>) = 0
        OBVIOUS
    <2>5. o - e = 0
        BY <2>1, <2>3, <2>4
    <2>6. QED
        BY <1>9, <2>1, <2>5
<1> HIDE DEF o, response, z, readable, events
<1>11. e \in Nat /\ e < Len(response) /\ e + 1 = Len(response) /\ response[e + 1] = DONE_MARKER
       /\ e + 1 \in 0..Len(response)
    BY <1>9, <1>10
<1>12. /\ client' = SubSeq(ResponseBytes(script), 1, Pos(response, e + 1))
       /\ Observed(response, Unended(script), Len(client'), observer', charged')
       /\ observer'.provider = observer.provider /\ observer'.model = observer.model
    BY <1>1, <1>6, <1>11, ForwardEvent DEF response
<1>13. /\ DOMAIN stream' = StreamFields /\ stream'.pc = "open" /\ stream'.script = script
       /\ stream'.read = stream.read /\ stream'.buffer = stream.buffer /\ stream'.transform = stream.transform
       /\ stream'.pending = <<>> /\ stream'.upstream_done = TRUE /\ stream'.emitted_done = TRUE
    BY <1>1, <1>3 DEF StreamFields
<1>14. AdaptedAt(stream', client', k, e + 1)
    BY <1>6, <1>11, <1>12, <1>13 DEF AdaptedAt, response, events, readable, z, o
<1>15. Adapted(stream', client')
    <2>1. stream'.read = Len(Bytes(stream'.script)) /\ stream'.pc # "ended"
        BY <1>7, <1>13
    <2>2. k \in 0..Len(Readable(stream'.script.events)) /\ e + 1 \in 0..Len(ResponseTo(stream'.script))
        BY <1>11, <1>13 DEF readable, events, response
    <2>3. QED
        BY <1>14, <2>1, <2>2 DEF Adapted
<1>16. StreamOK(stream', client')
    <2>1. stream'.script.adapted /\ stream'.pc \in {"none", "open", "ended", "aborted"}
          /\ stream'.read \in 0..Len(Bytes(stream'.script))
          /\ stream'.upstream_done \in BOOLEAN /\ stream'.emitted_done \in BOOLEAN
        BY <1>3, <1>4, <1>13
    <2>2. QED
        BY <1>3, <1>13, <1>15, <2>1, Zenon DEF StreamOK
<1>17. QED
    BY <1>12, <1>13, <1>16 DEF StreamInv, response

(* ReadChunk, passed through. *)
LEMMA ReadPassed ==
    ASSUME StreamInv, NEW n \in 1..(Len(upstream) - stream.read), ReadChunk(n), ~ stream.script.adapted
    PROVE  /\ StreamInv'
           /\ observer'.provider = observer.provider /\ observer'.model = observer.model
<1> DEFINE script == stream.script
           events == script.events
           rest == script.rest
           text == TextOf(events, rest)
           c == stream.read
           d == c + n
<1>1. /\ stream.pc = "open"
      /\ stream' = [stream EXCEPT !.read = c + n]
      /\ Forward(SubSeq(Bytes(script), c + 1, d))
    BY DEF ReadChunk, Polling, upstream
<1>2. StreamOK(stream, client)
    BY DEF StreamInv
<1>3. /\ DOMAIN stream = StreamFields /\ WellFormed(script) /\ script \in Script
      /\ c \in 0..Len(Bytes(script))
      /\ stream.upstream_done \in BOOLEAN /\ stream.emitted_done \in BOOLEAN
      /\ stream.transform \in Usage /\ PassedOn(stream, client)
    BY <1>1, <1>2 DEF StreamOK, WellFormed
<1>4. /\ events \in Seq(Event) /\ rest \in Seq(LineType) /\ Bytes(script) = text
      /\ ResponseTo(script) = events /\ Unended(script) = rest
    BY <1>3, ScriptFacts, ResponseIs DEF Unended
<1>5. text \in Seq(ByteType)
    BY <1>4, StreamAt
<1>6. c \in Nat /\ d \in Nat /\ c <= d /\ d <= Len(text) /\ c <= Len(text) /\ d \in 0..Len(text)
    BY <1>3, <1>4, <1>5 DEF upstream
<1>7. client = SubSeq(text, 1, c) /\ Forward(SubSeq(text, c + 1, d))
    BY <1>1, <1>3, <1>4 DEF PassedOn
<1>8. \A i \in Nat : i <= Len(text) => Len(SubSeq(text, 1, i)) = i
    <2> HIDE DEF text
    <2>1. QED
        BY <1>5
<1>9. Observed(events, rest, c, observer, charged)
    <2>1. Observed(events, rest, Len(client), observer, charged)
        BY <1>1, <1>4 DEF StreamInv
    <2>2. Len(client) = c
        BY <1>6, <1>7, <1>8
    <2>3. QED
        BY <2>1, <2>2
<1> HIDE DEF c, d
<1>10. /\ client' = SubSeq(text, 1, d) /\ Observed(events, rest, d, observer', charged')
       /\ observer'.provider = observer.provider /\ observer'.model = observer.model
    BY <1>4, <1>6, <1>7, <1>9, ForwardOK
<1>11. Len(client') = d
    BY <1>6, <1>8, <1>10
<1>12. /\ DOMAIN stream' = StreamFields /\ stream'.pc = "open" /\ stream'.script = script
       /\ stream'.read = d /\ stream'.buffer = stream.buffer /\ stream'.transform = stream.transform
       /\ stream'.pending = stream.pending /\ stream'.upstream_done = stream.upstream_done
       /\ stream'.emitted_done = stream.emitted_done
    BY <1>1, <1>3 DEF StreamFields, d, c
<1>13. PassedOn(stream', client')
    <2>1. client' = SubSeq(Bytes(stream'.script), 1, stream'.read) /\ stream'.pc # "ended"
        BY <1>4, <1>10, <1>12
    <2>2. QED
        BY <1>3, <1>12, <2>1 DEF PassedOn
<1>14. StreamOK(stream', client')
    <2>1. ~ stream'.script.adapted /\ stream'.pc \in {"none", "open", "ended", "aborted"}
          /\ stream'.read \in 0..Len(Bytes(stream'.script))
        BY <1>4, <1>6, <1>12
    <2>2. QED
        BY <1>3, <1>12, <1>13, <2>1, Zenon DEF StreamOK
<1>15. QED
    BY <1>4, <1>10, <1>11, <1>12, <1>14 DEF StreamInv

(* A step that only changes where the stream is: its end, or one of the    *)
(* flags that lead there.                                                  *)
LEMMA OnlyMoves ==
    ASSUME StreamInv, stream.pc = "open", NEW pc \in {"open", "ended", "aborted"}, NEW done \in BOOLEAN,
           stream' = [stream EXCEPT !.pc = pc, !.upstream_done = done],
           UNCHANGED <<observer, client, charged>>,
           stream.upstream_done => done,
           done => stream.read = Len(Bytes(stream.script)) /\ stream.script.adapted,
           pc = "ended" => IF stream.script.adapted THEN stream.emitted_done
                           ELSE stream.read = Len(Bytes(stream.script))
    PROVE  StreamInv'
<1>1. /\ StreamOK(stream, client)
      /\ Observed(ResponseTo(stream.script), Unended(stream.script), Len(client), observer, charged)
    BY DEF StreamInv
<1>2. /\ DOMAIN stream = StreamFields /\ WellFormed(stream.script)
      /\ stream.read \in 0..Len(Bytes(stream.script))
      /\ stream.upstream_done \in BOOLEAN /\ stream.emitted_done \in BOOLEAN
      /\ stream.transform \in Usage
      /\ IF stream.script.adapted THEN Adapted(stream, client) ELSE PassedOn(stream, client)
    BY <1>1 DEF StreamOK
<1>3. /\ DOMAIN stream' = StreamFields /\ stream'.pc = pc /\ stream'.script = stream.script
      /\ stream'.read = stream.read /\ stream'.buffer = stream.buffer /\ stream'.transform = stream.transform
      /\ stream'.pending = stream.pending /\ stream'.upstream_done = done
      /\ stream'.emitted_done = stream.emitted_done
    BY <1>2 DEF StreamFields
<1>4. stream'.pc \in {"none", "open", "ended", "aborted"} /\ stream'.pc # "none"
      /\ client' = client /\ observer' = observer /\ charged' = charged
    BY <1>3
<1>5. IF stream'.script.adapted THEN Adapted(stream', client') ELSE PassedOn(stream', client')
    <2>1. CASE stream.script.adapted
        <3>1. PICK k \in 0..Len(Readable(stream.script.events)), e \in 0..Len(ResponseTo(stream.script)) :
                 AdaptedAt(stream, client, k, e)
            BY <1>2, <2>1 DEF Adapted
        <3>2. AdaptedAt(stream', client', k, e)
            BY <1>2, <1>3, <1>4, <3>1 DEF AdaptedAt
        <3>3. Adapted(stream', client')
            BY <1>3, <2>1, <3>1, <3>2 DEF Adapted
        <3>4. QED
            BY <1>3, <2>1, <3>3
    <2>2. CASE ~ stream.script.adapted
        <3>1. PassedOn(stream', client')
            BY <1>2, <1>3, <1>4, <2>2 DEF PassedOn
        <3>2. QED
            BY <1>3, <2>2, <3>1
    <2>3. QED
        BY <2>1, <2>2
<1>6. StreamOK(stream', client')
    <2>1. /\ DOMAIN stream' = StreamFields /\ WellFormed(stream'.script)
          /\ stream'.read \in 0..Len(Bytes(stream'.script))
          /\ stream'.upstream_done \in BOOLEAN /\ stream'.emitted_done \in BOOLEAN
          /\ stream'.transform \in Usage
        BY <1>2, <1>3
    <2>2. QED
        BY <1>4, <1>5, <2>1, Zenon DEF StreamOK
<1>7. QED
    BY <1>1, <1>3, <1>4, <1>6 DEF StreamInv

(* Every step of a stream keeps the invariant, and whom it is charged to. *)
LEMMA StreamNextOK ==
    ASSUME StreamInv, StreamNext
    PROVE  /\ StreamInv' /\ stream.pc = "open" /\ stream'.pc # "none"
           /\ observer'.provider = observer.provider /\ observer'.model = observer.model
<1>1. /\ DOMAIN stream = StreamFields /\ stream.upstream_done \in BOOLEAN
      /\ stream.pc # "none" => IF stream.script.adapted THEN Adapted(stream, client) ELSE PassedOn(stream, client)
      /\ stream.script.adapted \in BOOLEAN
    BY ScriptFacts DEF StreamInv, StreamOK, WellFormed
<1>2. ASSUME NEW pc
      PROVE  /\ [stream EXCEPT !.pc = pc] = [stream EXCEPT !.pc = pc, !.upstream_done = stream.upstream_done]
             /\ [stream EXCEPT !.pc = pc].pc = pc
             /\ stream.pc = pc => /\ [stream EXCEPT !.upstream_done = TRUE]
                                       = [stream EXCEPT !.pc = pc, !.upstream_done = TRUE]
                                  /\ [stream EXCEPT !.upstream_done = TRUE].pc = pc
    BY <1>1 DEF StreamFields
<1>3. ASSUME NEW n \in 1..(Len(upstream) - stream.read), ReadChunk(n)
      PROVE  /\ StreamInv' /\ stream.pc = "open" /\ stream'.pc # "none"
             /\ observer'.provider = observer.provider /\ observer'.model = observer.model
    <2>1. stream.pc = "open"
        BY <1>3 DEF ReadChunk, Polling
    <2>2. CASE stream.script.adapted
        <3>1. StreamInv' /\ observer' = observer
            BY <1>3, <2>2, ReadAdapted
        <3>2. PICK seen : stream' = [stream EXCEPT !.read = @ + n, !.buffer = seen.buffer,
                                        !.transform = processed(stream.transform, seen.events).transform,
                                        !.pending = processed(stream.transform, seen.events).out]
            BY <1>3, <2>2, Zenon DEF ReadChunk
        <3>3. stream'.pc = stream.pc
            BY <1>1, <3>2 DEF StreamFields
        <3>4. QED
            BY <2>1, <3>1, <3>3
    <2>3. CASE ~ stream.script.adapted
        <3>1. /\ StreamInv'
              /\ observer'.provider = observer.provider /\ observer'.model = observer.model
            BY <1>3, <2>3, ReadPassed
        <3>2. stream' = [stream EXCEPT !.read = @ + n]
            BY <1>3, <2>3 DEF ReadChunk
        <3>3. stream'.pc = stream.pc
            BY <1>1, <3>2 DEF StreamFields
        <3>4. QED
            BY <2>1, <3>1, <3>3
    <2>4. QED
        BY <2>2, <2>3
<1>4. CASE EmitPending
    <2>1. stream.pc = "open" /\ stream'.pc = "open"
        BY <1>1, <1>4 DEF EmitPending, StreamFields
    <2>2. QED
        BY <1>4, <2>1, EmitPendingOK
<1>5. CASE EmitDone
    <2>1. stream.pc = "open" /\ stream'.pc = "open"
        BY <1>1, <1>5 DEF EmitDone, StreamFields
    <2>2. QED
        BY <1>5, <2>1, EmitDoneOK
<1>6. CASE End
    <2>1. /\ stream.pc = "open" /\ stream.emitted_done
          /\ stream' = [stream EXCEPT !.pc = "ended"] /\ UNCHANGED <<observer, client, charged>>
        BY <1>6 DEF End
    <2>2. stream.script.adapted /\ (stream.upstream_done => stream.read = Len(Bytes(stream.script)))
        BY <1>1, <2>1 DEF PassedOn, Adapted
    <2> DEFINE done == stream.upstream_done
    <2>3. stream' = [stream EXCEPT !.pc = "ended", !.upstream_done = done] /\ stream'.pc = "ended"
        BY <1>2, <2>1, Zenon
    <2>4. done \in BOOLEAN /\ "ended" \in {"open", "ended", "aborted"}
        BY <1>1
    <2>5. StreamInv'
        BY <2>1, <2>2, <2>3, <2>4, OnlyMoves
    <2>6. QED
        BY <2>1, <2>3, <2>5
<1>7. CASE UpstreamEnd
    <2>1. /\ stream.pc = "open" /\ ~ stream.upstream_done
          /\ stream.read = Len(Bytes(stream.script))
          /\ stream' = IF stream.script.adapted THEN [stream EXCEPT !.upstream_done = TRUE]
                       ELSE [stream EXCEPT !.pc = "ended"]
          /\ UNCHANGED <<observer, client, charged>>
        BY <1>7 DEF UpstreamEnd, Polling, upstream
    <2>2. CASE stream.script.adapted
        <3>1. stream' = [stream EXCEPT !.pc = "open", !.upstream_done = TRUE] /\ stream'.pc = "open"
            BY <1>2, <2>1, <2>2, Zenon
        <3>2. StreamInv'
            BY <2>1, <2>2, <3>1, OnlyMoves
        <3>3. QED
            BY <2>1, <3>1, <3>2
    <2>3. CASE ~ stream.script.adapted
        <3>1. stream.upstream_done = FALSE
            BY <1>1, <2>1
        <3>2. stream' = [stream EXCEPT !.pc = "ended", !.upstream_done = FALSE] /\ stream'.pc = "ended"
            BY <1>2, <2>1, <2>3, <3>1, Zenon
        <3>3. StreamInv'
            BY <2>1, <2>3, <3>2, OnlyMoves
        <3>4. QED
            BY <2>1, <3>2, <3>3
    <2>4. QED
        BY <2>2, <2>3
<1>8. CASE UpstreamError \/ Disconnect
    <2>1. /\ stream.pc = "open"
          /\ stream' = [stream EXCEPT !.pc = "aborted"] /\ UNCHANGED <<observer, client, charged>>
        BY <1>8 DEF UpstreamError, Disconnect, Polling
    <2> DEFINE done == stream.upstream_done
    <2>2. done => stream.read = Len(Bytes(stream.script)) /\ stream.script.adapted
        BY <1>1, <2>1 DEF PassedOn, Adapted
    <2>3. stream' = [stream EXCEPT !.pc = "aborted", !.upstream_done = done] /\ stream'.pc = "aborted"
        BY <1>2, <2>1, Zenon
    <2>4. done \in BOOLEAN /\ "aborted" \in {"open", "ended", "aborted"}
        BY <1>1
    <2>5. StreamInv'
        BY <2>1, <2>2, <2>3, <2>4, OnlyMoves
    <2>6. QED
        BY <2>1, <2>3, <2>5
<1>9. QED
    BY <1>3, <1>4, <1>5, <1>6, <1>7, <1>8 DEF StreamNext, Emit

(* The invariant gives the properties of the stream. *)
LEMMA StreamSafe ==
    ASSUME StreamInv
    PROVE  ForwardedIsTheResponse /\ ChargedForWhatWasForwarded
<1> SUFFICES ASSUME stream.pc # "none"
             PROVE  ForwardedIsTheResponse /\ ChargedForWhatWasForwarded
    BY DEF ForwardedIsTheResponse, ChargedForWhatWasForwarded
<1> DEFINE script == stream.script
           response == ResponseTo(script)
           rest == Unended(script)
           text == ResponseBytes(script)
<1>1. /\ WellFormed(script) /\ script \in Script /\ stream.read \in 0..Len(Bytes(script))
      /\ IF script.adapted THEN Adapted(stream, client) ELSE PassedOn(stream, client)
    BY DEF StreamInv, StreamOK, WellFormed
<1>2. /\ response \in Seq(Event) /\ rest \in Seq(LineType) /\ text = TextOf(response, rest)
      /\ ~ script.adapted => response = script.events
    BY <1>1, ResponseIs, ScriptFacts
<1>3. /\ text \in Seq(ByteType) /\ Len(response) \in Nat
      /\ \A k \in 0..Len(response) : Pos(response, k) \in Nat /\ Pos(response, k) <= Len(text)
      /\ Len(text) = Pos(response, Len(response)) + 3 * Len(rest)
    BY <1>2, StreamAt
<1>4. \E r \in 0..Len(text) : client = SubSeq(text, 1, r) /\ (stream.pc = "ended" => r = Len(text))
    <2>1. CASE script.adapted
        <3>1. PICK k \in 0..Len(Readable(script.events)), e \in 0..Len(response) :
                 AdaptedAt(stream, client, k, e)
            BY <1>1, <2>1 DEF Adapted
        <3>2. client = SubSeq(text, 1, Pos(response, e))
            BY <3>1 DEF AdaptedAt
        <3>3. stream.pc = "ended" => e = Len(response)
            BY <1>1, <2>1, <3>1 DEF Adapted, AdaptedAt
        <3>4. rest = <<>> /\ Len(<<>>) = 0
            BY <2>1 DEF Unended
        <3>5. Len(text) = Pos(response, Len(response))
            <4>1. Len(response) \in 0..Len(response)
                BY <1>3
            <4>2. Pos(response, Len(response)) \in Nat /\ 3 * 0 = 0
                BY <1>3, <4>1
            <4>3. QED
                BY <1>3, <3>4, <4>2
        <3>6. Pos(response, e) \in 0..Len(text)
            BY <1>3
        <3>7. QED
            BY <3>2, <3>3, <3>5, <3>6
    <2>2. CASE ~ script.adapted
        <3>1. text = Bytes(script)
            BY <1>1, <1>2, <2>2, ScriptFacts DEF Unended
        <3>2. client = SubSeq(text, 1, stream.read) /\ (stream.pc = "ended" => stream.read = Len(text))
            BY <1>1, <2>2, <3>1 DEF PassedOn
        <3>3. QED
            BY <1>1, <3>1, <3>2
    <2>3. QED
        BY <2>1, <2>2
<1>5. PICK r \in 0..Len(text) : client = SubSeq(text, 1, r) /\ (stream.pc = "ended" => r = Len(text))
    BY <1>4
<1>6. IsPrefix(client, text) /\ (stream.pc = "ended" => client = text) /\ Len(client) = r
    <2> HIDE DEF text
    <2>1. r \in Nat /\ r <= Len(text) /\ Len(text) \in Nat
        BY <1>3
    <2>2. SubSeq(text, 1, r) \in Seq(ByteType) /\ Len(SubSeq(text, 1, r)) = r
        BY <1>3, <2>1
    <2>3. \A s \in Seq(ByteType) : SubSeq(s, 1, Len(s)) = s
        OBVIOUS
    <2>4. SubSeq(client, 1, Len(client)) = client /\ SubSeq(text, 1, Len(text)) = text
        BY <1>3, <1>5, <2>2, <2>3
    <2>5. QED
        BY <1>5, <2>1, <2>2, <2>4 DEF IsPrefix
<1>7. ForwardedIsTheResponse
    BY <1>6 DEF ForwardedIsTheResponse
<1>8. Observed(response, rest, Len(client), observer, charged) /\ Len(client) \in Nat
    BY <1>6 DEF StreamInv
<1>9. ChargedForWhatWasForwarded
    <2> HIDE DEF response, rest
    <2>1. LET readable == Readable(response)
              usage(k) == parse_chunk_usage(parse(Encoded(readable[k])))
              got == {k \in 1..Len(readable) :
                         /\ Len(Wire(SubSeq(readable, 1, k))) <= Len(client)
                         /\ usage(k) # None}
          IN  charged = IF got = {} THEN None
                        ELSE compute(observer.provider, observer.model, usage(Min(got)))
        BY <1>2, <1>8, ObservedCharge
    <2>2. QED
        BY <2>1, Zenon DEF ChargedForWhatWasForwarded, response
<1>10. QED
    BY <1>7, <1>9
=============================================================================

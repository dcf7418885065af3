---------------------------- MODULE Channels_proofs ---------------------------
(***************************************************************************)
(* Proofs by induction over what the components compute - rounds over a    *)
(* graph of tasks, sums, sequences that are filtered or joined - and what  *)
(* follows from them: plans in layers, the swarm's table of tasks, and     *)
(* texts and requests that come in or go out in pieces.  And proofs about  *)
(* the keys of a provider and a conversation that is polled; all for every *)
(* value of the constants.                                                 *)
(***************************************************************************)
EXTENDS Answers, CodexStream, Context, Delegation, Queen, Requests, Slack,
        Stream,
        FiniteSetTheorems, SequenceTheorems, WellFoundedInduction, TLAPS,
        SequencesExt

-----------------------------------------------------------------------------
(* Induction over a set of numbers, from which what a recursive function   *)
(* computes is proved: values that are computed in rounds, and sequences   *)
(* that are filtered.  (Stores_proofs has it too: neither extends the      *)
(* other, so that the provers see few components at a time.)               *)

LEMMA LeastThere ==
  ASSUME NEW T \in SUBSET Nat, T # {}
  PROVE  \E n \in T : \A m \in T : n <= m
<1>1. PICK R : R = OpToRel(<, Nat)
  OBVIOUS
<1>2. IsWellFoundedOn(R, Nat)
  BY <1>1, NatLessThanWellFounded
<1>3. \A x, y \in Nat : y < x => <<y, x>> \in R
  BY <1>1 DEF OpToRel
<1>4. PICK n \in T : \A m \in T : ~ (<<m, n>> \in R)
  BY <1>2, WFMin
<1>5. \A m \in T : ~ (m < n)
  BY <1>3, <1>4
<1> QED BY <1>5

LEMMA AllUpTo ==
  ASSUME NEW N \in Nat, NEW T, 0 \in T, \A n \in 0 .. N : n + 1 <= N /\ n \in T => n + 1 \in T
  PROVE  0 .. N \subseteq T
<1>1. ASSUME (0 .. N) \ T # {} PROVE FALSE
  <2>1. PICK n \in (0 .. N) \ T : \A m \in (0 .. N) \ T : n <= m
    <3>1. (0 .. N) \ T \in SUBSET Nat
      OBVIOUS
    <3> QED BY <1>1, <3>1, LeastThere
  <2>2. n # 0 /\ n \in 0 .. N /\ n \notin T
    BY <2>1
  <2>3. n - 1 \in 0 .. N /\ ~(n <= n - 1) /\ n - 1 + 1 = n /\ n <= N
    BY <2>2
  <2>4. n - 1 \in T
    BY <2>1, <2>3
  <2> QED BY <2>2, <2>3, <2>4
<1> QED BY <1>1

(* The function that filters the first n elements of s.                    *)
FiltersTo(f, s, S, N) ==
  f = [n \in 0 .. N |-> IF n = 0 THEN <<>>
                        ELSE IF s[n] \in S THEN Append(f[n - 1], s[n]) ELSE f[n - 1]]

LEMMA FiltersExist ==
  ASSUME NEW s, NEW S, NEW N \in Nat
  PROVE  \E f : FiltersTo(f, s, S, N)
<1>1. PICK T : T = {n \in Nat : \E f : FiltersTo(f, s, S, n)}
  OBVIOUS
<1>2. 0 \in T
  <2>1. PICK f : f = [n \in 0 .. 0 |-> <<>>]
    OBVIOUS
  <2>2. FiltersTo(f, s, S, 0)
    BY <2>1 DEF FiltersTo
  <2> QED BY <1>1, <2>2
<1>3. ASSUME NEW n \in 0 .. N, n \in T PROVE n + 1 \in T
  <2>1. PICK f : FiltersTo(f, s, S, n)
    BY <1>1, <1>3
  <2>2. PICK last : last = IF s[n + 1] \in S THEN Append(f[n], s[n + 1]) ELSE f[n]
    OBVIOUS
  <2>3. PICK g : g = [m \in 0 .. n + 1 |-> IF m = n + 1 THEN last ELSE f[m]]
    OBVIOUS
  <2>4. n \in Nat /\ DOMAIN f = 0 .. n /\ DOMAIN g = 0 .. n + 1
    BY <2>1, <2>3 DEF FiltersTo
  <2>5. \A m \in 0 .. n : g[m] = f[m]
    BY <2>3, <2>4
  <2>6. g[n + 1] = last
    BY <2>3, <2>4
  <2>7. ASSUME NEW m \in 0 .. n + 1
        PROVE  g[m] = IF m = 0 THEN <<>>
                      ELSE IF s[m] \in S THEN Append(g[m - 1], s[m]) ELSE g[m - 1]
    <3>1. CASE m = n + 1
      <4>1. m # 0 /\ m - 1 = n /\ g[n] = f[n]
        BY <2>4, <2>5, <3>1
      <4> QED BY <2>2, <2>6, <3>1, <4>1, Zenon
    <3>2. CASE m # n + 1
      <4>1. m \in 0 .. n /\ (m # 0 => m - 1 \in 0 .. n)
        BY <2>4, <3>2
      <4>2. f[m] = IF m = 0 THEN <<>>
                   ELSE IF s[m] \in S THEN Append(f[m - 1], s[m]) ELSE f[m - 1]
        BY <2>1, <4>1, Zenon DEF FiltersTo
      <4>3. g[m] = f[m] /\ (m # 0 => g[m - 1] = f[m - 1])
        BY <2>5, <4>1
      <4> QED BY <4>2, <4>3, Zenon
    <3> QED BY <3>1, <3>2
  <2>8. g = [m \in 0 .. n + 1 |-> IF m = 0 THEN <<>>
                      ELSE IF s[m] \in S THEN Append(g[m - 1], s[m]) ELSE g[m - 1]]
    <3>1. g = [m \in 0 .. n + 1 |-> g[m]]
      BY <2>3
    <3> QED BY <2>7, <3>1, Zenon
  <2>9. FiltersTo(g, s, S, n + 1)
    BY <2>8 DEF FiltersTo
  <2> QED BY <1>1, <2>4, <2>9
<1>4. 0 .. N \subseteq T
  BY <1>2, <1>3, AllUpTo
<1> QED BY <1>1, <1>4

(* What is left is what is kept, and only that.                            *)
WithinTo(t, n, x) == \E i \in 1 .. n : t[i] = x
LEMMA FilteredTo ==
  ASSUME NEW X, NEW s \in Seq(X), NEW S, NEW f, FiltersTo(f, s, S, Len(s)), NEW m \in 0 .. Len(s)
  PROVE  /\ f[m] = (IF m = 0 THEN <<>>
                    ELSE IF s[m] \in S THEN Append(f[m - 1], s[m]) ELSE f[m - 1])
         /\ f[m] \in Seq(X)
         /\ \A x : WithinTo(f[m], Len(f[m]), x) <=> x \in S /\ WithinTo(s, m, x)
<1>1. PICK T : T = {n \in 0 .. Len(s) : /\ f[n] \in Seq(X)
                       /\ \A x : WithinTo(f[n], Len(f[n]), x) <=> x \in S /\ WithinTo(s, n, x)}
  OBVIOUS
<1>2. Len(s) \in Nat /\ \A i \in 1 .. Len(s) : s[i] \in X
  OBVIOUS
<1>0. ASSUME NEW n \in 0 .. Len(s)
      PROVE  f[n] = IF n = 0 THEN <<>>
                    ELSE IF s[n] \in S THEN Append(f[n - 1], s[n]) ELSE f[n - 1]
  BY Zenon DEF FiltersTo
<1>3. 0 \in T
  <2>1. f[0] = <<>>
    BY <1>2 DEF FiltersTo
  <2>2. f[0] \in Seq(X) /\ Len(f[0]) = 0
    BY <2>1
  <2> QED BY <1>1, <1>2, <2>2 DEF WithinTo
<1>4. ASSUME NEW n \in 0 .. Len(s), n + 1 <= Len(s), n \in T PROVE n + 1 \in T
  <2>1. f[n] \in Seq(X) /\ \A x : WithinTo(f[n], Len(f[n]), x) <=> x \in S /\ WithinTo(s, n, x)
    BY <1>1, <1>4
  <2>2. n + 1 \in 0 .. Len(s) /\ n + 1 # 0 /\ n + 1 - 1 = n /\ n + 1 \in 1 .. Len(s)
    BY <1>2, <1>4
  <2>3. f[n + 1] = IF s[n + 1] \in S THEN Append(f[n], s[n + 1]) ELSE f[n]
    <3>1. f[n + 1] = IF n + 1 = 0 THEN <<>>
                     ELSE IF s[n + 1] \in S THEN Append(f[n + 1 - 1], s[n + 1]) ELSE f[n + 1 - 1]
      BY <1>0, <2>2
    <3> QED BY <2>2, <3>1, Zenon
  <2>4. \A x : WithinTo(s, n + 1, x) <=> WithinTo(s, n, x) \/ s[n + 1] = x
    <3>1. \A i : i \in 1 .. n + 1 <=> i \in 1 .. n \/ i = n + 1
      BY <1>2, <1>4
    <3>2. ASSUME NEW x, NEW i \in 1 .. n + 1, s[i] = x PROVE WithinTo(s, n, x) \/ s[n + 1] = x
      BY <3>1, <3>2 DEF WithinTo
    <3>3. ASSUME NEW x, WithinTo(s, n, x) \/ s[n + 1] = x PROVE WithinTo(s, n + 1, x)
      BY <3>1, <3>3 DEF WithinTo
    <3> QED BY <3>2, <3>3 DEF WithinTo
  <2>5. CASE s[n + 1] \in S
    <3>1. PICK a : a = s[n + 1]
      OBVIOUS
    <3>2. PICK t : t = f[n]
      OBVIOUS
    <3>3. a \in X /\ t \in Seq(X) /\ f[n + 1] = Append(t, a)
      BY <1>2, <2>1, <2>2, <2>3, <2>5, <3>1, <3>2
    <3>4. /\ f[n + 1] \in Seq(X) /\ Len(f[n + 1]) = Len(t) + 1 /\ Len(t) \in Nat
          /\ f[n + 1][Len(t) + 1] = a /\ \A i \in 1 .. Len(t) : f[n + 1][i] = t[i]
      BY <3>3, AppendProperties
    <3>5. \A x : WithinTo(f[n + 1], Len(f[n + 1]), x) <=> WithinTo(t, Len(t), x) \/ a = x
      <4>1. \A i : i \in 1 .. Len(f[n + 1]) <=> i \in 1 .. Len(t) \/ i = Len(t) + 1
        BY <3>4
      <4> QED BY <3>4, <4>1, Zenon DEF WithinTo
    <3>6. \A x : WithinTo(f[n + 1], Len(f[n + 1]), x) <=> x \in S /\ WithinTo(s, n + 1, x)
      BY <2>1, <2>4, <2>5, <3>1, <3>2, <3>5, Zenon
    <3> QED BY <1>1, <2>2, <3>4, <3>6
  <2>6. CASE s[n + 1] \notin S
    <3>1. f[n + 1] = f[n]
      BY <2>3, <2>6
    <3>2. \A x : WithinTo(f[n + 1], Len(f[n + 1]), x) <=> x \in S /\ WithinTo(s, n + 1, x)
      BY <2>1, <2>4, <2>6, <3>1, Zenon
    <3> QED BY <1>1, <2>1, <2>2, <3>1, <3>2
  <2> QED BY <2>5, <2>6
<1>5. m \in T
  <2>1. \A n \in 0 .. Len(s) : n + 1 <= Len(s) /\ n \in T => n + 1 \in T
    BY <1>4
  <2>2. 0 .. Len(s) \subseteq T
    BY <1>2, <1>3, <2>1, AllUpTo, Zenon
  <2> QED BY <2>2
<1> QED BY <1>0, <1>1, <1>5

LEMMA FilteredIs ==
  ASSUME NEW X, NEW s \in Seq(X), NEW S, NEW f, FiltersTo(f, s, S, Len(s))
  PROVE  /\ f[Len(s)] \in Seq(X)
         /\ \A x : Contains(f[Len(s)], x) <=> x \in S /\ Contains(s, x)
<1>1. Len(s) \in 0 .. Len(s)
  OBVIOUS
<1>2. /\ f[Len(s)] \in Seq(X)
      /\ \A x : WithinTo(f[Len(s)], Len(f[Len(s)]), x) <=> x \in S /\ WithinTo(s, Len(s), x)
  BY <1>1, FilteredTo, Zenon
<1>3. \A t, x : Contains(t, x) <=> WithinTo(t, Len(t), x)
  BY DEF Contains, WithinTo
<1> QED BY <1>2, <1>3

(* And what is there once stays there once.                                *)
LEMMA OnceFiltered ==
  ASSUME NEW X, NEW s \in Seq(X), NEW S, NEW f, FiltersTo(f, s, S, Len(s)),
         \A i, j \in 1 .. Len(s) : s[i] = s[j] /\ s[i] \in S => i = j
  PROVE  \A i, j \in 1 .. Len(f[Len(s)]) : f[Len(s)][i] = f[Len(s)][j] => i = j
<1> DEFINE Once(t) == \A i, j \in 1 .. Len(t) : t[i] = t[j] => i = j
<1>1. PICK T : T = {n \in 0 .. Len(s) : Once(f[n])}
  OBVIOUS
<1>2. Len(s) \in Nat
  OBVIOUS
<1>3. 0 \in T
  <2>1. f[0] = <<>>
    BY <1>2, FilteredTo
  <2>2. Once(f[0])
    BY <2>1
  <2> QED BY <1>1, <1>2, <2>2
<1>4. ASSUME NEW n \in 0 .. Len(s), n + 1 <= Len(s), n \in T PROVE n + 1 \in T
  <2>1. n + 1 \in 0 .. Len(s) /\ n + 1 # 0 /\ n + 1 - 1 = n /\ n + 1 \in 1 .. Len(s)
    BY <1>2, <1>4
  <2>2. f[n + 1] = IF s[n + 1] \in S THEN Append(f[n], s[n + 1]) ELSE f[n]
    <3>1. f[n + 1] = IF n + 1 = 0 THEN <<>>
                     ELSE IF s[n + 1] \in S THEN Append(f[n + 1 - 1], s[n + 1]) ELSE f[n + 1 - 1]
      BY <2>1, FilteredTo
    <3> QED BY <2>1, <3>1, Zenon
  <2>3. f[n] \in Seq(X) /\ \A x : WithinTo(f[n], Len(f[n]), x) => WithinTo(s, n, x)
    BY FilteredTo
  <2>4. Once(f[n])
    BY <1>1, <1>4
  <2>5. CASE s[n + 1] \in S
    <3>1. PICK a, t : a = s[n + 1] /\ t = f[n]
      OBVIOUS
    <3>2. a \in X /\ t \in Seq(X) /\ f[n + 1] = Append(t, a)
      BY <2>1, <2>2, <2>3, <2>5, <3>1
    <3>3. /\ Len(f[n + 1]) = Len(t) + 1 /\ Len(t) \in Nat
          /\ f[n + 1][Len(t) + 1] = a /\ \A i \in 1 .. Len(t) : f[n + 1][i] = t[i]
      BY <3>2, AppendProperties
    <3>4. ASSUME NEW i \in 1 .. Len(t), t[i] = a PROVE FALSE
      <4>1. WithinTo(s, n, a)
        BY <2>3, <3>1, <3>4 DEF WithinTo
      <4>2. PICK j \in 1 .. n : s[j] = a
        BY <4>1 DEF WithinTo
      <4>3. j \in 1 .. Len(s) /\ j # n + 1
        BY <1>2, <2>1
      <4> QED BY <2>1, <2>5, <3>1, <4>2, <4>3
    <3>5. ASSUME NEW i \in 1 .. Len(f[n + 1]), NEW j \in 1 .. Len(f[n + 1]),
                 f[n + 1][i] = f[n + 1][j]
          PROVE  i = j
      <4>1. \A k \in 1 .. Len(f[n + 1]) : k \in 1 .. Len(t) \/ k = Len(t) + 1
        BY <3>3
      <4>2. Once(t)
        BY <2>4, <3>1
      <4> QED BY <3>3, <3>4, <3>5, <4>1, <4>2
    <3> QED BY <1>1, <2>1, <3>5
  <2>6. CASE s[n + 1] \notin S
    <3>1. f[n + 1] = f[n]
      BY <2>2, <2>6
    <3> QED BY <1>1, <2>1, <2>4, <3>1
  <2> QED BY <2>5, <2>6
<1>5. Len(s) \in T
  <2>1. \A n \in 0 .. Len(s) : n + 1 <= Len(s) /\ n \in T => n + 1 \in T
    BY <1>4
  <2>2. 0 .. Len(s) \subseteq T
    BY <1>2, <1>3, <2>1, AllUpTo, Zenon
  <2> QED BY <1>2, <2>2
<1> QED BY <1>1, <1>5

(* A value that is computed in rounds: the function that begins with a and *)
(* goes on with F exists, and stays where F stays.                         *)
Rounded(f, a, F, N) == f = [n \in 0 .. N |-> IF n = 0 THEN a ELSE F[f[n - 1]]]

LEMMA RoundsExist ==
  ASSUME NEW a, NEW F, NEW N \in Nat
  PROVE  \E f : Rounded(f, a, F, N)
<1>1. PICK T : T = {n \in Nat : \E f : Rounded(f, a, F, n)}
  OBVIOUS
<1>2. 0 \in T
  <2>1. PICK f : f = [n \in 0 .. 0 |-> a]
    OBVIOUS
  <2>2. Rounded(f, a, F, 0)
    BY <2>1 DEF Rounded
  <2> QED BY <1>1, <2>2
<1>3. ASSUME NEW n \in 0 .. N, n \in T PROVE n + 1 \in T
  <2>1. PICK f : Rounded(f, a, F, n)
    BY <1>1, <1>3
  <2>2. PICK g : g = [m \in 0 .. n + 1 |-> IF m = n + 1 THEN F[f[n]] ELSE f[m]]
    OBVIOUS
  <2>3. n \in Nat /\ DOMAIN f = 0 .. n /\ DOMAIN g = 0 .. n + 1
    BY <2>1, <2>2 DEF Rounded
  <2>4. \A m \in 0 .. n : g[m] = f[m]
    BY <2>2, <2>3
  <2>5. g[n + 1] = F[f[n]]
    BY <2>2, <2>3
  <2>6. ASSUME NEW m \in 0 .. n + 1 PROVE g[m] = IF m = 0 THEN a ELSE F[g[m - 1]]
    <3>1. CASE m = n + 1
      <4>1. m # 0 /\ m - 1 = n /\ g[n] = f[n]
        BY <2>3, <2>4, <3>1
      <4> QED BY <2>5, <3>1, <4>1, Zenon
    <3>2. CASE m # n + 1
      <4>1. m \in 0 .. n /\ (m # 0 => m - 1 \in 0 .. n)
        BY <2>3, <3>2
      <4>2. f[m] = IF m = 0 THEN a ELSE F[f[m - 1]]
        BY <2>1, <4>1, Zenon DEF Rounded
      <4>3. g[m] = f[m] /\ (m # 0 => g[m - 1] = f[m - 1])
        BY <2>4, <4>1
      <4> QED BY <4>2, <4>3, Zenon
    <3> QED BY <3>1, <3>2
  <2>7. g = [m \in 0 .. n + 1 |-> IF m = 0 THEN a ELSE F[g[m - 1]]]
    <3>1. g = [m \in 0 .. n + 1 |-> g[m]]
      BY <2>2
    <3> QED BY <2>6, <3>1, Zenon
  <2>8. Rounded(g, a, F, n + 1)
    BY <2>7 DEF Rounded
  <2> QED BY <1>1, <2>3, <2>8
<1>4. 0 .. N \subseteq T
  BY <1>2, <1>3, AllUpTo
<1> QED BY <1>1, <1>4

LEMMA RoundsStay ==
  ASSUME NEW f, NEW a, NEW F, NEW N \in Nat, Rounded(f, a, F, N),
         NEW A, a \in A, \A x \in A : F[x] \in A
  PROVE  /\ f[0] = a
         /\ \A n \in 0 .. N : f[n] \in A
         /\ \A n \in 1 .. N : f[n] = F[f[n - 1]]
<1>1. \A n \in 0 .. N : f[n] = IF n = 0 THEN a ELSE F[f[n - 1]]
  BY Zenon DEF Rounded
<1>2. \A n \in 1 .. N : n \in 0 .. N /\ n # 0
  OBVIOUS
<1>3. \A n \in 1 .. N : f[n] = F[f[n - 1]]
  BY <1>1, <1>2, Zenon
<1>4. 0 \in 0 .. N
  OBVIOUS
<1>5. f[0] = a
  BY <1>1, <1>4, Zenon
<1>6. PICK T : T = {n \in 0 .. N : f[n] \in A}
  OBVIOUS
<1>7. 0 \in T
  BY <1>4, <1>5, <1>6
<1>8. ASSUME NEW n \in 0 .. N, n + 1 <= N, n \in T PROVE n + 1 \in T
  <2>1. n + 1 \in 1 .. N /\ n + 1 - 1 = n /\ n + 1 \in 0 .. N
    BY <1>8
  <2>2. f[n + 1] = F[f[n]]
    BY <1>3, <2>1
  <2>3. f[n + 1] \in A
    BY <1>6, <1>8, <2>2
  <2> QED BY <1>6, <2>1, <2>3
<1>9. 0 .. N \subseteq T
  BY <1>7, <1>8, AllUpTo
<1> QED BY <1>3, <1>5, <1>6, <1>9

-----------------------------------------------------------------------------
(* The largest of finitely many numbers, and the sum of weights over a set: *)
(* Max and MapThenSumSet of the community modules.                         *)

LEMMA MaxOf ==
  ASSUME NEW T, IsFiniteSet(T), NEW g \in [T -> Nat], NEW Q \in SUBSET T,
         NEW R, R = {0} \cup {g[t] : t \in Q}
  PROVE  Max(R) \in Nat /\ \A t \in Q : g[t] <= Max(R)
<1>1. PICK n \in Nat : ExistsSurjection(1 .. n, T)
  BY FS_NatSurjection
<1>2. PICK h \in [1 .. n -> T] : \A t \in T : \E i \in 1 .. n : h[i] = t
  BY <1>1 DEF ExistsSurjection, Surjection
<1>3. PICK B : B = {k \in 0 .. n : \E b \in Nat : \A i \in 1 .. k : g[h[i]] <= b}
  OBVIOUS
<1>4. 0 \in B
  BY <1>3
<1>5. ASSUME NEW k \in 0 .. n, k + 1 <= n, k \in B PROVE k + 1 \in B
  <2>1. PICK b \in Nat : \A i \in 1 .. k : g[h[i]] <= b
    BY <1>3, <1>5
  <2>2. k + 1 \in 1 .. n /\ k + 1 \in 0 .. n /\ h[k + 1] \in T
    BY <1>5
  <2>3. PICK c : c = g[h[k + 1]]
    OBVIOUS
  <2>4. c \in Nat
    BY <2>2, <2>3
  <2>5. \A i \in 1 .. k + 1 : g[h[i]] <= b + c
    <3>1. ASSUME NEW i \in 1 .. k + 1 PROVE g[h[i]] <= b + c
      <4>1. CASE i = k + 1
        BY <2>3, <2>4, <4>1
      <4>2. CASE i # k + 1
        <5>1. i \in 1 .. k /\ i \in 1 .. n
          BY <1>5, <4>2
        <5>2. g[h[i]] \in Nat /\ g[h[i]] <= b
          BY <2>1, <5>1
        <5> QED BY <2>4, <5>2
      <4> QED BY <4>1, <4>2
    <3> QED BY <3>1
  <2>6. b + c \in Nat
    BY <2>4
  <2> QED BY <1>3, <2>2, <2>5, <2>6
<1>6. n \in B
  <2>1. 0 .. n \subseteq B
    BY <1>4, <1>5, AllUpTo
  <2> QED BY <2>1
<1>7. PICK b \in Nat : \A i \in 1 .. n : g[h[i]] <= b
  BY <1>3, <1>6
<1>8. \A t \in T : g[t] <= b
  BY <1>2, <1>7
<1>9. R \in SUBSET Nat /\ 0 \in R /\ (\A t \in Q : g[t] \in R)
  OBVIOUS
<1>10. PICK U : U = {m \in Nat : \A y \in R : y <= m}
  OBVIOUS
<1>11. b \in U
  BY <1>8, <1>10
<1>12. PICK m \in U : \A k \in U : m <= k
  <2>1. U \in SUBSET Nat /\ U # {}
    BY <1>10, <1>11
  <2> QED BY <2>1, LeastThere
<1>13. m \in R
  <2>1. ASSUME m \notin R PROVE FALSE
    <3>1. m # 0 /\ m \in Nat /\ \A y \in R : y <= m
      BY <1>9, <1>10, <2>1
    <3>2. m - 1 \in Nat /\ ~(m <= m - 1)
      BY <3>1
    <3>3. \A y \in R : y <= m - 1
      BY <1>9, <2>1, <3>1
    <3> QED BY <1>10, <1>12, <3>2, <3>3
  <2> QED BY <2>1
<1>14. \A y \in R : m >= y
  BY <1>9, <1>10
<1>15. Max(R) \in R /\ \A y \in R : Max(R) >= y
  BY <1>13, <1>14, Zenon DEF Max
<1> QED BY <1>9, <1>15

Sums(f, w, S) ==
  f = [s \in SUBSET S |-> IF s = {} THEN 0
                          ELSE w[CHOOSE x \in s : TRUE] + f[s \ {CHOOSE x \in s : TRUE}]]

LEMMA SumExists ==
  ASSUME NEW S, IsFiniteSet(S), NEW w \in [S -> Nat]
  PROVE  \E f : Sums(f, w, S)
<1>1. PICK P : P = SUBSET S
  OBVIOUS
<1>2. PICK c : c = [s \in P |-> CHOOSE x \in s : TRUE]
  OBVIOUS
<1>3. \A s \in P : s # {} => c[s] \in s
  BY <1>2
<1>4. PICK F : F = [g \in [P -> Nat] |-> [s \in P |-> IF s = {} THEN 0 ELSE w[c[s]] + g[s \ {c[s]}]]]
  OBVIOUS
<1>5. PICK a : a = [s \in P |-> 0]
  OBVIOUS
<1>6. PICK N : N = Cardinality(S)
  OBVIOUS
<1>7. N \in Nat /\ \A s \in P : IsFiniteSet(s) /\ Cardinality(s) \in 0 .. N
  BY <1>1, <1>6, FS_CardinalityType, FS_Subset
<1>8. PICK f : Rounded(f, a, F, N)
  BY <1>7, RoundsExist
<1>9. PICK A : A = [P -> Nat]
  OBVIOUS
<1>10. \A s \in P : s # {} => s \ {c[s]} \in P /\ w[c[s]] \in Nat
  BY <1>1, <1>3
<1>11. ASSUME NEW g \in A PROVE F[g] \in A
  <2>1. F[g] = [s \in P |-> IF s = {} THEN 0 ELSE w[c[s]] + g[s \ {c[s]}]]
    BY <1>4, <1>9
  <2>2. \A s \in P : s # {} => w[c[s]] + g[s \ {c[s]}] \in Nat
    BY <1>9, <1>10
  <2> QED BY <1>9, <2>1, <2>2
<1>12. a \in A
  BY <1>5, <1>9
<1>13. /\ f[0] = a /\ \A n \in 0 .. N : f[n] \in A
       /\ \A n \in 1 .. N : f[n] = F[f[n - 1]]
  BY <1>7, <1>8, <1>11, <1>12, RoundsStay
<1>14. ASSUME NEW n \in 0 .. N, NEW s \in P
       PROVE  F[f[n]][s] = IF s = {} THEN 0 ELSE w[c[s]] + f[n][s \ {c[s]}]
  <2>1. f[n] \in [P -> Nat]
    BY <1>9, <1>13
  <2>2. F[f[n]] = [t \in P |-> IF t = {} THEN 0 ELSE w[c[t]] + f[n][t \ {c[t]}]]
    BY <1>4, <2>1
  <2> QED BY <2>2
<1>15. PICK B : B = {n \in 0 .. N : \A s \in P : Cardinality(s) <= n => F[f[n]][s] = f[n][s]}
  OBVIOUS
<1>16. 0 \in B
  <2>1. ASSUME NEW s \in P, Cardinality(s) <= 0 PROVE F[f[0]][s] = f[0][s]
    <3>1. Cardinality(s) = 0
      BY <1>7, <2>1
    <3>2. s = {}
      BY <1>7, <3>1, FS_EmptySet
    <3>3. 0 \in 0 .. N
      BY <1>7
    <3>4. F[f[0]][s] = 0
      BY <1>14, <3>2, <3>3
    <3>5. f[0][s] = 0
      BY <1>5, <1>13
    <3> QED BY <3>4, <3>5
  <2> QED BY <1>7, <1>15, <2>1
<1>17. ASSUME NEW n \in 0 .. N, n + 1 <= N, n \in B PROVE n + 1 \in B
  <2>1. n + 1 \in 0 .. N /\ n + 1 \in 1 .. N /\ n + 1 - 1 = n
    BY <1>17
  <2>2. f[n + 1] = F[f[n]]
    BY <1>13, <2>1
  <2>3. ASSUME NEW s \in P, Cardinality(s) <= n + 1 PROVE F[f[n + 1]][s] = f[n + 1][s]
    <3>1. CASE s = {}
      BY <1>14, <2>1, <2>2, <3>1
    <3>2. CASE s # {}
      <4>1. PICK x : x = c[s]
        OBVIOUS
      <4>2. PICK t : t = s \ {x}
        OBVIOUS
      <4>3. t \in P /\ x \in s
        BY <1>3, <1>10, <3>2, <4>1, <4>2
      <4>4. Cardinality(t) = Cardinality(s) - 1
        BY <1>7, <4>2, <4>3, FS_RemoveElement
      <4>5. Cardinality(t) <= n
        BY <1>7, <2>3, <4>4
      <4>6. F[f[n]][t] = f[n][t]
        BY <1>15, <1>17, <4>3, <4>5
      <4>7. F[f[n + 1]][s] = w[x] + f[n + 1][t]
        BY <1>14, <2>1, <3>2, <4>1, <4>2
      <4>8. F[f[n]][s] = w[x] + f[n][t]
        BY <1>14, <3>2, <4>1, <4>2
      <4> QED BY <2>2, <4>6, <4>7, <4>8
    <3> QED BY <3>1, <3>2
  <2> QED BY <1>15, <2>1, <2>3
<1>18. N \in B
  BY <1>7, <1>16, <1>17, AllUpTo
<1>19. PICK g : g = f[N]
  OBVIOUS
<1>20. g \in [P -> Nat] /\ N \in 0 .. N
  BY <1>7, <1>9, <1>13, <1>19
<1>21. \A s \in P : g[s] = IF s = {} THEN 0 ELSE w[c[s]] + g[s \ {c[s]}]
  <2>1. ASSUME NEW s \in P PROVE g[s] = IF s = {} THEN 0 ELSE w[c[s]] + g[s \ {c[s]}]
    <3>1. F[f[N]][s] = f[N][s]
      BY <1>7, <1>15, <1>18
    <3> QED BY <1>14, <1>19, <1>20, <3>1
  <2> QED BY <2>1
<1>22. \A s \in P : g[s] = IF s = {} THEN 0
                           ELSE w[CHOOSE x \in s : TRUE] + g[s \ {CHOOSE x \in s : TRUE}]
  <2>1. \A s \in P : c[s] = CHOOSE x \in s : TRUE
    BY <1>2
  <2> QED BY <1>21, <2>1, Zenon
<1>23. g = [s \in P |-> IF s = {} THEN 0
                        ELSE w[CHOOSE x \in s : TRUE] + g[s \ {CHOOSE x \in s : TRUE}]]
  <2>1. g = [s \in P |-> g[s]]
    BY <1>20
  <2> QED BY <1>22, <2>1, Zenon
<1>24. Sums(g, w, S)
  BY <1>1, <1>23, Zenon DEF Sums
<1> QED BY <1>24

(* The order of the elements does not matter.                              *)
LEMMA SumOf ==
  ASSUME NEW S, IsFiniteSet(S), NEW w \in [S -> Nat], NEW f, Sums(f, w, S)
  PROVE  /\ f[{}] = 0 /\ \A s \in SUBSET S : f[s] \in Nat
         /\ \A s \in SUBSET S : \A x \in s : f[s] = w[x] + f[s \ {x}]
<1>1. \A s \in SUBSET S : f[s] = IF s = {} THEN 0
                  ELSE w[CHOOSE x \in s : TRUE] + f[s \ {CHOOSE x \in s : TRUE}]
  BY Zenon DEF Sums
<1>2. \A s \in SUBSET S : s # {} => (CHOOSE x \in s : TRUE) \in s
  OBVIOUS
<1>3. \A s \in SUBSET S : s # {} => \E x \in s : f[s] = w[x] + f[s \ {x}]
  BY <1>1, <1>2, Zenon
<1>4. f[{}] = 0
  BY <1>1
<1>5. \A s \in SUBSET S : IsFiniteSet(s) /\ Cardinality(s) \in Nat
  BY FS_CardinalityType, FS_Subset
<1>6. PICK G : G = {s \in SUBSET S : f[s] \in Nat /\ \A x \in s : f[s] = w[x] + f[s \ {x}]}
  OBVIOUS
<1>7. ASSUME NEW s0 \in SUBSET S, s0 \notin G PROVE FALSE
  <2>1. PICK K : K = {k \in Nat : \E s \in SUBSET S : s \notin G /\ Cardinality(s) = k}
    OBVIOUS
  <2>2. Cardinality(s0) \in K
    BY <1>5, <1>7, <2>1
  <2>3. PICK k \in K : \A j \in K : k <= j
    BY <2>1, <2>2, LeastThere
  <2>4. PICK s \in SUBSET S : s \notin G /\ Cardinality(s) = k
    BY <2>1, <2>3
  <2>5. ASSUME NEW x \in s PROVE s \ {x} \in G
    <3>1. s \ {x} \in SUBSET S
      OBVIOUS
    <3>2. Cardinality(s \ {x}) = k - 1
      BY <1>5, <2>4, FS_RemoveElement
    <3>3. Cardinality(s \ {x}) \in Nat /\ k \in Nat
      BY <1>5, <2>1, <3>1
    <3>4. k - 1 \notin K
      BY <2>3, <3>2, <3>3
    <3> QED BY <2>1, <3>1, <3>2, <3>3, <3>4
  <2>6. s # {}
    <3>1. {} \in G
      <4>1. {} \in SUBSET S /\ f[{}] \in Nat /\ \A x \in {} : f[{}] = w[x] + f[{} \ {x}]
        BY <1>4
      <4> QED BY <1>6, <4>1, Zenon
    <3> QED BY <2>4, <3>1
  <2>7. PICK c \in s : f[s] = w[c] + f[s \ {c}]
    BY <1>3, <2>6
  <2>8. f[s \ {c}] \in Nat /\ w[c] \in Nat
    BY <1>6, <2>5
  <2>9. f[s] \in Nat
    BY <2>7, <2>8
  <2>10. ASSUME NEW x \in s PROVE f[s] = w[x] + f[s \ {x}]
    <3>1. CASE x = c
      BY <2>7, <3>1
    <3>2. CASE x # c
      <4>1. s \ {c} \in G /\ s \ {x} \in G
        BY <2>5
      <4>2. x \in s \ {c} /\ c \in s \ {x}
        BY <3>2
      <4>3. PICK r : r = s \ {c, x}
        OBVIOUS
      <4>4. (s \ {c}) \ {x} = r /\ (s \ {x}) \ {c} = r
        BY <4>3
      <4>5. f[s \ {c}] = w[x] + f[r] /\ f[s \ {x}] = w[c] + f[r]
        BY <1>6, <4>1, <4>2, <4>4
      <4>6. r \in SUBSET S
        BY <4>3
      <4>7. f[r] \in Nat
        <5>1. (s \ {c}) \ {x} \in G
          <6>1. Cardinality(s \ {c}) = k - 1 /\ IsFiniteSet(s \ {c}) /\ s \ {c} \in SUBSET S
            BY <1>5, <2>4, FS_RemoveElement
          <6>2. Cardinality((s \ {c}) \ {x}) = Cardinality(s \ {c}) - 1
            BY <4>2, <6>1, FS_RemoveElement
          <6>20. Cardinality(r) = k - 1 - 1 /\ k \in Nat
            BY <2>1, <4>4, <6>1, <6>2
          <6>3. Cardinality(r) \in Nat
            BY <1>5, <4>6
          <6>4. Cardinality(r) \notin K
            BY <2>3, <6>20, <6>3
          <6> QED BY <2>1, <4>4, <4>6, <6>3, <6>4
        <5> QED BY <1>6, <4>4, <5>1
      <4>8. w[x] \in Nat /\ w[c] \in Nat
        OBVIOUS
      <4> QED BY <2>7, <4>5, <4>7, <4>8
    <3> QED BY <3>1, <3>2
  <2> QED BY <1>6, <2>4, <2>9, <2>10
<1>8. SUBSET S \subseteq G
  BY <1>7
<1> QED BY <1>4, <1>6, <1>8

-----------------------------------------------------------------------------
(* The graph of sub-tasks, for any of them and any dependencies.           *)

(* Tasks are sorted, or visited, in rounds: those whose dependencies are.   *)
Sorts(f, S, D, N) ==
  f = [n \in 0 .. N |-> IF n = 0 THEN {} ELSE {t \in S : D[t] \subseteq f[n - 1]}]

LEMMA SortExists ==
  ASSUME NEW S, NEW D, NEW N \in Nat
  PROVE  \E f : Sorts(f, S, D, N)
<1>2. PICK F : F = [V \in SUBSET S |-> {t \in S : D[t] \subseteq V}]
  OBVIOUS
<1>3. PICK f : Rounded(f, {}, F, N)
  BY RoundsExist
<1>4. PICK A : A = SUBSET S
  OBVIOUS
<1>45. {} \in A /\ \A V \in A : F[V] \in A
  BY <1>2, <1>4
<1>5. /\ f[0] = {} /\ \A n \in 0 .. N : f[n] \in SUBSET S
      /\ \A n \in 1 .. N : f[n] = F[f[n - 1]]
  <2>1. /\ f[0] = {} /\ \A n \in 0 .. N : f[n] \in A
        /\ \A n \in 1 .. N : f[n] = F[f[n - 1]]
    BY <1>3, <1>45, RoundsStay
  <2> QED BY <1>4, <2>1
<1>6. \A n \in 0 .. N : f[n] = IF n = 0 THEN {} ELSE {t \in S : D[t] \subseteq f[n - 1]}
  <2>1. ASSUME NEW n \in 0 .. N, n # 0 PROVE f[n] = {t \in S : D[t] \subseteq f[n - 1]}
    <3>1. n \in 1 .. N /\ n - 1 \in 0 .. N
      BY <2>1
    <3>2. f[n] = F[f[n - 1]] /\ f[n - 1] \in SUBSET S
      BY <1>5, <3>1
    <3> QED BY <1>2, <3>2
  <2> QED BY <1>5, <2>1
<1>7. f = [n \in 0 .. N |-> IF n = 0 THEN {} ELSE {t \in S : D[t] \subseteq f[n - 1]}]
  <2>1. f = [n \in 0 .. N |-> f[n]]
    BY <1>3 DEF Rounded
  <2> QED BY <1>6, <2>1, Zenon
<1> QED BY <1>7, Zenon DEF Sorts

InRounds(f, S, D, N) ==
  f[0] = {} /\ \A n \in 1 .. N : \A t : t \in f[n] <=> t \in S /\ D[t] \subseteq f[n - 1]

LEMMA SortRounds ==
  ASSUME NEW S, NEW D, NEW N \in Nat, NEW f, Sorts(f, S, D, N)
  PROVE  InRounds(f, S, D, N)
<1>1. \A n \in 0 .. N : f[n] = IF n = 0 THEN {} ELSE {t \in S : D[t] \subseteq f[n - 1]}
  BY Zenon DEF Sorts
<1>2. 0 \in 0 .. N /\ \A n \in 1 .. N : n \in 0 .. N /\ n # 0
  OBVIOUS
<1>3. f[0] = {} /\ \A n \in 1 .. N : f[n] = {t \in S : D[t] \subseteq f[n - 1]}
  BY <1>1, <1>2, Zenon
<1> QED BY <1>3 DEF InRounds

(* When all are sorted, every set of them has one that waits for no other. *)
LEMMA SortHasFirst ==
  ASSUME NEW S, NEW D, NEW N \in Nat, NEW f, Sorts(f, S, D, N), f[N] = S,
         NEW Q \in SUBSET S, Q # {}
  PROVE  \E t \in Q : D[t] \cap Q = {}
<1>2. f[0] = {} /\ \A n \in 1 .. N : \A t : t \in f[n] <=> t \in S /\ D[t] \subseteq f[n - 1]
  BY SortRounds DEF InRounds
<1>3. PICK T : T = {n \in 0 .. N : f[n] \cap Q # {}}
  OBVIOUS
<1>4. N \in T
  BY <1>3
<1>5. PICK n \in T : \A m \in T : n <= m
  <2>1. T \in SUBSET Nat /\ T # {}
    BY <1>3, <1>4
  <2> QED BY <2>1, LeastThere
<1>6. n \in 1 .. N /\ n - 1 \in 0 .. N /\ n - 1 \notin T
  <2>1. n \in 0 .. N /\ n # 0
    BY <1>2, <1>3, <1>5
  <2>2. n - 1 \in 0 .. N /\ ~(n <= n - 1) /\ n \in 1 .. N
    BY <2>1
  <2> QED BY <1>5, <2>2
<1>7. PICK t \in Q : t \in f[n]
  BY <1>3, <1>5
<1>8. D[t] \subseteq f[n - 1]
  BY <1>2, <1>6, <1>7
<1>9. f[n - 1] \cap Q = {}
  BY <1>3, <1>6
<1> QED BY <1>8, <1>9

LEMMA VisitedHasFirst ==
  ASSUME Acyclic, NEW Q \in SUBSET SubTasks, Q # {}
  PROVE  \E t \in Q : deps[t] \cap Q = {}
<1>1. PICK N : N = Cardinality(SubTasks)
  OBVIOUS
<1>2. N \in Nat
  BY <1>1, DecompositionAssumption, FS_CardinalityType
<1>3. Visited = CHOOSE f : f = [n \in 0 .. N |-> IF n = 0 THEN {} ELSE {t \in SubTasks : deps[t] \subseteq f[n - 1]}]
  BY <1>1, Zenon DEF Visited
<1>4. Sorts(Visited, SubTasks, deps, N)
  <2>1. \E f : Sorts(f, SubTasks, deps, N)
    BY <1>2, SortExists
  <2> QED BY <1>3, <2>1, Zenon DEF Sorts
<1>5. Visited[N] = SubTasks
  BY <1>1 DEF Acyclic
<1> QED BY <1>2, <1>4, <1>5, SortHasFirst

(* What runs or has run has its dependencies behind it.                    *)
GraphInv ==
  /\ DecompositionTypeOK /\ DependenciesFirst
  /\ graph = "accepted" => Acyclic

LEMMA GraphStarts == DecompositionInit => GraphInv
BY DEF DecompositionInit, GraphInv, DecompositionTypeOK, DependenciesFirst

LEMMA GraphKept == GraphInv /\ [DecompositionNext]_decompositionVars => GraphInv'
<1> SUFFICES ASSUME GraphInv, [DecompositionNext]_decompositionVars PROVE GraphInv'
  OBVIOUS
<1> USE DEF GraphInv, DecompositionTypeOK
<1>1. deps' = deps
  BY DEF DecompositionNext, NewGraph, MarkRunning, MarkCompleted, MarkFailed, decompositionVars
<1>2. Acyclic' <=> Acyclic
  BY <1>1 DEF Acyclic, Visited
<1>3. CASE NewGraph
  <2>1. graph' = "accepted" => Acyclic
    BY <1>3 DEF NewGraph
  <2> QED BY <1>2, <1>3, <2>1 DEF NewGraph, DependenciesFirst, DepsMet
<1>4. ASSUME NEW t \in SubTasks, MarkRunning(t) PROVE GraphInv'
  <2>1. /\ subStatus' = [subStatus EXCEPT ![t] = "running"] /\ subStatus[t] = "pending" /\ DepsMet(t)
        /\ graph' = graph /\ lateReports' = lateReports /\ undone' = undone
    BY <1>4 DEF MarkRunning
  <2>2. DependenciesFirst'
    BY <1>1, <2>1 DEF DependenciesFirst, DepsMet
  <2> QED BY <1>1, <1>2, <2>1, <2>2
<1>5. ASSUME NEW t \in SubTasks, MarkCompleted(t) PROVE GraphInv'
  <2>1. /\ subStatus' = [subStatus EXCEPT ![t] = "completed"]
        /\ subStatus[t] = "running" \/ t \in lateReports
        /\ graph' = graph /\ lateReports' = lateReports \ {t} /\ undone' = undone
    BY <1>5 DEF MarkCompleted
  <2>2. DependenciesFirst'
    BY <1>1, <2>1 DEF DependenciesFirst, DepsMet
  <2> QED BY <1>1, <1>2, <2>1, <2>2
<1>6. ASSUME NEW t \in SubTasks, MarkFailed(t) PROVE GraphInv'
  <2>1. /\ subStatus' = [subStatus EXCEPT ![t] = "failed"] /\ graph' = graph
        /\ \/ lateReports' = lateReports
           \/ subStatus[t] = "running" /\ lateReports' = lateReports \cup {t}
        /\ undone' = IF subStatus[t] = "completed" THEN undone \cup {t} ELSE undone
    BY <1>6 DEF MarkFailed
  <2>2. DependenciesFirst'
    BY <1>1, <2>1 DEF DependenciesFirst, DepsMet
  <2> QED BY <1>1, <1>2, <2>1, <2>2
<1>7. CASE UNCHANGED decompositionVars
  BY <1>2, <1>7 DEF decompositionVars, DependenciesFirst, DepsMet
<1> QED BY <1>3, <1>4, <1>5, <1>6, <1>7 DEF DecompositionNext

LEMMA GraphMeans == GraphInv => GraphSound
<1> SUFFICES ASSUME GraphInv, graph = "accepted", SubTasks # {}, ~IsComplete, ~IsFailed,
                    \A t \in SubTasks : subStatus[t] # "running"
             PROVE  ReadyTasks # {}
  BY DEF GraphInv, GraphSound, GraphNotStuck
<1>1. PICK S : S = {t \in SubTasks : subStatus[t] = "pending"}
  OBVIOUS
<1>2. \A t \in SubTasks : t \in S \/ subStatus[t] = "completed"
  BY <1>1 DEF GraphInv, DecompositionTypeOK, IsFailed
<1>3. S # {} /\ S \in SUBSET SubTasks
  BY <1>1, <1>2 DEF IsComplete
<1>4. PICK t \in S : deps[t] \cap S = {}
  BY <1>3, VisitedHasFirst DEF GraphInv
<1>5. deps[t] \subseteq SubTasks
  BY <1>3 DEF GraphInv, DecompositionTypeOK
<1>6. DepsMet(t)
  BY <1>2, <1>4, <1>5 DEF DepsMet
<1> QED BY <1>1, <1>4, <1>6 DEF ReadyTasks

(* An accepted graph of sub-tasks never gets stuck, and is worked off in   *)
(* the order of its dependencies, whichever fail and however late their    *)
(* reports come; for any sub-tasks and dependencies.                       *)
THEOREM GraphSoundHolds == DecompositionSpec => []GraphSound
<1> QED BY GraphStarts, GraphKept, GraphMeans, PTL DEF DecompositionSpec

-----------------------------------------------------------------------------
(* A decomposition the swarm is started on has two tasks that are          *)
(* independent of each other.                                              *)

Longest(f, T, D, E, N) ==
  f = [n \in 0 .. N |->
         [t \in T |-> E[t] + (IF n = 0 THEN 0 ELSE Max({0} \cup {f[n - 1][e] : e \in D[t]}))]]

LEMMA LongestExists ==
  ASSUME NEW T, IsFiniteSet(T), NEW D \in [T -> SUBSET T], NEW E \in [T -> Nat], NEW N \in Nat
  PROVE  \E f : Longest(f, T, D, E, N)
<1>1. PICK A : A = [T -> Nat]
  OBVIOUS
<1>2. PICK F : F = [g \in A |-> [t \in T |-> E[t] + Max({0} \cup {g[e] : e \in D[t]})]]
  OBVIOUS
<1>3. PICK a : a = [t \in T |-> E[t] + 0]
  OBVIOUS
<1>4. PICK f : Rounded(f, a, F, N)
  BY RoundsExist
<1>5. a \in A
  BY <1>1, <1>3
<1>6. ASSUME NEW g \in A PROVE F[g] \in A
  <2>1. F[g] = [t \in T |-> E[t] + Max({0} \cup {g[e] : e \in D[t]})]
    BY <1>2, Zenon
  <2>2. ASSUME NEW t \in T PROVE E[t] + Max({0} \cup {g[e] : e \in D[t]}) \in Nat
    <3>1. PICK R : R = {0} \cup {g[e] : e \in D[t]}
      OBVIOUS
    <3>2. g \in [T -> Nat] /\ D[t] \in SUBSET T
      BY <1>1
    <3>3. Max(R) \in Nat
      BY <3>1, <3>2, MaxOf
    <3> QED BY <3>1, <3>3
  <2> QED BY <1>1, <2>1, <2>2
<1>7. /\ f[0] = a /\ \A n \in 0 .. N : f[n] \in A
      /\ \A n \in 1 .. N : f[n] = F[f[n - 1]]
  BY <1>4, <1>5, <1>6, RoundsStay
<1>8. ASSUME NEW n \in 0 .. N
      PROVE  f[n] = [t \in T |-> E[t] + (IF n = 0 THEN 0 ELSE Max({0} \cup {f[n - 1][e] : e \in D[t]}))]
  <2>1. CASE n = 0
    BY <1>3, <1>7, <2>1, Zenon
  <2>2. CASE n # 0
    <3>1. n \in 1 .. N /\ n - 1 \in 0 .. N
      BY <2>2
    <3>2. f[n] = F[f[n - 1]] /\ f[n - 1] \in A
      BY <1>7, <3>1
    <3> QED BY <1>2, <2>2, <3>2, Zenon
  <2> QED BY <2>1, <2>2
<1>9. f = [n \in 0 .. N |-> f[n]]
  BY <1>4 DEF Rounded
<1>10. f = [n \in 0 .. N |->
              [t \in T |-> E[t] + (IF n = 0 THEN 0 ELSE Max({0} \cup {f[n - 1][e] : e \in D[t]}))]]
  BY <1>8, <1>9, Zenon
<1> QED BY <1>10, Zenon DEF Longest

LEMMA LongestGrows ==
  ASSUME NEW T, IsFiniteSet(T), NEW D \in [T -> SUBSET T], NEW E \in [T -> Nat], NEW N \in Nat,
         NEW f, Longest(f, T, D, E, N)
  PROVE  /\ \A n \in 0 .. N : \A t \in T : f[n][t] \in Nat /\ f[n][t] >= E[t]
         /\ \A n \in 1 .. N : \A t \in T : \A e \in D[t] : f[n][t] >= E[t] + f[n - 1][e]
<1>1. ASSUME NEW n \in 0 .. N
      PROVE  f[n] = [t \in T |-> E[t] + (IF n = 0 THEN 0 ELSE Max({0} \cup {f[n - 1][e] : e \in D[t]}))]
  BY Zenon DEF Longest
<1>2. f[0] = [t \in T |-> E[t] + 0]
  <2>1. 0 \in 0 .. N
    OBVIOUS
  <2> QED BY <1>1, <2>1, Zenon
<1>3. ASSUME NEW n \in 0 .. N, n # 0, f[n - 1] \in [T -> Nat], NEW t \in T
      PROVE  /\ f[n][t] \in Nat /\ f[n][t] >= E[t]
             /\ \A e \in D[t] : f[n][t] >= E[t] + f[n - 1][e]
  <2>1. PICK g : g = f[n - 1]
    OBVIOUS
  <2>2. PICK R : R = {0} \cup {g[e] : e \in D[t]}
    OBVIOUS
  <2>3. g \in [T -> Nat] /\ D[t] \in SUBSET T /\ E[t] \in Nat
    BY <1>3, <2>1
  <2>4. Max(R) \in Nat /\ \A e \in D[t] : g[e] <= Max(R)
    BY <2>2, <2>3, MaxOf
  <2>5. f[n][t] = E[t] + Max(R)
    <3>1. f[n] = [u \in T |-> E[u] + Max({0} \cup {f[n - 1][e] : e \in D[u]})]
      BY <1>1, <1>3, Zenon
    <3>2. f[n][t] = E[t] + Max({0} \cup {f[n - 1][e] : e \in D[t]})
      BY <3>1, Zenon
    <3> QED BY <2>1, <2>2, <3>2, Zenon
  <2>6. \A e \in D[t] : g[e] \in Nat
    BY <2>3
  <2> QED BY <2>1, <2>3, <2>4, <2>5, <2>6
<1>4. PICK A : A = {n \in 0 .. N : f[n] \in [T -> Nat]}
  OBVIOUS
<1>5. 0 \in A
  BY <1>2, <1>4
<1>6. ASSUME NEW n \in 0 .. N, n + 1 <= N, n \in A PROVE n + 1 \in A
  <2>1. n + 1 \in 0 .. N /\ n + 1 # 0 /\ n + 1 - 1 = n /\ f[n] \in [T -> Nat]
    BY <1>4, <1>6
  <2>2. \A t \in T : f[n + 1][t] \in Nat
    BY <1>3, <2>1
  <2>3. PICK m : m = n + 1
    OBVIOUS
  <2>4. m \in 0 .. N
    BY <2>1, <2>3
  <2>5. f[m] = [t \in T |-> E[t] + (IF m = 0 THEN 0 ELSE Max({0} \cup {f[m - 1][e] : e \in D[t]}))]
    BY <1>1, <2>4, Zenon
  <2>6. f[n + 1] = [t \in T |-> f[n + 1][t]]
    BY <2>3, <2>5, Zenon
  <2>7. f[n + 1] \in [T -> Nat]
    BY <2>2, <2>6
  <2> QED BY <1>4, <2>1, <2>7
<1>7. \A n \in 0 .. N : f[n] \in [T -> Nat]
  <2>1. 0 .. N \subseteq A
    BY <1>5, <1>6, AllUpTo
  <2> QED BY <1>4, <2>1
<1>8. \A n \in 1 .. N : n \in 0 .. N /\ n # 0 /\ n - 1 \in 0 .. N
  OBVIOUS
<1>9. ASSUME NEW n \in 0 .. N, NEW t \in T PROVE f[n][t] \in Nat /\ f[n][t] >= E[t]
  <2>1. CASE n = 0
    BY <1>2, <2>1
  <2>2. CASE n # 0
    <3>1. n - 1 \in 0 .. N
      BY <2>2
    <3> QED BY <1>3, <1>7, <2>2, <3>1
  <2> QED BY <2>1, <2>2
<1>10. \A n \in 1 .. N : \A t \in T : \A e \in D[t] : f[n][t] >= E[t] + f[n - 1][e]
  BY <1>3, <1>7, <1>8
<1> QED BY <1>9, <1>10

(* When each round sorts one task at most, the longest path holds them all. *)
LEMMA ChainIsLong ==
  ASSUME NEW T, IsFiniteSet(T), T # {}, NEW D \in [T -> SUBSET T], NEW E \in [T -> Nat], NEW N \in Nat,
         NEW S, Sorts(S, T, D, N), S[N] = T,
         NEW W, Sums(W, E, T),
         NEW L, Longest(L, T, D, E, N),
         \A n \in 1 .. N : \A t, u \in T : t \in S[n] \ S[n - 1] /\ u \in S[n] \ S[n - 1] => t = u
  PROVE  \E t \in T : W[T] <= L[N][t]
<1>1. S[0] = {} /\ \A n \in 1 .. N : \A t : t \in S[n] <=> t \in T /\ D[t] \subseteq S[n - 1]
  <2>1. InRounds(S, T, D, N)
    BY SortRounds
  <2> QED BY <2>1 DEF InRounds
<1>2. /\ \A n \in 0 .. N : \A t \in T : L[n][t] \in Nat /\ L[n][t] >= E[t]
      /\ \A n \in 1 .. N : \A t \in T : \A e \in D[t] : L[n][t] >= E[t] + L[n - 1][e]
  BY LongestGrows
<1>3. /\ W[{}] = 0 /\ \A s \in SUBSET T : W[s] \in Nat
      /\ \A s \in SUBSET T : \A x \in s : W[s] = E[x] + W[s \ {x}]
  BY SumOf
<1>4. ASSUME NEW n \in 0 .. N PROVE S[n] \in SUBSET T
  <2>1. n = 0 \/ n \in 1 .. N
    OBVIOUS
  <2> QED BY <1>1, <2>1
<1>5. PICK M : M = {n \in 0 .. N : n # 0 => S[n - 1] \subseteq S[n]}
  OBVIOUS
<1>6. ASSUME NEW n \in 0 .. N, n + 1 <= N, n \in M PROVE n + 1 \in M
  <2>1. n + 1 \in 1 .. N /\ n + 1 - 1 = n /\ (n # 0 => n \in 1 .. N) /\ n + 1 \in 0 .. N
    BY <1>6
  <2>2. S[n] \subseteq S[n + 1]
    <3>1. CASE n = 0
      BY <1>1, <3>1
    <3>2. CASE n # 0
      <4>1. S[n - 1] \subseteq S[n] /\ n \in 1 .. N
        BY <1>5, <1>6, <2>1, <3>2
      <4>2. \A t : t \in S[n] => t \in T /\ D[t] \subseteq S[n - 1]
        BY <1>1, <4>1
      <4>3. \A t : t \in S[n + 1] <=> t \in T /\ D[t] \subseteq S[n]
        BY <1>1, <2>1
      <4> QED BY <4>1, <4>2, <4>3
    <3> QED BY <3>1, <3>2
  <2> QED BY <1>5, <2>1, <2>2
<1>7. \A n \in 1 .. N : S[n - 1] \subseteq S[n]
  <2>1. 0 \in M
    BY <1>5
  <2>2. 0 .. N \subseteq M
    BY <1>6, <2>1, AllUpTo
  <2>3. \A n \in 1 .. N : n \in 0 .. N /\ n # 0
    OBVIOUS
  <2> QED BY <1>5, <2>2, <2>3
<1>8. PICK G : G = {n \in 0 .. N : \A t \in T : n # 0 /\ t \in S[n] \ S[n - 1] =>
                                     \A j \in n .. N : W[S[n]] <= L[j][t]}
  OBVIOUS
<1>9. ASSUME NEW n \in 0 .. N, n + 1 <= N, n \in G PROVE n + 1 \in G
  <2>1. n + 1 \in 1 .. N /\ n + 1 - 1 = n /\ (n # 0 => n \in 1 .. N) /\ n + 1 \in 0 .. N
    BY <1>9
  <2>2. ASSUME NEW t \in T, t \in S[n + 1] \ S[n], NEW j \in n + 1 .. N
        PROVE  W[S[n + 1]] <= L[j][t]
    <3>1. \A u \in T : u \in S[n + 1] \ S[n] => u = t
      BY <2>1, <2>2
    <3>2. S[n] \in SUBSET T /\ S[n + 1] \in SUBSET T /\ S[n] \subseteq S[n + 1]
      BY <1>4, <1>7, <2>1
    <3>3. S[n + 1] \ {t} = S[n]
      BY <2>2, <3>1, <3>2
    <3>4. W[S[n + 1]] = E[t] + W[S[n]]
      <4>1. t \in S[n + 1]
        BY <2>2
      <4>2. W[S[n + 1]] = E[t] + W[S[n + 1] \ {t}]
        BY <1>3, <3>2, <4>1, Zenon
      <4> QED BY <3>3, <4>2, Zenon
    <3>5. j \in 1 .. N /\ j \in 0 .. N /\ j - 1 \in 0 .. N /\ j - 1 \in n .. N
      OBVIOUS
    <3>6. CASE n = 0
      <4>1. W[S[n]] = 0
        BY <1>1, <1>3, <3>6
      <4>2. L[j][t] \in Nat /\ L[j][t] >= E[t] /\ E[t] \in Nat
        BY <1>2, <3>5
      <4> QED BY <3>4, <4>1, <4>2
    <3>7. CASE n # 0
      <4>1. n \in 1 .. N
        BY <2>1, <3>7
      <4>2. ~ (D[t] \subseteq S[n - 1])
        BY <1>1, <2>2, <4>1
      <4>3. D[t] \subseteq S[n] /\ D[t] \subseteq T
        BY <1>1, <2>1, <2>2
      <4>4. PICK e \in D[t] : e \in S[n] \ S[n - 1] /\ e \in T
        BY <4>2, <4>3
      <4>5. W[S[n]] <= L[j - 1][e]
        BY <1>8, <1>9, <3>5, <3>7, <4>4
      <4>6. L[j][t] >= E[t] + L[j - 1][e]
        BY <1>2, <3>5, <4>4
      <4>7. L[j][t] \in Nat /\ L[j - 1][e] \in Nat /\ E[t] \in Nat /\ W[S[n]] \in Nat
        BY <1>2, <1>3, <3>2, <3>5, <4>4
      <4> QED BY <3>4, <4>5, <4>6, <4>7
    <3> QED BY <3>6, <3>7
  <2> QED BY <1>8, <2>1, <2>2
<1>10. 0 .. N \subseteq G
  <2>1. 0 \in G
    BY <1>8
  <2> QED BY <1>9, <2>1, AllUpTo
<1>11. PICK C : C = {n \in 0 .. N : S[n] = T}
  OBVIOUS
<1>12. PICK n \in C : \A m \in C : n <= m
  <2>1. C \in SUBSET Nat /\ N \in C
    BY <1>11
  <2> QED BY <2>1, LeastThere
<1>13. n \in 1 .. N
  <2>1. n \in 0 .. N /\ n # 0
    BY <1>1, <1>11, <1>12
  <2> QED BY <2>1
<1>14. n - 1 \in 0 .. N /\ n - 1 \notin C
  <2>1. n - 1 \in 0 .. N /\ ~(n <= n - 1)
    BY <1>13
  <2> QED BY <1>12, <2>1
<1>15. S[n] = T /\ S[n - 1] # T /\ S[n - 1] \subseteq T
  BY <1>4, <1>11, <1>12, <1>14
<1>16. PICK t \in T : t \in S[n] \ S[n - 1]
  BY <1>15
<1>17. W[S[n]] <= L[N][t]
  <2>1. n \in G /\ n # 0 /\ N \in n .. N
    BY <1>10, <1>13
  <2> QED BY <1>8, <1>16, <2>1
<1> QED BY <1>15, <1>17

(* What a decomposition is, and its sums.                                  *)
LEMMA DecompositionIs ==
  ASSUME NEW d \in Decompositions
  PROVE  /\ d.tasks \in SUBSET TaskIds
         /\ IsFiniteSet(d.tasks) /\ Cardinality(d.tasks) \in Nat
         /\ d.deps \in [d.tasks -> SUBSET d.tasks]
         /\ \A t \in d.tasks : EstimateOf(d, t) \in Nat \ {0}
<1>1. PICK T \in SUBSET TaskIds :
        d \in [tasks : {T}, deps : [T -> SUBSET T], tokens : [T \ {HeavyTask} -> {1}], heavy : {1, 3}]
  BY DEF Decompositions
<1>2. /\ d.tasks = T /\ d.deps \in [T -> SUBSET T]
      /\ d.tokens \in [T \ {HeavyTask} -> {1}] /\ d.heavy \in {1, 3}
  BY <1>1
<1>3. IsFiniteSet(T) /\ Cardinality(T) \in Nat
  BY QueenAssumption, FS_Subset, FS_CardinalityType
<1>4. \A t \in T : EstimateOf(d, t) \in Nat \ {0}
  BY <1>2 DEF EstimateOf
<1> QED BY <1>2, <1>3, <1>4

LEMMA SortedIs ==
  ASSUME NEW d \in Decompositions, NEW N, N = Cardinality(d.tasks)
  PROVE  \E f : Sorts(f, d.tasks, d.deps, N) /\ SortedAfter(d) = f[N]
<1>1. N \in Nat
  BY DecompositionIs
<1>2. PICK f : f = CHOOSE g : g = [n \in 0 .. N |-> IF n = 0 THEN {} ELSE {t \in d.tasks : d.deps[t] \subseteq g[n - 1]}]
  OBVIOUS
<1>3. Sorts(f, d.tasks, d.deps, N)
  <2>1. \E g : Sorts(g, d.tasks, d.deps, N)
    BY <1>1, SortExists
  <2> QED BY <1>2, <2>1, Zenon DEF Sorts
<1>4. SortedAfter(d) = f[N]
  BY <1>2, Zenon DEF SortedAfter, Rounds
<1> QED BY <1>3, <1>4

TokenSums(f, d) ==
  f = [s \in SUBSET d.tasks |-> IF s = {} THEN 0
         ELSE EstimateOf(d, CHOOSE x \in s : TRUE) + f[s \ {CHOOSE x \in s : TRUE}]]
TokenPaths(f, d) ==
  f = [n \in 0 .. Cardinality(d.tasks) |-> [t \in d.tasks |-> EstimateOf(d, t) +
         (IF n = 0 THEN 0 ELSE Max({0} \cup {f[n - 1][e] : e \in d.deps[t]}))]]

LEMMA AllTokensIs ==
  ASSUME NEW d \in Decompositions, NEW E, E = [t \in d.tasks |-> EstimateOf(d, t)]
  PROVE  \E f : Sums(f, E, d.tasks) /\ AllTokens(d) = f[d.tasks]
<1>1. PICK T : T = d.tasks
  OBVIOUS
<1>2. IsFiniteSet(T) /\ E \in [T -> Nat]
  BY <1>1, DecompositionIs
<1>3. PICK f : Sums(f, E, T)
  BY <1>2, SumExists
<1>4. \A s \in SUBSET T : s # {} => E[CHOOSE x \in s : TRUE] = EstimateOf(d, CHOOSE x \in s : TRUE)
  BY <1>1
<1>5. \A s \in SUBSET T : f[s] = IF s = {} THEN 0
                   ELSE E[CHOOSE x \in s : TRUE] + f[s \ {CHOOSE x \in s : TRUE}]
  BY <1>3, Zenon DEF Sums
<1>6. \A s \in SUBSET T : f[s] = IF s = {} THEN 0
                   ELSE EstimateOf(d, CHOOSE x \in s : TRUE) + f[s \ {CHOOSE x \in s : TRUE}]
  BY <1>4, <1>5, Zenon
<1>7. f = [s \in SUBSET T |-> f[s]]
  BY <1>3, Zenon DEF Sums
<1>8. f = [s \in SUBSET T |-> IF s = {} THEN 0
                   ELSE EstimateOf(d, CHOOSE x \in s : TRUE) + f[s \ {CHOOSE x \in s : TRUE}]]
  BY <1>6, <1>7, Zenon
<1>9. PICK g : g = CHOOSE h : TokenSums(h, d)
  OBVIOUS
<1>10. TokenSums(g, d)
  <2>1. TokenSums(f, d)
    BY <1>1, <1>8, Zenon DEF TokenSums
  <2> QED BY <1>9, <2>1, Zenon
<1>11. AllTokens(d) = g[T]
  BY <1>1, <1>9, Zenon DEF AllTokens, MapThenSumSet, MapThenFoldSet, TokenSums
<1>12. Sums(g, E, T)
  <2>1. \A s \in SUBSET T : g[s] = IF s = {} THEN 0
                   ELSE EstimateOf(d, CHOOSE x \in s : TRUE) + g[s \ {CHOOSE x \in s : TRUE}]
    BY <1>1, <1>10, Zenon DEF TokenSums
  <2>2. \A s \in SUBSET T : g[s] = IF s = {} THEN 0
                   ELSE E[CHOOSE x \in s : TRUE] + g[s \ {CHOOSE x \in s : TRUE}]
    BY <1>4, <2>1, Zenon
  <2>3. g = [s \in SUBSET T |-> g[s]]
    BY <1>1, <1>10, Zenon DEF TokenSums
  <2>4. g = [s \in SUBSET T |-> IF s = {} THEN 0
                   ELSE E[CHOOSE x \in s : TRUE] + g[s \ {CHOOSE x \in s : TRUE}]]
    BY <2>2, <2>3, Zenon
  <2> QED BY <2>4, Zenon DEF Sums
<1> QED BY <1>1, <1>11, <1>12

LEMMA CriticalPathIs ==
  ASSUME NEW d \in Decompositions, NEW E, E = [t \in d.tasks |-> EstimateOf(d, t)],
         NEW N, N = Cardinality(d.tasks)
  PROVE  \E f, R : /\ Longest(f, d.tasks, d.deps, E, N)
                   /\ \A r : r \in R <=> r = 0 \/ \E t \in d.tasks : r = f[N][t]
                   /\ CriticalPath(d) = Max(R)
<1>1. PICK T : T = d.tasks
  OBVIOUS
<1>2. PICK D : D = d.deps
  OBVIOUS
<1>3. IsFiniteSet(T) /\ E \in [T -> Nat] /\ N \in Nat /\ D \in [T -> SUBSET T]
  BY <1>1, <1>2, DecompositionIs
<1>4. \A t \in T : E[t] = EstimateOf(d, t)
  BY <1>1
<1>5. PICK f : Longest(f, T, D, E, N)
  BY <1>3, LongestExists
<1>6. PICK g : g = CHOOSE h : TokenPaths(h, d)
  OBVIOUS
<1>7. TokenPaths(f, d)
  <2>1. f = [n \in 0 .. N |-> f[n]]
    BY <1>5, Zenon DEF Longest
  <2>2. ASSUME NEW n \in 0 .. N
        PROVE  f[n] = [t \in T |-> EstimateOf(d, t) +
                         (IF n = 0 THEN 0 ELSE Max({0} \cup {f[n - 1][e] : e \in D[t]}))]
    <3>1. f[n] = [t \in T |-> E[t] +
                    (IF n = 0 THEN 0 ELSE Max({0} \cup {f[n - 1][e] : e \in D[t]}))]
      BY <1>5, Zenon DEF Longest
    <3> QED BY <1>4, <3>1, Zenon
  <2>3. f = [n \in 0 .. N |-> [t \in T |-> EstimateOf(d, t) +
                (IF n = 0 THEN 0 ELSE Max({0} \cup {f[n - 1][e] : e \in D[t]}))]]
    BY <2>1, <2>2, Zenon
  <2> QED BY <1>1, <1>2, <2>3, Zenon DEF TokenPaths
<1>8. TokenPaths(g, d)
  BY <1>6, <1>7, Zenon
<1>9. Longest(g, T, D, E, N)
  <2>1. g = [n \in 0 .. N |-> g[n]]
    BY <1>8, Zenon DEF TokenPaths
  <2>2. ASSUME NEW n \in 0 .. N
        PROVE  g[n] = [t \in T |-> E[t] +
                         (IF n = 0 THEN 0 ELSE Max({0} \cup {g[n - 1][e] : e \in D[t]}))]
    <3>1. g[n] = [t \in T |-> EstimateOf(d, t) +
                    (IF n = 0 THEN 0 ELSE Max({0} \cup {g[n - 1][e] : e \in D[t]}))]
      BY <1>1, <1>2, <1>8, Zenon DEF TokenPaths
    <3> QED BY <1>4, <3>1, Zenon
  <2> QED BY <2>1, <2>2, Zenon DEF Longest
<1>10. CriticalPath(d) = Max({0} \cup {g[N][t] : t \in T})
  BY <1>1, <1>6, Zenon DEF CriticalPath, Rounds, TokenPaths
<1>11. PICK R : R = {0} \cup {g[N][t] : t \in T}
  OBVIOUS
<1>12. \A r : r \in R <=> r = 0 \/ \E t \in T : r = g[N][t]
  BY <1>11
<1> QED BY <1>1, <1>2, <1>9, <1>10, <1>11, <1>12, Zenon

Climbs(f, d, t) ==
  f = [n \in 0 .. Cardinality(d.tasks) |->
         IF n = 0 THEN d.deps[t] ELSE f[n - 1] \cup UNION {d.deps[e] : e \in f[n - 1]}]

(* What a task waits for lies in every set that its dependencies lie in,   *)
(* and that holds the dependencies of its own.                             *)
LEMMA AboveLies ==
  ASSUME NEW d \in Decompositions, NEW t \in d.tasks, NEW V \in SUBSET d.tasks,
         d.deps[t] \subseteq V, \A e \in V : d.deps[e] \subseteq V
  PROVE  Above(d, t) \subseteq V
<1>1. PICK N : N = Cardinality(d.tasks)
  OBVIOUS
<1>2. N \in Nat
  BY <1>1, DecompositionIs
<1>3. PICK A : A = SUBSET V
  OBVIOUS
<1>4. PICK F : F = [U \in A |-> U \cup UNION {d.deps[e] : e \in U}]
  OBVIOUS
<1>5. PICK a : a = d.deps[t]
  OBVIOUS
<1>6. ASSUME NEW U \in A PROVE F[U] \in A
  BY <1>3, <1>4
<1>7. a \in A
  BY <1>3, <1>5
<1>8. PICK f : Rounded(f, a, F, N)
  BY <1>2, RoundsExist
<1>9. /\ f[0] = a /\ \A n \in 0 .. N : f[n] \in A
      /\ \A n \in 1 .. N : f[n] = F[f[n - 1]]
  BY <1>2, <1>6, <1>7, <1>8, RoundsStay
<1>10. Climbs(f, d, t)
  <2>1. f = [n \in 0 .. N |-> f[n]]
    BY <1>8, Zenon DEF Rounded
  <2>2. ASSUME NEW n \in 0 .. N
        PROVE  f[n] = IF n = 0 THEN d.deps[t] ELSE f[n - 1] \cup UNION {d.deps[e] : e \in f[n - 1]}
    <3>1. CASE n = 0
      BY <1>5, <1>9, <3>1, Zenon
    <3>2. CASE n # 0
      <4>1. n \in 1 .. N /\ n - 1 \in 0 .. N
        BY <1>2, <3>2
      <4>2. f[n] = F[f[n - 1]] /\ f[n - 1] \in A
        BY <1>9, <4>1
      <4> QED BY <1>4, <3>2, <4>2, Zenon
    <3> QED BY <3>1, <3>2
  <2>3. f = [n \in 0 .. N |-> IF n = 0 THEN d.deps[t]
                              ELSE f[n - 1] \cup UNION {d.deps[e] : e \in f[n - 1]}]
    BY <2>1, <2>2, Zenon
  <2> QED BY <1>1, <2>3, Zenon DEF Climbs
<1>11. PICK g : g = CHOOSE h : Climbs(h, d, t)
  OBVIOUS
<1>12. Climbs(g, d, t)
  BY <1>10, <1>11, Zenon
<1>13. Above(d, t) = g[N]
  BY <1>1, <1>11, Zenon DEF Above, Rounds, Climbs
<1>14. ASSUME NEW n \in 0 .. N
       PROVE  g[n] = IF n = 0 THEN d.deps[t] ELSE g[n - 1] \cup UNION {d.deps[e] : e \in g[n - 1]}
  BY <1>1, <1>12, Zenon DEF Climbs
<1>15. PICK B : B = {n \in 0 .. N : g[n] \subseteq V}
  OBVIOUS
<1>16. 0 \in B
  <2>1. 0 \in 0 .. N
    BY <1>2
  <2>2. g[0] = d.deps[t]
    BY <1>14, <2>1, Zenon
  <2> QED BY <1>15, <2>1, <2>2
<1>17. ASSUME NEW n \in 0 .. N, n + 1 <= N, n \in B PROVE n + 1 \in B
  <2>1. n + 1 \in 0 .. N /\ n + 1 # 0 /\ n + 1 - 1 = n
    BY <1>17
  <2>2. PICK m : m = n + 1
    OBVIOUS
  <2>20. g[m] \subseteq g[m - 1] \cup UNION {d.deps[e] : e \in g[m - 1]}
    <3>1. m \in 0 .. N /\ m # 0
      BY <2>1, <2>2
    <3>2. g[m] = g[m - 1] \cup UNION {d.deps[e] : e \in g[m - 1]}
      BY <1>14, <3>1, Zenon
    <3> QED BY <3>2
  <2>3. g[n] \subseteq V
    BY <1>15, <1>17
  <2> QED BY <1>15, <2>1, <2>2, <2>20, <2>3
<1>18. N \in B
  <2>1. 0 .. N \subseteq B
    BY <1>2, <1>16, <1>17, AllUpTo
  <2> QED BY <1>2, <2>1
<1> QED BY <1>13, <1>15, <1>18

LEMMA SwarmHasWork ==
  ASSUME NEW d \in Decompositions, Verdict(d) = "swarm"
  PROVE  /\ \A Q \in (SUBSET d.tasks) \ {{}} : \E t \in Q : d.deps[t] \cap Q = {}
         /\ \E t, u \in d.tasks : t # u /\ t \notin Above(d, u) /\ u \notin Above(d, t)
<1>1. PICK T : T = d.tasks
  OBVIOUS
<1>2. PICK D : D = d.deps
  OBVIOUS
<1>3. PICK N : N = Cardinality(d.tasks)
  OBVIOUS
<1>4. PICK E : E = [t \in d.tasks |-> EstimateOf(d, t)]
  OBVIOUS
<1>5. /\ IsFiniteSet(T) /\ N \in Nat /\ D \in [T -> SUBSET T] /\ E \in [T -> Nat]
      /\ \A t \in T : E[t] > 0
  <2>1. \A t \in T : EstimateOf(d, t) \in Nat \ {0}
    BY <1>1, DecompositionIs
  <2> QED BY <1>1, <1>2, <1>3, <1>4, <2>1, DecompositionIs
<1>6. /\ T # {} /\ SortedAfter(d) = T /\ N >= 2
      /\ 10 * AllTokens(d) >= MinSpeedup * CriticalPath(d)
  BY <1>1, <1>3 DEF Verdict, ValidDag, Activates
<1>7. PICK S : Sorts(S, T, D, N) /\ S[N] = T
  BY <1>1, <1>2, <1>3, <1>6, SortedIs
<1>8. ASSUME NEW Q \in (SUBSET d.tasks) \ {{}} PROVE \E t \in Q : d.deps[t] \cap Q = {}
  <2>1. Q \in SUBSET T /\ Q # {}
    BY <1>1
  <2>2. \E t \in Q : D[t] \cap Q = {}
    BY <1>5, <1>7, <2>1, SortHasFirst
  <2> QED BY <1>2, <2>2
<1>9. PICK W : Sums(W, E, T) /\ AllTokens(d) = W[T]
  BY <1>1, <1>4, AllTokensIs
<1>10. PICK L, R : /\ Longest(L, T, D, E, N)
                   /\ \A r : r \in R <=> r = 0 \/ \E t \in T : r = L[N][t]
                   /\ CriticalPath(d) = Max(R)
  BY <1>1, <1>2, <1>3, <1>4, CriticalPathIs
<1>11. /\ S[0] = {} /\ \A n \in 1 .. N : \A t : t \in S[n] <=> t \in T /\ D[t] \subseteq S[n - 1]
  <2>1. InRounds(S, T, D, N)
    <3>1. N \in Nat /\ Sorts(S, T, D, N)
      BY <1>5, <1>7
    <3> QED BY <3>1, SortRounds, Zenon
  <2> QED BY <2>1 DEF InRounds
<1>12. ~ \A n \in 1 .. N : \A t, u \in T : t \in S[n] \ S[n - 1] /\ u \in S[n] \ S[n - 1] => t = u
  <2>1. SUFFICES ASSUME \A n \in 1 .. N : \A t, u \in T :
                           t \in S[n] \ S[n - 1] /\ u \in S[n] \ S[n - 1] => t = u
                 PROVE  FALSE
    OBVIOUS
  <2>2. PICK t \in T : W[T] <= L[N][t]
    BY <1>5, <1>6, <1>7, <1>9, <1>10, <2>1, ChainIsLong
  <2>3. PICK g : g = [v \in T |-> L[N][v]]
    OBVIOUS
  <2>4. g \in [T -> Nat]
    <3>1. \A v \in T : L[N][v] \in Nat
      BY <1>5, <1>10, LongestGrows
    <3> QED BY <2>3, <3>1
  <2>5. R = {0} \cup {g[v] : v \in T}
    BY <1>10, <2>3
  <2>6. Max(R) \in Nat /\ g[t] <= Max(R)
    <3>1. T \in SUBSET T
      OBVIOUS
    <3> QED BY <1>5, <2>4, <2>5, <3>1, MaxOf
  <2>8. CriticalPath(d) = Max(R)
    BY <1>10
  <2>9. /\ W[{}] = 0 /\ \A s \in SUBSET T : W[s] \in Nat
        /\ \A s \in SUBSET T : \A x \in s : W[s] = E[x] + W[s \ {x}]
    BY <1>5, <1>9, SumOf
  <2>10. W[T] \in Nat /\ W[T] > 0
    <3>1. PICK x \in T : TRUE
      BY <1>6
    <3>2. W[T] = E[x] + W[T \ {x}] /\ W[T \ {x}] \in Nat
      BY <2>9
    <3> QED BY <1>5, <3>2
  <2>11. PICK c \in Nat : c = CriticalPath(d)
    BY <2>6, <2>8
  <2>12. W[T] <= c
    BY <2>2, <2>3, <2>4, <2>6, <2>8, <2>10, <2>11
  <2>13. MinSpeedup * c >= 11 * c
    <3>1. PICK k \in Nat : MinSpeedup = 11 + k
      BY QueenAssumption
    <3>2. (11 + k) * c = 11 * c + k * c /\ k * c >= 0
      OBVIOUS
    <3> QED BY <3>1, <3>2
  <2>14. 10 * W[T] >= 11 * c
    <3>1. 10 * W[T] >= MinSpeedup * c
      BY <1>6, <1>9, <2>11
    <3>2. MinSpeedup * c \in Nat
      BY QueenAssumption
    <3> QED BY <2>10, <2>13, <3>1, <3>2
  <2> QED BY <2>10, <2>12, <2>14
<1>13. PICK n \in 1 .. N, t \in T, u \in T :
          t # u /\ t \in S[n] \ S[n - 1] /\ u \in S[n] \ S[n - 1]
  BY <1>12
<1>14. PICK V : V = S[n - 1]
  OBVIOUS
<1>15. V \in SUBSET T /\ \A e \in V : D[e] \subseteq V
  <2>1. PICK B : B = {m \in 0 .. N : S[m] \subseteq T /\ \A e \in S[m] : D[e] \subseteq S[m]}
    OBVIOUS
  <2>2. 0 \in B
    BY <1>5, <1>11, <2>1
  <2>3. ASSUME NEW m \in 0 .. N, m + 1 <= N, m \in B PROVE m + 1 \in B
    <3>1. m + 1 \in 0 .. N /\ m + 1 \in 1 .. N /\ m + 1 - 1 = m
      BY <2>3
    <3>2. \A v : v \in S[m + 1] <=> v \in T /\ D[v] \subseteq S[m]
      BY <1>11, <3>1
    <3>3. S[m] \subseteq S[m + 1] /\ S[m + 1] \subseteq T
      BY <2>1, <2>3, <3>2
    <3>4. \A e \in S[m + 1] : D[e] \subseteq S[m + 1]
      BY <3>2, <3>3
    <3> QED BY <2>1, <3>1, <3>3, <3>4
  <2>4. 0 .. N \subseteq B
    BY <1>5, <2>2, <2>3, AllUpTo
  <2>5. n - 1 \in B
    <3>1. n - 1 \in 0 .. N
      BY <1>5
    <3> QED BY <2>4, <3>1
  <2> QED BY <1>14, <2>1, <2>5
<1>16. D[t] \subseteq V /\ D[u] \subseteq V /\ t \notin V /\ u \notin V
  BY <1>11, <1>13, <1>14
<1>17. Above(d, t) \subseteq V /\ Above(d, u) \subseteq V
  BY <1>1, <1>2, <1>15, <1>16, AboveLies
<1>18. \E v, w \in T : v # w /\ v \notin Above(d, w) /\ w \notin Above(d, v)
  BY <1>13, <1>16, <1>17
<1> QED BY <1>1, <1>8, <1>18, Zenon

(* Verdicts are given to decompositions; a row is an order's once it is    *)
(* inserted, until the order ends.                                         *)
QueenInv ==
  /\ ordering \in [Orders -> {"ask", "single", "create", "insert", "execute", "error"}]
  /\ toInsert \in [Orders -> SUBSET TaskIds] /\ ofOrder \in [Orders -> SUBSET TaskIds]
  /\ rowOf \in [TaskIds -> Orders \cup {NoOrder}]
  /\ \/ proposal = NoProposal
     \/ \E o \in Orders : \E d \in Decompositions :
          /\ proposal = [verdict |-> Verdict(d), order |-> o, d |-> d]
          /\ OrderAt(o, "ask")
  /\ \A o \in Orders :
       OrderAt(o, "insert") \/ OrderAt(o, "execute") =>
         \A t \in ofOrder[o] \ toInsert[o] : rowOf[t] = o
  /\ \A o \in Orders : OrderAt(o, "create") => ofOrder[o] \subseteq toInsert[o]
  /\ \A o \in Orders : OrderAt(o, "execute") => toInsert[o] = {}

LEMMA QueenStarts == QueenInit => QueenInv
BY DEF QueenInit, QueenInv, OrderAt

LEMMA QueenMeans == QueenInv => SwarmSound
<1> SUFFICES ASSUME QueenInv PROVE SwarmSound
  OBVIOUS
<1>1. SubmittedWhole
  BY DEF QueenInv, SubmittedWhole
<1>2. SwarmMakesSense
  <2>1. CASE proposal = NoProposal
    BY <2>1 DEF SwarmMakesSense, NoProposal
  <2>2. CASE proposal # NoProposal
    <3>1. PICK o \in Orders, d \in Decompositions : proposal = [verdict |-> Verdict(d), order |-> o, d |-> d]
      BY <2>2 DEF QueenInv
    <3>2. proposal.verdict = Verdict(d) /\ proposal.d = d
      BY <3>1
    <3>3. ASSUME Verdict(d) = "swarm"
          PROVE  /\ \A S \in (SUBSET d.tasks) \ {{}} : \E t \in S : d.deps[t] \cap S = {}
                 /\ \E t, u \in d.tasks : t # u /\ t \notin Above(d, u) /\ u \notin Above(d, t)
      BY <3>3, SwarmHasWork
    <3> QED BY <3>2, <3>3, Zenon DEF SwarmMakesSense
  <2> QED BY <2>1, <2>2
<1> QED BY <1>1, <1>2 DEF SwarmSound

LEMMA QueenKept == QueenInv /\ [QueenNext]_queenVars => QueenInv'
<1> SUFFICES ASSUME QueenInv, [QueenNext]_queenVars PROVE QueenInv'
  OBVIOUS
<1> USE DEF QueenInv, OrderAt, OrderTo, Leave
<1>1. ASSUME NEW o \in Orders, Retry(o) PROVE QueenInv'
  <2>1. /\ proposal' = NoProposal /\ UNCHANGED <<toInsert, ofOrder, rowOf>>
        /\ UNCHANGED ordering \/ ordering' = [ordering EXCEPT ![o] = "single"]
    BY <1>1 DEF Retry
  <2> QED BY <2>1
<1>2. ASSUME NEW o \in Orders, StaySingle(o) PROVE QueenInv'
  <2>1. /\ proposal' = NoProposal /\ UNCHANGED <<toInsert, ofOrder, rowOf>>
        /\ ordering' = [ordering EXCEPT ![o] = "single"]
    BY <1>2 DEF StaySingle
  <2> QED BY <2>1
<1>3. ASSUME NEW o \in Orders, StartSwarm(o) PROVE QueenInv'
  <2>1. PICK T \in SUBSET TaskIds : T = proposal.d.tasks
    <3>1. proposal # NoProposal
      BY <1>3 DEF StartSwarm, NoProposal
    <3>2. PICK p \in Orders, d \in Decompositions : proposal = [verdict |-> Verdict(d), order |-> p, d |-> d]
      BY <3>1
    <3>3. proposal.d = d
      BY <3>2
    <3>5. d.tasks \in SUBSET TaskIds
      BY DecompositionIs
    <3> QED BY <3>3, <3>5
  <2>2. /\ proposal' = NoProposal /\ UNCHANGED rowOf
        /\ ordering' = [ordering EXCEPT ![o] = "create"]
        /\ toInsert' = [toInsert EXCEPT ![o] = T] /\ ofOrder' = [ofOrder EXCEPT ![o] = T]
    BY <1>3, <2>1 DEF StartSwarm
  <2> QED BY <2>2
<1>4. ASSUME NEW o \in Orders, NEW d \in Proposed(o), Judge(o, d) PROVE QueenInv'
  <2>1. /\ UNCHANGED <<ordering, toInsert, ofOrder, rowOf>> /\ OrderAt(o, "ask")
        /\ proposal' = [verdict |-> Verdict(d), order |-> o, d |-> d]
    BY <1>4 DEF Judge
  <2>2. d \in Decompositions
    BY DEF Proposed
  <2>3. \E p \in Orders : \E e \in Decompositions :
          /\ proposal' = [verdict |-> Verdict(e), order |-> p, d |-> e]
          /\ ordering'[p] = "ask"
    BY <2>1, <2>2
  <2> QED BY <2>1, <2>3
<1>5. ASSUME NEW o \in Orders, proposal = NoProposal, AbandonOrder(o) PROVE QueenInv'
  <2>1. /\ UNCHANGED <<proposal, rowOf>>
        /\ ordering' = [ordering EXCEPT ![o] = "error"]
        /\ toInsert' = [toInsert EXCEPT ![o] = {}] /\ ofOrder' = [ofOrder EXCEPT ![o] = {}]
    BY <1>5 DEF AbandonOrder
  <2> QED BY <1>5, <2>1
<1>6. ASSUME NEW o \in Orders, proposal = NoProposal, CreateOrder(o) PROVE QueenInv'
  <2>1. /\ UNCHANGED <<proposal, toInsert, ofOrder, rowOf>> /\ OrderAt(o, "create")
        /\ ordering' = [ordering EXCEPT ![o] = "insert"]
    BY <1>6 DEF CreateOrder
  <2> QED BY <1>6, <2>1
<1>7. ASSUME NEW o \in Orders, proposal = NoProposal, Submitted(o) PROVE QueenInv'
  <2>1. /\ UNCHANGED <<proposal, toInsert, ofOrder, rowOf>> /\ OrderAt(o, "insert") /\ toInsert[o] = {}
        /\ ordering' = [ordering EXCEPT ![o] = "execute"]
    BY <1>7 DEF Submitted
  <2> QED BY <1>7, <2>1
<1>8. ASSUME NEW o \in Orders, NEW t \in TaskIds, proposal = NoProposal, InsertTask(o, t) PROVE QueenInv'
  <2>1. CASE rowOf[t] = NoOrder
    <3>1. /\ UNCHANGED <<proposal, ordering, ofOrder>> /\ OrderAt(o, "insert") /\ t \in toInsert[o]
          /\ rowOf' = [rowOf EXCEPT ![t] = o] /\ toInsert' = [toInsert EXCEPT ![o] = @ \ {t}]
      BY <1>8, <2>1 DEF InsertTask
    <3>2. \A p \in Orders : \A u \in TaskIds : rowOf[u] = p => u = t \/ rowOf'[u] = p
      BY <3>1
    <3>3. NoOrder \notin Orders
      BY QueenAssumption DEF NoOrder
    <3>4. \A p \in Orders : OrderAt(p, "insert") \/ OrderAt(p, "execute") =>
             \A u \in ofOrder[p] \ toInsert'[p] : rowOf'[u] = p
      <4>1. ASSUME NEW p \in Orders, OrderAt(p, "insert") \/ OrderAt(p, "execute"),
                   NEW u \in ofOrder[p] \ toInsert'[p]
            PROVE  rowOf'[u] = p
        <5>1. ofOrder[p] \in SUBSET TaskIds
          OBVIOUS
        <5>2. u \in TaskIds
          BY <5>1
        <5>3. CASE u = t /\ p = o
          BY <3>1, <5>3
        <5>4. CASE u = t /\ p # o
          <6>1. toInsert'[p] = toInsert[p]
            BY <3>1, <5>4
          <6>2. rowOf[u] = p
            BY <4>1, <6>1
          <6> QED BY <2>1, <3>3, <5>4, <6>2
        <5>5. CASE u # t
          <6>1. u \notin toInsert[p]
            BY <3>1, <5>5
          <6>2. rowOf[u] = p
            BY <4>1, <6>1
          <6> QED BY <3>2, <5>2, <5>5, <6>2
        <5> QED BY <5>3, <5>4, <5>5
      <4> QED BY <4>1
    <3>5. \A p \in Orders : OrderAt(p, "execute") => toInsert'[p] = {}
      BY <3>1
    <3>6. \A p \in Orders : OrderAt(p, "create") => ofOrder[p] \subseteq toInsert'[p]
      BY <3>1
    <3>7. /\ toInsert' \in [Orders -> SUBSET TaskIds] /\ rowOf' \in [TaskIds -> Orders \cup {NoOrder}]
      BY <3>1
    <3> QED BY <1>8, <3>1, <3>4, <3>5, <3>6, <3>7
  <2>2. CASE rowOf[t] # NoOrder
    <3>1. /\ UNCHANGED <<proposal, rowOf>>
          /\ ordering' = [ordering EXCEPT ![o] = "error"]
          /\ toInsert' = [toInsert EXCEPT ![o] = {}] /\ ofOrder' = [ofOrder EXCEPT ![o] = {}]
      BY <1>8, <2>2 DEF InsertTask
    <3> QED BY <1>8, <3>1
  <2> QED BY <2>1, <2>2
<1>9. CASE UNCHANGED queenVars
  BY <1>9 DEF queenVars
<1> QED BY <1>1, <1>2, <1>3, <1>4, <1>5, <1>6, <1>7, <1>8, <1>9 DEF QueenNext

(* A swarm is started on a graph that cannot get stuck and has work for    *)
(* two workers at least, and with the row of each of its tasks; for any    *)
(* decompositions, and orders that insert at the same time.                *)
THEOREM SwarmSoundHolds == QueenSpec => []SwarmSound
<1> QED BY QueenStarts, QueenKept, QueenMeans, PTL DEF QueenSpec

-----------------------------------------------------------------------------
(* Sequences that are filtered, cut and put together: SelectSeq, SubSeq    *)
(* and FlattenSeq.                                                         *)

LEMMA GreatestOf ==
  ASSUME NEW n \in Nat, NEW T \in SUBSET (0 .. n), T # {}
  PROVE  \E m \in T : \A k \in T : k <= m
<1>1. PICK U : U = {j \in 0 .. n : n - j \in T}
  OBVIOUS
<1>2. U \in SUBSET Nat /\ U # {}
  <2>1. PICK k \in T : TRUE
    OBVIOUS
  <2>2. n - k \in 0 .. n /\ n - (n - k) = k
    BY <2>1
  <2>3. n - k \in U
    BY <1>1, <2>1, <2>2
  <2> QED BY <1>1, <2>3
<1>3. PICK j \in U : \A i \in U : j <= i
  BY <1>2, LeastThere
<1>4. j \in 0 .. n /\ n - j \in T
  BY <1>1
<1>5. ASSUME NEW k \in T PROVE k <= n - j
  <2>1. n - k \in 0 .. n /\ n - (n - k) = k
    OBVIOUS
  <2>2. n - k \in U
    BY <1>1, <2>1
  <2> QED BY <1>3, <1>4, <2>1, <2>2
<1> QED BY <1>4, <1>5

LEMMA LargestIs ==
  ASSUME NEW n \in Nat, NEW T \in SUBSET (1 .. n), T # {}
  PROVE  Max(T) \in T /\ \A k \in T : k <= Max(T)
<1>1. T \in SUBSET (0 .. n)
  OBVIOUS
<1>2. PICK m \in T : \A k \in T : k <= m
  BY <1>1, GreatestOf
<1>3. \A k \in T : m >= k
  BY <1>2
<1>4. Max(T) \in T /\ \A k \in T : Max(T) >= k
  BY <1>3, Zenon DEF Max
<1> QED BY <1>4

LEMMA SmallestIs ==
  ASSUME NEW T \in SUBSET Nat, T # {}
  PROVE  Min(T) \in T /\ \A k \in T : Min(T) <= k
<1>1. PICK m \in T : \A k \in T : m <= k
  BY LeastThere
<1> QED BY <1>1, Zenon DEF Min

(* What is kept of s.                                                      *)
Picked(s, S) == (CHOOSE f : FiltersTo(f, s, S, Len(s)))[Len(s)]

LEMMA FilterSteps ==
  ASSUME NEW f, NEW s, NEW S, NEW N \in Nat, FiltersTo(f, s, S, N)
  PROVE  f[0] = <<>> /\ \A n \in 1 .. N : f[n] = IF s[n] \in S THEN Append(f[n - 1], s[n]) ELSE f[n - 1]
<1>1. \A n \in 0 .. N : f[n] = IF n = 0 THEN <<>>
                               ELSE IF s[n] \in S THEN Append(f[n - 1], s[n]) ELSE f[n - 1]
  BY Zenon DEF FiltersTo
<1>2. 0 \in 0 .. N /\ \A n \in 1 .. N : n \in 0 .. N /\ n # 0
  OBVIOUS
<1> QED BY <1>1, <1>2, Zenon

(* Two filters agree as far as their sequences do.                         *)
LEMMA FiltersAgree ==
  ASSUME NEW f, NEW s, NEW S, NEW N \in Nat, FiltersTo(f, s, S, N),
         NEW g, NEW t, NEW M \in Nat, FiltersTo(g, t, S, M), N <= M,
         \A n \in 1 .. N : s[n] = t[n]
  PROVE  \A n \in 0 .. N : f[n] = g[n]
<1>1. /\ f[0] = <<>> /\ \A n \in 1 .. N : f[n] = IF s[n] \in S THEN Append(f[n - 1], s[n]) ELSE f[n - 1]
  BY FilterSteps
<1>2. /\ g[0] = <<>> /\ \A n \in 1 .. M : g[n] = IF t[n] \in S THEN Append(g[n - 1], t[n]) ELSE g[n - 1]
  BY FilterSteps
<1>3. PICK T : T = {n \in 0 .. N : f[n] = g[n]}
  OBVIOUS
<1>4. 0 \in T
  BY <1>1, <1>2, <1>3
<1>5. ASSUME NEW n \in 0 .. N, n + 1 <= N, n \in T PROVE n + 1 \in T
  <2>1. n + 1 \in 0 .. N /\ n + 1 \in 1 .. N /\ n + 1 \in 1 .. M /\ n + 1 - 1 = n
    BY <1>5
  <2>2. f[n + 1] = IF s[n + 1] \in S THEN Append(f[n], s[n + 1]) ELSE f[n]
    BY <1>1, <2>1
  <2>3. g[n + 1] = IF t[n + 1] \in S THEN Append(g[n], t[n + 1]) ELSE g[n]
    BY <1>2, <2>1
  <2>4. s[n + 1] = t[n + 1] /\ f[n] = g[n]
    BY <1>3, <1>5, <2>1
  <2> QED BY <1>3, <2>1, <2>2, <2>3, <2>4
<1>6. 0 .. N \subseteq T
  BY <1>4, <1>5, AllUpTo
<1> QED BY <1>3, <1>6

LEMMA KeptIs ==
  ASSUME NEW s, NEW S, Len(s) \in Nat
  PROVE  /\ \E f : FiltersTo(f, s, S, Len(s)) /\ Picked(s, S) = f[Len(s)]
         /\ \A f : FiltersTo(f, s, S, Len(s)) => Picked(s, S) = f[Len(s)]
<1>1. PICK g : g = CHOOSE f : FiltersTo(f, s, S, Len(s))
  OBVIOUS
<1>2. FiltersTo(g, s, S, Len(s))
  <2>1. \E f : FiltersTo(f, s, S, Len(s))
    BY FiltersExist
  <2> QED BY <1>1, <2>1, Zenon
<1>3. Picked(s, S) = g[Len(s)]
  BY <1>1, Zenon DEF Picked
<1>4. ASSUME NEW f, FiltersTo(f, s, S, Len(s)) PROVE f[Len(s)] = g[Len(s)]
  <2>1. PICK N \in Nat : N = Len(s)
    OBVIOUS
  <2>2. FiltersTo(f, s, S, N) /\ FiltersTo(g, s, S, N) /\ N <= N /\ N \in 0 .. N
    BY <1>2, <1>4, <2>1
  <2>3. \A n \in 0 .. N : f[n] = g[n]
    BY <2>2, FiltersAgree
  <2> QED BY <2>1, <2>2, <2>3
<1> QED BY <1>2, <1>3, <1>4

LEMMA KeptOfNone == ASSUME NEW S PROVE Picked(<<>>, S) = <<>>
<1>1. Len(<<>>) = 0
  OBVIOUS
<1>2. PICK f : FiltersTo(f, <<>>, S, Len(<<>>)) /\ Picked(<<>>, S) = f[Len(<<>>)]
  BY <1>1, KeptIs
<1>3. FiltersTo(f, <<>>, S, 0) /\ Picked(<<>>, S) = f[0]
  BY <1>1, <1>2
<1> QED BY <1>3, FilterSteps

LEMMA KeptAppend ==
  ASSUME NEW X, NEW s \in Seq(X), NEW a \in X, NEW S
  PROVE  Picked(Append(s, a), S) = IF a \in S THEN Append(Picked(s, S), a) ELSE Picked(s, S)
<1>1. PICK t : t = Append(s, a)
  OBVIOUS
<1>2. PICK N \in Nat : N = Len(s)
  OBVIOUS
<1>3. /\ Len(t) = N + 1 /\ t[N + 1] = a /\ \A n \in 1 .. N : s[n] = t[n]
  BY <1>1, <1>2, AppendProperties
<1>4. PICK f : FiltersTo(f, s, S, N) /\ Picked(s, S) = f[N]
  BY <1>2, KeptIs
<1>5. PICK g : FiltersTo(g, t, S, N + 1) /\ Picked(t, S) = g[N + 1]
  <2>1. Len(t) \in Nat
    BY <1>3
  <2> QED BY <1>3, <2>1, KeptIs
<1>6. N + 1 \in Nat /\ N <= N + 1 /\ N \in 0 .. N /\ N + 1 \in 1 .. N + 1 /\ N + 1 - 1 = N
  OBVIOUS
<1>7. f[N] = g[N]
  <2>1. \A n \in 0 .. N : f[n] = g[n]
    BY <1>3, <1>4, <1>5, <1>6, FiltersAgree
  <2> QED BY <1>6, <2>1
<1>8. g[N + 1] = IF a \in S THEN Append(g[N], a) ELSE g[N]
  <2>1. \A n \in 1 .. N + 1 : g[n] = IF t[n] \in S THEN Append(g[n - 1], t[n]) ELSE g[n - 1]
    BY <1>5, <1>6, FilterSteps
  <2> QED BY <1>3, <1>6, <2>1
<1> QED BY <1>1, <1>4, <1>5, <1>7, <1>8

(* Induction over the prefixes of a sequence.                              *)
LEMMA FromFront ==
  ASSUME NEW X, NEW s \in Seq(X), NEW n \in 1 .. Len(s)
  PROVE  /\ SubSeq(s, 1, n) = Append(SubSeq(s, 1, n - 1), s[n])
         /\ SubSeq(s, 1, n - 1) \in Seq(X) /\ s[n] \in X
<1>1. \A i \in 1 .. n : s[i] \in X
  OBVIOUS
<1>2. PICK p : p = SubSeq(s, 1, n - 1)
  OBVIOUS
<1>3. p \in Seq(X) /\ Len(p) = n - 1 /\ \A i \in 1 .. n - 1 : p[i] = s[i]
  <2>1. n - 1 \in Int /\ \A i \in 1 .. n - 1 : s[i] \in X
    BY <1>1
  <2>2. /\ SubSeq(s, 1, n - 1) \in Seq(X)
        /\ Len(SubSeq(s, 1, n - 1)) = IF 1 <= n - 1 THEN n - 1 - 1 + 1 ELSE 0
        /\ \A i \in 1 .. n - 1 - 1 + 1 : SubSeq(s, 1, n - 1)[i] = s[1 + i - 1]
    BY <2>1, SubSeqProperties
  <2> QED BY <1>2, <2>2
<1>4. PICK q : q = SubSeq(s, 1, n)
  OBVIOUS
<1>5. q \in Seq(X) /\ Len(q) = n /\ \A i \in 1 .. n : q[i] = s[i]
  <2>2. /\ SubSeq(s, 1, n) \in Seq(X)
        /\ Len(SubSeq(s, 1, n)) = IF 1 <= n THEN n - 1 + 1 ELSE 0
        /\ \A i \in 1 .. n - 1 + 1 : SubSeq(s, 1, n)[i] = s[1 + i - 1]
    BY <1>1, SubSeqProperties
  <2> QED BY <1>4, <2>2
<1>6. PICK r : r = Append(p, s[n])
  OBVIOUS
<1>7. r \in Seq(X) /\ Len(r) = n /\ r[n] = s[n] /\ \A i \in 1 .. n - 1 : r[i] = s[i]
  <2>1. s[n] \in X
    OBVIOUS
  <2> QED BY <1>3, <1>6, <2>1, AppendProperties
<1>8. q = r
  <2>1. \A i \in 1 .. n : q[i] = r[i]
    <3>1. \A i \in 1 .. n : i = n \/ i \in 1 .. n - 1
      OBVIOUS
    <3> QED BY <1>5, <1>7, <3>1
  <2> QED BY <1>5, <1>7, <2>1, SeqEqual
<1> QED BY <1>2, <1>3, <1>4, <1>6, <1>8

LEMMA PrefixFacts ==
  ASSUME NEW X, NEW s \in Seq(X)
  PROVE  /\ Len(s) \in Nat /\ SubSeq(s, 1, 0) = <<>> /\ SubSeq(s, 1, Len(s)) = s
         /\ \A n \in 0 .. Len(s) : SubSeq(s, 1, n) \in Seq(X)
<1>1. Len(s) \in Nat /\ \A i \in 1 .. Len(s) : s[i] \in X
  OBVIOUS
<1>2. SubSeq(s, 1, 0) = <<>>
  BY SubSeqEmpty
<1>3. ASSUME NEW n \in 0 .. Len(s) PROVE SubSeq(s, 1, n) \in Seq(X)
  <2>1. \A i \in 1 .. n : s[i] \in X
    BY <1>1
  <2> QED BY <2>1, SubSeqProperties
<1> QED BY <1>1, <1>2, <1>3, SubSeqFull

LEMMA KeptSeq ==
  ASSUME NEW X, NEW s \in Seq(X), NEW S, NEW Y, \A x \in X : x \in S => x \in Y
  PROVE  Picked(s, S) \in Seq(Y)
<1>1. PICK N \in Nat : N = Len(s)
  OBVIOUS
<1>2. PICK T : T = {n \in 0 .. N : Picked(SubSeq(s, 1, n), S) \in Seq(Y)}
  OBVIOUS
<1>3. 0 \in T
  <2>1. <<>> \in Seq(Y) /\ 0 \in 0 .. N
    OBVIOUS
  <2>2. SubSeq(s, 1, 0) = <<>>
    BY PrefixFacts
  <2>3. Picked(<<>>, S) = <<>>
    BY KeptOfNone
  <2> QED BY <1>2, <2>1, <2>2, <2>3
<1>4. ASSUME NEW n \in 0 .. N, n + 1 <= N, n \in T PROVE n + 1 \in T
  <2>1. n + 1 \in 0 .. N /\ n + 1 \in 1 .. Len(s) /\ n + 1 - 1 = n
    BY <1>1, <1>4
  <2>2. PICK p \in Seq(X) : p = SubSeq(s, 1, n)
    BY <1>1, PrefixFacts
  <2>3. PICK a \in X : a = s[n + 1]
    BY <2>1
  <2>4. SubSeq(s, 1, n + 1) = Append(p, a)
    BY <2>1, <2>2, <2>3, FromFront
  <2>5. Picked(Append(p, a), S) = IF a \in S THEN Append(Picked(p, S), a) ELSE Picked(p, S)
    BY KeptAppend
  <2>6. PICK q \in Seq(Y) : q = Picked(p, S)
    BY <1>2, <1>4, <2>2
  <2>7. a \in S => Append(q, a) \in Seq(Y)
    BY AppendProperties
  <2> QED BY <1>2, <2>1, <2>4, <2>5, <2>6, <2>7
<1>5. 0 .. N \subseteq T
  BY <1>3, <1>4, AllUpTo
<1>6. N \in 0 .. N
  OBVIOUS
<1>7. Picked(SubSeq(s, 1, N), S) \in Seq(Y)
  BY <1>2, <1>5, <1>6
<1> QED BY <1>1, <1>7, PrefixFacts

LEMMA AppendConcat ==
  ASSUME NEW X, NEW s \in Seq(X), NEW t \in Seq(X), NEW a \in X
  PROVE  s \o Append(t, a) = Append(s \o t, a)
<1>1. <<a>> \in Seq(X)
  OBVIOUS
<1>2. Append(t, a) = t \o <<a>>
  BY AppendIsConcat
<1>3. s \o t \in Seq(X)
  BY ConcatProperties
<1>4. Append(s \o t, a) = (s \o t) \o <<a>>
  BY <1>3, AppendIsConcat
<1>5. (s \o t) \o <<a>> = s \o (t \o <<a>>)
  BY <1>1, ConcatAssociative
<1> QED BY <1>2, <1>4, <1>5

LEMMA KeptConcat ==
  ASSUME NEW X, NEW s \in Seq(X), NEW t \in Seq(X), NEW S
  PROVE  Picked(s \o t, S) = Picked(s, S) \o Picked(t, S)
<1>0. \A u \in Seq(X) : Picked(u, S) \in Seq(X)
  BY KeptSeq
<1>1. PICK N \in Nat : N = Len(t)
  OBVIOUS
<1>2. PICK T : T = {n \in 0 .. N : Picked(s \o SubSeq(t, 1, n), S) = Picked(s, S) \o Picked(SubSeq(t, 1, n), S)}
  OBVIOUS
<1>3. 0 \in T
  <2>1. Picked(s, S) \o <<>> = Picked(s, S) /\ s \o <<>> = s
    BY <1>0, ConcatEmptySeq
  <2>2. SubSeq(t, 1, 0) = <<>> /\ 0 \in 0 .. N
    BY PrefixFacts
  <2>3. Picked(<<>>, S) = <<>>
    BY KeptOfNone
  <2> QED BY <1>2, <2>1, <2>2, <2>3
<1>4. ASSUME NEW n \in 0 .. N, n + 1 <= N, n \in T PROVE n + 1 \in T
  <2>1. n + 1 \in 0 .. N /\ n + 1 \in 1 .. Len(t) /\ n + 1 - 1 = n
    BY <1>1, <1>4
  <2>2. PICK p \in Seq(X) : p = SubSeq(t, 1, n)
    BY <1>1, PrefixFacts
  <2>3. PICK a \in X : a = t[n + 1]
    BY <2>1
  <2>4. SubSeq(t, 1, n + 1) = Append(p, a)
    BY <2>1, <2>2, <2>3, FromFront
  <2>5. s \o Append(p, a) = Append(s \o p, a) /\ s \o p \in Seq(X)
    BY AppendConcat, ConcatProperties
  <2>6. Picked(Append(s \o p, a), S) = IF a \in S THEN Append(Picked(s \o p, S), a) ELSE Picked(s \o p, S)
    BY <2>5, KeptAppend
  <2>7. Picked(Append(p, a), S) = IF a \in S THEN Append(Picked(p, S), a) ELSE Picked(p, S)
    BY KeptAppend
  <2>8. Picked(s \o p, S) = Picked(s, S) \o Picked(p, S)
    BY <1>2, <1>4, <2>2
  <2>9. Picked(s, S) \o Append(Picked(p, S), a) = Append(Picked(s, S) \o Picked(p, S), a)
    BY <1>0, AppendConcat
  <2>10. Picked(s \o Append(p, a), S) = Picked(s, S) \o Picked(Append(p, a), S)
    <3>1. CASE a \in S
      BY <2>5, <2>6, <2>7, <2>8, <2>9, <3>1
    <3>2. CASE a \notin S
      BY <2>5, <2>6, <2>7, <2>8, <3>2
    <3> QED BY <3>1, <3>2
  <2> QED BY <1>2, <2>1, <2>4, <2>10
<1>5. 0 .. N \subseteq T
  BY <1>3, <1>4, AllUpTo
<1>6. N \in 0 .. N
  OBVIOUS
<1>7. Picked(s \o SubSeq(t, 1, N), S) = Picked(s, S) \o Picked(SubSeq(t, 1, N), S)
  BY <1>2, <1>5, <1>6
<1> QED BY <1>1, <1>7, PrefixFacts

(* A sequence is the two parts it is cut in.                               *)
LEMMA CutInTwo ==
  ASSUME NEW X, NEW s \in Seq(X), NEW c \in 0 .. Len(s)
  PROVE  /\ SubSeq(s, 1, c) \in Seq(X) /\ SubSeq(s, c + 1, Len(s)) \in Seq(X)
         /\ SubSeq(s, 1, c) \o SubSeq(s, c + 1, Len(s)) = s
<1>1. \A i \in 1 .. Len(s) : s[i] \in X
  OBVIOUS
<1>2. \A i \in 1 .. c : s[i] \in X
  BY <1>1
<1>3. \A i \in c + 1 .. Len(s) : s[i] \in X
  BY <1>1
<1>4. SubSeq(s, 1, c) \in Seq(X) /\ SubSeq(s, c + 1, Len(s)) \in Seq(X)
  BY <1>2, <1>3, SubSeqProperties
<1>5. SubSeq(s, 1, c) \o SubSeq(s, c + 1, Len(s)) = SubSeq(s, 1, Len(s))
  <2>1. 1 \in 1 .. Len(s) + 1 /\ c \in 1 - 1 .. Len(s) /\ Len(s) \in c .. Len(s)
    OBVIOUS
  <2> QED BY <2>1, ConcatAdjacentSubSeq
<1> QED BY <1>4, <1>5, SubSeqFull

(* Sequences are put together one after the other.                         *)
Flattens(f, ss, N) == f = [i \in 1 .. N |-> IF i = 1 THEN ss[i] ELSE f[i - 1] \o ss[i]]

LEMMA FlattenExists ==
  ASSUME NEW ss, NEW N \in Nat
  PROVE  \E f : Flattens(f, ss, N)
<1>1. PICK T : T = {n \in Nat : \E f : Flattens(f, ss, n)}
  OBVIOUS
<1>2. 0 \in T
  <2>1. PICK f : f = [i \in 1 .. 0 |-> <<>>]
    OBVIOUS
  <2>2. f = [i \in 1 .. 0 |-> IF i = 1 THEN ss[i] ELSE f[i - 1] \o ss[i]]
    BY <2>1
  <2> QED BY <1>1, <2>2 DEF Flattens
<1>3. ASSUME NEW n \in 0 .. N, n \in T PROVE n + 1 \in T
  <2>1. PICK f : Flattens(f, ss, n)
    BY <1>1, <1>3
  <2>2. PICK last : last = IF n + 1 = 1 THEN ss[n + 1] ELSE f[n] \o ss[n + 1]
    OBVIOUS
  <2>3. PICK g : g = [m \in 1 .. n + 1 |-> IF m = n + 1 THEN last ELSE f[m]]
    OBVIOUS
  <2>4. n \in Nat /\ n + 1 \in Nat /\ n + 1 \in 1 .. n + 1
    OBVIOUS
  <2>5. (\A m \in 1 .. n : g[m] = f[m]) /\ g[n + 1] = last
    BY <2>3, <2>4
  <2>7. ASSUME NEW m \in 1 .. n + 1
        PROVE  g[m] = IF m = 1 THEN ss[m] ELSE g[m - 1] \o ss[m]
    <3>1. CASE m = n + 1
      <4>1. m - 1 = n /\ (m # 1 => n \in 1 .. n)
        BY <2>4, <3>1
      <4> QED BY <2>2, <2>5, <3>1, <4>1, Zenon
    <3>2. CASE m # n + 1
      <4>1. m \in 1 .. n /\ (m # 1 => m - 1 \in 1 .. n)
        BY <2>4, <3>2
      <4>2. f[m] = IF m = 1 THEN ss[m] ELSE f[m - 1] \o ss[m]
        BY <2>1, <4>1, Zenon DEF Flattens
      <4>3. g[m] = f[m] /\ (m # 1 => g[m - 1] = f[m - 1])
        BY <2>5, <4>1
      <4> QED BY <4>2, <4>3, Zenon
    <3> QED BY <3>1, <3>2
  <2>8. g = [m \in 1 .. n + 1 |-> IF m = 1 THEN ss[m] ELSE g[m - 1] \o ss[m]]
    <3>1. g = [m \in 1 .. n + 1 |-> g[m]]
      BY <2>3
    <3> QED BY <2>7, <3>1, Zenon
  <2>9. Flattens(g, ss, n + 1)
    BY <2>8 DEF Flattens
  <2> QED BY <1>1, <2>4, <2>9
<1>4. 0 .. N \subseteq T
  BY <1>2, <1>3, AllUpTo
<1> QED BY <1>1, <1>4

LEMMA FlattenIs ==
  ASSUME NEW ss, NEW N \in Nat, Len(ss) = N
  PROVE  /\ N = 0 => FlattenSeq(ss) = ss
         /\ N > 0 => \E f : Flattens(f, ss, N) /\ FlattenSeq(ss) = f[N]
<1>1. N = 0 => FlattenSeq(ss) = ss
  BY Zenon DEF FlattenSeq
<1>2. ASSUME N > 0 PROVE \E f : Flattens(f, ss, N) /\ FlattenSeq(ss) = f[N]
  <2>1. PICK g : g = CHOOSE f : Flattens(f, ss, N)
    OBVIOUS
  <2>2. Flattens(g, ss, N)
    BY <2>1, FlattenExists, Zenon
  <2>3. Len(ss) # 0
    BY <1>2
  <2>4. FlattenSeq(ss) = (CHOOSE f : Flattens(f, ss, Len(ss)))[Len(ss)]
    BY <2>3, Zenon DEF FlattenSeq, Flattens
  <2> QED BY <2>1, <2>2, <2>4, Zenon
<1> QED BY <1>1, <1>2

LEMMA FlattenAgree ==
  ASSUME NEW f, NEW ss, NEW N \in Nat, Flattens(f, ss, N),
         NEW g, NEW tt, NEW M \in Nat, Flattens(g, tt, M), N <= M,
         \A n \in 1 .. N : ss[n] = tt[n]
  PROVE  \A n \in 1 .. N : f[n] = g[n]
<1>1. \A n \in 1 .. N : f[n] = IF n = 1 THEN ss[n] ELSE f[n - 1] \o ss[n]
  BY Zenon DEF Flattens
<1>2. \A n \in 1 .. M : g[n] = IF n = 1 THEN tt[n] ELSE g[n - 1] \o tt[n]
  BY Zenon DEF Flattens
<1>3. PICK T : T = {n \in 0 .. N : n = 0 \/ f[n] = g[n]}
  OBVIOUS
<1>4. 0 \in T
  BY <1>3
<1>5. ASSUME NEW n \in 0 .. N, n + 1 <= N, n \in T PROVE n + 1 \in T
  <2>1. n + 1 \in 0 .. N /\ n + 1 \in 1 .. N /\ n + 1 \in 1 .. M /\ n + 1 - 1 = n
    BY <1>5
  <2>2. f[n + 1] = IF n + 1 = 1 THEN ss[n + 1] ELSE f[n] \o ss[n + 1]
    BY <1>1, <2>1
  <2>3. g[n + 1] = IF n + 1 = 1 THEN tt[n + 1] ELSE g[n] \o tt[n + 1]
    BY <1>2, <2>1
  <2>4. ss[n + 1] = tt[n + 1] /\ (n = 0 \/ f[n] = g[n]) /\ (n = 0 <=> n + 1 = 1)
    BY <1>3, <1>5, <2>1
  <2>5. f[n + 1] = g[n + 1]
    <3>1. CASE n = 0
      BY <2>2, <2>3, <2>4, <3>1
    <3>2. CASE n # 0
      BY <2>2, <2>3, <2>4, <3>2
    <3> QED BY <3>1, <3>2
  <2> QED BY <1>3, <2>1, <2>5
<1>6. 0 .. N \subseteq T
  BY <1>4, <1>5, AllUpTo
<1> QED BY <1>3, <1>6

(* So what follows is put at the end.                                      *)
LEMMA FlattenAppend ==
  ASSUME NEW X, NEW ss \in Seq(Seq(X)), NEW c \in Seq(X)
  PROVE  /\ FlattenSeq(ss) \in Seq(X)
         /\ FlattenSeq(<<>>) = <<>>
         /\ FlattenSeq(Append(ss, c)) = FlattenSeq(ss) \o c
<1>1. FlattenSeq(<<>>) = <<>>
  <2>1. Len(<<>>) = 0
    OBVIOUS
  <2> QED BY <2>1, FlattenIs
<1>2. PICK N \in Nat : N = Len(ss)
  OBVIOUS
<1>3. PICK tt : tt = Append(ss, c)
  OBVIOUS
<1>4. Len(tt) = N + 1 /\ tt[N + 1] = c /\ \A n \in 1 .. N : ss[n] = tt[n]
  BY <1>2, <1>3, AppendProperties
<1>5. N + 1 \in Nat /\ N + 1 > 0 /\ N <= N + 1 /\ N + 1 \in 1 .. N + 1 /\ N + 1 - 1 = N
  OBVIOUS
<1>6. PICK g : Flattens(g, tt, N + 1) /\ FlattenSeq(tt) = g[N + 1]
  BY <1>4, <1>5, FlattenIs
<1>7. g[N + 1] = IF N + 1 = 1 THEN c ELSE g[N] \o c
  <2>1. \A n \in 1 .. N + 1 : g[n] = IF n = 1 THEN tt[n] ELSE g[n - 1] \o tt[n]
    BY <1>6, Zenon DEF Flattens
  <2> QED BY <1>4, <1>5, <2>1
<1>8. CASE N = 0
  <2>1. ss = <<>>
    BY <1>2, <1>8, EmptySeq
  <2>2. <<>> \o c = c
    BY ConcatEmptySeq
  <2>3. <<>> \in Seq(X)
    OBVIOUS
  <2>4. FlattenSeq(tt) = c
    BY <1>6, <1>7, <1>8
  <2>5. FlattenSeq(ss) = <<>>
    BY <1>1, <2>1, Zenon
  <2> QED BY <1>1, <1>3, <2>2, <2>3, <2>4, <2>5, Zenon
<1>9. CASE N > 0
  <2>1. PICK f : Flattens(f, ss, N) /\ FlattenSeq(ss) = f[N]
    BY <1>2, <1>9, FlattenIs
  <2>2. \A n \in 1 .. N : f[n] = g[n]
    BY <1>4, <1>5, <1>6, <2>1, FlattenAgree
  <2>3. N \in 1 .. N /\ N + 1 # 1
    BY <1>9
  <2>4. FlattenSeq(tt) = FlattenSeq(ss) \o c
    BY <1>6, <1>7, <2>1, <2>2, <2>3
  <2>5. PICK T : T = {n \in 0 .. N : n = 0 \/ f[n] \in Seq(X)}
    OBVIOUS
  <2>6. 0 \in T
    BY <2>5
  <2>7. ASSUME NEW n \in 0 .. N, n + 1 <= N, n \in T PROVE n + 1 \in T
    <3>1. n + 1 \in 0 .. N /\ n + 1 \in 1 .. N /\ n + 1 - 1 = n
      BY <2>7
    <3>2. \A m \in 1 .. N : f[m] = IF m = 1 THEN ss[m] ELSE f[m - 1] \o ss[m]
      BY <2>1, Zenon DEF Flattens
    <3>3. f[n + 1] = IF n + 1 = 1 THEN ss[n + 1] ELSE f[n] \o ss[n + 1]
      BY <3>1, <3>2
    <3>4. ss[n + 1] \in Seq(X) /\ (n = 0 \/ f[n] \in Seq(X)) /\ (n = 0 <=> n + 1 = 1)
      BY <1>2, <2>5, <2>7, <3>1
    <3>5. f[n + 1] \in Seq(X)
      <4>1. CASE n = 0
        BY <3>3, <3>4, <4>1
      <4>2. CASE n # 0
        <5>1. f[n] \in Seq(X) /\ ss[n + 1] \in Seq(X)
          BY <3>4, <4>2
        <5>2. f[n] \o ss[n + 1] \in Seq(X)
          BY <5>1, ConcatProperties
        <5> QED BY <3>3, <3>4, <4>2, <5>2
      <4> QED BY <4>1, <4>2
    <3> QED BY <2>5, <3>1, <3>5
  <2>8. 0 .. N \subseteq T
    BY <2>6, <2>7, AllUpTo
  <2>9. f[N] \in Seq(X)
    BY <2>3, <2>5, <2>8
  <2> QED BY <1>1, <1>3, <2>1, <2>4, <2>9
<1> QED BY <1>8, <1>9

(* A sequence with one place changed.                                     *)
LEMMA ChangedAt ==
  ASSUME NEW X, NEW s \in Seq(X), NEW m \in 1 .. Len(s), NEW r \in X
  PROVE  /\ [s EXCEPT ![m] = r] \in Seq(X) /\ Len([s EXCEPT ![m] = r]) = Len(s)
         /\ [s EXCEPT ![m] = r][m] = r /\ \A j \in 1 .. Len(s) : j # m => [s EXCEPT ![m] = r][j] = s[j]
  BY ExceptSeq

-----------------------------------------------------------------------------
(* The stream buffer, for texts of any length.                             *)

StreamInv == /\ StreamTypeOK
             /\ flushedOut \o buffered = pushed
             /\ closed => buffered = <<>>
             /\ ~halves

LEMMA StreamStarts == StreamInit => StreamInv
<1> SUFFICES ASSUME StreamInit PROVE StreamInv
  OBVIOUS
<1>1. <<>> \in Seq(Chars) /\ <<>> \o <<>> = <<>>
  OBVIOUS
<1> QED BY <1>1, Zenon DEF StreamInit, StreamInv, StreamTypeOK

LEMMA StreamMeans == StreamInv => StreamWhole
<1> SUFFICES ASSUME StreamInv PROVE StreamWhole
  OBVIOUS
<1>1. flushedOut \o <<>> = flushedOut
  BY ConcatEmptySeq DEF StreamInv, StreamTypeOK
<1> QED BY <1>1, Zenon DEF StreamInv, StreamWhole

(* The boundary is in the text, and behind a break.                        *)
LEMMA BoundaryIs ==
  ASSUME NEW text \in Seq(Chars)
  PROVE  /\ LastBoundary(text) \in 0 .. Len(text)
         /\ LastBoundary(text) > 0 => text[LastBoundary(text)] = Break
<1>1. PICK n \in Nat : n = Len(text)
  OBVIOUS
<1> DEFINE breaks == {i \in DOMAIN text : text[i] = Break}
<1>2. \A i \in breaks : text[i] = Break
  OBVIOUS
<1>3. DOMAIN text = 1 .. n /\ breaks \in SUBSET (0 .. n) /\ \A i \in breaks : i > 0
  BY <1>1
<1>4. LastBoundary(text) = IF breaks = {} THEN 0 ELSE CHOOSE i \in breaks : \A j \in breaks : j <= i
  BY Zenon DEF LastBoundary
<1> HIDE DEF breaks
<1>5. CASE breaks = {}
  BY <1>1, <1>4, <1>5
<1>6. CASE breaks # {}
  <2>1. \E i \in breaks : \A j \in breaks : j <= i
    BY <1>3, <1>6, GreatestOf
  <2>2. LastBoundary(text) \in breaks
    BY <1>4, <1>6, <2>1, Zenon
  <2> QED BY <1>1, <1>2, <1>3, <2>2
<1> QED BY <1>5, <1>6

LEMMA TryFlushKeeps == StreamInv /\ TryFlush => StreamInv'
<1> SUFFICES ASSUME StreamInv, TryFlush PROVE StreamInv'
  OBVIOUS
<1>1. PICK end : end = LastBoundary(buffered)
  OBVIOUS
<1>2. PICK cut : cut = IF end = 0 THEN Len(buffered) ELSE end
  OBVIOUS
<1>3. /\ due' = FALSE /\ ~closed /\ pushed' = pushed /\ closed' = closed
      /\ end > 0 \/ Len(buffered) > LongToken
      /\ flushedOut' = flushedOut \o SubSeq(buffered, 1, cut)
      /\ buffered' = SubSeq(buffered, cut + 1, Len(buffered))
      /\ halves' = (halves \/ (Len(buffered) <= LongToken /\ buffered[cut] # Break))
  BY <1>1, <1>2 DEF TryFlush
<1>4. pushed \in Seq(Chars) /\ buffered \in Seq(Chars) /\ flushedOut \in Seq(Chars)
  BY DEF StreamInv, StreamTypeOK
<1>5. /\ end \in 0 .. Len(buffered)
      /\ end > 0 => buffered[end] = Break
      /\ Len(buffered) \in Nat /\ LongToken \in Nat
  BY <1>1, <1>4, BoundaryIs, StreamAssumption DEF StreamAssumption
<1>6. cut \in 0 .. Len(buffered)
  BY <1>2, <1>5
<1>7. PICK f \in Seq(Chars), r \in Seq(Chars) :
        f = SubSeq(buffered, 1, cut) /\ r = SubSeq(buffered, cut + 1, Len(buffered)) /\ f \o r = buffered
  <2>1. /\ SubSeq(buffered, 1, cut) \in Seq(Chars)
        /\ SubSeq(buffered, cut + 1, Len(buffered)) \in Seq(Chars)
        /\ SubSeq(buffered, 1, cut) \o SubSeq(buffered, cut + 1, Len(buffered)) = buffered
    BY <1>4, <1>6, CutInTwo, Zenon
  <2> QED BY <2>1, Zenon
<1>8. flushedOut' = flushedOut \o f /\ buffered' = r /\ flushedOut' \in Seq(Chars)
  BY <1>3, <1>4, <1>7, ConcatProperties
<1>9. (flushedOut \o f) \o r = flushedOut \o (f \o r)
  BY <1>4, ConcatAssociative
<1>10. flushedOut' \o buffered' = pushed'
  BY <1>3, <1>7, <1>8, <1>9 DEF StreamInv
<1>11. ~halves'
  <2>1. ~halves
    BY DEF StreamInv
  <2>2. Len(buffered) <= LongToken => buffered[cut] = Break
    BY <1>2, <1>3, <1>5
  <2> QED BY <1>3, <2>1, <2>2
<1>12. StreamTypeOK'
  BY <1>3, <1>4, <1>8, <1>11 DEF StreamTypeOK, StreamInv
<1> QED BY <1>3, <1>10, <1>11, <1>12, Zenon DEF StreamInv

LEMMA StreamKept == StreamInv /\ [StreamNext]_streamVars => StreamInv'
<1> SUFFICES ASSUME StreamInv, [StreamNext]_streamVars PROVE StreamInv'
  OBVIOUS
<1>1. /\ pushed \in Seq(Chars) /\ buffered \in Seq(Chars) /\ flushedOut \in Seq(Chars)
      /\ due \in BOOLEAN /\ closed \in BOOLEAN /\ halves \in BOOLEAN
  BY DEF StreamInv, StreamTypeOK
<1>2. ~halves /\ flushedOut \o buffered = pushed
  BY DEF StreamInv
<1>3. CASE PushFragment
  <2>1. PICK fragment \in Fragments : pushed' = pushed \o fragment /\ buffered' = buffered \o fragment
    BY <1>3 DEF PushFragment
  <2>2. fragment \in Seq(Chars)
    <3>1. \A a, b \in Chars : <<a>> \in Seq(Chars) /\ <<a, b>> \in Seq(Chars)
      OBVIOUS
    <3>2. PICK a, b \in Chars : fragment = <<a>> \/ fragment = <<a, b>>
      BY <2>1 DEF Fragments
    <3>3. <<a>> \in Seq(Chars) /\ <<a, b>> \in Seq(Chars)
      BY <3>1
    <3> QED BY <3>2, <3>3
  <2>3. (flushedOut \o buffered) \o fragment = flushedOut \o (buffered \o fragment)
    BY <1>1, <2>2, ConcatAssociative
  <2>4. pushed' \in Seq(Chars) /\ buffered' \in Seq(Chars)
    BY <1>1, <2>1, <2>2, ConcatProperties
  <2>5. ~closed /\ flushedOut' = flushedOut /\ due' = due /\ closed' = closed /\ halves' = halves
    BY <1>3 DEF PushFragment
  <2>6. flushedOut' \o buffered' = pushed'
    BY <1>2, <2>1, <2>3, <2>5
  <2>7. StreamTypeOK'
    BY <1>1, <1>2, <2>4, <2>5, Zenon DEF StreamTypeOK
  <2> QED BY <1>2, <2>5, <2>6, <2>7, Zenon DEF StreamInv
<1>4. CASE IntervalElapses
  <2>1. /\ due' = TRUE /\ pushed' = pushed /\ buffered' = buffered /\ flushedOut' = flushedOut
        /\ closed' = closed /\ halves' = halves
    BY <1>4 DEF IntervalElapses
  <2> QED BY <1>1, <1>2, <2>1, Zenon DEF StreamInv, StreamTypeOK
<1>5. CASE TryFlush
  BY <1>5, TryFlushKeeps
<1>6. CASE FlushAll
  <2>1. /\ closed' = TRUE /\ due' = FALSE /\ flushedOut' = flushedOut \o buffered /\ buffered' = <<>>
        /\ pushed' = pushed /\ halves' = halves
    BY <1>6 DEF FlushAll
  <2>2. flushedOut' \o <<>> = flushedOut' /\ flushedOut' \in Seq(Chars) /\ <<>> \in Seq(Chars)
    BY <1>1, <2>1, ConcatEmptySeq, ConcatProperties
  <2>3. flushedOut' \o buffered' = pushed'
    BY <1>2, <2>1, <2>2
  <2> QED BY <1>1, <1>2, <2>1, <2>2, <2>3, Zenon DEF StreamInv, StreamTypeOK
<1>7. CASE UNCHANGED streamVars
  BY <1>7, Zenon DEF StreamInv, StreamTypeOK, streamVars
<1> QED BY <1>3, <1>4, <1>5, <1>6, <1>7, Zenon DEF StreamNext

(* Nothing is lost, doubled or reordered between the provider and the      *)
(* user, however pushes, flushes and intervals interleave, and a short     *)
(* text is cut only after a break.                                         *)
THEOREM StreamWholeHolds == StreamSpec => []StreamWhole
<1> QED BY StreamStarts, StreamKept, StreamMeans, PTL DEF StreamSpec

-----------------------------------------------------------------------------
(* A long answer in chunks, for texts and limits of any length.            *)

Seen == Letters \ {"newline"}

LEMMA VisibleIs == ASSUME NEW s \in Seq(Letters) PROVE Visible(s) = Picked(s, Seen)
<1>1. Visible(s) = (CHOOSE f : FiltersTo(f, s, Seen, Len(s)))[Len(s)]
  BY Zenon DEF Visible, FiltersTo, Seen
<1> QED BY <1>1, Zenon DEF Picked

LEMMA VisibleConcat ==
  ASSUME NEW s \in Seq(Letters), NEW t \in Seq(Letters)
  PROVE  Visible(s \o t) = Visible(s) \o Visible(t) /\ Visible(s) \in Seq(Letters)
<1>1. s \o t \in Seq(Letters)
  BY ConcatProperties
<1>2. Picked(s \o t, Seen) = Picked(s, Seen) \o Picked(t, Seen)
  BY KeptConcat
<1>3. Picked(s, Seen) \in Seq(Letters)
  BY KeptSeq
<1> QED BY <1>1, <1>2, <1>3, VisibleIs

LEMMA ThreeInARow ==
  ASSUME NEW X, NEW a \in Seq(X), NEW b \in Seq(X), NEW c \in Seq(X)
  PROVE  (a \o b) \o c = a \o (b \o c)
BY ConcatAssociative

LEMMA LettersInARow ==
  ASSUME NEW a \in Seq(Letters), NEW b \in Seq(Letters), NEW c \in Seq(Letters)
  PROVE  (a \o b) \o c = a \o (b \o c)
BY ThreeInARow

LEMMA VisibleOfParts ==
  ASSUME NEW s \in Seq(Letters), NEW t \in Seq(Letters), NEW u \in Seq(Letters)
  PROVE  (Visible(s) \o Visible(t)) \o Visible(u) = Visible(s) \o (Visible(t) \o Visible(u))
<1>1. Visible(s) \in Seq(Letters) /\ Visible(t) \in Seq(Letters) /\ Visible(u) \in Seq(Letters)
  BY VisibleConcat
<1>2. PICK a \in Seq(Letters) : a = Visible(s)
  BY <1>1
<1>3. PICK b \in Seq(Letters) : b = Visible(t)
  BY <1>1
<1>4. PICK c \in Seq(Letters) : c = Visible(u)
  BY <1>1
<1>5. (a \o b) \o c = a \o (b \o c)
  BY LettersInARow, Zenon
<1> QED BY <1>2, <1>3, <1>4, <1>5, Zenon

LEMMA NoneVisible ==
  ASSUME NEW s \in Seq(Letters), \A i \in 1 .. Len(s) : s[i] = "newline"
  PROVE  Visible(s) = <<>>
<1>1. s \in Seq({"newline"})
  <2>1. \A i \in 1 .. Len(s) : s[i] \in {"newline"}
    OBVIOUS
  <2>2. SubSeq(s, 1, Len(s)) \in Seq({"newline"})
    BY <2>1, SubSeqProperties
  <2> QED BY <2>2, SubSeqFull
<1>2. \A x \in {"newline"} : x \in Seen => x \in {}
  BY DEF Seen
<1>3. Picked(s, Seen) \in Seq({})
  BY <1>1, <1>2, KeptSeq
<1>4. Picked(s, Seen) = <<>>
  <2>1. PICK k \in Seq({}) : k = Picked(s, Seen)
    BY <1>3
  <2>2. Len(k) \in Nat /\ \A i \in 1 .. Len(k) : k[i] \in {}
    OBVIOUS
  <2>3. Len(k) = 0
    BY <2>2
  <2> QED BY <2>1, <2>3, EmptySeq
<1> QED BY <1>4, VisibleIs

(* r is what t ends with.                                                  *)
EndsWith(r, t) == \E o \in 0 .. Len(t) : Len(r) = Len(t) - o /\ \A j \in 1 .. Len(r) : r[j] = t[o + j]

LEMMA EndsOfEnds ==
  ASSUME NEW r \in Seq(Letters), NEW s \in Seq(Letters), NEW t \in Seq(Letters), EndsWith(r, s), EndsWith(s, t)
  PROVE  EndsWith(r, t)
<1>1. PICK o \in 0 .. Len(s) : Len(r) = Len(s) - o /\ \A j \in 1 .. Len(r) : r[j] = s[o + j]
  BY DEF EndsWith
<1>2. PICK p \in 0 .. Len(t) : Len(s) = Len(t) - p /\ \A j \in 1 .. Len(s) : s[j] = t[p + j]
  BY DEF EndsWith
<1>3. Len(r) \in Nat /\ Len(s) \in Nat /\ Len(t) \in Nat
  OBVIOUS
<1>4. p + o \in 0 .. Len(t) /\ Len(r) = Len(t) - (p + o)
  BY <1>1, <1>2, <1>3
<1>5. ASSUME NEW j \in 1 .. Len(r) PROVE r[j] = t[(p + o) + j]
  <2>1. o + j \in 1 .. Len(s) /\ p + (o + j) = (p + o) + j
    BY <1>1, <1>2, <1>3
  <2>2. s[o + j] = t[p + (o + j)]
    BY <1>2, <2>1
  <2> QED BY <1>1, <2>1, <2>2
<1> QED BY <1>4, <1>5 DEF EndsWith

LEMMA EndsWithNone ==
  ASSUME NEW t \in Seq(Letters)
  PROVE  EndsWith(<<>>, t) /\ EndsWith(t, t)
<1>1. PICK e : e = <<>>
  OBVIOUS
<1>2. PICK N \in Nat : N = Len(t)
  OBVIOUS
<1>3. Len(e) = 0
  BY <1>1
<1>4. N \in 0 .. Len(t) /\ Len(e) = Len(t) - N /\ \A j \in 1 .. Len(e) : e[j] = t[N + j]
  BY <1>2, <1>3
<1>5. 0 \in 0 .. Len(t) /\ Len(t) = Len(t) - 0 /\ \A j \in 1 .. Len(t) : t[j] = t[0 + j]
  BY <1>2
<1> QED BY <1>1, <1>4, <1>5, Zenon DEF EndsWith

LEMMA EndsOf ==
  ASSUME NEW s \in Seq(Letters), NEW c \in 0 .. Len(s)
  PROVE  /\ EndsWith(SubSeq(s, c + 1, Len(s)), s) /\ SubSeq(s, c + 1, Len(s)) \in Seq(Letters)
         /\ c < Len(s) => SubSeq(s, c + 1, Len(s))[1] = s[c + 1]
         /\ Len(SubSeq(s, c + 1, Len(s))) = Len(s) - c
<1>1. Len(s) \in Nat /\ \A i \in c + 1 .. Len(s) : s[i] \in Letters
  OBVIOUS
<1>2. PICK t : t = SubSeq(s, c + 1, Len(s))
  OBVIOUS
<1>3. /\ t \in Seq(Letters)
      /\ Len(t) = IF c + 1 <= Len(s) THEN Len(s) - (c + 1) + 1 ELSE 0
      /\ \A i \in 1 .. Len(s) - (c + 1) + 1 : t[i] = s[(c + 1) + i - 1]
  <2>1. c + 1 \in Int /\ Len(s) \in Int
    BY <1>1
  <2> QED BY <1>1, <1>2, <2>1, SubSeqProperties
<1>4. Len(t) = Len(s) - c
  BY <1>1, <1>3
<1>5. \A j \in 1 .. Len(t) : t[j] = s[c + j]
  <2>1. \A j \in 1 .. Len(t) : j \in 1 .. Len(s) - (c + 1) + 1 /\ (c + 1) + j - 1 = c + j
    BY <1>1, <1>4
  <2> QED BY <1>3, <2>1
<1>6. c < Len(s) => t[1] = s[c + 1]
  <2>1. c < Len(s) => 1 \in 1 .. Len(t)
    BY <1>1, <1>4
  <2> QED BY <1>5, <2>1
<1> QED BY <1>2, <1>3, <1>4, <1>5, <1>6 DEF EndsWith

(* rfind in what fits.                                                     *)
LEMMA LastBeforeIs ==
  ASSUME NEW s \in Seq(Letters), Len(s) > MaxLen, NEW c
  PROVE  /\ LastBefore(s, c) \in 0 .. MaxLen
         /\ LastBefore(s, c) > 0 => s[LastBefore(s, c)] = c
         /\ \A j \in 1 .. MaxLen : j > LastBefore(s, c) => s[j] # c
<1>1. MaxLen \in Nat \ {0} /\ Len(s) \in Nat
  BY SplitterAssumption DEF SplitterAssumption
<1>2. PICK p : p = SubSeq(s, 1, MaxLen)
  OBVIOUS
<1>3. p \in Seq(Letters) /\ Len(p) = MaxLen /\ \A i \in 1 .. MaxLen : p[i] = s[i]
  <2>1. \A i \in 1 .. MaxLen : s[i] \in Letters
    BY <1>1
  <2>2. /\ p \in Seq(Letters)
        /\ Len(p) = IF 1 <= MaxLen THEN MaxLen - 1 + 1 ELSE 0
        /\ \A i \in 1 .. MaxLen - 1 + 1 : p[i] = s[1 + i - 1]
    BY <1>1, <1>2, <2>1, SubSeqProperties
  <2> QED BY <1>1, <2>2
<1> DEFINE I == {i \in 1 .. Len(p) : p[i] = c}
<1>4. LastBefore(s, c) = IF I # {} THEN Max(I) ELSE 0
  BY <1>2 DEF LastBefore, SelectLastInSeq
<1>5. I \in SUBSET (1 .. MaxLen) /\ \A i \in 1 .. MaxLen : i \in I <=> s[i] = c
  BY <1>3
<1> HIDE DEF I
<1>6. CASE I = {}
  <2>1. LastBefore(s, c) = 0
    BY <1>4, <1>6
  <2> QED BY <1>1, <1>5, <1>6, <2>1
<1>7. CASE I # {}
  <2>1. Max(I) \in I /\ \A k \in I : k <= Max(I)
    BY <1>1, <1>5, <1>7, LargestIs
  <2>2. LastBefore(s, c) = Max(I)
    BY <1>4, <1>7
  <2>3. PICK m \in 1 .. MaxLen : m = LastBefore(s, c) /\ m \in I /\ \A k \in I : k <= m
    BY <1>5, <2>1, <2>2
  <2>4. m \in 0 .. MaxLen /\ s[m] = c
    BY <1>5, <2>3
  <2>5. ASSUME NEW j \in 1 .. MaxLen, j > m PROVE s[j] # c
    <3>1. j \notin I
      BY <1>1, <2>3, <2>5
    <3> QED BY <1>5, <3>1
  <2> QED BY <2>3, <2>4, <2>5
<1> QED BY <1>6, <1>7

(* Where nothing is cut off, a newline comes first or a long word.         *)
LEMMA CutAtIs ==
  ASSUME NEW s \in Seq(Letters), Len(s) > MaxLen
  PROVE  /\ CutAt(s) \in 0 .. MaxLen
         /\ CutAt(s) = 0 => s[1] = "newline" \/ \A j \in 2 .. MaxLen : s[j] = "x"
<1>1. MaxLen \in Nat \ {0} /\ Len(s) \in Nat
  BY SplitterAssumption DEF SplitterAssumption
<1>2. PICK newline : newline = LastBefore(s, "newline")
  OBVIOUS
<1>3. PICK space : space = LastBefore(s, "space")
  OBVIOUS
<1>4. CutAt(s) = IF newline > 0 THEN newline - 1 ELSE IF space > 0 THEN space - 1 ELSE MaxLen
  BY <1>2, <1>3 DEF CutAt
<1>5. newline \in 0 .. MaxLen /\ space \in 0 .. MaxLen
  BY <1>2, <1>3, LastBeforeIs
<1>6. (newline > 0 => s[newline] = "newline") /\ \A j \in 1 .. MaxLen : j > newline => s[j] # "newline"
  BY <1>2, LastBeforeIs
<1>7. \A j \in 1 .. MaxLen : j > space => s[j] # "space"
  BY <1>3, LastBeforeIs
<1>8. \A j \in 1 .. MaxLen : s[j] \in {"x", "space", "newline"}
  BY <1>1 DEF Letters
<1>9. CutAt(s) \in 0 .. MaxLen
  BY <1>1, <1>4, <1>5
<1>10. ASSUME CutAt(s) = 0, s[1] # "newline", NEW j \in 2 .. MaxLen PROVE s[j] = "x"
  <2>1. newline = 0
    BY <1>1, <1>4, <1>5, <1>6, <1>10
  <2>2. space = 1
    BY <1>1, <1>4, <1>5, <1>10, <2>1
  <2>3. j \in 1 .. MaxLen /\ j > newline /\ j > space
    BY <2>1, <2>2
  <2> QED BY <1>6, <1>7, <1>8, <2>3
<1> QED BY <1>9, <1>10

LEMMA LongWordIn ==
  ASSUME NEW r \in Seq(Letters), NEW t \in Seq(Letters), EndsWith(r, t), Len(r) > MaxLen,
         \A j \in 2 .. MaxLen : r[j] = "x"
  PROVE  LongWord(t)
<1>1. MaxLen \in Nat \ {0} /\ Len(r) \in Nat /\ Len(t) \in Nat
  BY SplitterAssumption DEF SplitterAssumption
<1>2. PICK o \in 0 .. Len(t) : Len(r) = Len(t) - o /\ \A j \in 1 .. Len(r) : r[j] = t[o + j]
  BY DEF EndsWith
<1>3. o + 2 \in 1 .. Len(t) + 2 - MaxLen
  BY <1>1, <1>2
<1>4. ASSUME NEW j \in o + 2 .. o + 2 + MaxLen - 2 PROVE t[j] = "x"
  <2>1. j - o \in 2 .. MaxLen /\ j - o \in 1 .. Len(r) /\ o + (j - o) = j
    BY <1>1, <1>2
  <2> QED BY <1>2, <2>1
<1> QED BY <1>3, <1>4 DEF LongWord

LEMMA WithoutNewlinesIs ==
  ASSUME NEW s \in Seq(Letters)
  PROVE  /\ WithoutNewlines(s) \in Seq(Letters)
         /\ EndsWith(WithoutNewlines(s), s)
         /\ WithoutNewlines(s) = <<>> \/ WithoutNewlines(s)[1] # "newline"
         /\ Visible(WithoutNewlines(s)) = Visible(s)
<1>1. PICK N \in Nat : N = Len(s)
  OBVIOUS
<1> DEFINE I == {i \in 1 .. N : s[i] # "newline"}
<1>2. PICK first : first = IF I # {} THEN Min(I) ELSE 0
  OBVIOUS
<1>3. WithoutNewlines(s) = IF first = 0 THEN <<>> ELSE SubSeq(s, first, N)
  BY <1>1, <1>2 DEF WithoutNewlines, SelectInSeq
<1>4. I \in SUBSET Nat /\ I \subseteq 1 .. N /\ \A i \in 1 .. N : i \in I <=> s[i] # "newline"
  OBVIOUS
<1> HIDE DEF I
<1>5. Visible(<<>>) = <<>> /\ <<>> \in Seq(Letters)
  <2>1. <<>> \in Seq(Letters)
    OBVIOUS
  <2> QED BY <2>1, VisibleIs, KeptOfNone
<1>6. CASE I = {}
  <2>1. WithoutNewlines(s) = <<>>
    BY <1>2, <1>3, <1>6
  <2>2. Visible(s) = <<>>
    BY <1>1, <1>4, <1>6, NoneVisible
  <2>3. EndsWith(<<>>, s)
    BY EndsWithNone
  <2> QED BY <1>5, <2>1, <2>2, <2>3
<1>7. CASE I # {}
  <2>1. first \in I /\ \A k \in I : first <= k
    BY <1>2, <1>4, <1>7, SmallestIs
  <2>2. first \in 1 .. N /\ s[first] # "newline"
    BY <1>4, <2>1
  <2>3. PICK c \in 0 .. N : c = first - 1 /\ c + 1 = first /\ c < N
    <3>1. first - 1 \in 0 .. N /\ first - 1 + 1 = first /\ first - 1 < N
      BY <2>2
    <3> QED BY <3>1
  <2>4. WithoutNewlines(s) = SubSeq(s, c + 1, N)
    BY <1>3, <2>2, <2>3
  <2>5. PICK t : t = SubSeq(s, c + 1, N)
    OBVIOUS
  <2>6. t \in Seq(Letters) /\ EndsWith(t, s) /\ t[1] = s[c + 1]
    BY <1>1, <2>3, <2>5, EndsOf
  <2>7. PICK p : p = SubSeq(s, 1, c)
    OBVIOUS
  <2>8. p \in Seq(Letters) /\ p \o t = s
    BY <1>1, <2>5, <2>7, CutInTwo
  <2>9. Visible(p) = <<>>
    <3>1. Len(p) = c /\ \A i \in 1 .. c : p[i] = s[i]
      <4>1. \A i \in 1 .. c : s[i] \in Letters
        BY <1>1, <2>3
      <4>2. /\ Len(p) = IF 1 <= c THEN c - 1 + 1 ELSE 0
            /\ \A i \in 1 .. c - 1 + 1 : p[i] = s[1 + i - 1]
        BY <2>7, <4>1, SubSeqProperties
      <4> QED BY <4>2
    <3>2. \A i \in 1 .. c : i \in 1 .. N /\ i \notin I
      BY <2>1, <2>3, <1>1
    <3>3. \A i \in 1 .. Len(p) : p[i] = "newline"
      BY <1>4, <3>1, <3>2
    <3> QED BY <2>8, <3>3, NoneVisible
  <2>10. Visible(s) = Visible(t)
    <3>1. Visible(s) = Visible(p) \o Visible(t) /\ Visible(t) \in Seq(Letters)
      BY <2>6, <2>8, VisibleConcat
    <3>2. <<>> \o Visible(t) = Visible(t)
      BY <3>1, ConcatEmptySeq
    <3> QED BY <2>9, <3>1, <3>2
  <2> QED BY <2>2, <2>3, <2>4, <2>5, <2>6, <2>10
<1> QED BY <1>6, <1>7

SplitterInv ==
  /\ longText \in Seq(Letters) /\ rest \in Seq(Letters) /\ chunks \in Seq(Seq(Letters))
  /\ blank \in BOOLEAN /\ cutting \in BOOLEAN
  /\ \A i \in 1 .. Len(chunks) : Len(chunks[i]) <= MaxLen
  /\ Visible(FlattenSeq(chunks) \o rest) = Visible(longText)
  /\ EndsWith(rest, longText)
  /\ rest = longText \/ rest = <<>> \/ rest[1] # "newline"
  /\ NoBlankChunk

LEMMA SplitterStarts == SplitterInit => SplitterInv
<1> SUFFICES ASSUME SplitterInit PROVE SplitterInv
  OBVIOUS
<1>1. longText \in Seq(Letters)
  <2>1. PICK n \in 0 .. MaxText : longText \in [1 .. n -> Letters]
    BY DEF SplitterInit, Texts
  <2>2. n \in Nat
    BY SplitterAssumption DEF SplitterAssumption
  <2> QED BY <2>1, <2>2, SeqDef
<1>2. PICK t \in Seq(Letters) : t = longText
  BY <1>1
<1>3. /\ cutting = (Len(t) > MaxLen)
      /\ rest = IF cutting THEN t ELSE <<>>
      /\ chunks = IF cutting \/ t = <<>> THEN <<>> ELSE <<t>>
      /\ blank = (t = <<>>)
  BY <1>2 DEF SplitterInit
<1>4. <<>> \in Seq(Letters) /\ <<>> \in Seq(Seq(Letters)) /\ Len(t) \in Nat /\ MaxLen \in Nat
  BY SplitterAssumption DEF SplitterAssumption
<1>5. FlattenSeq(<<>>) = <<>> /\ FlattenSeq(Append(<<>>, t)) = FlattenSeq(<<>>) \o t
  BY <1>4, FlattenAppend
<1>6. <<>> \o t = t /\ t \o <<>> = t /\ Append(<<>>, t) = <<t>> /\ <<>> \o <<>> = <<>>
  BY ConcatEmptySeq
<1>7. EndsWith(t, t) /\ EndsWith(<<>>, t)
  BY EndsWithNone
<1>8. NoBlankChunk
  BY <1>2, <1>3 DEF NoBlankChunk
<1>9. CASE cutting
  <2>1. rest = t /\ chunks = <<>>
    BY <1>3, <1>9
  <2>2. Visible(FlattenSeq(chunks) \o rest) = Visible(longText)
    BY <1>2, <1>5, <1>6, <2>1
  <2>3. \A i \in 1 .. Len(chunks) : Len(chunks[i]) <= MaxLen
    BY <2>1
  <2>4. blank \in BOOLEAN /\ cutting \in BOOLEAN
    BY <1>3
  <2> QED BY <1>2, <1>4, <1>7, <1>8, <2>1, <2>2, <2>3, <2>4, Zenon DEF SplitterInv
<1>10. CASE ~cutting /\ t = <<>>
  <2>1. rest = <<>> /\ chunks = <<>>
    BY <1>3, <1>10
  <2>2. Visible(FlattenSeq(chunks) \o rest) = Visible(longText)
    BY <1>2, <1>5, <1>6, <1>10, <2>1
  <2>3. \A i \in 1 .. Len(chunks) : Len(chunks[i]) <= MaxLen
    BY <2>1
  <2>4. blank \in BOOLEAN /\ cutting \in BOOLEAN
    BY <1>3
  <2> QED BY <1>2, <1>4, <1>7, <1>8, <2>1, <2>2, <2>3, <2>4, Zenon DEF SplitterInv
<1>11. CASE ~cutting /\ t # <<>>
  <2>1. rest = <<>> /\ chunks = <<t>>
    BY <1>3, <1>11
  <2>2. Visible(FlattenSeq(chunks) \o rest) = Visible(longText)
    BY <1>2, <1>5, <1>6, <2>1
  <2>3. \A i \in 1 .. Len(chunks) : Len(chunks[i]) <= MaxLen
    <3>1. ~(Len(t) > MaxLen)
      BY <1>3, <1>11, Zenon
    <3>2. Len(t) <= MaxLen
      BY <1>4, <3>1
    <3> QED BY <2>1, <3>2
  <2>4. blank \in BOOLEAN /\ cutting \in BOOLEAN
    BY <1>3
  <2>5. <<t>> \in Seq(Seq(Letters))
    OBVIOUS
  <2> QED BY <1>2, <1>4, <1>7, <1>8, <2>1, <2>2, <2>3, <2>4, <2>5, Zenon DEF SplitterInv
<1> QED BY <1>9, <1>10, <1>11

LEMMA SplitterMeans == SplitterInv => SplitSound
<1> SUFFICES ASSUME SplitterInv PROVE SplitSound
  OBVIOUS
<1>1. ChunksAreTheText
  <2>1. DOMAIN chunks = 1 .. Len(chunks)
    BY DEF SplitterInv
  <2> QED BY <2>1, Zenon DEF SplitterInv, ChunksAreTheText
<1>2. ShortWordsEnd
  <2>1. SUFFICES ASSUME Endless PROVE LongWord(longText)
    BY DEF ShortWordsEnd
  <2>2. Len(rest) > MaxLen /\ CutAt(rest) = 0 /\ rest[1] # "newline"
    BY <2>1 DEF Endless
  <2>3. rest \in Seq(Letters) /\ longText \in Seq(Letters) /\ EndsWith(rest, longText)
    BY DEF SplitterInv
  <2>4. \A j \in 2 .. MaxLen : rest[j] = "x"
    BY <2>2, <2>3, CutAtIs
  <2> QED BY <2>2, <2>3, <2>4, LongWordIn
<1>3. NoBlankChunk
  BY DEF SplitterInv
<1> QED BY <1>1, <1>2, <1>3 DEF SplitSound

\* A chunk that is pushed comes after the others.
LEMMA PushChunkIs ==
  ASSUME SplitterInv, NEW a \in Seq(Letters), Len(a) <= MaxLen, PushChunk(a)
  PROVE  /\ chunks' \in Seq(Seq(Letters))
         /\ \A i \in 1 .. Len(chunks') : Len(chunks'[i]) <= MaxLen
         /\ FlattenSeq(chunks') = FlattenSeq(chunks) \o a
         /\ FlattenSeq(chunks) \in Seq(Letters) /\ FlattenSeq(chunks') \in Seq(Letters)
         /\ blank' = (blank \/ a = <<>>)
<1>1. PICK c \in Seq(Seq(Letters)) : c = chunks
  BY DEF SplitterInv
<1>2. \A i \in 1 .. Len(c) : Len(c[i]) <= MaxLen
  BY <1>1 DEF SplitterInv
<1>3. chunks' = (IF a = <<>> THEN c ELSE Append(c, a)) /\ blank' = (blank \/ a = <<>>)
  BY <1>1 DEF PushChunk
<1>4. FlattenSeq(c) \in Seq(Letters) /\ FlattenSeq(Append(c, a)) = FlattenSeq(c) \o a
  BY FlattenAppend
<1>5. FlattenSeq(c) \o a \in Seq(Letters)
  BY <1>4, ConcatProperties
<1>6. CASE a = <<>>
  <2>1. FlattenSeq(c) \o a = FlattenSeq(c)
    BY <1>4, <1>6, ConcatEmptySeq
  <2> QED BY <1>1, <1>2, <1>3, <1>4, <1>6, <2>1
<1>7. CASE a # <<>>
  <2>1. PICK d : d = Append(c, a)
    OBVIOUS
  <2>2. d \in Seq(Seq(Letters)) /\ Len(d) = Len(c) + 1 /\ d[Len(c) + 1] = a
        /\ \A i \in 1 .. Len(c) : d[i] = c[i]
    BY <2>1, AppendProperties
  <2>3. ASSUME NEW i \in 1 .. Len(d) PROVE Len(d[i]) <= MaxLen
    <3>1. i \in 1 .. Len(c) \/ i = Len(c) + 1
      BY <2>2
    <3> QED BY <1>2, <2>2, <3>1
  <2>4. chunks' = d
    BY <1>3, <1>7, <2>1
  <2> QED BY <1>1, <1>3, <1>4, <1>5, <2>1, <2>2, <2>3, <2>4
<1> QED BY <1>6, <1>7

LEMMA CutKeeps == SplitterInv /\ Cut => SplitterInv'
<1> SUFFICES ASSUME SplitterInv, Cut PROVE SplitterInv'
  OBVIOUS
<1>1. PICK r \in Seq(Letters) : r = rest
  BY DEF SplitterInv
<1>2. PICK t \in Seq(Letters) : t = longText
  BY DEF SplitterInv
<1>3. PICK c : c = CutAt(r)
  OBVIOUS
<1>4. Len(r) > MaxLen /\ MaxLen \in Nat \ {0} /\ Len(r) \in Nat
  BY <1>1, SplitterAssumption DEF Cut, SplitterAssumption
<1>5. c \in 0 .. MaxLen /\ c \in 0 .. Len(r) /\ (c = 0 => r[1] = "newline" \/ \A j \in 2 .. MaxLen : r[j] = "x")
  <2>1. c \in 0 .. MaxLen /\ (c = 0 => r[1] = "newline" \/ \A j \in 2 .. MaxLen : r[j] = "x")
    BY <1>3, <1>4, CutAtIs
  <2> QED BY <1>4, <2>1
<1>6. PICK a : a = SubSeq(r, 1, c)
  OBVIOUS
<1>7. PICK b : b = SubSeq(r, c + 1, Len(r))
  OBVIOUS
<1>8. a \in Seq(Letters) /\ b \in Seq(Letters) /\ a \o b = r
  BY <1>5, <1>6, <1>7, CutInTwo
<1>9. Len(a) = c
  <2>1. \A i \in 1 .. c : r[i] \in Letters
    BY <1>5
  <2>2. Len(a) = IF 1 <= c THEN c - 1 + 1 ELSE 0
    BY <1>5, <1>6, <2>1, SubSeqProperties
  <2> QED BY <1>5, <2>2
<1>10. PushChunk(a) /\ rest' = WithoutNewlines(b) /\ longText' = longText /\ cutting' = cutting
  BY <1>1, <1>3, <1>6, <1>7 DEF Cut
<1>11. Len(a) <= MaxLen
  BY <1>4, <1>5, <1>9
<1>12. /\ chunks' \in Seq(Seq(Letters))
       /\ \A i \in 1 .. Len(chunks') : Len(chunks'[i]) <= MaxLen
       /\ FlattenSeq(chunks') = FlattenSeq(chunks) \o a
       /\ FlattenSeq(chunks) \in Seq(Letters) /\ FlattenSeq(chunks') \in Seq(Letters)
       /\ blank' = (blank \/ a = <<>>)
  BY <1>8, <1>10, <1>11, PushChunkIs
<1>13. PICK q : q = WithoutNewlines(b)
  OBVIOUS
<1>14. q \in Seq(Letters) /\ EndsWith(q, b) /\ (q = <<>> \/ q[1] # "newline") /\ Visible(q) = Visible(b)
  BY <1>8, <1>13, WithoutNewlinesIs
<1>15. rest' = q
  BY <1>10, <1>13
<1>16. EndsWith(q, t)
  <2>1. EndsWith(b, r)
    BY <1>5, <1>7, EndsOf
  <2>2. EndsWith(r, t)
    BY <1>1, <1>2 DEF SplitterInv
  <2>3. EndsWith(b, t)
    BY <1>8, <2>1, <2>2, EndsOfEnds
  <2> QED BY <1>8, <1>14, <2>3, EndsOfEnds
<1>17. Visible(FlattenSeq(chunks') \o q) = Visible(t)
  <2>1. PICK F \in Seq(Letters) : F = FlattenSeq(chunks)
    BY <1>12
  <2>2. PICK G \in Seq(Letters) : G = FlattenSeq(chunks')
    BY <1>12
  <2>3. G = F \o a
    BY <1>12, <2>1, <2>2
  <2>4. Visible(G \o q) = Visible(G) \o Visible(q)
    BY <1>14, VisibleConcat
  <2>5. Visible(F \o a) = Visible(F) \o Visible(a)
    BY <1>8, VisibleConcat
  <2>6. Visible(F \o r) = Visible(F) \o Visible(r)
    BY VisibleConcat
  <2>7. Visible(a \o b) = Visible(a) \o Visible(b)
    BY <1>8, VisibleConcat
  <2>9. (Visible(F) \o Visible(a)) \o Visible(b) = Visible(F) \o (Visible(a) \o Visible(b))
    BY <1>8, VisibleOfParts, Zenon
  <2>10. Visible(F \o r) = Visible(t)
    BY <1>1, <1>2, <2>1 DEF SplitterInv
  <2> QED BY <1>8, <1>14, <2>2, <2>3, <2>4, <2>5, <2>6, <2>7, <2>9, <2>10, Zenon
<1>18. NoBlankChunk'
  <2>1. SUFFICES ASSUME blank' PROVE t = <<>> \/ t[1] = "newline" \/ LongWord(t)
    BY <1>2, <1>10 DEF NoBlankChunk, LongWord
  <2>2. CASE blank
    <3>1. longText = <<>> \/ longText[1] = "newline" \/ LongWord(longText)
      BY <2>2 DEF SplitterInv, NoBlankChunk
    <3> QED BY <1>2, <3>1
  <2>3. CASE a = <<>>
    <3>1. c = 0
      BY <1>9, <2>3
    <3>2. CASE r[1] = "newline"
      <4>1. r # <<>>
        BY <1>4
      <4>2. r = t
        BY <1>1, <1>2, <3>2, <4>1 DEF SplitterInv
      <4> QED BY <3>2, <4>2
    <3>3. CASE \A j \in 2 .. MaxLen : r[j] = "x"
      <4>1. EndsWith(r, t)
        BY <1>1, <1>2 DEF SplitterInv
      <4> QED BY <1>4, <3>3, <4>1, LongWordIn
    <3> QED BY <1>5, <3>1, <3>2, <3>3
  <2> QED BY <1>12, <2>1, <2>2, <2>3
<1>19. blank' \in BOOLEAN /\ cutting' \in BOOLEAN
  BY <1>10, <1>12, Zenon DEF SplitterInv
<1> QED BY <1>2, <1>10, <1>12, <1>14, <1>15, <1>16, <1>17, <1>18, <1>19, Zenon DEF SplitterInv

LEMMA LastChunkKeeps == SplitterInv /\ LastChunk => SplitterInv'
<1> SUFFICES ASSUME SplitterInv, LastChunk PROVE SplitterInv'
  OBVIOUS
<1>1. PICK r \in Seq(Letters) : r = rest
  BY DEF SplitterInv
<1>2. PICK t \in Seq(Letters) : t = longText
  BY DEF SplitterInv
<1>3. /\ Len(r) <= MaxLen /\ rest' = <<>> /\ cutting' = FALSE /\ longText' = longText
      /\ IF r = <<>> THEN UNCHANGED <<chunks, blank>> ELSE PushChunk(r)
  BY <1>1 DEF LastChunk
<1>4. FlattenSeq(chunks) \in Seq(Letters)
  <2>1. chunks \in Seq(Seq(Letters)) /\ r \in Seq(Letters)
    BY DEF SplitterInv
  <2> QED BY <2>1, FlattenAppend
<1>5. /\ chunks' \in Seq(Seq(Letters))
      /\ \A i \in 1 .. Len(chunks') : Len(chunks'[i]) <= MaxLen
      /\ FlattenSeq(chunks') = FlattenSeq(chunks) \o r
      /\ blank' \in BOOLEAN /\ blank' = blank
  <2>1. CASE r = <<>>
    <3>1. chunks' = chunks /\ blank' = blank
      BY <1>3, <2>1
    <3>2. FlattenSeq(chunks) \o r = FlattenSeq(chunks)
      BY <1>4, <2>1, ConcatEmptySeq
    <3> QED BY <3>1, <3>2 DEF SplitterInv
  <2>2. CASE r # <<>>
    <3>1. /\ chunks' \in Seq(Seq(Letters))
          /\ \A i \in 1 .. Len(chunks') : Len(chunks'[i]) <= MaxLen
          /\ FlattenSeq(chunks') = FlattenSeq(chunks) \o r
          /\ blank' = (blank \/ r = <<>>)
      BY <1>3, <2>2, PushChunkIs
    <3>2. blank' = blank /\ blank' \in BOOLEAN
      BY <2>2, <3>1, Zenon DEF SplitterInv
    <3> QED BY <3>1, <3>2
  <2> QED BY <2>1, <2>2
<1>6. FlattenSeq(chunks') \o <<>> = FlattenSeq(chunks')
  <2>1. FlattenSeq(chunks') \in Seq(Letters)
    BY <1>4, <1>5, ConcatProperties
  <2> QED BY <2>1, ConcatEmptySeq
<1>7. Visible(FlattenSeq(chunks') \o <<>>) = Visible(t)
  BY <1>1, <1>2, <1>5, <1>6, Zenon DEF SplitterInv
<1>8. EndsWith(<<>>, t)
  BY EndsWithNone
<1>9. NoBlankChunk'
  BY <1>3, <1>5 DEF SplitterInv, NoBlankChunk, LongWord
<1>10. <<>> \in Seq(Letters) /\ FALSE \in BOOLEAN
  OBVIOUS
<1> QED BY <1>2, <1>3, <1>5, <1>7, <1>8, <1>9, <1>10, Zenon DEF SplitterInv

LEMMA SplitterKept == SplitterInv /\ [SplitterNext]_splitterVars => SplitterInv'
<1>1. ASSUME SplitterInv, UNCHANGED splitterVars PROVE SplitterInv'
  <2>1. /\ longText' = longText /\ rest' = rest /\ chunks' = chunks /\ blank' = blank
        /\ cutting' = cutting
    BY <1>1 DEF splitterVars
  <2>2. NoBlankChunk'
    BY <1>1, <2>1 DEF SplitterInv, NoBlankChunk, LongWord
  <2> QED BY <1>1, <2>1, <2>2, Zenon DEF SplitterInv
<1> QED BY <1>1, CutKeeps, LastChunkKeeps, Zenon DEF SplitterNext

(* An answer is cut into chunks the service takes, in order and with       *)
(* nothing lost but newlines; only a word as long as the limit keeps the   *)
(* loop from ending.                                                       *)
THEOREM SplitSoundHolds == SplitterInit /\ [][SplitterNext]_splitterVars => []SplitSound
<1> QED BY SplitterStarts, SplitterKept, SplitterMeans, PTL

-----------------------------------------------------------------------------
(* A streamed answer, for any number of calls of tools and of their pieces. *)

WireBlocks == [call : WireIds, named : BOOLEAN, parts : 0 .. WireParts]
WireChunks == [kind : {"text", "call", "stop", "error"}, call : 0 .. WireCalls, whole : BOOLEAN]

LEMMA PassedIs == passedOn \in Seq(WireChunks) => \A kind : Passed(kind) = Picked(passedOn, OfKind(kind))
<1> SUFFICES ASSUME passedOn \in Seq(WireChunks), NEW kind
             PROVE  Passed(kind) = Picked(passedOn, OfKind(kind))
  OBVIOUS
<1>1. Passed(kind) = (CHOOSE f : FiltersTo(f, passedOn, OfKind(kind), Len(passedOn)))[Len(passedOn)]
  BY Zenon DEF Passed, FiltersTo
<1> QED BY <1>1, Zenon DEF Picked

LEMMA PassOnKept ==
  ASSUME NEW s \in Seq(WireChunks), NEW c \in WireChunks
  PROVE  /\ Append(s, c) \in Seq(WireChunks)
         /\ \A kind : /\ Picked(s, OfKind(kind)) \in Seq(WireChunks)
                      /\ Picked(Append(s, c), OfKind(kind)) =
                           IF c.kind = kind THEN Append(Picked(s, OfKind(kind)), c) ELSE Picked(s, OfKind(kind))
<1>1. Append(s, c) \in Seq(WireChunks)
  BY AppendProperties
<1>2. ASSUME NEW kind
      PROVE  /\ Picked(s, OfKind(kind)) \in Seq(WireChunks)
             /\ Picked(Append(s, c), OfKind(kind)) =
                  IF c.kind = kind THEN Append(Picked(s, OfKind(kind)), c) ELSE Picked(s, OfKind(kind))
  <2>1. c \in OfKind(kind) <=> c.kind = kind
    BY DEF WireChunks, OfKind
  <2>2. Picked(s, OfKind(kind)) \in Seq(WireChunks)
    BY KeptSeq
  <2>3. Picked(Append(s, c), OfKind(kind)) =
          IF c \in OfKind(kind) THEN Append(Picked(s, OfKind(kind)), c) ELSE Picked(s, OfKind(kind))
    BY KeptAppend
  <2> QED BY <2>1, <2>2, <2>3
<1> QED BY <1>1, <1>2

(* The calls that were passed on are the first of those that were started, *)
(* and what is kept back are the others, in order.                         *)
Placed(outs, kept, sent) ==
  /\ \A i \in WireIds : sent[i] > 0 <=> i <= Len(outs) + Len(kept)
  /\ Len(outs) + Len(kept) <= WireCalls
  /\ \A j \in 1 .. Len(kept) :
       kept[j] = [call |-> Len(outs) + j, named |-> TRUE, parts |-> sent[Len(outs) + j]]
  /\ \A j \in 1 .. Len(outs) : outs[j] = [kind |-> "call", call |-> j, whole |-> sent[j] = WireParts]

LEMMA PlacedPass ==
  ASSUME NEW outs \in Seq(WireChunks), NEW kept \in Seq(WireBlocks), NEW sent \in [WireIds -> 0 .. WireParts],
         Placed(outs, kept, sent), kept # <<>>
  PROVE  /\ ToolUse(kept[1]) \in WireChunks /\ ToolUse(kept[1]).kind = "call"
         /\ Placed(Append(outs, ToolUse(kept[1])), Tail(kept), sent)
         /\ Tail(kept) \in Seq(WireBlocks) /\ Len(Tail(kept)) = Len(kept) - 1
         /\ Len(outs) + 1 \in WireIds /\ sent[Len(outs) + 1] > 0
<1>1. PICK p \in Nat : p = Len(outs)
  OBVIOUS
<1>2. PICK b \in Nat : b = Len(kept)
  OBVIOUS
<1>3. b > 0 /\ 1 \in 1 .. b /\ p + 1 \in WireIds /\ WireCalls \in Nat
  BY <1>1, <1>2, AnswersAssumption, EmptySeq DEF Placed, WireIds, AnswersAssumption
<1>4. kept[1] = [call |-> p + 1, named |-> TRUE, parts |-> sent[p + 1]]
  BY <1>1, <1>2, <1>3 DEF Placed
<1>5. PICK c : c = [kind |-> "call", call |-> p + 1, whole |-> sent[p + 1] = WireParts]
  OBVIOUS
<1>6. ToolUse(kept[1]) = c
  <2>1. kept[1].call = p + 1 /\ kept[1].named = TRUE /\ kept[1].parts = sent[p + 1]
    BY <1>4
  <2>2. ToolUse(kept[1]) = [kind |-> "call", call |-> p + 1, whole |-> TRUE /\ sent[p + 1] = WireParts]
    BY <2>1, Zenon DEF ToolUse
  <2>3. (TRUE /\ sent[p + 1] = WireParts) = (sent[p + 1] = WireParts)
    OBVIOUS
  <2> QED BY <1>5, <2>2, <2>3, Zenon
<1>7. c \in WireChunks /\ c.kind = "call"
  BY <1>3, <1>5 DEF WireChunks, WireIds
<1>8. PICK d : d = Append(outs, c)
  OBVIOUS
<1>9. d \in Seq(WireChunks) /\ Len(d) = p + 1 /\ d[p + 1] = c /\ \A j \in 1 .. p : d[j] = outs[j]
  BY <1>1, <1>7, <1>8, AppendProperties
<1>10. PICK t : t = Tail(kept)
  OBVIOUS
<1>11. t \in Seq(WireBlocks) /\ Len(t) = b - 1 /\ \A j \in 1 .. b - 1 : t[j] = kept[j + 1]
  BY <1>2, <1>10, HeadTailProperties
<1>12. Placed(d, t, sent)
  <2>1. Len(d) + Len(t) = p + b /\ p + b <= WireCalls
    BY <1>1, <1>2, <1>9, <1>11 DEF Placed
  <2>2. \A i \in WireIds : sent[i] > 0 <=> i <= Len(d) + Len(t)
    BY <1>1, <1>2, <2>1 DEF Placed
  <2>3. ASSUME NEW j \in 1 .. Len(t)
        PROVE  t[j] = [call |-> Len(d) + j, named |-> TRUE, parts |-> sent[Len(d) + j]]
    <3>1. j \in 1 .. b - 1 /\ j \in Nat
      BY <1>11
    <3>3. j + 1 \in 1 .. b /\ p + (j + 1) = (p + 1) + j /\ t[j] = kept[j + 1]
      BY <1>11, <3>1
    <3>2. kept[j + 1] = [call |-> p + (j + 1), named |-> TRUE, parts |-> sent[p + (j + 1)]]
      BY <1>1, <1>2, <3>3, Zenon DEF Placed
    <3> QED BY <1>9, <3>2, <3>3, Zenon
  <2>4. ASSUME NEW j \in 1 .. Len(d)
        PROVE  d[j] = [kind |-> "call", call |-> j, whole |-> sent[j] = WireParts]
    <3>1. j \in 1 .. p \/ j = p + 1
      BY <1>9
    <3>2. \A i \in 1 .. p : outs[i] = [kind |-> "call", call |-> i, whole |-> sent[i] = WireParts]
      BY <1>1, Zenon DEF Placed
    <3>3. CASE j \in 1 .. p
      BY <1>9, <3>2, <3>3, Zenon
    <3>4. CASE j = p + 1
      BY <1>5, <1>9, <3>4, Zenon
    <3> QED BY <3>1, <3>3, <3>4
  <2> QED BY <2>1, <2>2, <2>3, <2>4 DEF Placed
<1>13. sent[p + 1] > 0
  <2>1. p + 1 <= p + b
    BY <1>3
  <2> QED BY <1>1, <1>2, <1>3, <2>1 DEF Placed
<1> QED BY <1>1, <1>2, <1>3, <1>6, <1>7, <1>8, <1>10, <1>11, <1>12, <1>13, Zenon

(* A piece of a call that is kept back, and the first piece of one.        *)
LEMMA PlacedMore ==
  ASSUME NEW outs \in Seq(WireChunks), NEW kept \in Seq(WireBlocks), NEW sent \in [WireIds -> 0 .. WireParts],
         Placed(outs, kept, sent), NEW m \in 1 .. Len(kept), sent[Len(outs) + m] < WireParts,
         NEW more \in Seq(WireBlocks), Len(more) = Len(kept),
         more[m] = [call |-> kept[m].call, named |-> TRUE, parts |-> kept[m].parts + 1],
         \A j \in 1 .. Len(kept) : j # m => more[j] = kept[j]
  PROVE  Placed(outs, more, [sent EXCEPT ![Len(outs) + m] = @ + 1])
<1>1. PICK p \in Nat : p = Len(outs)
  OBVIOUS
<1>2. PICK b \in Nat : b = Len(kept)
  OBVIOUS
<1>3. p + m \in WireIds /\ m \in 1 .. b /\ p + m <= p + b /\ p + b <= WireCalls /\ WireCalls \in Nat
  <2>1. p + b <= WireCalls
    BY <1>1, <1>2 DEF Placed
  <2>2. WireCalls \in Nat
    BY AnswersAssumption DEF AnswersAssumption
  <2>3. m \in 1 .. b
    BY <1>2
  <2> QED BY <2>1, <2>2, <2>3 DEF WireIds
<1>4. PICK then : then = [sent EXCEPT ![p + m] = @ + 1]
  OBVIOUS
<1>5. /\ then[p + m] = sent[p + m] + 1
      /\ \A i \in WireIds : i # p + m => then[i] = sent[i]
      /\ sent[p + m] \in Nat /\ sent[p + m] > 0
  <2>0. WireParts \in Nat
    BY AnswersAssumption DEF AnswersAssumption
  <2>1. sent[p + m] \in Nat
    BY <1>3, <2>0
  <2>2. sent[p + m] > 0
    BY <1>1, <1>2, <1>3, Zenon DEF Placed
  <2> QED BY <1>3, <1>4, <2>1, <2>2
<1>6. \A i \in WireIds : then[i] > 0 <=> i <= p + Len(more)
  <2>1. \A i \in WireIds : sent[i] > 0 <=> i <= p + b
    BY <1>1, <1>2, Zenon DEF Placed
  <2>2. then[p + m] > 0
    BY <1>5
  <2> QED BY <1>2, <1>3, <1>5, <2>1, <2>2
<1>7. ASSUME NEW j \in 1 .. Len(more)
      PROVE  more[j] = [call |-> p + j, named |-> TRUE, parts |-> then[p + j]]
  <2>0. j \in 1 .. Len(kept) /\ j \in 1 .. b
    BY <1>2
  <2>1. kept[j] = [call |-> p + j, named |-> TRUE, parts |-> sent[p + j]]
    BY <1>1, <2>0, Zenon DEF Placed
  <2>2. CASE j = m
    <3>1. kept[m].call = p + m /\ kept[m].parts = sent[p + m]
      BY <2>1, <2>2
    <3> QED BY <1>5, <2>2, <3>1, Zenon
  <2>3. CASE j # m
    <3>1. p + j \in WireIds /\ p + j # p + m
      BY <1>3, <2>0, <2>3 DEF WireIds
    <3> QED BY <1>5, <2>0, <2>1, <2>3, <3>1, Zenon
  <2> QED BY <2>2, <2>3
<1>8. ASSUME NEW j \in 1 .. p
      PROVE  outs[j] = [kind |-> "call", call |-> j, whole |-> then[j] = WireParts]
  <2>1. outs[j] = [kind |-> "call", call |-> j, whole |-> sent[j] = WireParts]
    BY <1>1, Zenon DEF Placed
  <2>2. j \in Nat /\ 1 <= j /\ j <= p /\ m \in Nat /\ 1 <= m /\ p \in Nat
    BY <1>1, <1>3
  <2>3. j <= WireCalls /\ j # p + m
    BY <1>3, <2>2
  <2>4. j \in WireIds
    BY <1>3, <2>2, <2>3 DEF WireIds
  <2> QED BY <1>5, <2>1, <2>3, <2>4, Zenon
<1> QED BY <1>1, <1>2, <1>3, <1>4, <1>6, <1>7, <1>8, Zenon DEF Placed

LEMMA NextPlace ==
  ASSUME NEW p \in Nat, NEW b \in Nat
  PROVE  \A n \in Nat : n <= p + (b + 1) <=> n <= p + b \/ n = p + (b + 1)
OBVIOUS

LEMMA PlacedNew ==
  ASSUME NEW outs \in Seq(WireChunks), NEW kept \in Seq(WireBlocks), NEW sent \in [WireIds -> 0 .. WireParts],
         Placed(outs, kept, sent), NEW i \in WireIds, i = Len(outs) + Len(kept) + 1,
         NEW more \in Seq(WireBlocks), Len(more) = Len(kept) + 1,
         more[Len(kept) + 1] = [call |-> i, named |-> TRUE, parts |-> 1],
         \A j \in 1 .. Len(kept) : more[j] = kept[j]
  PROVE  Placed(outs, more, [sent EXCEPT ![i] = @ + 1])
<1>1. PICK p \in Nat : p = Len(outs)
  OBVIOUS
<1>2. PICK b \in Nat : b = Len(kept)
  OBVIOUS
<1>3. i = p + (b + 1) /\ i <= WireCalls /\ Len(more) = b + 1 /\ WireCalls \in Nat
  BY <1>1, <1>2, AnswersAssumption DEF WireIds, AnswersAssumption
<1>4. PICK then : then = [sent EXCEPT ![i] = @ + 1]
  OBVIOUS
<1>5. /\ then[i] = 1
      /\ \A n \in WireIds : n # i => then[n] = sent[n]
  <2>1. sent[i] \in Nat
    BY AnswersAssumption DEF AnswersAssumption
  <2>2. ~(sent[i] > 0)
    BY <1>1, <1>2, <1>3 DEF Placed
  <2> QED BY <1>4, <2>1, <2>2
<1>6. \A n \in WireIds : then[n] > 0 <=> n <= p + Len(more)
  <2>1. \A n \in WireIds : sent[n] > 0 <=> n <= p + b
    BY <1>1, <1>2 DEF Placed
  <2>0. \A n \in Nat : n <= p + (b + 1) <=> n <= p + b \/ n = p + (b + 1)
    BY NextPlace, Zenon
  <2>2. \A n \in WireIds : n <= p + (b + 1) <=> n <= p + b \/ n = i
    <3>1. WireIds \subseteq Nat
      BY DEF WireIds
    <3> QED BY <1>3, <2>0, <3>1, Zenon
  <2>3. \A n \in WireIds : then[n] > 0 <=> sent[n] > 0 \/ n = i
    BY <1>5
  <2> QED BY <1>3, <2>1, <2>2, <2>3
<1>7. ASSUME NEW j \in 1 .. Len(more)
      PROVE  more[j] = [call |-> p + j, named |-> TRUE, parts |-> then[p + j]]
  <2>1. j \in 1 .. b \/ j = b + 1
    BY <1>3
  <2>2. CASE j = b + 1
    BY <1>2, <1>3, <1>5, <2>2
  <2>3. CASE j \in 1 .. b
    <3>1. kept[j] = [call |-> p + j, named |-> TRUE, parts |-> sent[p + j]]
      BY <1>1, <1>2, <2>3 DEF Placed
    <3>2. p + j \in WireIds /\ p + j # i
      BY <1>3, <2>3 DEF WireIds
    <3> QED BY <1>2, <1>5, <2>3, <3>1, <3>2
  <2> QED BY <2>1, <2>2, <2>3
<1>8. ASSUME NEW j \in 1 .. p
      PROVE  outs[j] = [kind |-> "call", call |-> j, whole |-> then[j] = WireParts]
  <2>1. outs[j] = [kind |-> "call", call |-> j, whole |-> sent[j] = WireParts]
    BY <1>1, Zenon DEF Placed
  <2>2. j \in WireIds /\ j # i
    BY <1>3 DEF WireIds
  <2> QED BY <1>5, <2>1, <2>2, Zenon
<1> QED BY <1>1, <1>3, <1>4, <1>6, <1>7, <1>8, Zenon DEF Placed

(* What was passed on of one kind, as the filter keeps it.                 *)
Sent(kind) == Picked(passedOn, OfKind(kind))
\* Nothing but a text in the event of the reason went wrong.
Fine == wireFaults \subseteq {"joined"}
WireTypes ==
  /\ wire \in {"openai", "anthropic"} /\ wireCalls \in [WireIds -> 0 .. WireParts] /\ wireTexts \in 0 .. WireTexts
  /\ wireEnd \in {"open", "finished", "marked", "ended", "returned"}
  /\ blocked \in Seq(WireBlocks) /\ passedOn \in Seq(WireChunks)
  /\ wireFaults \subseteq {"length", "cut", "error", "joined"}
WireOrder ==
  /\ Placed(Sent("call"), blocked, wireCalls)
  /\ wireEnd = "open" /\ wire = "openai" => Sent("call") = <<>>
  /\ wire = "anthropic" => Len(blocked) <= 1
  /\ wire = "anthropic" /\ "length" \notin wireFaults =>
       \A j \in 1 .. Len(Sent("call")) : wireCalls[j] = WireParts
  /\ Len(Sent("text")) = wireTexts
WireOver ==
  /\ wireEnd = "open" => Len(Sent("stop")) = 0
  /\ wireEnd # "open" /\ Fine => Unfinished = {}
  /\ wireEnd # "open" /\ Fine /\ (wire = "anthropic" \/ (Started = {} /\ wireFaults = {})) => Len(Sent("stop")) = 1
  /\ (wireEnd = "returned" \/ (wireEnd # "open" /\ wire = "anthropic")) /\ Fine => blocked = <<>>
WireInv == WireTypes /\ WireOrder /\ WireOver

LEMMA WirePasses ==
  ASSUME WireTypes, NEW c \in WireChunks, passedOn' = Append(passedOn, c)
  PROVE  /\ passedOn' \in Seq(WireChunks)
         /\ \A kind : /\ Sent(kind) \in Seq(WireChunks)
                      /\ c.kind # kind => Sent(kind)' = Sent(kind)
                      /\ c.kind = kind => /\ Sent(kind)' = Append(Sent(kind), c)
                                          /\ Len(Sent(kind)') = Len(Sent(kind)) + 1
<1>1. passedOn \in Seq(WireChunks)
  BY DEF WireTypes
<1>2. PICK s \in Seq(WireChunks) : s = passedOn
  BY <1>1
<1>3. PICK t : t = Append(s, c)
  OBVIOUS
<1>4. /\ t \in Seq(WireChunks)
      /\ \A kind : /\ Picked(s, OfKind(kind)) \in Seq(WireChunks)
                   /\ Picked(t, OfKind(kind)) =
                        IF c.kind = kind THEN Append(Picked(s, OfKind(kind)), c) ELSE Picked(s, OfKind(kind))
  BY <1>3, PassOnKept, Zenon
<1>5. passedOn' = t
  BY <1>2, <1>3
<1>6. ASSUME NEW kind
      PROVE  /\ Sent(kind) \in Seq(WireChunks)
             /\ c.kind # kind => Sent(kind)' = Sent(kind)
             /\ c.kind = kind => /\ Sent(kind)' = Append(Sent(kind), c)
                                 /\ Len(Sent(kind)') = Len(Sent(kind)) + 1
  <2>1. PICK k : k = Picked(s, OfKind(kind))
    OBVIOUS
  <2>2. PICK m : m = Picked(t, OfKind(kind))
    OBVIOUS
  <2>3. Sent(kind) = k /\ Sent(kind)' = m
    BY <1>2, <1>5, <2>1, <2>2, Zenon DEF Sent
  <2>4. k \in Seq(WireChunks) /\ m = IF c.kind = kind THEN Append(k, c) ELSE k
    BY <1>4, <2>1, <2>2, Zenon
  <2>5. Len(Append(k, c)) = Len(k) + 1
    BY <2>4, AppendProperties
  <2> QED BY <2>3, <2>4, <2>5
<1> QED BY <1>4, <1>5, <1>6

LEMMA ChunkIs ==
  ASSUME NEW kind \in {"text", "stop", "error"}
  PROVE  Chunk(kind) \in WireChunks /\ Chunk(kind).kind = kind
<1>1. 0 \in 0 .. WireCalls
  BY AnswersAssumption DEF AnswersAssumption
<1> QED BY <1>1 DEF Chunk, WireChunks

LEMMA WireSent ==
  ASSUME WireTypes
  PROVE  \A kind : Sent(kind) \in Seq(WireChunks) /\ Len(Sent(kind)) \in Nat
<1>1. passedOn \in Seq(WireChunks)
  BY DEF WireTypes
<1>2. ASSUME NEW kind PROVE Sent(kind) \in Seq(WireChunks)
  BY <1>1, KeptSeq DEF Sent
<1> QED BY <1>2

LEMMA WireInitInv == WireInit => WireInv
<1> SUFFICES ASSUME WireInit PROVE WireInv
  OBVIOUS
<1>1. /\ wire \in {"openai", "anthropic"} /\ wireTexts = 0 /\ wireEnd = "open"
      /\ blocked = <<>> /\ passedOn = <<>> /\ wireFaults = {}
  BY DEF WireInit
<1>2. wireCalls \in [WireIds -> 0 .. WireParts] /\ \A i \in WireIds : wireCalls[i] = 0
  BY AnswersAssumption DEF WireInit, AnswersAssumption
<1>3. \A kind : Sent(kind) = <<>>
  BY <1>1, KeptOfNone, Zenon DEF Sent
<1>4. <<>> \in Seq(WireBlocks) /\ <<>> \in Seq(WireChunks) /\ Len(<<>>) = 0
  OBVIOUS
<1>5. WireTypes
  BY <1>1, <1>2, <1>4, AnswersAssumption DEF WireTypes, AnswersAssumption
<1>6. Placed(<<>>, <<>>, wireCalls)
  BY <1>2, <1>4, AnswersAssumption DEF Placed, WireIds, AnswersAssumption
<1>7. WireOrder
  BY <1>1, <1>3, <1>4, <1>6 DEF WireOrder
<1>8. WireOver
  BY <1>1, <1>3, <1>4 DEF WireOver
<1> QED BY <1>5, <1>7, <1>8 DEF WireInv

(* Text, alone or with the reason.                                         *)
LEMMA SendTextInv == WireInv /\ SendText => WireInv'
<1> SUFFICES ASSUME WireInv, SendText PROVE WireInv'
  OBVIOUS
<1>1. /\ wire' = wire /\ wireCalls' = wireCalls /\ wireEnd' = wireEnd /\ blocked' = blocked
      /\ wireFaults' = wireFaults /\ wireTexts' = wireTexts + 1 /\ wireTexts < WireTexts
      /\ passedOn' = Append(passedOn, Chunk("text")) /\ wireEnd = "open"
  BY DEF SendText, PassOn, Sends
<1>2. WireTypes /\ WireOrder /\ WireOver
  BY DEF WireInv
<1>3. Chunk("text") \in WireChunks /\ Chunk("text").kind = "text"
  BY ChunkIs
<1>4. /\ passedOn' \in Seq(WireChunks) /\ Sent("call")' = Sent("call") /\ Sent("stop")' = Sent("stop")
      /\ Len(Sent("text")') = Len(Sent("text")) + 1
  BY <1>1, <1>2, <1>3, WirePasses
<1>5. WireTypes'
  BY <1>1, <1>2, <1>4, AnswersAssumption DEF WireTypes, AnswersAssumption
<1>6. WireOrder'
  BY <1>1, <1>2, <1>4 DEF WireOrder
<1>7. WireOver'
  BY <1>1, <1>2, <1>4 DEF WireOver
<1> QED BY <1>5, <1>6, <1>7 DEF WireInv

LEMMA FinishWithTextInv == WireInv /\ FinishWithText => WireInv'
<1> SUFFICES ASSUME WireInv, FinishWithText PROVE WireInv'
  OBVIOUS
<1>1. /\ wire' = wire /\ wireCalls' = wireCalls /\ wireEnd' = "finished" /\ blocked' = blocked
      /\ wireFaults' = wireFaults \cup {"joined"} /\ wireTexts' = wireTexts + 1 /\ wireTexts < WireTexts
      /\ passedOn' = Append(passedOn, Chunk("text")) /\ wire = "openai" /\ Unfinished = {}
  BY DEF FinishWithText, PassOn
<1>2. WireTypes /\ WireOrder /\ WireOver
  BY DEF WireInv
<1>3. Chunk("text") \in WireChunks /\ Chunk("text").kind = "text"
  BY ChunkIs
<1>4. /\ passedOn' \in Seq(WireChunks) /\ Sent("call")' = Sent("call") /\ Sent("stop")' = Sent("stop")
      /\ Len(Sent("text")') = Len(Sent("text")) + 1
  BY <1>1, <1>2, <1>3, WirePasses
<1>5. WireTypes'
  BY <1>1, <1>2, <1>4, AnswersAssumption DEF WireTypes, AnswersAssumption
<1>6. WireOrder'
  BY <1>1, <1>2, <1>4 DEF WireOrder
<1>7. WireOver'
  <2>1. Unfinished' = {}
    BY <1>1, Zenon DEF Unfinished, Started
  <2>2. wireFaults' # {}
    BY <1>1
  <2> QED BY <1>1, <2>1, <2>2 DEF WireOver
<1> QED BY <1>5, <1>6, <1>7 DEF WireInv

(* What passes nothing on: the limit, the end of the bytes.                *)
LEMMA TooLongInv == WireInv /\ TooLong => WireInv'
<1> SUFFICES ASSUME WireInv, TooLong PROVE WireInv'
  OBVIOUS
<1>1. /\ wire' = wire /\ wireCalls' = wireCalls /\ wireEnd' = wireEnd /\ blocked' = blocked
      /\ wireFaults' = wireFaults \cup {"length"} /\ wireTexts' = wireTexts /\ passedOn' = passedOn
      /\ wireEnd = "open"
  BY DEF TooLong, Sends
<1>2. WireTypes /\ WireOrder /\ WireOver
  BY DEF WireInv
<1>3. \A kind : Sent(kind)' = Sent(kind)
  BY <1>1, Zenon DEF Sent
<1>5. WireTypes'
  BY <1>1, <1>2 DEF WireTypes
<1>6. WireOrder'
  BY <1>1, <1>2, <1>3 DEF WireOrder
<1>7. WireOver'
  BY <1>1, <1>2, <1>3 DEF WireOver
<1> QED BY <1>5, <1>6, <1>7 DEF WireInv

LEMMA BytesEndInv == WireInv /\ BytesEnd => WireInv'
<1> SUFFICES ASSUME WireInv, BytesEnd PROVE WireInv'
  OBVIOUS
<1>1. /\ wire' = wire /\ wireCalls' = wireCalls /\ wireEnd' = "ended" /\ blocked' = blocked
      /\ wireTexts' = wireTexts /\ passedOn' = passedOn /\ wireEnd \in {"open", "finished", "marked"}
      /\ wireFaults' = IF wireEnd = "open" THEN wireFaults \cup {"cut"} ELSE wireFaults
  BY DEF BytesEnd
<1>2. WireTypes /\ WireOrder /\ WireOver
  BY DEF WireInv
<1>3. \A kind : Sent(kind)' = Sent(kind)
  BY <1>1, Zenon DEF Sent
<1>4. Unfinished' = Unfinished /\ Started' = Started
  BY <1>1, Zenon DEF Unfinished, Started
<1>5. WireTypes'
  BY <1>1, <1>2 DEF WireTypes
<1>6. WireOrder'
  BY <1>1, <1>2, <1>3 DEF WireOrder
<1>7. Fine' => wireEnd # "open" /\ wireFaults' = wireFaults /\ Fine
  BY <1>1 DEF Fine
<1>8. WireOver'
  BY <1>1, <1>2, <1>3, <1>4, <1>7 DEF WireOver
<1> QED BY <1>5, <1>6, <1>8 DEF WireInv

LEMMA ErrorInsideInv == WireInv /\ ErrorInside => WireInv'
<1> SUFFICES ASSUME WireInv, ErrorInside PROVE WireInv'
  OBVIOUS
<1>1. /\ wire' = wire /\ wireCalls' = wireCalls /\ wireEnd' = "returned" /\ blocked' = blocked
      /\ wireFaults' = wireFaults \cup {"error"} /\ wireTexts' = wireTexts
      /\ passedOn' = Append(passedOn, Chunk("error")) /\ wireEnd = "open"
  BY DEF ErrorInside, PassOn
<1>2. WireTypes /\ WireOrder /\ WireOver
  BY DEF WireInv
<1>3. Chunk("error") \in WireChunks /\ Chunk("error").kind = "error"
  BY ChunkIs
<1>4. /\ passedOn' \in Seq(WireChunks) /\ Sent("call")' = Sent("call") /\ Sent("text")' = Sent("text")
  BY <1>1, <1>2, <1>3, WirePasses
<1>5. WireTypes'
  BY <1>1, <1>2, <1>4 DEF WireTypes
<1>6. WireOrder'
  BY <1>1, <1>2, <1>4 DEF WireOrder
<1>7. ~Fine'
  BY <1>1 DEF Fine
<1>8. WireOver'
  BY <1>1, <1>7 DEF WireOver
<1> QED BY <1>5, <1>6, <1>8 DEF WireInv

(* A reason, without a call in its place.                                  *)
LEMMA StopPassed ==
  ASSUME WireInv, wireEnd = "open", Complete, wireEnd' = "finished", passedOn' = Append(passedOn, Chunk("stop")),
         wire' = wire, wireCalls' = wireCalls, wireTexts' = wireTexts, blocked' = blocked, wireFaults' = wireFaults,
         wire = "anthropic" => blocked = <<>>
  PROVE  WireInv'
<1>2. WireTypes /\ WireOrder /\ WireOver
  BY DEF WireInv
<1>3. Chunk("stop") \in WireChunks /\ Chunk("stop").kind = "stop"
  BY ChunkIs
<1>4. /\ passedOn' \in Seq(WireChunks) /\ Sent("call")' = Sent("call") /\ Sent("text")' = Sent("text")
      /\ Len(Sent("stop")') = Len(Sent("stop")) + 1
  BY <1>2, <1>3, WirePasses
<1>5. WireTypes'
  BY <1>2, <1>4 DEF WireTypes
<1>6. WireOrder'
  BY <1>2, <1>4 DEF WireOrder
<1>7. Fine' => Unfinished' = {}
  <2>1. Unfinished' = Unfinished
    BY Zenon DEF Unfinished, Started
  <2> QED BY <2>1 DEF Fine, Complete
<1>8. Len(Sent("stop")') = 1
  <2>1. Len(Sent("stop")) = 0
    BY <1>2 DEF WireOver
  <2>2. Len(Sent("stop")') = 0 + 1
    BY <1>4, <2>1, Zenon
  <2> QED BY <2>2
<1>9. WireOver'
  BY <1>7, <1>8 DEF WireOver
<1> QED BY <1>5, <1>6, <1>9 DEF WireInv

(* The first of what was kept back.                                        *)
LEMMA Flushed ==
  ASSUME WireTypes, WireOrder, blocked # <<>>, passedOn' = Append(passedOn, ToolUse(Head(blocked))),
         blocked' = Tail(blocked), wireCalls' = wireCalls
  PROVE  /\ passedOn' \in Seq(WireChunks) /\ blocked' \in Seq(WireBlocks) /\ Len(blocked') = Len(blocked) - 1
         /\ Placed(Sent("call"), blocked, wireCalls)' /\ Len(Sent("call")') = Len(Sent("call")) + 1
         /\ Sent("text")' = Sent("text") /\ Sent("stop")' = Sent("stop")
         /\ Len(Sent("call")) + 1 \in Started
<1>1. PICK outs : outs = Sent("call")
  OBVIOUS
<1>2. PICK kept : kept = blocked
  OBVIOUS
<1>3. PICK sent : sent = wireCalls
  OBVIOUS
<1>4. outs \in Seq(WireChunks)
  BY <1>1, WireSent
<1>5. kept \in Seq(WireBlocks) /\ sent \in [WireIds -> 0 .. WireParts] /\ kept # <<>>
  BY <1>2, <1>3 DEF WireTypes
<1>6. Placed(outs, kept, sent)
  BY <1>1, <1>2, <1>3 DEF WireOrder
<1>7. PICK c : c = ToolUse(kept[1])
  OBVIOUS
<1>8. /\ c \in WireChunks /\ c.kind = "call"
      /\ Placed(Append(outs, c), Tail(kept), sent)
      /\ Tail(kept) \in Seq(WireBlocks) /\ Len(Tail(kept)) = Len(kept) - 1
      /\ Len(outs) + 1 \in WireIds /\ sent[Len(outs) + 1] > 0
  BY <1>4, <1>5, <1>6, <1>7, PlacedPass, Zenon
<1>9. passedOn' = Append(passedOn, c)
  <2>1. Head(kept) = kept[1]
    BY <1>5
  <2> QED BY <1>2, <1>7, <2>1, Zenon
<1>10. /\ passedOn' \in Seq(WireChunks) /\ Sent("text")' = Sent("text") /\ Sent("stop")' = Sent("stop")
       /\ Sent("call")' = Append(Sent("call"), c) /\ Len(Sent("call")') = Len(Sent("call")) + 1
  BY <1>8, <1>9, WirePasses
<1>11. Placed(Sent("call"), blocked, wireCalls)'
  <2>1. Sent("call")' = Append(outs, c) /\ blocked' = Tail(kept) /\ wireCalls' = sent
    BY <1>1, <1>2, <1>3, <1>10
  <2> QED BY <1>8, <2>1, Zenon
<1>12. Len(Sent("call")) + 1 \in Started
  BY <1>1, <1>3, <1>8 DEF Started
<1> QED BY <1>2, <1>8, <1>10, <1>11, <1>12

LEMMA CloseBlockInv == WireInv /\ CloseBlock => WireInv'
<1> SUFFICES ASSUME WireInv, CloseBlock PROVE WireInv'
  OBVIOUS
<1>1. /\ wire' = wire /\ wireCalls' = wireCalls /\ wireEnd' = wireEnd /\ wireFaults' = wireFaults
      /\ wireTexts' = wireTexts /\ passedOn' = Append(passedOn, ToolUse(Last(blocked)))
      /\ blocked' = Front(blocked) /\ blocked # <<>> /\ Complete /\ wire = "anthropic" /\ wireEnd = "open"
  BY DEF CloseBlock, PassOn
<1>2. WireTypes /\ WireOrder /\ WireOver
  BY DEF WireInv
<1>3. PICK kept \in Seq(WireBlocks) : kept = blocked
  BY <1>2 DEF WireTypes
<1>4. Len(kept) = 1
  <2>1. Len(kept) <= 1 /\ kept # <<>>
    BY <1>1, <1>2, <1>3 DEF WireOrder
  <2>2. Len(kept) \in Nat /\ Len(kept) # 0
    BY <2>1, EmptySeq
  <2>3. PICK n \in Nat : n = Len(kept)
    BY <2>2
  <2>4. n <= 1 /\ n # 0
    BY <2>1, <2>2, <2>3, Zenon
  <2>5. n = 1
    BY <2>4
  <2> QED BY <2>3, <2>5
<1>5. Last(kept) = Head(kept) /\ Front(kept) = Tail(kept)
  <2>1. Last(kept) = kept[1] /\ Front(kept) = SubSeq(kept, 1, 0)
    BY <1>4 DEF Last, Front
  <2>2. Len(Tail(kept)) = 0 /\ Tail(kept) \in Seq(WireBlocks)
    BY <1>4, HeadTailProperties
  <2>3. Tail(kept) = <<>> /\ SubSeq(kept, 1, 0) = <<>>
    BY <2>2, EmptySeq, PrefixFacts
  <2>4. Head(kept) = kept[1]
    BY <1>4
  <2> QED BY <2>1, <2>3, <2>4, Zenon
<1>6. passedOn' = Append(passedOn, ToolUse(Head(blocked))) /\ blocked' = Tail(blocked)
  BY <1>1, <1>3, <1>5
<1>7. /\ passedOn' \in Seq(WireChunks) /\ blocked' \in Seq(WireBlocks) /\ Len(blocked') = Len(blocked) - 1
      /\ Placed(Sent("call"), blocked, wireCalls)' /\ Len(Sent("call")') = Len(Sent("call")) + 1
      /\ Sent("text")' = Sent("text") /\ Sent("stop")' = Sent("stop")
      /\ Len(Sent("call")) + 1 \in Started
  BY <1>1, <1>2, <1>6, Flushed
<1>8. WireTypes'
  BY <1>1, <1>2, <1>7 DEF WireTypes
<1>9. WireOrder'
  <2>1. Len(blocked') <= 1
    <3>1. Len(blocked') = 1 - 1
      BY <1>3, <1>4, <1>7, Zenon
    <3> QED BY <3>1
  <2>2. ASSUME "length" \notin wireFaults, NEW j \in 1 .. Len(Sent("call")')
        PROVE  wireCalls[j] = WireParts
    <3>1. Len(Sent("call")) \in Nat
      BY <1>2, WireSent
    <3>2. j \in 1 .. Len(Sent("call")) \/ j = Len(Sent("call")) + 1
      BY <1>7, <3>1
    <3>3. CASE j \in 1 .. Len(Sent("call"))
      BY <1>1, <1>2, <2>2, <3>3 DEF WireOrder
    <3>4. CASE j = Len(Sent("call")) + 1
      <4>1. j \in Started /\ j \notin Unfinished
        BY <1>1, <1>7, <2>2, <3>4 DEF Complete
      <4>2. WireParts \in Nat
        BY AnswersAssumption DEF AnswersAssumption
      <4> QED BY <1>2, <4>1, <4>2 DEF Unfinished, Started, WireTypes
    <3> QED BY <3>2, <3>3, <3>4
  <2> QED BY <1>1, <1>2, <1>7, <2>1, <2>2 DEF WireOrder
<1>10. WireOver'
  BY <1>1, <1>2, <1>7 DEF WireOver
<1> QED BY <1>8, <1>9, <1>10 DEF WireInv

(* openai_compat.rs: the first call passes when the reason comes, and one  *)
(* with each thing that comes after it.                                    *)
LEMMA FlushFirstInv ==
  ASSUME WireInv, FlushFirst, blocked # <<>>, wire = "openai", wireEnd # "returned",
         wire' = wire, wireCalls' = wireCalls, wireTexts' = wireTexts, wireFaults' = wireFaults,
         wireEnd' \in {"finished", "marked", "ended"}, wireEnd = "open" => Complete /\ "length" \notin wireFaults
  PROVE  WireInv'
<1>1. passedOn' = Append(passedOn, ToolUse(Head(blocked))) /\ blocked' = Tail(blocked)
  BY DEF FlushFirst, PassOn
<1>2. WireTypes /\ WireOrder /\ WireOver
  BY DEF WireInv
<1>7. /\ passedOn' \in Seq(WireChunks) /\ blocked' \in Seq(WireBlocks)
      /\ Placed(Sent("call"), blocked, wireCalls)'
      /\ Sent("text")' = Sent("text") /\ Sent("stop")' = Sent("stop")
      /\ Len(Sent("call")) + 1 \in Started
  BY <1>1, <1>2, Flushed
<1>8. WireTypes'
  BY <1>2, <1>7 DEF WireTypes
<1>9. WireOrder'
  BY <1>2, <1>7 DEF WireOrder
<1>10. Unfinished' = Unfinished /\ Started' = Started /\ Started # {} /\ Fine' = Fine
  BY <1>7, Zenon DEF Unfinished, Started, Fine
<1>11. Fine => Unfinished = {}
  BY <1>2 DEF WireOver, Complete
<1>12. WireOver'
  BY <1>2, <1>7, <1>10, <1>11 DEF WireOver
<1> QED BY <1>8, <1>9, <1>12 DEF WireInv

(* The steps of SendCall: one more piece of a call, one more call that is  *)
(* kept back, and the spots of openai_compat.rs.                           *)
OneMore(sent, i) == [sent EXCEPT ![i] = @ + 1]
GrownAt(kept, m) == [kept EXCEPT ![m] = [call |-> kept[m].call, named |-> TRUE, parts |-> kept[m].parts + 1]]
OpenedFor(kept, i) == Append(kept, [call |-> i, named |-> TRUE, parts |-> 1])
SlotsFor(kept, i) == kept \o [j \in 1 .. (IF i > Len(kept) THEN i - Len(kept) ELSE 0) |->
                                [call |-> i, named |-> FALSE, parts |-> 0]]
PieceFor(spots, n, first) ==
  [spots EXCEPT ![n] = [call |-> @.call, parts |-> @.parts + 1, named |-> @.named \/ first]]

LEMMA PartsChanged ==
  ASSUME NEW c, NEW n, NEW v, NEW b, NEW k, k = [call |-> c, named |-> b, parts |-> n]
  PROVE  [k EXCEPT !.parts = v] = [call |-> c, named |-> b, parts |-> v]
<1>1. k \in [call : {c}, named : {b}, parts : {n, v}]
  OBVIOUS
<1>2. PICK r : r = [k EXCEPT !.parts = v]
  OBVIOUS
<1>3. r \in [call : {c}, named : {b}, parts : {n, v}]
  BY <1>1, <1>2
<1>4. r.call = c /\ r.named = b /\ r.parts = v
  BY <1>1, <1>2
<1>5. r = [call |-> c, named |-> b, parts |-> v]
  BY <1>3, <1>4
<1> QED BY <1>2, <1>5

LEMMA SendMore ==
  ASSUME NEW outs \in Seq(WireChunks), NEW kept \in Seq(WireBlocks), NEW sent \in [WireIds -> 0 .. WireParts],
         Placed(outs, kept, sent), NEW m \in 1 .. Len(kept), sent[Len(outs) + m] < WireParts
  PROVE  /\ GrownAt(kept, m) \in Seq(WireBlocks) /\ Len(GrownAt(kept, m)) = Len(kept)
         /\ Placed(outs, GrownAt(kept, m), OneMore(sent, Len(outs) + m))
<1>0. PICK more : more = GrownAt(kept, m)
  OBVIOUS
<1>1. PICK r : r = [call |-> kept[m].call, named |-> TRUE, parts |-> kept[m].parts + 1]
  OBVIOUS
<1>2. PICK p \in Nat : p = Len(outs)
  OBVIOUS
<1>3. p + m \in WireIds
  <2>1. p + Len(kept) <= WireCalls
    BY <1>2 DEF Placed
  <2>2. WireCalls \in Nat
    BY AnswersAssumption DEF AnswersAssumption
  <2> QED BY <2>1, <2>2 DEF WireIds
<1>4. r \in WireBlocks
  <2>1. kept[m] \in WireBlocks
    OBVIOUS
  <2>2. kept[m].parts = sent[p + m]
    <3>1. kept[m] = [call |-> p + m, named |-> TRUE, parts |-> sent[p + m]]
      BY <1>2, Zenon DEF Placed
    <3> QED BY <3>1
  <2>3. sent[p + m] \in 0 .. WireParts /\ sent[p + m] < WireParts /\ WireParts \in Nat
    BY <1>2, <1>3, AnswersAssumption DEF AnswersAssumption
  <2>4. kept[m].call \in WireIds
    BY <2>1 DEF WireBlocks
  <2>5. kept[m].parts + 1 \in 0 .. WireParts
    BY <2>2, <2>3
  <2> QED BY <1>1, <2>4, <2>5 DEF WireBlocks
<1>5. more = [kept EXCEPT ![m] = r]
  BY <1>0, <1>1, Zenon DEF GrownAt
<1>6. more \in Seq(WireBlocks) /\ Len(more) = Len(kept) /\ more[m] = r /\ \A j \in 1 .. Len(kept) : j # m => more[j] = kept[j]
  BY <1>4, <1>5, ChangedAt
<1>7. Placed(outs, more, OneMore(sent, Len(outs) + m))
  BY <1>1, <1>6, PlacedMore, Zenon DEF OneMore
<1> QED BY <1>0, <1>6, <1>7

LEMMA SendNew ==
  ASSUME NEW outs \in Seq(WireChunks), NEW kept \in Seq(WireBlocks), NEW sent \in [WireIds -> 0 .. WireParts],
         Placed(outs, kept, sent), NEW i \in WireIds, i = Len(outs) + Len(kept) + 1
  PROVE  /\ OpenedFor(kept, i) \in Seq(WireBlocks) /\ Len(OpenedFor(kept, i)) = Len(kept) + 1
         /\ Placed(outs, OpenedFor(kept, i), OneMore(sent, i))
<1>0. PICK more : more = OpenedFor(kept, i)
  OBVIOUS
<1>1. PICK r : r = [call |-> i, named |-> TRUE, parts |-> 1]
  OBVIOUS
<1>2. r \in WireBlocks
  BY <1>1, AnswersAssumption DEF WireBlocks, AnswersAssumption
<1>3. more = Append(kept, r)
  BY <1>0, <1>1, Zenon DEF OpenedFor
<1>4. /\ more \in Seq(WireBlocks) /\ Len(more) = Len(kept) + 1 /\ more[Len(kept) + 1] = r
      /\ \A j \in 1 .. Len(kept) : more[j] = kept[j]
  BY <1>2, <1>3, AppendProperties
<1>5. Placed(outs, more, OneMore(sent, i))
  <2>1. more[Len(kept) + 1] = [call |-> i, named |-> TRUE, parts |-> 1]
    BY <1>1, <1>4
  <2> QED BY <1>4, <2>1, PlacedNew, Zenon DEF OneMore
<1> QED BY <1>0, <1>4, <1>5

(* A piece for a slot that is there, or for the next one.                  *)
LEMMA SlotThere ==
  ASSUME NEW kept \in Seq(WireBlocks), NEW m \in 1 .. Len(kept), kept[m].named = TRUE, NEW first
  PROVE  PieceFor(SlotsFor(kept, m), m, first) = GrownAt(kept, m)
<1>0. PICK unset : unset = [call |-> m, named |-> FALSE, parts |-> 0]
  OBVIOUS
<1>1. (IF m > Len(kept) THEN m - Len(kept) ELSE 0) = 0
  OBVIOUS
<1>2. [j \in 1 .. 0 |-> unset] = <<>>
  OBVIOUS
<1>3. kept \o <<>> = kept
  BY ConcatEmptySeq
<1>4. SlotsFor(kept, m) = kept
  BY <1>0, <1>1, <1>2, <1>3, Zenon DEF SlotsFor
<1>5. PieceFor(kept, m, first) = [kept EXCEPT ![m] = [call |-> kept[m].call, parts |-> kept[m].parts + 1, named |-> kept[m].named \/ first]]
  BY Zenon DEF PieceFor
<1>6. (kept[m].named \/ first) = TRUE
  BY Zenon
<1>7. [call |-> kept[m].call, parts |-> kept[m].parts + 1, named |-> kept[m].named \/ first]
        = [call |-> kept[m].call, named |-> TRUE, parts |-> kept[m].parts + 1]
  BY <1>6
<1> QED BY <1>4, <1>5, <1>7, Zenon DEF GrownAt

LEMMA SlotNext ==
  ASSUME NEW kept \in Seq(WireBlocks), NEW i \in WireIds, i = Len(kept) + 1, NEW first, first = TRUE
  PROVE  PieceFor(SlotsFor(kept, i), i, first) = OpenedFor(kept, i)
<1>0. PICK unset : unset = [call |-> i, named |-> FALSE, parts |-> 0]
  OBVIOUS
<1>00. PICK spots : spots = SlotsFor(kept, i)
  OBVIOUS
<1>01. PICK more : more = PieceFor(spots, i, first)
  OBVIOUS
<1>1. (IF i > Len(kept) THEN i - Len(kept) ELSE 0) = 1
  OBVIOUS
<1>2. [j \in 1 .. 1 |-> unset] = <<unset>>
  <2>1. PICK s : s = [j \in 1 .. 1 |-> unset]
    OBVIOUS
  <2>2. s \in Seq({unset}) /\ Len(s) = 1 /\ s[1] = unset
    <3>1. s \in Seq({unset})
      BY <2>1, IsASeq
    <3> QED BY <2>1, <3>1
  <2>3. <<unset>> \in Seq({unset}) /\ Len(<<unset>>) = 1 /\ <<unset>>[1] = unset
    OBVIOUS
  <2>4. \A j \in 1 .. 1 : s[j] = <<unset>>[j]
    <3> TAKE j \in 1 .. 1
    <3>1. j = 1
      OBVIOUS
    <3> QED BY <2>2, <2>3, <3>1, Zenon
  <2>5. s = <<unset>>
    BY <2>2, <2>3, <2>4, SeqEqual
  <2> QED BY <2>1, <2>5
<1>3. unset \in WireBlocks
  BY <1>0, AnswersAssumption DEF WireBlocks, AnswersAssumption
<1>4. spots = Append(kept, unset)
  <2>1. Append(kept, unset) = kept \o <<unset>>
    BY <1>3, AppendIsConcat
  <2> QED BY <1>0, <1>00, <1>1, <1>2, <2>1, Zenon DEF SlotsFor
<1>5. PICK r : r = [call |-> i, named |-> TRUE, parts |-> 1]
  OBVIOUS
<1>6. spots[i] = unset
  BY <1>3, <1>4, AppendProperties
<1>7. unset.call = i /\ unset.parts + 1 = 1 /\ (unset.named \/ first) = TRUE
  BY <1>0
<1>8. more = [spots EXCEPT ![i] = r]
  <2>1. more = [spots EXCEPT ![i] = [call |-> spots[i].call, parts |-> spots[i].parts + 1, named |-> spots[i].named \/ first]]
    BY <1>01, Zenon DEF PieceFor
  <2>2. [call |-> spots[i].call, parts |-> spots[i].parts + 1, named |-> spots[i].named \/ first]
          = [call |-> i, parts |-> 1, named |-> TRUE]
    BY <1>6, <1>7, Zenon
  <2>3. r = [call |-> i, parts |-> 1, named |-> TRUE]
    BY <1>5
  <2> QED BY <2>1, <2>2, <2>3, Zenon
<1>9. [spots EXCEPT ![i] = r] = Append(kept, r)
  <2>1. r \in WireBlocks
    BY <1>5, AnswersAssumption DEF WireBlocks, AnswersAssumption
  <2>2. PICK t : t = Append(kept, r)
    OBVIOUS
  <2>3. t \in Seq(WireBlocks) /\ Len(t) = i /\ t[i] = r /\ \A j \in 1 .. Len(kept) : t[j] = kept[j]
    BY <2>1, <2>2, AppendProperties
  <2>4. spots \in Seq(WireBlocks) /\ Len(spots) = i /\ \A j \in 1 .. Len(kept) : spots[j] = kept[j]
    BY <1>3, <1>4, AppendProperties
  <2>5. PICK u : u = [spots EXCEPT ![i] = r]
    OBVIOUS
  <2>6. u \in Seq(WireBlocks) /\ Len(u) = i /\ u[i] = r /\ \A j \in 1 .. i : j # i => u[j] = spots[j]
    <3>1. i \in 1 .. Len(spots)
      BY <2>4
    <3>2. u \in Seq(WireBlocks) /\ Len(u) = Len(spots) /\ u[i] = r /\ \A j \in 1 .. Len(spots) : j # i => u[j] = spots[j]
      BY <2>1, <2>4, <2>5, <3>1, ChangedAt
    <3> QED BY <2>4, <3>2, Zenon
  <2>7. \A j \in 1 .. i : u[j] = t[j]
    BY <2>3, <2>4, <2>6
  <2>8. u = t
    BY <2>3, <2>6, <2>7, SeqEqual
  <2> QED BY <2>2, <2>5, <2>8
<1> QED BY <1>00, <1>01, <1>5, <1>8, <1>9, Zenon DEF OpenedFor

LEMMA SendCallPlaced ==
  ASSUME WireInv, NEW i \in WireIds, SendCall(i)
  PROVE  /\ Placed(Sent("call"), blocked', wireCalls') /\ blocked' \in Seq(WireBlocks)
         /\ wireCalls' = OneMore(wireCalls, i)
         /\ wire = "anthropic" => Len(blocked') <= 1
         /\ i > Len(Sent("call"))
<1>1. /\ wireEnd = "open" /\ "length" \notin wireFaults /\ wireCalls[i] < WireParts /\ 1 .. (i - 1) \subseteq Started
      /\ wireCalls' = OneMore(wireCalls, i)
  BY DEF SendCall, Sends, OneMore
<1>2. WireTypes /\ WireOrder
  BY DEF WireInv
<1>3. PICK outs \in Seq(WireChunks) : outs = Sent("call")
  BY <1>2, WireSent
<1>4. PICK kept \in Seq(WireBlocks) : kept = blocked
  BY <1>2 DEF WireTypes
<1>5. PICK sent \in [WireIds -> 0 .. WireParts] : sent = wireCalls
  BY <1>2 DEF WireTypes
<1>6. PICK p \in Nat : p = Len(outs)
  OBVIOUS
<1>7. PICK b \in Nat : b = Len(kept)
  OBVIOUS
<1>8. Placed(outs, kept, sent)
  BY <1>2, <1>3, <1>4, <1>5 DEF WireOrder
<1>9. \A n \in WireIds : sent[n] > 0 <=> n <= p + b
  BY <1>6, <1>7, <1>8, Zenon DEF Placed
<1>10. WireCalls \in Nat /\ WireParts \in Nat /\ i \in 1 .. WireCalls /\ sent[i] \in Nat
  BY AnswersAssumption DEF AnswersAssumption, WireIds
<1>11. i <= (p + b) + 1
  <2>1. CASE i = 1
    BY <2>1
  <2>2. CASE i # 1
    <3>1. i - 1 \in 1 .. (i - 1) /\ i - 1 \in WireIds
      BY <1>10, <2>2 DEF WireIds
    <3>2. sent[i - 1] > 0
      BY <1>1, <1>5, <3>1 DEF Started
    <3> QED BY <1>9, <1>10, <3>1, <3>2
  <2> QED BY <2>1, <2>2
<1>12. i > p
  <2>1. CASE wire = "openai"
    <3>1. Len(Sent("call")) = 0
      BY <1>1, <1>2, <2>1 DEF WireOrder
    <3> QED BY <1>3, <1>6, <1>10, <3>1
  <2>2. CASE wire = "anthropic"
    <3>1. \A j \in 1 .. p : sent[j] = WireParts
      BY <1>1, <1>2, <1>3, <1>5, <1>6, <2>2, Zenon DEF WireOrder
    <3> QED BY <1>1, <1>5, <1>10, <3>1
  <2> QED BY <1>2, <2>1, <2>2 DEF WireTypes
<1>13. PICK m \in 1 .. b + 1 : i = p + m
  <2>1. i - p \in 1 .. b + 1 /\ i = p + (i - p)
    BY <1>10, <1>11, <1>12
  <2> QED BY <2>1
<1>14. m = b + 1 <=> wireCalls[i] = 0
  BY <1>5, <1>9, <1>10, <1>13
<1>15. ASSUME m # b + 1, blocked' = GrownAt(kept, m)
       PROVE  Placed(Sent("call"), blocked', wireCalls') /\ blocked' \in Seq(WireBlocks) /\ Len(blocked') = b
  <2>1. m \in 1 .. Len(kept) /\ sent[Len(outs) + m] < WireParts
    BY <1>1, <1>5, <1>6, <1>7, <1>13, <1>15
  <2>3. /\ GrownAt(kept, m) \in Seq(WireBlocks) /\ Len(GrownAt(kept, m)) = Len(kept)
        /\ Placed(outs, GrownAt(kept, m), OneMore(sent, Len(outs) + m))
    BY <1>8, <2>1, SendMore, Zenon
  <2>4. blocked' = GrownAt(kept, m) /\ wireCalls' = OneMore(sent, Len(outs) + m)
    BY <1>1, <1>5, <1>6, <1>13, <1>15, Zenon
  <2> QED BY <1>3, <1>7, <2>3, <2>4, Zenon
<1>16. ASSUME m = b + 1, blocked' = OpenedFor(kept, i)
       PROVE  Placed(Sent("call"), blocked', wireCalls') /\ blocked' \in Seq(WireBlocks) /\ Len(blocked') = b + 1
  <2>1. i = Len(outs) + Len(kept) + 1
    BY <1>6, <1>7, <1>13, <1>16
  <2>3. /\ OpenedFor(kept, i) \in Seq(WireBlocks) /\ Len(OpenedFor(kept, i)) = Len(kept) + 1
        /\ Placed(outs, OpenedFor(kept, i), OneMore(sent, i))
    BY <1>8, <2>1, SendNew, Zenon
  <2>4. blocked' = OpenedFor(kept, i) /\ wireCalls' = OneMore(sent, i)
    BY <1>1, <1>5, <1>16, Zenon
  <2> QED BY <1>3, <1>7, <2>3, <2>4, Zenon
<1>17. m # b + 1 => kept[m] \in WireBlocks /\ kept[m].named = TRUE
  <2> SUFFICES ASSUME m # b + 1 PROVE kept[m] \in WireBlocks /\ kept[m].named = TRUE
    OBVIOUS
  <2>1. m \in 1 .. Len(kept)
    BY <1>7, <1>13
  <2>2. kept[m] = [call |-> Len(outs) + m, named |-> TRUE, parts |-> sent[Len(outs) + m]]
    BY <1>8, <2>1, Zenon DEF Placed
  <2>3. kept[m] \in WireBlocks
    BY <2>1
  <2> QED BY <2>2, <2>3
<1>18. CASE wire = "openai"
  <2>1. p = 0 /\ i = m
    <3>1. Sent("call") = <<>>
      BY <1>1, <1>2, <1>18 DEF WireOrder
    <3>2. p = 0
      BY <1>3, <1>6, <3>1
    <3> QED BY <1>13, <3>2
  <2>3. PICK first : first = (wireCalls[i] = 0)
    OBVIOUS
  <2>5. blocked' = PieceFor(SlotsFor(kept, i), i, first)
    BY <1>4, <1>18, <2>3, Zenon DEF SendCall, DeltaOf, PieceFor, SlotsFor
  <2>7. CASE m # b + 1
    <3>1. i \in 1 .. Len(kept) /\ kept[i].named = TRUE
      BY <1>7, <1>13, <1>17, <2>1, <2>7
    <3>2. PieceFor(SlotsFor(kept, i), i, first) = GrownAt(kept, i)
      BY <3>1, SlotThere, Zenon
    <3>3. "openai" # "anthropic"
      OBVIOUS
    <3> QED BY <1>1, <1>3, <1>6, <1>12, <1>15, <1>18, <2>1, <2>5, <2>7, <3>2, <3>3, Zenon
  <2>8. CASE m = b + 1
    <3>1. i = Len(kept) + 1 /\ first = TRUE
      BY <1>7, <1>14, <2>1, <2>3, <2>8
    <3>2. PieceFor(SlotsFor(kept, i), i, first) = OpenedFor(kept, i)
      BY <3>1, SlotNext, Zenon
    <3>3. "openai" # "anthropic"
      OBVIOUS
    <3> QED BY <1>1, <1>3, <1>6, <1>12, <1>16, <1>18, <2>5, <2>8, <3>2, <3>3, Zenon
  <2> QED BY <2>7, <2>8
<1>19. CASE wire = "anthropic"
  <2>1. b <= 1
    BY <1>2, <1>4, <1>7, <1>19 DEF WireOrder
  <2>2. CASE m # b + 1
    <3>1. m = b /\ b = 1 /\ Len(kept) = m
      BY <1>7, <1>13, <2>1, <2>2
    <3>2. wireCalls[i] # 0
      BY <1>14, <2>2
    <3>3. blocked' = [kept EXCEPT ![m] = [kept[m] EXCEPT !.parts = @ + 1]]
      BY <1>4, <1>19, <3>1, <3>2, Zenon DEF SendCall
    <3>4. [kept[m] EXCEPT !.parts = @ + 1] = [call |-> kept[m].call, named |-> TRUE, parts |-> kept[m].parts + 1]
      <4>1. PICK k : k = kept[m]
        OBVIOUS
      <4>2. k \in WireBlocks /\ k.named = TRUE
        BY <1>17, <2>2, <4>1
      <4>4. k = [call |-> k.call, named |-> k.named, parts |-> k.parts]
        BY <4>2 DEF WireBlocks
      <4>5. PICK c : c = k.call
        OBVIOUS
      <4>6. PICK n : n = k.parts
        OBVIOUS
      <4>7. PICK v : v = n + 1
        OBVIOUS
      <4>8. PICK w : w = k.named
        OBVIOUS
      <4>9. k = [call |-> c, named |-> w, parts |-> n]
        BY <4>4, <4>5, <4>6, <4>8, Zenon
      <4>10. [k EXCEPT !.parts = v] = [call |-> c, named |-> w, parts |-> v]
        BY <4>9, PartsChanged
      <4> QED BY <4>1, <4>2, <4>5, <4>6, <4>7, <4>8, <4>10, Zenon
    <3>5. blocked' = GrownAt(kept, m)
      BY <3>3, <3>4, Zenon DEF GrownAt
    <3> QED BY <1>1, <1>3, <1>6, <1>12, <1>15, <2>1, <2>2, <3>5, Zenon
  <2>3. CASE m = b + 1
    <3>1. wireCalls[i] = 0
      BY <1>14, <2>3
    <3>2. ~(wireCalls[i] > 0)
      BY <3>1
    <3>3. blocked = <<>>
      BY <1>19, <3>2 DEF SendCall
    <3>4. b = 0
      BY <1>4, <1>7, <3>3
    <3>5. blocked' = OpenedFor(kept, i)
      BY <1>4, <1>19, <3>1, Zenon DEF SendCall, OpenedFor
    <3>6. Placed(Sent("call"), blocked', wireCalls') /\ blocked' \in Seq(WireBlocks) /\ Len(blocked') = 1
      BY <1>16, <2>3, <3>4, <3>5
    <3>7. i > Len(Sent("call")) /\ Len(blocked') <= 1
      BY <1>3, <1>6, <1>12, <3>6
    <3> QED BY <1>1, <3>6, <3>7
  <2> QED BY <2>2, <2>3
<1> QED BY <1>2, <1>18, <1>19 DEF WireTypes

LEMMA SendCallInv == ASSUME WireInv, NEW i \in WireIds, SendCall(i) PROVE WireInv'
<1>1. /\ wire' = wire /\ wireTexts' = wireTexts /\ wireEnd' = wireEnd /\ passedOn' = passedOn
      /\ wireFaults' = wireFaults /\ wireEnd = "open" /\ wireCalls[i] < WireParts
  BY DEF SendCall, Sends
<1>2. WireTypes /\ WireOrder /\ WireOver
  BY DEF WireInv
<1>3. /\ Placed(Sent("call"), blocked', wireCalls') /\ blocked' \in Seq(WireBlocks)
      /\ wireCalls' = OneMore(wireCalls, i)
      /\ wire = "anthropic" => Len(blocked') <= 1
      /\ i > Len(Sent("call"))
  BY SendCallPlaced
<1>4. \A kind : Sent(kind)' = Sent(kind)
  BY <1>1, Zenon DEF Sent
<1>5. WireTypes'
  <2>1. wireCalls \in [WireIds -> 0 .. WireParts] /\ WireParts \in Nat
    BY <1>2, AnswersAssumption DEF WireTypes, AnswersAssumption
  <2>2. wireCalls' \in [WireIds -> 0 .. WireParts]
    BY <1>1, <1>3, <2>1 DEF OneMore
  <2> QED BY <1>1, <1>2, <1>3, <2>2 DEF WireTypes
<1>6. WireOrder'
  <2>1. PICK p \in Nat : p = Len(Sent("call"))
    BY <1>2, WireSent
  <2>2. p <= WireCalls /\ WireCalls \in Nat
    <3>1. p + Len(blocked) <= WireCalls
      BY <1>2, <2>1 DEF WireOrder, Placed
    <3>2. Len(blocked) \in Nat /\ WireCalls \in Nat
      BY <1>2, AnswersAssumption DEF WireTypes, AnswersAssumption
    <3> QED BY <3>1, <3>2
  <2>3. \A j \in 1 .. p : j \in WireIds /\ j # i
    BY <1>3, <2>1, <2>2 DEF WireIds
  <2>4. \A j \in 1 .. p : wireCalls'[j] = wireCalls[j]
    BY <1>2, <1>3, <2>3 DEF WireTypes, OneMore
  <2> QED BY <1>1, <1>2, <1>3, <1>4, <2>1, <2>4 DEF WireOrder
<1>7. WireOver'
  BY <1>1, <1>2, <1>4 DEF WireOver
<1> QED BY <1>5, <1>6, <1>7 DEF WireInv

LEMMA WireStepInv == WireInv /\ [WireNext]_wireVars => WireInv'
<1> SUFFICES ASSUME WireInv, [WireNext]_wireVars PROVE WireInv'
  OBVIOUS
<1>1. CASE UNCHANGED wireVars
  <2>1. /\ wire' = wire /\ wireCalls' = wireCalls /\ wireTexts' = wireTexts /\ wireEnd' = wireEnd
        /\ blocked' = blocked /\ passedOn' = passedOn /\ wireFaults' = wireFaults
    BY <1>1 DEF wireVars
  <2>2. \A kind : Sent(kind)' = Sent(kind)
    BY <2>1, Zenon DEF Sent
  <2>3. WireTypes'
    BY <2>1 DEF WireInv, WireTypes
  <2>4. WireOrder'
    BY <2>1, <2>2 DEF WireInv, WireOrder
  <2>5. Unfinished' = Unfinished /\ Started' = Started /\ Fine' = Fine
    BY <2>1, Zenon DEF Unfinished, Started, Fine
  <2>6. WireOver'
    BY <2>1, <2>2, <2>5 DEF WireInv, WireOver
  <2> QED BY <2>3, <2>4, <2>6 DEF WireInv
<1>2. CASE FinishReason
  <2>1. /\ wire = "openai" /\ wireEnd = "open" /\ Complete /\ wireEnd' = "finished" /\ wire' = wire
        /\ wireCalls' = wireCalls /\ wireTexts' = wireTexts /\ wireFaults' = wireFaults
    BY <1>2 DEF FinishReason
  <2>2. CASE "length" \notin wireFaults /\ blocked # <<>>
    <3>1. FlushFirst
      BY <1>2, <2>2 DEF FinishReason
    <3>2. wireEnd' \in {"finished", "marked", "ended"} /\ wireEnd # "returned"
      BY <2>1
    <3> QED BY <2>1, <2>2, <3>1, <3>2, FlushFirstInv
  <2>3. CASE ~("length" \notin wireFaults /\ blocked # <<>>)
    <3>1. passedOn' = Append(passedOn, Chunk("stop")) /\ blocked' = blocked
      BY <1>2, <2>3 DEF FinishReason, PassOn
    <3>2. wire = "anthropic" => blocked = <<>>
      BY <2>1
    <3> QED BY <2>1, <3>1, <3>2, StopPassed
  <2> QED BY <2>2, <2>3
<1>3. CASE StopReason
  <2>1. /\ wireEnd = "open" /\ Complete /\ wireEnd' = "finished" /\ wire' = wire /\ blocked = <<>>
        /\ wireCalls' = wireCalls /\ wireTexts' = wireTexts /\ wireFaults' = wireFaults
        /\ passedOn' = Append(passedOn, Chunk("stop")) /\ blocked' = blocked
    BY <1>3 DEF StopReason, PassOn
  <2> QED BY <2>1, StopPassed
<1>4. ASSUME blocked' = blocked, passedOn' = passedOn, wire' = wire, wireCalls' = wireCalls,
             wireTexts' = wireTexts, wireFaults' = wireFaults, wireEnd \in {"finished", "ended"},
             wireEnd' \in {"marked", "returned"}, wireEnd' = "returned" => wire = "anthropic" \/ blocked = <<>>
      PROVE  WireInv'
  <2>2. \A kind : Sent(kind)' = Sent(kind)
    BY <1>4, Zenon DEF Sent
  <2>3. WireTypes'
    BY <1>4 DEF WireInv, WireTypes
  <2>4. WireOrder'
    BY <1>4, <2>2 DEF WireInv, WireOrder
  <2>5. Unfinished' = Unfinished /\ Started' = Started /\ Fine' = Fine
    BY <1>4, Zenon DEF Unfinished, Started, Fine
  <2>6. WireOver'
    BY <1>4, <2>2, <2>5 DEF WireInv, WireOver
  <2> QED BY <2>3, <2>4, <2>6 DEF WireInv
<1>5. CASE Done
  <2>1. /\ wireEnd = "finished" /\ wireEnd' = "marked" /\ wire' = wire
        /\ wireCalls' = wireCalls /\ wireTexts' = wireTexts /\ wireFaults' = wireFaults
    BY <1>5 DEF Done
  <2>2. CASE wire = "openai" /\ blocked # <<>>
    <3>1. FlushFirst
      BY <1>5, <2>2 DEF Done
    <3>2. wireEnd' \in {"finished", "marked", "ended"} /\ wireEnd # "returned" /\ wireEnd # "open"
      BY <2>1
    <3> QED BY <2>1, <2>2, <3>1, <3>2, FlushFirstInv
  <2>3. CASE ~(wire = "openai" /\ blocked # <<>>)
    BY <1>4, <1>5, <2>1, <2>3 DEF Done
  <2> QED BY <2>2, <2>3
<1>6. CASE AfterEnd
  <2>1. /\ wireEnd = "ended" /\ wire' = wire
        /\ wireCalls' = wireCalls /\ wireTexts' = wireTexts /\ wireFaults' = wireFaults
    BY <1>6 DEF AfterEnd
  <2>2. CASE wire = "openai" /\ blocked # <<>>
    <3>1. FlushFirst /\ wireEnd' = wireEnd
      BY <1>6, <2>2 DEF AfterEnd, FlushRest
    <3>2. wireEnd' \in {"finished", "marked", "ended"} /\ wireEnd # "returned" /\ wireEnd # "open"
      BY <2>1, <3>1
    <3> QED BY <2>1, <2>2, <3>1, <3>2, FlushFirstInv
  <2>3. CASE ~(wire = "openai" /\ blocked # <<>>)
    <3>1. wireEnd' = "returned" /\ blocked' = blocked /\ passedOn' = passedOn
      BY <1>6, <2>3 DEF AfterEnd, FlushRest
    <3>2. wire = "anthropic" \/ blocked = <<>>
      BY <2>3 DEF WireInv, WireTypes
    <3> QED BY <1>4, <2>1, <3>1, <3>2
  <2> QED BY <2>2, <2>3
<1> QED BY <1>1, <1>2, <1>3, <1>5, <1>6, SendTextInv, TooLongInv, SendCallInv, CloseBlockInv, FinishWithTextInv,
           ErrorInsideInv, BytesEndInv DEF WireNext

LEMMA WireInvSound == WireInv => WireSound
<1> SUFFICES ASSUME WireInv PROVE WireSound
  OBVIOUS
<1>1. WireTypes /\ WireOrder /\ WireOver
  BY DEF WireInv
<1>2. \A kind : Passed(kind) = Sent(kind)
  BY <1>1, PassedIs, Zenon DEF Sent, WireTypes
<1>3. PICK outs \in Seq(WireChunks) : outs = Sent("call")
  BY <1>1, WireSent
<1>4. PICK sent \in [WireIds -> 0 .. WireParts] : sent = wireCalls
  BY <1>1 DEF WireTypes
<1>5. Placed(outs, blocked, sent)
  BY <1>1, <1>3, <1>4 DEF WireOrder
<1>6. PICK p \in Nat : p = Len(outs)
  OBVIOUS
<1>7. \A j \in 1 .. p : outs[j] = [kind |-> "call", call |-> j, whole |-> sent[j] = WireParts]
  BY <1>5, <1>6, Zenon DEF Placed
<1>8. ASSUME wireEnd = "returned", Fine
      PROVE  /\ Passed("call") = [i \in 1 .. Cardinality(Started) |-> [kind |-> "call", call |-> i, whole |-> TRUE]]
             /\ wire = "anthropic" \/ (Started = {} /\ wireFaults = {}) => Len(Passed("stop")) = 1
  <2>1. blocked = <<>> /\ Unfinished = {}
    BY <1>1, <1>8 DEF WireOver
  <2>2. \A i \in WireIds : sent[i] > 0 <=> i <= p
    <3>1. \A i \in WireIds : sent[i] > 0 <=> i <= p + Len(blocked)
      BY <1>5, <1>6, Zenon DEF Placed
    <3>2. p + Len(blocked) = p
      BY <2>1
    <3> QED BY <3>1, <3>2
  <2>3. p <= WireCalls /\ WireCalls \in Nat /\ WireParts \in Nat
    <3>1. p + Len(blocked) <= WireCalls
      BY <1>5, <1>6, Zenon DEF Placed
    <3> QED BY <2>1, <3>1, AnswersAssumption DEF AnswersAssumption
  <2>4. Started = 1 .. p
    BY <1>4, <2>2, <2>3 DEF Started, WireIds
  <2>5. Cardinality(Started) = p
    <3>1. Cardinality(1 .. p) = IF 1 > p THEN 0 ELSE p - 1 + 1
      BY FS_Interval
    <3> QED BY <2>4, <3>1
  <2>6. \A j \in 1 .. p : sent[j] = WireParts
    <3> TAKE j \in 1 .. p
    <3>1. j \in WireIds
      BY <2>3 DEF WireIds
    <3>2. j \in Started /\ j \notin Unfinished
      BY <2>1, <2>4
    <3>3. ~(sent[j] < WireParts)
      BY <1>4, <3>2 DEF Unfinished
    <3>4. sent[j] \in 0 .. WireParts
      BY <3>1
    <3> QED BY <2>3, <3>3, <3>4
  <2>7. outs = [i \in 1 .. p |-> [kind |-> "call", call |-> i, whole |-> TRUE]]
    <3>1. \A j \in 1 .. p : outs[j] = [kind |-> "call", call |-> j, whole |-> TRUE]
      <4> TAKE j \in 1 .. p
      <4>1. outs[j] = [kind |-> "call", call |-> j, whole |-> sent[j] = WireParts]
        BY <1>7
      <4>2. (sent[j] = WireParts) = TRUE
        BY <2>6
      <4> QED BY <4>1, <4>2, Zenon
    <3>2. outs = [i \in 1 .. p |-> outs[i]]
      BY <1>6
    <3>3. [i \in 1 .. p |-> outs[i]] = [i \in 1 .. p |-> [kind |-> "call", call |-> i, whole |-> TRUE]]
      BY <3>1, Zenon
    <3> QED BY <3>2, <3>3, Zenon
  <2>8. Passed("call") = [i \in 1 .. Cardinality(Started) |-> [kind |-> "call", call |-> i, whole |-> TRUE]]
    BY <1>2, <1>3, <2>5, <2>7, Zenon
  <2>9. wire = "anthropic" \/ (Started = {} /\ wireFaults = {}) => Len(Passed("stop")) = 1
    BY <1>1, <1>2, <1>8 DEF WireOver
  <2> QED BY <2>8, <2>9
<1>9. ASSUME wire = "anthropic", "length" \notin wireFaults, NEW i \in DOMAIN Passed("call")
      PROVE  Passed("call")[i].whole
  <2>1. Passed("call") = outs
    BY <1>2, <1>3
  <2>2. i \in 1 .. p
    BY <1>6, <1>9, <2>1
  <2>3. sent[i] = WireParts
    BY <1>1, <1>3, <1>4, <1>6, <1>9, <2>2, Zenon DEF WireOrder
  <2>4. outs[i].whole = (sent[i] = WireParts)
    <3>1. outs[i] = [kind |-> "call", call |-> i, whole |-> sent[i] = WireParts]
      BY <1>7, <2>2
    <3>2. PICK w : w = (sent[i] = WireParts)
      OBVIOUS
    <3>3. outs[i] = [kind |-> "call", call |-> i, whole |-> w]
      BY <3>1, <3>2, Zenon
    <3>4. outs[i].whole = w
      BY <3>3
    <3> QED BY <3>2, <3>4, Zenon
  <2> QED BY <2>1, <2>3, <2>4, Zenon
<1>10. Len(Passed("text")) = wireTexts
  BY <1>1, <1>2 DEF WireOrder
<1> QED BY <1>8, <1>9, <1>10 DEF WireSound, Fine

(* A stream that comes to its end has passed on every text and every call, *)
(* once, in order and whole, and what openai_compat.rs and anthropic.rs    *)
(* promise of the reason, however the events follow each other.            *)
THEOREM WireSoundHolds == WireInit /\ [][WireNext]_wireVars => []WireSound
<1>1. WireInit => WireInv
  BY WireInitInv
<1>2. WireInv /\ [WireNext]_wireVars => WireInv'
  BY WireStepInv
<1>3. WireInv => WireSound
  BY WireInvSound
<1> QED BY <1>1, <1>2, <1>3, PTL

-----------------------------------------------------------------------------
(* The calls of a Codex answer, for any number of them and of pieces.      *)

CodexCalls == [item : FunctionCalls, named : BOOLEAN, args : 0 .. ArgParts]
CodexUses == [item : FunctionCalls, whole : BOOLEAN]
WholeUse(c) == [item |-> c, whole |-> TRUE]
Took(c) == Picked(toolUses, UseOf(c))
CodexTypes ==
  /\ item \in [FunctionCalls -> {"none", "added", "done"}] /\ sentArgs \in [FunctionCalls -> 0 .. ArgParts]
  /\ toolCalls \in Seq(CodexCalls) /\ toolUses \in Seq(CodexUses)
  /\ answerEnd \in {"open", "completed", "ended", "returned"} /\ stopReason \in BOOLEAN
CodexEntries ==
  /\ \A i, j \in 1 .. Len(toolCalls) : toolCalls[i].item = toolCalls[j].item => i = j
  /\ \A i \in 1 .. Len(toolCalls) : /\ item[toolCalls[i].item] = "added"
                                    /\ toolCalls[i].args <= sentArgs[toolCalls[i].item]
  /\ \A i \in 1 .. Len(toolCalls), c \in FunctionCalls :
       toolCalls[i].named /\ toolCalls[i].item = c => Took(c) = <<>>
Delivered(c) == \E i \in 1 .. Len(Took(c)) : Took(c)[i].whole
CodexTaken == \A c \in FunctionCalls :
  /\ item[c] = "none" => Took(c) = <<>> /\ sentArgs[c] = 0
  /\ item[c] = "added" => Len(Took(c)) <= 1
  /\ item[c] = "done" => Len(Took(c)) <= 2 /\ Delivered(c)
CodexUncut == faulty \subseteq {"silent"} =>
  /\ \A i \in 1 .. Len(toolCalls) : toolCalls[i].named /\ toolCalls[i].args = sentArgs[toolCalls[i].item]
  /\ \A c \in FunctionCalls : item[c] = "added" =>
       \/ \E i \in 1 .. Len(toolCalls) : toolCalls[i].item = c
       \/ answerEnd # "open" /\ Took(c) = <<WholeUse(c)>>
  /\ \A c \in FunctionCalls : item[c] = "done" => Took(c) = <<WholeUse(c)>>
  /\ answerEnd # "open" => \A c \in FunctionCalls : item[c] = "added" => sentArgs[c] = ArgParts
CodexStopped ==
  /\ answerEnd = "returned" => toolCalls = <<>>
  /\ answerEnd # "open" /\ faulty = {} => stopReason
CodexInv == CodexTypes /\ CodexEntries /\ CodexTaken /\ CodexUncut /\ CodexStopped

LEMMA UsesAre == toolUses \in Seq(CodexUses) => \A c : Uses(c) = Took(c)
<1> SUFFICES ASSUME toolUses \in Seq(CodexUses), NEW c
             PROVE  Uses(c) = Took(c)
  OBVIOUS
<1>1. Uses(c) = (CHOOSE f : FiltersTo(f, toolUses, UseOf(c), Len(toolUses)))[Len(toolUses)]
  BY Zenon DEF Uses, FiltersTo
<1> QED BY <1>1, Zenon DEF Picked, Took

LEMMA EmitTakes ==
  ASSUME CodexTypes, NEW c \in FunctionCalls, NEW args \in 0 .. ArgParts, Emit(c, args)
  PROVE  /\ toolUses' \in Seq(CodexUses) /\ Took(c) \in Seq(CodexUses)
         /\ Took(c)' = Append(Took(c), [item |-> c, whole |-> args = ArgParts])
         /\ [item |-> c, whole |-> args = ArgParts] \in CodexUses
         /\ \A d \in FunctionCalls : d # c => Took(d)' = Took(d)
<1>1. PICK u : u = [item |-> c, whole |-> args = ArgParts]
  OBVIOUS
<1>2. u \in CodexUses /\ u \in UseOf(c) /\ \A d : d # c => u \notin UseOf(d)
  BY <1>1 DEF CodexUses, UseOf
<1>3. toolUses \in Seq(CodexUses) /\ toolUses' = Append(toolUses, u)
  BY <1>1 DEF CodexTypes, Emit
<1>4. PICK s \in Seq(CodexUses) : s = toolUses
  BY <1>3
<1>5. PICK t : t = Append(s, u)
  OBVIOUS
<1>6. t \in Seq(CodexUses) /\ toolUses' = t
  BY <1>2, <1>3, <1>4, <1>5, AppendProperties
<1>7. \A S : Picked(t, S) = IF u \in S THEN Append(Picked(s, S), u) ELSE Picked(s, S)
  BY <1>2, <1>5, KeptAppend
<1>8. Picked(s, UseOf(c)) \in Seq(CodexUses)
  BY KeptSeq
<1>9. Took(c)' = Append(Took(c), u)
  <2>1. Picked(t, UseOf(c)) = Append(Picked(s, UseOf(c)), u)
    BY <1>2, <1>7, Zenon
  <2> QED BY <1>4, <1>6, <2>1, Zenon DEF Took
<1>10. ASSUME NEW d \in FunctionCalls, d # c PROVE Took(d)' = Took(d)
  <2>1. Picked(t, UseOf(d)) = Picked(s, UseOf(d))
    BY <1>2, <1>7, <1>10, Zenon
  <2> QED BY <1>4, <1>6, <2>1, Zenon DEF Took
<1> QED BY <1>1, <1>2, <1>4, <1>6, <1>8, <1>9, <1>10, Zenon DEF Took

LEMMA TookIs == CodexTypes => \A c : Took(c) \in Seq(CodexUses) /\ Len(Took(c)) \in Nat
<1> SUFFICES ASSUME CodexTypes, NEW c PROVE Took(c) \in Seq(CodexUses) /\ Len(Took(c)) \in Nat
  OBVIOUS
<1>1. toolUses \in Seq(CodexUses)
  BY DEF CodexTypes
<1>2. Took(c) \in Seq(CodexUses)
  BY <1>1, KeptSeq DEF Took
<1> QED BY <1>2

LEMMA LastNamedIs ==
  ASSUME CodexTypes
  PROVE  /\ LastNamed \in 0 .. Len(toolCalls)
         /\ LastNamed # 0 => toolCalls[LastNamed].named
         /\ \A i \in 1 .. Len(toolCalls) : toolCalls[i].named => i <= LastNamed
<1>1. toolCalls \in Seq(CodexCalls)
  BY DEF CodexTypes
<1>2. PICK n \in Nat : n = Len(toolCalls)
  BY <1>1
<1>3. PICK T : T = {i \in 1 .. n : toolCalls[i].named}
  OBVIOUS
<1>4. T \in SUBSET (1 .. n)
  BY <1>3
<1>5. LastNamed = IF T # {} THEN Max(T) ELSE 0
  BY <1>2, <1>3, Zenon DEF LastNamed, SelectLastInSeq
<1>6. CASE T = {}
  <2>1. LastNamed = 0
    BY <1>5, <1>6
  <2>2. \A i \in 1 .. n : ~toolCalls[i].named
    BY <1>3, <1>6
  <2> QED BY <1>2, <2>1, <2>2
<1>7. CASE T # {}
  <2>1. Max(T) \in T /\ \A k \in T : k <= Max(T)
    BY <1>4, <1>7, LargestIs
  <2>2. LastNamed \in T /\ \A k \in T : k <= LastNamed
    BY <1>5, <1>7, <2>1, Zenon
  <2>3. LastNamed \in 0 .. n
    BY <1>4, <2>2
  <2>4. toolCalls[LastNamed].named
    BY <1>3, <2>2, Zenon
  <2>5. \A i \in 1 .. n : toolCalls[i].named => i \in T
    BY <1>3
  <2> QED BY <1>2, <2>2, <2>3, <2>4, <2>5
<1> QED BY <1>6, <1>7

LEMMA CodexInitInv == CodexInit => CodexInv
<1> SUFFICES ASSUME CodexInit PROVE CodexInv
  OBVIOUS
<1>1. /\ toolCalls = <<>> /\ toolUses = <<>> /\ answerEnd = "open" /\ stopReason = FALSE /\ faulty = {}
      /\ item = [c \in FunctionCalls |-> "none"] /\ sentArgs = [c \in FunctionCalls |-> 0]
  BY DEF CodexInit
<1>2. <<>> \in Seq(CodexCalls) /\ <<>> \in Seq(CodexUses) /\ Len(<<>>) = 0
  OBVIOUS
<1>3. \A c : Took(c) = <<>>
  BY <1>1, KeptOfNone, Zenon DEF Took
<1>4. \A c \in FunctionCalls : item[c] = "none" /\ sentArgs[c] = 0
  BY <1>1
<1>5. CodexTypes
  <2>1. item \in [FunctionCalls -> {"none", "added", "done"}]
    BY <1>1
  <2>2. 0 \in 0 .. ArgParts
    BY CodexAssumption DEF CodexAssumption
  <2>3. sentArgs \in [FunctionCalls -> 0 .. ArgParts]
    BY <1>1, <2>2
  <2> QED BY <1>1, <1>2, <2>1, <2>3 DEF CodexTypes
<1>6. CodexEntries
  BY <1>1, <1>2 DEF CodexEntries
<1>7. CodexTaken
  BY <1>3, <1>4 DEF CodexTaken
<1>8. CodexUncut
  BY <1>1, <1>2, <1>4 DEF CodexUncut
<1>9. CodexStopped
  BY <1>1 DEF CodexStopped
<1> QED BY <1>5, <1>6, <1>7, <1>8, <1>9 DEF CodexInv

LEMMA ItemAddedInv == ASSUME CodexInv, NEW c \in FunctionCalls, ItemAdded(c) PROVE CodexInv'
<1>1. /\ answerEnd = "open" /\ item[c] = "none" /\ item' = [item EXCEPT ![c] = "added"]
      /\ sentArgs' = sentArgs /\ toolUses' = toolUses /\ answerEnd' = answerEnd /\ stopReason' = stopReason
      /\ faulty' = faulty /\ toolCalls' = Append(toolCalls, Acc(c, TRUE, 0))
  BY DEF ItemAdded
<1>2. CodexTypes /\ CodexEntries /\ CodexTaken /\ CodexUncut /\ CodexStopped
  BY DEF CodexInv
<1>3. \A d : Took(d)' = Took(d)
  BY <1>1, Zenon DEF Took
<1>4. PICK a : a = Acc(c, TRUE, 0)
  OBVIOUS
<1>5. a \in CodexCalls /\ a.item = c /\ a.named = TRUE /\ a.args = 0
  BY <1>4, CodexAssumption DEF Acc, CodexCalls, CodexAssumption
<1>6. PICK s \in Seq(CodexCalls) : s = toolCalls
  BY <1>2 DEF CodexTypes
<1>7. PICK t : t = Append(s, a)
  OBVIOUS
<1>8. PICK n \in Nat : n = Len(s)
  OBVIOUS
<1>9. t \in Seq(CodexCalls) /\ Len(t) = n + 1 /\ t[n + 1] = a /\ \A i \in 1 .. n : t[i] = s[i]
  BY <1>5, <1>7, <1>8, AppendProperties
<1>10. toolCalls' = t
  BY <1>1, <1>4, <1>6, <1>7
<1>11. \A d \in FunctionCalls : item'[d] = IF d = c THEN "added" ELSE item[d]
  BY <1>1, <1>2 DEF CodexTypes
<1>12. CodexTypes'
  BY <1>1, <1>2, <1>9, <1>10 DEF CodexTypes
<1>13. \A i \in 1 .. n : s[i] \in CodexCalls /\ s[i].item \in FunctionCalls /\ s[i].item # c
  <2> TAKE i \in 1 .. n
  <2>1. s[i] \in CodexCalls
    BY <1>8
  <2>2. item[s[i].item] = "added"
    BY <1>2, <1>6, <1>8 DEF CodexEntries
  <2> QED BY <1>1, <2>1, <2>2 DEF CodexCalls
<1>14. CodexEntries'
  <2>1. ASSUME NEW i \in 1 .. n + 1, NEW j \in 1 .. n + 1, t[i].item = t[j].item
        PROVE  i = j
    <3>1. \A k \in 1 .. n : t[k].item # c
      BY <1>9, <1>13
    <3>2. CASE i \in 1 .. n /\ j \in 1 .. n
      BY <1>2, <1>6, <1>8, <1>9, <2>1, <3>2 DEF CodexEntries
    <3>3. t[n + 1].item = c
      BY <1>5, <1>9
    <3> QED BY <2>1, <3>1, <3>2, <3>3
  <2>2. ASSUME NEW i \in 1 .. n + 1
        PROVE  item'[t[i].item] = "added" /\ t[i].args <= sentArgs[t[i].item]
    <3>1. CASE i \in 1 .. n
      <4>1. item[s[i].item] = "added" /\ s[i].args <= sentArgs[s[i].item]
        BY <1>2, <1>6, <1>8, <3>1 DEF CodexEntries
      <4>2. t[i] = s[i] /\ s[i].item \in FunctionCalls /\ s[i].item # c
        BY <1>9, <1>13, <3>1
      <4> QED BY <1>11, <4>1, <4>2
    <3>2. CASE i = n + 1
      <4>2. 0 <= sentArgs[c]
        BY <1>2, CodexAssumption DEF CodexTypes, CodexAssumption
      <4> QED BY <1>5, <1>9, <1>11, <3>2, <4>2
    <3> QED BY <3>1, <3>2
  <2>3. ASSUME NEW i \in 1 .. n + 1, NEW d \in FunctionCalls, t[i].named, t[i].item = d
        PROVE  Took(d) = <<>>
    <3>1. CASE i \in 1 .. n
      <4>1. s[i].named /\ s[i].item = d
        BY <1>9, <2>3, <3>1, Zenon
      <4> QED BY <1>2, <1>6, <1>8, <3>1, <4>1, Zenon DEF CodexEntries
    <3>2. CASE i = n + 1
      <4>1. d = c
        BY <1>5, <1>9, <2>3, <3>2
      <4> QED BY <1>1, <1>2, <4>1 DEF CodexTaken
    <3> QED BY <3>1, <3>2
  <2>4. \A i, j \in 1 .. Len(toolCalls') : toolCalls'[i].item = toolCalls'[j].item => i = j
    BY <1>9, <1>10, <2>1, Zenon
  <2>5. \A i \in 1 .. Len(toolCalls') : item'[toolCalls'[i].item] = "added" /\ toolCalls'[i].args <= sentArgs'[toolCalls'[i].item]
    BY <1>1, <1>9, <1>10, <2>2, Zenon
  <2>6. \A i \in 1 .. Len(toolCalls'), d \in FunctionCalls : toolCalls'[i].named /\ toolCalls'[i].item = d => Took(d)' = <<>>
    BY <1>3, <1>9, <1>10, <2>3, Zenon
  <2> QED BY <2>4, <2>5, <2>6 DEF CodexEntries
<1>15. CodexTaken'
  <2>1. Took(c) = <<>> /\ Len(<<>>) <= 1
    BY <1>1, <1>2 DEF CodexTaken
  <2>2. \A d \in FunctionCalls : Delivered(d)' = Delivered(d)
    BY <1>3, Zenon DEF Delivered
  <2>3. \A d \in FunctionCalls :
          /\ item[d] = "none" => Took(d) = <<>> /\ sentArgs[d] = 0
          /\ item[d] = "added" => Len(Took(d)) <= 1
          /\ item[d] = "done" => Len(Took(d)) <= 2 /\ Delivered(d)
    BY <1>2, Zenon DEF CodexTaken
  <2>4. \A d \in FunctionCalls :
          /\ item'[d] = "none" => Took(d) = <<>> /\ sentArgs[d] = 0
          /\ item'[d] = "added" => Len(Took(d)) <= 1
          /\ item'[d] = "done" => Len(Took(d)) <= 2 /\ Delivered(d)
    BY <1>11, <2>1, <2>3
  <2> QED BY <1>1, <1>3, <2>2, <2>4, Zenon DEF CodexTaken
<1>16. CodexUncut'
  <2> SUFFICES ASSUME faulty \subseteq {"silent"} PROVE CodexUncut'
    BY <1>1 DEF CodexUncut
  <2>0. sentArgs[c] = 0
    BY <1>1, <1>2 DEF CodexTaken
  <2>1. \A i \in 1 .. n + 1 : t[i].named /\ t[i].args = sentArgs[t[i].item]
    BY <1>2, <1>5, <1>6, <1>8, <1>9, <2>0 DEF CodexUncut
  <2>2. \A d \in FunctionCalls : item'[d] = "added" => \E i \in 1 .. n + 1 : t[i].item = d
    <3> SUFFICES ASSUME NEW d \in FunctionCalls, item'[d] = "added" PROVE \E i \in 1 .. n + 1 : t[i].item = d
      OBVIOUS
    <3>1. CASE d = c
      BY <1>5, <1>9, <3>1
    <3>2. CASE d # c
      <4>1. PICK i \in 1 .. n : s[i].item = d
        BY <1>1, <1>2, <1>6, <1>8, <1>11, <3>2 DEF CodexUncut
      <4> QED BY <1>9, <4>1
    <3> QED BY <3>1, <3>2
  <2>3. \A d \in FunctionCalls : item'[d] = "done" => Took(d) = <<WholeUse(d)>>
    BY <1>2, <1>11 DEF CodexUncut
  <2>4. \A i \in 1 .. Len(toolCalls') : toolCalls'[i].named /\ toolCalls'[i].args = sentArgs'[toolCalls'[i].item]
    BY <1>1, <1>9, <1>10, <2>1
  <2>5. \A d \in FunctionCalls : item'[d] = "added" => \E i \in 1 .. Len(toolCalls') : toolCalls'[i].item = d
    BY <1>9, <1>10, <2>2
  <2>6. \A d \in FunctionCalls : item'[d] = "done" => Took(d)' = <<WholeUse(d)>>
    BY <1>3, <2>3
  <2>7. answerEnd' = "open"
    BY <1>1
  <2> QED BY <2>4, <2>5, <2>6, <2>7 DEF CodexUncut, WholeUse
<1>17. CodexStopped'
  BY <1>1 DEF CodexStopped
<1> QED BY <1>12, <1>14, <1>15, <1>16, <1>17 DEF CodexInv

(* A piece of the arguments: to the first entry of its item, or a new one. *)
LEMMA FirstOfItem ==
  ASSUME CodexTypes, NEW c \in FunctionCalls, NEW i, i = SelectInSeq(toolCalls, LAMBDA a : a.item = c)
  PROVE  \/ i = 0 /\ \A j \in 1 .. Len(toolCalls) : toolCalls[j].item # c
         \/ i \in 1 .. Len(toolCalls) /\ toolCalls[i].item = c
<1>1. toolCalls \in Seq(CodexCalls)
  BY DEF CodexTypes
<1>2. PICK n \in Nat : n = Len(toolCalls)
  BY <1>1
<1>3. PICK T : T = {j \in 1 .. n : toolCalls[j].item = c}
  OBVIOUS
<1>4. T \in SUBSET Nat
  BY <1>3
<1>5. i = IF T # {} THEN Min(T) ELSE 0
  BY <1>2, <1>3, Zenon DEF SelectInSeq
<1>6. CASE T = {}
  BY <1>2, <1>3, <1>5, <1>6
<1>7. CASE T # {}
  <2>1. Min(T) \in T
    BY <1>4, <1>7, SmallestIs
  <2>2. i \in T
    BY <1>5, <1>7, <2>1
  <2> QED BY <1>2, <1>3, <2>2
<1> QED BY <1>6, <1>7

LEMMA DeltaGrows ==
  ASSUME CodexInv, NEW c \in FunctionCalls, Delta(c), NEW i \in 1 .. Len(toolCalls), toolCalls[i].item = c,
         toolCalls' = [toolCalls EXCEPT ![i].args = @ + 1]
  PROVE  /\ toolCalls' \in Seq(CodexCalls) /\ Len(toolCalls') = Len(toolCalls)
         /\ \A j \in 1 .. Len(toolCalls) : j # i => toolCalls'[j] = toolCalls[j] /\ toolCalls[j].item # c
         /\ toolCalls'[i].item = c /\ toolCalls'[i].named = toolCalls[i].named
         /\ toolCalls'[i].args = toolCalls[i].args + 1
<1>1. CodexTypes /\ CodexEntries
  BY DEF CodexInv
<1>2. sentArgs[c] < ArgParts /\ sentArgs[c] \in Nat /\ ArgParts \in Nat
  BY <1>1, CodexAssumption DEF Delta, CodexTypes, CodexAssumption
<1>3. PICK s \in Seq(CodexCalls) : s = toolCalls
  BY <1>1 DEF CodexTypes
<1>4. s[i] \in CodexCalls
  BY <1>3
<1>5. s[i].args \in Nat /\ s[i].args <= sentArgs[c] /\ s[i].item = c /\ s[i].named \in BOOLEAN
  BY <1>1, <1>2, <1>3, <1>4 DEF CodexEntries, CodexCalls
<1>6. PICK r : r = [s[i] EXCEPT !.args = @ + 1]
  OBVIOUS
<1>7. s[i].args + 1 \in 0 .. ArgParts
  BY <1>2, <1>5
<1>8. r \in CodexCalls /\ r.item = c /\ r.named = s[i].named /\ r.args = s[i].args + 1
  BY <1>4, <1>5, <1>6, <1>7 DEF CodexCalls
<1>9. PICK t : t = [s EXCEPT ![i] = r]
  OBVIOUS
<1>10. /\ t \in Seq(CodexCalls) /\ Len(t) = Len(s) /\ t[i] = r
       /\ \A j \in 1 .. Len(s) : j # i => t[j] = s[j]
  BY <1>3, <1>8, <1>9, ChangedAt
<1>11. toolCalls' = t
  BY <1>3, <1>6, <1>9, Zenon
<1>12. \A j \in 1 .. Len(s) : j # i => s[j].item # c
  BY <1>1, <1>3, <1>5 DEF CodexEntries
<1> QED BY <1>3, <1>8, <1>10, <1>11, <1>12

LEMMA DeltaInv == ASSUME CodexInv, NEW c \in FunctionCalls, Delta(c) PROVE CodexInv'
<1>1. /\ answerEnd = "open" /\ item[c] = "added" /\ item' = item /\ sentArgs[c] < ArgParts
      /\ sentArgs' = [sentArgs EXCEPT ![c] = @ + 1] /\ toolUses' = toolUses /\ answerEnd' = answerEnd
      /\ stopReason' = stopReason /\ faulty' = faulty
  BY DEF Delta
<1>2. CodexTypes /\ CodexEntries /\ CodexTaken /\ CodexUncut /\ CodexStopped
  BY DEF CodexInv
<1>3. \A d : Took(d)' = Took(d)
  BY <1>1, Zenon DEF Took
<1>4. ArgParts \in Nat \ {0} /\ sentArgs[c] \in Nat
  BY <1>2, CodexAssumption DEF CodexTypes, CodexAssumption
<1>5. /\ sentArgs' \in [FunctionCalls -> 0 .. ArgParts] /\ sentArgs'[c] = sentArgs[c] + 1
      /\ \A d \in FunctionCalls : d # c => sentArgs'[d] = sentArgs[d]
  BY <1>1, <1>2, <1>4 DEF CodexTypes
<1>6. PICK i : i = SelectInSeq(toolCalls, LAMBDA a : a.item = c)
  OBVIOUS
<1>7. toolCalls' = IF i = 0 THEN Append(toolCalls, Acc(c, FALSE, 1)) ELSE [toolCalls EXCEPT ![i].args = @ + 1]
  BY <1>6, Zenon DEF Delta
<1>8. \/ i = 0 /\ \A j \in 1 .. Len(toolCalls) : toolCalls[j].item # c
      \/ i \in 1 .. Len(toolCalls) /\ toolCalls[i].item = c
  BY <1>2, <1>6, FirstOfItem, Zenon
<1>9. PICK n \in Nat : n = Len(toolCalls)
  BY <1>2 DEF CodexTypes
<1>10. \A j \in 1 .. n : toolCalls[j] \in CodexCalls /\ toolCalls[j].item \in FunctionCalls
  <2> TAKE j \in 1 .. n
  <2>1. toolCalls[j] \in CodexCalls
    BY <1>2, <1>9 DEF CodexTypes
  <2> QED BY <2>1 DEF CodexCalls
<1>11. CodexTaken'
  <2>2. \A d \in FunctionCalls : Delivered(d)' = Delivered(d)
    BY <1>3, Zenon DEF Delivered
  <2>3. \A d \in FunctionCalls : item[d] = "none" => sentArgs'[d] = sentArgs[d]
    BY <1>1, <1>5
  <2> QED BY <1>1, <1>2, <1>3, <2>2, <2>3, Zenon DEF CodexTaken
<1>12. CodexStopped'
  BY <1>1 DEF CodexStopped
<1>13. CASE i # 0
  <2>1. i \in 1 .. n /\ toolCalls[i].item = c /\ toolCalls' = [toolCalls EXCEPT ![i].args = @ + 1]
    BY <1>7, <1>8, <1>9, <1>13
  <2>2. /\ toolCalls' \in Seq(CodexCalls) /\ Len(toolCalls') = n
        /\ \A j \in 1 .. n : j # i => toolCalls'[j] = toolCalls[j] /\ toolCalls[j].item # c
        /\ toolCalls'[i].item = c /\ toolCalls'[i].named = toolCalls[i].named
        /\ toolCalls'[i].args = toolCalls[i].args + 1
    BY <1>9, <2>1, DeltaGrows, Zenon
  <2>3. \A j \in 1 .. n : toolCalls'[j].item = toolCalls[j].item /\ toolCalls'[j].named = toolCalls[j].named
    BY <2>1, <2>2
  <2>4. CodexTypes'
    BY <1>1, <1>2, <1>5, <2>2 DEF CodexTypes
  <2>5. CodexEntries'
    <3>1. \A j, k \in 1 .. n : toolCalls'[j].item = toolCalls'[k].item => j = k
      BY <1>2, <1>9, <2>3 DEF CodexEntries
    <3>2. \A j \in 1 .. n : item'[toolCalls'[j].item] = "added"
      BY <1>1, <1>2, <1>9, <2>3, Zenon DEF CodexEntries
    <3>3. ASSUME NEW j \in 1 .. n PROVE toolCalls'[j].args <= sentArgs'[toolCalls'[j].item]
      <4>1. toolCalls[j].args <= sentArgs[toolCalls[j].item]
        BY <1>2, <1>9 DEF CodexEntries
      <4>2. CASE j = i
        <5>1. toolCalls[j].args \in Nat
          BY <1>10 DEF CodexCalls
        <5> QED BY <1>4, <1>5, <2>1, <2>2, <4>1, <4>2, <5>1
      <4>3. CASE j # i
        BY <1>5, <1>10, <2>2, <4>1, <4>3
      <4> QED BY <4>2, <4>3
    <3>4. ASSUME NEW j \in 1 .. n, NEW d \in FunctionCalls, toolCalls'[j].named, toolCalls'[j].item = d
          PROVE  Took(d)' = <<>>
      <4>1. toolCalls[j].named /\ toolCalls[j].item = d
        BY <2>3, <3>4, Zenon
      <4> QED BY <1>2, <1>3, <1>9, <4>1, Zenon DEF CodexEntries
    <3> QED BY <2>2, <3>1, <3>2, <3>3, <3>4 DEF CodexEntries
  <2>6. CodexUncut'
    <3> SUFFICES ASSUME faulty \subseteq {"silent"} PROVE CodexUncut'
      BY <1>1 DEF CodexUncut
    <3>1. \A j \in 1 .. n : toolCalls[j].named /\ toolCalls[j].args = sentArgs[toolCalls[j].item]
      BY <1>2, <1>9 DEF CodexUncut
    <3>2. \A j \in 1 .. n : toolCalls'[j].named /\ toolCalls'[j].args = sentArgs'[toolCalls'[j].item]
      <4> TAKE j \in 1 .. n
      <4>1. toolCalls'[j].named
        BY <2>3, <3>1, Zenon
      <4>2. toolCalls[j].args = sentArgs[toolCalls[j].item]
        BY <3>1
      <4>3. CASE j = i
        <5>1. toolCalls[i].args = sentArgs[c]
          BY <2>1, <4>2, <4>3, Zenon
        <5>2. toolCalls'[i].args = sentArgs'[c]
          BY <1>5, <2>2, <5>1, Zenon
        <5> QED BY <2>2, <4>1, <4>3, <5>2, Zenon
      <4>4. CASE j # i
        <5>1. PICK d \in FunctionCalls : d = toolCalls[j].item
          BY <1>10
        <5>2. d # c /\ toolCalls'[j] = toolCalls[j]
          BY <2>2, <4>4, <5>1, Zenon
        <5>3. sentArgs'[d] = sentArgs[d]
          BY <1>5, <5>2
        <5> QED BY <4>1, <4>2, <5>1, <5>2, <5>3, Zenon
      <4> QED BY <4>1, <4>3, <4>4
    <3>3. \A d \in FunctionCalls : item[d] = "added" => \E j \in 1 .. n : toolCalls[j].item = d
      BY <1>1, <1>2, <1>9, Zenon DEF CodexUncut
    <3>4. \A d \in FunctionCalls : item'[d] = "added" => \E j \in 1 .. n : toolCalls'[j].item = d
      BY <1>1, <2>3, <3>3, Zenon
    <3>5. \A d \in FunctionCalls : item'[d] = "done" => Took(d)' = <<WholeUse(d)>>
      BY <1>1, <1>2, <1>3, Zenon DEF CodexUncut
    <3>6. answerEnd' = "open"
      BY <1>1
    <3> QED BY <2>2, <3>2, <3>4, <3>5, <3>6 DEF CodexUncut, WholeUse
  <2> QED BY <1>11, <1>12, <2>4, <2>5, <2>6 DEF CodexInv
<1>14. CASE i = 0
  <2>1. (\A j \in 1 .. n : toolCalls[j].item # c) /\ toolCalls' = Append(toolCalls, Acc(c, FALSE, 1))
    BY <1>7, <1>8, <1>9, <1>14
  <2>2. PICK a : a = Acc(c, FALSE, 1)
    OBVIOUS
  <2>3. a \in CodexCalls /\ a.item = c /\ a.named = FALSE /\ a.args = 1
    BY <1>4, <2>2 DEF Acc, CodexCalls
  <2>4. /\ toolCalls' \in Seq(CodexCalls) /\ Len(toolCalls') = n + 1 /\ toolCalls'[n + 1] = a
        /\ \A j \in 1 .. n : toolCalls'[j] = toolCalls[j]
    <3>1. PICK s \in Seq(CodexCalls) : s = toolCalls
      BY <1>2 DEF CodexTypes
    <3>2. PICK t : t = Append(s, a)
      OBVIOUS
    <3>3. t \in Seq(CodexCalls) /\ Len(t) = Len(s) + 1 /\ t[Len(s) + 1] = a /\ \A j \in 1 .. Len(s) : t[j] = s[j]
      BY <2>3, <3>2, AppendProperties
    <3>4. toolCalls' = t /\ Len(s) = n
      BY <1>9, <2>1, <2>2, <3>1, <3>2, Zenon
    <3> QED BY <3>1, <3>3, <3>4, Zenon
  <2>5. CodexTypes'
    BY <1>1, <1>2, <1>5, <2>4 DEF CodexTypes
  <2>6. CodexEntries'
    <3>1. ASSUME NEW j \in 1 .. n + 1, NEW k \in 1 .. n + 1, toolCalls'[j].item = toolCalls'[k].item
          PROVE  j = k
      <4>1. \A l \in 1 .. n : toolCalls'[l].item # c
        BY <2>1, <2>4
      <4>2. CASE j \in 1 .. n /\ k \in 1 .. n
        BY <1>2, <1>9, <2>4, <3>1, <4>2 DEF CodexEntries
      <4>3. toolCalls'[n + 1].item = c
        BY <2>3, <2>4
      <4> QED BY <3>1, <4>1, <4>2, <4>3
    <3>2. ASSUME NEW j \in 1 .. n + 1
          PROVE  item'[toolCalls'[j].item] = "added" /\ toolCalls'[j].args <= sentArgs'[toolCalls'[j].item]
      <4>1. CASE j \in 1 .. n
        <5>1. item[toolCalls[j].item] = "added" /\ toolCalls[j].args <= sentArgs[toolCalls[j].item]
          BY <1>2, <1>9, <4>1 DEF CodexEntries
        <5>2. toolCalls'[j] = toolCalls[j] /\ toolCalls[j].item # c /\ toolCalls[j].item \in FunctionCalls
          BY <1>10, <2>1, <2>4, <4>1
        <5> QED BY <1>1, <1>5, <5>1, <5>2
      <4>2. CASE j = n + 1
        <5>1. toolCalls'[j].item = c /\ toolCalls'[j].args = 1
          BY <2>3, <2>4, <4>2
        <5>2. 1 <= sentArgs'[c]
          BY <1>4, <1>5
        <5> QED BY <1>1, <5>1, <5>2
      <4> QED BY <4>1, <4>2
    <3>3. ASSUME NEW j \in 1 .. n + 1, NEW d \in FunctionCalls, toolCalls'[j].named, toolCalls'[j].item = d
          PROVE  Took(d)' = <<>>
      <4>1. toolCalls'[n + 1].named = FALSE
        BY <2>3, <2>4
      <4>2. j # n + 1
        BY <3>3, <4>1, Zenon
      <4>3. j \in 1 .. n
        BY <4>2
      <4>4. toolCalls[j].named /\ toolCalls[j].item = d
        BY <2>4, <3>3, <4>3, Zenon
      <4> QED BY <1>2, <1>3, <1>9, <4>3, <4>4, Zenon DEF CodexEntries
    <3> QED BY <2>4, <3>1, <3>2, <3>3 DEF CodexEntries
  <2>7. CodexUncut'
    <3>1. faulty \subseteq {"silent"} => \E j \in 1 .. n : toolCalls[j].item = c
      BY <1>1, <1>2, <1>9, Zenon DEF CodexUncut
    <3>2. ~(faulty' \subseteq {"silent"})
      BY <1>1, <2>1, <3>1
    <3> QED BY <3>2 DEF CodexUncut
  <2> QED BY <1>11, <1>12, <2>5, <2>6, <2>7 DEF CodexInv
<1> QED BY <1>13, <1>14

(* retain leaves the entries of the other calls.                           *)
LEMMA RetainedIs ==
  ASSUME CodexTypes, CodexEntries, NEW c \in FunctionCalls
  PROVE  /\ Retained(c) \in Seq(CodexCalls)
         /\ \A i \in 1 .. Len(Retained(c)) : \E k \in 1 .. Len(toolCalls) :
              Retained(c)[i] = toolCalls[k] /\ toolCalls[k].item # c
         /\ \A k \in 1 .. Len(toolCalls) : toolCalls[k].item # c =>
              \E i \in 1 .. Len(Retained(c)) : Retained(c)[i] = toolCalls[k]
         /\ \A i, j \in 1 .. Len(Retained(c)) : Retained(c)[i].item = Retained(c)[j].item => i = j
<1>1. PICK s \in Seq(CodexCalls) : s = toolCalls
  BY DEF CodexTypes
<1>2. PICK n \in Nat : n = Len(s)
  OBVIOUS
<1>3. PICK f : f = CHOOSE g : FiltersTo(g, s, CallsBut(c), Len(s))
  OBVIOUS
<1>4. FiltersTo(f, s, CallsBut(c), Len(s))
  <2>1. \E g : FiltersTo(g, s, CallsBut(c), Len(s))
    BY <1>2, FiltersExist
  <2> QED BY <1>3, <2>1, Zenon
<1>5. PICK t : t = f[Len(s)]
  OBVIOUS
<1>6. Retained(c) = t
  BY <1>1, <1>3, <1>5, Zenon DEF Retained, FiltersTo
<1>7. t \in Seq(CodexCalls) /\ \A x : Contains(t, x) <=> x \in CallsBut(c) /\ Contains(s, x)
  BY <1>4, <1>5, FilteredIs, Zenon
<1>8. \A x \in CodexCalls : x \in CallsBut(c) <=> x.item # c
  BY DEF CodexCalls, CallsBut
<1>9. PICK m \in Nat : m = Len(t)
  BY <1>7
<1>10. (\A i \in 1 .. n : s[i] \in CodexCalls) /\ \A i \in 1 .. m : t[i] \in CodexCalls
  BY <1>2, <1>7, <1>9
<1>11. /\ \A x : Contains(t, x) <=> \E i \in 1 .. m : t[i] = x
       /\ \A x : Contains(s, x) <=> \E i \in 1 .. n : s[i] = x
  BY <1>2, <1>9, Zenon DEF Contains
<1>12. ASSUME NEW i \in 1 .. m
       PROVE  \E k \in 1 .. n : t[i] = s[k] /\ s[k].item # c
  <2>1. t[i] \in CallsBut(c) /\ Contains(s, t[i])
    BY <1>7, <1>11, Zenon
  <2>2. t[i].item # c
    BY <1>8, <1>10, <2>1
  <2> QED BY <1>11, <2>1, <2>2, Zenon
<1>13. ASSUME NEW k \in 1 .. n, s[k].item # c
       PROVE  \E i \in 1 .. m : t[i] = s[k]
  <2>1. s[k] \in CallsBut(c) /\ Contains(s, s[k])
    BY <1>8, <1>10, <1>11, <1>13, Zenon
  <2> QED BY <1>7, <1>11, <2>1, Zenon
<1>14. \A i, j \in 1 .. n : s[i].item = s[j].item => i = j
  BY <1>1, <1>2, Zenon DEF CodexEntries
<1>15. \A i, j \in 1 .. m : t[i] = t[j] => i = j
  <2>1. \A i, j \in 1 .. Len(s) : s[i] = s[j] /\ s[i] \in CallsBut(c) => i = j
    BY <1>2, <1>14, Zenon
  <2>2. \A i, j \in 1 .. Len(f[Len(s)]) : f[Len(s)][i] = f[Len(s)][j] => i = j
    BY <1>4, <2>1, OnceFiltered, Zenon
  <2> QED BY <1>5, <1>9, <2>2, Zenon
<1>16. ASSUME NEW i \in 1 .. m, NEW j \in 1 .. m, t[i].item = t[j].item
       PROVE  i = j
  <2>1. PICK k \in 1 .. n : t[i] = s[k]
    BY <1>12
  <2>2. PICK l \in 1 .. n : t[j] = s[l]
    BY <1>12
  <2>3. k = l
    BY <1>14, <1>16, <2>1, <2>2, Zenon
  <2> QED BY <1>15, <2>1, <2>2, <2>3, Zenon
<1> QED BY <1>1, <1>2, <1>6, <1>7, <1>9, <1>12, <1>13, <1>16, Zenon

LEMMA ItemDoneInv == ASSUME CodexInv, NEW c \in FunctionCalls, ItemDone(c) PROVE CodexInv'
<1>1. /\ answerEnd = "open" /\ item[c] = "added" /\ item' = [item EXCEPT ![c] = "done"] /\ sentArgs[c] = ArgParts
      /\ sentArgs' = sentArgs /\ answerEnd' = answerEnd /\ Emit(c, ArgParts)
      /\ stopReason' = stopReason /\ faulty' = faulty /\ toolCalls' = Retained(c)
  BY DEF ItemDone
<1>2. CodexTypes /\ CodexEntries /\ CodexTaken /\ CodexUncut /\ CodexStopped
  BY DEF CodexInv
<1>3. PICK u : u = [item |-> c, whole |-> ArgParts = ArgParts]
  OBVIOUS
<1>4. u = WholeUse(c) /\ u.whole
  BY <1>3 DEF WholeUse
<1>5. /\ toolUses' \in Seq(CodexUses) /\ Took(c) \in Seq(CodexUses) /\ u \in CodexUses
      /\ Took(c)' = Append(Took(c), u)
      /\ \A d \in FunctionCalls : d # c => Took(d)' = Took(d)
  <2>1. ArgParts \in 0 .. ArgParts
    BY CodexAssumption DEF CodexAssumption
  <2> QED BY <1>1, <1>2, <1>3, <2>1, EmitTakes, Zenon
<1>6. PICK n \in Nat : n = Len(toolCalls)
  BY <1>2 DEF CodexTypes
<1>7. /\ toolCalls' \in Seq(CodexCalls)
      /\ \A i \in 1 .. Len(toolCalls') : \E k \in 1 .. n : toolCalls'[i] = toolCalls[k] /\ toolCalls[k].item # c
      /\ \A k \in 1 .. n : toolCalls[k].item # c => \E i \in 1 .. Len(toolCalls') : toolCalls'[i] = toolCalls[k]
      /\ \A i, j \in 1 .. Len(toolCalls') : toolCalls'[i].item = toolCalls'[j].item => i = j
  <2>1. PICK r : r = Retained(c)
    OBVIOUS
  <2>2. /\ r \in Seq(CodexCalls)
        /\ \A i \in 1 .. Len(r) : \E k \in 1 .. Len(toolCalls) : r[i] = toolCalls[k] /\ toolCalls[k].item # c
        /\ \A k \in 1 .. Len(toolCalls) : toolCalls[k].item # c => \E i \in 1 .. Len(r) : r[i] = toolCalls[k]
        /\ \A i, j \in 1 .. Len(r) : r[i].item = r[j].item => i = j
    <3>1. /\ Retained(c) \in Seq(CodexCalls)
          /\ \A i \in 1 .. Len(Retained(c)) : \E k \in 1 .. Len(toolCalls) :
               Retained(c)[i] = toolCalls[k] /\ toolCalls[k].item # c
          /\ \A k \in 1 .. Len(toolCalls) : toolCalls[k].item # c =>
               \E i \in 1 .. Len(Retained(c)) : Retained(c)[i] = toolCalls[k]
          /\ \A i, j \in 1 .. Len(Retained(c)) : Retained(c)[i].item = Retained(c)[j].item => i = j
      BY <1>2, RetainedIs, Zenon
    <3> QED BY <2>1, <3>1, Zenon
  <2>3. toolCalls' = r
    BY <1>1, <2>1
  <2> QED BY <1>6, <2>2, <2>3, Zenon
<1>8. \A d \in FunctionCalls : item'[d] = IF d = c THEN "done" ELSE item[d]
  BY <1>1, <1>2 DEF CodexTypes
<1>9. item' \in [FunctionCalls -> {"none", "added", "done"}]
  BY <1>1, <1>2 DEF CodexTypes
<1>10. CodexTypes'
  BY <1>1, <1>2, <1>5, <1>7, <1>9 DEF CodexTypes
<1>11. \A j \in 1 .. n : toolCalls[j] \in CodexCalls /\ toolCalls[j].item \in FunctionCalls
  <2> TAKE j \in 1 .. n
  <2>1. toolCalls[j] \in CodexCalls
    BY <1>2, <1>6 DEF CodexTypes
  <2> QED BY <2>1 DEF CodexCalls
<1>12. CodexEntries'
  <2>1. ASSUME NEW i \in 1 .. Len(toolCalls')
        PROVE  item'[toolCalls'[i].item] = "added" /\ toolCalls'[i].args <= sentArgs'[toolCalls'[i].item]
    <3>1. PICK k \in 1 .. n : toolCalls'[i] = toolCalls[k] /\ toolCalls[k].item # c
      BY <1>7
    <3>2. item[toolCalls[k].item] = "added" /\ toolCalls[k].args <= sentArgs[toolCalls[k].item]
      BY <1>2, <1>6, Zenon DEF CodexEntries
    <3>3. item'[toolCalls[k].item] = item[toolCalls[k].item]
      BY <1>8, <1>11, <3>1
    <3> QED BY <1>1, <3>1, <3>2, <3>3, Zenon
  <2>2. ASSUME NEW i \in 1 .. Len(toolCalls'), NEW d \in FunctionCalls, toolCalls'[i].named, toolCalls'[i].item = d
        PROVE  Took(d)' = <<>>
    <3>1. PICK k \in 1 .. n : toolCalls'[i] = toolCalls[k] /\ toolCalls[k].item # c
      BY <1>7
    <3>2. toolCalls[k].named /\ toolCalls[k].item = d /\ d # c
      BY <2>2, <3>1, Zenon
    <3>3. Took(d) = <<>>
      BY <1>2, <1>6, <3>2, Zenon DEF CodexEntries
    <3> QED BY <1>5, <3>2, <3>3, Zenon
  <2> QED BY <1>7, <2>1, <2>2, Zenon DEF CodexEntries
<1>13. PICK w \in Seq(CodexUses) : w = Took(c)
  BY <1>5
<1>14. PICK v : v = Append(w, u)
  OBVIOUS
<1>15. Len(v) = Len(w) + 1 /\ v[Len(w) + 1] = u /\ Took(c)' = v
  BY <1>5, <1>13, <1>14, AppendProperties
<1>16. CodexTaken'
  <2>1. Len(w) <= 1
    BY <1>1, <1>2, <1>13, Zenon DEF CodexTaken
  <2>2. Len(v) <= 2
    BY <1>15, <2>1
  <2>3. \E i \in 1 .. Len(v) : v[i].whole
    <3>1. Len(w) + 1 \in 1 .. Len(v)
      BY <1>15
    <3> QED BY <1>4, <1>15, <3>1, Zenon
  <2>4. Len(Took(c)') <= 2 /\ Delivered(c)'
    BY <1>15, <2>2, <2>3, Zenon DEF Delivered
  <2>5. \A d \in FunctionCalls : d # c => Delivered(d)' = Delivered(d)
    BY <1>5, Zenon DEF Delivered
  <2>6. ASSUME NEW d \in FunctionCalls
        PROVE  /\ item'[d] = "none" => Took(d)' = <<>> /\ sentArgs'[d] = 0
               /\ item'[d] = "added" => Len(Took(d)') <= 1
               /\ item'[d] = "done" => Len(Took(d)') <= 2 /\ Delivered(d)'
    <3>1. CASE d = c
      <4>1. item'[d] = "done" /\ "done" # "none" /\ "done" # "added"
        BY <1>8, <3>1
      <4> QED BY <2>4, <3>1, <4>1, Zenon
    <3>2. CASE d # c
      <4>1. item'[d] = item[d]
        BY <1>8, <3>2
      <4> QED BY <1>1, <1>2, <1>5, <2>5, <3>2, <4>1, Zenon DEF CodexTaken
    <3> QED BY <3>1, <3>2
  <2> QED BY <2>6, Zenon DEF CodexTaken
<1>17. CodexUncut'
  <2> SUFFICES ASSUME faulty \subseteq {"silent"} PROVE CodexUncut'
    BY <1>1 DEF CodexUncut
  <2>1. /\ \A i \in 1 .. n : toolCalls[i].named /\ toolCalls[i].args = sentArgs[toolCalls[i].item]
        /\ \A d \in FunctionCalls : item[d] = "added" => \E i \in 1 .. n : toolCalls[i].item = d
        /\ \A d \in FunctionCalls : item[d] = "done" => Took(d) = <<WholeUse(d)>>
    BY <1>1, <1>2, <1>6, Zenon DEF CodexUncut
  <2>2. \A i \in 1 .. Len(toolCalls') : toolCalls'[i].named /\ toolCalls'[i].args = sentArgs'[toolCalls'[i].item]
    <3> TAKE i \in 1 .. Len(toolCalls')
    <3>1. PICK k \in 1 .. n : toolCalls'[i] = toolCalls[k]
      BY <1>7
    <3>2. toolCalls[k].named /\ toolCalls[k].args = sentArgs[toolCalls[k].item]
      BY <2>1
    <3> QED BY <1>1, <3>1, <3>2, Zenon
  <2>3. ASSUME NEW d \in FunctionCalls, item'[d] = "added"
        PROVE  \E i \in 1 .. Len(toolCalls') : toolCalls'[i].item = d
    <3>1. d # c /\ item[d] = "added"
      BY <1>8, <2>3
    <3>2. PICK k \in 1 .. n : toolCalls[k].item = d
      BY <2>1, <3>1
    <3> QED BY <1>7, <3>1, <3>2, Zenon
  <2>4. w = <<>>
    <3>1. PICK k \in 1 .. n : toolCalls[k].item = c
      BY <1>1, <2>1
    <3> QED BY <1>2, <1>6, <1>13, <2>1, <3>1, Zenon DEF CodexEntries
  <2>5. v = <<WholeUse(c)>>
    BY <1>4, <1>14, <2>4
  <2>6. \A d \in FunctionCalls : item'[d] = "done" => Took(d)' = <<WholeUse(d)>>
    <3> SUFFICES ASSUME NEW d \in FunctionCalls, item'[d] = "done" PROVE Took(d)' = <<WholeUse(d)>>
      OBVIOUS
    <3>1. CASE d = c
      BY <1>15, <2>5, <3>1
    <3>2. CASE d # c
      <4>1. item[d] = "done"
        BY <1>8, <3>2
      <4> QED BY <1>5, <2>1, <3>2, <4>1, Zenon
    <3> QED BY <3>1, <3>2
  <2>7. answerEnd' = "open"
    BY <1>1
  <2> QED BY <2>2, <2>3, <2>6, <2>7, Zenon DEF CodexUncut, WholeUse
<1>18. CodexStopped'
  BY <1>1 DEF CodexStopped
<1> QED BY <1>10, <1>12, <1>16, <1>17, <1>18 DEF CodexInv

(* Flushing: the last entry that has a name, without those behind it.      *)
LEMMA FlushNone ==
  ASSUME CodexInv, FlushOne, LastNamed = 0
  PROVE  /\ toolCalls' = <<>> /\ toolUses' = toolUses
         /\ faulty \subseteq {"silent"} => toolCalls = <<>>
<1>1. toolCalls' = <<>> /\ toolUses' = toolUses
  BY DEF FlushOne
<1>2. CodexTypes /\ CodexUncut
  BY DEF CodexInv
<1>3. PICK s \in Seq(CodexCalls) : s = toolCalls
  BY <1>2 DEF CodexTypes
<1>4. ASSUME faulty \subseteq {"silent"}, s # <<>> PROVE FALSE
  <2>1. Len(s) \in Nat /\ Len(s) # 0
    BY <1>4, EmptySeq
  <2>2. 1 \in 1 .. Len(toolCalls)
    BY <1>3, <2>1
  <2>3. toolCalls[1].named
    BY <1>2, <1>4, <2>2, Zenon DEF CodexUncut
  <2>4. 1 <= LastNamed
    BY <1>2, <2>2, <2>3, LastNamedIs
  <2> QED BY <2>4
<1> QED BY <1>1, <1>3, <1>4

LEMMA FlushNamed ==
  ASSUME CodexInv, FlushOne, LastNamed # 0
  PROVE  \E c \in FunctionCalls, k \in 1 .. Len(toolCalls) :
           /\ toolCalls[k].item = c /\ item[c] = "added" /\ Took(c) = <<>>
           /\ toolCalls' \in Seq(CodexCalls) /\ Len(toolCalls') = k - 1
           /\ \A i \in 1 .. k - 1 : toolCalls'[i] = toolCalls[i] /\ toolCalls[i].item # c
           /\ toolUses' \in Seq(CodexUses)
           /\ Took(c)' = <<[item |-> c, whole |-> toolCalls[k].args = ArgParts]>>
           /\ \A d \in FunctionCalls : d # c => Took(d)' = Took(d)
           /\ faulty \subseteq {"silent"} => k = Len(toolCalls)
<1>1. PICK k : k = LastNamed
  OBVIOUS
<1>2. CodexTypes /\ CodexEntries /\ CodexUncut
  BY DEF CodexInv
<1>3. PICK s \in Seq(CodexCalls) : s = toolCalls
  BY <1>2 DEF CodexTypes
<1>4. PICK n \in Nat : n = Len(s)
  OBVIOUS
<1>5. k \in 1 .. n /\ s[k].named /\ \A i \in 1 .. n : s[i].named => i <= k
  <2>1. /\ LastNamed \in 0 .. Len(toolCalls) /\ toolCalls[LastNamed].named
        /\ \A i \in 1 .. Len(toolCalls) : toolCalls[i].named => i <= LastNamed
    BY <1>2, LastNamedIs
  <2>2. k \in 0 .. n /\ k # 0
    BY <1>1, <1>3, <1>4, <2>1
  <2> QED BY <1>1, <1>3, <1>4, <2>1, <2>2
<1>6. PICK c : c = s[k].item
  OBVIOUS
<1>7. s[k] \in CodexCalls
  BY <1>4, <1>5
<1>8. c \in FunctionCalls /\ s[k].args \in 0 .. ArgParts
  BY <1>6, <1>7 DEF CodexCalls
<1>9. item[c] = "added" /\ Took(c) = <<>>
  BY <1>2, <1>3, <1>4, <1>5, <1>6, <1>8, Zenon DEF CodexEntries
<1>10. PICK t : t = SubSeq(s, 1, k - 1)
  OBVIOUS
<1>11. t \in Seq(CodexCalls) /\ Len(t) = k - 1 /\ \A i \in 1 .. k - 1 : t[i] = s[i]
  <2>1. k - 1 \in Int /\ \A i \in 1 .. k - 1 : s[i] \in CodexCalls
    BY <1>4, <1>5
  <2>2. /\ SubSeq(s, 1, k - 1) \in Seq(CodexCalls)
        /\ Len(SubSeq(s, 1, k - 1)) = IF 1 <= k - 1 THEN k - 1 - 1 + 1 ELSE 0
        /\ \A i \in 1 .. k - 1 - 1 + 1 : SubSeq(s, 1, k - 1)[i] = s[1 + i - 1]
    BY <2>1, SubSeqProperties
  <2>3. \A i \in 1 .. k - 1 : i \in 1 .. k - 1 - 1 + 1 /\ 1 + i - 1 = i
    BY <1>5
  <2> QED BY <1>5, <1>10, <2>2, <2>3
<1>12. toolCalls' = t /\ Emit(c, s[k].args)
  BY <1>1, <1>3, <1>6, <1>10, Zenon DEF FlushOne
<1>13. PICK u : u = [item |-> c, whole |-> s[k].args = ArgParts]
  OBVIOUS
<1>14. /\ toolUses' \in Seq(CodexUses) /\ Took(c)' = Append(Took(c), u)
       /\ \A d \in FunctionCalls : d # c => Took(d)' = Took(d)
  BY <1>2, <1>8, <1>12, <1>13, EmitTakes, Zenon
<1>15. Took(c)' = <<u>>
  BY <1>9, <1>14
<1>16. \A i \in 1 .. k - 1 : s[i].item # c
  <2> TAKE i \in 1 .. k - 1
  <2>1. i \in 1 .. n /\ i # k
    BY <1>4, <1>5
  <2> QED BY <1>2, <1>3, <1>4, <1>5, <1>6, <2>1, Zenon DEF CodexEntries
<1>17. faulty \subseteq {"silent"} => k = n
  <2> SUFFICES ASSUME faulty \subseteq {"silent"} PROVE k = n
    OBVIOUS
  <2>1. n \in 1 .. n
    BY <1>5
  <2>2. s[n].named
    BY <1>2, <1>3, <1>4, <2>1, Zenon DEF CodexUncut
  <2> QED BY <1>5, <2>1, <2>2
<1>18. k \in 1 .. Len(toolCalls)
  BY <1>3, <1>4, <1>5
<1> QED BY <1>3, <1>4, <1>6, <1>8, <1>9, <1>11, <1>12, <1>13, <1>14, <1>15, <1>16, <1>17, <1>18, Zenon

LEMMA FlushInv ==
  ASSUME CodexInv, FlushOne, item' = item, sentArgs' = sentArgs, stopReason' \in BOOLEAN,
         answerEnd' \in {"open", "completed", "ended", "returned"}, answerEnd # "open" => answerEnd' # "open",
         faulty' \subseteq {"silent"} =>
           /\ faulty \subseteq {"silent"} /\ (toolCalls = <<>> \/ answerEnd' # "open")
           /\ answerEnd' # "open" => \A c \in FunctionCalls : item[c] = "added" => sentArgs[c] = ArgParts
  PROVE  CodexTypes' /\ CodexEntries' /\ CodexTaken' /\ CodexUncut'
<1>1. CodexTypes /\ CodexEntries /\ CodexTaken /\ CodexUncut
  BY DEF CodexInv
<1>2. CASE LastNamed = 0
  <2>1. toolCalls' = <<>> /\ toolUses' = toolUses /\ (faulty \subseteq {"silent"} => toolCalls = <<>>)
    BY <1>2, FlushNone
  <2>2. \A d : Took(d)' = Took(d)
    BY <2>1, Zenon DEF Took
  <2>3. \A d \in FunctionCalls : Delivered(d)' = Delivered(d)
    BY <2>2, Zenon DEF Delivered
  <2>4. <<>> \in Seq(CodexCalls) /\ Len(<<>>) = 0 /\ 1 .. 0 = {}
    OBVIOUS
  <2>5. CodexTypes'
    BY <1>1, <2>1, <2>4 DEF CodexTypes
  <2>6. CodexEntries'
    BY <2>1, <2>4 DEF CodexEntries
  <2>7. CodexTaken'
    BY <1>1, <2>2, <2>3, Zenon DEF CodexTaken
  <2>8. CodexUncut'
    <3> SUFFICES ASSUME faulty' \subseteq {"silent"} PROVE CodexUncut'
      BY Zenon DEF CodexUncut
    <3>1. faulty \subseteq {"silent"} /\ toolCalls = <<>>
      BY <2>1
    <3>2. \A d \in FunctionCalls : item[d] = "added" => answerEnd # "open" /\ Took(d) = <<WholeUse(d)>>
      BY <1>1, <2>4, <3>1 DEF CodexUncut
    <3>3. \A d \in FunctionCalls : item[d] = "done" => Took(d) = <<WholeUse(d)>>
      BY <1>1, <3>1, Zenon DEF CodexUncut
    <3>4. \A d \in FunctionCalls : item'[d] = "added" => answerEnd' # "open" /\ Took(d)' = <<WholeUse(d)>>
      BY <2>2, <3>2, Zenon
    <3>5. \A d \in FunctionCalls : item'[d] = "done" => Took(d)' = <<WholeUse(d)>>
      BY <2>2, <3>3, Zenon
    <3>6. \A i \in 1 .. Len(toolCalls') : toolCalls'[i].named /\ toolCalls'[i].args = sentArgs'[toolCalls'[i].item]
      BY <2>1, <2>4
    <3>7. answerEnd' # "open" => \A d \in FunctionCalls : item'[d] = "added" => sentArgs'[d] = ArgParts
      OBVIOUS
    <3> QED BY <3>4, <3>5, <3>6, <3>7, Zenon DEF CodexUncut, WholeUse
  <2> QED BY <2>5, <2>6, <2>7, <2>8
<1>3. CASE LastNamed # 0
  <2>1. PICK c \in FunctionCalls, k \in 1 .. Len(toolCalls) :
           /\ toolCalls[k].item = c /\ item[c] = "added" /\ Took(c) = <<>>
           /\ toolCalls' \in Seq(CodexCalls) /\ Len(toolCalls') = k - 1
           /\ \A i \in 1 .. k - 1 : toolCalls'[i] = toolCalls[i] /\ toolCalls[i].item # c
           /\ toolUses' \in Seq(CodexUses)
           /\ Took(c)' = <<[item |-> c, whole |-> toolCalls[k].args = ArgParts]>>
           /\ \A d \in FunctionCalls : d # c => Took(d)' = Took(d)
           /\ faulty \subseteq {"silent"} => k = Len(toolCalls)
    BY <1>3, FlushNamed
  <2>2. PICK n \in Nat : n = Len(toolCalls)
    BY <1>1 DEF CodexTypes
  <2>3. k \in 1 .. n /\ \A i \in 1 .. k - 1 : i \in 1 .. n
    BY <2>2
  <2>4. CodexTypes'
    BY <1>1, <2>1 DEF CodexTypes
  <2>5. CodexEntries'
    <3>1. \A i, j \in 1 .. k - 1 : toolCalls'[i].item = toolCalls'[j].item => i = j
      BY <1>1, <2>1, <2>2, <2>3, Zenon DEF CodexEntries
    <3>2. \A i \in 1 .. k - 1 : item'[toolCalls'[i].item] = "added" /\ toolCalls'[i].args <= sentArgs'[toolCalls'[i].item]
      <4> TAKE i \in 1 .. k - 1
      <4>1. item[toolCalls[i].item] = "added" /\ toolCalls[i].args <= sentArgs[toolCalls[i].item]
        BY <1>1, <2>2, <2>3, Zenon DEF CodexEntries
      <4> QED BY <2>1, <4>1, Zenon
    <3>3. ASSUME NEW i \in 1 .. k - 1, NEW d \in FunctionCalls, toolCalls'[i].named, toolCalls'[i].item = d
          PROVE  Took(d)' = <<>>
      <4>1. toolCalls[i].named /\ toolCalls[i].item = d /\ d # c
        BY <2>1, <3>3, Zenon
      <4>2. Took(d) = <<>>
        BY <1>1, <2>2, <2>3, <4>1, Zenon DEF CodexEntries
      <4> QED BY <2>1, <4>1, <4>2, Zenon
    <3> QED BY <2>1, <3>1, <3>2, <3>3, Zenon DEF CodexEntries
  <2>6. CodexTaken'
    <3>1. Len(Took(c)') = 1
      <4>1. PICK u : u = [item |-> c, whole |-> toolCalls[k].args = ArgParts]
        OBVIOUS
      <4>2. Took(c)' = <<u>>
        BY <2>1, <4>1, Zenon
      <4> QED BY <4>2
    <3>2. \A d \in FunctionCalls : d # c => Delivered(d)' = Delivered(d)
      BY <2>1, Zenon DEF Delivered
    <3>3. ASSUME NEW d \in FunctionCalls
          PROVE  /\ item'[d] = "none" => Took(d)' = <<>> /\ sentArgs'[d] = 0
                 /\ item'[d] = "added" => Len(Took(d)') <= 1
                 /\ item'[d] = "done" => Len(Took(d)') <= 2 /\ Delivered(d)'
      <4>1. CASE d = c
        <5>1. item'[d] = "added" /\ "added" # "none" /\ "added" # "done"
          BY <2>1, <4>1
        <5>2. Len(Took(c)') <= 1
          BY <3>1
        <5> QED BY <4>1, <5>1, <5>2, Zenon
      <4>2. CASE d # c
        BY <1>1, <2>1, <3>2, <4>2, Zenon DEF CodexTaken
      <4> QED BY <4>1, <4>2
    <3> QED BY <3>3, Zenon DEF CodexTaken
  <2>7. CodexUncut'
    <3> SUFFICES ASSUME faulty' \subseteq {"silent"} PROVE CodexUncut'
      BY Zenon DEF CodexUncut
    <3>1. faulty \subseteq {"silent"} /\ k = n /\ answerEnd' # "open"
      <4>1. toolCalls # <<>>
        BY <1>1, <2>2, <2>3 DEF CodexTypes
      <4> QED BY <2>1, <2>2, <4>1
    <3>2. /\ \A i \in 1 .. n : toolCalls[i].named /\ toolCalls[i].args = sentArgs[toolCalls[i].item]
          /\ \A d \in FunctionCalls : item[d] = "added" =>
               (\E i \in 1 .. n : toolCalls[i].item = d) \/ Took(d) = <<WholeUse(d)>>
          /\ \A d \in FunctionCalls : item[d] = "done" => Took(d) = <<WholeUse(d)>>
      BY <1>1, <2>2, <3>1, Zenon DEF CodexUncut
    <3>3. \A d \in FunctionCalls : item[d] = "added" => sentArgs[d] = ArgParts
      BY <3>1
    <3>4. Took(c)' = <<WholeUse(c)>>
      <4>1. toolCalls[k].args = ArgParts
        BY <2>1, <2>3, <3>2, <3>3, Zenon
      <4>2. (toolCalls[k].args = ArgParts) = TRUE
        BY <4>1
      <4>3. [item |-> c, whole |-> toolCalls[k].args = ArgParts] = WholeUse(c)
        BY <4>2, Zenon DEF WholeUse
      <4> QED BY <2>1, <4>3, Zenon
    <3>5. ASSUME NEW d \in FunctionCalls, item'[d] = "added"
          PROVE  (\E i \in 1 .. k - 1 : toolCalls'[i].item = d) \/ Took(d)' = <<WholeUse(d)>>
      <4>1. CASE d = c
        BY <3>4, <4>1
      <4>2. CASE d # c
        <5>1. (\E i \in 1 .. n : toolCalls[i].item = d) \/ Took(d) = <<WholeUse(d)>>
          BY <3>2, <3>5
        <5>2. CASE Took(d) = <<WholeUse(d)>>
          BY <2>1, <4>2, <5>2, Zenon
        <5>3. ASSUME NEW i \in 1 .. n, toolCalls[i].item = d PROVE \E j \in 1 .. k - 1 : toolCalls'[j].item = d
          <6>1. i # k
            BY <2>1, <4>2, <5>3
          <6>2. i \in 1 .. k - 1
            BY <3>1, <6>1
          <6> QED BY <2>1, <5>3, <6>2, Zenon
        <5> QED BY <5>1, <5>2, <5>3
      <4> QED BY <4>1, <4>2
    <3>6. ASSUME NEW d \in FunctionCalls, item'[d] = "done"
          PROVE  Took(d)' = <<WholeUse(d)>>
      <4>1. d # c
        BY <2>1, <3>6
      <4> QED BY <2>1, <3>2, <3>6, <4>1, Zenon
    <3>7. \A i \in 1 .. k - 1 : toolCalls'[i].named /\ toolCalls'[i].args = sentArgs'[toolCalls'[i].item]
      <4> TAKE i \in 1 .. k - 1
      <4>1. toolCalls[i].named /\ toolCalls[i].args = sentArgs[toolCalls[i].item]
        BY <2>3, <3>2, Zenon
      <4> QED BY <2>1, <4>1, Zenon
    <3>8. \A d \in FunctionCalls : item'[d] = "added" => sentArgs'[d] = ArgParts
      BY <3>3, Zenon
    <3>9. ASSUME NEW d \in FunctionCalls, item'[d] = "added"
          PROVE  \/ \E i \in 1 .. Len(toolCalls') : toolCalls'[i].item = d
                 \/ answerEnd' # "open" /\ Took(d)' = <<WholeUse(d)>>
      BY <2>1, <3>1, <3>5, <3>9, Zenon
    <3> QED BY <2>1, <3>6, <3>7, <3>8, <3>9, Zenon DEF CodexUncut, WholeUse
  <2> QED BY <2>4, <2>5, <2>6, <2>7
<1> QED BY <1>2, <1>3

LEMMA BlankEventInv == CodexInv /\ BlankEvent => CodexInv'
<1> SUFFICES ASSUME CodexInv, BlankEvent PROVE CodexInv'
  OBVIOUS
<1>1. /\ FlushOne /\ answerEnd = "open" /\ item' = item /\ sentArgs' = sentArgs /\ answerEnd' = answerEnd
      /\ stopReason' = stopReason /\ faulty' = IF toolCalls = <<>> THEN faulty ELSE faulty \cup {"blank"}
  BY DEF BlankEvent
<1>2. CodexTypes /\ CodexStopped
  BY DEF CodexInv
<1>3. faulty' \subseteq {"silent"} => faulty \subseteq {"silent"} /\ toolCalls = <<>>
  BY <1>1
<1>4. answerEnd' \in {"open", "completed", "ended", "returned"} /\ stopReason' \in BOOLEAN
  BY <1>1, <1>2 DEF CodexTypes
<1>5. CodexTypes' /\ CodexEntries' /\ CodexTaken' /\ CodexUncut'
  BY <1>1, <1>3, <1>4, FlushInv
<1>6. CodexStopped'
  BY <1>1 DEF CodexStopped
<1> QED BY <1>5, <1>6 DEF CodexInv

LEMMA CompletedInv == CodexInv /\ Completed => CodexInv'
<1> SUFFICES ASSUME CodexInv, Completed PROVE CodexInv'
  OBVIOUS
<1>1. /\ FlushOne /\ answerEnd = "open" /\ item' = item /\ sentArgs' = sentArgs /\ answerEnd' = "completed"
      /\ \A c \in FunctionCalls : item[c] = "added" => sentArgs[c] = ArgParts
      /\ faulty' = IF \E c \in FunctionCalls : item[c] = "added" THEN faulty \cup {"silent"} ELSE faulty
  BY DEF Completed
<1>2. stopReason' = (LastNamed = 0)
  BY Zenon DEF Completed
<1>3. CodexTypes /\ CodexEntries
  BY DEF CodexInv
<1>4. faulty' \subseteq {"silent"} => faulty \subseteq {"silent"}
  BY <1>1
<1>5. stopReason' \in BOOLEAN
  BY <1>2
<1>6. CodexTypes' /\ CodexEntries' /\ CodexTaken' /\ CodexUncut'
  BY <1>1, <1>4, <1>5, FlushInv
<1>7. faulty' = {} => LastNamed = 0
  <2> SUFFICES ASSUME faulty' = {}, LastNamed # 0 PROVE FALSE
    OBVIOUS
  <2>1. PICK c \in FunctionCalls : item[c] = "added"
    BY FlushNamed, <1>1
  <2> QED BY <1>1, <2>1
<1>8. CodexStopped'
  BY <1>1, <1>2, <1>7 DEF CodexStopped
<1> QED BY <1>6, <1>8 DEF CodexInv

LEMMA DrainOrReturnInv == CodexInv /\ DrainOrReturn => CodexInv'
<1> SUFFICES ASSUME CodexInv, DrainOrReturn PROVE CodexInv'
  OBVIOUS
<1>1. /\ FlushOne /\ answerEnd = "ended" /\ item' = item /\ sentArgs' = sentArgs
      /\ answerEnd' = IF LastNamed = 0 THEN "returned" ELSE "ended"
      /\ stopReason' = stopReason /\ faulty' = faulty
  BY DEF DrainOrReturn
<1>2. CodexTypes /\ CodexUncut /\ CodexStopped
  BY DEF CodexInv
<1>3. answerEnd' \in {"ended", "returned"} /\ stopReason' \in BOOLEAN
  BY <1>1, <1>2 DEF CodexTypes
<1>4. answerEnd' \in {"open", "completed", "ended", "returned"} /\ answerEnd' # "open"
  BY <1>3
<1>5. faulty' \subseteq {"silent"} =>
        /\ faulty \subseteq {"silent"}
        /\ \A c \in FunctionCalls : item[c] = "added" => sentArgs[c] = ArgParts
  BY <1>1, <1>2 DEF CodexUncut
<1>6. CodexTypes' /\ CodexEntries' /\ CodexTaken' /\ CodexUncut'
  BY <1>1, <1>3, <1>4, <1>5, FlushInv
<1>7. answerEnd' = "returned" => toolCalls' = <<>>
  <2> SUFFICES ASSUME answerEnd' = "returned" PROVE toolCalls' = <<>>
    OBVIOUS
  <2>1. LastNamed = 0
    BY <1>1
  <2> QED BY <1>1, <2>1, FlushNone
<1>8. CodexStopped'
  BY <1>1, <1>2, <1>7 DEF CodexStopped
<1> QED BY <1>6, <1>8 DEF CodexInv

LEMMA CodexSame ==
  ASSUME CodexInv, item' = item, sentArgs' = sentArgs, toolCalls' = toolCalls, toolUses' = toolUses,
         stopReason' = stopReason,
         \/ answerEnd' = answerEnd /\ faulty' = faulty
         \/ answerEnd' = "ended" /\ ((answerEnd = "completed" /\ faulty' = faulty) \/ faulty' = faulty \cup {"cut"})
  PROVE  CodexInv'
<1>1. CodexTypes /\ CodexEntries /\ CodexTaken /\ CodexUncut /\ CodexStopped
  BY DEF CodexInv
<1>2. \A d : Took(d)' = Took(d)
  BY Zenon DEF Took
<1>3. \A d \in FunctionCalls : Delivered(d)' = Delivered(d)
  BY <1>2, Zenon DEF Delivered
<1>4. CodexTypes'
  BY <1>1 DEF CodexTypes
<1>5. CodexEntries'
  BY <1>1, <1>2, Zenon DEF CodexEntries
<1>6. CodexTaken'
  BY <1>1, <1>2, <1>3, Zenon DEF CodexTaken
<1>7. faulty' \subseteq {"silent"} => faulty \subseteq {"silent"} /\ (answerEnd' # "open" <=> answerEnd # "open")
  <2> SUFFICES ASSUME faulty' \subseteq {"silent"}
               PROVE  faulty \subseteq {"silent"} /\ (answerEnd' # "open" <=> answerEnd # "open")
    OBVIOUS
  <2>1. CASE answerEnd' = answerEnd /\ faulty' = faulty
    BY <2>1
  <2>2. CASE answerEnd' = "ended" /\ answerEnd = "completed" /\ faulty' = faulty
    BY <2>2
  <2>3. faulty' # faulty \cup {"cut"}
    OBVIOUS
  <2> QED BY <2>1, <2>2, <2>3
<1>8. CodexUncut'
  BY <1>1, <1>2, <1>7, Zenon DEF CodexUncut, WholeUse
<1>9. CodexStopped'
  BY <1>1 DEF CodexStopped
<1> QED BY <1>4, <1>5, <1>6, <1>8, <1>9 DEF CodexInv

LEMMA CodexStepInv == CodexInv /\ [CodexNext]_codexVars => CodexInv'
<1> SUFFICES ASSUME CodexInv, [CodexNext]_codexVars PROVE CodexInv'
  OBVIOUS
<1>1. CASE UNCHANGED codexVars
  <2>1. /\ item' = item /\ sentArgs' = sentArgs /\ toolCalls' = toolCalls /\ toolUses' = toolUses
        /\ answerEnd' = answerEnd /\ stopReason' = stopReason /\ faulty' = faulty
    BY <1>1 DEF codexVars
  <2> QED BY <2>1, CodexSame
<1>2. CASE StreamEnds
  <2>1. /\ item' = item /\ sentArgs' = sentArgs /\ toolCalls' = toolCalls /\ toolUses' = toolUses
        /\ stopReason' = stopReason /\ answerEnd' = "ended"
        /\ ((answerEnd = "completed" /\ faulty' = faulty) \/ faulty' = faulty \cup {"cut"})
    BY <1>2 DEF StreamEnds
  <2> QED BY <2>1, CodexSame
<1> QED BY <1>1, <1>2, ItemAddedInv, DeltaInv, ItemDoneInv, BlankEventInv, CompletedInv, DrainOrReturnInv DEF CodexNext

LEMMA CodexInvSound == CodexInv => CodexSound
<1> SUFFICES ASSUME CodexInv PROVE CodexSound
  OBVIOUS
<1>1. CodexTypes /\ CodexTaken /\ CodexUncut /\ CodexStopped
  BY DEF CodexInv
<1>2. \A c : Uses(c) = Took(c)
  BY <1>1, UsesAre DEF CodexTypes
<1>3. CallsOnce
  <2> SUFFICES ASSUME answerEnd = "returned", faulty \subseteq {"silent"}, NEW c \in FunctionCalls
               PROVE  Uses(c) = IF item[c] = "none" THEN <<>> ELSE <<WholeUse(c)>>
    BY Zenon DEF CallsOnce, WholeUse
  <2>1. toolCalls = <<>>
    BY <1>1 DEF CodexStopped
  <2>2. ~\E i \in 1 .. Len(toolCalls) : toolCalls[i].item = c
    BY <2>1
  <2>3. item[c] = "added" \/ item[c] = "done" => Took(c) = <<WholeUse(c)>>
    BY <1>1, <2>2, Zenon DEF CodexUncut
  <2>4. item[c] = "none" => Took(c) = <<>>
    BY <1>1, Zenon DEF CodexTaken
  <2>5. item[c] \in {"none", "added", "done"}
    BY <1>1 DEF CodexTypes
  <2> QED BY <1>2, <2>3, <2>4, <2>5
<1>4. DoneIsPassedOn
  <2> SUFFICES ASSUME NEW c \in FunctionCalls
               PROVE  (item[c] = "done" => \E i \in DOMAIN Uses(c) : Uses(c)[i].whole) /\ Len(Uses(c)) <= 2
    BY DEF DoneIsPassedOn
  <2>1. PICK w \in Seq(CodexUses) : w = Uses(c)
    BY <1>1, <1>2, TookIs
  <2>2. DOMAIN w = 1 .. Len(w) /\ Len(w) \in Nat
    OBVIOUS
  <2>3. item[c] = "done" => \E i \in 1 .. Len(w) : w[i].whole
    BY <1>1, <1>2, <2>1, Zenon DEF CodexTaken, Delivered
  <2>4. Len(w) <= 2
    <3>1. item[c] = "none" => w = <<>>
      BY <1>1, <1>2, <2>1, Zenon DEF CodexTaken
    <3>2. item[c] = "added" => Len(w) <= 1
      BY <1>1, <1>2, <2>1, Zenon DEF CodexTaken
    <3>3. item[c] = "done" => Len(w) <= 2
      BY <1>1, <1>2, <2>1, Zenon DEF CodexTaken
    <3>4. item[c] \in {"none", "added", "done"}
      BY <1>1 DEF CodexTypes
    <3>5. w = <<>> => Len(w) = 0
      OBVIOUS
    <3> QED BY <2>2, <3>1, <3>2, <3>3, <3>4, <3>5
  <2> QED BY <2>1, <2>2, <2>3, <2>4, Zenon
<1>5. Stops
  BY <1>1 DEF CodexStopped, Stops
<1> QED BY <1>3, <1>4, <1>5 DEF CodexSound

(* The calls of tools that complete() hands to the agent are those the     *)
(* model made: each once and whole, however its pieces, its done event and *)
(* the end of the stream follow each other.                                *)
THEOREM CodexSoundHolds == CodexSpec => []CodexSound
<1>1. CodexInit => CodexInv
  BY CodexInitInv
<1>2. CodexInv /\ [CodexNext]_codexVars => CodexInv'
  BY CodexStepInv
<1>3. CodexInv => CodexSound
  BY CodexInvSound
<1> QED BY <1>1, <1>2, <1>3, PTL DEF CodexSpec

-----------------------------------------------------------------------------
(* The memory section, for any number of entries and any limits.           *)

LambdaRoom == remaining > 0 \/ packed # {} =>
  chars + 4 * remaining <= 4 * lambdaMax + 3 * (Cardinality(packed) + 2)
LambdaOrder == \A j \in passed, i \in Ranks : Before(i, j) => i \in passed
LambdaLeft == \A i \in passed \ packed : entries[i].level > 0 => remaining = 0
LambdaInv == LambdaTypeOK /\ LambdaRoom /\ LambdaOrder /\ LambdaLeft

LEMMA LambdaStarts == LambdaInit => LambdaInv
<1> SUFFICES ASSUME LambdaInit PROVE LambdaInv
  OBVIOUS
<1>1. /\ MinEntry \in Nat /\ MaxLambda \in Nat /\ Header \in Nat /\ Footer \in Nat
      /\ packed = {} /\ passed = {}
  BY LambdaAssumption DEF LambdaAssumption, LambdaInit
<1>2. PICK h : h = TokensOf(Header)
  OBVIOUS
<1>3. PICK f : f = TokensOf(Footer)
  OBVIOUS
<1>4. /\ h \in Nat /\ f \in Nat /\ Header <= 4 * h + 3 /\ Footer <= 4 * f + 3
  BY <1>1, <1>2, <1>3 DEF TokensOf
<1>5. lambdaMax \in Nat /\ chars = Header + Footer /\ remaining = Less(lambdaMax, h + f)
  BY <1>1, <1>2, <1>3 DEF LambdaInit
<1>6. remaining \in 0 .. lambdaMax /\ (remaining > 0 => remaining = lambdaMax - (h + f))
  BY <1>4, <1>5 DEF Less
<1>7. LambdaTypeOK
  <2>1. entries \in [Ranks -> [explicit : BOOLEAN, level : Fidelities]]
    BY DEF LambdaInit
  <2> QED BY <1>1, <1>5, <1>6, <2>1 DEF LambdaTypeOK
<1>8. LambdaRoom
  <2>1. Cardinality(packed) = 0
    BY <1>1, FS_EmptySet
  <2>2. ASSUME remaining > 0
        PROVE  chars + 4 * remaining <= 4 * lambdaMax + 6
    BY <1>1, <1>4, <1>5, <1>6, <2>2
  <2> QED BY <1>1, <2>1, <2>2 DEF LambdaRoom
<1> QED BY <1>1, <1>7, <1>8 DEF LambdaInv, LambdaOrder, LambdaLeft

(* The form that is chosen: it fits, and is there if the shortest fits.    *)
LEMMA FormFits ==
  ASSUME NEW i \in Ranks, LambdaTypeOK
  PROVE  /\ BestForm(i) \in 0 .. 3
         /\ TokensOf(Form(BestForm(i))) \in 0 .. remaining
         /\ Form(BestForm(i)) \in Nat /\ Form(BestForm(i)) <= 4 * TokensOf(Form(BestForm(i))) + 3
         /\ TokensOf(Form(BestForm(i))) = 0 /\ entries[i].level > 0 => remaining = 0
<1>1. PICK fits : fits = {level \in 1 .. entries[i].level : TokensOf(Form(level)) <= remaining}
  OBVIOUS
<1>2. entries[i].level \in 0 .. 3 /\ remaining \in Nat
  <2>1. entries[i] \in [explicit : BOOLEAN, level : Fidelities]
    BY DEF LambdaTypeOK
  <2>2. entries[i].level \in 0 .. 3
    BY <2>1 DEF Fidelities
  <2>3. remaining \in Nat
    BY DEF LambdaTypeOK
  <2> QED BY <2>2, <2>3
<1>3. /\ Form(0) = 0 /\ Form(1) = 7 /\ Form(2) = 15 /\ Form(3) = 30
      /\ TokensOf(Form(0)) = 0 /\ TokensOf(Form(1)) = 1 /\ TokensOf(Form(2)) = 3 /\ TokensOf(Form(3)) = 7
  BY DEF Form, TokensOf
<1>4. CASE fits = {}
  <2>1. BestForm(i) = 0
    BY <1>1, <1>4, Zenon DEF BestForm
  <2>2. entries[i].level > 0 => remaining = 0
    <3>1. 1 \notin fits
      BY <1>4
    <3> QED BY <1>1, <1>2, <1>3, <3>1
  <2> QED BY <1>2, <1>3, <2>1, <2>2
<1>5. CASE fits # {}
  <2>1. \E level \in fits : \A other \in fits : other <= level
    <3>1. \A level \in fits : level \in {1, 2, 3}
      BY <1>1, <1>2
    <3> QED BY <1>5, <3>1
  <2>2. PICK best : best = CHOOSE level \in fits : \A other \in fits : other <= level
    OBVIOUS
  <2>3. best \in fits
    BY <2>1, <2>2, Zenon
  <2>4. BestForm(i) = best
    BY <1>1, <1>5, <2>2, Zenon DEF BestForm
  <2>5. best \in {1, 2, 3} /\ TokensOf(Form(best)) <= remaining
    BY <1>1, <1>2, <2>3
  <2> QED BY <1>2, <1>3, <2>4, <2>5
<1> QED BY <1>4, <1>5

LEMMA LambdaStep ==
  ASSUME LambdaInv, NEW i \in Ranks, Pack(i)
  PROVE  LambdaInv'
<1>1. LambdaTypeOK /\ LambdaRoom /\ LambdaOrder /\ LambdaLeft
  BY DEF LambdaInv
<1>2. PICK form : form = BestForm(i)
  OBVIOUS
<1>3. PICK cost : cost = TokensOf(Form(form))
  OBVIOUS
<1>4. PICK size : size = Form(form)
  OBVIOUS
<1>5. /\ cost \in 0 .. remaining /\ size \in Nat /\ size <= 4 * cost + 3
      /\ cost = 0 /\ entries[i].level > 0 => remaining = 0
  BY <1>1, <1>2, <1>3, <1>4, FormFits
<1>6. /\ entries' = entries /\ lambdaMax' = lambdaMax /\ passed' = passed \cup {i}
      /\ i \notin passed /\ \A j \in Ranks \ passed : i = j \/ Before(i, j)
  BY DEF Pack
<1>7. /\ cost > 0 => /\ packed' = packed \cup {i} /\ chars' = chars + size
                     /\ remaining' = remaining - cost
      /\ ~(cost > 0) => packed' = packed /\ chars' = chars /\ remaining' = remaining
  BY <1>2, <1>3, <1>4 DEF Pack
<1>8. /\ remaining \in 0 .. lambdaMax /\ lambdaMax \in Nat /\ chars \in Nat
      /\ packed \subseteq passed /\ passed \subseteq Ranks
  BY <1>1 DEF LambdaTypeOK
<1>9. LambdaTypeOK'
  <2>1. entries' \in [Ranks -> [explicit : BOOLEAN, level : Fidelities]]
    BY <1>1, <1>6 DEF LambdaTypeOK
  <2>2. remaining' \in 0 .. lambdaMax' /\ lambdaMax' \in Nat /\ chars' \in Nat
    BY <1>5, <1>6, <1>7, <1>8
  <2>3. packed' \subseteq passed' /\ passed' \subseteq Ranks
    BY <1>6, <1>7, <1>8
  <2> QED BY <2>1, <2>2, <2>3 DEF LambdaTypeOK
<1>10. LambdaRoom'
  <2>1. IsFiniteSet(packed) /\ Cardinality(packed) \in Nat
    <3>1. Candidates \in Nat
      BY LambdaAssumption DEF LambdaAssumption
    <3>2. IsFiniteSet(Ranks)
      BY <3>1, FS_Interval DEF Ranks
    <3> QED BY <1>8, <3>2, FS_Subset, FS_CardinalityType
  <2>2. CASE cost > 0
    <3>1. i \notin packed
      BY <1>6, <1>8
    <3>2. Cardinality(packed \cup {i}) = Cardinality(packed) + 1
      BY <2>1, <3>1, FS_AddElement
    <3>3. chars + 4 * remaining <= 4 * lambdaMax + 3 * (Cardinality(packed) + 2)
      BY <1>1, <1>5, <1>8, <2>2 DEF LambdaRoom
    <3>4. PICK n \in Nat : n = Cardinality(packed)
      BY <2>1
    <3>5. Cardinality(packed') = n + 1
      BY <1>7, <2>2, <3>2, <3>4
    <3>6. chars + size + 4 * (remaining - cost) <= 4 * lambdaMax + 3 * (n + 1 + 2)
      BY <1>5, <1>8, <3>3, <3>4
    <3> QED BY <1>6, <1>7, <2>2, <3>5, <3>6 DEF LambdaRoom
  <2>3. CASE ~(cost > 0)
    BY <1>1, <1>6, <1>7, <2>3 DEF LambdaRoom
  <2> QED BY <2>2, <2>3
<1>11. LambdaOrder'
  <2>1. \A j, k \in Ranks : /\ ~(Before(j, k) /\ Before(k, j))
                            /\ ~ Before(j, j)
    <3>1. \A j \in Ranks : j \in Int
      BY DEF Ranks
    <3>2. \A j \in Ranks : entries[j].explicit \in BOOLEAN
      BY <1>1 DEF LambdaTypeOK
    <3> QED BY <3>1, <3>2 DEF Before
  <2>2. \A j, k : Before(j, k)' <=> Before(j, k)
    BY <1>6, Zenon DEF Before
  <2>3. \A k \in Ranks : Before(k, i) => k \in passed
    BY <1>6, <2>1
  <2>4. \A j \in passed, k \in Ranks : Before(k, j) => k \in passed
    BY <1>1, Zenon DEF LambdaOrder
  <2>5. \A j \in passed \cup {i}, k \in Ranks : Before(k, j) => k \in passed \cup {i}
    BY <2>3, <2>4
  <2> QED BY <1>6, <2>2, <2>5, Zenon DEF LambdaOrder, Ranks
<1>12. LambdaLeft'
  <2>1. remaining = 0 => cost = 0
    BY <1>5
  <2>2. ASSUME NEW k \in passed' \ packed', entries'[k].level > 0 PROVE remaining' = 0
    <3>1. entries[k].level > 0
      BY <1>6, <2>2
    <3>2. CASE k = i
      BY <1>5, <1>7, <3>1, <3>2
    <3>3. CASE k # i
      <4>1. k \in passed \ packed
        BY <1>6, <1>7, <3>3
      <4>2. remaining = 0
        BY <1>1, <3>1, <4>1 DEF LambdaLeft
      <4> QED BY <1>5, <1>7, <2>1, <4>2
    <3> QED BY <3>2, <3>3
  <2> QED BY <2>2 DEF LambdaLeft
<1> QED BY <1>9, <1>10, <1>11, <1>12 DEF LambdaInv

LEMMA LambdaKept == LambdaInv /\ [LambdaNext]_lambdaVars => LambdaInv'
<1> SUFFICES ASSUME LambdaInv, [LambdaNext]_lambdaVars PROVE LambdaInv'
  OBVIOUS
<1>1. CASE LambdaNext
  BY <1>1, LambdaStep, Zenon DEF LambdaNext
<1>2. CASE UNCHANGED lambdaVars
  <2>1. /\ entries' = entries /\ lambdaMax' = lambdaMax /\ passed' = passed
        /\ packed' = packed /\ chars' = chars /\ remaining' = remaining
    BY <1>2 DEF lambdaVars
  <2>2. \A j, k : Before(j, k)' <=> Before(j, k)
    BY <2>1, Zenon DEF Before
  <2>3. LambdaTypeOK'
    BY <2>1 DEF LambdaInv, LambdaTypeOK
  <2>4. LambdaRoom' /\ LambdaLeft'
    BY <2>1 DEF LambdaInv, LambdaRoom, LambdaLeft
  <2>5. LambdaOrder'
    BY <2>1, <2>2, Zenon DEF LambdaInv, LambdaOrder, Ranks
  <2> QED BY <2>3, <2>4, <2>5 DEF LambdaInv
<1> QED BY <1>1, <1>2

(* The memory section overruns its tokens by no more than the roundings,   *)
(* and an explicit save is left out only when nothing fits any more.       *)
THEOREM LambdaSoundHolds == LambdaSpec => []LambdaSound
<1>1. LambdaInv => LambdaSound
  <2> SUFFICES ASSUME LambdaInv PROVE LambdaNearBudget /\ ExplicitFirst
    BY DEF LambdaSound
  <2>1. /\ remaining \in Nat /\ lambdaMax \in Nat /\ chars \in Nat
        /\ packed \subseteq passed /\ passed \subseteq Ranks
    BY DEF LambdaInv, LambdaTypeOK
  <2>2. LambdaNearBudget
    <3>1. 4 * TokensOf(chars) <= chars
      BY <2>1 DEF TokensOf
    <3>2. TokensOf(chars) \in Nat
      BY <2>1 DEF TokensOf
    <3>3. Cardinality(packed) \in Nat
      <4>1. Candidates \in Nat
        BY LambdaAssumption DEF LambdaAssumption
      <4>2. IsFiniteSet(Ranks)
        BY <4>1, FS_Interval DEF Ranks
      <4> QED BY <2>1, <4>2, FS_Subset, FS_CardinalityType
    <3>4. packed # {} => chars + 4 * remaining <= 4 * lambdaMax + 3 * (Cardinality(packed) + 2)
      BY DEF LambdaInv, LambdaRoom
    <3> QED BY <2>1, <3>1, <3>2, <3>3, <3>4 DEF LambdaNearBudget
  <2>3. ExplicitFirst
    <3> SUFFICES ASSUME NEW i \in Ranks, NEW j \in Ranks, entries[i].explicit, i \notin packed,
                        entries[i].level > 0, j \in packed, ~entries[j].explicit
                 PROVE  TokensOf(Form(1)) > remaining
      BY Zenon DEF ExplicitFirst
    <3>1. Before(i, j)
      BY DEF Before
    <3>2. i \in passed
      BY <2>1, <3>1 DEF LambdaInv, LambdaOrder
    <3>3. remaining = 0
      BY <3>2 DEF LambdaInv, LambdaLeft
    <3>4. TokensOf(Form(1)) = 1
      BY DEF TokensOf, Form
    <3> QED BY <3>3, <3>4
  <2> QED BY <2>2, <2>3
<1> QED BY <1>1, LambdaKept, LambdaStarts, PTL DEF LambdaSpec

-----------------------------------------------------------------------------
(* The history in a request, and a history that is pruned, for any length,  *)
(* window and budget.                                                      *)

(* Weights over a set are at least those over a part of it.                *)
LEMMA SumGrows ==
  ASSUME NEW S, NEW T, IsFiniteSet(T), S \subseteq T,
         NEW v \in [S -> Nat], NEW w \in [T -> Nat], \A x \in S : v[x] = w[x],
         NEW f, Sums(f, v, S), NEW g, Sums(g, w, T)
  PROVE  f[S] \in Nat /\ g[T] \in Nat /\ f[S] <= g[T]
<1>1. IsFiniteSet(S)
  BY FS_Subset
<1>2. /\ f[{}] = 0 /\ \A s \in SUBSET S : f[s] \in Nat
      /\ \A s \in SUBSET S : \A x \in s : f[s] = v[x] + f[s \ {x}]
  BY <1>1, SumOf
<1>3. /\ g[{}] = 0 /\ \A s \in SUBSET T : g[s] \in Nat
      /\ \A s \in SUBSET T : \A x \in s : g[s] = w[x] + g[s \ {x}]
  BY SumOf
<1>4. PICK B : B = {n \in Nat : \A t \in SUBSET T : Cardinality(t) = n =>
                                  \A s \in SUBSET (S \cap t) : f[s] <= g[t]}
  OBVIOUS
<1>5. PICK N \in Nat : N = Cardinality(T)
  BY FS_CardinalityType
<1>6. \A t \in SUBSET T : IsFiniteSet(t) /\ Cardinality(t) \in 0 .. N
  <2> TAKE t \in SUBSET T
  <2>1. IsFiniteSet(t) /\ Cardinality(t) <= N
    BY <1>5, FS_Subset
  <2> QED BY <1>5, <2>1, FS_CardinalityType
<1>7. 0 \in B
  <2>1. ASSUME NEW t \in SUBSET T, Cardinality(t) = 0, NEW s \in SUBSET (S \cap t)
        PROVE  f[s] <= g[t]
    <3>1. t = {}
      BY <1>6, <2>1, FS_EmptySet
    <3>2. s = {}
      BY <3>1
    <3> QED BY <1>2, <1>3, <3>1, <3>2
  <2> QED BY <1>4, <2>1
<1>8. ASSUME NEW n \in 0 .. N, n + 1 <= N /\ n \in B PROVE n + 1 \in B
  <2>1. ASSUME NEW t \in SUBSET T, Cardinality(t) = n + 1, NEW s \in SUBSET (S \cap t)
        PROVE  f[s] <= g[t]
    <3>1. t # {}
      BY <2>1, FS_EmptySet
    <3>2. PICK x \in t : TRUE
      BY <3>1
    <3>3. PICK u \in SUBSET T : u = t \ {x}
      OBVIOUS
    <3>4. Cardinality(u) = n
      <4>1. Cardinality(t \ {x}) = Cardinality(t) - 1
        BY <1>6, FS_RemoveElement
      <4> QED BY <2>1, <3>3, <4>1
    <3>5. \A r \in SUBSET (S \cap u) : f[r] <= g[u]
      BY <1>4, <1>8, <3>4
    <3>6. g[t] = w[x] + g[u] /\ w[x] \in Nat /\ g[u] \in Nat
      BY <1>3, <3>3
    <3>7. CASE x \in s
      <4>1. s \ {x} \in SUBSET (S \cap u) /\ s \in SUBSET S /\ s \ {x} \in SUBSET S /\ x \in S
        BY <3>3, <3>7
      <4>2. f[s \ {x}] <= g[u] /\ f[s \ {x}] \in Nat
        BY <1>2, <3>5, <4>1
      <4>3. f[s] = v[x] + f[s \ {x}] /\ v[x] = w[x]
        BY <1>2, <3>7, <4>1
      <4> QED BY <3>6, <4>2, <4>3
    <3>8. CASE x \notin s
      <4>1. s \in SUBSET (S \cap u) /\ s \in SUBSET S
        BY <3>3, <3>8
      <4>2. f[s] <= g[u] /\ f[s] \in Nat
        BY <1>2, <3>5, <4>1
      <4> QED BY <3>6, <4>2
    <3> QED BY <3>7, <3>8
  <2> QED BY <1>4, <1>8, <2>1
<1>9. N \in B
  BY <1>5, <1>7, <1>8, AllUpTo
<1>10. S \in SUBSET (S \cap T) /\ T \in SUBSET T
  OBVIOUS
<1> QED BY <1>2, <1>3, <1>4, <1>5, <1>9, <1>10

TokensSums(f, S) ==
  f = [s \in SUBSET S |-> IF s = {} THEN 0
         ELSE Tokens(CHOOSE x \in s : TRUE) + f[s \ {CHOOSE x \in s : TRUE}]]

LEMMA SizeIs ==
  ASSUME NEW S, IsFiniteSet(S), NEW E, E = [i \in S |-> Tokens(i)]
  PROVE  /\ E \in [S -> Nat]
         /\ \E f : Sums(f, E, S) /\ Size(S) = f[S]
<1>1. E \in [S -> Nat]
  BY DEF Tokens
<1>3. PICK f : Sums(f, E, S)
  BY <1>1, SumExists
<1>4. \A s \in SUBSET S : s # {} => E[CHOOSE x \in s : TRUE] = Tokens(CHOOSE x \in s : TRUE)
  <2>1. \A s \in SUBSET S : s # {} => (CHOOSE x \in s : TRUE) \in s
    OBVIOUS
  <2> QED BY <2>1
<1>5. \A s \in SUBSET S : f[s] = IF s = {} THEN 0
                   ELSE E[CHOOSE x \in s : TRUE] + f[s \ {CHOOSE x \in s : TRUE}]
  BY <1>3, Zenon DEF Sums
<1>6. \A s \in SUBSET S : f[s] = IF s = {} THEN 0
                   ELSE Tokens(CHOOSE x \in s : TRUE) + f[s \ {CHOOSE x \in s : TRUE}]
  BY <1>4, <1>5, Zenon
<1>7. f = [s \in SUBSET S |-> f[s]]
  BY <1>3, Zenon DEF Sums
<1>8. f = [s \in SUBSET S |-> IF s = {} THEN 0
                   ELSE Tokens(CHOOSE x \in s : TRUE) + f[s \ {CHOOSE x \in s : TRUE}]]
  BY <1>6, <1>7, Zenon
<1>9. PICK g : g = CHOOSE h : TokensSums(h, S)
  OBVIOUS
<1>10. TokensSums(g, S)
  <2>1. TokensSums(f, S)
    BY <1>8, Zenon DEF TokensSums
  <2> QED BY <1>9, <2>1, Zenon
<1>11. Size(S) = g[S]
  BY <1>9, Zenon DEF Size, MapThenSumSet, MapThenFoldSet, TokensSums
<1>12. Sums(g, E, S)
  <2>1. \A s \in SUBSET S : g[s] = IF s = {} THEN 0
                   ELSE Tokens(CHOOSE x \in s : TRUE) + g[s \ {CHOOSE x \in s : TRUE}]
    BY <1>10, Zenon DEF TokensSums
  <2>2. \A s \in SUBSET S : g[s] = IF s = {} THEN 0
                   ELSE E[CHOOSE x \in s : TRUE] + g[s \ {CHOOSE x \in s : TRUE}]
    BY <1>4, <2>1, Zenon
  <2>3. g = [s \in SUBSET S |-> g[s]]
    BY <1>10, Zenon DEF TokensSums
  <2>4. g = [s \in SUBSET S |-> IF s = {} THEN 0
                   ELSE E[CHOOSE x \in s : TRUE] + g[s \ {CHOOSE x \in s : TRUE}]]
    BY <2>2, <2>3, Zenon
  <2> QED BY <2>4, Zenon DEF Sums
<1> QED BY <1>1, <1>11, <1>12

LEMMA SizeGrows ==
  ASSUME NEW S, NEW T, IsFiniteSet(T), S \subseteq T
  PROVE  Size(S) \in Nat /\ Size(T) \in Nat /\ Size(S) <= Size(T)
<1>1. IsFiniteSet(S)
  BY FS_Subset
<1>2. PICK v : v = [i \in S |-> Tokens(i)]
  OBVIOUS
<1>3. PICK w : w = [i \in T |-> Tokens(i)]
  OBVIOUS
<1>4. v \in [S -> Nat] /\ \E f : Sums(f, v, S) /\ Size(S) = f[S]
  BY <1>1, <1>2, SizeIs
<1>5. w \in [T -> Nat] /\ \E f : Sums(f, w, T) /\ Size(T) = f[T]
  BY <1>3, SizeIs
<1>6. \A x \in S : v[x] = w[x]
  BY <1>2, <1>3
<1>7. PICK f : Sums(f, v, S) /\ Size(S) = f[S]
  BY <1>4
<1>8. PICK g : Sums(g, w, T) /\ Size(T) = g[T]
  BY <1>5
<1>9. f[S] \in Nat /\ g[T] \in Nat /\ f[S] <= g[T]
  BY <1>4, <1>5, <1>6, <1>7, <1>8, SumGrows
<1> QED BY <1>7, <1>8, <1>9

LEMMA SizeOfNone == Size({}) = 0
<1>1. PICK S : S = {}
  OBVIOUS
<1>2. IsFiniteSet(S)
  BY <1>1, FS_EmptySet
<1>3. PICK E : E = [i \in S |-> Tokens(i)]
  OBVIOUS
<1>4. E \in [S -> Nat] /\ \E f : Sums(f, E, S) /\ Size(S) = f[S]
  BY <1>2, <1>3, SizeIs
<1>5. PICK f : Sums(f, E, S) /\ Size(S) = f[S]
  BY <1>4
<1>6. f[{}] = 0
  BY <1>2, <1>4, <1>5, SumOf
<1> QED BY <1>1, <1>5, <1>6

(* A call is followed by its results, and results follow their call.       *)
RoundsWhole ==
  \A i \in 1 .. Len(history) : /\ history[i] = "results" => i > 1 /\ IsCall(i - 1)
                               /\ IsCall(i) /\ i < Len(history) => history[i + 1] = "results"
ContextInv == ContextTypeOK /\ RoundsWhole /\ RequestSound

LEMMA ContextStarts == ContextInit => ContextInv
<1> SUFFICES ASSUME ContextInit PROVE ContextInv
  OBVIOUS
<1>1. history = <<>> /\ request = NoRequest /\ pruned = NotPruned
  BY DEF ContextInit
<1>2. /\ request.older = {} /\ request.recent = {} /\ request.fixed = 0 /\ request.memory = 0
      /\ request.budget = 0 /\ pruned.kept = {}
  BY <1>1 DEF NoRequest, NotPruned
<1>3. ContextTypeOK
  <2>1. history \in Seq(Kinds)
    BY <1>1
  <2> QED BY <1>2, <2>1 DEF ContextTypeOK
<1>4. RoundsWhole
  BY <1>1 DEF RoundsWhole
<1>5. RequestSound
  BY <1>1, <1>2, SizeOfNone DEF RequestSound, RequestPaired, RequestFits, PrunedWhole, Paired
<1> QED BY <1>3, <1>4, <1>5 DEF ContextInv

LEMMA SizeOfNoneThen == (Size({}) = 0)'
BY SizeOfNone, PTL

LEMMA MessageKeeps ==
  ASSUME ContextInv, AddMessage
  PROVE  ContextInv'
<1>1. ContextTypeOK /\ RoundsWhole
  BY DEF ContextInv
<1>2. request = NoRequest /\ pruned = NotPruned /\ request' = request /\ pruned' = pruned
  BY DEF AddMessage
<1>3. /\ request'.older = {} /\ request'.recent = {} /\ request'.fixed = 0 /\ request'.memory = 0
      /\ request'.budget = 0 /\ pruned'.kept = {}
  BY <1>2 DEF NoRequest, NotPruned
<1>4. PICK kind \in Kinds : /\ history' = Append(history, kind)
                            /\ kind = "results" <=> history # <<>> /\ IsCall(Len(history))
  BY DEF AddMessage, Kinds
<1>5. PICK n \in Nat : n = Len(history)
  BY <1>1 DEF ContextTypeOK
<1>6. /\ history \in Seq(Kinds) /\ history' \in Seq(Kinds) /\ Len(history') = n + 1
      /\ history'[n + 1] = kind /\ \A i \in 1 .. n : history'[i] = history[i]
  BY <1>1, <1>4, <1>5, AppendProperties DEF ContextTypeOK
<1>7. history # <<>> <=> n > 0
  BY <1>5, <1>6
<1>8. ContextTypeOK'
  BY <1>3, <1>6 DEF ContextTypeOK
<1>9. \A i : IsCall(i)' <=> history'[i] \in {"call", "callWithText"}
  BY DEF IsCall
<1>10. RoundsWhole'
  <2>1. ASSUME NEW i \in 1 .. n + 1, history'[i] = "results" PROVE i > 1 /\ history'[i - 1] \in {"call", "callWithText"}
    <3>1. CASE i = n + 1
      <4>1. n > 0 /\ history[n] \in {"call", "callWithText"}
        BY <1>4, <1>5, <1>6, <1>7, <2>1, <3>1 DEF IsCall
      <4> QED BY <1>6, <3>1, <4>1
    <3>2. CASE i # n + 1
      <4>1. i \in 1 .. n /\ history[i] = "results"
        BY <1>6, <2>1, <3>2
      <4>2. i > 1 /\ IsCall(i - 1)
        BY <1>1, <1>5, <4>1 DEF RoundsWhole
      <4> QED BY <1>6, <4>1, <4>2 DEF IsCall
    <3> QED BY <3>1, <3>2
  <2>2. ASSUME NEW i \in 1 .. n + 1, history'[i] \in {"call", "callWithText"}, i < n + 1
        PROVE  history'[i + 1] = "results"
    <3>1. i \in 1 .. n /\ IsCall(i)
      BY <1>6, <2>2 DEF IsCall
    <3>2. CASE i = n
      BY <1>4, <1>5, <1>6, <1>7, <3>1, <3>2
    <3>3. CASE i # n
      <4>1. history[i + 1] = "results"
        BY <1>1, <1>5, <3>1, <3>3 DEF RoundsWhole
      <4> QED BY <1>6, <3>1, <3>3, <4>1
    <3> QED BY <3>2, <3>3
  <2> QED BY <1>6, <1>9, <2>1, <2>2 DEF RoundsWhole
<1>11. RequestSound'
  <2>1. Size({})' = 0
    BY SizeOfNoneThen
  <2>2. RequestPaired' /\ PrunedWhole'
    BY <1>2, <1>3 DEF RequestPaired, PrunedWhole, Paired
  <2>3. RequestFits'
    BY <1>3, <2>1 DEF RequestFits
  <2> QED BY <2>2, <2>3 DEF RequestSound
<1> QED BY <1>8, <1>10, <1>11 DEF ContextInv

(* A turn has its message, and is no more than that or a call with its     *)
(* results.                                                                *)
LEMMA TurnHas ==
  ASSUME ContextInv, NEW S \in SUBSET Idxs, NEW i \in S
  PROVE  /\ i \in TurnIn(S, i) /\ TurnIn(S, i) \subseteq S /\ S \subseteq 1 .. Len(history)
         /\ Min(TurnIn(S, i)) \in TurnIn(S, i) /\ Min(TurnIn(S, i)) \in Nat
         /\ \A j \in TurnIn(S, i) : Min(TurnIn(S, i)) <= j
<1>1. history \in Seq(Kinds) /\ Idxs = 1 .. Len(history)
  BY DEF ContextInv, ContextTypeOK, Idxs
<1>2. i \in 1 .. Len(history) /\ S \subseteq 1 .. Len(history) /\ Len(history) \in Nat
  BY <1>1
<1>3. history[i] = "results" => IsCall(i - 1)
  BY <1>2 DEF ContextInv, RoundsWhole
<1>4. PICK t : t = TurnIn(S, i)
  OBVIOUS
<1>5. PICK c : c = IF history[i] = "results" /\ i - 1 \in S THEN i - 1 ELSE i
  OBVIOUS
<1>6. t = IF IsCall(c) THEN {c, c + 1} \cap S ELSE {i}
  BY <1>4, <1>5 DEF TurnIn
<1>7. i \in t
  <2>1. CASE history[i] = "results" /\ i - 1 \in S
    BY <1>2, <1>3, <1>5, <1>6, <2>1
  <2>2. CASE ~(history[i] = "results" /\ i - 1 \in S)
    BY <1>2, <1>5, <1>6, <2>2
  <2> QED BY <2>1, <2>2
<1>8. t \subseteq S
  BY <1>6
<1>9. t \in SUBSET Nat /\ t # {}
  BY <1>2, <1>7, <1>8
<1>10. Min(t) \in t /\ \A k \in t : Min(t) <= k
  BY <1>9, SmallestIs
<1>11. Min(t) \in Nat
  BY <1>9, <1>10
<1> QED BY <1>2, <1>4, <1>7, <1>8, <1>10, <1>11, Zenon

(* The older messages fit into what is left for them.                      *)
LEMMA OlderFits ==
  ASSUME ContextInv, NEW maxTurns \in Nat, NEW budget \in Nat
  PROVE  /\ Size(Stripped(OlderPart(maxTurns, budget))) \in Nat
         /\ Size(Stripped(OlderPart(maxTurns, budget))) <= budget
         /\ Stripped(OlderPart(maxTurns, budget)) \subseteq 1 .. Less(Len(history), MaxRecent)
<1>1. PICK n \in Nat : n = Len(history)
  BY DEF ContextInv, ContextTypeOK
<1>2. PICK end : end = Less(Len(history), MaxRecent)
  OBVIOUS
<1>3. end \in 0 .. n
  <2>1. MaxRecent \in Nat
    BY ContextAssumption DEF ContextAssumption
  <2> QED BY <1>1, <1>2, <2>1 DEF Less
<1>4. PICK older : older = {i \in 1 .. end : maxTurns > 0 /\ end > 2 * maxTurns => i > end - 2 * maxTurns}
  OBVIOUS
<1>5. PICK K : K = {i \in older : Size({j \in older : j >= Min(TurnIn(older, i))}) <= budget}
  OBVIOUS
<1>6. OlderPart(maxTurns, budget) = K
  BY <1>2, <1>4, <1>5, Zenon DEF OlderPart
<1>7. older \in SUBSET Idxs /\ older \subseteq 1 .. end /\ IsFiniteSet(older)
  <2>1. older \subseteq 1 .. end
    BY <1>4
  <2>2. Idxs = 1 .. n
    BY <1>1 DEF ContextInv, ContextTypeOK, Idxs
  <2>3. IsFiniteSet(1 .. end)
    BY <1>3, FS_Interval
  <2>4. IsFiniteSet(older)
    BY <2>1, <2>3, FS_Subset
  <2>5. older \subseteq Idxs
    BY <1>3, <2>1, <2>2
  <2> QED BY <2>1, <2>4, <2>5
<1>8. PICK out : out = Stripped(K)
  OBVIOUS
<1>9. out \subseteq K /\ K \subseteq older
  BY <1>5, <1>8 DEF Stripped
<1>10. IsFiniteSet(out) /\ Size(out) \in Nat
  <2>1. out \subseteq older
    BY <1>9
  <2> QED BY <1>7, <2>1, SizeGrows, FS_Subset
<1>11. Size(out) <= budget
  <2>1. CASE K = {}
    <3>1. out = {}
      BY <1>9, <2>1
    <3> QED BY <3>1, SizeOfNone
  <2>2. CASE K # {}
    <3>0. PICK first : first = [i \in K |-> Min(TurnIn(older, i))]
      OBVIOUS
    <3>1. PICK M : M = {m \in Nat : \E i \in K : m = first[i]}
      OBVIOUS
    <3>2. \A i \in K : first[i] \in Nat /\ first[i] <= i
      <4>1. ASSUME NEW i \in K
            PROVE  Min(TurnIn(older, i)) \in Nat /\ Min(TurnIn(older, i)) <= i
        <5>1. i \in older
          BY <1>9
        <5> QED BY <1>7, <5>1, TurnHas
      <4> QED BY <3>0, <4>1
    <3>3. M \in SUBSET Nat /\ M # {}
      BY <2>2, <3>1, <3>2
    <3>4. PICK m \in M : \A k \in M : m <= k
      BY <3>3, LeastThere
    <3>5. PICK i \in K : m = first[i] /\ m = Min(TurnIn(older, i))
      BY <3>0, <3>1, <3>4
    <3>6. PICK R : R = {j \in older : j >= m}
      OBVIOUS
    <3>7. Size(R) <= budget
      BY <1>5, <3>5, <3>6, Zenon
    <3>8. K \subseteq R
      <4> SUFFICES ASSUME NEW j \in K PROVE j \in R
        OBVIOUS
      <4>1. PICK k : k = first[j]
        OBVIOUS
      <4>2. k \in Nat /\ k <= j /\ k \in M
        BY <3>1, <3>2, <4>1
      <4>3. m <= k /\ m \in Nat
        BY <3>3, <3>4, <4>2
      <4>4. j \in older /\ j \in Nat
        BY <1>3, <1>7, <1>9
      <4>5. j >= m
        BY <4>2, <4>3, <4>4
      <4> QED BY <3>6, <4>4, <4>5
    <3>9. IsFiniteSet(R) /\ out \subseteq R
      <4>1. R \subseteq older
        BY <3>6
      <4> QED BY <1>7, <1>9, <3>8, <4>1, FS_Subset
    <3>10. Size(out) <= Size(R) /\ Size(R) \in Nat
      BY <3>9, SizeGrows
    <3> QED BY <1>10, <3>7, <3>10
  <2> QED BY <2>1, <2>2
<1>12. out \subseteq 1 .. end
  BY <1>7, <1>9
<1> QED BY <1>2, <1>6, <1>8, <1>10, <1>11, <1>12, Zenon

LEMMA RecentWhole ==
  ASSUME ContextInv, Quiet, NEW last, last = {i \in Idxs : i > Less(Len(history), MaxRecent)}
  PROVE  /\ Paired(RecentPart) /\ RecentPart \subseteq last /\ IsFiniteSet(last)
         /\ last \subseteq Idxs /\ \A i \in last : ~(i \in 1 .. Less(Len(history), MaxRecent))
<1>1. PICK n \in Nat : n = Len(history)
  BY DEF ContextInv, ContextTypeOK
<1>2. PICK L \in Nat : L = Less(Len(history), MaxRecent)
  <2>1. MaxRecent \in Nat
    BY ContextAssumption DEF ContextAssumption
  <2>2. \A a, b \in Nat : Less(a, b) \in Nat
    BY DEF Less
  <2> QED BY <1>1, <2>1, <2>2
<1>3. Idxs = 1 .. n
  BY <1>1 DEF ContextInv, ContextTypeOK, Idxs
<1>4. last = {i \in 1 .. n : i > L}
  BY <1>2, <1>3
<1>5. RecentPart = {i \in last : history[i] = "results" => i - 1 \in last}
  BY DEF RecentPart
<1>6. \A i \in 1 .. n : /\ history[i] = "results" => i > 1 /\ IsCall(i - 1)
                        /\ IsCall(i) /\ i < n => history[i + 1] = "results"
  BY <1>1 DEF ContextInv, RoundsWhole
<1>7. ~IsCall(n)
  BY <1>1 DEF Quiet
<1>8. ASSUME NEW i \in RecentPart, IsCall(i) PROVE i + 1 \in RecentPart
  <2>1. i \in 1 .. n /\ i > L /\ i \in last
    BY <1>4, <1>5
  <2>2. i # n
    BY <1>7, <1>8
  <2>3. i < n /\ history[i + 1] = "results"
    BY <1>6, <1>8, <2>1, <2>2
  <2>4. i + 1 \in last /\ i + 1 - 1 = i
    BY <1>4, <2>1, <2>3
  <2> QED BY <1>5, <2>1, <2>4
<1>9. ASSUME NEW i \in RecentPart, history[i] = "results" PROVE i - 1 \in RecentPart
  <2>1. i - 1 \in last /\ i \in 1 .. n
    BY <1>4, <1>5, <1>9
  <2>2. history[i - 1] # "results"
    BY <1>6, <1>9, <2>1 DEF IsCall
  <2> QED BY <1>5, <2>1, <2>2
<1>10. Paired(RecentPart)
  BY <1>8, <1>9 DEF Paired
<1>11. IsFiniteSet(last)
  <2>1. last \subseteq 1 .. n
    BY <1>4
  <2>2. IsFiniteSet(1 .. n)
    BY FS_Interval
  <2> QED BY <2>1, <2>2, FS_Subset
<1>12. \A i \in last : ~(i \in 1 .. L)
  BY <1>4
<1> QED BY <1>2, <1>3, <1>4, <1>5, <1>10, <1>11, <1>12

LEMMA BuildKeeps ==
  ASSUME ContextInv, NEW maxTurns \in Nat, NEW budget \in Nat, NEW fixed \in Nat, NEW memory \in Nat,
         Build(maxTurns, budget, fixed, memory)
  PROVE  ContextInv'
<1>1. PICK last : last = {i \in Idxs : i > Less(Len(history), MaxRecent)}
  OBVIOUS
<1>2. PICK left : left = Less(budget, fixed + Size(last))
  OBVIOUS
<1>3. PICK older : older = Stripped(OlderPart(maxTurns, Less(left, memory)))
  OBVIOUS
<1>4. PICK recent : recent = RecentPart
  OBVIOUS
<1>5. /\ Quiet /\ memory <= left /\ history' = history /\ pruned' = pruned
      /\ request' = [older |-> older, recent |-> recent, fixed |-> fixed, memory |-> memory, budget |-> budget]
  BY <1>1, <1>2, <1>3, <1>4 DEF Build
<1>6. /\ Paired(recent) /\ recent \subseteq last /\ IsFiniteSet(last) /\ last \subseteq Idxs
      /\ \A i \in last : ~(i \in 1 .. Less(Len(history), MaxRecent))
  BY <1>1, <1>4, <1>5, RecentWhole
<1>7. Size(recent) \in Nat /\ Size(last) \in Nat /\ Size(recent) <= Size(last)
  BY <1>6, SizeGrows
<1>8. left \in Nat /\ Less(left, memory) \in Nat
  BY <1>2, <1>7 DEF Less
<1>9. /\ Size(older) \in Nat /\ Size(older) <= Less(left, memory)
      /\ older \subseteq 1 .. Less(Len(history), MaxRecent)
  BY <1>3, <1>8, OlderFits
<1>10. /\ request'.older = older /\ request'.recent = recent /\ request'.fixed = fixed
       /\ request'.memory = memory /\ request'.budget = budget
  BY <1>5
<1>11. ContextTypeOK'
  <2>1. older \subseteq Idxs
    <3>1. PICK n \in Nat : n = Len(history)
      BY DEF ContextInv, ContextTypeOK
    <3>2. MaxRecent \in Nat
      BY ContextAssumption DEF ContextAssumption
    <3>3. Less(Len(history), MaxRecent) \in 0 .. n
      BY <3>1, <3>2 DEF Less
    <3>4. Idxs = 1 .. n
      BY <3>1 DEF ContextInv, ContextTypeOK, Idxs
    <3> QED BY <1>9, <3>3, <3>4
  <2>2. older \cap recent = {}
    BY <1>6, <1>9
  <2>3. history \in Seq(Kinds) /\ pruned.kept \subseteq Idxs /\ recent \subseteq Idxs
    BY <1>6 DEF ContextInv, ContextTypeOK
  <2>4. Idxs' = Idxs
    BY <1>5 DEF Idxs
  <2> QED BY <1>5, <1>10, <2>1, <2>2, <2>3, <2>4 DEF ContextTypeOK
<1>12. \A i : IsCall(i)' <=> IsCall(i)
  BY <1>5 DEF IsCall
<1>13. \A S : Paired(S)' <=> Paired(S)
  BY <1>5, <1>12, Zenon DEF Paired
<1>14. \A S : Size(S)' = Size(S)
  BY <1>5, Zenon DEF Size, Tokens, MapThenSumSet, MapThenFoldSet
<1>15. RoundsWhole'
  BY <1>5, <1>12, Zenon DEF ContextInv, RoundsWhole
<1>16. RequestPaired'
  BY <1>6, <1>10, <1>13, Zenon DEF RequestPaired
<1>17. RequestFits'
  <2>1. fixed + Size(recent) <= budget => fixed + Size(recent) + memory + Size(older) <= budget
    <3>1. CASE fixed + Size(last) <= budget
      <4>1. left = budget - (fixed + Size(last))
        BY <1>2, <1>7, <3>1 DEF Less
      <4>2. Less(left, memory) = left - memory
        BY <1>5, <1>8 DEF Less
      <4> QED BY <1>7, <1>8, <1>9, <4>1, <4>2
    <3>2. CASE ~(fixed + Size(last) <= budget)
      <4>1. left = 0
        BY <1>2, <1>7, <3>2 DEF Less
      <4>2. memory = 0
        BY <1>5, <4>1
      <4>3. Less(left, memory) = 0
        BY <4>1, <4>2 DEF Less
      <4> QED BY <1>7, <1>9, <4>2, <4>3
    <3> QED BY <3>1, <3>2
  <2>2. Size(request.recent)' = Size(recent) /\ Size(request.older)' = Size(older)
    BY <1>10, <1>14, Zenon
  <2> QED BY <1>10, <2>1, <2>2 DEF RequestFits
<1>18. PrunedWhole'
  <2>1. PrunedWhole
    BY DEF ContextInv, RequestSound
  <2> QED BY <1>5, <1>13, <2>1, Zenon DEF PrunedWhole, NotPruned
<1> QED BY <1>11, <1>15, <1>16, <1>17, <1>18 DEF ContextInv, RequestSound

(* What a turn holds of a round it holds whole.                            *)
LEMMA TurnWhole ==
  ASSUME ContextInv, Quiet, NEW i \in Idxs, NEW t, t = TurnIn(Idxs, i)
  PROVE  /\ \A j \in t : IsCall(j) => j + 1 \in t
         /\ \A j \in t : history[j] = "results" => j - 1 \in t
<1>1. PICK n \in Nat : n = Len(history)
  BY DEF ContextInv, ContextTypeOK
<1>2. Idxs = 1 .. n
  BY <1>1 DEF ContextInv, ContextTypeOK, Idxs
<1>3. \A k \in 1 .. n : /\ history[k] = "results" => k > 1 /\ IsCall(k - 1)
                        /\ IsCall(k) /\ k < n => history[k + 1] = "results"
  BY <1>1 DEF ContextInv, RoundsWhole
<1>4. ~IsCall(n)
  BY <1>1 DEF Quiet
<1>5. \A k : ~(IsCall(k) /\ history[k] = "results")
  BY DEF IsCall
<1>6. CASE history[i] = "results"
  <2>1. i - 1 \in Idxs /\ IsCall(i - 1) /\ i - 1 + 1 = i
    BY <1>2, <1>3, <1>6
  <2>2. t = {i - 1, i}
    BY <1>2, <1>6, <2>1 DEF TurnIn
  <2> QED BY <1>5, <1>6, <2>1, <2>2
<1>7. CASE history[i] # "results" /\ IsCall(i)
  <2>1. i # n /\ i \in 1 .. n
    BY <1>2, <1>4, <1>7
  <2>2. history[i + 1] = "results" /\ i + 1 \in Idxs /\ i + 1 - 1 = i
    BY <1>2, <1>3, <1>7, <2>1
  <2>3. t = {i, i + 1}
    BY <1>7, <2>2 DEF TurnIn
  <2>4. \A j \in t : IsCall(j) => j + 1 \in t
    BY <1>5, <2>2, <2>3
  <2>5. ASSUME NEW j \in t, history[j] = "results" PROVE j - 1 \in t
    <3>1. j = i + 1
      BY <1>7, <2>3, <2>5, Zenon
    <3>2. j - 1 = i
      BY <1>2, <3>1
    <3>3. i \in t
      BY <2>3
    <3> QED BY <3>2, <3>3
  <2> QED BY <2>4, <2>5
<1>8. CASE history[i] # "results" /\ ~IsCall(i)
  <2>1. t = {i}
    BY <1>8 DEF TurnIn
  <2> QED BY <1>8, <2>1
<1> QED BY <1>6, <1>7, <1>8

(* The least important turn that stays, of those the one that begins first. *)
LEMMA FirstToGo ==
  ASSUME NEW stay, stay # {}, NEW g \in [stay -> Nat], NEW m \in [stay -> Nat]
  PROVE  \E u \in stay : \A t \in stay : ~(g[t] < g[u] \/ (g[t] = g[u] /\ m[t] < m[u]))
<1>1. PICK G : G = {x \in Nat : \E t \in stay : x = g[t]}
  OBVIOUS
<1>2. G \in SUBSET Nat /\ G # {}
  BY <1>1
<1>3. PICK x \in G : \A y \in G : x <= y
  BY <1>2, LeastThere
<1>4. PICK M : M = {y \in Nat : \E t \in stay : g[t] = x /\ y = m[t]}
  OBVIOUS
<1>5. M \in SUBSET Nat /\ M # {}
  <2>1. PICK t \in stay : x = g[t]
    BY <1>1, <1>3
  <2>2. m[t] \in M
    BY <1>4, <2>1
  <2> QED BY <1>4, <2>2
<1>6. PICK y \in M : \A z \in M : y <= z
  BY <1>5, LeastThere
<1>7. PICK u \in stay : g[u] = x /\ y = m[u]
  BY <1>4, <1>6
<1>8. ASSUME NEW t \in stay
      PROVE  ~(g[t] < g[u] \/ (g[t] = g[u] /\ m[t] < m[u]))
  <2>1. x <= g[t] /\ x \in Nat /\ g[t] \in Nat
    BY <1>1, <1>2, <1>3
  <2>2. g[t] = x => m[t] \in M
    BY <1>4
  <2>3. g[t] = x => y <= m[t]
    BY <1>6, <2>2
  <2>4. y \in Nat /\ m[t] \in Nat
    BY <1>5
  <2> QED BY <1>7, <2>1, <2>3, <2>4
<1> QED BY <1>8

LEMMA PruneKeeps ==
  ASSUME ContextInv, NEW max \in Nat, max > 0, NEW importance \in [Idxs -> BaseScores], Prune(max, importance)
  PROVE  ContextInv'
<1>1. PICK n \in Nat : n = Len(history)
  BY DEF ContextInv, ContextTypeOK
<1>2. Idxs = 1 .. n
  BY <1>1 DEF ContextInv, ContextTypeOK, Idxs
<1>3. PICK turns : turns = {TurnIn(Idxs, i) : i \in Idxs}
  OBVIOUS
<1>4. PICK before : before = [u \in turns |-> UNION {t \in turns : DroppedBefore(importance, t, u)}]
  OBVIOUS
<1>5. PICK D : D = Less(Len(history), max)
  OBVIOUS
<1>6. PICK gone : gone = {u \in turns : Cardinality(before[u]) < D}
  OBVIOUS
<1>7. PICK dropped : dropped = UNION gone
  OBVIOUS
<1>8. /\ Quiet /\ history' = history /\ request' = request
      /\ pruned' = [kept |-> Idxs \ dropped, max |-> max]
  <2>1. \A u \in turns : before[u] = UNION {t \in turns : DroppedBefore(importance, t, u)}
    BY <1>4
  <2>2. dropped = UNION {u \in turns : Cardinality(UNION {t \in turns : DroppedBefore(importance, t, u)}) < Less(Len(history), max)}
    BY <1>5, <1>6, <1>7, <2>1
  <2>3. Quiet /\ history' = history /\ request' = request
    BY DEF Prune
  <2>4. pruned' = [kept |-> Idxs \ dropped, max |-> max]
    BY <1>3, <2>2, Zenon DEF Prune
  <2> QED BY <2>3, <2>4
<1>9. /\ \A i \in Idxs : /\ TurnIn(Idxs, i) \in turns /\ i \in TurnIn(Idxs, i)
      /\ \A t \in turns : t \subseteq Idxs /\ Min(t) \in Nat
      /\ \A t \in turns : t # {}
  <2>1. \A i \in Idxs : /\ i \in TurnIn(Idxs, i) /\ TurnIn(Idxs, i) \subseteq Idxs
                        /\ Min(TurnIn(Idxs, i)) \in Nat
    BY TurnHas
  <2> QED BY <1>3, <2>1
<1>10. ASSUME NEW t \in turns
       PROVE  /\ \A j \in t : IsCall(j) => j + 1 \in t
              /\ \A j \in t : history[j] = "results" => j - 1 \in t
  <2>1. PICK i \in Idxs : t = TurnIn(Idxs, i)
    BY <1>3
  <2> QED BY <1>8, <2>1, TurnWhole
<1>11. PICK kept : kept = Idxs \ dropped
  OBVIOUS
<1>12. Paired(kept)
  <2>1. \A k \in 1 .. n : /\ history[k] = "results" => k > 1 /\ IsCall(k - 1)
                          /\ IsCall(k) /\ k < n => history[k + 1] = "results"
    BY <1>1 DEF ContextInv, RoundsWhole
  <2>2. ~IsCall(n)
    BY <1>1, <1>8 DEF Quiet
  <2>3. ASSUME NEW i \in kept, IsCall(i) PROVE i + 1 \in kept
    <3>1. i \in 1 .. n /\ i # n
      BY <1>2, <1>11, <2>2, <2>3
    <3>2. i + 1 \in Idxs /\ history[i + 1] = "results" /\ i + 1 - 1 = i
      BY <1>2, <2>1, <2>3, <3>1
    <3>3. ASSUME i + 1 \in dropped PROVE FALSE
      <4>1. PICK t \in gone : i + 1 \in t
        BY <1>7, <3>3
      <4>2. t \in turns
        BY <1>6, <4>1
      <4>3. \A j \in t : history[j] = "results" => j - 1 \in t
        BY <1>10, <4>2
      <4>4. PICK j \in t : j = i + 1
        BY <4>1
      <4>5. j - 1 \in t
        BY <3>2, <4>3, <4>4, Zenon
      <4>6. j - 1 = i
        BY <3>1, <4>4
      <4>7. i \in t
        BY <4>5, <4>6, Zenon
      <4> QED BY <1>7, <1>11, <4>1, <4>7
    <3> QED BY <1>11, <3>2, <3>3
  <2>4. ASSUME NEW i \in kept, history[i] = "results" PROVE i - 1 \in kept
    <3>1. i - 1 \in Idxs /\ IsCall(i - 1) /\ i - 1 + 1 = i
      BY <1>2, <1>11, <2>1, <2>4
    <3>2. ASSUME i - 1 \in dropped PROVE FALSE
      <4>1. PICK t \in gone : i - 1 \in t
        BY <1>7, <3>2
      <4>2. i \in t
        BY <1>6, <1>10, <3>1, <4>1
      <4> QED BY <1>7, <1>11, <4>1, <4>2
    <3> QED BY <1>11, <3>1, <3>2
  <2> QED BY <2>3, <2>4 DEF Paired
<1>13. /\ IsFiniteSet(Idxs) /\ Cardinality(Idxs) = n /\ dropped \subseteq Idxs
       /\ IsFiniteSet(dropped) /\ Cardinality(dropped) \in Nat
       /\ Cardinality(kept) = n - Cardinality(dropped)
  <2>1. IsFiniteSet(Idxs) /\ Cardinality(Idxs) = n
    BY <1>2, FS_Interval
  <2>2. dropped \subseteq Idxs
    BY <1>6, <1>7, <1>9
  <2>3. IsFiniteSet(dropped)
    BY <2>1, <2>2, FS_Subset
  <2>4. Idxs \cap dropped = dropped
    BY <2>2
  <2>5. Cardinality(Idxs \ dropped) = Cardinality(Idxs) - Cardinality(Idxs \cap dropped)
    BY <2>1, FS_Difference
  <2> QED BY <1>11, <2>1, <2>2, <2>3, <2>4, <2>5, FS_CardinalityType
<1>14. Cardinality(kept) <= max
  <2>1. CASE n <= max
    BY <1>13, <2>1
  <2>2. CASE n > max
    <3>1. D = n - max /\ D <= n
      BY <1>1, <1>5, <2>2 DEF Less
    <3>2. ASSUME Cardinality(dropped) < D PROVE FALSE
      <4>1. PICK stay : stay = turns \ gone
        OBVIOUS
      <4>2. stay # {}
        <5>1. ASSUME stay = {} PROVE FALSE
          <6>1. gone = turns
            BY <1>6, <4>1, <5>1
          <6>2. Idxs \subseteq dropped
            BY <1>7, <1>9, <6>1
          <6>3. dropped = Idxs
            BY <1>13, <6>2
          <6>4. Cardinality(dropped) = n
            BY <1>13, <6>3
          <6> QED BY <1>1, <3>1, <3>2, <6>4
        <5> QED BY <5>1
      <4>3. PICK g : g = [t \in stay |-> TurnScore(importance, t)]
        OBVIOUS
      <4>4. PICK m : m = [t \in stay |-> Min(t)]
        OBVIOUS
      <4>5. g \in [stay -> Nat] /\ m \in [stay -> Nat]
        <5>1. \A t \in stay : Min(t) \in Nat
          BY <1>9, <4>1
        <5>2. ASSUME NEW t \in stay PROVE TurnScore(importance, t) \in Nat
          <6>1. PICK T : T = {Score(importance, i) : i \in t}
            OBVIOUS
          <6>2. t \subseteq Idxs /\ t # {}
            BY <1>9, <4>1
          <6>3. \A i \in Idxs : Score(importance, i) \in 1 .. 13
            BY DEF Score, BaseScores
          <6>4. T \in SUBSET (1 .. 13) /\ T # {}
            BY <6>1, <6>2, <6>3
          <6>5. Max(T) \in T
            BY <6>4, LargestIs
          <6>6. TurnScore(importance, t) = Max(T)
            BY <6>1, Zenon DEF TurnScore
          <6>7. \A k \in T : k \in Nat
            BY <6>4
          <6> QED BY <6>5, <6>6, <6>7, Zenon
        <5> QED BY <4>3, <4>4, <5>1, <5>2
      <4>6. PICK u \in stay : \A t \in stay : ~(g[t] < g[u] \/ (g[t] = g[u] /\ m[t] < m[u]))
        BY <4>2, <4>5, FirstToGo
      <4>7. u \in turns /\ u \notin gone
        BY <4>1
      <4>8. before[u] \subseteq dropped
        <5>1. ASSUME NEW t \in turns, DroppedBefore(importance, t, u) PROVE t \in gone
          <6>1. ASSUME t \notin gone PROVE FALSE
            <7>1. t \in stay
              BY <4>1, <6>1
            <7>2. /\ g[t] = TurnScore(importance, t) /\ g[u] = TurnScore(importance, u)
                  /\ m[t] = Min(t) /\ m[u] = Min(u)
              BY <4>3, <4>4, <7>1
            <7>3. g[t] < g[u] \/ (g[t] = g[u] /\ m[t] < m[u])
              BY <5>1, <7>2, Zenon DEF DroppedBefore
            <7> QED BY <4>6, <7>1, <7>3, Zenon
          <6> QED BY <6>1
        <5>2. before[u] = UNION {t \in turns : DroppedBefore(importance, t, u)}
          BY <1>4, <4>7
        <5> QED BY <1>7, <5>1, <5>2
      <4>9. Cardinality(before[u]) <= Cardinality(dropped) /\ Cardinality(before[u]) \in Nat
        BY <1>13, <4>8, FS_Subset, FS_CardinalityType
      <4>10. Cardinality(before[u]) < D
        BY <1>1, <1>13, <3>1, <3>2, <4>9
      <4> QED BY <1>6, <4>7, <4>10
    <3>3. Cardinality(dropped) >= D
      BY <1>13, <3>1, <3>2
    <3> QED BY <1>13, <2>2, <3>1, <3>3
  <2> QED BY <2>1, <2>2
<1>15. pruned'.kept = kept /\ pruned'.max = max
  BY <1>8, <1>11
<1>16. \A i : IsCall(i)' <=> IsCall(i)
  BY <1>8 DEF IsCall
<1>17. \A S : Paired(S)' <=> Paired(S)
  BY <1>8, <1>16, Zenon DEF Paired
<1>18. \A S : Size(S)' = Size(S)
  BY <1>8, Zenon DEF Size, Tokens, MapThenSumSet, MapThenFoldSet
<1>19. ContextTypeOK'
  <2>1. kept \subseteq Idxs
    BY <1>11
  <2>2. ContextTypeOK
    BY DEF ContextInv
  <2>3. Idxs' = Idxs
    BY <1>8 DEF Idxs
  <2> QED BY <1>8, <1>15, <2>1, <2>2, <2>3 DEF ContextTypeOK
<1>20. RoundsWhole'
  BY <1>8, <1>16, Zenon DEF ContextInv, RoundsWhole
<1>21. RequestPaired'
  BY <1>8, <1>17, Zenon DEF ContextInv, RequestSound, RequestPaired
<1>22. RequestFits'
  <2>1. RequestFits
    BY DEF ContextInv, RequestSound
  <2>2. Size(request.recent)' = Size(request.recent) /\ Size(request.older)' = Size(request.older)
    BY <1>8, <1>18, Zenon
  <2> QED BY <1>8, <2>1, <2>2, Zenon DEF RequestFits
<1>23. PrunedWhole'
  <2>1. Paired(pruned.kept)'
    BY <1>8, <1>12, <1>15, <1>16, Zenon DEF Paired
  <2> QED BY <1>14, <1>15, <2>1 DEF PrunedWhole
<1> QED BY <1>19, <1>20, <1>21, <1>22, <1>23 DEF ContextInv, RequestSound

LEMMA ContextKept == ContextInv /\ [ContextNext]_contextVars => ContextInv'
<1> SUFFICES ASSUME ContextInv, [ContextNext]_contextVars PROVE ContextInv'
  OBVIOUS
<1>1. CASE AddMessage
  BY <1>1, MessageKeeps
<1>2. ASSUME NEW maxTurns \in 0 .. 1, NEW budget \in 0 .. MaxBudget, NEW fixed \in 0 .. 1, NEW memory \in 0 .. 1,
             Build(maxTurns, budget, fixed, memory)
      PROVE  ContextInv'
  <2>1. maxTurns \in Nat /\ budget \in Nat /\ fixed \in Nat /\ memory \in Nat
    OBVIOUS
  <2> QED BY <1>2, <2>1, BuildKeeps
<1>3. ASSUME NEW max \in 1 .. MaxHistory, NEW importance \in [Idxs -> BaseScores], Prune(max, importance)
      PROVE  ContextInv'
  <2>1. max \in Nat /\ max > 0
    OBVIOUS
  <2> QED BY <1>3, <2>1, PruneKeeps
<1>4. CASE UNCHANGED contextVars
  <2>1. history' = history /\ request' = request /\ pruned' = pruned
    BY <1>4 DEF contextVars
  <2>2. \A i : IsCall(i)' <=> IsCall(i)
    BY <2>1 DEF IsCall
  <2>3. ContextTypeOK'
    BY <2>1 DEF ContextInv, ContextTypeOK, Idxs
  <2>4. RoundsWhole'
    BY <2>1, <2>2, Zenon DEF ContextInv, RoundsWhole
  <2>5. RequestPaired'
    BY <2>1, <2>2, Zenon DEF ContextInv, RequestSound, RequestPaired, Paired
  <2>6. PrunedWhole'
    BY <2>1, <2>2, Zenon DEF ContextInv, RequestSound, PrunedWhole, Paired, NotPruned
  <2>7. RequestFits'
    <3>1. \A S : Size(S)' = Size(S)
      BY <2>1, Zenon DEF Size, Tokens, MapThenSumSet, MapThenFoldSet
    <3>2. Size(request.recent)' = Size(request.recent) /\ Size(request.older)' = Size(request.older)
      BY <2>1, <3>1, Zenon
    <3> QED BY <2>1, <3>2, Zenon DEF ContextInv, RequestSound, RequestFits
  <2> QED BY <2>3, <2>4, <2>5, <2>6, <2>7 DEF ContextInv, RequestSound
<1> QED BY <1>1, <1>2, <1>3, <1>4 DEF ContextNext

(* A request has calls of tools and their results in pairs and keeps to    *)
(* its budget as far as it can, and pruning by importance leaves pairs and *)
(* no more than it may.                                                    *)
THEOREM RequestSoundHolds == ContextSpec => []RequestSound
<1>1. ContextInv => RequestSound
  BY DEF ContextInv
<1> QED BY <1>1, ContextKept, ContextStarts, PTL DEF ContextSpec

-----------------------------------------------------------------------------
(* Requests: sequences that are filtered, for any history and any ids.     *)

(* t has the elements of S among the first n of s; e tells from where.     *)
Embeds(e, t, s, S, n) ==
  /\ e \in [1 .. Len(t) -> 1 .. n]
  /\ \A i \in 1 .. Len(t) : t[i] = s[e[i]] /\ s[e[i]] \in S
  /\ \A i, j \in 1 .. Len(t) : i < j => e[i] < e[j]
  /\ \A m \in 1 .. n : s[m] \in S => \E i \in 1 .. Len(t) : e[i] = m

LEMMA EmbedsMore ==
  ASSUME NEW X, NEW s, NEW S, NEW n \in Nat, NEW t \in Seq(X), NEW a \in X, NEW e, Embeds(e, t, s, S, n),
         s[n + 1] = a, a \in S
  PROVE  \E g : Embeds(g, Append(t, a), s, S, n + 1)
<1>1. PICK L \in Nat : L = Len(t)
  OBVIOUS
<1>2. PICK u : u = Append(t, a)
  OBVIOUS
<1>3. Len(u) = L + 1 /\ u[L + 1] = a /\ \A i \in 1 .. L : u[i] = t[i]
  BY <1>1, <1>2
<1>4. /\ e \in [1 .. L -> 1 .. n]
      /\ \A i \in 1 .. L : t[i] = s[e[i]] /\ s[e[i]] \in S
      /\ \A i, j \in 1 .. L : i < j => e[i] < e[j]
      /\ \A m \in 1 .. n : s[m] \in S => \E i \in 1 .. L : e[i] = m
  BY <1>1, Zenon DEF Embeds
<1>5. PICK g : g = [i \in 1 .. L + 1 |-> IF i = L + 1 THEN n + 1 ELSE e[i]]
  OBVIOUS
<1>6. g[L + 1] = n + 1 /\ \A i \in 1 .. L : g[i] = e[i] /\ e[i] \in 1 .. n
  BY <1>4, <1>5
<1>7. g \in [1 .. L + 1 -> 1 .. n + 1]
  BY <1>4, <1>5
<1>8. ASSUME NEW i \in 1 .. L + 1 PROVE u[i] = s[g[i]] /\ s[g[i]] \in S
  <2>1. CASE i = L + 1
    BY <1>3, <1>6, <2>1
  <2>2. CASE i \in 1 .. L
    BY <1>3, <1>4, <1>6, <2>2
  <2> QED BY <2>1, <2>2
<1>9. ASSUME NEW i \in 1 .. L + 1, NEW j \in 1 .. L + 1, i < j PROVE g[i] < g[j]
  <2>1. i \in 1 .. L /\ g[i] = e[i] /\ e[i] \in 1 .. n
    BY <1>6, <1>9
  <2>2. CASE j = L + 1
    BY <1>6, <2>1, <2>2
  <2>3. CASE j \in 1 .. L
    <3>1. e[i] < e[j]
      BY <1>4, <1>9, <2>1, <2>3
    <3> QED BY <1>6, <2>1, <2>3, <3>1
  <2> QED BY <2>2, <2>3
<1>10. ASSUME NEW m \in 1 .. n + 1, s[m] \in S PROVE \E i \in 1 .. L + 1 : g[i] = m
  <2>1. CASE m = n + 1
    BY <1>6, <2>1
  <2>2. CASE m \in 1 .. n
    <3>1. PICK i \in 1 .. L : e[i] = m
      BY <1>4, <1>10, <2>2
    <3> QED BY <1>6, <3>1
  <2> QED BY <2>1, <2>2
<1>11. Embeds(g, u, s, S, n + 1)
  BY <1>3, <1>7, <1>8, <1>9, <1>10 DEF Embeds
<1> QED BY <1>2, <1>11

LEMMA EmbedsLess ==
  ASSUME NEW s, NEW S, NEW n \in Nat, NEW t, NEW e, Embeds(e, t, s, S, n), s[n + 1] \notin S
  PROVE  Embeds(e, t, s, S, n + 1)
<1>1. PICK I : I = 1 .. Len(t)
  OBVIOUS
<1>2. /\ e \in [I -> 1 .. n]
      /\ \A i \in I : t[i] = s[e[i]] /\ s[e[i]] \in S
      /\ \A i, j \in I : i < j => e[i] < e[j]
      /\ \A m \in 1 .. n : s[m] \in S => \E i \in I : e[i] = m
  BY <1>1, Zenon DEF Embeds
<1>3. e \in [I -> 1 .. n + 1]
  BY <1>2
<1>4. ASSUME NEW m \in 1 .. n + 1, s[m] \in S PROVE \E i \in I : e[i] = m
  <2>1. m \in 1 .. n
    BY <1>4
  <2> QED BY <1>2, <1>4, <2>1
<1> QED BY <1>1, <1>2, <1>3, <1>4, Zenon DEF Embeds

LEMMA PickedFrom ==
  ASSUME NEW X, NEW s \in Seq(X), NEW S
  PROVE  /\ Picked(s, S) \in Seq(X)
         /\ \E e : Embeds(e, Picked(s, S), s, S, Len(s))
<1>1. PICK N \in Nat : N = Len(s)
  OBVIOUS
<1>2. PICK f : FiltersTo(f, s, S, Len(s)) /\ Picked(s, S) = f[Len(s)]
  BY <1>1, KeptIs
<1>3. f[0] = <<>> /\ \A n \in 1 .. N : f[n] = IF s[n] \in S THEN Append(f[n - 1], s[n]) ELSE f[n - 1]
  BY <1>1, <1>2, FilterSteps
<1>4. \A n \in 0 .. N : f[n] \in Seq(X)
  BY <1>1, <1>2, FilteredTo
<1>5. PICK T : T = {n \in 0 .. N : \E e : Embeds(e, f[n], s, S, n)}
  OBVIOUS
<1>6. 0 \in T
  <2>1. PICK e : e = [i \in 1 .. 0 |-> 1]
    OBVIOUS
  <2>2. Len(f[0]) = 0
    BY <1>3
  <2>3. e \in [1 .. 0 -> 1 .. 0]
    BY <2>1
  <2>4. Embeds(e, f[0], s, S, 0)
    BY <2>2, <2>3 DEF Embeds
  <2> QED BY <1>5, <2>4
<1>7. ASSUME NEW n \in 0 .. N, n + 1 <= N, n \in T PROVE n + 1 \in T
  <2>1. PICK e : Embeds(e, f[n], s, S, n)
    BY <1>5, <1>7
  <2>2. PICK t : t = f[n]
    OBVIOUS
  <2>3. PICK a : a = s[n + 1]
    OBVIOUS
  <2>4. t \in Seq(X) /\ a \in X /\ n \in Nat /\ n + 1 \in 1 .. N /\ n + 1 - 1 = n
    BY <1>1, <1>4, <1>7, <2>2, <2>3
  <2>5. f[n + 1] = IF a \in S THEN Append(t, a) ELSE t
    BY <1>3, <2>2, <2>3, <2>4
  <2>6. CASE a \in S
    <3>1. \E g : Embeds(g, Append(t, a), s, S, n + 1)
      BY <2>1, <2>2, <2>3, <2>4, <2>6, EmbedsMore
    <3>2. f[n + 1] = Append(t, a)
      BY <2>5, <2>6
    <3>3. \E g : Embeds(g, f[n + 1], s, S, n + 1)
      BY <3>1, <3>2, Zenon
    <3>4. n + 1 \in 0 .. N
      BY <1>7
    <3> QED BY <1>5, <3>3, <3>4, Zenon
  <2>7. CASE a \notin S
    <3>1. Embeds(e, t, s, S, n + 1)
      BY <2>1, <2>2, <2>3, <2>4, <2>7, EmbedsLess
    <3> QED BY <1>5, <2>4, <2>5, <2>7, <3>1
  <2> QED BY <2>6, <2>7
<1>8. 0 .. N \subseteq T
  BY <1>6, <1>7, AllUpTo
<1>9. N \in 0 .. N /\ N \in T
  BY <1>8
<1> QED BY <1>1, <1>2, <1>4, <1>5, <1>9

LEMMA AllPicked ==
  ASSUME NEW X, NEW s \in Seq(X), NEW S, \A i \in 1 .. Len(s) : s[i] \in S
  PROVE  Picked(s, S) = s
<1>1. PICK N \in Nat : N = Len(s)
  OBVIOUS
<1>2. PICK f : FiltersTo(f, s, S, Len(s)) /\ Picked(s, S) = f[Len(s)]
  BY <1>1, KeptIs
<1>3. f[0] = <<>> /\ \A n \in 1 .. N : f[n] = IF s[n] \in S THEN Append(f[n - 1], s[n]) ELSE f[n - 1]
  BY <1>1, <1>2, FilterSteps
<1>4. PICK p : p = [n \in 0 .. N |-> SubSeq(s, 1, n)]
  OBVIOUS
<1>5. p[0] = <<>> /\ p[N] = s
  <2>1. SubSeq(s, 1, 0) = <<>> /\ SubSeq(s, 1, Len(s)) = s
    BY PrefixFacts
  <2> QED BY <1>1, <1>4, <2>1
<1>6. \A n \in 1 .. N : p[n] = Append(p[n - 1], s[n])
  <2>1. \A n \in 1 .. N : SubSeq(s, 1, n) = Append(SubSeq(s, 1, n - 1), s[n])
    BY <1>1, FromFront
  <2>2. \A n \in 1 .. N : n \in 0 .. N /\ n - 1 \in 0 .. N
    OBVIOUS
  <2> QED BY <1>4, <2>1, <2>2
<1>7. PICK T : T = {n \in 0 .. N : f[n] = p[n]}
  OBVIOUS
<1>8. 0 \in T
  BY <1>3, <1>5, <1>7
<1>9. ASSUME NEW n \in 0 .. N, n + 1 <= N, n \in T PROVE n + 1 \in T
  <2>1. PICK k \in 1 .. N : k = n + 1 /\ k - 1 = n
    BY <1>9
  <2>2. f[k] = Append(f[k - 1], s[k])
    BY <1>1, <1>3, <2>1, Zenon
  <2>3. f[k - 1] = p[k - 1]
    BY <1>7, <1>9, <2>1
  <2>4. f[k] = p[k]
    BY <1>6, <2>2, <2>3, Zenon
  <2> QED BY <1>7, <2>1, <2>4
<1>10. 0 .. N \subseteq T
  BY <1>8, <1>9, AllUpTo
<1> QED BY <1>1, <1>2, <1>5, <1>7, <1>10

LEMMA PickedHas ==
  ASSUME NEW X, NEW s \in Seq(X), NEW S
  PROVE  /\ Picked(s, S) \in Seq(X)
         /\ ToSet(Picked(s, S)) = ToSet(s) \cap S
<1>1. PICK t : t = Picked(s, S)
  OBVIOUS
<1>2. t \in Seq(X) /\ \E e : Embeds(e, t, s, S, Len(s))
  BY <1>1, PickedFrom
<1>3. PICK e : Embeds(e, t, s, S, Len(s))
  BY <1>2
<1>4. /\ \A i \in 1 .. Len(t) : e[i] \in 1 .. Len(s) /\ t[i] = s[e[i]] /\ s[e[i]] \in S
      /\ \A m \in 1 .. Len(s) : s[m] \in S => \E i \in 1 .. Len(t) : e[i] = m
  BY <1>3 DEF Embeds
<1>5. ToSet(t) = {t[i] : i \in 1 .. Len(t)} /\ ToSet(s) = {s[i] : i \in 1 .. Len(s)}
  BY <1>2 DEF ToSet
<1>6. ToSet(t) \subseteq ToSet(s) \cap S
  BY <1>4, <1>5
<1>7. ASSUME NEW x \in ToSet(s) \cap S PROVE x \in ToSet(t)
  <2>1. PICK m \in 1 .. Len(s) : s[m] = x
    BY <1>5
  <2>2. PICK i \in 1 .. Len(t) : e[i] = m
    BY <1>4, <2>1
  <2> QED BY <1>4, <1>5, <2>1, <2>2
<1> QED BY <1>1, <1>2, <1>6, <1>7

LEMMA ThoseIs == ASSUME NEW s, NEW S PROVE Those(s, S) = Picked(s, S)
BY Zenon DEF Those, Picked, FiltersTo

LEMMA AddedAtEnd ==
  ASSUME NEW X, NEW s \in Seq(X), NEW a \in X
  PROVE  /\ Append(s, a) \in Seq(X) /\ Len(s) \in Nat /\ Len(Append(s, a)) = Len(s) + 1
         /\ Append(s, a)[Len(s) + 1] = a /\ \A i \in 1 .. Len(s) : Append(s, a)[i] = s[i]
<1>1. PICK t : t = Append(s, a)
  OBVIOUS
<1>2. /\ t \in Seq(X) /\ Len(s) \in Nat /\ Len(t) = Len(s) + 1
      /\ t[Len(s) + 1] = a /\ \A i \in 1 .. Len(s) : t[i] = s[i]
  BY <1>1, AppendProperties
<1> QED BY <1>1, <1>2

(* What a message of the history becomes.                                  *)
ReqMsgs == [role : {"user", "assistant", "tool"}, text : BOOLEAN, ids : Seq(ToolIds)]
HistMsgs == {m \in ReqMsgs : m.role = "tool" => m.ids # <<>>}
FlatMsgs == {m \in HistMsgs : m.role = "tool" => \E id \in ToolIds : m.ids = <<id>>}

LEMMA OneId ==
  ASSUME NEW id \in ToolIds
  PROVE  <<id>> \in Seq(ToolIds) /\ <<id>> # <<>> /\ Len(<<id>>) = 1 /\ ToSet(<<id>>) = {id}
BY DEF ToSet

LEMMA ConvertedIs ==
  ASSUME NEW m \in HistMsgs
  PROVE  Converted(m) \in Seq(FlatMsgs)
<1>1. m \in ReqMsgs /\ m.ids \in Seq(ToolIds)
  BY DEF HistMsgs, ReqMsgs
<1>2. CASE m.role = "tool"
  <2>1. m.ids # <<>>
    BY <1>2 DEF HistMsgs
  <2>2. PICK n \in Nat : n = Len(m.ids) /\ DOMAIN m.ids = 1 .. n
    BY <1>1
  <2>3. Converted(m) = [i \in 1 .. n |-> Said("tool", FALSE, <<m.ids[i]>>)]
    BY <1>2, <2>1, <2>2, Zenon DEF Converted
  <2>4. ASSUME NEW i \in 1 .. n PROVE Said("tool", FALSE, <<m.ids[i]>>) \in FlatMsgs
    <3>1. m.ids[i] \in ToolIds
      BY <1>1, <2>2
    <3>2. PICK id \in ToolIds : id = m.ids[i]
      BY <3>1
    <3>3. PICK q : q = <<id>>
      OBVIOUS
    <3>4. q \in Seq(ToolIds) /\ q # <<>>
      BY <3>3, OneId
    <3>5. Said("tool", FALSE, q) \in ReqMsgs
      BY <3>4 DEF Said, ReqMsgs
    <3>6. Said("tool", FALSE, q) \in FlatMsgs
      BY <3>3, <3>4, <3>5 DEF Said, HistMsgs, FlatMsgs
    <3> QED BY <3>2, <3>3, <3>6
  <2>5. PICK c : c = [i \in 1 .. n |-> Said("tool", FALSE, <<m.ids[i]>>)]
    OBVIOUS
  <2>6. c \in [1 .. n -> FlatMsgs]
    BY <2>4, <2>5, Zenon
  <2>7. c \in Seq(FlatMsgs)
    BY <2>6
  <2> QED BY <2>3, <2>5, <2>7, Zenon
<1>3. CASE m.role # "tool"
  <2>1. m \in FlatMsgs
    BY <1>3 DEF FlatMsgs
  <2>2. Converted(m) = <<m>>
    BY <1>3 DEF Converted
  <2> QED BY <2>1, <2>2
<1> QED BY <1>2, <1>3

LEMMA FlatIs ==
  ASSUME NEW ms \in Seq(HistMsgs)
  PROVE  Flattened(ms) \in Seq(FlatMsgs)
<1>1. PICK n \in Nat : n = Len(ms) /\ DOMAIN ms = 1 .. n
  OBVIOUS
<1>2. \A i \in 1 .. n : Converted(ms[i]) \in Seq(FlatMsgs)
  <2>1. \A i \in 1 .. n : ms[i] \in HistMsgs
    BY <1>1
  <2> QED BY <2>1, ConvertedIs
<1>3. PICK cs : cs = [i \in DOMAIN ms |-> Converted(ms[i])]
  OBVIOUS
<1>4. cs \in Seq(Seq(FlatMsgs))
  BY <1>1, <1>2, <1>3
<1>5. <<>> \in Seq(FlatMsgs)
  OBVIOUS
<1>6. FlattenSeq(cs) \in Seq(FlatMsgs)
  BY <1>4, <1>5, FlattenAppend
<1> QED BY <1>3, <1>6 DEF Flattened

LEMMA IdsAre ==
  ASSUME NEW ms \in Seq(ReqMsgs), NEW role
  PROVE  \A x : x \in IdsOf(ms, role) <=>
                  \E i \in 1 .. Len(ms) : ms[i].role = role /\ x \in ToSet(ms[i].ids)
BY DEF IdsOf

(* What is left of a message: of a call message the ids in V.              *)
Remade(m, V) == IF m.role = "assistant" THEN [m EXCEPT !.ids = Picked(m.ids, V)] ELSE m
KeptMsgs(ms, V) == {m \in ToSet(ms) : m.role # "tool" \/ ToSet(m.ids) \cap V # {}}

LEMMA RemadeIs ==
  ASSUME NEW m \in FlatMsgs, NEW V
  PROVE  /\ Remade(m, V) \in FlatMsgs /\ Remade(m, V).role = m.role /\ Remade(m, V).text = m.text
         /\ m.role = "assistant" => ToSet(Remade(m, V).ids) = ToSet(m.ids) \cap V
         /\ m.role # "assistant" => Remade(m, V) = m
         /\ m.role = "assistant" /\ ToSet(m.ids) \subseteq V => Remade(m, V) = m
<1>1. m \in ReqMsgs /\ m.ids \in Seq(ToolIds)
  BY DEF FlatMsgs, HistMsgs, ReqMsgs
<1>2. CASE m.role # "assistant"
  BY <1>2 DEF Remade
<1>3. CASE m.role = "assistant"
  <2>1. PICK q : q = Picked(m.ids, V)
    OBVIOUS
  <2>2. q \in Seq(ToolIds) /\ ToSet(q) = ToSet(m.ids) \cap V
    BY <1>1, <2>1, PickedHas
  <2>3. Remade(m, V) = [m EXCEPT !.ids = q]
    BY <1>3, <2>1 DEF Remade
  <2>4. PICK r : r = [m EXCEPT !.ids = q]
    OBVIOUS
  <2>5. r \in ReqMsgs /\ r.role = m.role /\ r.text = m.text /\ r.ids = q
    BY <1>1, <2>2, <2>4 DEF ReqMsgs
  <2>6. r \in FlatMsgs
    BY <1>3, <2>5 DEF HistMsgs, FlatMsgs
  <2>7. ASSUME ToSet(m.ids) \subseteq V PROVE r = m
    <3>1. \A i \in 1 .. Len(m.ids) : m.ids[i] \in V
      BY <1>1, <2>7 DEF ToSet
    <3>2. q = m.ids
      BY <1>1, <2>1, <3>1, AllPicked
    <3> QED BY <1>1, <2>4, <3>2 DEF ReqMsgs
  <2> QED BY <1>3, <2>2, <2>3, <2>4, <2>5, <2>6, <2>7
<1> QED BY <1>2, <1>3

LEMMA SanitizedIs ==
  ASSUME NEW ms \in Seq(FlatMsgs), NEW V, V = InPairs(ms), NEW stays, stays = Picked(ms, KeptMsgs(ms, V))
  PROVE  /\ stays \in Seq(FlatMsgs)
         /\ Sanitized(ms) = [i \in 1 .. Len(stays) |-> Remade(stays[i], V)]
<1>1. stays \in Seq(FlatMsgs)
  BY PickedHas
<1>2. DOMAIN stays = 1 .. Len(stays)
  BY <1>1
<1>3. stays = Those(ms, {m \in ToSet(ms) : m.role # "tool" \/ ToSet(m.ids) \cap V # {}})
  BY ThoseIs, Zenon DEF KeptMsgs
<1>4. Sanitized(ms) = [i \in DOMAIN stays |->
         IF stays[i].role = "assistant" THEN [stays[i] EXCEPT !.ids = Those(@, V)] ELSE stays[i]]
  BY <1>3, Zenon DEF Sanitized
<1>5. \A i \in DOMAIN stays :
        Remade(stays[i], V) = IF stays[i].role = "assistant" THEN [stays[i] EXCEPT !.ids = Those(@, V)] ELSE stays[i]
  BY ThoseIs, Zenon DEF Remade
<1>6. Sanitized(ms) = [i \in DOMAIN stays |-> Remade(stays[i], V)]
  BY <1>4, <1>5, Zenon
<1> QED BY <1>1, <1>2, <1>6, Zenon

(* The messages of a request, and from where they come.                    *)
Comes(e, sent, flat, V) ==
  /\ e \in [1 .. Len(sent) -> 1 .. Len(flat)]
  /\ \A i, j \in 1 .. Len(sent) : i < j => e[i] < e[j]
  /\ \A i \in 1 .. Len(sent) :
       /\ sent[i] = Remade(flat[e[i]], V)
       /\ flat[e[i]].role # "tool" \/ ToSet(flat[e[i]].ids) \cap V # {}
  /\ \A n \in 1 .. Len(flat) :
       flat[n].role # "tool" \/ ToSet(flat[n].ids) \cap V # {} => \E i \in 1 .. Len(sent) : e[i] = n

LEMMA SentFrom ==
  ASSUME NEW flat \in Seq(FlatMsgs), NEW V, V = InPairs(flat), NEW sent, sent = Sanitized(flat)
  PROVE  sent \in Seq(FlatMsgs) /\ \E e : Comes(e, sent, flat, V)
<1>1. PICK K : K = KeptMsgs(flat, V)
  OBVIOUS
<1>2. PICK stays : stays = Picked(flat, K)
  OBVIOUS
<1>3. stays \in Seq(FlatMsgs) /\ sent = [i \in 1 .. Len(stays) |-> Remade(stays[i], V)]
  BY <1>1, <1>2, SanitizedIs
<1>4. PICK e : Embeds(e, stays, flat, K, Len(flat))
  BY <1>2, PickedFrom
<1>5. PICK N \in Nat : N = Len(stays)
  BY <1>3
<1>6. /\ e \in [1 .. N -> 1 .. Len(flat)]
      /\ \A i \in 1 .. N : stays[i] = flat[e[i]] /\ flat[e[i]] \in K
      /\ \A i, j \in 1 .. N : i < j => e[i] < e[j]
      /\ \A m \in 1 .. Len(flat) : flat[m] \in K => \E i \in 1 .. N : e[i] = m
  BY <1>4, <1>5, Zenon DEF Embeds
<1>7. \A n \in 1 .. Len(flat) : flat[n] \in K <=> flat[n].role # "tool" \/ ToSet(flat[n].ids) \cap V # {}
  <2>1. \A n \in 1 .. Len(flat) : flat[n] \in ToSet(flat)
    BY DEF ToSet
  <2> QED BY <1>1, <2>1 DEF KeptMsgs
<1>8. \A i \in 1 .. N : stays[i] \in FlatMsgs
  BY <1>3, <1>5
<1>9. \A i \in 1 .. N : Remade(stays[i], V) \in FlatMsgs
  BY <1>8, RemadeIs
<1>10. sent \in Seq(FlatMsgs) /\ Len(sent) = N
  BY <1>3, <1>5, <1>9
<1>11. \A i \in 1 .. N : /\ sent[i] = Remade(flat[e[i]], V)
                         /\ flat[e[i]].role # "tool" \/ ToSet(flat[e[i]].ids) \cap V # {}
  <2>1. \A i \in 1 .. N : sent[i] = Remade(stays[i], V)
    BY <1>3, <1>5
  <2>2. ASSUME NEW i \in 1 .. N
        PROVE  /\ sent[i] = Remade(flat[e[i]], V)
               /\ flat[e[i]].role # "tool" \/ ToSet(flat[e[i]].ids) \cap V # {}
    <3>1. PICK k \in 1 .. Len(flat) : k = e[i]
      BY <1>6
    <3>2. stays[i] = flat[k] /\ flat[k] \in K
      BY <1>6, <3>1
    <3>3. flat[k].role # "tool" \/ ToSet(flat[k].ids) \cap V # {}
      BY <1>7, <3>2, Zenon
    <3> QED BY <2>1, <3>1, <3>2, <3>3, Zenon
  <2> QED BY <2>2
<1>12. \A n \in 1 .. Len(flat) :
         flat[n].role # "tool" \/ ToSet(flat[n].ids) \cap V # {} => \E i \in 1 .. N : e[i] = n
  BY <1>6, <1>7, Zenon
<1> QED BY <1>6, <1>10, <1>11, <1>12, Zenon DEF Comes

(* No request has a call without a result or a result without a call.      *)
LEMMA SentInPairs ==
  ASSUME NEW flat \in Seq(FlatMsgs), NEW V, V = InPairs(flat), NEW sent, sent = Sanitized(flat)
  PROVE  IdsOf(sent, "assistant") = V /\ IdsOf(sent, "tool") = V
<1>1. sent \in Seq(FlatMsgs) /\ \E e : Comes(e, sent, flat, V)
  BY SentFrom
<1>2. PICK e : Comes(e, sent, flat, V)
  BY <1>1
<1>3. /\ e \in [1 .. Len(sent) -> 1 .. Len(flat)]
      /\ \A i \in 1 .. Len(sent) :
           /\ sent[i] = Remade(flat[e[i]], V)
           /\ flat[e[i]].role # "tool" \/ ToSet(flat[e[i]].ids) \cap V # {}
      /\ \A n \in 1 .. Len(flat) :
           flat[n].role # "tool" \/ ToSet(flat[n].ids) \cap V # {} => \E i \in 1 .. Len(sent) : e[i] = n
  BY <1>2, Zenon DEF Comes
<1>4. \A n \in 1 .. Len(flat) : flat[n] \in FlatMsgs
  OBVIOUS
<1>5. FlatMsgs \subseteq ReqMsgs
  BY DEF FlatMsgs, HistMsgs
<1>6. sent \in Seq(ReqMsgs) /\ flat \in Seq(ReqMsgs)
  BY <1>1, <1>5
<1>7. \A role : /\ \A x : x \in IdsOf(sent, role) <=>
                     \E i \in 1 .. Len(sent) : sent[i].role = role /\ x \in ToSet(sent[i].ids)
                /\ \A x : x \in IdsOf(flat, role) <=>
                     \E i \in 1 .. Len(flat) : flat[i].role = role /\ x \in ToSet(flat[i].ids)
  BY <1>6, IdsAre
<1>8. \A x : x \in V <=> x \in IdsOf(flat, "assistant") /\ x \in IdsOf(flat, "tool")
  BY DEF InPairs
<1>9. ASSUME NEW i \in 1 .. Len(sent), NEW m \in FlatMsgs, m = flat[e[i]]
      PROVE  /\ sent[i].role = m.role
             /\ m.role = "assistant" => ToSet(sent[i].ids) = ToSet(m.ids) \cap V
             /\ m.role = "tool" => /\ ToSet(sent[i].ids) = ToSet(m.ids) /\ ToSet(m.ids) \subseteq V
  <2>1. sent[i] = Remade(m, V)
    BY <1>3, <1>9
  <2>2. /\ Remade(m, V).role = m.role
        /\ m.role = "assistant" => ToSet(Remade(m, V).ids) = ToSet(m.ids) \cap V
        /\ m.role # "assistant" => Remade(m, V) = m
    BY RemadeIs
  <2>3. ASSUME m.role = "tool" PROVE ToSet(sent[i].ids) = ToSet(m.ids) /\ ToSet(m.ids) \subseteq V
    <3>1. PICK id \in ToolIds : m.ids = <<id>>
      BY <2>3 DEF FlatMsgs
    <3>2. ToSet(m.ids) = {id}
      BY <3>1, OneId
    <3>3. ToSet(m.ids) \cap V # {}
      BY <1>3, <1>9, <2>3
    <3>4. sent[i] = m
      BY <2>1, <2>2, <2>3
    <3> QED BY <3>2, <3>3, <3>4
  <2> QED BY <2>1, <2>2, <2>3
<1>10. ASSUME NEW x \in V PROVE x \in IdsOf(sent, "assistant")
  <2>1. PICK n \in 1 .. Len(flat) : flat[n].role = "assistant" /\ x \in ToSet(flat[n].ids)
    BY <1>7, <1>8, <1>10
  <2>2. PICK i \in 1 .. Len(sent) : e[i] = n
    BY <1>3, <2>1
  <2>3. PICK m \in FlatMsgs : m = flat[n]
    BY <1>4
  <2>4. sent[i].role = "assistant" /\ x \in ToSet(sent[i].ids)
    BY <1>9, <1>10, <2>1, <2>2, <2>3
  <2> QED BY <1>7, <2>4
<1>11. ASSUME NEW x \in V PROVE x \in IdsOf(sent, "tool")
  <2>1. PICK n \in 1 .. Len(flat) : flat[n].role = "tool" /\ x \in ToSet(flat[n].ids)
    BY <1>7, <1>8, <1>11
  <2>2. ToSet(flat[n].ids) \cap V # {}
    BY <1>11, <2>1
  <2>3. PICK i \in 1 .. Len(sent) : e[i] = n
    BY <1>3, <2>2
  <2>4. PICK m \in FlatMsgs : m = flat[n]
    BY <1>4
  <2>5. sent[i].role = "tool" /\ x \in ToSet(sent[i].ids)
    BY <1>9, <2>1, <2>3, <2>4
  <2> QED BY <1>7, <2>5
<1>12. ASSUME NEW role \in {"assistant", "tool"}, NEW x \in IdsOf(sent, role) PROVE x \in V
  <2>1. PICK i \in 1 .. Len(sent) : sent[i].role = role /\ x \in ToSet(sent[i].ids)
    BY <1>7, <1>12
  <2>2. PICK m \in FlatMsgs : m = flat[e[i]]
    BY <1>3, <1>4
  <2>3. m.role = role
    BY <1>9, <2>1, <2>2
  <2> QED BY <1>9, <2>1, <2>2, <2>3
<1>13. \A x : x \in IdsOf(sent, "assistant") <=> x \in V
  BY <1>10, <1>12
<1>14. \A x : x \in IdsOf(sent, "tool") <=> x \in V
  BY <1>11, <1>12
<1> QED BY <1>13, <1>14

(* A history of whole pairs goes out as it is.                             *)
LEMMA PairsUnchanged ==
  ASSUME NEW flat \in Seq(FlatMsgs), IdsOf(flat, "assistant") = IdsOf(flat, "tool")
  PROVE  Sanitized(flat) = flat
<1>1. PICK V : V = InPairs(flat)
  OBVIOUS
<1>2. \A role \in {"assistant", "tool"} : IdsOf(flat, role) = V
  BY <1>1 DEF InPairs
<1>3. FlatMsgs \subseteq ReqMsgs /\ \A n \in 1 .. Len(flat) : flat[n] \in FlatMsgs
  BY DEF FlatMsgs, HistMsgs
<1>4. flat \in Seq(ReqMsgs)
  BY <1>3
<1>5. \A n \in 1 .. Len(flat) : flat[n].role \in {"assistant", "tool"} => ToSet(flat[n].ids) \subseteq V
  <2>1. ASSUME NEW n \in 1 .. Len(flat), flat[n].role \in {"assistant", "tool"}, NEW x \in ToSet(flat[n].ids)
        PROVE  x \in V
    <3>1. PICK role : role = flat[n].role
      OBVIOUS
    <3>2. x \in IdsOf(flat, role)
      BY <1>4, <2>1, <3>1, IdsAre
    <3> QED BY <1>2, <2>1, <3>1, <3>2
  <2> QED BY <2>1
<1>6. PICK K : K = KeptMsgs(flat, V)
  OBVIOUS
<1>7. \A n \in 1 .. Len(flat) : flat[n] \in K
  <2>1. ASSUME NEW n \in 1 .. Len(flat) PROVE flat[n] \in K
    <3>1. flat[n] \in ToSet(flat) /\ flat[n] \in FlatMsgs
      BY <1>3 DEF ToSet
    <3>2. ASSUME flat[n].role = "tool" PROVE ToSet(flat[n].ids) \cap V # {}
      <4>1. PICK id \in ToolIds : flat[n].ids = <<id>>
        BY <3>1, <3>2 DEF FlatMsgs
      <4>2. ToSet(flat[n].ids) = {id}
        BY <4>1, OneId
      <4> QED BY <1>5, <3>2, <4>2
    <3> QED BY <1>6, <3>1, <3>2 DEF KeptMsgs
  <2> QED BY <2>1
<1>8. PICK stays : stays = Picked(flat, K)
  OBVIOUS
<1>9. stays = flat
  BY <1>7, <1>8, AllPicked
<1>10. Sanitized(flat) = [i \in 1 .. Len(flat) |-> Remade(flat[i], V)]
  <2>1. stays = Picked(flat, KeptMsgs(flat, V))
    BY <1>6, <1>8, Zenon
  <2>2. Sanitized(flat) = [i \in 1 .. Len(stays) |-> Remade(stays[i], V)]
    BY <1>1, <2>1, SanitizedIs
  <2> QED BY <1>9, <2>2, Zenon
<1>11. \A i \in 1 .. Len(flat) : Remade(flat[i], V) = flat[i]
  <2>1. ASSUME NEW i \in 1 .. Len(flat), NEW m \in FlatMsgs, m = flat[i] PROVE Remade(m, V) = m
    <3>1. m.role = "assistant" => ToSet(m.ids) \subseteq V
      BY <1>5, <2>1
    <3> QED BY <3>1, RemadeIs
  <2> QED BY <1>3, <2>1
<1>12. flat = [i \in 1 .. Len(flat) |-> flat[i]]
  OBVIOUS
<1> QED BY <1>10, <1>11, <1>12, Zenon

(* What was said stays, in its order.                                      *)
RolePairs == [role : {"user", "assistant", "tool"}, text : BOOLEAN]
RoleOf(m) == [role |-> m.role, text |-> m.text]

LEMMA RolesAppend ==
  ASSUME NEW s \in Seq(FlatMsgs), NEW m \in FlatMsgs
  PROVE  /\ Roles(s) \in Seq(RolePairs) /\ RoleOf(m) \in RolePairs
         /\ Roles(Append(s, m)) = Append(Roles(s), RoleOf(m))
<1>1. \A k \in FlatMsgs : RoleOf(k) \in RolePairs
  <2>1. \A k \in FlatMsgs : k.role \in {"user", "assistant", "tool"} /\ k.text \in BOOLEAN
    BY DEF FlatMsgs, HistMsgs, ReqMsgs
  <2> QED BY <2>1 DEF RoleOf, RolePairs
<1>2. PICK N \in Nat : N = Len(s) /\ DOMAIN s = 1 .. N
  OBVIOUS
<1>3. PICK r : r = Roles(s)
  OBVIOUS
<1>4. r = [i \in 1 .. N |-> RoleOf(s[i])]
  BY <1>2, <1>3, Zenon DEF Roles, RoleOf
<1>5. r \in Seq(RolePairs) /\ Len(r) = N /\ \A i \in 1 .. N : r[i] = RoleOf(s[i])
  BY <1>1, <1>2, <1>4
<1>6. PICK a \in RolePairs : a = RoleOf(m)
  BY <1>1
<1>7. PICK c : c = Append(r, a)
  OBVIOUS
<1>8. Len(c) = N + 1 /\ c[N + 1] = a /\ c \in Seq(RolePairs) /\ \A i \in 1 .. N : c[i] = r[i]
  BY <1>5, <1>7, AddedAtEnd
<1>9. c = [i \in 1 .. N + 1 |-> c[i]]
  BY <1>8
<1>10. PICK t : t = Append(s, m)
  OBVIOUS
<1>11. Len(t) = N + 1 /\ t[N + 1] = m /\ t \in Seq(FlatMsgs) /\ \A i \in 1 .. N : t[i] = s[i]
  BY <1>2, <1>10, AddedAtEnd
<1>12. DOMAIN t = 1 .. N + 1
  BY <1>11
<1>13. Roles(t) = [i \in 1 .. N + 1 |-> RoleOf(t[i])]
  BY <1>12, Zenon DEF Roles, RoleOf
<1>14. ASSUME NEW i \in 1 .. N + 1 PROVE RoleOf(t[i]) = c[i]
  <2>1. CASE i = N + 1
    BY <1>6, <1>8, <1>11, <2>1, Zenon
  <2>2. CASE i \in 1 .. N
    BY <1>5, <1>8, <1>11, <2>2, Zenon
  <2> QED BY <2>1, <2>2
<1>15. Roles(t) = c
  BY <1>9, <1>13, <1>14, Zenon
<1> QED BY <1>3, <1>5, <1>6, <1>7, <1>10, <1>15, Zenon

LEMMA RolesKept ==
  ASSUME NEW flat \in Seq(FlatMsgs), NEW K, \A n \in 1 .. Len(flat) : flat[n].role # "tool" => flat[n] \in K
  PROVE  Picked(Roles(Picked(flat, K)), Spoken) = Picked(Roles(flat), Spoken)
<1>1. PICK N \in Nat : N = Len(flat)
  OBVIOUS
<1>2. PICK p : p = [n \in 0 .. N |-> SubSeq(flat, 1, n)]
  OBVIOUS
<1>3. /\ p[0] = <<>> /\ p[N] = flat /\ \A n \in 0 .. N : p[n] \in Seq(FlatMsgs)
      /\ \A n \in 1 .. N : p[n] = Append(p[n - 1], flat[n]) /\ flat[n] \in FlatMsgs
  <2>1. /\ SubSeq(flat, 1, 0) = <<>> /\ SubSeq(flat, 1, Len(flat)) = flat
        /\ \A n \in 0 .. Len(flat) : SubSeq(flat, 1, n) \in Seq(FlatMsgs)
    BY PrefixFacts
  <2>2. \A n \in 1 .. N : SubSeq(flat, 1, n) = Append(SubSeq(flat, 1, n - 1), flat[n]) /\ flat[n] \in FlatMsgs
    BY <1>1, FromFront
  <2>3. \A n \in 1 .. N : n \in 0 .. N /\ n - 1 \in 0 .. N
    OBVIOUS
  <2>4. p[0] = <<>> /\ p[N] = flat /\ \A n \in 0 .. N : p[n] \in Seq(FlatMsgs)
    BY <1>1, <1>2, <2>1
  <2>5. \A n \in 0 .. N : p[n] = SubSeq(flat, 1, n)
    BY <1>2
  <2>6. \A n \in 1 .. N : p[n] = Append(p[n - 1], flat[n]) /\ flat[n] \in FlatMsgs
    BY <2>2, <2>3, <2>5, Zenon
  <2> QED BY <2>4, <2>6
<1>4. PICK T : T = {n \in 0 .. N : Picked(Roles(Picked(p[n], K)), Spoken) = Picked(Roles(p[n]), Spoken)}
  OBVIOUS
<1>5. 0 \in T
  <2>1. Picked(<<>>, K) = <<>>
    BY KeptOfNone
  <2> QED BY <1>3, <1>4, <2>1
<1>6. ASSUME NEW n \in 0 .. N, n + 1 <= N, n \in T PROVE n + 1 \in T
  <2>1. PICK k \in 1 .. N : k = n + 1 /\ k - 1 = n
    BY <1>6
  <2>2. PICK s \in Seq(FlatMsgs) : s = p[n]
    BY <1>3
  <2>3. PICK m \in FlatMsgs : m = flat[k]
    BY <1>3
  <2>4. p[k] = Append(s, m)
    BY <1>3, <2>1, <2>2, <2>3
  <2>5. PICK r : r = Picked(s, K)
    OBVIOUS
  <2>6. r \in Seq(FlatMsgs)
    BY <2>5, PickedHas
  <2>7. PICK a : a = RoleOf(m)
    OBVIOUS
  <2>8. /\ Roles(s) \in Seq(RolePairs) /\ a \in RolePairs /\ Roles(Append(s, m)) = Append(Roles(s), a)
        /\ Roles(r) \in Seq(RolePairs) /\ Roles(Append(r, m)) = Append(Roles(r), a)
    BY <2>6, <2>7, RolesAppend
  <2>9. Picked(Roles(r), Spoken) = Picked(Roles(s), Spoken)
    BY <1>4, <1>6, <2>2, <2>5
  <2>10. /\ Picked(Append(Roles(s), a), Spoken) =
              IF a \in Spoken THEN Append(Picked(Roles(s), Spoken), a) ELSE Picked(Roles(s), Spoken)
         /\ Picked(Append(Roles(r), a), Spoken) =
              IF a \in Spoken THEN Append(Picked(Roles(r), Spoken), a) ELSE Picked(Roles(r), Spoken)
    BY <2>8, KeptAppend, Zenon
  <2>11. Picked(Append(s, m), K) = IF m \in K THEN Append(r, m) ELSE r
    BY <2>5, KeptAppend
  <2>12. m \notin K => a \notin Spoken
    <3>1. m \notin K => m.role = "tool"
      BY <1>1, <2>3
    <3> QED BY <2>7, <3>1 DEF Spoken, RoleOf
  <2>13. Picked(Roles(Picked(Append(s, m), K)), Spoken) = Picked(Roles(Append(s, m)), Spoken)
    <3>1. CASE m \in K
      <4>1. Picked(Append(s, m), K) = Append(r, m)
        BY <2>11, <3>1
      <4> QED BY <2>8, <2>9, <2>10, <4>1
    <3>2. CASE m \notin K
      <4>1. Picked(Append(s, m), K) = r
        BY <2>11, <3>2
      <4> QED BY <2>8, <2>9, <2>10, <2>12, <3>2, <4>1
    <3> QED BY <3>1, <3>2
  <2>14. Picked(Roles(Picked(p[k], K)), Spoken) = Picked(Roles(p[k]), Spoken)
    BY <2>4, <2>13, Zenon
  <2>15. k \in 0 .. N /\ k = n + 1
    BY <2>1
  <2>16. k \in T
    BY <1>4, <2>14, <2>15, Zenon
  <2> QED BY <2>15, <2>16
<1>7. 0 .. N \subseteq T
  BY <1>5, <1>6, AllUpTo
<1>8. N \in T
  BY <1>7
<1> QED BY <1>3, <1>4, <1>8

LEMMA SpokenStays ==
  ASSUME NEW flat \in Seq(FlatMsgs)
  PROVE  Those(Roles(Sanitized(flat)), Spoken) = Those(Roles(flat), Spoken)
<1>1. PICK V : V = InPairs(flat)
  OBVIOUS
<1>2. PICK K : K = KeptMsgs(flat, V)
  OBVIOUS
<1>3. PICK stays : stays = Picked(flat, K)
  OBVIOUS
<1>4. stays \in Seq(FlatMsgs) /\ Sanitized(flat) = [i \in 1 .. Len(stays) |-> Remade(stays[i], V)]
  BY <1>1, <1>2, <1>3, SanitizedIs
<1>5. PICK N \in Nat : N = Len(stays) /\ DOMAIN stays = 1 .. N
  BY <1>4
<1>6. Roles(Sanitized(flat)) = [i \in 1 .. N |-> [role |-> Remade(stays[i], V).role, text |-> Remade(stays[i], V).text]]
  <2>1. PICK sent : sent = [i \in 1 .. N |-> Remade(stays[i], V)]
    OBVIOUS
  <2>2. DOMAIN sent = 1 .. N /\ \A i \in 1 .. N : sent[i] = Remade(stays[i], V)
    BY <2>1
  <2>3. Roles(sent) = [i \in 1 .. N |-> [role |-> sent[i].role, text |-> sent[i].text]]
    BY <2>2, Zenon DEF Roles
  <2>4. Roles(sent) = [i \in 1 .. N |-> [role |-> Remade(stays[i], V).role, text |-> Remade(stays[i], V).text]]
    BY <2>2, <2>3, Zenon
  <2> QED BY <1>4, <1>5, <2>1, <2>4, Zenon
<1>7. \A i \in 1 .. N : Remade(stays[i], V).role = stays[i].role /\ Remade(stays[i], V).text = stays[i].text
  <2>1. \A i \in 1 .. N : stays[i] \in FlatMsgs
    BY <1>4, <1>5
  <2> QED BY <2>1, RemadeIs
<1>8. Roles(stays) = [i \in 1 .. N |-> [role |-> stays[i].role, text |-> stays[i].text]]
  BY <1>5, Zenon DEF Roles
<1>9. Roles(Sanitized(flat)) = Roles(stays)
  BY <1>6, <1>7, <1>8, Zenon
<1>10. \A n \in 1 .. Len(flat) : flat[n].role # "tool" => flat[n] \in K
  <2>1. \A n \in 1 .. Len(flat) : flat[n] \in ToSet(flat)
    BY DEF ToSet
  <2> QED BY <1>2, <2>1 DEF KeptMsgs
<1>11. Picked(Roles(stays), Spoken) = Picked(Roles(flat), Spoken)
  BY <1>3, <1>10, RolesKept
<1> QED BY <1>9, <1>11, ThoseIs, Zenon

(* A result that follows its call does so in the request.                  *)
LEMMA StillFollows ==
  ASSUME NEW flat \in Seq(FlatMsgs), NEW V, V = InPairs(flat), NEW sent, sent = Sanitized(flat),
         NEW e, Comes(e, sent, flat, V), NEW i \in 1 .. Len(sent), sent[i].role = "tool", Follows(flat, e[i])
  PROVE  Follows(sent, i)
<1>1. sent \in Seq(FlatMsgs)
  BY SentFrom
<1>2. PICK N \in Nat : N = Len(sent) /\ DOMAIN sent = 1 .. N
  BY <1>1
<1>3. PICK M \in Nat : M = Len(flat) /\ DOMAIN flat = 1 .. M
  OBVIOUS
<1>4. /\ \A j \in 1 .. N : e[j] \in 1 .. M
      /\ \A j, k \in 1 .. N : j < k => e[j] < e[k]
      /\ \A j \in 1 .. N : sent[j] = Remade(flat[e[j]], V)
      /\ \A n \in 1 .. M : flat[n].role # "tool" => \E j \in 1 .. N : e[j] = n
  BY <1>2, <1>3 DEF Comes
<1>5. \A n \in 1 .. M : flat[n] \in FlatMsgs
  BY <1>3
<1>6. ASSUME NEW j \in 1 .. N
      PROVE  /\ sent[j].role = flat[e[j]].role
             /\ flat[e[j]].role = "assistant" => ToSet(sent[j].ids) = ToSet(flat[e[j]].ids) \cap V
             /\ flat[e[j]].role = "tool" => sent[j].ids = flat[e[j]].ids
  <2>1. PICK m \in FlatMsgs : m = flat[e[j]]
    BY <1>4, <1>5
  <2>2. sent[j] = Remade(m, V)
    BY <1>4, <2>1
  <2>3. /\ Remade(m, V).role = m.role
        /\ m.role = "assistant" => ToSet(Remade(m, V).ids) = ToSet(m.ids) \cap V
        /\ m.role # "assistant" => Remade(m, V) = m
    BY RemadeIs
  <2> QED BY <2>1, <2>2, <2>3
<1>7. PICK c \in 1 .. M : /\ c < e[i] /\ flat[c].role = "assistant"
                          /\ ToSet(flat[e[i]].ids) \subseteq ToSet(flat[c].ids)
                          /\ \A k \in c + 1 .. e[i] : flat[k].role = "tool"
  BY <1>3, Zenon DEF Follows
<1>8. PICK d \in 1 .. N : e[d] = c
  BY <1>4, <1>7
<1>9. i \in 1 .. N
  BY <1>2
<1>10. d < i
  <2>1. ASSUME ~(d < i) PROVE FALSE
    <3>1. i = d \/ i < d
      BY <1>8, <1>9, <2>1
    <3>2. e[i] = e[d] \/ e[i] < e[d]
      BY <1>4, <1>8, <1>9, <3>1
    <3>3. e[i] \in 1 .. M /\ e[d] \in 1 .. M
      BY <1>4, <1>8, <1>9
    <3> QED BY <1>7, <1>8, <3>2, <3>3
  <2> QED BY <2>1
<1>11. sent[d].role = "assistant"
  BY <1>6, <1>7, <1>8
<1>12. ToSet(sent[i].ids) \subseteq ToSet(sent[d].ids)
  <2>1. flat[e[i]].role = "tool"
    BY <1>6, <1>9
  <2>2. ToSet(sent[i].ids) \subseteq ToSet(flat[c].ids)
    BY <1>6, <1>7, <1>9, <2>1
  <2>3. ToSet(sent[d].ids) = ToSet(flat[c].ids) \cap V
    BY <1>6, <1>7, <1>8
  <2>4. ToSet(sent[i].ids) \subseteq V
    <3>1. IdsOf(sent, "tool") = V
      BY SentInPairs
    <3>2. FlatMsgs \subseteq ReqMsgs
      BY DEF FlatMsgs, HistMsgs
    <3>3. sent \in Seq(ReqMsgs)
      BY <1>1, <3>2
    <3>4. \A x \in ToSet(sent[i].ids) : x \in IdsOf(sent, "tool")
      BY <3>3, IdsAre
    <3> QED BY <3>1, <3>4
  <2> QED BY <2>2, <2>3, <2>4
<1>13. ASSUME NEW k \in d + 1 .. i PROVE sent[k].role = "tool"
  <2>1. k \in 1 .. N /\ d < k /\ (k = i \/ k < i)
    BY <1>8, <1>9, <1>13
  <2>2. e[d] < e[k]
    BY <1>4, <1>8, <2>1
  <2>3. e[k] = e[i] \/ e[k] < e[i]
    BY <1>4, <1>9, <2>1
  <2>4. e[k] \in 1 .. M /\ e[i] \in 1 .. M
    BY <1>4, <1>9, <2>1
  <2>5. e[k] \in c + 1 .. e[i]
    BY <1>8, <2>2, <2>3, <2>4
  <2>6. flat[e[k]].role = "tool"
    BY <1>7, <2>5
  <2> QED BY <1>6, <2>1, <2>6
<1> QED BY <1>2, <1>8, <1>10, <1>11, <1>12, <1>13, Zenon DEF Follows

LEMMA TogetherStays ==
  ASSUME NEW flat \in Seq(FlatMsgs), NEW sent, sent = Sanitized(flat),
         \A i \in {j \in DOMAIN flat : flat[j].role = "tool"} : Follows(flat, i)
  PROVE  \A i \in {j \in DOMAIN sent : sent[j].role = "tool"} : Follows(sent, i)
<1>1. PICK V : V = InPairs(flat)
  OBVIOUS
<1>2. sent \in Seq(FlatMsgs) /\ \E e : Comes(e, sent, flat, V)
  BY <1>1, SentFrom
<1>3. PICK e : Comes(e, sent, flat, V)
  BY <1>2
<1>4. ASSUME NEW i \in DOMAIN sent, sent[i].role = "tool" PROVE Follows(sent, i)
  <2>1. i \in 1 .. Len(sent)
    BY <1>2
  <2>2. e[i] \in DOMAIN flat /\ sent[i] = Remade(flat[e[i]], V)
    BY <1>3, <2>1 DEF Comes
  <2>3. PICK m \in FlatMsgs : m = flat[e[i]]
    BY <2>2
  <2>4. Remade(m, V).role = m.role
    BY RemadeIs
  <2>5. flat[e[i]].role = "tool"
    BY <1>4, <2>2, <2>3, <2>4
  <2>6. Follows(flat, e[i])
    BY <2>2, <2>5
  <2> QED BY <1>1, <1>3, <1>4, <2>1, <2>6, StillFollows
<1> QED BY <1>4

(* The messages of the history are what they are taken for, and the        *)
(* request is nothing but pairs.                                           *)
RequestsInv ==
  /\ messages \in Seq(HistMsgs) /\ open \subseteq ToolIds
  /\ body \in Seq(FlatMsgs) /\ OnlyPairs

LEMMA NothingInPairs == IdsOf(<<>>, "assistant") = IdsOf(<<>>, "tool")
BY DEF IdsOf

LEMMA RequestsStarts == RequestsInit => RequestsInv
<1>1. <<>> \in Seq(HistMsgs) /\ <<>> \in Seq(FlatMsgs)
  OBVIOUS
<1> QED BY <1>1, NothingInPairs DEF RequestsInit, RequestsInv, OnlyPairs

(* A step that adds or takes away messages.                                *)
LEMMA HistoryChanged ==
  ASSUME RequestsInv, messages' \in Seq(HistMsgs), open' \subseteq ToolIds, body' = <<>>
  PROVE  RequestsInv'
<1>1. <<>> \in Seq(FlatMsgs)
  OBVIOUS
<1>2. OnlyPairs'
  BY NothingInPairs DEF OnlyPairs
<1> QED BY <1>1, <1>2 DEF RequestsInv

LEMMA MessageAdded ==
  ASSUME RequestsInv, NEW m \in HistMsgs, messages' = Append(messages, m), open' \subseteq ToolIds, body' = <<>>
  PROVE  RequestsInv'
<1>1. messages \in Seq(HistMsgs)
  BY DEF RequestsInv
<1>2. messages' \in Seq(HistMsgs)
  BY <1>1, AppendProperties
<1> QED BY <1>2, HistoryChanged

LEMMA IdsGiven ==
  ASSUME NEW ids \in SeqOf(ToolIds, 2)
  PROVE  ids \in Seq(ToolIds) /\ ToSet(ids) \subseteq ToolIds
<1>1. PICK n \in 0 .. 2 : ids \in [1 .. n -> ToolIds]
  BY DEF SeqOf
<1> QED BY <1>1 DEF ToSet

LEMMA RequestsStep == RequestsInv /\ [RequestsNext]_requestsVars => RequestsInv'
<1> SUFFICES ASSUME RequestsInv, [RequestsNext]_requestsVars PROVE RequestsInv'
  OBVIOUS
<1>1. messages \in Seq(HistMsgs) /\ open \subseteq ToolIds
  BY DEF RequestsInv
<1>2. CASE UserSays
  <2>1. PICK none : none = <<>>
    OBVIOUS
  <2>2. none \in Seq(ToolIds)
    BY <2>1
  <2>3. PICK m : m = Said("user", TRUE, none)
    OBVIOUS
  <2>4. m \in HistMsgs
    BY <2>2, <2>3 DEF Said, ReqMsgs, HistMsgs
  <2>5. messages' = Append(messages, m) /\ open' = {} /\ body' = <<>>
    BY <1>2, <2>1, <2>3, Zenon DEF UserSays
  <2> QED BY <2>4, <2>5, MessageAdded
<1>3. CASE LeftOut
  <2>1. PICK i \in DOMAIN messages : messages' = RemoveAt(messages, i)
    BY <1>3 DEF LeftOut
  <2>2. PICK n \in Nat : n = Len(messages) /\ DOMAIN messages = 1 .. n
    BY <1>1
  <2>3. SubSeq(messages, 1, i - 1) \in Seq(HistMsgs) /\ SubSeq(messages, i + 1, n) \in Seq(HistMsgs)
    <3>1. i \in 1 .. n
      BY <2>2
    <3>2. \A k \in 1 .. n : messages[k] \in HistMsgs
      BY <1>1, <2>2
    <3>3. SubSeq(messages, 1, i - 1) \in Seq(HistMsgs)
      BY <1>1, <2>2, <3>1, <3>2, SubSeqProperties
    <3>4. SubSeq(messages, i + 1, n) \in Seq(HistMsgs)
      BY <1>1, <2>2, <3>1, <3>2, SubSeqProperties
    <3> QED BY <3>3, <3>4
  <2>4. messages' \in Seq(HistMsgs)
    BY <2>1, <2>2, <2>3, ConcatProperties DEF RemoveAt
  <2>5. open' = {} /\ body' = <<>>
    BY <1>3 DEF LeftOut
  <2> QED BY <2>4, <2>5, HistoryChanged
<1>4. CASE BuildRequest
  <2>1. messages' = messages /\ open' = open
    BY <1>4 DEF BuildRequest
  <2>2. PICK flat : flat = Flattened(messages)
    OBVIOUS
  <2>3. flat \in Seq(FlatMsgs)
    BY <1>1, <2>2, FlatIs
  <2>4. PICK sent : sent = Sanitized(flat)
    OBVIOUS
  <2>5. body' = sent
    BY <1>4, <2>2, <2>4, Zenon DEF BuildRequest
  <2>6. sent \in Seq(FlatMsgs) /\ IdsOf(sent, "assistant") = IdsOf(sent, "tool")
    BY <2>3, <2>4, SentFrom, SentInPairs
  <2>7. OnlyPairs'
    BY <2>5, <2>6, Zenon DEF OnlyPairs
  <2> QED BY <1>1, <2>1, <2>5, <2>6, <2>7 DEF RequestsInv
<1>5. ASSUME NEW ids \in SeqOf(ToolIds, 2), Results(ids) PROVE RequestsInv'
  <2>1. ids \in Seq(ToolIds) /\ ids # <<>>
    BY <1>5, IdsGiven DEF Results
  <2>2. PICK m : m = Said("tool", FALSE, ids)
    OBVIOUS
  <2>3. m \in HistMsgs
    BY <2>1, <2>2 DEF Said, ReqMsgs, HistMsgs
  <2>4. messages' = Append(messages, m) /\ open' \subseteq ToolIds /\ body' = <<>>
    BY <1>1, <1>5, <2>2 DEF Results
  <2> QED BY <2>3, <2>4, MessageAdded
<1>6. ASSUME NEW ids \in SeqOf(ToolIds, 2), NEW text \in BOOLEAN, Answered(text, ids) PROVE RequestsInv'
  <2>1. ids \in Seq(ToolIds) /\ ToSet(ids) \subseteq ToolIds
    BY IdsGiven
  <2>2. PICK m : m = Said("assistant", text, ids)
    OBVIOUS
  <2>3. m \in HistMsgs
    <3>1. m.role = "assistant" /\ m \in ReqMsgs
      BY <2>1, <2>2 DEF Said, ReqMsgs
    <3> QED BY <3>1 DEF HistMsgs
  <2>4. messages' = Append(messages, m) /\ open' \subseteq ToolIds /\ body' = <<>>
    BY <1>6, <2>1, <2>2 DEF Answered
  <2> QED BY <2>3, <2>4, MessageAdded
<1>7. CASE UNCHANGED requestsVars
  <2>1. messages' = messages /\ open' = open /\ body' = body
    BY <1>7 DEF requestsVars
  <2> QED BY <2>1 DEF RequestsInv, OnlyPairs
<1> QED BY <1>2, <1>3, <1>4, <1>5, <1>6, <1>7 DEF RequestsNext

LEMMA RequestsMean == RequestsInv => RequestsSound
<1> SUFFICES ASSUME RequestsInv PROVE OnlyPairs /\ NothingElseLost /\ PairsStayTogether
  BY DEF RequestsSound
<1>1. messages \in Seq(HistMsgs) /\ OnlyPairs
  BY DEF RequestsInv
<1>2. PICK flat : flat = Flattened(messages)
  OBVIOUS
<1>3. PICK sent : sent = Sanitized(flat)
  OBVIOUS
<1>4. flat \in Seq(FlatMsgs)
  BY <1>1, <1>2, FlatIs
<1>5. sent \in Seq(FlatMsgs) /\ IdsOf(sent, "assistant") = IdsOf(sent, "tool")
  BY <1>3, <1>4, SentFrom, SentInPairs
<1>6. Those(Roles(sent), Spoken) = Those(Roles(flat), Spoken)
  BY <1>3, <1>4, SpokenStays
<1>7. IdsOf(flat, "assistant") = IdsOf(flat, "tool") => sent = flat
  BY <1>3, <1>4, PairsUnchanged
<1>8. Sanitized(sent) = sent
  BY <1>5, PairsUnchanged
<1>9. NothingElseLost
  BY <1>2, <1>3, <1>6, <1>7, <1>8, Zenon DEF NothingElseLost
<1>10. PairsStayTogether
  <2>1. (\A i \in {j \in DOMAIN flat : flat[j].role = "tool"} : Follows(flat, i)) =>
           \A i \in {j \in DOMAIN sent : sent[j].role = "tool"} : Follows(sent, i)
    BY <1>3, <1>4, TogetherStays
  <2> QED BY <1>2, <1>3, <2>1, Zenon DEF PairsStayTogether
<1> QED BY <1>1, <1>9, <1>10

(* A request has calls with their results and nothing else of them, keeps  *)
(* all that was said, and leaves results behind their calls.               *)
THEOREM RequestsSoundHolds == RequestsSpec => []RequestsSound
BY RequestsStarts, RequestsStep, RequestsMean, PTL DEF RequestsSpec

-----------------------------------------------------------------------------
(* The keys of a provider, for any number of keys and calls.               *)

\* What a remainder is, and the one that comes next.
LEMMA ModFacts ==
  ASSUME NEW K \in Nat \ {0}, NEW a \in Nat
  PROVE  a % K \in 0 .. K-1 /\ a \div K \in Int /\ a = K * (a \div K) + (a % K)
  OBVIOUS

\* Of two multiples the bigger one is bigger by a whole one.
LEMMA Bigger == ASSUME NEW K \in Nat \ {0}, NEW q \in Int, NEW p \in Int, q > p
  PROVE K * q >= K * p + K
<1>1. PICK d \in Nat : q = p + 1 + d
  <2>1. q - p - 1 \in Nat
    OBVIOUS
  <2>2. q = p + 1 + (q - p - 1)
    OBVIOUS
  <2> QED BY <2>1, <2>2
<1>2. K * q = K * p + K + K * d
  BY <1>1
<1>3. K * d >= 0
  OBVIOUS
<1> QED BY <1>2, <1>3

LEMMA ModOfZero == ASSUME NEW K \in Nat \ {0} PROVE 0 % K = 0
<1> DEFINE p == 0 \div K  s == 0 % K
<1>1. p \in Int /\ s \in 0 .. K - 1 /\ 0 = K * p + s
  BY ModFacts
<1> HIDE DEF p, s
<1>2. ~(p > 0)
  <2>1. p > 0 => K * p >= K * 0 + K
    BY <1>1, Bigger
  <2> QED BY <1>1, <2>1
<1>3. ~(0 > p)
  <2>1. 0 > p => K * 0 >= K * p + K
    BY <1>1, Bigger
  <2> QED BY <1>1, <2>1
<1>4. s = 0
  BY <1>1, <1>2, <1>3
<1> QED BY <1>4 DEF s

LEMMA ModOfNext ==
  ASSUME NEW K \in Nat \ {0}, NEW a \in Nat
  PROVE  (a + 1) % K = IF a % K = K - 1 THEN 0 ELSE (a % K) + 1
<1> DEFINE q == a \div K  r == a % K  p == (a + 1) \div K  s == (a + 1) % K
<1>1. q \in Int /\ r \in 0 .. K - 1 /\ a = K * q + r
  BY ModFacts
<1>2. p \in Int /\ s \in 0 .. K - 1 /\ a + 1 = K * p + s
  BY ModFacts
<1> HIDE DEF q, r, p, s
<1>3. K * q + r + 1 = K * p + s /\ K * q \in Int /\ K * p \in Int
  BY <1>1, <1>2
<1>4. CASE r = K - 1
  <2>1. K * (q + 1) = K * q + K
    BY <1>1
  <2>2. ~(p > q + 1)
    <3>1. p > q + 1 => K * p >= K * (q + 1) + K
      BY <1>1, <1>2, Bigger
    <3> QED BY <1>1, <1>2, <1>3, <1>4, <2>1, <3>1
  <2>3. ~(q + 1 > p)
    <3>1. q + 1 > p => K * (q + 1) >= K * p + K
      BY <1>1, <1>2, Bigger
    <3> QED BY <1>1, <1>2, <1>3, <1>4, <2>1, <3>1
  <2>4. p = q + 1
    BY <1>1, <1>2, <2>2, <2>3
  <2>5. s = 0
    BY <1>1, <1>2, <1>3, <1>4, <2>1, <2>4
  <2> QED BY <1>4, <2>5 DEF r, s
<1>5. CASE r # K - 1
  <2>2. ~(p > q)
    <3>1. p > q => K * p >= K * q + K
      BY <1>1, <1>2, Bigger
    <3> QED BY <1>1, <1>2, <1>3, <1>5, <3>1
  <2>3. ~(q > p)
    <3>1. q > p => K * q >= K * p + K
      BY <1>1, <1>2, Bigger
    <3> QED BY <1>1, <1>2, <1>3, <1>5, <3>1
  <2>4. p = q
    BY <1>1, <1>2, <2>2, <2>3
  <2>5. s = r + 1
    BY <1>1, <1>2, <1>3, <2>4
  <2> QED BY <1>5, <2>5 DEF r, s
<1> QED BY <1>4, <1>5

(* The key in use.  As long as calls have not crossed, the only call in    *)
(* flight was sent with it, and the keys before it were refused once more  *)
(* than those from it on.                                                  *)
KeyInUse == keyIndex % KeyCount
KeysInv ==
  /\ KeysTypeOK
  /\ ~keysCrossed => /\ \A c, d \in KeyCalls : InFlight(c) /\ InFlight(d) => c = d
                     /\ \A c \in KeyCalls : InFlight(c) => askedWith[c] = KeyInUse
                     /\ \A k, l \in KeyIds : /\ (k < KeyInUse <=> l < KeyInUse) => keyRefusals[k] = keyRefusals[l]
                                             /\ k < KeyInUse /\ KeyInUse <= l => keyRefusals[k] = keyRefusals[l] + 1

LEMMA KeysAssumption == KeyCount \in Nat \ {0} /\ MaxRefusals \in Nat
  BY AnswersAssumption

LEMMA KeyInUseIsKey == ASSUME KeysTypeOK PROVE KeyInUse \in KeyIds /\ KeyCount \notin KeyIds
<1> USE KeysAssumption
<1>1. keyIndex % KeyCount \in 0 .. KeyCount - 1
  BY ModFacts DEF KeysTypeOK
<1>2. KeyCount \notin 0 .. KeyCount - 1
  OBVIOUS
<1> QED BY <1>1, <1>2 DEF KeyInUse, KeyIds

LEMMA KeysStart == KeysInit => KeysInv
<1> USE KeysAssumption
<1> SUFFICES ASSUME KeysInit PROVE KeysInv
  OBVIOUS
<1>1. KeysTypeOK
  <2>1. KeyCount \in 0 .. KeyCount /\ 0 \in 0 .. MaxRefusals
    OBVIOUS
  <2> QED BY <2>1 DEF KeysInit, KeysTypeOK
<1>2. KeyInUse = 0
  BY ModOfZero DEF KeysInit, KeyInUse
<1>3. \A c \in KeyCalls : ~InFlight(c)
  BY DEF KeysInit, InFlight
<1>4. \A k \in KeyIds : keyRefusals[k] = 0 /\ ~(k < KeyInUse)
  BY <1>2 DEF KeysInit, KeyIds
<1> QED BY <1>1, <1>3, <1>4 DEF KeysInv

LEMMA KeysStep == KeysInv /\ [KeysNext]_keysVars => KeysInv'
<1> USE KeysAssumption
<1> SUFFICES ASSUME KeysInv, [KeysNext]_keysVars PROVE KeysInv'
  OBVIOUS
<1>1. KeysTypeOK /\ KeyInUse \in KeyIds /\ KeyCount \notin KeyIds
  BY KeyInUseIsKey DEF KeysInv
<1>2. ASSUME NEW c \in KeyCalls, AskProvider(c) PROVE KeysInv'
  <2>1. /\ ~InFlight(c) /\ askedWith' = [askedWith EXCEPT ![c] = KeyInUse]
        /\ keysCrossed' = (keysCrossed \/ \E d \in KeyCalls : InFlight(d))
        /\ keyIndex' = keyIndex /\ keyRefusals' = keyRefusals
    BY <1>2 DEF AskProvider, KeyInUse
  <2>2. KeyInUse' = KeyInUse
    BY <2>1 DEF KeyInUse
  <2>3. KeysTypeOK'
    BY <1>1, <2>1 DEF KeysTypeOK, KeyIds
  <2>4. ASSUME ~keysCrossed'
        PROVE  /\ \A e, d \in KeyCalls : InFlight(e)' /\ InFlight(d)' => e = d
               /\ \A d \in KeyCalls : InFlight(d)' => askedWith'[d] = KeyInUse'
    <3>1. \A d \in KeyCalls : ~InFlight(d)
      BY <2>1, <2>4
    <3>2. \A d \in KeyCalls : InFlight(d)' => d = c
      BY <1>1, <2>1, <3>1 DEF InFlight, KeysTypeOK
    <3>3. askedWith'[c] = KeyInUse'
      BY <1>1, <2>1, <2>2 DEF KeysTypeOK
    <3> QED BY <3>2, <3>3
  <2>5. ~keysCrossed' => ~keysCrossed
    BY <2>1
  <2> QED BY <2>1, <2>2, <2>3, <2>4, <2>5 DEF KeysInv
<1>3. ASSUME NEW c \in KeyCalls, KeyRefused(c) PROVE KeysInv'
  <2>1. /\ InFlight(c) /\ askedWith' = [askedWith EXCEPT ![c] = KeyCount]
        /\ keyRefusals[askedWith[c]] < MaxRefusals
        /\ keyRefusals' = [keyRefusals EXCEPT ![askedWith[c]] = @ + 1]
        /\ keyIndex' = keyIndex + 1 /\ keysCrossed' = keysCrossed
    BY <1>3 DEF KeyRefused, CallOver, RotateKey
  <2>2. askedWith[c] \in KeyIds
    BY <1>1, <2>1 DEF InFlight, KeysTypeOK, KeyIds
  <2>3. KeysTypeOK'
    BY <1>1, <2>1, <2>2 DEF KeysTypeOK, KeyIds
  <2>4. ASSUME ~keysCrossed PROVE \A d \in KeyCalls : ~InFlight(d)'
    BY <1>1, <2>1, <2>4 DEF KeysInv, InFlight, KeysTypeOK
  <2>5. KeyInUse' = IF KeyInUse = KeyCount - 1 THEN 0 ELSE KeyInUse + 1
    BY <1>1, <2>1, ModOfNext DEF KeyInUse, KeysTypeOK
  <2>6. ASSUME ~keysCrossed, NEW k \in KeyIds, NEW l \in KeyIds
        PROVE  /\ (k < KeyInUse' <=> l < KeyInUse') => keyRefusals'[k] = keyRefusals'[l]
               /\ k < KeyInUse' /\ KeyInUse' <= l => keyRefusals'[k] = keyRefusals'[l] + 1
    <3> DEFINE i == KeyInUse
    <3>1. i = askedWith[c] /\ i \in KeyIds
      BY <1>1, <2>1, <2>6 DEF KeysInv
    <3>2. /\ (k < i <=> l < i) => keyRefusals[k] = keyRefusals[l]
          /\ (k < i <=> i < i) => keyRefusals[k] = keyRefusals[i]
          /\ (i < i <=> l < i) => keyRefusals[i] = keyRefusals[l]
          /\ k < i /\ i <= l => keyRefusals[k] = keyRefusals[l] + 1
          /\ l < i /\ i <= k => keyRefusals[l] = keyRefusals[k] + 1
      BY <1>1, <2>6 DEF KeysInv
    <3>3. /\ keyRefusals'[k] = IF k = i THEN keyRefusals[k] + 1 ELSE keyRefusals[k]
          /\ keyRefusals'[l] = IF l = i THEN keyRefusals[l] + 1 ELSE keyRefusals[l]
          /\ keyRefusals[k] \in Nat /\ keyRefusals[l] \in Nat
      BY <1>1, <2>1, <3>1 DEF KeysTypeOK
    <3>4. KeyInUse' = IF i = KeyCount - 1 THEN 0 ELSE i + 1
      BY <2>5
    <3>5. k \in 0 .. KeyCount - 1 /\ l \in 0 .. KeyCount - 1 /\ i \in 0 .. KeyCount - 1
      BY <3>1 DEF KeyIds
    <3> HIDE DEF i
    <3>6. CASE i = KeyCount - 1
      BY <3>2, <3>3, <3>4, <3>5, <3>6
    <3>7. CASE i # KeyCount - 1
      BY <3>2, <3>3, <3>4, <3>5, <3>7
    <3> QED BY <3>6, <3>7
  <2> QED BY <2>1, <2>3, <2>4, <2>6 DEF KeysInv
<1>4. ASSUME NEW c \in KeyCalls, NotRefused(c) PROVE KeysInv'
  <2>1. /\ askedWith' = [askedWith EXCEPT ![c] = KeyCount]
        /\ UNCHANGED <<keyIndex, keyRefusals, keysCrossed>>
    BY <1>4 DEF NotRefused, CallOver
  <2>2. KeyInUse' = KeyInUse
    BY <2>1 DEF KeyInUse
  <2>3. KeysTypeOK'
    BY <1>1, <2>1 DEF KeysTypeOK, KeyIds
  <2>4. \A d \in KeyCalls : InFlight(d)' => InFlight(d) /\ askedWith'[d] = askedWith[d]
    BY <1>1, <2>1 DEF InFlight, KeysTypeOK
  <2> QED BY <2>1, <2>2, <2>3, <2>4 DEF KeysInv
<1>5. CASE UNCHANGED keysVars
  BY <1>5 DEF keysVars, KeysInv, KeysTypeOK, KeyInUse, InFlight
<1> QED BY <1>2, <1>3, <1>4, <1>5 DEF KeysNext

\* The keys alone.
KeysSpec == KeysInit /\ [][KeysNext]_keysVars

(* As long as calls do not cross, no key is refused a second time before   *)
(* each of the others was refused once more.                               *)
THEOREM KeysInTurnHolds == KeysSpec => []KeysInTurn
<1>1. KeysInv => KeysInTurn
  <2> SUFFICES ASSUME KeysInv, ~keysCrossed, NEW k \in KeyIds, NEW l \in KeyIds
               PROVE  keyRefusals[k] <= keyRefusals[l] + 1
    BY DEF KeysInTurn
  <2>1. keyRefusals[k] \in Nat /\ keyRefusals[l] \in Nat
    BY DEF KeysInv, KeysTypeOK
  <2>2. KeyInUse \in Int /\ k \in Int /\ l \in Int
    BY KeyInUseIsKey, KeysAssumption DEF KeysInv, KeyIds
  <2>3. /\ (k < KeyInUse <=> l < KeyInUse) => keyRefusals[k] = keyRefusals[l]
        /\ k < KeyInUse /\ KeyInUse <= l => keyRefusals[k] = keyRefusals[l] + 1
        /\ l < KeyInUse /\ KeyInUse <= k => keyRefusals[l] = keyRefusals[k] + 1
    BY DEF KeysInv
  <2> QED BY <2>1, <2>2, <2>3
<1> QED BY <1>1, KeysStart, KeysStep, PTL DEF KeysSpec

-----------------------------------------------------------------------------
(* Polling a conversation.  What is left of a page is behind the cursor,   *)
(* in order, and without a gap unless a page was too small; what was       *)
(* forwarded is before it, in order.                                       *)
PollTypes ==
  /\ posts \in Seq(PostKinds) /\ cursor \in 0 .. Len(posts) /\ began \in 0 .. Len(posts)
  /\ page \in Seq(Nat) /\ forwarded \in Seq(Nat)
  /\ page # <<>> => polling = "page"
PageAhead ==
  /\ \A i \in 1 .. Len(page) : cursor < page[i] /\ page[i] <= Len(posts)
  /\ \A i, j \in 1 .. Len(page) : i < j => page[i] < page[j]
  /\ ~overfull => \A i \in 1 .. Len(page) : page[i] = cursor + i
ForwardedBehind ==
  /\ \A i \in 1 .. Len(forwarded) : forwarded[i] <= cursor
  /\ \A i, j \in 1 .. Len(forwarded) : i < j => forwarded[i] < forwarded[j]
  /\ ~overfull => \A m \in 1 .. Len(posts) :
       began < m /\ m <= cursor /\ posts[m] = "user" =>
         \E i \in 1 .. Len(forwarded) : forwarded[i] = m
PollInv == PollTypes /\ PageAhead /\ ForwardedBehind

LEMMA PollStarts == PollInit => PollInv
BY DEF PollInit, PollInv, PollTypes, PageAhead, ForwardedBehind

LEMMA PostMessageKept ==
  ASSUME PollInv, NEW kind \in PostKinds, PostMessage(kind)
  PROVE  PollInv'
<1>1. /\ posts' = Append(posts, kind)
      /\ UNCHANGED <<cursor, page, polling, shutdown, forwarded, starts, began, overfull>>
  BY DEF PostMessage
<1>2. /\ posts' \in Seq(PostKinds) /\ Len(posts') = Len(posts) + 1 /\ Len(posts) \in Nat
      /\ \A m \in 1 .. Len(posts) : posts'[m] = posts[m]
  BY <1>1 DEF PollInv, PollTypes
<1>3. PollTypes'
  BY <1>1, <1>2 DEF PollInv, PollTypes
<1>4. PageAhead'
  BY <1>1, <1>2 DEF PollInv, PollTypes, PageAhead
<1>5. ForwardedBehind'
  BY <1>1, <1>2 DEF PollInv, PollTypes, ForwardedBehind
<1> QED BY <1>3, <1>4, <1>5 DEF PollInv

(* The ends of a sequence of numbers.                                     *)
LEMMA FrontAndBack ==
  ASSUME NEW s \in Seq(Nat), NEW m \in Nat \ {0}, m <= Len(s)
  PROVE  /\ SubSeq(s, 1, m) \in Seq(Nat) /\ Len(SubSeq(s, 1, m)) = m
         /\ \A i \in 1 .. m : SubSeq(s, 1, m)[i] = s[i]
         /\ SubSeq(s, Len(s) - m + 1, Len(s)) \in Seq(Nat)
         /\ Len(SubSeq(s, Len(s) - m + 1, Len(s))) = m
         /\ \A i \in 1 .. m : SubSeq(s, Len(s) - m + 1, Len(s))[i] = s[Len(s) - m + i]
<1>1. Len(s) \in Nat /\ \A i \in 1 .. Len(s) : s[i] \in Nat
  OBVIOUS
<1>2. SubSeq(s, 1, m) \in Seq(Nat) /\ Len(SubSeq(s, 1, m)) = m
  BY <1>1, SubSeqProperties
<1>3. \A i \in 1 .. m : SubSeq(s, 1, m)[i] = s[i]
  BY <1>1, SubSeqProperties
<1>4. SubSeq(s, Len(s) - m + 1, Len(s)) \in Seq(Nat)
  BY <1>1, SubSeqProperties
<1>5. Len(SubSeq(s, Len(s) - m + 1, Len(s))) = m
  BY <1>1, SubSeqProperties
<1>6. \A i \in 1 .. m : SubSeq(s, Len(s) - m + 1, Len(s))[i] = s[Len(s) - m + i]
  BY <1>1, SubSeqProperties
<1> QED BY <1>2, <1>3, <1>4, <1>5, <1>6

LEMMA HeadAndTail ==
  ASSUME NEW s \in Seq(Nat), s # <<>>
  PROVE  /\ Head(s) = s[1] /\ Len(s) \in Nat /\ Len(s) >= 1
         /\ Tail(s) \in Seq(Nat) /\ Len(Tail(s)) = Len(s) - 1
         /\ \A i \in 1 .. Len(Tail(s)) : i + 1 \in 1 .. Len(s) /\ Tail(s)[i] = s[i + 1]
<1>1. Head(s) = s[1] /\ Len(s) \in Nat /\ Len(s) >= 1
  BY HeadTailProperties
<1>2. Tail(s) \in Seq(Nat) /\ Len(Tail(s)) = Len(s) - 1
  BY HeadTailProperties
<1>3. \A i \in 1 .. Len(Tail(s)) : Tail(s)[i] = s[i + 1]
  BY HeadTailProperties
<1> QED BY <1>1, <1>2, <1>3

(* The pages the service may answer with: what is new, in order, and its   *)
(* beginning unless there was more than a page.                            *)
Ahead(p) ==
  /\ p \in Seq(Nat)
  /\ \A i \in 1 .. Len(p) : cursor < p[i] /\ p[i] <= Len(posts)
  /\ \A i, j \in 1 .. Len(p) : i < j => p[i] < p[j]
  /\ Len(Unread) <= PageSize => \A i \in 1 .. Len(p) : p[i] = cursor + i

LEMMA PagesAhead == ASSUME PollInv, NEW p \in Pages PROVE Ahead(p)
<1>1. /\ Len(posts) \in Nat /\ cursor \in Nat /\ cursor <= Len(posts)
      /\ PageSize \in Nat \ {0}
  BY PollAssumption DEF PollInv, PollTypes
<1>2. PICK n \in Nat : n = Len(posts) - cursor
  BY <1>1
<1>3. PICK s : s = [i \in 1 .. n |-> cursor + i]
  OBVIOUS
<1>4. s \in Seq(Nat)
  BY <1>1, <1>3
<1>5. Len(s) = n /\ \A i \in 1 .. n : s[i] = cursor + i
  BY <1>3
<1>6. Unread = s
  BY <1>2, <1>3 DEF Unread
<1>7. CASE n <= PageSize
  <2>1. p = s
    BY <1>5, <1>6, <1>7 DEF Pages
  <2>2. \A i \in 1 .. Len(p) : cursor < p[i] /\ p[i] <= Len(posts)
    BY <1>1, <1>2, <1>5, <2>1
  <2>3. \A i, j \in 1 .. Len(p) : i < j => p[i] < p[j]
    BY <1>1, <1>2, <1>5, <2>1
  <2> QED BY <1>4, <1>5, <2>1, <2>2, <2>3 DEF Ahead
<1>8. CASE n > PageSize
  <2>0. PageSize <= Len(s)
    BY <1>1, <1>5, <1>8
  <2>1. p = SubSeq(s, 1, PageSize) \/ p = SubSeq(s, Len(s) - PageSize + 1, Len(s))
    <3>1. ~(Len(Unread) <= PageSize)
      BY <1>1, <1>5, <1>6, <1>8
    <3>2. \/ p = SubSeq(Unread, 1, PageSize)
          \/ p = SubSeq(Unread, Len(Unread) - PageSize + 1, Len(Unread))
      BY <3>1, Zenon DEF Pages
    <3> QED BY <1>6, <3>2, Zenon
  <2>2. p \in Seq(Nat) /\ Len(p) = PageSize
    BY <1>1, <1>4, <2>0, <2>1, FrontAndBack
  <2>3. (\A i \in 1 .. PageSize : p[i] = s[i])
        \/ \A i \in 1 .. PageSize : p[i] = s[Len(s) - PageSize + i]
    <3>1. CASE p = SubSeq(s, 1, PageSize)
      BY <1>1, <1>4, <2>0, <3>1, FrontAndBack, Zenon
    <3>2. CASE p = SubSeq(s, Len(s) - PageSize + 1, Len(s))
      BY <1>1, <1>4, <2>0, <3>2, FrontAndBack, Zenon
    <3> QED BY <2>1, <3>1, <3>2
  <2>4. PICK k \in Nat : k <= n - PageSize /\ \A i \in 1 .. PageSize : p[i] = cursor + k + i
    <3>1. CASE \A i \in 1 .. PageSize : p[i] = s[i]
      <4>1. \A i \in 1 .. PageSize : p[i] = cursor + 0 + i
        BY <1>1, <1>5, <1>8, <3>1
      <4> QED BY <1>1, <1>8, <4>1
    <3>2. CASE \A i \in 1 .. PageSize : p[i] = s[Len(s) - PageSize + i]
      <4>1. \A i \in 1 .. PageSize : p[i] = cursor + (n - PageSize) + i
        BY <1>1, <1>5, <1>8, <3>2
      <4>2. n - PageSize \in Nat /\ n - PageSize <= n - PageSize
        BY <1>1, <1>8
      <4> HIDE <3>2
      <4> QED BY <4>1, <4>2, Zenon
    <3> QED BY <2>3, <3>1, <3>2
  <2>5. ~(Len(Unread) <= PageSize)
    BY <1>1, <1>5, <1>6, <1>8
  <2>6. \A i \in 1 .. Len(p) : cursor < p[i] /\ p[i] <= Len(posts)
    BY <1>1, <1>2, <2>2, <2>4
  <2>7. \A i, j \in 1 .. Len(p) : i < j => p[i] < p[j]
    BY <1>1, <2>2, <2>4
  <2> QED BY <2>2, <2>5, <2>6, <2>7 DEF Ahead
<1> QED BY <1>1, <1>7, <1>8

LEMMA FetchKept ==
  ASSUME PollInv, FetchHistory
  PROVE  PollInv'
<1>1. /\ page' \in Pages /\ polling' = "page" /\ overfull' = (overfull \/ Len(Unread) > PageSize)
      /\ UNCHANGED <<posts, cursor, shutdown, forwarded, starts, began>>
  BY DEF FetchHistory
<1>2. PICK p \in Pages : p = page'
  BY <1>1
<1>3. Ahead(p)
  BY PagesAhead
<1>4. ~overfull' => ~overfull /\ Len(Unread) <= PageSize
  <2>1. Len(Unread) \in Nat
    BY DEF Unread, PollInv, PollTypes
  <2>2. Len(Unread) <= PageSize \/ Len(Unread) > PageSize
    BY <2>1, PollAssumption
  <2> QED BY <1>1, <2>2, Zenon
<1>5. PollTypes'
  BY <1>1, <1>2, <1>3 DEF PollInv, PollTypes, Ahead
<1>6. PageAhead'
  <2>1. /\ \A i \in 1 .. Len(p) : cursor < p[i] /\ p[i] <= Len(posts)
        /\ \A i, j \in 1 .. Len(p) : i < j => p[i] < p[j]
        /\ ~overfull' => \A i \in 1 .. Len(p) : p[i] = cursor + i
    BY <1>3, <1>4 DEF Ahead
  <2>2. posts' = posts /\ cursor' = cursor /\ page' = p
    BY <1>1, <1>2
  <2> QED BY <2>1, <2>2 DEF PageAhead
<1>7. ForwardedBehind'
  BY <1>1, <1>4 DEF PollInv, ForwardedBehind
<1> QED BY <1>5, <1>6, <1>7 DEF PollInv

LEMMA ProcessKept ==
  ASSUME PollInv, ProcessMessage
  PROVE  PollInv'
<1>0. PICK m : m = Head(page)
  OBVIOUS
<1>1. /\ polling = "page" /\ page # <<>> /\ cursor' = (IF m > cursor THEN m ELSE cursor)
      /\ forwarded' = (IF posts[m] = "user" THEN Append(forwarded, m) ELSE forwarded)
      /\ page' = Tail(page)
      /\ UNCHANGED <<posts, polling, shutdown, starts, began, overfull>>
  BY <1>0 DEF ProcessMessage, Advance
<1>2. /\ page \in Seq(Nat) /\ cursor \in Nat /\ Len(posts) \in Nat /\ forwarded \in Seq(Nat)
      /\ began \in Nat /\ posts \in Seq(PostKinds)
  BY DEF PollInv, PollTypes
<1>3. m = page[1] /\ Len(page) >= 1 /\ Len(page) \in Nat
  BY <1>0, <1>1, <1>2, HeadAndTail
<1>4. /\ m \in Nat /\ cursor < m /\ m <= Len(posts)
      /\ ~overfull => m = cursor + 1
  BY <1>2, <1>3 DEF PollInv, PageAhead
<1>5. cursor' = m
  BY <1>1, <1>2, <1>4
<1>6. /\ page' \in Seq(Nat) /\ Len(page') = Len(page) - 1
      /\ \A i \in 1 .. Len(page') : i + 1 \in 1 .. Len(page) /\ page'[i] = page[i + 1]
  BY <1>1, <1>2, HeadAndTail
<1>7. PageAhead'
  <2>0. /\ \A i \in 1 .. Len(page) : page[i] <= Len(posts)
        /\ \A i, j \in 1 .. Len(page) : i < j => page[i] < page[j]
    BY DEF PollInv, PageAhead
  <2>1. ASSUME NEW i \in 1 .. Len(page') PROVE m < page'[i] /\ page'[i] <= Len(posts)
    <3>1. i + 1 \in 1 .. Len(page) /\ page'[i] = page[i + 1] /\ 1 < i + 1 /\ 1 \in 1 .. Len(page)
      BY <1>3, <1>6
    <3> QED BY <1>3, <2>0, <3>1
  <2>2. ASSUME NEW i \in 1 .. Len(page'), NEW j \in 1 .. Len(page'), i < j
        PROVE  page'[i] < page'[j]
    <3>1. /\ i + 1 \in 1 .. Len(page) /\ page'[i] = page[i + 1]
          /\ j + 1 \in 1 .. Len(page) /\ page'[j] = page[j + 1]
      BY <1>6
    <3>2. i + 1 < j + 1
      BY <2>2
    <3> QED BY <2>0, <3>1, <3>2
  <2>3. ASSUME ~overfull, NEW i \in 1 .. Len(page') PROVE page'[i] = m + i
    <3>1. page[i + 1] = cursor + (i + 1)
      BY <1>6, <2>3 DEF PollInv, PageAhead
    <3> QED BY <1>2, <1>3, <1>4, <1>6, <2>3, <3>1
  <2> QED BY <1>1, <1>5, <2>1, <2>2, <2>3 DEF PageAhead
<1>8. PollTypes'
  <2>1. forwarded' \in Seq(Nat)
    BY <1>1, <1>2, <1>4
  <2> QED BY <1>1, <1>4, <1>5, <1>6, <2>1 DEF PollInv, PollTypes
<1>9. ForwardedBehind'
  <2>1. CASE posts[m] = "user"
    <3>1. /\ Len(forwarded') = Len(forwarded) + 1 /\ forwarded'[Len(forwarded) + 1] = m
          /\ \A i \in 1 .. Len(forwarded) : forwarded'[i] = forwarded[i]
          /\ Len(forwarded) \in Nat
      BY <1>1, <1>2, <1>4, <2>1
    <3>2. \A i \in 1 .. Len(forwarded) : forwarded[i] < m /\ forwarded[i] \in Nat
      BY <1>2, <1>4 DEF PollInv, ForwardedBehind
    <3>3. \A i \in 1 .. Len(forwarded') : forwarded'[i] <= m
      BY <1>4, <3>1, <3>2
    <3>4. ASSUME NEW i \in 1 .. Len(forwarded'), NEW j \in 1 .. Len(forwarded'), i < j
          PROVE  forwarded'[i] < forwarded'[j]
      <4>1. i \in 1 .. Len(forwarded) /\ (j \in 1 .. Len(forwarded) \/ j = Len(forwarded) + 1)
        BY <3>1, <3>4
      <4>2. CASE j \in 1 .. Len(forwarded)
        BY <3>1, <3>4, <4>1, <4>2 DEF PollInv, ForwardedBehind
      <4>3. CASE j = Len(forwarded) + 1
        BY <3>1, <3>2, <4>1, <4>3
      <4> QED BY <4>1, <4>2, <4>3
    <3>5. ASSUME ~overfull, NEW n \in 1 .. Len(posts), began < n, n <= m, posts[n] = "user"
          PROVE  \E i \in 1 .. Len(forwarded') : forwarded'[i] = n
      <4>1. CASE n = m
        BY <3>1, <4>1
      <4>2. CASE n # m
        <5>1. n <= cursor
          BY <1>2, <1>4, <3>5, <4>2
        <5>2. PICK i \in 1 .. Len(forwarded) : forwarded[i] = n
          BY <3>5, <5>1 DEF PollInv, ForwardedBehind
        <5> QED BY <3>1, <5>2
      <4> QED BY <4>1, <4>2
    <3> QED BY <1>1, <1>5, <3>3, <3>4, <3>5 DEF ForwardedBehind
  <2>2. CASE posts[m] # "user"
    <3>1. forwarded' = forwarded
      BY <1>1, <2>2
    <3>2. \A i \in 1 .. Len(forwarded) : forwarded[i] <= m
      BY <1>2, <1>4 DEF PollInv, ForwardedBehind
    <3>3. ASSUME ~overfull, NEW n \in 1 .. Len(posts), began < n, n <= m, posts[n] = "user"
          PROVE  n <= cursor
      BY <1>2, <1>4, <2>2, <3>3
    <3> QED BY <1>1, <1>5, <3>1, <3>2, <3>3 DEF PollInv, ForwardedBehind
  <2> QED BY <2>1, <2>2
<1> QED BY <1>7, <1>8, <1>9 DEF PollInv

LEMMA StartAgainKept == PollInv /\ StartAgain => PollInv'
<1> SUFFICES ASSUME PollInv, StartAgain PROVE PollInv'
  OBVIOUS
<1>1. Len(posts) \in Nat /\ (posts # <<>> => Len(posts) - 1 \in Nat)
  BY DEF PollInv, PollTypes
<1>2. /\ began' \in 0 .. Len(posts) /\ cursor' = began' /\ page' = <<>> /\ forwarded' = <<>>
      /\ posts' = posts
  BY <1>1 DEF StartAgain
<1>3. PollTypes'
  BY <1>2 DEF PollInv, PollTypes
<1>4. PageAhead'
  BY <1>2 DEF PageAhead
<1>5. ForwardedBehind'
  BY <1>1, <1>2 DEF ForwardedBehind
<1> QED BY <1>3, <1>4, <1>5 DEF PollInv

LEMMA PollKept == PollInv /\ [PollNext]_pollVars => PollInv'
<1> SUFFICES ASSUME PollInv, [PollNext]_pollVars PROVE PollInv'
  OBVIOUS
<1>1. ASSUME UNCHANGED <<posts, cursor, forwarded, began, overfull>>,
             page' = page \/ page' = <<>>, page' # <<>> => polling' = "page"
      PROVE  PollInv'
  <2>1. page' \in Seq(Nat)
    <3>1. page \in Seq(Nat)
      BY DEF PollInv, PollTypes
    <3>2. <<>> \in Seq(Nat)
      OBVIOUS
    <3> QED BY <1>1, <3>1, <3>2, Zenon
  <2>2. PollTypes'
    <3>1. posts \in Seq(PostKinds) /\ cursor \in 0 .. Len(posts) /\ began \in 0 .. Len(posts)
          /\ forwarded \in Seq(Nat)
      BY DEF PollInv, PollTypes
    <3>2. posts' = posts /\ cursor' = cursor /\ began' = began /\ forwarded' = forwarded
      BY <1>1
    <3> QED BY <1>1, <2>1, <3>1, <3>2 DEF PollTypes
  <2>3. ForwardedBehind'
    BY <1>1 DEF PollInv, ForwardedBehind
  <2>4. PageAhead'
    BY <1>1 DEF PollInv, PageAhead
  <2> QED BY <2>2, <2>3, <2>4 DEF PollInv
<1>2. CASE UNCHANGED pollVars \/ ListFails
  BY <1>1, <1>2 DEF pollVars, ListFails, PollInv, PollTypes
<1>3. CASE ListConversations \/ HistoryFails \/ RoundEnds \/ StopPolling \/ ReceiverDropped
  BY <1>1, <1>3 DEF ListConversations, HistoryFails, RoundEnds, StopPolling, ReceiverDropped,
                    PollInv, PollTypes
<1> QED BY <1>2, <1>3, PostMessageKept, FetchKept, ProcessKept, StartAgainKept DEF PollNext

(* Whatever fetches fail and pages come: no message is forwarded twice or  *)
(* out of order, and none is behind the cursor that was not forwarded,     *)
(* unless a page was too small for what was new.                           *)
THEOREM PollSoundHolds == PollInit /\ [][PollNext]_pollVars => []PollSound
<1>1. PollInv => PollSound
  <2> SUFFICES ASSUME PollInv PROVE PollSound
    OBVIOUS
  <2>1. DOMAIN forwarded = 1 .. Len(forwarded) /\ DOMAIN posts = 1 .. Len(posts)
    BY DEF PollInv, PollTypes
  <2>2. \A i, j \in DOMAIN forwarded : i < j => forwarded[i] < forwarded[j]
    BY <2>1 DEF PollInv, ForwardedBehind
  <2>3. ASSUME ~overfull, NEW m \in DOMAIN posts, began < m, m <= cursor, posts[m] = "user"
        PROVE  m \in Range(forwarded)
    <3>1. PICK i \in 1 .. Len(forwarded) : forwarded[i] = m
      BY <2>1, <2>3 DEF PollInv, ForwardedBehind
    <3> QED BY <2>1, <3>1 DEF Range
  <2> QED BY <2>2, <2>3 DEF PollSound
<1> QED BY <1>1, PollStarts, PollKept, PTL

-----------------------------------------------------------------------------
(* Every variable of these parts keeps its type.                           *)
LEMMA DecompositionTyped == DecompositionSpec => []DecompositionTypeOK
<1>1. GraphInv => DecompositionTypeOK
  BY DEF GraphInv
<1> QED BY <1>1, GraphStarts, GraphKept, PTL DEF DecompositionSpec

LEMMA StreamTyped == StreamSpec => []StreamTypeOK
<1>1. StreamInv => StreamTypeOK
  BY DEF StreamInv
<1> QED BY <1>1, StreamStarts, StreamKept, PTL DEF StreamSpec

LEMMA LambdaTyped == LambdaSpec => []LambdaTypeOK
<1>1. LambdaInv => LambdaTypeOK
  BY DEF LambdaInv
<1> QED BY <1>1, LambdaStarts, LambdaKept, PTL DEF LambdaSpec

LEMMA ContextTyped == ContextSpec => []ContextTypeOK
<1>1. ContextInv => ContextTypeOK
  BY DEF ContextInv
<1> QED BY <1>1, ContextStarts, ContextKept, PTL DEF ContextSpec

LEMMA KeysTyped == KeysSpec => []KeysTypeOK
<1>1. KeysInv => KeysTypeOK
  BY DEF KeysInv
<1> QED BY <1>1, KeysStart, KeysStep, PTL DEF KeysSpec

LEMMA CodexTyped == CodexSpec => []CodexTypeOK
<1>1. CodexInit => faulty \subseteq StreamFaults
  BY DEF CodexInit
<1>2. ASSUME faulty \subseteq StreamFaults, CodexNext PROVE faulty' \subseteq StreamFaults
  <2>1. \/ faulty' = faulty
        \/ \E f \in StreamFaults : faulty' = faulty \cup {f}
    <3>1. ASSUME NEW c \in FunctionCalls, ItemAdded(c) \/ Delta(c) \/ ItemDone(c) PROVE faulty' = faulty
      BY <3>1 DEF ItemAdded, Delta, ItemDone
    <3>2. ASSUME StreamEnds \/ DrainOrReturn PROVE faulty' = faulty \/ \E f \in StreamFaults : faulty' = faulty \cup {f}
      BY <3>2 DEF StreamEnds, DrainOrReturn
    <3>3. ASSUME BlankEvent PROVE faulty' = faulty \/ \E f \in StreamFaults : faulty' = faulty \cup {f}
      BY <3>3, Zenon DEF BlankEvent
    <3>4. ASSUME Completed PROVE faulty' = faulty \/ \E f \in StreamFaults : faulty' = faulty \cup {f}
      <4>1. CASE \E c \in FunctionCalls : item[c] = "added"
        <5>1. "silent" \in StreamFaults /\ faulty' = faulty \cup {"silent"}
          BY <3>4, <4>1, Zenon DEF Completed
        <5> QED BY <5>1
      <4>2. CASE ~\E c \in FunctionCalls : item[c] = "added"
        BY <3>4, <4>2, Zenon DEF Completed
      <4> QED BY <4>1, <4>2
    <3> QED BY <1>2, <3>1, <3>2, <3>3, <3>4 DEF CodexNext
  <2> QED BY <1>2, <2>1
<1>3. faulty \subseteq StreamFaults /\ [CodexNext]_codexVars => (faulty \subseteq StreamFaults)'
  BY <1>2 DEF codexVars
<1>4. CodexInv /\ faulty \subseteq StreamFaults => CodexTypeOK
  BY DEF CodexInv, CodexTypes, CodexTypeOK, CodexCalls, CodexUses
<1> QED BY <1>1, <1>3, <1>4, CodexInitInv, CodexStepInv, PTL DEF CodexSpec

LEMMA SplitterTyped == SplitterInit /\ [][SplitterNext]_splitterVars => []SplitterTypeOK
<1>1. SplitterInit => Len(longText) <= MaxText
  <2> SUFFICES ASSUME SplitterInit PROVE Len(longText) <= MaxText
    OBVIOUS
  <2>1. PICK n \in 0 .. MaxText : longText \in [1 .. n -> Letters]
    BY DEF SplitterInit, Texts
  <2>2. n \in Nat /\ n <= MaxText /\ longText \in Seq(Letters) /\ DOMAIN longText = 1 .. n
    BY <2>1, SplitterAssumption, SeqDef
  <2>3. Len(longText) = n
    BY <2>2, LenProperties
  <2> QED BY <2>2, <2>3
<1>2. Len(longText) <= MaxText /\ [SplitterNext]_splitterVars => (Len(longText) <= MaxText)'
  <2>1. [SplitterNext]_splitterVars => longText' = longText
    BY DEF SplitterNext, Cut, LastChunk, splitterVars
  <2> QED BY <2>1
<1>3. SplitterInv /\ Len(longText) <= MaxText => SplitterTypeOK
  BY DEF SplitterInv, SplitterTypeOK
<1> QED BY <1>1, <1>2, <1>3, SplitterStarts, SplitterKept, PTL

(* An order that waits for a proposal may ask once more; what is proposed  *)
(* was asked for.                                                          *)
AskedInBounds ==
  /\ attempts \in [Orders -> 0 .. MaxAttempts]
  /\ \A o \in Orders : OrderAt(o, "ask") =>
       attempts[o] < MaxAttempts \/ (proposal # NoProposal /\ proposal.order = o)

LEMMA AskedKept == QueenInv /\ AskedInBounds /\ [QueenNext]_queenVars => AskedInBounds'
<1> SUFFICES ASSUME QueenInv, AskedInBounds, [QueenNext]_queenVars PROVE AskedInBounds'
  OBVIOUS
<1>1. /\ MaxAttempts \in Nat /\ MaxAttempts > 0 /\ attempts \in [Orders -> 0 .. MaxAttempts]
      /\ DOMAIN ordering = Orders
  BY QueenAssumption DEF AskedInBounds, QueenInv
<1>2. ASSUME NEW o \in Orders, NEW spot, spot # "ask", Leave(o, spot),
             proposal' = NoProposal, proposal = NoProposal \/ proposal.order = o
      PROVE  AskedInBounds'
  <2>1. attempts' = [attempts EXCEPT ![o] = 0] /\ ordering' = [ordering EXCEPT ![o] = spot]
    BY <1>2 DEF Leave, OrderTo
  <2>2. attempts' \in [Orders -> 0 .. MaxAttempts]
    BY <1>1, <2>1
  <2>3. ASSUME NEW p \in Orders, OrderAt(p, "ask")' PROVE attempts'[p] < MaxAttempts
    <3>1. p # o /\ ordering'[p] = ordering[p]
      BY <1>1, <1>2, <2>1, <2>3 DEF OrderAt
    <3>2. attempts[p] < MaxAttempts
      BY <1>2, <2>3, <3>1 DEF AskedInBounds, OrderAt
    <3> QED BY <1>1, <2>1, <3>1, <3>2
  <2> QED BY <2>2, <2>3 DEF AskedInBounds
<1>3. ASSUME NEW o \in Orders, UNCHANGED <<attempts, proposal>>,
             ordering' = ordering \/ \E spot : spot # "ask" /\ OrderTo(o, spot)
      PROVE  AskedInBounds'
  <2>1. ASSUME NEW p \in Orders, OrderAt(p, "ask")' PROVE OrderAt(p, "ask")
    BY <1>1, <1>3, <2>1 DEF OrderAt, OrderTo
  <2> QED BY <1>3, <2>1 DEF AskedInBounds, NoProposal
<1>4. ASSUME NEW o \in Orders, Retry(o) PROVE AskedInBounds'
  <2>1. proposal.order = o /\ proposal' = NoProposal
    BY <1>4 DEF Retry
  <2>2. CASE attempts[o] < MaxAttempts
    <3>1. ordering' = ordering /\ attempts' = attempts
      BY <1>4, <2>2 DEF Retry
    <3>2. ASSUME NEW p \in Orders, OrderAt(p, "ask")' PROVE attempts'[p] < MaxAttempts
      BY <2>1, <2>2, <3>1, <3>2 DEF AskedInBounds, OrderAt
    <3> QED BY <1>1, <3>1, <3>2 DEF AskedInBounds
  <2>3. CASE ~(attempts[o] < MaxAttempts)
    BY <1>2, <1>4, <2>1, <2>3 DEF Retry
  <2> QED BY <2>2, <2>3
<1>5. ASSUME NEW o \in Orders, StaySingle(o) \/ StartSwarm(o) PROVE AskedInBounds'
  BY <1>2, <1>5 DEF StaySingle, StartSwarm
<1>6. ASSUME NEW o \in Orders, NEW d, proposal = NoProposal, Judge(o, d) PROVE AskedInBounds'
  <2>1. /\ OrderAt(o, "ask") /\ attempts' = [attempts EXCEPT ![o] = @ + 1] /\ ordering' = ordering
        /\ proposal' = [verdict |-> Verdict(d), order |-> o, d |-> d]
    BY <1>6 DEF Judge
  <2>2. attempts[o] \in Nat /\ attempts[o] < MaxAttempts
    BY <1>1, <1>6, <2>1 DEF AskedInBounds
  <2>3. attempts' \in [Orders -> 0 .. MaxAttempts]
    BY <1>1, <2>1, <2>2
  <2>4. proposal'.order = o /\ proposal' # NoProposal'
    <3>1. proposal'.verdict = Verdict(d)
      BY <2>1
    <3>2. NoProposal'.verdict = "none" /\ Verdict(d) # "none"
      BY DEF NoProposal, Verdict
    <3> QED BY <2>1, <3>1, <3>2
  <2>5. ASSUME NEW p \in Orders, OrderAt(p, "ask")', p # o PROVE attempts'[p] < MaxAttempts
    BY <1>1, <1>6, <2>1, <2>5 DEF AskedInBounds, OrderAt
  <2> QED BY <2>3, <2>4, <2>5 DEF AskedInBounds
<1>7. ASSUME NEW o \in Orders, proposal = NoProposal, AbandonOrder(o) PROVE AskedInBounds'
  <2>1. proposal' = proposal /\ Leave(o, "error")
    BY <1>7 DEF AbandonOrder
  <2> QED BY <1>2, <1>7, <2>1
<1>8. ASSUME NEW o \in Orders, CreateOrder(o) \/ Submitted(o) PROVE AskedInBounds'
  BY <1>3, <1>8 DEF CreateOrder, Submitted
<1>9. ASSUME NEW o \in Orders, NEW t \in TaskIds, InsertTask(o, t) PROVE AskedInBounds'
  BY <1>3, <1>9 DEF InsertTask
<1>10. CASE UNCHANGED queenVars
  BY <1>10 DEF queenVars, AskedInBounds, OrderAt, NoProposal
<1> QED BY <1>4, <1>5, <1>6, <1>7, <1>8, <1>9, <1>10 DEF QueenNext

LEMMA QueenTyped == QueenSpec => []QueenTypeOK
<1>1. QueenInit => AskedInBounds
  <2>1. MaxAttempts \in Nat /\ MaxAttempts > 0
    BY QueenAssumption
  <2> QED BY <2>1 DEF QueenInit, AskedInBounds
<1>2. QueenInv /\ AskedInBounds => QueenTypeOK
  BY DEF QueenInv, AskedInBounds, QueenTypeOK
<1> QED BY <1>1, <1>2, QueenStarts, QueenKept, AskedKept, PTL DEF QueenSpec

LEMMA WireTyped == WireInit /\ [][WireNext]_wireVars => []WireTypeOK
<1>1. WireTypes => WireTypeOK
  <2> SUFFICES ASSUME WireTypes PROVE WireTypeOK
    OBVIOUS
  <2>1. blocked \in Seq([call : WireIds, named : BOOLEAN, parts : 0 .. WireCalls * WireParts])
    <3>1. WireCalls \in Nat /\ WireParts \in Nat
      BY AnswersAssumption
    <3>2. WireCalls # 0 => WireParts <= WireCalls * WireParts
      BY <3>1
    <3>3. \A i \in WireIds : WireCalls # 0
      BY <3>1 DEF WireIds
    <3>4. \A b \in WireBlocks : b \in [call : WireIds, named : BOOLEAN, parts : 0 .. WireCalls * WireParts]
      <4>1. CASE WireCalls = 0
        BY <3>3, <4>1 DEF WireBlocks
      <4>2. CASE WireCalls # 0
        <5>1. PICK W \in Int : W = WireCalls * WireParts
          BY <3>1
        <5>2. 0 .. WireParts \subseteq 0 .. W
          BY <3>1, <3>2, <4>2, <5>1
        <5> QED BY <5>1, <5>2 DEF WireBlocks
      <4> QED BY <4>1, <4>2
    <3>5. blocked \in Seq(WireBlocks)
      BY DEF WireTypes
    <3>6. PICK B : B = [call : WireIds, named : BOOLEAN, parts : 0 .. WireCalls * WireParts]
      OBVIOUS
    <3>7. \A i \in 1 .. Len(blocked) : blocked[i] \in B
      BY <3>4, <3>5, <3>6
    <3>8. blocked \in Seq(B)
      BY <3>5, <3>7
    <3> QED BY <3>6, <3>8
  <2> QED BY <2>1 DEF WireTypes, WireTypeOK, WireChunks
<1>2. WireInv => WireTypes
  BY DEF WireInv
<1> QED BY <1>1, <1>2, WireInitInv, WireStepInv, PTL

(* What was forwarded was posted.                                          *)
PollMore ==
  /\ polling \in {"list", "history", "page", "stopped"} /\ shutdown \in BOOLEAN
  /\ starts \in 1 .. MaxStarts /\ overfull \in BOOLEAN
  /\ \A i \in 1 .. Len(forwarded) : forwarded[i] # 0

LEMMA PollMoreKept == PollInv /\ PollMore /\ [PollNext]_pollVars => PollMore'
<1> SUFFICES ASSUME PollInv, PollMore, [PollNext]_pollVars PROVE PollMore'
  OBVIOUS
<1> DEFINE Round == polling \in {"list", "history", "page", "stopped"} /\ shutdown \in BOOLEAN
                    /\ starts \in 1 .. MaxStarts /\ overfull \in BOOLEAN
           Posted == \A i \in 1 .. Len(forwarded) : forwarded[i] # 0
<1>1. Round /\ Posted /\ MaxStarts \in Nat
  BY PollAssumption DEF PollMore
<1>2. ASSUME Round', Posted' PROVE PollMore'
  BY <1>2 DEF PollMore
<1>3. ASSUME forwarded' = forwarded, Round' PROVE PollMore'
  BY <1>1, <1>2, <1>3
<1> HIDE DEF Posted
<1>4. ASSUME NEW kind, PostMessage(kind) PROVE PollMore'
  BY <1>1, <1>3, <1>4 DEF PostMessage
<1>5. CASE ListConversations \/ ListFails \/ HistoryFails \/ ReceiverDropped \/ RoundEnds \/ StopPolling
  BY <1>1, <1>3, <1>5 DEF ListConversations, ListFails, HistoryFails, ReceiverDropped, RoundEnds, StopPolling, pollVars
<1>6. CASE FetchHistory
  <2>1. overfull' \in BOOLEAN
    <3>1. overfull' = (overfull \/ Len(Unread) > PageSize)
      BY <1>6 DEF FetchHistory
    <3> QED BY <3>1
  <2> QED BY <1>1, <1>3, <1>6, <2>1 DEF FetchHistory
<1>7. CASE ProcessMessage
  <2>1. /\ page # <<>> /\ page \in Seq(Nat) /\ forwarded \in Seq(Nat) /\ cursor \in Nat
        /\ \A i \in 1 .. Len(page) : cursor < page[i]
    BY <1>7 DEF ProcessMessage, PollInv, PollTypes, PageAhead
  <2>2. PICK m : m = Head(page)
    OBVIOUS
  <2>3. m \in Nat /\ m # 0
    BY <2>1, <2>2
  <2>4. forwarded' = forwarded \/ forwarded' = Append(forwarded, m)
    BY <1>7, <2>2, Zenon DEF ProcessMessage
  <2>5. Posted'
    <3>1. CASE forwarded' = forwarded
      BY <1>1, <3>1 DEF Posted
    <3>2. CASE forwarded' = Append(forwarded, m)
      <4>1. ASSUME NEW i \in 1 .. Len(forwarded') PROVE forwarded'[i] # 0
        BY <1>1, <2>1, <2>3, <3>2 DEF Posted
      <4> QED BY <4>1 DEF Posted
    <3> QED BY <2>4, <3>1, <3>2
  <2> QED BY <1>1, <1>2, <1>7, <2>5 DEF ProcessMessage
<1>8. CASE StartAgain
  <2>1. forwarded' = <<>> /\ polling' = "list" /\ shutdown' = FALSE /\ overfull' = FALSE
        /\ starts < MaxStarts /\ starts' = starts + 1
    BY <1>8 DEF StartAgain
  <2>2. Posted'
    BY <2>1 DEF Posted
  <2>3. starts' \in 1 .. MaxStarts
    BY <1>1, <2>1
  <2>4. Round'
    BY <2>1, <2>3
  <2> QED BY <1>2, <2>2, <2>4
<1>9. CASE UNCHANGED pollVars
  BY <1>1, <1>3, <1>9 DEF pollVars
<1> QED BY <1>4, <1>5, <1>6, <1>7, <1>8, <1>9 DEF PollNext

LEMMA PollTyped == PollInit /\ [][PollNext]_pollVars => []PollTypeOK
<1>1. PollInit => PollMore
  <2> SUFFICES ASSUME PollInit PROVE PollMore
    OBVIOUS
  <2>1. /\ polling = "list" /\ shutdown = FALSE /\ starts = 1 /\ overfull = FALSE /\ forwarded = <<>>
    BY DEF PollInit
  <2>2. 1 \in 1 .. MaxStarts
    BY PollAssumption
  <2>3. \A i \in 1 .. Len(forwarded) : forwarded[i] # 0
    BY <2>1
  <2> QED BY <2>1, <2>2, <2>3 DEF PollMore
<1>2. PollInv /\ PollMore => PollTypeOK
  <2> SUFFICES ASSUME PollInv, PollMore PROVE PollTypeOK
    OBVIOUS
  <2>1. /\ posts \in Seq(PostKinds) /\ cursor \in 0 .. Len(posts) /\ began \in 0 .. Len(posts)
        /\ page \in Seq(Nat) /\ forwarded \in Seq(Nat)
    BY DEF PollInv, PollTypes
  <2>2. PICK n \in Nat : Len(posts) = n /\ DOMAIN posts = 1 .. n
    BY <2>1
  <2>3. ASSUME NEW m \in Range(page) PROVE m \in 1 .. n
    <3>1. PICK i \in 1 .. Len(page) : m = page[i]
      BY <2>1 DEF Range
    <3>2. cursor < m /\ m <= n /\ m \in Nat
      BY <2>1, <2>2, <3>1 DEF PollInv, PageAhead
    <3> QED BY <2>1, <2>2, <3>2
  <2>4. ASSUME NEW m \in Range(forwarded) PROVE m \in 1 .. n
    <3>1. PICK i \in 1 .. Len(forwarded) : m = forwarded[i]
      BY <2>1 DEF Range
    <3>2. m <= cursor /\ m # 0 /\ m \in Nat
      BY <2>1, <3>1 DEF PollInv, ForwardedBehind, PollMore
    <3> QED BY <2>1, <2>2, <3>2
  <2>5. \A m \in Range(page) \cup Range(forwarded) : m \in DOMAIN posts
    BY <2>2, <2>3, <2>4
  <2> QED BY <2>1, <2>5 DEF PollTypeOK, PollMore
<1> QED BY <1>1, <1>2, PollStarts, PollKept, PollMoreKept, PTL

LEMMA RequestsTyped == RequestsSpec => []RequestsTypeOK
<1>1. RequestsInit => Len(messages) <= MaxMessages
  <2>1. MaxMessages \in Nat /\ Len(<<>>) = 0
    BY RequestsAssumption
  <2> QED BY <2>1 DEF RequestsInit
<1>2. RequestsInv /\ Len(messages) <= MaxMessages /\ [RequestsNext]_requestsVars => (Len(messages) <= MaxMessages)'
  <2> SUFFICES ASSUME RequestsInv, Len(messages) <= MaxMessages, [RequestsNext]_requestsVars
               PROVE  Len(messages') <= MaxMessages
    OBVIOUS
  <2>1. messages \in Seq(HistMsgs) /\ MaxMessages \in Nat /\ Len(messages) \in Nat
    BY RequestsAssumption DEF RequestsInv
  <2>2. ASSUME NEW m, Len(messages) < MaxMessages, messages' = Append(messages, m)
        PROVE  Len(messages') <= MaxMessages
    BY <2>1, <2>2
  <2>3. CASE UserSays
    BY <2>2, <2>3 DEF UserSays
  <2>4. ASSUME NEW text, NEW ids, Answered(text, ids) \/ Results(ids) PROVE Len(messages') <= MaxMessages
    BY <2>2, <2>4 DEF Answered, Results
  <2>5. CASE LeftOut
    <3>1. PICK i \in DOMAIN messages : messages' = RemoveAt(messages, i)
      BY <2>5 DEF LeftOut
    <3>2. PICK n \in Nat : n = Len(messages) /\ DOMAIN messages = 1 .. n
      BY <2>1
    <3>3. /\ SubSeq(messages, 1, i - 1) \in Seq(HistMsgs) /\ Len(SubSeq(messages, 1, i - 1)) = i - 1
          /\ SubSeq(messages, i + 1, n) \in Seq(HistMsgs) /\ Len(SubSeq(messages, i + 1, n)) = n - i
      <4>1. i \in 1 .. n
        BY <3>2
      <4>2. \A k \in 1 .. n : messages[k] \in HistMsgs
        BY <2>1, <3>2
      <4> QED BY <2>1, <3>2, <4>1, <4>2, SubSeqProperties
    <3>4. Len(messages') = (i - 1) + (n - i)
      BY <3>1, <3>2, <3>3, ConcatProperties DEF RemoveAt
    <3> QED BY <2>1, <3>2, <3>4
  <2>6. CASE BuildRequest \/ UNCHANGED requestsVars
    BY <2>6 DEF BuildRequest, requestsVars
  <2> QED BY <2>3, <2>4, <2>5, <2>6 DEF RequestsNext
<1>3. RequestsInv /\ Len(messages) <= MaxMessages => RequestsTypeOK
  <2> SUFFICES ASSUME RequestsInv, Len(messages) <= MaxMessages PROVE RequestsTypeOK
    OBVIOUS
  <2>1. ASSUME NEW ms \in Seq(ReqMsgs), NEW i \in DOMAIN ms
        PROVE  /\ ms[i].role \in {"user", "assistant", "tool"} /\ ms[i].text \in BOOLEAN
               /\ ToSet(ms[i].ids) \subseteq ToolIds
    <3>1. ms[i] \in ReqMsgs
      OBVIOUS
    <3>2. ms[i].ids \in Seq(ToolIds)
      BY <3>1 DEF ReqMsgs
    <3> QED BY <3>1, <3>2 DEF ReqMsgs, ToSet
  <2>2. HistMsgs \subseteq ReqMsgs /\ FlatMsgs \subseteq ReqMsgs
    BY DEF HistMsgs, FlatMsgs
  <2>3. messages \in Seq(ReqMsgs) /\ body \in Seq(ReqMsgs)
    BY <2>2 DEF RequestsInv
  <2> QED BY <2>1, <2>3 DEF RequestsInv, RequestsTypeOK
<1> QED BY <1>1, <1>2, <1>3, RequestsStarts, RequestsStep, PTL DEF RequestsSpec

=============================================================================

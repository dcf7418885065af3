----------------------------- MODULE Stores_proofs ----------------------------
(***************************************************************************)
(* Proofs about the components that share nothing with each other and keep *)
(* things, tokens, sessions, files, secrets and who may talk, beyond a     *)
(* restart or for each other: of each its inductive invariant and what     *)
(* follows from it, for every value of the constants.                      *)
(***************************************************************************)
EXTENDS Allowlist, Credentials, Failover, Identity, Markdown, Oauth,
        Sessions, Vault,
        FiniteSetTheorems, SequenceTheorems, WellFoundedInduction, TLAPS

-----------------------------------------------------------------------------
(* Induction over a set of numbers, from which what a recursive function   *)
(* computes is proved: sequences are filtered by such functions.           *)

LEMMA LeastOf ==
  ASSUME NEW T \in SUBSET Nat, T # {}
  PROVE  \E n \in T : \A m \in T : n <= m
<1>1. PICK R : R = OpToRel(<, Nat)
  OBVIOUS
<1>2. IsWellFoundedOn(R, Nat)
  BY <1>1, NatLessThanWellFounded
<1>3. \A x, y \in Nat : y < x => <<y, x>> \in R
  BY <1>1 DEF OpToRel
<1>4. PICK n \in T : \A m \in T : ~ (<<m, n>> \in R)
  BY <1>2, WFMin
<1>5. \A m \in T : ~ (m < n)
  BY <1>3, <1>4
<1> QED BY <1>5

LEMMA UpTo ==
  ASSUME NEW N \in Nat, NEW T, 0 \in T, \A n \in 0 .. N : n + 1 <= N /\ n \in T => n + 1 \in T
  PROVE  0 .. N \subseteq T
<1>1. ASSUME (0 .. N) \ T # {} PROVE FALSE
  <2>1. PICK n \in (0 .. N) \ T : \A m \in (0 .. N) \ T : n <= m
    <3>1. (0 .. N) \ T \in SUBSET Nat
      OBVIOUS
    <3> QED BY <1>1, <3>1, LeastOf
  <2>2. n # 0 /\ n \in 0 .. N /\ n \notin T
    BY <2>1
  <2>3. n - 1 \in 0 .. N /\ ~(n <= n - 1) /\ n - 1 + 1 = n /\ n <= N
    BY <2>2
  <2>4. n - 1 \in T
    BY <2>1, <2>3
  <2> QED BY <2>2, <2>3, <2>4
<1> QED BY <1>1

(* The function that filters the first n elements of s.                    *)
Filters(f, s, S, N) ==
  f = [n \in 0 .. N |-> IF n = 0 THEN <<>>
                        ELSE IF s[n] \in S THEN Append(f[n - 1], s[n]) ELSE f[n - 1]]

LEMMA FilterExists ==
  ASSUME NEW s, NEW S, NEW N \in Nat
  PROVE  \E f : Filters(f, s, S, N)
<1>1. PICK T : T = {n \in Nat : \E f : Filters(f, s, S, n)}
  OBVIOUS
<1>2. 0 \in T
  <2>1. PICK f : f = [n \in 0 .. 0 |-> <<>>]
    OBVIOUS
  <2>2. Filters(f, s, S, 0)
    BY <2>1 DEF Filters
  <2> QED BY <1>1, <2>2
<1>3. ASSUME NEW n \in 0 .. N, n \in T PROVE n + 1 \in T
  <2>1. PICK f : Filters(f, s, S, n)
    BY <1>1, <1>3
  <2>2. PICK last : last = IF s[n + 1] \in S THEN Append(f[n], s[n + 1]) ELSE f[n]
    OBVIOUS
  <2>3. PICK g : g = [m \in 0 .. n + 1 |-> IF m = n + 1 THEN last ELSE f[m]]
    OBVIOUS
  <2>4. n \in Nat /\ DOMAIN f = 0 .. n /\ DOMAIN g = 0 .. n + 1
    BY <2>1, <2>3 DEF Filters
  <2>5. \A m \in 0 .. n : g[m] = f[m]
    BY <2>3, <2>4
  <2>6. g[n + 1] = last
    BY <2>3, <2>4
  <2>7. ASSUME NEW m \in 0 .. n + 1
        PROVE  g[m] = IF m = 0 THEN <<>>
                      ELSE IF s[m] \in S THEN Append(g[m - 1], s[m]) ELSE g[m - 1]
    <3>1. CASE m = n + 1
      <4>1. m # 0 /\ m - 1 = n /\ g[n] = f[n]
        BY <2>4, <2>5, <3>1
      <4> QED BY <2>2, <2>6, <3>1, <4>1, Zenon
    <3>2. CASE m # n + 1
      <4>1. m \in 0 .. n /\ (m # 0 => m - 1 \in 0 .. n)
        BY <2>4, <3>2
      <4>2. f[m] = IF m = 0 THEN <<>>
                   ELSE IF s[m] \in S THEN Append(f[m - 1], s[m]) ELSE f[m - 1]
        BY <2>1, <4>1, Zenon DEF Filters
      <4>3. g[m] = f[m] /\ (m # 0 => g[m - 1] = f[m - 1])
        BY <2>5, <4>1
      <4> QED BY <4>2, <4>3, Zenon
    <3> QED BY <3>1, <3>2
  <2>8. g = [m \in 0 .. n + 1 |-> IF m = 0 THEN <<>>
                      ELSE IF s[m] \in S THEN Append(g[m - 1], s[m]) ELSE g[m - 1]]
    <3>1. g = [m \in 0 .. n + 1 |-> g[m]]
      BY <2>3
    <3> QED BY <2>7, <3>1, Zenon
  <2>9. Filters(g, s, S, n + 1)
    BY <2>8 DEF Filters
  <2> QED BY <1>1, <2>4, <2>9
<1>4. 0 .. N \subseteq T
  BY <1>2, <1>3, UpTo
<1> QED BY <1>1, <1>4
(* What is left is what is kept, and only that.                            *)
Within(t, n, x) == \E i \in 1 .. n : t[i] = x
LEMMA FilteredSoFar ==
  ASSUME NEW X, NEW s \in Seq(X), NEW S, NEW f, Filters(f, s, S, Len(s)), NEW m \in 0 .. Len(s)
  PROVE  /\ f[m] = (IF m = 0 THEN <<>>
                    ELSE IF s[m] \in S THEN Append(f[m - 1], s[m]) ELSE f[m - 1])
         /\ f[m] \in Seq(X)
         /\ \A x : Within(f[m], Len(f[m]), x) <=> x \in S /\ Within(s, m, x)
<1>1. PICK T : T = {n \in 0 .. Len(s) : /\ f[n] \in Seq(X)
                       /\ \A x : Within(f[n], Len(f[n]), x) <=> x \in S /\ Within(s, n, x)}
  OBVIOUS
<1>2. Len(s) \in Nat /\ \A i \in 1 .. Len(s) : s[i] \in X
  OBVIOUS
<1>0. ASSUME NEW n \in 0 .. Len(s)
      PROVE  f[n] = IF n = 0 THEN <<>>
                    ELSE IF s[n] \in S THEN Append(f[n - 1], s[n]) ELSE f[n - 1]
  BY Zenon DEF Filters
<1>3. 0 \in T
  <2>1. f[0] = <<>>
    BY <1>2 DEF Filters
  <2>2. f[0] \in Seq(X) /\ Len(f[0]) = 0
    BY <2>1
  <2> QED BY <1>1, <1>2, <2>2 DEF Within
<1>4. ASSUME NEW n \in 0 .. Len(s), n + 1 <= Len(s), n \in T PROVE n + 1 \in T
  <2>1. f[n] \in Seq(X) /\ \A x : Within(f[n], Len(f[n]), x) <=> x \in S /\ Within(s, n, x)
    BY <1>1, <1>4
  <2>2. n + 1 \in 0 .. Len(s) /\ n + 1 # 0 /\ n + 1 - 1 = n /\ n + 1 \in 1 .. Len(s)
    BY <1>2, <1>4
  <2>3. f[n + 1] = IF s[n + 1] \in S THEN Append(f[n], s[n + 1]) ELSE f[n]
    <3>1. f[n + 1] = IF n + 1 = 0 THEN <<>>
                     ELSE IF s[n + 1] \in S THEN Append(f[n + 1 - 1], s[n + 1]) ELSE f[n + 1 - 1]
      BY <1>0, <2>2
    <3> QED BY <2>2, <3>1, Zenon
  <2>4. \A x : Within(s, n + 1, x) <=> Within(s, n, x) \/ s[n + 1] = x
    <3>1. \A i : i \in 1 .. n + 1 <=> i \in 1 .. n \/ i = n + 1
      BY <1>2, <1>4
    <3>2. ASSUME NEW x, NEW i \in 1 .. n + 1, s[i] = x PROVE Within(s, n, x) \/ s[n + 1] = x
      BY <3>1, <3>2 DEF Within
    <3>3. ASSUME NEW x, Within(s, n, x) \/ s[n + 1] = x PROVE Within(s, n + 1, x)
      BY <3>1, <3>3 DEF Within
    <3> QED BY <3>2, <3>3 DEF Within
  <2>5. CASE s[n + 1] \in S
    <3>1. PICK a : a = s[n + 1]
      OBVIOUS
    <3>2. PICK t : t = f[n]
      OBVIOUS
    <3>3. a \in X /\ t \in Seq(X) /\ f[n + 1] = Append(t, a)
      BY <1>2, <2>1, <2>2, <2>3, <2>5, <3>1, <3>2
    <3>4. /\ f[n + 1] \in Seq(X) /\ Len(f[n + 1]) = Len(t) + 1 /\ Len(t) \in Nat
          /\ f[n + 1][Len(t) + 1] = a /\ \A i \in 1 .. Len(t) : f[n + 1][i] = t[i]
      BY <3>3, AppendProperties
    <3>5. \A x : Within(f[n + 1], Len(f[n + 1]), x) <=> Within(t, Len(t), x) \/ a = x
      <4>1. \A i : i \in 1 .. Len(f[n + 1]) <=> i \in 1 .. Len(t) \/ i = Len(t) + 1
        BY <3>4
      <4> QED BY <3>4, <4>1, Zenon DEF Within
    <3>6. \A x : Within(f[n + 1], Len(f[n + 1]), x) <=> x \in S /\ Within(s, n + 1, x)
      BY <2>1, <2>4, <2>5, <3>1, <3>2, <3>5, Zenon
    <3> QED BY <1>1, <2>2, <3>4, <3>6
  <2>6. CASE s[n + 1] \notin S
    <3>1. f[n + 1] = f[n]
      BY <2>3, <2>6
    <3>2. \A x : Within(f[n + 1], Len(f[n + 1]), x) <=> x \in S /\ Within(s, n + 1, x)
      BY <2>1, <2>4, <2>6, <3>1, Zenon
    <3> QED BY <1>1, <2>1, <2>2, <3>1, <3>2
  <2> QED BY <2>5, <2>6
<1>5. m \in T
  <2>1. \A n \in 0 .. Len(s) : n + 1 <= Len(s) /\ n \in T => n + 1 \in T
    BY <1>4
  <2>2. 0 .. Len(s) \subseteq T
    BY <1>2, <1>3, <2>1, UpTo, Zenon
  <2> QED BY <2>2
<1> QED BY <1>0, <1>1, <1>5

LEMMA Filtered ==
  ASSUME NEW X, NEW s \in Seq(X), NEW S, NEW f, Filters(f, s, S, Len(s))
  PROVE  /\ f[Len(s)] \in Seq(X)
         /\ \A x : Contains(f[Len(s)], x) <=> x \in S /\ Contains(s, x)
<1>1. Len(s) \in 0 .. Len(s)
  OBVIOUS
<1>2. /\ f[Len(s)] \in Seq(X)
      /\ \A x : Within(f[Len(s)], Len(f[Len(s)]), x) <=> x \in S /\ Within(s, Len(s), x)
  BY <1>1, FilteredSoFar, Zenon
<1>3. \A t, x : Contains(t, x) <=> Within(t, Len(t), x)
  BY DEF Contains, Within
<1> QED BY <1>2, <1>3

(* And what is there once stays there once.                                *)
LEMMA FilteredOnce ==
  ASSUME NEW X, NEW s \in Seq(X), NEW S, NEW f, Filters(f, s, S, Len(s)),
         \A i, j \in 1 .. Len(s) : s[i] = s[j] /\ s[i] \in S => i = j
  PROVE  \A i, j \in 1 .. Len(f[Len(s)]) : f[Len(s)][i] = f[Len(s)][j] => i = j
<1> DEFINE Once(t) == \A i, j \in 1 .. Len(t) : t[i] = t[j] => i = j
<1>1. PICK T : T = {n \in 0 .. Len(s) : Once(f[n])}
  OBVIOUS
<1>2. Len(s) \in Nat
  OBVIOUS
<1>3. 0 \in T
  <2>1. f[0] = <<>>
    BY <1>2, FilteredSoFar
  <2>2. Once(f[0])
    BY <2>1
  <2> QED BY <1>1, <1>2, <2>2
<1>4. ASSUME NEW n \in 0 .. Len(s), n + 1 <= Len(s), n \in T PROVE n + 1 \in T
  <2>1. n + 1 \in 0 .. Len(s) /\ n + 1 # 0 /\ n + 1 - 1 = n /\ n + 1 \in 1 .. Len(s)
    BY <1>2, <1>4
  <2>2. f[n + 1] = IF s[n + 1] \in S THEN Append(f[n], s[n + 1]) ELSE f[n]
    <3>1. f[n + 1] = IF n + 1 = 0 THEN <<>>
                     ELSE IF s[n + 1] \in S THEN Append(f[n + 1 - 1], s[n + 1]) ELSE f[n + 1 - 1]
      BY <2>1, FilteredSoFar
    <3> QED BY <2>1, <3>1, Zenon
  <2>3. f[n] \in Seq(X) /\ \A x : Within(f[n], Len(f[n]), x) => Within(s, n, x)
    BY FilteredSoFar
  <2>4. Once(f[n])
    BY <1>1, <1>4
  <2>5. CASE s[n + 1] \in S
    <3>1. PICK a, t : a = s[n + 1] /\ t = f[n]
      OBVIOUS
    <3>2. a \in X /\ t \in Seq(X) /\ f[n + 1] = Append(t, a)
      BY <2>1, <2>2, <2>3, <2>5, <3>1
    <3>3. /\ Len(f[n + 1]) = Len(t) + 1 /\ Len(t) \in Nat
          /\ f[n + 1][Len(t) + 1] = a /\ \A i \in 1 .. Len(t) : f[n + 1][i] = t[i]
      BY <3>2, AppendProperties
    <3>4. ASSUME NEW i \in 1 .. Len(t), t[i] = a PROVE FALSE
      <4>1. Within(s, n, a)
        BY <2>3, <3>1, <3>4 DEF Within
      <4>2. PICK j \in 1 .. n : s[j] = a
        BY <4>1 DEF Within
      <4>3. j \in 1 .. Len(s) /\ j # n + 1
        BY <1>2, <2>1
      <4> QED BY <2>1, <2>5, <3>1, <4>2, <4>3
    <3>5. ASSUME NEW i \in 1 .. Len(f[n + 1]), NEW j \in 1 .. Len(f[n + 1]),
                 f[n + 1][i] = f[n + 1][j]
          PROVE  i = j
      <4>1. \A k \in 1 .. Len(f[n + 1]) : k \in 1 .. Len(t) \/ k = Len(t) + 1
        BY <3>3
      <4>2. Once(t)
        BY <2>4, <3>1
      <4> QED BY <3>3, <3>4, <3>5, <4>1, <4>2
    <3> QED BY <1>1, <2>1, <3>5
  <2>6. CASE s[n + 1] \notin S
    <3>1. f[n + 1] = f[n]
      BY <2>2, <2>6
    <3> QED BY <1>1, <2>1, <2>4, <3>1
  <2> QED BY <2>5, <2>6
<1>5. Len(s) \in T
  <2>1. \A n \in 0 .. Len(s) : n + 1 <= Len(s) /\ n \in T => n + 1 \in T
    BY <1>4
  <2>2. 0 .. Len(s) \subseteq T
    BY <1>2, <1>3, <2>1, UpTo, Zenon
  <2> QED BY <1>2, <2>2
<1> QED BY <1>1, <1>5

(* What an element that is appended adds.                                  *)
LEMMA AppendedIs ==
  ASSUME NEW X, NEW s \in Seq(X), NEW a \in X
  PROVE  /\ Append(s, a) \in Seq(X) /\ Len(s) \in Nat /\ Len(Append(s, a)) = Len(s) + 1
         /\ Append(s, a)[Len(s) + 1] = a /\ \A i \in 1 .. Len(s) : Append(s, a)[i] = s[i]
         /\ \A x : Contains(Append(s, a), x) <=> Contains(s, x) \/ x = a
<1>1. PICK t : t = Append(s, a)
  OBVIOUS
<1>2. /\ t \in Seq(X) /\ Len(s) \in Nat /\ Len(t) = Len(s) + 1
      /\ t[Len(s) + 1] = a /\ \A i \in 1 .. Len(s) : t[i] = s[i]
  BY <1>1, AppendProperties
<1>3. \A i : i \in 1 .. Len(t) <=> i \in 1 .. Len(s) \/ i = Len(s) + 1
  BY <1>2
<1>4. \A x : Contains(t, x) <=> Contains(s, x) \/ x = a
  BY <1>2, <1>3, Zenon DEF Contains
<1> QED BY <1>1, <1>2, <1>4

-----------------------------------------------------------------------------
(* The vault, for any number of writers, secrets and changes.              *)
Values == [Secrets -> 0 .. MaxChanges]
VaultContents == Values \cup {Torn}
VaultTypes ==
  /\ VaultTypeOK /\ inode \in [Inodes -> VaultContents] /\ snap \in [VaultWriters -> Values]

(* The temporary file is never the vault's, and what has settled is in the *)
(* cache.  Of writers that met no other there is at most one: it finds the *)
(* temporary file as it left it, and the cache as its snapshot; and where  *)
(* no writers have met, the file is as the changes that settled left it.   *)
TmpApart == tmpFile # 0 => tmpFile # vaultFile
CacheSettled == \A s \in Secrets : settled[s] # Unsettled => secretCache[s] = settled[s]
MetNoOther == overlap # "now" =>
  \A v, w \in VaultWriters : ~WriterAt(v, "idle") /\ ~WriterAt(w, "idle") => v = w
WritesAs(w) ==
  /\ WriterAt(w, "fill") => tmpFile # 0 /\ opened[w] = tmpFile /\ inode[tmpFile] = NoSecrets
  /\ WriterAt(w, "rename") => tmpFile # 0 /\ inode[tmpFile] = snap[w]
  /\ writer[w] \in {"create", "fill", "rename"} => snap[w] = secretCache
WritesAlone == overlap # "now" => \A w \in VaultWriters : WritesAs(w)
FileSettled == overlap = "none" =>
  /\ Content(vaultFile) \in Values
  /\ \A s \in Secrets : settled[s] # Unsettled => Content(vaultFile)[s] = settled[s]
VaultInv == VaultTypes /\ TmpApart /\ CacheSettled /\ MetNoOther /\ WritesAlone /\ FileSettled

LEMMA TornIsNoValue == Torn \notin Values
<1>1. PICK s \in Secrets : TRUE
  BY VaultAssumption
<1>2. Torn[s] \notin 0 .. MaxChanges
  BY <1>1, VaultAssumption DEF Torn, TornMark
<1> QED BY <1>1, <1>2 DEF Values

LEMMA NoChangeIs == NoChange \in [key : Secrets, value : 0 .. MaxChanges]
<1>1. (CHOOSE s \in Secrets : TRUE) \in Secrets
  BY VaultAssumption
<1> QED BY <1>1, VaultAssumption DEF NoChange

LEMMA VaultStarts == VaultInit => VaultInv
<1> USE VaultAssumption
<1> SUFFICES ASSUME VaultInit PROVE VaultInv
  OBVIOUS
<1>1. NoSecrets \in Values /\ NoSecrets \in [Secrets -> 0 .. TornMark]
      /\ NoSecrets \in [Secrets -> 0 .. Unsettled]
  BY DEF NoSecrets, TornMark, Unsettled, Values
<1>2. VaultTypeOK
  BY <1>1, NoChangeIs DEF VaultInit, VaultTypeOK, Values
<1>3. VaultTypes
  BY <1>1, <1>2 DEF VaultInit, VaultTypes, VaultContents
<1>4. TmpApart /\ MetNoOther /\ WritesAlone
  BY DEF VaultInit, TmpApart, MetNoOther, WritesAlone, WritesAs, WriterAt
<1>5. CacheSettled /\ FileSettled
  BY <1>1 DEF VaultInit, CacheSettled, FileSettled, Content, NoSecrets
<1> QED BY <1>3, <1>4, <1>5 DEF VaultInv

LEMMA VaultTypesKept == VaultTypes /\ [VaultNext]_vaultVars => VaultTypes'
<1> SUFFICES ASSUME VaultTypes, [VaultNext]_vaultVars PROVE VaultTypes'
  OBVIOUS
<1> DEFINE VPlaces == {"idle", "flush", "create", "fill", "rename"}
           Changes == [key : Secrets, value : 0 .. MaxChanges]
           OnDisk == /\ inode \in [Inodes -> VaultContents] /\ vaultFile \in {0} \cup Inodes
                     /\ tmpFile \in {0} \cup Inodes /\ opened \in [VaultWriters -> {0} \cup Inodes]
           InMemory == /\ secretCache \in Values /\ changes \in 0 .. MaxChanges
                       /\ changing \in [VaultWriters -> Changes] /\ snap \in [VaultWriters -> Values]
           Marks == settled \in [Secrets -> 0 .. Unsettled] /\ overlap \in {"none", "now", "past"}
           Writing == writer \in [VaultWriters -> VPlaces]
<1>1. /\ MaxChanges \in Nat /\ Unsettled \in 0 .. Unsettled /\ 0 .. MaxChanges \subseteq 0 .. Unsettled
      /\ 0 .. MaxChanges \subseteq 0 .. TornMark /\ TornMark \in 0 .. TornMark
  BY VaultAssumption DEF Unsettled, TornMark
<1>2. NoSecrets \in Values /\ Values \subseteq VaultContents /\ Torn \in VaultContents
  BY <1>1 DEF NoSecrets, Values, VaultContents
<1>3. OnDisk /\ InMemory /\ Marks /\ Writing
  BY DEF VaultTypes, VaultTypeOK, Values
<1>4. VaultContents \subseteq [Secrets -> 0 .. TornMark] /\ Values \subseteq [Secrets -> 0 .. TornMark]
  BY <1>1 DEF Torn, Values, VaultContents
<1>5. Inodes' = Inodes /\ VaultContents' = VaultContents /\ Values' = Values /\ Unsettled' = Unsettled
  BY DEF Inodes, VaultContents, Values, Torn, TornMark, Unsettled
<1>6. ASSUME OnDisk', InMemory', Marks', Writing' PROVE VaultTypes'
  <2>1. /\ secretCache' \in [Secrets -> 0 .. MaxChanges]
        /\ snap' \in [VaultWriters -> [Secrets -> 0 .. TornMark]]
        /\ inode' \in [Inodes -> [Secrets -> 0 .. TornMark]]
    BY <1>4, <1>5, <1>6 DEF Values
  <2> QED BY <1>5, <1>6, <2>1 DEF VaultTypes, VaultTypeOK, TornMark
<1>7. ASSUME NEW w, NEW spot \in VPlaces, WriterTo(w, spot) PROVE Writing'
  BY <1>3, <1>7 DEF WriterTo
<1>15. ASSUME NEW w, WriterRests(w)
       PROVE  Writing' /\ snap' \in [VaultWriters -> Values] /\ changing' \in [VaultWriters -> Changes]
  <2>1. /\ WriterTo(w, "idle") /\ snap' = [snap EXCEPT ![w] = NoSecrets]
        /\ changing' = [changing EXCEPT ![w] = NoChange]
    BY <1>15 DEF WriterRests
  <2> QED BY <1>2, <1>3, <1>7, <2>1, NoChangeIs
<1>8. ASSUME NEW w \in VaultWriters, NEW s \in Secrets, ChangeSecret(w, s) PROVE VaultTypes'
  <2>1. PICK v \in {0, changes + 1} :
          /\ secretCache' = [secretCache EXCEPT ![s] = v]
          /\ changing' = [changing EXCEPT ![w] = [key |-> s, value |-> v]]
    BY <1>8 DEF ChangeSecret
  <2>2. changes < MaxChanges /\ changes' = changes + 1 /\ UNCHANGED <<snap, opened, inode, vaultFile, tmpFile>>
        /\ settled' = [settled EXCEPT ![s] = Unsettled] /\ WriterTo(w, "flush")
    BY <1>8 DEF ChangeSecret
  <2>3. v \in 0 .. MaxChanges /\ changes' \in 0 .. MaxChanges
    BY <1>1, <1>3, <2>1, <2>2
  <2>4. [key |-> s, value |-> v] \in Changes
    BY <2>3
  <2>5. InMemory'
    BY <1>3, <1>5, <2>1, <2>2, <2>3, <2>4 DEF Values
  <2>6. Marks'
    BY <1>1, <1>3, <1>5, <1>8, <2>2 DEF ChangeSecret, SetsOut
  <2>7. OnDisk'
    BY <1>3, <1>5, <2>2
  <2> QED BY <1>6, <1>7, <2>2, <2>5, <2>6, <2>7
<1>9. ASSUME NEW w \in VaultWriters, TakeSnapshot(w) PROVE VaultTypes'
  <2>1. InMemory'
    BY <1>3, <1>5, <1>9 DEF TakeSnapshot
  <2> QED BY <1>3, <1>5, <1>6, <1>7, <1>9, <2>1 DEF TakeSnapshot
<1>10. ASSUME NEW w \in VaultWriters, CreateTmp(w) PROVE VaultTypes'
  <2>1. PICK i \in Inodes : /\ tmpFile' = i /\ opened' = [opened EXCEPT ![w] = i]
                            /\ inode' = [inode EXCEPT ![i] = NoSecrets]
    BY <1>10 DEF CreateTmp
  <2>2. OnDisk'
    BY <1>2, <1>3, <1>5, <1>10, <2>1 DEF CreateTmp
  <2> QED BY <1>3, <1>5, <1>6, <1>7, <1>10, <2>2 DEF CreateTmp
<1>11. ASSUME NEW w \in VaultWriters, FillTmp(w) PROVE VaultTypes'
  <2>1. PICK c \in VaultContents : inode' = [inode EXCEPT ![opened[w]] = c]
    BY <1>2, <1>3, <1>11 DEF FillTmp
  <2>2. OnDisk'
    BY <1>3, <1>5, <1>11, <2>1 DEF FillTmp
  <2>3. CASE WriterTo(w, "rename") /\ UNCHANGED <<snap, changing>>
    BY <1>3, <1>5, <1>6, <1>7, <1>11, <2>2, <2>3 DEF FillTmp
  <2>4. CASE WriterRests(w)
    BY <1>3, <1>5, <1>6, <1>15, <1>11, <2>2, <2>4 DEF FillTmp
  <2> QED BY <1>11, <2>3, <2>4 DEF FillTmp
<1>12. ASSUME NEW w \in VaultWriters, RenameTmp(w) PROVE VaultTypes'
  <2>1. changing[w].key \in Secrets /\ changing[w].value \in 0 .. Unsettled
    BY <1>1, <1>3
  <2>2. settled' = settled \/ settled' = [settled EXCEPT ![changing[w].key] = changing[w].value]
    BY <1>12, Zenon DEF RenameTmp, VaultOk
  <2>3. Marks'
    BY <1>3, <1>5, <1>12, <2>1, <2>2 DEF RenameTmp
  <2>4. OnDisk'
    BY <1>3, <1>5, <1>12 DEF RenameTmp
  <2> QED BY <1>3, <1>5, <1>6, <1>12, <1>15, <2>3, <2>4 DEF RenameTmp
<1>13. CASE VaultRestart
  <2>1. Content(vaultFile) \in VaultContents /\ Content(vaultFile) # Torn
    BY <1>2, <1>3, <1>13 DEF VaultRestart, Content
  <2>2. secretCache' \in Values
    BY <1>13, <2>1 DEF VaultRestart, VaultContents
  <2>3. Marks'
    BY <1>1, <1>3, <1>5, <1>13 DEF VaultRestart
  <2> QED BY <1>2, <1>3, <1>5, <1>6, <1>13, <2>2, <2>3, NoChangeIs DEF VaultRestart
<1>14. CASE UNCHANGED vaultVars
  BY <1>3, <1>5, <1>6, <1>14 DEF vaultVars
<1> QED BY <1>8, <1>9, <1>10, <1>11, <1>12, <1>13, <1>14 DEF VaultNext

\* A change of the cache: beside another it makes no promise, alone it has
\* written nothing yet.
LEMMA ChangeMade ==
  ASSUME VaultInv, VaultTypes', NEW w \in VaultWriters, NEW s \in Secrets, ChangeSecret(w, s)
  PROVE  VaultInv'
<1>1. /\ UNCHANGED <<snap, opened, inode, vaultFile, tmpFile>>
      /\ settled' = [settled EXCEPT ![s] = Unsettled] /\ writer' = [writer EXCEPT ![w] = "flush"]
      /\ SetsOut(w) /\ \E value : secretCache' = [secretCache EXCEPT ![s] = value]
  BY DEF ChangeSecret, WriterTo
<1>2. /\ settled \in [Secrets -> 0 .. Unsettled] /\ secretCache \in [Secrets -> 0 .. MaxChanges]
      /\ writer \in [VaultWriters -> {"idle", "flush", "create", "fill", "rename"}]
  BY DEF VaultInv, VaultTypes, VaultTypeOK
<1>3. TmpApart' /\ Content(vaultFile)' = Content(vaultFile) /\ Unsettled' = Unsettled /\ Values' = Values
  BY <1>1 DEF VaultInv, TmpApart, Content, Unsettled, Values
<1>4. \A t \in Secrets : settled'[t] # Unsettled =>
        settled'[t] = settled[t] /\ secretCache'[t] = secretCache[t]
  BY <1>1, <1>2
<1>5. CacheSettled'
  BY <1>3, <1>4 DEF VaultInv, CacheSettled
<1>6. CASE \E v \in VaultWriters \ {w} : ~WriterAt(v, "idle")
  <2>1. overlap' = "now"
    BY <1>1, <1>6 DEF SetsOut
  <2> QED BY <1>3, <1>5, <2>1 DEF VaultInv, MetNoOther, WritesAlone, FileSettled
<1>7. CASE \A v \in VaultWriters \ {w} : WriterAt(v, "idle")
  <2>1. overlap' = "none" => overlap = "none"
    BY <1>1, <1>7 DEF SetsOut
  <2>2. /\ \A v \in VaultWriters : v # w => writer'[v] = "idle"
        /\ writer'[w] = "flush"
    BY <1>1, <1>2, <1>7 DEF WriterAt
  <2>3. MetNoOther' /\ WritesAlone'
    BY <2>2 DEF MetNoOther, WritesAlone, WritesAs, WriterAt
  <2>4. FileSettled'
    BY <1>3, <1>4, <2>1 DEF VaultInv, FileSettled
  <2> QED BY <1>3, <1>5, <2>3, <2>4 DEF VaultInv
<1> QED BY <1>6, <1>7

\* A step of a writer that leaves the cache, what has settled and the vault
\* file as they are: a writer that met no other has still met none.
LEMMA StepOfAWriter ==
  ASSUME VaultInv, VaultTypes', NEW w \in VaultWriters, ~WriterAt(w, "idle"),
         UNCHANGED <<secretCache, settled, overlap, vaultFile>>, TmpApart',
         NEW spot, writer' = [writer EXCEPT ![w] = spot],
         overlap # "now" => WritesAs(w)' /\ Content(vaultFile)' = Content(vaultFile)
  PROVE  VaultInv'
<1>1. writer \in [VaultWriters -> {"idle", "flush", "create", "fill", "rename"}]
  BY DEF VaultInv, VaultTypes, VaultTypeOK
<1>2. overlap # "now" => \A v \in VaultWriters : v # w => writer[v] = "idle" /\ writer'[v] = "idle"
  BY <1>1 DEF VaultInv, MetNoOther, WriterAt
<1>3. MetNoOther'
  BY <1>2 DEF MetNoOther, WriterAt
<1>4. WritesAlone'
  BY <1>2 DEF WritesAlone, WritesAs, WriterAt
<1>5. Unsettled' = Unsettled /\ Values' = Values
  BY DEF Unsettled, Values
<1>6. CacheSettled' /\ FileSettled'
  BY <1>5 DEF VaultInv, CacheSettled, FileSettled
<1> QED BY <1>3, <1>4, <1>6 DEF VaultInv

LEMMA SnapshotTaken ==
  ASSUME VaultInv, VaultTypes', NEW w \in VaultWriters, TakeSnapshot(w)
  PROVE  VaultInv'
<1>1. /\ WriterAt(w, "flush") /\ writer' = [writer EXCEPT ![w] = "create"]
      /\ snap' = [snap EXCEPT ![w] = secretCache]
      /\ UNCHANGED <<secretCache, opened, inode, vaultFile, tmpFile, settled, overlap>>
  BY DEF TakeSnapshot, WriterTo
<1>2. writer'[w] = "create" /\ snap'[w] = secretCache
  BY <1>1 DEF VaultInv, VaultTypes, VaultTypeOK
<1>3. WritesAs(w)'
  BY <1>1, <1>2 DEF WritesAs, WriterAt
<1>4. TmpApart' /\ Content(vaultFile)' = Content(vaultFile)
  BY <1>1 DEF VaultInv, TmpApart, Content
<1> QED BY <1>1, <1>3, <1>4, StepOfAWriter DEF WriterAt

LEMMA TmpCreated ==
  ASSUME VaultInv, VaultTypes', NEW w \in VaultWriters, CreateTmp(w)
  PROVE  VaultInv'
<1>1. /\ WriterAt(w, "create") /\ writer' = [writer EXCEPT ![w] = "fill"]
      /\ UNCHANGED <<secretCache, snap, vaultFile, settled, overlap>>
  BY DEF CreateTmp, WriterTo
<1>2. PICK i \in Inodes : /\ IF tmpFile # 0 THEN i = tmpFile
                             ELSE \A j \in 1 .. i : FreeInode(j) <=> j = i
                          /\ tmpFile' = i /\ opened' = [opened EXCEPT ![w] = i]
                          /\ inode' = [inode EXCEPT ![i] = NoSecrets]
  BY DEF CreateTmp
<1>3. i \in 1 .. i /\ i # 0
  BY <1>2 DEF Inodes
<1>4. i # vaultFile
  BY <1>2, <1>3 DEF FreeInode, VaultInv, TmpApart
<1>5. /\ writer \in [VaultWriters -> {"idle", "flush", "create", "fill", "rename"}]
      /\ opened \in [VaultWriters -> {0} \cup Inodes] /\ inode \in [Inodes -> VaultContents]
  BY DEF VaultInv, VaultTypes, VaultTypeOK
<1>6. /\ writer'[w] = "fill" /\ opened'[w] = tmpFile' /\ tmpFile' # 0
      /\ inode'[tmpFile'] = NoSecrets /\ NoSecrets' = NoSecrets
  BY <1>1, <1>2, <1>3, <1>5 DEF NoSecrets
<1>7. overlap # "now" => WritesAs(w)'
  BY <1>1, <1>6 DEF VaultInv, WritesAlone, WritesAs, WriterAt
<1>8. TmpApart' /\ Content(vaultFile)' = Content(vaultFile)
  BY <1>1, <1>2, <1>4, <1>5, <1>6 DEF TmpApart, Content
<1> QED BY <1>1, <1>7, <1>8, StepOfAWriter DEF WriterAt

LEMMA TmpFilled ==
  ASSUME VaultInv, VaultTypes', NEW w \in VaultWriters, FillTmp(w)
  PROVE  VaultInv'
<1>1. /\ WriterAt(w, "fill") /\ opened' = [opened EXCEPT ![w] = 0]
      /\ UNCHANGED <<secretCache, vaultFile, tmpFile, settled, overlap>>
      /\ \E written : inode' = [inode EXCEPT ![opened[w]] = written]
  BY DEF FillTmp
<1>2. PICK spot \in {"idle", "rename"} : writer' = [writer EXCEPT ![w] = spot]
  BY DEF FillTmp, WriterRests, WriterTo
<1>3. /\ writer \in [VaultWriters -> {"idle", "flush", "create", "fill", "rename"}]
      /\ inode \in [Inodes -> VaultContents] /\ snap \in [VaultWriters -> Values]
      /\ tmpFile \in {0} \cup Inodes
  BY DEF VaultInv, VaultTypes, VaultTypeOK
<1>4. TmpApart'
  BY <1>1 DEF VaultInv, TmpApart
<1>5. ASSUME overlap # "now" PROVE WritesAs(w)' /\ Content(vaultFile)' = Content(vaultFile)
  <2>1. /\ opened[w] = tmpFile /\ tmpFile \in Inodes /\ inode[tmpFile] = NoSecrets
        /\ tmpFile # vaultFile /\ tmpFile # 0 /\ snap[w] = secretCache
    BY <1>1, <1>3, <1>5 DEF VaultInv, WritesAlone, WritesAs, WriterAt, TmpApart
  <2>2. Content(vaultFile)' = Content(vaultFile)
    BY <1>1, <1>3, <2>1 DEF Content
  <2>3. CASE spot = "idle"
    BY <1>2, <1>3, <2>2, <2>3 DEF WritesAs, WriterAt
  <2>4. CASE spot = "rename"
    <3>1. writer'[w] = "rename" /\ "rename" # "idle"
      BY <1>2, <1>3, <2>4
    <3>2. ~WriterRests(w)
      BY <1>3, <3>1 DEF WriterRests, WriterTo
    <3>3. inode' = [inode EXCEPT ![tmpFile] = snap[w]] /\ snap' = snap
      BY <2>1, <3>2 DEF FillTmp
    <3>4. inode'[tmpFile'] = snap'[w] /\ snap'[w] = secretCache'
      BY <1>1, <1>3, <2>1, <3>3
    <3> QED BY <1>1, <2>1, <2>2, <3>1, <3>4 DEF WritesAs, WriterAt
  <2> QED BY <2>3, <2>4
<1> QED BY <1>1, <1>2, <1>4, <1>5, StepOfAWriter DEF WriterAt

\* It is renamed, and the caller is answered: a write that met no other leaves
\* the cache in the file.
LEMMA TmpRenamed ==
  ASSUME VaultInv, VaultTypes', NEW w \in VaultWriters, RenameTmp(w)
  PROVE  VaultInv'
<1>1. /\ WriterAt(w, "rename") /\ writer' = [writer EXCEPT ![w] = "idle"] /\ tmpFile' = 0
      /\ UNCHANGED <<secretCache, opened, inode>>
  BY DEF RenameTmp, WriterRests, WriterTo
<1>2. /\ writer \in [VaultWriters -> {"idle", "flush", "create", "fill", "rename"}]
      /\ settled \in [Secrets -> 0 .. Unsettled] /\ secretCache \in Values
  BY DEF VaultInv, VaultTypes, VaultTypeOK, Values
<1>3. TmpApart' /\ writer'[w] = "idle" /\ WritesAs(w)'
  BY <1>1, <1>2 DEF TmpApart, WritesAs, WriterAt
<1>4. CASE UNCHANGED <<vaultFile, settled, overlap>>
  <2>1. Content(vaultFile)' = Content(vaultFile)
    BY <1>1, <1>4 DEF Content
  <2> QED BY <1>1, <1>3, <1>4, <2>1, StepOfAWriter DEF WriterAt
<1>5. CASE /\ tmpFile # 0 /\ vaultFile' = tmpFile /\ VaultOk(w)
           /\ overlap' = IF overlap = "past" THEN "none" ELSE overlap
  <2>1. overlap # "now" => \A v \in VaultWriters : v # w => writer[v] = "idle" /\ writer'[v] = "idle"
    BY <1>1, <1>2 DEF VaultInv, MetNoOther, WriterAt
  <2>2. overlap' # "now" => overlap # "now"
    BY <1>5
  <2>3. MetNoOther' /\ WritesAlone'
    BY <1>3, <2>1, <2>2 DEF MetNoOther, WritesAlone, WritesAs, WriterAt
  <2>4. overlap # "now" => Content(vaultFile)' = secretCache
    BY <1>1, <1>5 DEF VaultInv, WritesAlone, WritesAs, WriterAt, Content
  <2>5. \A s \in Secrets : settled'[s] \in {settled[s], secretCache[s]}
    <3> DEFINE c == changing[w]
    <3>1. settled' = settled \/ (secretCache[c.key] = c.value /\ settled' = [settled EXCEPT ![c.key] = c.value])
      BY <1>5 DEF VaultOk
    <3> HIDE DEF c
    <3> QED BY <1>2, <3>1
  <2>6. Unsettled' = Unsettled /\ Values' = Values
    BY DEF Unsettled, Values
  <2>7. CacheSettled'
    BY <1>1, <2>5, <2>6 DEF VaultInv, CacheSettled
  <2>8. FileSettled'
    BY <1>1, <1>2, <2>2, <2>4, <2>6, <2>7 DEF CacheSettled, FileSettled
  <2> QED BY <1>3, <2>3, <2>7, <2>8 DEF VaultInv
<1> QED BY <1>4, <1>5 DEF RenameTmp

LEMMA VaultRestartKept ==
  ASSUME VaultInv, VaultTypes', VaultRestart
  PROVE  VaultInv'
<1>1. /\ secretCache' = Content(vaultFile) /\ Content(vaultFile) # Torn
      /\ writer' = [w \in VaultWriters |-> "idle"] /\ tmpFile' = 0 /\ overlap' = "none"
      /\ settled' = (IF overlap = "none" THEN settled ELSE [s \in Secrets |-> Unsettled])
      /\ UNCHANGED <<inode, vaultFile>>
  BY DEF VaultRestart
<1>2. /\ Content(vaultFile)' = Content(vaultFile) /\ Unsettled' = Unsettled /\ Values' = Values
      /\ secretCache' \in Values
  BY <1>1 DEF Content, Unsettled, Values, VaultTypes, VaultTypeOK
<1>3. TmpApart' /\ MetNoOther' /\ WritesAlone'
  BY <1>1 DEF TmpApart, MetNoOther, WritesAlone, WritesAs, WriterAt
<1>4. \A s \in Secrets : settled'[s] # Unsettled => Content(vaultFile)[s] = settled'[s]
  BY <1>1 DEF VaultInv, FileSettled
<1>5. CacheSettled' /\ FileSettled'
  BY <1>1, <1>2, <1>4 DEF CacheSettled, FileSettled
<1> QED BY <1>3, <1>5 DEF VaultInv

LEMMA VaultStep == VaultInv /\ [VaultNext]_vaultVars => VaultInv'
<1> SUFFICES ASSUME VaultInv, [VaultNext]_vaultVars PROVE VaultInv'
  OBVIOUS
<1>1. VaultTypes'
  BY VaultTypesKept DEF VaultInv
<1>2. CASE UNCHANGED vaultVars
  BY <1>1, <1>2 DEF vaultVars, VaultInv, TmpApart, CacheSettled, MetNoOther, WritesAlone, WritesAs,
                    FileSettled, Content, WriterAt
<1> QED BY <1>1, <1>2, ChangeMade, SnapshotTaken, TmpCreated, TmpFilled, TmpRenamed, VaultRestartKept
        DEF VaultNext

LEMMA VaultTyped == VaultSpec => []VaultTypeOK
<1>1. VaultInv => VaultTypeOK
  BY DEF VaultInv, VaultTypes
<1> QED BY <1>1, VaultStarts, VaultStep, PTL DEF VaultSpec

(* Wherever the process ends, and whichever write or rename fails, the     *)
(* vault file can be read and holds every change that was answered Ok, of  *)
(* any number of writers, from the first whole write that met no other.    *)
THEOREM VaultDurableHolds == VaultSpec => []VaultDurable
<1>1. VaultInv => VaultDurable
  BY TornIsNoValue DEF VaultInv, FileSettled, VaultDurable
<1> QED BY <1>1, VaultStarts, VaultStep, PTL DEF VaultSpec

-----------------------------------------------------------------------------
(* The memory that fails over, for one task that uses it: what a get finds *)
(* is what was promised, by an answer or by an operation under way, and    *)
(* while the cache is written back, what is not in the snapshot any more   *)
(* is in the primary, unless a write failed.                               *)
OneTask == \E u : Users = {u}
FoundBy(k) == IF cache[k] # 0 THEN cache[k] ELSE primary[k]
Promised(o, k) == IF o.key = k /\ o.kind = "store" THEN o.value
                  ELSE IF o.key = k /\ o.kind = "delete" THEN 0 ELSE acked[k]
PromisesKept == \A u \in Users : \A k \in Keys :
  Promised(op[u], k) # 0 => FoundBy(k) = Promised(op[u], k)
SnapshotOfNow == \A u \in Users : op[u].at = "sync" => \A k \in Keys :
  /\ toSync[u][k] # 0 => toSync[u][k] = cache[k]
  /\ syncOk[u] /\ cache[k] # 0 /\ toSync[u][k] = 0 => primary[k] = cache[k]
IdleMeans == \A u \in Users : op[u].at = "idle" => op[u].kind = "none"
FailoverInv == FailoverTypeOK /\ PromisesKept /\ SnapshotOfNow /\ IdleMeans

LEMMA IdleIsAnOp == Idle \in Ops /\ Idle.kind = "none" /\ Idle.at = "idle"
BY FailoverAssumption DEF Idle, Ops

LEMMA FailoverStarts == FailoverInit => FailoverInv
<1> SUFFICES ASSUME FailoverInit PROVE FailoverInv
  OBVIOUS
<1> USE FailoverAssumption
<1>1. /\ primary = [k \in Keys |-> 0] /\ cache = [k \in Keys |-> 0] /\ acked = [k \in Keys |-> 0]
      /\ failures = 0 /\ tried = FALSE /\ stores = 0 /\ deleted = {}
      /\ op = [u \in Users |-> Idle] /\ toSync = [u \in Users |-> [k \in Keys |-> 0]]
      /\ syncOk = [u \in Users |-> TRUE]
  BY DEF FailoverInit, NoEntries
<1>2. FailoverTypeOK
  <2>1. 0 \in 0 .. MaxStores /\ 0 \in 0 .. Threshold
    OBVIOUS
  <2>2. tried \in BOOLEAN /\ syncOk \in [Users -> BOOLEAN]
    BY <1>1
  <2> QED BY <1>1, <2>1, <2>2, IdleIsAnOp DEF FailoverTypeOK
<1>3. PromisesKept
  BY <1>1, IdleIsAnOp DEF PromisesKept, Promised
<1>4. SnapshotOfNow /\ IdleMeans
  BY <1>1, IdleIsAnOp DEF SnapshotOfNow, IdleMeans
<1> QED BY <1>2, <1>3, <1>4 DEF FailoverInv

(* What the record of an operation is after a step.                        *)
LEMMA OpMoves ==
  ASSUME FailoverInv, NEW u \in Users, NEW goal,
         goal \in {"idle", "call", "failed", "probe", "snapshot", "sync", "clear", "done"},
         Then(u, goal)
  PROVE  /\ op' \in [Users -> Ops]
         /\ op'[u].at = goal /\ op'[u].kind = op[u].kind /\ op'[u].key = op[u].key
         /\ op'[u].value = op[u].value
BY DEF Then, FailoverInv, FailoverTypeOK, Ops

LEMMA OpBegins ==
  ASSUME FailoverInv, NEW u \in Users, NEW kind \in {"store", "get", "delete", "list"},
         NEW k \in Keys, NEW v \in 0 .. MaxStores, Begin(u, kind, k, v)
  PROVE  /\ op' \in [Users -> Ops]
         /\ op'[u] = [kind |-> kind, at |-> "call", key |-> k, value |-> v]
BY DEF Begin, FailoverInv, FailoverTypeOK, Ops

(* An answer: what was promised is now acknowledged.                       *)
LEMMA OpAnswers ==
  ASSUME FailoverInv, NEW u \in Users, Answer(u)
  PROVE  /\ op' \in [Users -> Ops] /\ op'[u] = Idle /\ deleted' = deleted
         /\ acked' \in [Keys -> 0 .. MaxStores]
         /\ \A k \in Keys : acked'[k] = Promised(op[u], k)
<1>1. op' = [op EXCEPT ![u] = Idle] /\ deleted' = deleted
  BY DEF Answer
<1>2. op[u] \in Ops /\ acked \in [Keys -> 0 .. MaxStores] /\ op \in [Users -> Ops]
  BY DEF FailoverInv, FailoverTypeOK
<1>3. CASE op[u].kind = "store"
  <2>1. acked' = [acked EXCEPT ![op[u].key] = op[u].value]
    BY <1>3 DEF Answer
  <2> QED BY <1>1, <1>2, <1>3, <2>1, IdleIsAnOp DEF Promised, Ops
<1>4. CASE op[u].kind = "delete"
  <2>1. acked' = [acked EXCEPT ![op[u].key] = 0]
    BY <1>4 DEF Answer
  <2>2. 0 \in 0 .. MaxStores
    BY FailoverAssumption
  <2> QED BY <1>1, <1>2, <1>4, <2>1, <2>2, IdleIsAnOp DEF Promised, Ops
<1>5. CASE op[u].kind \notin {"store", "delete"}
  <2>1. acked' = acked
    BY <1>5 DEF Answer
  <2> QED BY <1>1, <1>2, <1>5, <2>1, IdleIsAnOp DEF Promised
<1> QED BY <1>3, <1>4, <1>5

(* One who alone uses the memory moves on, and finds what it found before. *)
LEMMA MovesOnKept ==
  ASSUME OneTask, FailoverInv, NEW u \in Users, acked' = acked, FailoverTypeOK',
         op'[u].kind = op[u].kind, op'[u].key = op[u].key, op'[u].value = op[u].value,
         op'[u].at # "idle", op'[u].at = "sync" => SnapshotOfNow',
         \A k \in Keys : Promised(op[u], k) # 0 => FoundBy(k)' = FoundBy(k)
  PROVE  FailoverInv'
<1>1. \A v \in Users : v = u
  BY DEF OneTask
<1>2. \A k \in Keys : Promised(op[u], k)' = Promised(op[u], k)
  BY DEF Promised
<1>3. PromisesKept'
  BY <1>1, <1>2 DEF FailoverInv, PromisesKept
<1>4. SnapshotOfNow' /\ IdleMeans'
  BY <1>1 DEF SnapshotOfNow, IdleMeans
<1> QED BY <1>3, <1>4 DEF FailoverInv

(* It answers, and finds what it found before.                             *)
LEMMA AnswersKept ==
  ASSUME OneTask, FailoverInv, NEW u \in Users, Answer(u), cache' = cache, primary' = primary,
         FailoverTypeOK'
  PROVE  FailoverInv'
<1>1. op'[u] = Idle /\ \A k \in Keys : acked'[k] = Promised(op[u], k)
  BY OpAnswers
<1>2. \A v \in Users : v = u
  BY DEF OneTask
<1>3. \A k \in Keys : Promised(op[u], k)' = Promised(op[u], k)
  BY <1>1, IdleIsAnOp DEF Promised
<1>4. \A k \in Keys : FoundBy(k)' = FoundBy(k)
  BY DEF FoundBy
<1>5. PromisesKept'
  BY <1>2, <1>3, <1>4 DEF FailoverInv, PromisesKept
<1>6. SnapshotOfNow' /\ IdleMeans'
  BY <1>1, <1>2, IdleIsAnOp DEF SnapshotOfNow, IdleMeans
<1> QED BY <1>5, <1>6 DEF FailoverInv

(* An operation begins; a store has its copy in the cache.                 *)
LEMMA BeginsKept ==
  ASSUME OneTask, FailoverInv, NEW u \in Users,
         (\E k \in Keys : BeginStore(u, k) \/ BeginGet(u, k) \/ BeginDelete(u, k)) \/ BeginList(u)
  PROVE  FailoverInv'
<1> USE FailoverAssumption
<1>1. \A v \in Users : v = u
  BY DEF OneTask
<1>2. op[u].kind = "none" /\ op[u].at = "idle"
  BY DEF BeginStore, BeginGet, BeginDelete, BeginList, Stage, FailoverInv, IdleMeans
<1>3. \A k \in Keys : acked[k] # 0 => FoundBy(k) = acked[k]
  BY <1>2 DEF FailoverInv, PromisesKept, Promised
<1>4. ASSUME NEW k \in Keys, BeginStore(u, k) PROVE FailoverInv'
  <2>1. /\ stores + 1 \in 0 .. MaxStores /\ stores' = stores + 1 /\ stores + 1 # 0
        /\ cache' = [cache EXCEPT ![k] = stores + 1] /\ Begin(u, "store", k, stores + 1)
        /\ UNCHANGED <<primary, failures, tried, toSync, syncOk, deleted, acked>>
    BY <1>4 DEF BeginStore, FailoverInv, FailoverTypeOK
  <2>2. /\ op' \in [Users -> Ops]
        /\ op'[u] = [kind |-> "store", at |-> "call", key |-> k, value |-> stores + 1]
    BY <2>1, OpBegins
  <2>3. FailoverTypeOK'
    BY <2>1, <2>2 DEF FailoverInv, FailoverTypeOK
  <2>4. cache'[k] = stores + 1 /\ \A j \in Keys \ {k} : cache'[j] = cache[j]
    BY <2>1 DEF FailoverInv, FailoverTypeOK
  <2>5. PromisesKept'
    <3>1. ASSUME NEW j \in Keys, j # k, acked[j] # 0 PROVE FoundBy(j)' = acked[j]
      BY <1>3, <2>1, <2>4, <3>1 DEF FoundBy
    <3>2. FoundBy(k)' = stores + 1
      BY <2>1, <2>4 DEF FoundBy
    <3> QED BY <1>1, <2>1, <2>2, <3>1, <3>2 DEF PromisesKept, Promised
  <2>6. SnapshotOfNow' /\ IdleMeans'
    BY <1>1, <2>2 DEF SnapshotOfNow, IdleMeans
  <2> QED BY <2>3, <2>5, <2>6 DEF FailoverInv
<1>5. ASSUME NEW k \in Keys, NEW kind \in {"get", "list"}, Begin(u, kind, k, 0),
             UNCHANGED <<cellVars, stores, toSync, syncOk, deleted, acked>>
      PROVE  FailoverInv'
  <2>1. op' \in [Users -> Ops] /\ op'[u] = [kind |-> kind, at |-> "call", key |-> k, value |-> 0]
    BY <1>5, OpBegins
  <2>2. FailoverTypeOK'
    BY <1>5, <2>1 DEF FailoverInv, FailoverTypeOK, cellVars
  <2>3. PromisesKept'
    BY <1>1, <1>3, <1>5, <2>1 DEF PromisesKept, Promised, FoundBy, cellVars
  <2>4. SnapshotOfNow' /\ IdleMeans'
    BY <1>1, <2>1 DEF SnapshotOfNow, IdleMeans
  <2> QED BY <2>2, <2>3, <2>4 DEF FailoverInv
<1>6. ASSUME NEW k \in Keys, BeginDelete(u, k) PROVE FailoverInv'
  <2>1. /\ cache' = [cache EXCEPT ![k] = 0] /\ Begin(u, "delete", k, 0)
        /\ deleted' = deleted \cup {k}
        /\ UNCHANGED <<primary, failures, tried, stores, toSync, syncOk, acked>>
    BY <1>6 DEF BeginDelete
  <2>2. /\ op' \in [Users -> Ops] /\ 0 \in 0 .. MaxStores
        /\ op'[u] = [kind |-> "delete", at |-> "call", key |-> k, value |-> 0]
    BY <2>1, OpBegins
  <2>3. FailoverTypeOK'
    BY <2>1, <2>2 DEF FailoverInv, FailoverTypeOK
  <2>4. \A j \in Keys \ {k} : cache'[j] = cache[j]
    BY <2>1 DEF FailoverInv, FailoverTypeOK
  <2>5. PromisesKept'
    <3>1. ASSUME NEW j \in Keys, j # k, acked[j] # 0 PROVE FoundBy(j)' = acked[j]
      BY <1>3, <2>1, <2>4, <3>1 DEF FoundBy
    <3> QED BY <1>1, <2>1, <2>2, <3>1 DEF PromisesKept, Promised
  <2>6. SnapshotOfNow' /\ IdleMeans'
    BY <1>1, <2>2 DEF SnapshotOfNow, IdleMeans
  <2> QED BY <2>3, <2>5, <2>6 DEF FailoverInv
<1>7. ASSUME BeginList(u) PROVE FailoverInv'
  <2>1. (CHOOSE k \in Keys : TRUE) \in Keys
    OBVIOUS
  <2> QED BY <1>5, <1>7, <2>1 DEF BeginList
<1>8. ASSUME NEW k \in Keys, BeginGet(u, k) PROVE FailoverInv'
  BY <1>5, <1>8 DEF BeginGet
<1> QED BY <1>4, <1>6, <1>7, <1>8

(* The call of the primary, which does what it was promised or nothing.    *)
LEMMA CallKept ==
  ASSUME OneTask, FailoverInv, NEW u \in Users, CallSucceeds(u) \/ CallFails(u)
  PROVE  FailoverInv'
<1> USE FailoverAssumption
<1>0. PICK goal \in {"done", "failed"} : Then(u, goal)
  BY DEF CallSucceeds, CallFails
<1>1. /\ op' \in [Users -> Ops]
      /\ op'[u].at = goal /\ op'[u].kind = op[u].kind /\ op'[u].key = op[u].key
      /\ op'[u].value = op[u].value
  BY <1>0, OpMoves
<1>2. /\ primary' = primary \/ primary' = Applied(u)
      /\ UNCHANGED <<cache, failures, tried, stores, toSync, syncOk, deleted, acked>>
  BY DEF CallSucceeds, CallFails, cellVars
<1>3. op[u] \in Ops /\ primary \in [Keys -> 0 .. MaxStores] /\ 0 \in 0 .. MaxStores
  BY DEF FailoverInv, FailoverTypeOK
<1>4. /\ Applied(u) \in [Keys -> 0 .. MaxStores]
      /\ \A k \in Keys : Promised(op[u], k) # 0 =>
           Applied(u)[k] = primary[k] \/ Applied(u)[k] = Promised(op[u], k)
  <2>1. CASE op[u].kind = "store"
    BY <1>3, <2>1 DEF Applied, Promised, Ops
  <2>2. CASE op[u].kind = "delete"
    BY <1>3, <2>2 DEF Applied, Promised, Ops
  <2>3. CASE op[u].kind \notin {"store", "delete"}
    BY <1>3, <2>3 DEF Applied
  <2> QED BY <2>1, <2>2, <2>3
<1>5. FailoverTypeOK'
  BY <1>1, <1>2, <1>4 DEF FailoverInv, FailoverTypeOK
<1>6. ASSUME NEW k \in Keys, Promised(op[u], k) # 0 PROVE FoundBy(k)' = FoundBy(k)
  BY <1>2, <1>4, <1>6 DEF FailoverInv, PromisesKept, FoundBy
<1> QED BY <1>1, <1>2, <1>5, <1>6, MovesOnKept

LEMMA RecordKept ==
  ASSUME OneTask, FailoverInv, NEW u \in Users, RecordSuccess(u) \/ RecordFailure(u)
  PROVE  FailoverInv'
<1> USE FailoverAssumption
<1>1. /\ UNCHANGED <<primary, cache, stores, toSync, syncOk>>
      /\ failures' \in 0 .. Threshold /\ tried' \in BOOLEAN
      /\ Answer(u) \/ (Then(u, "probe") /\ UNCHANGED <<deleted, acked>>)
  <2>1. failures \in 0 .. Threshold /\ tried \in BOOLEAN
    BY DEF FailoverInv, FailoverTypeOK
  <2>2. CASE RecordSuccess(u)
    <3>1. failures' \in 0 .. Threshold
      BY <2>1, <2>2 DEF RecordSuccess
    <3>2. tried' \in BOOLEAN
      BY <2>1, <2>2 DEF RecordSuccess
    <3> QED BY <2>2, <3>1, <3>2 DEF RecordSuccess
  <2>3. CASE RecordFailure(u)
    <3>1. failures' \in 0 .. Threshold
      BY <2>1, <2>3 DEF RecordFailure
    <3> QED BY <2>1, <2>3, <3>1 DEF RecordFailure
  <2> QED BY <2>2, <2>3
<1>2. CASE Answer(u)
  <2>1. FailoverTypeOK'
    BY <1>1, <1>2, OpAnswers DEF FailoverInv, FailoverTypeOK
  <2> QED BY <1>1, <1>2, <2>1, AnswersKept
<1>3. CASE Then(u, "probe") /\ UNCHANGED <<deleted, acked>>
  <2>1. /\ op' \in [Users -> Ops]
        /\ op'[u].at = "probe" /\ op'[u].kind = op[u].kind /\ op'[u].key = op[u].key
        /\ op'[u].value = op[u].value
    BY <1>3, OpMoves
  <2>2. FailoverTypeOK'
    BY <1>1, <1>3, <2>1 DEF FailoverInv, FailoverTypeOK
  <2>3. \A k \in Keys : FoundBy(k)' = FoundBy(k)
    BY <1>1 DEF FoundBy
  <2> QED BY <1>3, <2>1, <2>2, <2>3, MovesOnKept
<1> QED BY <1>1, <1>2, <1>3

LEMMA ProbeKept ==
  ASSUME OneTask, FailoverInv, NEW u \in Users, ProbeFails(u) \/ Repaired(u) \/ ProbeSucceeds(u)
  PROVE  FailoverInv'
<1> USE FailoverAssumption
<1>1. /\ UNCHANGED <<primary, cache, stores, toSync, syncOk>>
      /\ failures' \in 0 .. Threshold /\ tried' \in BOOLEAN
      /\ Answer(u) \/ (Then(u, "snapshot") /\ UNCHANGED <<deleted, acked>>)
  <2>1. failures \in 0 .. Threshold /\ tried \in BOOLEAN
    BY DEF FailoverInv, FailoverTypeOK
  <2>2. CASE ProbeFails(u)
    BY <2>1, <2>2 DEF ProbeFails
  <2>3. CASE Repaired(u)
    <3>1. failures' \in 0 .. Threshold
      BY <2>1, <2>3 DEF Repaired
    <3>2. tried' \in BOOLEAN
      BY <2>1, <2>3 DEF Repaired
    <3> QED BY <2>3, <3>1, <3>2 DEF Repaired
  <2>4. CASE ProbeSucceeds(u)
    BY <2>1, <2>4 DEF ProbeSucceeds, cellVars
  <2> QED BY <2>2, <2>3, <2>4
<1>2. CASE Answer(u)
  <2>1. FailoverTypeOK'
    BY <1>1, <1>2, OpAnswers DEF FailoverInv, FailoverTypeOK
  <2> QED BY <1>1, <1>2, <2>1, AnswersKept
<1>3. CASE Then(u, "snapshot") /\ UNCHANGED <<deleted, acked>>
  <2>1. /\ op' \in [Users -> Ops]
        /\ op'[u].at = "snapshot" /\ op'[u].kind = op[u].kind /\ op'[u].key = op[u].key
        /\ op'[u].value = op[u].value
    BY <1>3, OpMoves
  <2>2. FailoverTypeOK'
    BY <1>1, <1>3, <2>1 DEF FailoverInv, FailoverTypeOK
  <2>3. \A k \in Keys : FoundBy(k)' = FoundBy(k)
    BY <1>1 DEF FoundBy
  <2> QED BY <1>3, <2>1, <2>2, <2>3, MovesOnKept
<1> QED BY <1>1, <1>2, <1>3

LEMMA SnapshotKept ==
  ASSUME OneTask, FailoverInv, NEW u \in Users, Snapshot(u)
  PROVE  FailoverInv'
<1>1. \A v \in Users : v = u
  BY DEF OneTask
<1>2. PICK goal \in {"clear", "sync"} : Then(u, goal)
  BY DEF Snapshot
<1>3. /\ toSync' = [toSync EXCEPT ![u] = cache] /\ syncOk' = [syncOk EXCEPT ![u] = TRUE]
      /\ UNCHANGED <<primary, cache, failures, tried, stores, deleted, acked>>
  BY DEF Snapshot, cellVars
<1>4. /\ op' \in [Users -> Ops]
      /\ op'[u].at = goal /\ op'[u].kind = op[u].kind /\ op'[u].key = op[u].key
      /\ op'[u].value = op[u].value
  BY <1>2, OpMoves
<1>5. FailoverTypeOK' /\ toSync'[u] = cache
  BY <1>3, <1>4 DEF FailoverInv, FailoverTypeOK
<1>6. SnapshotOfNow'
  BY <1>1, <1>3, <1>5 DEF SnapshotOfNow
<1>7. \A k \in Keys : FoundBy(k)' = FoundBy(k)
  BY <1>3 DEF FoundBy
<1> QED BY <1>3, <1>4, <1>5, <1>6, <1>7, MovesOnKept

LEMMA SyncOneKept ==
  ASSUME OneTask, FailoverInv, NEW u \in Users, NEW k \in Keys, SyncOne(u, k)
  PROVE  FailoverInv'
<1> USE FailoverAssumption
<1>1. \A v \in Users : v = u
  BY DEF OneTask
<1>2. /\ op[u].at = "sync" /\ toSync[u][k] # 0 /\ toSync' = [toSync EXCEPT ![u][k] = 0]
      /\ \/ primary' = [primary EXCEPT ![k] = toSync[u][k]] /\ syncOk' = syncOk
         \/ primary' = primary /\ syncOk' = [syncOk EXCEPT ![u] = FALSE]
      /\ UNCHANGED <<cache, failures, tried, stores, op, deleted, acked>>
  BY DEF SyncOne, Stage
<1>3. toSync[u] \in [Keys -> 0 .. MaxStores] /\ 0 \in 0 .. MaxStores
  BY DEF FailoverInv, FailoverTypeOK
<1>4. /\ toSync' \in [Users -> [Keys -> 0 .. MaxStores]] /\ toSync'[u][k] = 0
      /\ \A j \in Keys \ {k} : toSync'[u][j] = toSync[u][j]
  BY <1>2, <1>3 DEF FailoverInv, FailoverTypeOK
<1>5. /\ primary' \in [Keys -> 0 .. MaxStores] /\ syncOk' \in [Users -> BOOLEAN]
      /\ \A j \in Keys \ {k} : primary'[j] = primary[j]
      /\ syncOk'[u] => syncOk[u] /\ primary'[k] = toSync[u][k]
  BY <1>2, <1>3 DEF FailoverInv, FailoverTypeOK
<1>6. FailoverTypeOK'
  BY <1>2, <1>4, <1>5 DEF FailoverInv, FailoverTypeOK
<1>7. toSync[u][k] = cache[k] /\ cache[k] # 0
  BY <1>2 DEF FailoverInv, SnapshotOfNow
<1>8. SnapshotOfNow'
  <2>1. ASSUME NEW j \in Keys PROVE
          /\ toSync'[u][j] # 0 => toSync'[u][j] = cache'[j]
          /\ syncOk'[u] /\ cache'[j] # 0 /\ toSync'[u][j] = 0 => primary'[j] = cache'[j]
    <3>1. /\ toSync[u][j] # 0 => toSync[u][j] = cache[j]
          /\ syncOk[u] /\ cache[j] # 0 /\ toSync[u][j] = 0 => primary[j] = cache[j]
      BY <1>2 DEF FailoverInv, SnapshotOfNow
    <3> QED BY <1>2, <1>4, <1>5, <1>7, <3>1
  <2> QED BY <1>1, <2>1 DEF SnapshotOfNow
<1>9. \A j \in Keys : FoundBy(j)' = FoundBy(j)
  BY <1>2, <1>5, <1>7 DEF FoundBy
<1> QED BY <1>2, <1>6, <1>8, <1>9, MovesOnKept

LEMMA SyncDoneKept ==
  ASSUME OneTask, FailoverInv, NEW u \in Users, SyncDone(u)
  PROVE  FailoverInv'
<1> USE FailoverAssumption
<1>1. /\ op[u].at = "sync" /\ toSync[u] = NoEntries
      /\ UNCHANGED <<primary, failures, tried, stores, toSync, syncOk>>
  BY DEF SyncDone, Stage
<1>2. CASE ~syncOk[u]
  <2>1. Answer(u) /\ cache' = cache
    BY <1>2 DEF SyncDone
  <2>2. FailoverTypeOK'
    BY <1>1, <2>1, OpAnswers DEF FailoverInv, FailoverTypeOK
  <2> QED BY <1>1, <2>1, <2>2, AnswersKept
<1>3. CASE syncOk[u]
  <2>1. cache' = [k \in Keys |-> 0] /\ Then(u, "clear") /\ UNCHANGED <<deleted, acked>>
    BY <1>3 DEF SyncDone, NoEntries
  <2>2. /\ op' \in [Users -> Ops]
        /\ op'[u].at = "clear" /\ op'[u].kind = op[u].kind /\ op'[u].key = op[u].key
        /\ op'[u].value = op[u].value
    BY <2>1, OpMoves
  <2>3. FailoverTypeOK'
    BY <1>1, <2>1, <2>2 DEF FailoverInv, FailoverTypeOK
  <2>4. \A k \in Keys : cache[k] # 0 => primary[k] = cache[k]
    BY <1>1, <1>3 DEF FailoverInv, SnapshotOfNow, NoEntries
  <2>5. \A k \in Keys : FoundBy(k)' = FoundBy(k)
    BY <1>1, <2>1, <2>4 DEF FoundBy
  <2> QED BY <2>1, <2>2, <2>3, <2>5, MovesOnKept
<1> QED BY <1>2, <1>3

LEMMA FailoverKept == ASSUME OneTask PROVE FailoverInv /\ [FailoverNext]_failoverVars => FailoverInv'
<1> SUFFICES ASSUME FailoverInv, [FailoverNext]_failoverVars PROVE FailoverInv'
  OBVIOUS
<1>1. CASE UNCHANGED failoverVars
  BY <1>1 DEF failoverVars, FailoverInv, FailoverTypeOK, PromisesKept, SnapshotOfNow, IdleMeans,
              Promised, FoundBy
<1>2. CASE FailoverNext
  BY <1>2, BeginsKept, CallKept, RecordKept, ProbeKept, SnapshotKept, SyncOneKept, SyncDoneKept
     DEF FailoverNext
<1> QED BY <1>1, <1>2

(* For a task that uses the memory alone, whatever fails and is repaired:  *)
(* what a store was answered Ok for is what a get finds.  With several at  *)
(* once this does not hold.                                                *)
THEOREM FailoverKeepsAckedHolds == ASSUME OneTask PROVE FailoverSpec => []FailoverKeepsAcked
<1>1. FailoverInv => FailoverKeepsAcked
  <2> SUFFICES ASSUME FailoverInv, \A u \in Users : op[u] = Idle, NEW k \in Keys, acked[k] # 0
               PROVE  (IF cache[k] # 0 THEN cache[k] ELSE primary[k]) = acked[k]
    BY DEF FailoverKeepsAcked
  <2>1. PICK u : Users = {u}
    BY DEF OneTask
  <2>2. op[u] = Idle /\ Promised(op[u], k) = acked[k]
    BY <2>1, IdleIsAnOp DEF Promised
  <2> QED BY <2>1, <2>2 DEF FailoverInv, PromisesKept, FoundBy
<1> QED BY <1>1, FailoverStarts, FailoverKept, PTL DEF FailoverSpec
-----------------------------------------------------------------------------
(* The token store.  Whoever has begun has the mutex; and while nothing    *)
(* was lost, the file and memory hold the same token between two steps,    *)
(* which is the one the endpoint expects, or the one who has the mutex is  *)
(* about to save that.                                                     *)
OneCaller ==
  \A u \in TokenUsers : /\ userStep[u] # "idle" => holder = u
                        /\ received[u] # 0 <=> userStep[u] = "save"
GoodToken ==
  ~lost => /\ ~reused /\ memToken = fileToken
           /\ \A u \in TokenUsers : userStep[u] = "save" => received[u] = issued
           /\ (\A u \in TokenUsers : userStep[u] # "save") => fileToken = issued
OauthInv == OauthTypeOK /\ OneCaller /\ GoodToken

LEMMA OauthStarts == OauthInit => OauthInv
<1> SUFFICES ASSUME OauthInit PROVE OauthInv
  OBVIOUS
<1>1. /\ memToken = 1 /\ fileToken = 1 /\ issued = 1 /\ 1 \in 1 .. MaxTokens
      /\ \A u \in TokenUsers : userStep[u] = "idle" /\ received[u] = 0
  BY OauthAssumption DEF OauthInit
<1>2. OauthTypeOK
  <2>1. 0 \in 0 .. MaxTokens /\ received \in [TokenUsers -> 0 .. MaxTokens]
    BY OauthAssumption DEF OauthInit
  <2>2. lost \in BOOLEAN /\ reused \in BOOLEAN
    BY Zenon DEF OauthInit
  <2> QED BY <1>1, <2>1, <2>2 DEF OauthInit, OauthTypeOK
<1>3. OneCaller /\ GoodToken
  BY <1>1 DEF OauthInit, OneCaller, GoodToken
<1> QED BY <1>2, <1>3 DEF OauthInv

LEMMA AskKeeps ==
  ASSUME OauthInv, NEW u \in TokenUsers, Ask(u)
  PROVE  OauthInv'
<1> USE OauthAssumption
<1>1. userStep' = [userStep EXCEPT ![u] = "post"] /\ holder' = u /\ userStep[u] = "idle"
      /\ UNCHANGED <<memToken, fileToken, issued, stale, received, lost, reused>>
  BY DEF Ask, UserAt, UserTo
<1>2. holder = NoUser
  BY DEF Ask
<1>3. \A v \in TokenUsers : userStep[v] = "idle"
  BY <1>2 DEF OauthInv, OneCaller
<1>4. OauthTypeOK'
  BY <1>1 DEF OauthInv, OauthTypeOK
<1>5. OneCaller'
  BY <1>1, <1>3 DEF OauthInv, OauthTypeOK, OneCaller
<1>6. GoodToken'
  BY <1>1, <1>3 DEF OauthInv, OauthTypeOK, GoodToken
<1> QED BY <1>4, <1>5, <1>6 DEF OauthInv

(* The endpoint's answer: a new token, or the same one again.              *)
LEMMA AnsweredKeeps ==
  ASSUME OauthInv, NEW u \in TokenUsers, Refreshed(u) \/ Renewed(u)
  PROVE  OauthInv'
<1> USE OauthAssumption
<1>1. /\ userStep' = [userStep EXCEPT ![u] = "save"] /\ userStep[u] = "post"
      /\ received' = [received EXCEPT ![u] = issued'] /\ memToken = issued
      /\ issued' \in 1 .. MaxTokens
      /\ UNCHANGED <<memToken, fileToken, stale, holder, lost, reused>>
  BY DEF Refreshed, Renewed, UserAt, UserTo, OauthInv, OauthTypeOK
<1>2. \A v \in TokenUsers \ {u} : userStep[v] = "idle" /\ received[v] = 0
  BY <1>1 DEF OauthInv, OneCaller
<1>3. OauthTypeOK'
  BY <1>1 DEF OauthInv, OauthTypeOK
<1>4. OneCaller'
  BY <1>1, <1>2 DEF OauthInv, OauthTypeOK, OneCaller
<1>5. GoodToken'
  BY <1>1, <1>2 DEF OauthInv, OauthTypeOK, GoodToken
<1> QED BY <1>3, <1>4, <1>5 DEF OauthInv

LEMMA GivenBack ==
  ASSUME OauthInv, NEW u \in TokenUsers, userStep[u] # "idle", GiveBack(u)
  PROVE  /\ holder' = NoUser /\ userStep' = [v \in TokenUsers |-> "idle"]
         /\ \A v \in TokenUsers \ {u} : userStep[v] = "idle" /\ received[v] = 0
<1>1. holder = u /\ \A v \in TokenUsers \ {u} : userStep[v] = "idle" /\ received[v] = 0
  BY DEF OauthInv, OneCaller
<1> QED BY <1>1 DEF GiveBack, UserTo, OauthInv, OauthTypeOK

(* No answer, or a refusal: the one who asked goes away with nothing.      *)
LEMMA UnansweredKeeps ==
  ASSUME OauthInv, NEW u \in TokenUsers, Refused(u) \/ NoAnswer(u)
  PROVE  OauthInv'
<1> USE OauthAssumption
<1>1. userStep[u] = "post" /\ GiveBack(u) /\ UNCHANGED <<memToken, fileToken, stale, received>>
  BY DEF Refused, NoAnswer, UserAt
<1>2. /\ holder' = NoUser /\ userStep' = [v \in TokenUsers |-> "idle"]
      /\ \A v \in TokenUsers : userStep[v] # "save" /\ received[v] = 0
  BY <1>1, GivenBack DEF OauthInv, OneCaller
<1>3. \/ issued' = issued /\ lost' = lost /\ reused' = (reused \/ memToken # issued)
      \/ issued' = issued /\ lost' = lost /\ reused' = reused
      \/ issued' \in 1 .. MaxTokens /\ lost' = TRUE /\ reused' = reused
  BY DEF Refused, NoAnswer, OauthInv, OauthTypeOK
<1>4. OauthTypeOK'
  BY <1>1, <1>2, <1>3 DEF OauthInv, OauthTypeOK
<1>5. OneCaller'
  BY <1>1, <1>2 DEF OneCaller
<1>6. GoodToken'
  BY <1>1, <1>2, <1>3 DEF OauthInv, OauthTypeOK, GoodToken
<1> QED BY <1>4, <1>5, <1>6 DEF OauthInv

LEMMA SavedKeeps ==
  ASSUME OauthInv, NEW u \in TokenUsers, Saved(u) \/ SaveFails(u)
  PROVE  OauthInv'
<1> USE OauthAssumption
<1>1. userStep[u] = "save" /\ GiveBack(u) /\ received' = [received EXCEPT ![u] = 0]
      /\ UNCHANGED <<issued, reused>>
  BY DEF Saved, SaveFails, UserAt
<1>2. /\ holder' = NoUser /\ userStep' = [v \in TokenUsers |-> "idle"]
      /\ \A v \in TokenUsers \ {u} : userStep[v] = "idle" /\ received[v] = 0
  BY <1>1, GivenBack
<1>3. received' = [v \in TokenUsers |-> 0]
  BY <1>1, <1>2 DEF OauthInv, OauthTypeOK
<1>4. received[u] \in 1 .. MaxTokens /\ (~lost => received[u] = issued)
  BY <1>1 DEF OauthInv, OauthTypeOK, OneCaller, GoodToken
<1>5. \/ /\ fileToken' = received[u] /\ memToken' = received[u] /\ lost' = lost
         /\ stale' \subseteq stale
      \/ /\ UNCHANGED <<memToken, stale>> /\ fileToken' \in {fileToken, NoTokens}
         /\ lost' = (lost \/ received[u] # fileToken')
  BY DEF Saved, SaveFails
<1>6. OauthTypeOK'
  <2>1. lost' \in BOOLEAN /\ reused' \in BOOLEAN
    BY Zenon, <1>1, <1>5 DEF OauthInv, OauthTypeOK
  <2>2. /\ {memToken, fileToken}' \subseteq {NoTokens} \cup 1 .. MaxTokens
        /\ issued' \in 1 .. MaxTokens /\ stale' \subseteq 1 .. MaxTokens
    BY <1>1, <1>4, <1>5 DEF OauthInv, OauthTypeOK
  <2> QED BY <1>2, <1>3, <2>1, <2>2 DEF OauthTypeOK, NoTokens
<1>7. OneCaller'
  BY <1>2, <1>3 DEF OneCaller
<1>8. ASSUME ~lost' PROVE ~lost /\ fileToken' = received[u]
                           /\ (memToken' = received[u] \/ memToken' = memToken)
  <2>1. CASE Saved(u)
    BY <1>8, <2>1 DEF Saved
  <2>2. CASE SaveFails(u)
    <3>1. lost' <=> lost \/ received[u] # fileToken'
      BY <2>2, <1>1 DEF SaveFails, OauthInv, OauthTypeOK
    <3> QED BY Zenon, <1>8, <2>2, <3>1 DEF SaveFails
  <2> QED BY <2>1, <2>2
<1>9. ASSUME ~lost' PROVE memToken' = fileToken'
  <2>1. received[u] # NoTokens /\ memToken = fileToken
    BY <1>4, <1>8, <1>9 DEF NoTokens, OauthInv, GoodToken
  <2>2. CASE Saved(u)
    BY <2>2 DEF Saved
  <2>3. CASE SaveFails(u)
    <3>1. fileToken' \in {fileToken, NoTokens} /\ memToken' = memToken
      BY <2>3 DEF SaveFails
    <3> QED BY <1>8, <1>9, <2>1, <3>1
  <2> QED BY <2>2, <2>3
<1>10. GoodToken'
  BY <1>1, <1>2, <1>4, <1>8, <1>9 DEF OauthInv, GoodToken
<1> QED BY <1>6, <1>7, <1>10 DEF OauthInv

LEMMA RestartedKeeps == OauthInv /\ Restarted => OauthInv'
<1> SUFFICES ASSUME OauthInv, Restarted PROVE OauthInv'
  OBVIOUS
<1> USE OauthAssumption
<1>1. OauthTypeOK'
  BY DEF OauthInv, OauthTypeOK, Restarted, NoTokens
<1>2. OneCaller'
  BY DEF OneCaller, Restarted
<1>3. /\ lost' = (lost \/ \E u \in TokenUsers : received[u] \notin {0, fileToken'})
      /\ UNCHANGED <<issued, reused>> /\ memToken' = fileToken'
      /\ fileToken' = fileToken \/ \E u \in TokenUsers : userStep[u] = "save"
      /\ \A u \in TokenUsers : userStep'[u] = "idle"
  BY DEF Restarted, UserAt
<1>4. ASSUME ~lost' PROVE ~reused' /\ fileToken' = issued'
  <2>1. CASE \E u \in TokenUsers : userStep[u] = "save"
    <3>1. PICK u \in TokenUsers : userStep[u] = "save"
      BY <2>1
    <3>2. received[u] = issued /\ received[u] # 0 /\ received[u] \in {0, fileToken'}
      BY <1>3, <1>4, <3>1 DEF OauthInv, OneCaller, GoodToken
    <3> QED BY <1>3, <1>4, <3>2 DEF OauthInv, GoodToken
  <2>2. CASE \A u \in TokenUsers : userStep[u] # "save"
    BY <1>3, <1>4, <2>2 DEF OauthInv, GoodToken
  <2> QED BY <2>1, <2>2
<1>5. GoodToken'
  BY <1>3, <1>4 DEF GoodToken
<1> QED BY <1>1, <1>2, <1>5 DEF OauthInv

LEMMA OauthKept == OauthInv /\ [OauthNext]_oauthVars => OauthInv'
<1> SUFFICES ASSUME OauthInv, [OauthNext]_oauthVars PROVE OauthInv'
  OBVIOUS
<1>1. ASSUME NEW u \in TokenUsers, Ask(u) PROVE OauthInv'
  BY <1>1, AskKeeps
<1>2. ASSUME NEW u \in TokenUsers, Refreshed(u) \/ Renewed(u) PROVE OauthInv'
  BY <1>2, AnsweredKeeps
<1>3. ASSUME NEW u \in TokenUsers, Refused(u) \/ NoAnswer(u) PROVE OauthInv'
  BY <1>3, UnansweredKeeps
<1>4. ASSUME NEW u \in TokenUsers, Saved(u) \/ SaveFails(u) PROVE OauthInv'
  BY <1>4, SavedKeeps
<1>5. CASE ExpiryNears
  BY <1>5 DEF ExpiryNears, OauthInv, OauthTypeOK, OneCaller, GoodToken, NoTokens
<1>6. CASE Restarted
  BY <1>6, RestartedKeeps
<1>7. CASE UNCHANGED oauthVars
  BY <1>7 DEF oauthVars, OauthInv, OauthTypeOK, OneCaller, GoodToken
<1> QED BY <1>1, <1>2, <1>3, <1>4, <1>5, <1>6, <1>7 DEF OauthNext

(* With callers at the same time, restarts, refusals, and saves that fail  *)
(* or are cut short: a refresh token that was used up is shown only after  *)
(* an answer or a save was lost, and until then the file has the good one, *)
(* or it is about to be saved.                                             *)
THEOREM TokensSafeHolds == OauthSpec => []TokensSafe
<1>1. OauthInv => TokensSafe
  BY DEF OauthInv, OneCaller, GoodToken, TokensSafe, NotReusedUnlessLost, FileIsCurrent
<1> QED BY <1>1, OauthStarts, OauthKept, PTL DEF OauthSpec
-----------------------------------------------------------------------------
(* The identities.  Tokens are numbered as they are issued; a flow is out  *)
(* of the pending ones before its code is exchanged; whatever a call has   *)
(* in hand is its own account's; and but for clouded accounts, one call at *)
(* most is at an account, and what it is about to store is still good.     *)
IdSteps == {"idle", "exchange", "refresh", "answered"}
IdRecords == [step : IdSteps, account : Accounts \cup {NoAccount}, flow : 0 .. MaxFlows,
              used : 0 .. MaxIssued, got : 0 .. MaxIssued]
IdentityTypes ==
  /\ known \subseteq IdUsers /\ tokenOf \in [Accounts -> 0 .. MaxIssued]
  /\ flowOf \in [Flows -> Accounts \cup {NoAccount}]
  /\ pendingFlows \subseteq Flows /\ oldFlows \subseteq Flows
  /\ idCall \in [IdCalls -> IdRecords]
  /\ issuedTo \in [1 .. MaxIssued -> Accounts \cup {NoAccount}]
  /\ replaced \subseteq Issued /\ exchanges \in [Flows -> Nat] /\ clouded \subseteq Accounts
IssuedInOrder == \E n \in 0 .. MaxIssued : Issued = 1 .. n
ToStore(rpc) == IF rpc.got # 0 THEN rpc.got ELSE rpc.used

\* A rpc and what it has in hand.
HeldToken(rpc, issues) ==
  /\ rpc.step = "idle" => rpc.account = NoAccount /\ rpc.used = 0 /\ rpc.got = 0
  /\ rpc.step # "idle" => rpc.account \in Accounts
  /\ rpc.step = "exchange" => rpc.flow \in Flows /\ rpc.used = 0 /\ rpc.got = 0
  /\ rpc.step = "refresh" => rpc.used # 0 /\ rpc.got = 0
  /\ rpc.step = "answered" => ToStore(rpc) # 0
  /\ rpc.used # 0 => issues[rpc.used] = rpc.account
  /\ rpc.got # 0 => issues[rpc.got] = rpc.account
CallsInHand == \A c \in IdCalls : HeldToken(idCall[c], issuedTo)
AtCode(c, f) == idCall[c].step = "exchange" /\ idCall[c].flow = f
FlowsOnce == \A f \in Flows :
  /\ exchanges[f] <= 1
  /\ f \in pendingFlows => flowOf[f] \in Accounts /\ exchanges[f] = 0
  /\ flowOf[f] = NoAccount => exchanges[f] = 0
  /\ \A c \in IdCalls : AtCode(c, f) =>
       /\ exchanges[f] = 0 /\ f \notin pendingFlows /\ flowOf[f] \in Accounts
       /\ \A d \in IdCalls : AtCode(d, f) => d = c
TokensOwn == \A a \in Accounts :
  tokenOf[a] # 0 => issuedTo[tokenOf[a]] = a /\ a[1] \in known
StillGood(a) ==
  /\ \A c, d \in IdCalls : idCall[c].account = a /\ idCall[d].account = a => c = d
  /\ \A c \in IdCalls : idCall[c].account = a /\ idCall[c].step = "answered" =>
                          ToStore(idCall[c]) \notin replaced
  /\ tokenOf[a] \in replaced =>
       \E c \in IdCalls : idCall[c].account = a /\ idCall[c].step = "answered"
GoodUnlessClouded == \A a \in Accounts \ clouded : StillGood(a)
IdentityInv == /\ IdentityTypes /\ IssuedInOrder /\ CallsInHand /\ FlowsOnce
               /\ TokensOwn /\ GoodUnlessClouded

LEMMA NoIdCallIsOne == NoIdCall \in IdRecords /\ NoIdCall.step = "idle" /\ NoIdCall.account = NoAccount
                       /\ NoIdCall.used = 0 /\ NoIdCall.got = 0
BY IdentityAssumption DEF NoIdCall, IdCall, IdRecords, IdSteps

LEMMA IdentityStarts == IdentityInit => IdentityInv
<1> SUFFICES ASSUME IdentityInit PROVE IdentityInv
  OBVIOUS
<1> USE IdentityAssumption
<1>1. /\ known = {} /\ tokenOf = [a \in Accounts |-> 0]
      /\ flowOf = [f \in Flows |-> NoAccount] /\ pendingFlows = {} /\ oldFlows = {}
      /\ idCall = [c \in IdCalls |-> NoIdCall]
      /\ issuedTo = [n \in 1 .. MaxIssued |-> NoAccount] /\ replaced = {}
      /\ exchanges = [f \in Flows |-> 0] /\ clouded = {}
  BY DEF IdentityInit
<1>2. Issued = {}
  BY <1>1 DEF Issued
<1>3. 0 \in 0 .. MaxIssued /\ 1 .. 0 = {}
  OBVIOUS
<1>4. IssuedInOrder
  BY <1>2, <1>3 DEF IssuedInOrder
<1>5. IdentityTypes
  BY <1>1, <1>3, NoIdCallIsOne DEF IdentityTypes
<1>6. CallsInHand
  BY <1>1, NoIdCallIsOne DEF CallsInHand, HeldToken
<1>7. FlowsOnce
  BY <1>1, NoIdCallIsOne DEF FlowsOnce, AtCode
<1>8. TokensOwn
  BY <1>1 DEF TokensOwn
<1>9. GoodUnlessClouded
  BY <1>1, NoIdCallIsOne DEF GoodUnlessClouded, StillGood
<1> QED BY <1>4, <1>5, <1>6, <1>7, <1>8, <1>9 DEF IdentityInv

(* The next token is one that was issued to nobody.                        *)
LEMMA NewTokenIsNew ==
  ASSUME IdentityInv, NewToken <= MaxIssued, NEW a \in Accounts,
         issuedTo' = [issuedTo EXCEPT ![NewToken] = a]
  PROVE  /\ NewToken \in 1 .. MaxIssued /\ NewToken \notin Issued
         /\ issuedTo' \in [1 .. MaxIssued -> Accounts \cup {NoAccount}]
         /\ issuedTo'[NewToken] = a /\ \A n \in Issued : issuedTo'[n] = issuedTo[n]
         /\ Issued' = Issued \cup {NewToken} /\ IssuedInOrder'
<1> USE IdentityAssumption
<1>1. PICK n \in 0 .. MaxIssued : Issued = 1 .. n
  BY DEF IdentityInv, IssuedInOrder
<1>2. Cardinality(1 .. n) = n
  BY FS_Interval
<1>3. NewToken = n + 1
  BY <1>1, <1>2 DEF NewToken
<1> HIDE DEF NewToken
<1>4. NewToken \in 1 .. MaxIssued /\ NewToken \notin Issued
  BY <1>1, <1>3
<1>5. issuedTo \in [1 .. MaxIssued -> Accounts \cup {NoAccount}]
  BY DEF IdentityInv, IdentityTypes
<1>6. /\ issuedTo' \in [1 .. MaxIssued -> Accounts \cup {NoAccount}] /\ issuedTo'[NewToken] = a
      /\ \A m \in 1 .. MaxIssued : m # NewToken => issuedTo'[m] = issuedTo[m]
  BY <1>4, <1>5
<1>7. Issued' = Issued \cup {NewToken}
  BY <1>4, <1>6 DEF Issued
<1>8. Issued' = 1 .. (n + 1) /\ n + 1 \in 0 .. MaxIssued
  BY <1>1, <1>3, <1>7
<1>9. IssuedInOrder'
  BY <1>8 DEF IssuedInOrder
<1>10. \A m \in Issued : issuedTo'[m] = issuedTo[m]
  BY <1>4, <1>6 DEF Issued
<1> QED BY <1>4, <1>6, <1>7, <1>9, <1>10

(* A token somebody has was issued.                                        *)
LEMMA OwnedIsIssued ==
  ASSUME IdentityInv
  PROVE  /\ 0 \notin replaced /\ 0 \notin Issued
         /\ \A n \in 0 .. MaxIssued : n # 0 /\ issuedTo[n] \in Accounts => n \in Issued
<1> USE IdentityAssumption
<1>1. replaced \subseteq Issued /\ Issued \subseteq 1 .. MaxIssued
  BY DEF IdentityInv, IdentityTypes, Issued
<1>2. ASSUME NEW n \in 0 .. MaxIssued, n # 0, issuedTo[n] \in Accounts PROVE n \in Issued
  BY <1>2 DEF Issued
<1> QED BY <1>1, <1>2

LEMMA IdMoves ==
  ASSUME IdentityInv, NEW c \in IdCalls, NEW rpc \in IdRecords, IdTo(c, rpc)
  PROVE  /\ idCall' \in [IdCalls -> IdRecords] /\ idCall'[c] = rpc
         /\ \A d \in IdCalls \ {c} : idCall'[d] = idCall[d]
BY DEF IdTo, IdentityInv, IdentityTypes

LEMMA RegisterUserKept ==
  ASSUME IdentityInv, NEW u \in IdUsers, RegisterUser(u)
  PROVE  IdentityInv'
<1>1. /\ known' = known \cup {u}
      /\ UNCHANGED <<tokenOf, flowOf, pendingFlows, oldFlows, idCall, issuedTo, replaced,
                     exchanges, clouded>>
  BY DEF RegisterUser
<1>2. Issued' = Issued
  BY <1>1 DEF Issued
<1> QED BY <1>1, <1>2 DEF IdentityInv, IdentityTypes, IssuedInOrder, CallsInHand, HeldToken,
             FlowsOnce, AtCode, TokensOwn, GoodUnlessClouded, StillGood

(* A flow begins, or grows old.                                            *)
LEMMA FlowBeginsKept ==
  ASSUME IdentityInv, NEW a \in Accounts, StartFlow(a)
  PROVE  IdentityInv'
<1> USE IdentityAssumption
<1>1. PICK f \in Flows : /\ flowOf[f] = NoAccount /\ flowOf' = [flowOf EXCEPT ![f] = a]
                         /\ pendingFlows' = pendingFlows \cup {f}
  BY DEF StartFlow
<1>2. UNCHANGED <<known, tokenOf, oldFlows, idCall, issuedTo, replaced, exchanges, clouded>>
  BY DEF StartFlow
<1>3. Issued' = Issued
  BY <1>2 DEF Issued
<1>4. IdentityTypes'
  BY <1>1, <1>2, <1>3 DEF IdentityInv, IdentityTypes
<1>5. flowOf'[f] = a /\ \A g \in Flows \ {f} : flowOf'[g] = flowOf[g]
  BY <1>1 DEF IdentityInv, IdentityTypes
<1>6. FlowsOnce'
  <2>1. exchanges[f] = 0 /\ \A c \in IdCalls : ~AtCode(c, f)
    BY <1>1 DEF IdentityInv, FlowsOnce
  <2>2. \A c \in IdCalls, g \in Flows : AtCode(c, g)' = AtCode(c, g)
    BY <1>2 DEF AtCode
  <2>3. ASSUME NEW g \in Flows, g # f PROVE flowOf'[g] = flowOf[g] /\ (g \in pendingFlows' => g \in pendingFlows)
    BY <1>1, <1>5, <2>3
  <2> QED BY <1>2, <1>5, <2>1, <2>2, <2>3 DEF IdentityInv, FlowsOnce
<1>7. IssuedInOrder' /\ CallsInHand' /\ TokensOwn' /\ GoodUnlessClouded'
  BY <1>2, <1>3 DEF IdentityInv, IssuedInOrder, CallsInHand, HeldToken, TokensOwn,
                    GoodUnlessClouded, StillGood
<1> QED BY <1>4, <1>6, <1>7 DEF IdentityInv

LEMMA FlowAgesKept ==
  ASSUME IdentityInv, NEW f \in Flows, FlowAges(f)
  PROVE  IdentityInv'
<1>1. /\ oldFlows' = oldFlows \cup {f}
      /\ UNCHANGED <<known, tokenOf, flowOf, pendingFlows, idCall, issuedTo, replaced,
                     exchanges, clouded>>
  BY DEF FlowAges
<1>2. Issued' = Issued
  BY <1>1 DEF Issued
<1> QED BY <1>1, <1>2 DEF IdentityInv, IdentityTypes, IssuedInOrder, CallsInHand, HeldToken,
             FlowsOnce, AtCode, TokensOwn, GoodUnlessClouded, StillGood

(* A call takes up an account: it is the only one there, or the account is *)
(* clouded from now on.                                                    *)
LEMMA TakesUpKept ==
  ASSUME IdentityInv, NEW c \in IdCalls, NEW rpc \in IdRecords, IdAt(c, "idle"), IdTo(c, rpc),
         rpc.step \in {"exchange", "refresh"}, rpc.account \in Accounts,
         clouded' = Crosses(c, rpc.account), UNCHANGED <<tokenOf, issuedTo, replaced, known>>
  PROVE  GoodUnlessClouded' /\ clouded' \subseteq Accounts /\ TokensOwn'
<1> USE IdentityAssumption
<1> DEFINE a == rpc.account
<1>1. idCall'[c] = rpc /\ \A d \in IdCalls \ {c} : idCall'[d] = idCall[d]
  BY IdMoves
<1>2. clouded' \subseteq Accounts /\ clouded \subseteq clouded'
      /\ (a \notin clouded' => \A d \in IdCalls \ {c} : idCall[d].account # a)
  BY DEF Crosses, IdentityInv, IdentityTypes
<1>3. idCall[c].account = NoAccount
  BY DEF IdAt, IdentityInv, CallsInHand, HeldToken
<1>4. ASSUME NEW b \in Accounts \ clouded', b # a PROVE StillGood(b)'
  <2>1. StillGood(b)
    BY <1>2, <1>4 DEF IdentityInv, GoodUnlessClouded
  <2>2. \A d \in IdCalls : idCall'[d].account = b => d # c
    BY <1>1, <1>4
  <2>3. \A d \in IdCalls : idCall[d].account = b => d # c
    BY <1>3, <1>4
  <2> QED BY <1>1, <2>1, <2>2, <2>3 DEF StillGood
<1>5. ASSUME a \notin clouded' PROVE StillGood(a)'
  <2>1. StillGood(a) /\ \A d \in IdCalls : idCall[d].account # a
    BY <1>2, <1>3, <1>5 DEF IdentityInv, GoodUnlessClouded
  <2>2. \A d \in IdCalls : idCall'[d].account = a => d = c
    BY <1>1, <2>1
  <2> QED BY <1>1, <2>1, <2>2 DEF StillGood
<1>6. GoodUnlessClouded'
  BY <1>4, <1>5 DEF GoodUnlessClouded
<1>7. TokensOwn'
  BY DEF IdentityInv, TokensOwn
<1> QED BY <1>2, <1>6, <1>7

LEMMA BeginRefreshKept ==
  ASSUME IdentityInv, NEW c \in IdCalls, NEW a \in Accounts, BeginRefresh(c, a)
  PROVE  IdentityInv'
<1> USE IdentityAssumption
<1>0. PICK rpc : rpc = IdCall("refresh", a, 0, tokenOf[a], 0)
  OBVIOUS
<1>1. /\ IdAt(c, "idle") /\ a[1] \in known /\ tokenOf[a] # 0 /\ IdTo(c, rpc)
      /\ clouded' = Crosses(c, a)
      /\ UNCHANGED <<known, tokenOf, flowOf, pendingFlows, oldFlows, issuedTo, replaced, exchanges>>
  BY <1>0 DEF BeginRefresh
<1>2. /\ rpc \in IdRecords /\ rpc.step = "refresh" /\ rpc.account = a
      /\ rpc.used = tokenOf[a] /\ rpc.got = 0
  BY <1>0 DEF IdCall, IdRecords, IdSteps, IdentityInv, IdentityTypes
<1>3. /\ idCall' \in [IdCalls -> IdRecords] /\ idCall'[c] = rpc
      /\ \A d \in IdCalls \ {c} : idCall'[d] = idCall[d]
  BY <1>1, <1>2, IdMoves
<1>4. GoodUnlessClouded' /\ clouded' \subseteq Accounts /\ TokensOwn'
  BY <1>1, <1>2, TakesUpKept
<1>5. Issued' = Issued
  BY <1>1 DEF Issued
<1>6. IdentityTypes' /\ IssuedInOrder'
  BY <1>1, <1>3, <1>4, <1>5 DEF IdentityInv, IdentityTypes, IssuedInOrder
<1>7. CallsInHand'
  <2>1. HeldToken(rpc, issuedTo')
    BY <1>1, <1>2 DEF HeldToken, IdentityInv, TokensOwn
  <2>2. \A d \in IdCalls \ {c} : HeldToken(idCall'[d], issuedTo')
    BY <1>1, <1>3 DEF IdentityInv, CallsInHand, HeldToken
  <2> QED BY <1>3, <2>1, <2>2 DEF CallsInHand
<1>8. FlowsOnce'
  <2>1. \A d \in IdCalls, f \in Flows : AtCode(d, f)' => AtCode(d, f)
    BY <1>2, <1>3 DEF AtCode
  <2> QED BY <1>1, <2>1 DEF IdentityInv, FlowsOnce
<1> QED BY <1>4, <1>6, <1>7, <1>8 DEF IdentityInv

LEMMA BeginCompleteKept ==
  ASSUME IdentityInv, NEW c \in IdCalls, NEW f \in Flows, BeginComplete(c, f)
  PROVE  IdentityInv'
<1> USE IdentityAssumption
<1>1. /\ IdAt(c, "idle") /\ f \in pendingFlows /\ pendingFlows' = pendingFlows \ {f}
      /\ UNCHANGED <<known, tokenOf, flowOf, oldFlows, issuedTo, replaced, exchanges>>
  BY DEF BeginComplete, TakeFlow
<1>2. flowOf[f] \in Accounts /\ exchanges[f] = 0
  BY <1>1 DEF IdentityInv, FlowsOnce
<1>5. Issued' = Issued
  BY <1>1 DEF Issued
<1>6. \A d \in IdCalls : ~AtCode(d, f)
  BY <1>1 DEF IdentityInv, FlowsOnce
<1>7. CASE f \in oldFlows
  <2>1. idCall' = [idCall EXCEPT ![c] = NoIdCall] /\ UNCHANGED clouded
    BY <1>7 DEF BeginComplete, IdOver, IdTo
  <2>2. /\ idCall' \in [IdCalls -> IdRecords] /\ idCall'[c] = NoIdCall
        /\ \A d \in IdCalls \ {c} : idCall'[d] = idCall[d]
    BY <2>1, NoIdCallIsOne DEF IdentityInv, IdentityTypes
  <2>3. idCall[c].step = "idle" /\ idCall[c].account = NoAccount
    BY <1>1 DEF IdAt, IdentityInv, CallsInHand, HeldToken
  <2>4. /\ \A d \in IdCalls, g \in Flows : AtCode(d, g)' => AtCode(d, g)
        /\ \A d \in IdCalls, b \in Accounts : idCall'[d].account = b <=> idCall[d].account = b
        /\ \A d \in IdCalls : idCall'[d].step = idCall[d].step
        /\ \A d \in IdCalls : idCall'[d].step = "answered" => idCall'[d] = idCall[d]
    BY <2>2, <2>3, NoIdCallIsOne DEF AtCode
  <2>5. IdentityTypes' /\ IssuedInOrder'
    BY <1>1, <1>5, <2>1, <2>2 DEF IdentityInv, IdentityTypes, IssuedInOrder
  <2>6. CallsInHand'
    BY <1>1, <2>2, NoIdCallIsOne DEF IdentityInv, CallsInHand, HeldToken
  <2>7. FlowsOnce'
    BY <1>1, <2>4 DEF IdentityInv, FlowsOnce
  <2>8. TokensOwn'
    BY <1>1 DEF IdentityInv, TokensOwn
  <2>9. GoodUnlessClouded'
    BY <1>1, <2>1, <2>4 DEF IdentityInv, GoodUnlessClouded, StillGood
  <2> QED BY <2>5, <2>6, <2>7, <2>8, <2>9 DEF IdentityInv
<1>8. CASE f \notin oldFlows
  <2>0. PICK rpc : rpc = IdCall("exchange", flowOf[f], f, 0, 0)
    OBVIOUS
  <2>1. IdTo(c, rpc) /\ clouded' = Crosses(c, flowOf[f])
    BY <1>8, <2>0 DEF BeginComplete
  <2>2. /\ rpc \in IdRecords /\ rpc.step = "exchange" /\ rpc.account = flowOf[f]
        /\ rpc.used = 0 /\ rpc.got = 0 /\ rpc.flow = f
    BY <1>2, <2>0 DEF IdCall, IdRecords, IdSteps, Flows
  <2>3. /\ idCall' \in [IdCalls -> IdRecords] /\ idCall'[c] = rpc
        /\ \A d \in IdCalls \ {c} : idCall'[d] = idCall[d]
    BY <2>1, <2>2, IdMoves
  <2>4. GoodUnlessClouded' /\ clouded' \subseteq Accounts /\ TokensOwn'
    BY <1>1, <1>2, <2>1, <2>2, TakesUpKept
  <2>5. IdentityTypes' /\ IssuedInOrder'
    BY <1>1, <1>5, <2>3, <2>4 DEF IdentityInv, IdentityTypes, IssuedInOrder
  <2>6. CallsInHand'
    <3>1. HeldToken(rpc, issuedTo')
      BY <1>2, <2>2 DEF HeldToken
    <3>2. \A d \in IdCalls \ {c} : HeldToken(idCall'[d], issuedTo')
      BY <1>1, <2>3 DEF IdentityInv, CallsInHand, HeldToken
    <3> QED BY <2>3, <3>1, <3>2 DEF CallsInHand
  <2>7. FlowsOnce'
    <3>1. \A d \in IdCalls, g \in Flows : AtCode(d, g)' => (d = c /\ g = f) \/ AtCode(d, g)
      BY <2>2, <2>3 DEF AtCode
    <3> QED BY <1>1, <1>2, <1>6, <3>1 DEF IdentityInv, FlowsOnce
  <2> QED BY <2>4, <2>5, <2>6, <2>7 DEF IdentityInv
<1> QED BY <1>7, <1>8

(* A new token is issued to a call, in place of the one it has used or not.*)
LEMMA IssueKept ==
  ASSUME IdentityInv, NEW c \in IdCalls, idCall[c].step \in {"exchange", "refresh"},
         NewToken <= MaxIssued,
         issuedTo' = [issuedTo EXCEPT ![NewToken] = idCall[c].account],
         IdTo(c, AnsweredWith(idCall[c], NewToken)),
         UNCHANGED <<known, tokenOf, flowOf, pendingFlows, oldFlows, clouded>>,
         replaced' = replaced \/ (replaced' = replaced \cup {idCall[c].used} /\ idCall[c].used # 0),
         exchanges' \in [Flows -> Nat]
  PROVE  IdentityTypes' /\ IssuedInOrder' /\ CallsInHand' /\ TokensOwn' /\ GoodUnlessClouded'
<1> USE IdentityAssumption
<1>0. PICK a, n, rpc : a = idCall[c].account /\ n = NewToken /\ rpc = AnsweredWith(idCall[c], n)
  OBVIOUS
<1>1. idCall[c] \in IdRecords /\ HeldToken(idCall[c], issuedTo) /\ a \in Accounts
  BY <1>0 DEF IdentityInv, IdentityTypes, CallsInHand, HeldToken
<1>2. /\ n \in 1 .. MaxIssued /\ n \notin Issued
      /\ issuedTo' \in [1 .. MaxIssued -> Accounts \cup {NoAccount}]
      /\ issuedTo'[n] = a /\ \A m \in Issued : issuedTo'[m] = issuedTo[m]
      /\ Issued' = Issued \cup {n} /\ IssuedInOrder'
  BY <1>0, <1>1, NewTokenIsNew
<1>3. /\ rpc \in IdRecords /\ rpc.step = "answered" /\ rpc.account = a
      /\ rpc.used = idCall[c].used /\ rpc.got = n
  BY <1>0, <1>1, <1>2 DEF AnsweredWith, IdCall, IdRecords, IdSteps
<1>4. /\ idCall' \in [IdCalls -> IdRecords] /\ idCall'[c] = rpc
      /\ \A d \in IdCalls \ {c} : idCall'[d] = idCall[d]
  BY <1>0, <1>3, IdMoves
<1>5. replaced' \subseteq Issued'
  <2>1. idCall[c].used # 0 => idCall[c].used \in Issued
    BY <1>0, <1>1, OwnedIsIssued DEF HeldToken, IdRecords
  <2> QED BY <1>2, <2>1 DEF IdentityInv, IdentityTypes
<1>6. IdentityTypes'
  BY <1>2, <1>4, <1>5 DEF IdentityInv, IdentityTypes
<1>7. \A m \in 0 .. MaxIssued : m # 0 /\ issuedTo[m] \in Accounts => issuedTo'[m] = issuedTo[m]
  BY <1>2, OwnedIsIssued
<1>8. CallsInHand'
  <2>1. HeldToken(rpc, issuedTo')
    BY <1>0, <1>1, <1>2, <1>3, <1>7 DEF HeldToken, ToStore, IdRecords
  <2>2. ASSUME NEW d \in IdCalls, d # c PROVE HeldToken(idCall'[d], issuedTo')
    <3>1. idCall[d] \in IdRecords /\ HeldToken(idCall[d], issuedTo)
      BY DEF IdentityInv, IdentityTypes, CallsInHand
    <3> QED BY <1>4, <1>7, <2>2, <3>1 DEF HeldToken, IdRecords
  <2> QED BY <1>4, <2>1, <2>2 DEF CallsInHand
<1>9. TokensOwn'
  <2>1. ASSUME NEW b \in Accounts, tokenOf[b] # 0
        PROVE  issuedTo'[tokenOf[b]] = b /\ b[1] \in known
    BY <1>7, <2>1 DEF IdentityInv, IdentityTypes, TokensOwn
  <2> QED BY <2>1 DEF TokensOwn
<1>10. n \notin replaced'
  <2>1. n # idCall[c].used
    BY <1>0, <1>1, <1>2, OwnedIsIssued DEF HeldToken, IdRecords
  <2> QED BY <1>2, <2>1 DEF IdentityInv, IdentityTypes
<1>11. ASSUME NEW b \in Accounts \ clouded, b # a PROVE StillGood(b)'
  <2>1. StillGood(b)
    BY <1>11 DEF IdentityInv, GoodUnlessClouded
  <2>2. \A m \in 0 .. MaxIssued : m # 0 /\ issuedTo[m] = b => m # idCall[c].used
    BY <1>0, <1>1, <1>11 DEF HeldToken
  <2>3. \A d \in IdCalls : idCall'[d].account = b \/ idCall[d].account = b =>
                             d # c /\ idCall'[d] = idCall[d]
    BY <1>0, <1>3, <1>4, <1>11
  <2>4. ASSUME NEW d \in IdCalls, idCall[d].account = b, idCall[d].step = "answered"
        PROVE  ToStore(idCall[d]) \notin replaced'
    <3>1. idCall[d] \in IdRecords /\ HeldToken(idCall[d], issuedTo)
      BY DEF IdentityInv, IdentityTypes, CallsInHand
    <3>2. /\ ToStore(idCall[d]) \in 0 .. MaxIssued /\ ToStore(idCall[d]) # 0
          /\ issuedTo[ToStore(idCall[d])] = b
      BY <2>4, <3>1 DEF HeldToken, IdRecords, ToStore
    <3>3. ToStore(idCall[d]) \notin replaced
      BY <2>1, <2>4 DEF StillGood
    <3> QED BY <2>2, <3>2, <3>3
  <2>5. tokenOf[b] \in replaced' => tokenOf[b] \in replaced
    <3>1. CASE tokenOf[b] = 0
      BY <3>1
    <3>2. CASE tokenOf[b] # 0
      BY <2>2, <3>2 DEF IdentityInv, IdentityTypes, TokensOwn
    <3> QED BY <3>1, <3>2
  <2>6. tokenOf'[b] = tokenOf[b]
    OBVIOUS
  <2> QED BY <2>1, <2>3, <2>4, <2>5, <2>6 DEF StillGood
<1>12. ASSUME a \notin clouded PROVE StillGood(a)'
  <2>1. StillGood(a)
    BY <1>1, <1>12 DEF IdentityInv, GoodUnlessClouded
  <2>2. \A d \in IdCalls : idCall'[d].account = a => d = c
    BY <1>0, <1>4, <2>1 DEF StillGood
  <2>3. ToStore(rpc) = n
    BY <1>2, <1>3 DEF ToStore
  <2> QED BY <1>3, <1>4, <1>10, <2>2, <2>3 DEF StillGood
<1>13. GoodUnlessClouded'
  BY <1>11, <1>12 DEF GoodUnlessClouded
<1> QED BY <1>2, <1>6, <1>8, <1>9, <1>13

LEMMA ExchangeCodeKept ==
  ASSUME IdentityInv, NEW c \in IdCalls, ExchangeCode(c)
  PROVE  IdentityInv'
<1> USE IdentityAssumption
<1>1. /\ idCall[c].step = "exchange" /\ NewToken <= MaxIssued
      /\ exchanges' = [exchanges EXCEPT ![idCall[c].flow] = @ + 1]
      /\ issuedTo' = [issuedTo EXCEPT ![NewToken] = idCall[c].account]
      /\ IdTo(c, AnsweredWith(idCall[c], NewToken))
      /\ UNCHANGED <<known, tokenOf, flowOf, pendingFlows, oldFlows, replaced, clouded>>
  BY DEF ExchangeCode, IdAt
<1>2. PICK f \in Flows : f = idCall[c].flow
  BY <1>1 DEF IdentityInv, CallsInHand, HeldToken
<1>3. /\ exchanges' \in [Flows -> Nat] /\ exchanges'[f] = exchanges[f] + 1
      /\ \A g \in Flows \ {f} : exchanges'[g] = exchanges[g]
  BY <1>1, <1>2 DEF IdentityInv, IdentityTypes
<1>4. IdentityTypes' /\ IssuedInOrder' /\ CallsInHand' /\ TokensOwn' /\ GoodUnlessClouded'
  BY <1>1, <1>3, IssueKept
<1>5. FlowsOnce'
  <2>1. idCall' = [idCall EXCEPT ![c] = AnsweredWith(idCall[c], NewToken)]
    BY <1>1 DEF IdTo
  <2>2. AnsweredWith(idCall[c], NewToken).step = "answered"
    BY DEF AnsweredWith, IdCall
  <2>3. \A d \in IdCalls, g \in Flows : AtCode(d, g)' => d # c /\ AtCode(d, g)
    BY <2>1, <2>2 DEF AtCode, IdentityInv, IdentityTypes
  <2>4. AtCode(c, f) /\ exchanges[f] = 0
    BY <1>1, <1>2 DEF AtCode, IdentityInv, FlowsOnce
  <2>5. /\ f \notin pendingFlows /\ flowOf[f] \in Accounts
        /\ \A d \in IdCalls : AtCode(d, f) => d = c
    BY <2>4 DEF IdentityInv, FlowsOnce
  <2> QED BY <1>1, <1>3, <2>3, <2>4, <2>5 DEF IdentityInv, FlowsOnce
<1> QED BY <1>4, <1>5 DEF IdentityInv

LEMMA RotateTokenKept ==
  ASSUME IdentityInv, NEW c \in IdCalls, RotateToken(c)
  PROVE  IdentityInv'
<1> USE IdentityAssumption
<1>1. /\ idCall[c].step = "refresh" /\ NewToken <= MaxIssued
      /\ issuedTo' = [issuedTo EXCEPT ![NewToken] = idCall[c].account]
      /\ replaced' = replaced \cup {idCall[c].used}
      /\ IdTo(c, AnsweredWith(idCall[c], NewToken))
      /\ UNCHANGED <<known, tokenOf, flowOf, pendingFlows, oldFlows, exchanges, clouded>>
  BY DEF RotateToken, IdAt
<1>2. idCall[c].used # 0 /\ exchanges' \in [Flows -> Nat]
  BY <1>1 DEF IdentityInv, IdentityTypes, CallsInHand, HeldToken
<1>3. IdentityTypes' /\ IssuedInOrder' /\ CallsInHand' /\ TokensOwn' /\ GoodUnlessClouded'
  BY <1>1, <1>2, IssueKept
<1>4. FlowsOnce'
  <2>1. idCall' = [idCall EXCEPT ![c] = AnsweredWith(idCall[c], NewToken)]
    BY <1>1 DEF IdTo
  <2>2. AnsweredWith(idCall[c], NewToken).step = "answered"
    BY DEF AnsweredWith, IdCall
  <2>3. \A d \in IdCalls, g \in Flows : AtCode(d, g)' => AtCode(d, g)
    BY <2>1, <2>2 DEF AtCode, IdentityInv, IdentityTypes
  <2> QED BY <1>1, <2>3 DEF IdentityInv, FlowsOnce
<1> QED BY <1>3, <1>4 DEF IdentityInv

LEMMA ExtendTokenKept ==
  ASSUME IdentityInv, NEW c \in IdCalls, ExtendToken(c)
  PROVE  IdentityInv'
<1> USE IdentityAssumption
<1>0. PICK rpc : rpc = AnsweredWith(idCall[c], 0)
  OBVIOUS
<1>1. /\ idCall[c].step = "refresh" /\ idCall[c].used \notin replaced /\ IdTo(c, rpc)
      /\ UNCHANGED <<known, tokenOf, flowOf, pendingFlows, oldFlows, issuedTo, replaced,
                     exchanges, clouded>>
  BY <1>0 DEF ExtendToken, IdAt
<1>2. idCall[c] \in IdRecords /\ HeldToken(idCall[c], issuedTo)
  BY DEF IdentityInv, IdentityTypes, CallsInHand
<1>3. /\ rpc \in IdRecords /\ rpc.step = "answered" /\ rpc.account = idCall[c].account
      /\ rpc.used = idCall[c].used /\ rpc.got = 0
  BY <1>0, <1>2 DEF AnsweredWith, IdCall, IdRecords, IdSteps
<1>4. /\ idCall' \in [IdCalls -> IdRecords] /\ idCall'[c] = rpc
      /\ \A d \in IdCalls \ {c} : idCall'[d] = idCall[d]
  BY <1>1, <1>3, IdMoves
<1>5. Issued' = Issued
  BY <1>1 DEF Issued
<1>6. IdentityTypes' /\ IssuedInOrder' /\ TokensOwn'
  BY <1>1, <1>4, <1>5 DEF IdentityInv, IdentityTypes, IssuedInOrder, TokensOwn
<1>7. CallsInHand'
  <2>1. HeldToken(rpc, issuedTo')
    BY <1>1, <1>2, <1>3 DEF HeldToken, ToStore
  <2>2. \A d \in IdCalls \ {c} : HeldToken(idCall'[d], issuedTo')
    BY <1>1, <1>4 DEF IdentityInv, CallsInHand
  <2> QED BY <1>4, <2>1, <2>2 DEF CallsInHand
<1>8. FlowsOnce'
  <2>1. \A d \in IdCalls, g \in Flows : AtCode(d, g)' => AtCode(d, g)
    BY <1>3, <1>4 DEF AtCode
  <2> QED BY <1>1, <2>1 DEF IdentityInv, FlowsOnce
<1>9. GoodUnlessClouded'
  <2>1. ToStore(rpc) \notin replaced
    BY <1>1, <1>3 DEF ToStore
  <2>2. ASSUME NEW b \in Accounts \ clouded PROVE StillGood(b)'
    <3>1. StillGood(b)
      BY DEF IdentityInv, GoodUnlessClouded
    <3>2. \A d \in IdCalls : idCall'[d].account = idCall[d].account
      BY <1>3, <1>4
    <3>3. \A d \in IdCalls : idCall[d].step = "answered" => idCall'[d].step = "answered"
      BY <1>3, <1>4
    <3>4. \A d \in IdCalls : idCall'[d].account = b /\ idCall'[d].step = "answered" =>
                               ToStore(idCall'[d]) \notin replaced'
      BY <1>1, <1>4, <2>1, <3>1 DEF StillGood
    <3> QED BY <1>1, <3>1, <3>2, <3>3, <3>4 DEF StillGood
  <2> QED BY <1>1, <2>2 DEF GoodUnlessClouded
<1> QED BY <1>6, <1>7, <1>8, <1>9 DEF IdentityInv

(* A call ends: what is left to show is about its own account.             *)
LEMMA IdCallEnds ==
  ASSUME IdentityInv, NEW c \in IdCalls, IdOver(c),
         tokenOf' \in [Accounts -> 0 .. MaxIssued], clouded' \subseteq Accounts,
         clouded \subseteq clouded',
         \A b \in Accounts : b # idCall[c].account => tokenOf'[b] = tokenOf[b],
         TokensOwn',
         \A a \in Accounts \ clouded' : idCall[c].account = a => tokenOf'[a] \notin replaced,
         UNCHANGED <<known, flowOf, pendingFlows, oldFlows, issuedTo, replaced, exchanges>>
  PROVE  IdentityInv'
<1> USE IdentityAssumption
<1>1. /\ idCall' \in [IdCalls -> IdRecords] /\ idCall'[c] = NoIdCall
      /\ \A d \in IdCalls \ {c} : idCall'[d] = idCall[d]
  BY NoIdCallIsOne, IdMoves DEF IdOver
<1>2. Issued' = Issued
  BY DEF Issued
<1>3. IdentityTypes' /\ IssuedInOrder'
  BY <1>1, <1>2 DEF IdentityInv, IdentityTypes, IssuedInOrder
<1>4. CallsInHand'
  <2>1. HeldToken(NoIdCall, issuedTo')
    BY NoIdCallIsOne DEF HeldToken
  <2> QED BY <1>1, <2>1 DEF IdentityInv, CallsInHand
<1>5. FlowsOnce'
  <2>1. \A d \in IdCalls, g \in Flows : AtCode(d, g)' => AtCode(d, g)
    BY <1>1, NoIdCallIsOne DEF AtCode
  <2> QED BY <2>1 DEF IdentityInv, FlowsOnce
<1>6. GoodUnlessClouded'
  <2>1. ASSUME NEW b \in Accounts \ clouded' PROVE StillGood(b)'
    <3>1. StillGood(b)
      BY DEF IdentityInv, GoodUnlessClouded
    <3>2. \A d \in IdCalls : idCall'[d].account = b => d # c /\ idCall'[d] = idCall[d]
      BY <1>1, NoIdCallIsOne
    <3>3. ASSUME tokenOf'[b] \in replaced'
          PROVE  \E d \in IdCalls : idCall'[d].account = b /\ idCall'[d].step = "answered"
      <4>1. idCall[c].account # b
        BY <3>3
      <4>2. PICK d \in IdCalls : idCall[d].account = b /\ idCall[d].step = "answered"
        BY <3>1, <3>3, <4>1 DEF StillGood
      <4> QED BY <1>1, <4>1, <4>2
    <3>4. \A d, e \in IdCalls : idCall'[d].account = b /\ idCall'[e].account = b => d = e
      BY <3>1, <3>2 DEF StillGood
    <3>5. \A d \in IdCalls : idCall'[d].account = b /\ idCall'[d].step = "answered" =>
                               ToStore(idCall'[d]) \notin replaced'
      BY <3>1, <3>2 DEF StillGood
    <3> QED BY <3>3, <3>4, <3>5 DEF StillGood
  <2> QED BY <2>1 DEF GoodUnlessClouded
<1> QED BY <1>3, <1>4, <1>5, <1>6 DEF IdentityInv

LEMMA EndsWithoutStore ==
  ASSUME IdentityInv, NEW c \in IdCalls, EndpointFails(c) \/ AnswerDropped(c)
  PROVE  IdentityInv'
<1> USE IdentityAssumption
<1>1. /\ IdOver(c) /\ idCall[c].step # "idle"
      /\ UNCHANGED <<known, tokenOf, flowOf, pendingFlows, oldFlows, issuedTo, replaced, exchanges>>
      /\ \/ UNCHANGED clouded /\ idCall[c].step # "answered"
         \/ clouded' = clouded \cup {idCall[c].account}
  BY DEF EndpointFails, AnswerDropped, IdAt
<1>2. idCall[c].account \in Accounts
  BY <1>1 DEF IdentityInv, CallsInHand, HeldToken
<1>3. /\ tokenOf' \in [Accounts -> 0 .. MaxIssued] /\ clouded \subseteq clouded'
      /\ clouded' \subseteq Accounts
  BY <1>1, <1>2 DEF IdentityInv, IdentityTypes
<1>4. TokensOwn'
  BY <1>1 DEF IdentityInv, TokensOwn
<1>5. ASSUME NEW a \in Accounts \ clouded', idCall[c].account = a PROVE tokenOf'[a] \notin replaced
  <2>1. a \notin clouded /\ idCall[c].step # "answered"
    BY <1>1, <1>5
  <2>2. StillGood(a)
    BY <2>1 DEF IdentityInv, GoodUnlessClouded
  <2>3. ~ \E d \in IdCalls : idCall[d].account = a /\ idCall[d].step = "answered"
    BY <1>5, <2>1, <2>2 DEF StillGood
  <2> QED BY <1>1, <2>2, <2>3 DEF StillGood
<1>6. \A b \in Accounts : tokenOf'[b] = tokenOf[b]
  BY <1>1
<1> QED BY <1>1, <1>3, <1>4, <1>5, <1>6, IdCallEnds

LEMMA StoreTokenKept ==
  ASSUME IdentityInv, NEW c \in IdCalls, StoreToken(c)
  PROVE  IdentityInv'
<1> USE IdentityAssumption
<1>0. PICK a : a = idCall[c].account
  OBVIOUS
<1>1. /\ IdOver(c) /\ idCall[c].step = "answered"
      /\ tokenOf' = IF a[1] \in known THEN [tokenOf EXCEPT ![a] = ToStore(idCall[c])] ELSE tokenOf
      /\ UNCHANGED <<known, flowOf, pendingFlows, oldFlows, issuedTo, replaced, exchanges, clouded>>
  BY <1>0 DEF StoreToken, IdAt, NewRefresh, ToStore
<1>2. idCall[c] \in IdRecords /\ HeldToken(idCall[c], issuedTo)
  BY DEF IdentityInv, IdentityTypes, CallsInHand
<1>3. /\ a \in Accounts /\ ToStore(idCall[c]) \in 0 .. MaxIssued
      /\ issuedTo[ToStore(idCall[c])] = a
  BY <1>0, <1>1, <1>2 DEF HeldToken, ToStore, IdRecords
<1>4. /\ tokenOf' \in [Accounts -> 0 .. MaxIssued]
      /\ \A b \in Accounts : b # a => tokenOf'[b] = tokenOf[b]
      /\ a[1] \in known => tokenOf'[a] = ToStore(idCall[c])
      /\ a[1] \notin known => tokenOf'[a] = tokenOf[a]
  BY <1>1, <1>3 DEF IdentityInv, IdentityTypes
<1>5. TokensOwn'
  <2>1. \A b \in Accounts : tokenOf[b] # 0 => issuedTo[tokenOf[b]] = b /\ b[1] \in known
    BY DEF IdentityInv, TokensOwn
  <2>2. ASSUME NEW b \in Accounts, tokenOf'[b] # 0
        PROVE  issuedTo'[tokenOf'[b]] = b /\ b[1] \in known'
    BY <1>1, <1>3, <1>4, <2>1, <2>2
  <2> QED BY <2>2 DEF TokensOwn
<1>6. ASSUME a \notin clouded' PROVE tokenOf'[a] \notin replaced
  <2>1. StillGood(a)
    BY <1>1, <1>3, <1>6 DEF IdentityInv, GoodUnlessClouded
  <2>2. ToStore(idCall[c]) \notin replaced
    BY <1>0, <1>1, <2>1 DEF StillGood
  <2>3. a[1] \notin known => tokenOf[a] = 0
    BY <1>3 DEF IdentityInv, TokensOwn
  <2> QED BY <1>4, <2>2, <2>3, OwnedIsIssued
<1>7. clouded' \subseteq Accounts /\ clouded \subseteq clouded'
  BY <1>1 DEF IdentityInv, IdentityTypes
<1> QED BY <1>0, <1>1, <1>4, <1>5, <1>6, <1>7, IdCallEnds

LEMMA IdentityKept == IdentityInv /\ [IdentityNext]_identityVars => IdentityInv'
<1> SUFFICES ASSUME IdentityInv, [IdentityNext]_identityVars PROVE IdentityInv'
  OBVIOUS
<1>1. ASSUME NEW c \in IdCalls, IdentityStep(c) PROVE IdentityInv'
  BY <1>1, BeginCompleteKept, BeginRefreshKept, ExchangeCodeKept, RotateTokenKept,
     ExtendTokenKept, EndsWithoutStore, StoreTokenKept DEF IdentityStep
<1>2. CASE UNCHANGED identityVars
  <2>1. Issued' = Issued
    BY <1>2 DEF identityVars, Issued
  <2> QED BY <1>2, <2>1 DEF identityVars, IdentityInv, IdentityTypes, IssuedInOrder, CallsInHand,
             FlowsOnce, AtCode, TokensOwn, GoodUnlessClouded, StillGood
<1> QED BY <1>1, <1>2, RegisterUserKept, FlowBeginsKept, FlowAgesKept DEF IdentityNext

(* With any number of calls that cross: the code of an authorization is    *)
(* exchanged once, the token of an account was issued to it, and without   *)
(* crossing and losses it is one the provider still takes, or the next one *)
(* is about to be stored.                                                  *)
THEOREM IdentitySoundHolds == IdentityInit /\ [][IdentityNext]_identityVars => []IdentitySound
<1>1. IdentityInv => IdentitySound
  BY DEF IdentityInv, FlowsOnce, TokensOwn, GoodUnlessClouded, StillGood, IdentitySound
<1> QED BY <1>1, IdentityStarts, IdentityKept, PTL
-----------------------------------------------------------------------------
(* The sessions, for any number of requests and any limit.                 *)

(* What is not retained in the list is what is taken out.                  *)
LEMMA KeptKeysAre ==
  ASSUME NEW X, NEW s \in Seq(X), NEW S
  PROVE  /\ KeptKeys(s, S) \in Seq(X)
         /\ \A x : Contains(KeptKeys(s, S), x) <=> x \in S /\ Contains(s, x)
<1>1. Len(s) \in Nat
  OBVIOUS
<1>2. PICK f : f = CHOOSE g : Filters(g, s, S, Len(s))
  OBVIOUS
<1>3. Filters(f, s, S, Len(s))
  BY <1>1, <1>2, FilterExists
<1>4. KeptKeys(s, S) = f[Len(s)]
  BY <1>2 DEF KeptKeys, Filters
<1> QED BY <1>3, <1>4, Filtered

(* Where the sessions are that the list does not reach: who works on a     *)
(* copy holds its key, and the sessions and the keys held are together     *)
(* within the limit.                                                       *)
OnItsWay(q, k) == held[q] = k /\ step[q] \in {"push", "touch", "putBack"}
SessionsTypes ==
  /\ sessions \subseteq SessionKeys /\ IsFiniteSet(sessions) /\ order \in Seq(SessionKeys)
  /\ step \in [Requests -> {"idle", "touch", "push", "putBack", "unlist"}]
  /\ held \in [Requests -> SessionKeys \cup {NoKey}] /\ removing \in BOOLEAN
  /\ \A r \in Requests : step[r] # "idle" => held[r] # NoKey
  /\ \A r \in Requests : step[r] = "unlist" => removing
HeldBy(R) == {held[r] : r \in R} \ {NoKey}
WithinReach == ~removing => Cardinality(sessions \cup HeldBy(Requests)) <= MaxSessions + Cardinality(Requests) - 1
SessionsInv == SessionsTypes /\ SessionsEvictable /\ WithinReach

LEMMA ImageBound ==
  ASSUME NEW S, IsFiniteSet(S), NEW f
  PROVE  /\ IsFiniteSet({f[x] : x \in S})
         /\ Cardinality({f[x] : x \in S}) <= Cardinality(S)
<1>1. PICK g : g = [x \in S |-> f[x]]
  OBVIOUS
<1>2. g \in Surjection(S, {f[x] : x \in S})
  BY <1>1 DEF Surjection
<1> QED BY <1>2, FS_Surjection

LEMMA HeldBound ==
  ASSUME NEW R \in SUBSET Requests
  PROVE  IsFiniteSet(HeldBy(R)) /\ Cardinality(HeldBy(R)) <= Cardinality(R)
         /\ Cardinality(R) \in Nat /\ Cardinality(HeldBy(R)) \in Nat
<1>1. IsFiniteSet(R)
  BY SessionsAssumption, FS_Subset
<1>2. PICK H : H = {held[r] : r \in R}
  OBVIOUS
<1>3. IsFiniteSet(H) /\ Cardinality(H) <= Cardinality(R)
  BY <1>1, <1>2, ImageBound
<1>4. HeldBy(R) = H \ {NoKey}
  BY <1>2 DEF HeldBy
<1>5. IsFiniteSet(HeldBy(R)) /\ Cardinality(HeldBy(R)) <= Cardinality(H)
  BY <1>3, <1>4, FS_Subset
<1>6. Cardinality(R) \in Nat /\ Cardinality(H) \in Nat /\ Cardinality(HeldBy(R)) \in Nat
  BY <1>1, <1>3, <1>5, FS_CardinalityType
<1> QED BY <1>3, <1>5, <1>6

(* A step that takes nobody's key and no session into reach.               *)
LEMMA ReachKept ==
  ASSUME SessionsInv, ~removing' => ~removing,
         ~removing' => sessions' \cup HeldBy(Requests)' \subseteq sessions \cup HeldBy(Requests)
  PROVE  WithinReach'
<1>1. IsFiniteSet(sessions \cup HeldBy(Requests))
  BY HeldBound, FS_Union DEF SessionsInv, SessionsTypes
<1>2. ASSUME ~removing'
      PROVE  Cardinality(sessions' \cup HeldBy(Requests)')
               <= Cardinality(sessions \cup HeldBy(Requests))
  BY <1>1, <1>2, FS_Subset
<1>3. ASSUME ~removing'
      PROVE  Cardinality(sessions' \cup HeldBy(Requests)') <= MaxSessions + Cardinality(Requests) - 1
  <2>1. /\ Cardinality(sessions \cup HeldBy(Requests)) \in Nat
        /\ Cardinality(sessions' \cup HeldBy(Requests)') \in Nat
        /\ Cardinality(Requests) \in Nat /\ MaxSessions \in Nat
    BY <1>1, <1>3, FS_CardinalityType, FS_Subset, SessionsAssumption
  <2>2. Cardinality(sessions \cup HeldBy(Requests)) <= MaxSessions + Cardinality(Requests) - 1
    BY <1>3 DEF SessionsInv, WithinReach
  <2> QED BY <1>2, <1>3, <2>1, <2>2
<1> QED BY <1>3 DEF WithinReach

(* One request goes on: its next step is st and it holds h.                *)
LEMMA RequestGoesOn ==
  ASSUME SessionsInv, NEW r \in Requests,
         NEW st \in {"idle", "touch", "push", "putBack", "unlist"},
         NEW h \in SessionKeys \cup {NoKey},
         step' = [step EXCEPT ![r] = st], held' = [held EXCEPT ![r] = h],
         st # "idle" => h # NoKey, st = "unlist" => removing', removing => removing',
         removing' \in BOOLEAN, order' \in Seq(SessionKeys),
         sessions' \subseteq SessionKeys, IsFiniteSet(sessions')
  PROVE  SessionsTypes'
<1>1. /\ step' \in [Requests -> {"idle", "touch", "push", "putBack", "unlist"}]
      /\ held' \in [Requests -> SessionKeys \cup {NoKey}]
  BY DEF SessionsInv, SessionsTypes
<1>2. \A q \in Requests : step'[q] # "idle" => held'[q] # NoKey
  BY DEF SessionsInv, SessionsTypes
<1>3. \A q \in Requests : step'[q] = "unlist" => removing'
  BY DEF SessionsInv, SessionsTypes
<1> QED BY <1>1, <1>2, <1>3 DEF SessionsTypes

LEMMA ListGoesOn ==
  ASSUME SessionsInv, NEW r \in Requests, NEW st, NEW h,
         step' = [step EXCEPT ![r] = st], held' = [held EXCEPT ![r] = h],
         ~removing' => ~removing,
         ~removing' => \A k \in sessions' :
            \/ h = k /\ st \in {"push", "touch", "putBack"}
            \/ Contains(order', k)
            \/ k \in sessions /\ ~Contains(order, k) /\ ~OnItsWay(r, k)
  PROVE  SessionsEvictable'
<1> SUFFICES ASSUME ~removing', NEW k \in sessions'
             PROVE  \/ Contains(order', k)
                    \/ \E q \in Requests : held'[q] = k /\ step'[q] \in {"push", "touch", "putBack"}
  BY DEF SessionsEvictable
<1>1. DOMAIN step = Requests /\ DOMAIN held = Requests
  BY DEF SessionsInv, SessionsTypes
<1>2. CASE h = k /\ st \in {"push", "touch", "putBack"}
  BY <1>1, <1>2
<1>3. CASE k \in sessions /\ ~Contains(order, k) /\ ~OnItsWay(r, k)
  <2>1. PICK q \in Requests : OnItsWay(q, k)
    BY <1>3 DEF SessionsInv, SessionsEvictable, OnItsWay
  <2>2. q # r
    BY <1>3, <2>1
  <2> QED BY <1>1, <2>1, <2>2 DEF OnItsWay
<1> QED BY <1>2, <1>3

LEMMA HeldGoesOn ==
  ASSUME SessionsInv, NEW r \in Requests, NEW h, held' = [held EXCEPT ![r] = h],
         h = held[r] \/ h = NoKey \/ h \in sessions
  PROVE  HeldBy(Requests)' \subseteq sessions \cup HeldBy(Requests)
<1>1. DOMAIN held = Requests
  BY DEF SessionsInv, SessionsTypes
<1>2. ASSUME NEW q \in Requests, held'[q] # NoKey PROVE held'[q] \in sessions \cup HeldBy(Requests)
  BY <1>1, <1>2 DEF HeldBy
<1> QED BY <1>2 DEF HeldBy

LEMMA TouchedOrder ==
  ASSUME SessionsInv, NEW k \in SessionKeys, order' = Append(Without(order, k), k)
  PROVE  /\ order' \in Seq(SessionKeys)
         /\ Contains(order', k) /\ \A x : Contains(order, x) => Contains(order', x)
<1>1. PICK s : s = Without(order, k)
  OBVIOUS
<1>2. /\ s \in Seq(SessionKeys)
      /\ \A x : Contains(s, x) <=> x \in SessionKeys \ {k} /\ Contains(order, x)
  BY <1>1, KeptKeysAre DEF Without, SessionsInv, SessionsTypes
<1>3. /\ order' \in Seq(SessionKeys) /\ Len(order') = Len(s) + 1 /\ order'[Len(s) + 1] = k
      /\ Len(s) \in Nat /\ \A i \in 1 .. Len(s) : order'[i] = s[i]
  BY <1>1, <1>2, AppendProperties
<1>4. Contains(order', k) /\ \A x : Contains(s, x) => Contains(order', x)
  BY <1>3 DEF Contains
<1>5. \A x : Contains(order, x) => x \in SessionKeys
  BY DEF Contains, SessionsInv, SessionsTypes
<1> QED BY <1>2, <1>3, <1>4, <1>5

LEMMA ListTouchKept ==
  ASSUME SessionsInv, NEW r \in Requests, Touch(r) \/ TouchUpdated(r)
  PROVE  SessionsInv'
<1>1. PICK h \in {held[r], NoKey} :
      /\ step' = [step EXCEPT ![r] = "idle"] /\ held' = [held EXCEPT ![r] = h]
  BY DEF Touch, TouchUpdated, SessionsInv, SessionsTypes
<1>2. /\ order' = Append(Without(order, held[r]), held[r])
      /\ sessions' = sessions /\ removing' = removing /\ step[r] # "idle"
  BY DEF Touch, TouchUpdated
<1>3. held[r] \in SessionKeys /\ h \in SessionKeys \cup {NoKey}
  BY <1>1, <1>2 DEF SessionsInv, SessionsTypes
<1>4. /\ order' \in Seq(SessionKeys)
      /\ Contains(order', held[r]) /\ \A x : Contains(order, x) => Contains(order', x)
  BY <1>2, <1>3, TouchedOrder
<1>5. SessionsTypes'
  <2>1. removing' \in BOOLEAN /\ sessions' \subseteq SessionKeys /\ IsFiniteSet(sessions')
    BY <1>2 DEF SessionsInv, SessionsTypes
  <2> QED BY <1>1, <1>2, <1>3, <1>4, <2>1, RequestGoesOn
<1>6. SessionsEvictable'
  <2>1. \A k \in sessions' : Contains(order', k) \/ (k \in sessions /\ ~Contains(order, k) /\ ~OnItsWay(r, k))
    BY <1>2, <1>4 DEF OnItsWay
  <2> QED BY <1>1, <1>2, <2>1, ListGoesOn
<1>7. WithinReach'
  <2>1. HeldBy(Requests)' \subseteq sessions \cup HeldBy(Requests)
    BY <1>1, HeldGoesOn
  <2> QED BY <1>2, <2>1, ReachKept
<1> QED BY <1>5, <1>6, <1>7 DEF SessionsInv

LEMMA PushKept ==
  ASSUME SessionsInv, NEW r \in Requests, PushOrder(r)
  PROVE  SessionsInv'
<1>1. /\ step[r] = "push" /\ order' = Append(order, held[r])
      /\ step' = [step EXCEPT ![r] = "idle"]
      /\ sessions' = sessions /\ held' = held /\ removing' = removing
  BY DEF PushOrder
<1>2. PICK h \in SessionKeys : h = held[r]
  BY <1>1 DEF SessionsInv, SessionsTypes
<1>3. held' = [held EXCEPT ![r] = h]
  BY <1>1, <1>2 DEF SessionsInv, SessionsTypes
<1>4. order \in Seq(SessionKeys) /\ removing \in BOOLEAN /\ sessions \subseteq SessionKeys /\ IsFiniteSet(sessions)
  BY DEF SessionsInv, SessionsTypes
<1>5. /\ order' \in Seq(SessionKeys) /\ Len(order') = Len(order) + 1 /\ Len(order) \in Nat
      /\ order'[Len(order) + 1] = h /\ \A i \in 1 .. Len(order) : order'[i] = order[i]
  BY <1>1, <1>2, <1>4, AppendProperties
<1>6. Contains(order', h) /\ \A x : Contains(order, x) => Contains(order', x)
  BY <1>5 DEF Contains
<1>7. SessionsTypes'
  BY <1>1, <1>2, <1>3, <1>4, <1>5, RequestGoesOn
<1>8. SessionsEvictable'
  <2>1. \A k \in sessions' : Contains(order', k) \/ (k \in sessions /\ ~Contains(order, k) /\ ~OnItsWay(r, k))
    BY <1>1, <1>2, <1>6 DEF OnItsWay
  <2> QED BY <1>1, <1>3, <2>1, ListGoesOn
<1>9. WithinReach'
  <2>1. HeldBy(Requests)' \subseteq sessions \cup HeldBy(Requests)
    BY <1>2, <1>3, HeldGoesOn
  <2> QED BY <1>1, <2>1, ReachKept
<1> QED BY <1>7, <1>8, <1>9 DEF SessionsInv

LEMMA UnlistKept ==
  ASSUME SessionsInv, NEW r \in Requests, Unlist(r)
  PROVE  SessionsInv'
<1>1. /\ step[r] = "unlist" /\ order' = Without(order, held[r])
      /\ step' = [step EXCEPT ![r] = "idle"] /\ held' = [held EXCEPT ![r] = NoKey]
      /\ sessions' = sessions /\ removing' = removing
  BY DEF Unlist
<1>2. removing /\ removing \in BOOLEAN /\ sessions \subseteq SessionKeys /\ IsFiniteSet(sessions)
  BY <1>1 DEF SessionsInv, SessionsTypes
<1>3. order' \in Seq(SessionKeys)
  BY <1>1, KeptKeysAre DEF Without, SessionsInv, SessionsTypes
<1>4. SessionsTypes'
  BY <1>1, <1>2, <1>3, RequestGoesOn
<1> QED BY <1>1, <1>2, <1>4 DEF SessionsInv, SessionsEvictable, WithinReach

LEMMA ListCopyKept ==
  ASSUME SessionsInv, NEW r \in Requests, Update(r) \/ Drop(r)
  PROVE  SessionsInv'
<1>1. /\ step[r] = "idle" /\ held[r] # NoKey /\ order' = order /\ held' = held
  BY DEF Update, Drop
<1>2. PICK h \in SessionKeys : h = held[r]
  BY <1>1 DEF SessionsInv, SessionsTypes
<1>3. held' = [held EXCEPT ![r] = h]
  BY <1>1, <1>2 DEF SessionsInv, SessionsTypes
<1>4. /\ order \in Seq(SessionKeys) /\ removing \in BOOLEAN
      /\ sessions \subseteq SessionKeys /\ IsFiniteSet(sessions)
  BY DEF SessionsInv, SessionsTypes
<1>5. CASE Update(r)
  <2>1. /\ sessions' = sessions \cup {h} /\ step' = [step EXCEPT ![r] = "putBack"]
        /\ removing' = removing
    BY <1>2, <1>5 DEF Update
  <2>2. sessions' \subseteq SessionKeys /\ IsFiniteSet(sessions')
    BY <1>4, <2>1, FS_AddElement
  <2>3. SessionsTypes'
    <3>1. h # NoKey /\ order' \in Seq(SessionKeys) /\ removing' \in BOOLEAN
      BY <1>1, <1>2, <1>4, <2>1
    <3> QED BY <1>3, <2>1, <2>2, <3>1, RequestGoesOn
  <2>4. SessionsEvictable'
    <3>1. \A k \in sessions' : h = k \/ Contains(order', k)
                            \/ (k \in sessions /\ ~Contains(order, k) /\ ~OnItsWay(r, k))
      BY <1>1, <2>1 DEF OnItsWay
    <3> QED BY <1>3, <2>1, <3>1, ListGoesOn
  <2>5. WithinReach'
    <3>1. HeldBy(Requests)' \subseteq sessions \cup HeldBy(Requests)
      BY <1>2, <1>3, HeldGoesOn
    <3>2. h \in HeldBy(Requests)
      BY <1>1, <1>2 DEF HeldBy
    <3> QED BY <2>1, <3>1, <3>2, ReachKept
  <2> QED BY <2>3, <2>4, <2>5 DEF SessionsInv
<1>6. CASE Drop(r)
  <2>1. /\ sessions' = sessions \ {h} /\ step' = [step EXCEPT ![r] = "unlist"] /\ removing'
        /\ removing' \in BOOLEAN
    BY <1>2, <1>6 DEF Drop
  <2>2. sessions' \subseteq SessionKeys /\ IsFiniteSet(sessions')
    BY <1>4, <2>1, FS_Subset
  <2>3. SessionsTypes'
    <3>1. h # NoKey /\ order' \in Seq(SessionKeys)
      BY <1>1, <1>2, <1>4
    <3> QED BY <1>3, <2>1, <2>2, <3>1, RequestGoesOn
  <2> QED BY <2>1, <2>3 DEF SessionsInv, SessionsEvictable, WithinReach
<1> QED BY <1>5, <1>6

LEMMA ExistingKept ==
  ASSUME SessionsInv, NEW r \in Requests, NEW k \in SessionKeys, GetExisting(r, k)
  PROVE  SessionsInv'
<1>1. /\ step[r] = "idle" /\ k \in sessions
      /\ step' = [step EXCEPT ![r] = "touch"] /\ held' = [held EXCEPT ![r] = k]
      /\ sessions' = sessions /\ order' = order /\ removing' = removing
  BY DEF GetExisting
<1>2. /\ order' \in Seq(SessionKeys) /\ removing' \in BOOLEAN
      /\ sessions' \subseteq SessionKeys /\ IsFiniteSet(sessions')
  BY <1>1 DEF SessionsInv, SessionsTypes
<1>3. SessionsTypes'
  <2>1. k # NoKey
    BY SessionsAssumption
  <2> QED BY <1>1, <1>2, <2>1, RequestGoesOn
<1>4. SessionsEvictable'
  <2>1. \A x \in sessions' : Contains(order', x) \/ (x \in sessions /\ ~Contains(order, x) /\ ~OnItsWay(r, x))
    BY <1>1 DEF OnItsWay
  <2> QED BY <1>1, <2>1, ListGoesOn
<1>5. WithinReach'
  <2>1. HeldBy(Requests)' \subseteq sessions \cup HeldBy(Requests)
    BY <1>1, HeldGoesOn
  <2> QED BY <1>1, <2>1, ReachKept
<1> QED BY <1>3, <1>4, <1>5 DEF SessionsInv

(* What an eviction leaves: room, or nothing on the list.                  *)
LEMMA EvictionEnds ==
  ASSUME SessionsInv
  PROVE  /\ ToEvict \in 0 .. Len(order)
         /\ Enough(ToEvict) \/ ToEvict = Len(order)
<1>1. Len(order) \in Nat
  BY DEF SessionsInv, SessionsTypes
<1>2. PICK T : T = {n \in 0 .. Len(order) : Enough(n) \/ n = Len(order)}
  OBVIOUS
<1>3. PICK n \in T : \A m \in T : n <= m
  <2>1. T \in SUBSET Nat /\ Len(order) \in T
    BY <1>1, <1>2
  <2> QED BY <2>1, LeastOf
<1>4. ASSUME NEW m \in 0 .. n - 1 PROVE ~Enough(m)
  <2>1. m \in 0 .. Len(order) /\ ~(n <= m)
    BY <1>1, <1>2, <1>4
  <2> QED BY <1>2, <1>3, <2>1
<1>5. \E x \in 0 .. Len(order) : /\ Enough(x) \/ x = Len(order)
                                 /\ \A m \in 0 .. x - 1 : ~Enough(m)
  BY <1>2, <1>3, <1>4
<1> HIDE DEF Enough
<1> QED BY <1>5, Zenon DEF ToEvict

LEMMA CreateKept ==
  ASSUME SessionsInv, NEW r \in Requests, NEW k \in SessionKeys, Create(r, k)
  PROVE  SessionsInv'
<1>1. PICK n : n = ToEvict
  OBVIOUS
<1>2. PICK S : S = sessions \ Evicting(n)
  OBVIOUS
<1>3. /\ step[r] = "idle" /\ sessions' = S \cup {k} /\ order' = SubSeq(order, n + 1, Len(order))
      /\ step' = [step EXCEPT ![r] = "push"] /\ held' = [held EXCEPT ![r] = k]
      /\ removing' = removing
  BY <1>1, <1>2 DEF Create
<1>4. /\ order \in Seq(SessionKeys) /\ Len(order) \in Nat /\ removing \in BOOLEAN
      /\ sessions \subseteq SessionKeys /\ IsFiniteSet(sessions)
  BY DEF SessionsInv, SessionsTypes
<1>5. /\ n \in 0 .. Len(order)
      /\ Cardinality(S) < MaxSessions \/ n = Len(order)
  BY <1>1, <1>2, EvictionEnds DEF Enough
<1>6. /\ order' \in Seq(SessionKeys) /\ Len(order') = Len(order) - n
      /\ \A i \in 1 .. Len(order) - n : order'[i] = order[n + i]
  <2>1. \A i \in n + 1 .. Len(order) : order[i] \in SessionKeys
    BY <1>4, <1>5
  <2>2. n + 1 \in Int /\ Len(order) \in Int
    BY <1>4, <1>5
  <2>3. /\ order' \in Seq(SessionKeys)
        /\ Len(order') = IF n + 1 <= Len(order) THEN Len(order) - (n + 1) + 1 ELSE 0
        /\ \A i \in 1 .. Len(order) - (n + 1) + 1 : order'[i] = order[n + 1 + i - 1]
    BY <1>3, <2>1, <2>2, SubSeqProperties
  <2>4. Len(order') = Len(order) - n
    BY <1>4, <1>5, <2>3
  <2>5. \A i \in 1 .. Len(order) - n : order'[i] = order[n + i]
    BY <1>4, <1>5, <2>3
  <2> QED BY <2>3, <2>4, <2>5
<1>7. sessions' \subseteq SessionKeys /\ IsFiniteSet(S) /\ IsFiniteSet(sessions')
  BY <1>2, <1>3, <1>4, FS_Subset, FS_AddElement
<1>8. SessionsTypes'
  <2>1. k # NoKey /\ removing' \in BOOLEAN
    BY <1>3, <1>4, SessionsAssumption
  <2> QED BY <1>3, <1>6, <1>7, <2>1, RequestGoesOn
<1>9. SessionsEvictable'
  <2>1. ASSUME NEW x \in S, Contains(order, x) PROVE Contains(order', x)
    <3>1. PICK i \in 1 .. Len(order) : order[i] = x
      BY <2>1 DEF Contains
    <3>2. ~(i <= n)
      BY <1>2, <1>5, <3>1 DEF Evicting
    <3>3. i - n \in 1 .. Len(order) - n /\ n + (i - n) = i
      BY <1>4, <1>5, <3>1, <3>2
    <3>4. order'[i - n] = x
      BY <1>6, <3>1, <3>3
    <3> QED BY <1>6, <3>3, <3>4 DEF Contains
  <2>2. \A x \in sessions' : \/ k = x
                             \/ Contains(order', x)
                             \/ x \in sessions /\ ~Contains(order, x) /\ ~OnItsWay(r, x)
    BY <1>2, <1>3, <2>1 DEF OnItsWay
  <2> QED BY <1>3, <2>2, ListGoesOn
<1>10. WithinReach'
  <2> SUFFICES ASSUME ~removing
               PROVE  Cardinality(sessions' \cup HeldBy(Requests)') <= MaxSessions + Cardinality(Requests) - 1
    BY <1>3 DEF WithinReach
  <2>1. PICK O : O = HeldBy(Requests \ {r})
    OBVIOUS
  <2>2. /\ IsFiniteSet(O) /\ Cardinality(O) \in Nat /\ Cardinality(Requests) \in Nat
        /\ Cardinality(O) <= Cardinality(Requests) - 1
    <3>1. IsFiniteSet(O) /\ Cardinality(O) <= Cardinality(Requests \ {r}) /\ Cardinality(O) \in Nat
      BY <2>1, HeldBound
    <3>2. Cardinality(Requests \ {r}) = Cardinality(Requests) - 1 /\ Cardinality(Requests) \in Nat
      BY SessionsAssumption, FS_RemoveElement, FS_CardinalityType
    <3> QED BY <3>1, <3>2
  <2>3. sessions' \cup HeldBy(Requests)' = (S \cup {k}) \cup O
    <3>1. DOMAIN held = Requests /\ k # NoKey
      BY SessionsAssumption DEF SessionsInv, SessionsTypes
    <3>2. HeldBy(Requests)' = O \cup {k}
      BY <1>3, <2>1, <3>1 DEF HeldBy
    <3> QED BY <1>3, <3>2
  <2>4. Cardinality((S \cup {k}) \cup O) <= MaxSessions + Cardinality(Requests) - 1
    <3>1. CASE Cardinality(S) < MaxSessions
      <4>1. Cardinality(S \cup {k}) <= MaxSessions /\ IsFiniteSet(S \cup {k}) /\ Cardinality(S \cup {k}) \in Nat
        <5>1. Cardinality(S) \in Nat /\ MaxSessions \in Nat
          BY <1>7, FS_CardinalityType, SessionsAssumption
        <5>2. Cardinality(S \cup {k}) = (IF k \in S THEN Cardinality(S) ELSE Cardinality(S) + 1)
              /\ IsFiniteSet(S \cup {k})
          BY <1>7, FS_AddElement
        <5> QED BY <3>1, <5>1, <5>2
      <4>2. Cardinality((S \cup {k}) \cup O) <= Cardinality(S \cup {k}) + Cardinality(O)
        <5>1. /\ Cardinality((S \cup {k}) \cup O)
                   = Cardinality(S \cup {k}) + Cardinality(O) - Cardinality((S \cup {k}) \cap O)
              /\ Cardinality((S \cup {k}) \cap O) \in Nat
          BY <2>2, <4>1, FS_Union, FS_Subset, FS_CardinalityType
        <5> QED BY <2>2, <4>1, <5>1
      <4>3. IsFiniteSet((S \cup {k}) \cup O) /\ Cardinality((S \cup {k}) \cup O) \in Nat
        BY <2>2, <4>1, FS_Union, FS_CardinalityType
      <4> QED BY <2>2, <4>1, <4>2, <4>3, SessionsAssumption
    <3>2. CASE n = Len(order)
      <4>1. ASSUME NEW x \in S PROVE x \in O
        <5>1. x \in sessions /\ ~Contains(order, x) /\ x # NoKey
          BY <1>2, <1>4, <3>2, SessionsAssumption DEF Evicting, Contains
        <5>2. PICK q \in Requests : held[q] = x /\ step[q] \in {"push", "touch", "putBack"}
          BY <5>1 DEF SessionsInv, SessionsEvictable
        <5>3. q # r
          BY <1>3, <5>2
        <5> QED BY <2>1, <5>1, <5>2, <5>3 DEF HeldBy
      <4>2. (S \cup {k}) \cup O = O \cup {k}
        BY <4>1
      <4>3. Cardinality(O \cup {k}) = (IF k \in O THEN Cardinality(O) ELSE Cardinality(O) + 1)
        BY <2>2, FS_AddElement
      <4>4. Cardinality(O) \in Nat /\ Cardinality(Requests) \in Nat /\ MaxSessions \in Nat \ {0}
        BY <2>2, FS_CardinalityType, SessionsAssumption
      <4>5. Cardinality(O \cup {k}) <= Cardinality(O) + 1
        BY <4>3, <4>4
      <4>6. Cardinality(O) + 1 <= MaxSessions + Cardinality(Requests) - 1
        BY <2>2, <4>4
      <4>7. Cardinality(O \cup {k}) \in Nat
        BY <2>2, FS_AddElement, FS_CardinalityType
      <4>8. Cardinality(O \cup {k}) <= MaxSessions + Cardinality(Requests) - 1
        BY <4>4, <4>5, <4>6, <4>7
      <4> QED BY <4>2, <4>8, Zenon
    <3> QED BY <1>5, <3>1, <3>2
  <2> QED BY <2>3, <2>4
<1> QED BY <1>8, <1>9, <1>10 DEF SessionsInv

LEMMA SessionsStart == SessionsInit => SessionsInv
<1> SUFFICES ASSUME SessionsInit PROVE SessionsInv
  OBVIOUS
<1>1. SessionsTypes
  <2>1. <<>> \in Seq(SessionKeys) /\ IsFiniteSet({})
    BY FS_EmptySet
  <2> QED BY <2>1 DEF SessionsInit, SessionsTypes
<1>2. SessionsEvictable
  BY DEF SessionsInit, SessionsEvictable
<1>3. WithinReach
  <2>1. sessions \cup HeldBy(Requests) = {}
    BY DEF SessionsInit, HeldBy
  <2>2. Cardinality(Requests) \in Nat /\ MaxSessions \in Nat \ {0}
    BY SessionsAssumption, FS_CardinalityType
  <2> QED BY <2>1, <2>2, FS_EmptySet DEF WithinReach
<1> QED BY <1>1, <1>2, <1>3 DEF SessionsInv

LEMMA SessionsStep == SessionsInv /\ [SessionsNext]_sessionsVars => SessionsInv'
<1> SUFFICES ASSUME SessionsInv, [SessionsNext]_sessionsVars PROVE SessionsInv'
  OBVIOUS
<1>1. CASE UNCHANGED sessionsVars
  BY <1>1 DEF sessionsVars, SessionsInv, SessionsTypes, SessionsEvictable, WithinReach, HeldBy
<1> QED BY <1>1, PushKept, UnlistKept, ListCopyKept, ExistingKept, CreateKept, ListTouchKept DEF SessionsNext

(* The locks of the map and of the list are taken one after the other, and *)
(* yet no session is out of reach of the eviction while nobody removes     *)
(* one, and the map outgrows its limit by less than there are requests.    *)
THEOREM SessionsKeptHolds == SessionsSpec => []SessionsKept
<1>1. SessionsInv => SessionsKept
  <2> SUFFICES ASSUME SessionsInv, ~removing
               PROVE  Cardinality(sessions) <= MaxSessions + Cardinality(Requests) - 1
    BY DEF SessionsInv, SessionsKept, SessionsBounded
  <2>1. IsFiniteSet(sessions \cup HeldBy(Requests))
    BY HeldBound, FS_Union DEF SessionsInv, SessionsTypes
  <2>2. /\ Cardinality(sessions) <= Cardinality(sessions \cup HeldBy(Requests))
        /\ Cardinality(sessions) \in Nat /\ Cardinality(sessions \cup HeldBy(Requests)) \in Nat
        /\ Cardinality(Requests) \in Nat /\ MaxSessions \in Nat
    BY <2>1, FS_Subset, FS_CardinalityType, SessionsAssumption
  <2>3. Cardinality(sessions \cup HeldBy(Requests)) <= MaxSessions + Cardinality(Requests) - 1
    BY DEF SessionsInv, WithinReach
  <2> QED BY <2>2, <2>3
<1> QED BY <1>1, SessionsStart, SessionsStep, PTL DEF SessionsSpec

-----------------------------------------------------------------------------
(* Markdown files, for any number of files, entries and calls.             *)

LEMMA KeptBlocksAre ==
  ASSUME NEW X, NEW s \in Seq(X), NEW S,
         \A i, j \in 1 .. Len(s) : s[i] = s[j] /\ s[i] \in S => i = j
  PROVE  /\ KeptBlocks(s, S) \in Seq(X)
         /\ \A x : Contains(KeptBlocks(s, S), x) <=> x \in S /\ Contains(s, x)
         /\ \A i, j \in 1 .. Len(KeptBlocks(s, S)) :
              KeptBlocks(s, S)[i] = KeptBlocks(s, S)[j] => i = j
<1>1. Len(s) \in Nat
  OBVIOUS
<1>2. PICK f : f = CHOOSE g : Filters(g, s, S, Len(s))
  OBVIOUS
<1>3. Filters(f, s, S, Len(s))
  BY <1>1, <1>2, FilterExists
<1>4. KeptBlocks(s, S) = f[Len(s)]
  BY <1>2 DEF KeptBlocks, Filters
<1>5. \A i, j \in 1 .. Len(f[Len(s)]) : f[Len(s)][i] = f[Len(s)][j] => i = j
  BY <1>3, FilteredOnce
<1> QED BY <1>3, <1>4, <1>5, Filtered

(* What file f holds if it was stored and deleted in one call after the    *)
(* other: entries of its own, once, none that is not kept, and every one   *)
(* that lives.                                                             *)
MdBlocks == MdEntries \cup {Prose}
OwnOnly(s, f) == \A e \in MdEntries : Contains(s, e) => FileOf[e] = f
EachOnce(s) == \A i, j \in 1 .. Len(s) : s[i] = s[j] /\ s[i] # Prose => i = j
Right(s, f, live, kept) ==
  /\ EachOnce(s)
  /\ \A e \in MdEntries : Contains(s, e) => e \in kept
  /\ \A e \in live : FileOf[e] = f => Contains(s, e)

LEMMA RightElse ==
  ASSUME NEW s, NEW f, NEW live, NEW kept, NEW live2, NEW kept2, Right(s, f, live, kept), OwnOnly(s, f),
         \A e \in MdEntries : FileOf[e] = f => (e \in live2 => e \in live) /\ (e \in kept => e \in kept2),
         live2 \subseteq MdEntries
  PROVE  Right(s, f, live2, kept2)
<1>1. \A e \in MdEntries : Contains(s, e) => e \in kept2
  BY DEF Right, OwnOnly
<1>2. \A e \in live2 : FileOf[e] = f => Contains(s, e)
  BY DEF Right
<1> QED BY <1>1, <1>2 DEF Right

LEMMA RightAppended ==
  ASSUME NEW s \in Seq(MdBlocks), NEW e \in MdEntries, NEW live, NEW kept, NEW f,
         Right(s, f, live, kept), e \notin kept
  PROVE  Right(Append(s, e), f, live \cup {e}, kept \cup {e})
<1>1. PICK t : t = Append(s, e)
  OBVIOUS
<1>2. /\ t \in Seq(MdBlocks) /\ Len(s) \in Nat /\ Len(t) = Len(s) + 1
      /\ t[Len(s) + 1] = e /\ \A i \in 1 .. Len(s) : t[i] = s[i]
      /\ \A x : Contains(t, x) <=> Contains(s, x) \/ x = e
  <2>1. e \in MdBlocks
    BY DEF MdBlocks
  <2>2. /\ Append(s, e) \in Seq(MdBlocks) /\ Len(s) \in Nat /\ Len(Append(s, e)) = Len(s) + 1
        /\ Append(s, e)[Len(s) + 1] = e /\ \A i \in 1 .. Len(s) : Append(s, e)[i] = s[i]
        /\ \A x : Contains(Append(s, e), x) <=> Contains(s, x) \/ x = e
    BY <2>1, AppendedIs
  <2> QED BY <1>1, <2>2
<1>3. \A i : i \in 1 .. Len(t) <=> i \in 1 .. Len(s) \/ i = Len(s) + 1
  BY <1>2
<1>4. ASSUME NEW i \in 1 .. Len(s), s[i] = e PROVE FALSE
  BY <1>4 DEF Right, Contains
<1>5. EachOnce(t)
  <2>1. ASSUME NEW i \in 1 .. Len(t), NEW j \in 1 .. Len(t), t[i] = t[j], t[i] # Prose PROVE i = j
    <3>1. CASE i \in 1 .. Len(s) /\ j \in 1 .. Len(s)
      <4>1. s[i] = s[j] /\ s[i] # Prose
        BY <1>2, <2>1, <3>1
      <4> QED BY <3>1, <4>1 DEF Right, EachOnce
    <3>2. CASE i = Len(s) + 1 \/ j = Len(s) + 1
      BY <1>2, <1>3, <1>4, <2>1, <3>2
    <3> QED BY <1>3, <3>1, <3>2
  <2> QED BY <2>1 DEF EachOnce
<1>6. \A x \in MdEntries : Contains(t, x) => x \in kept \cup {e}
  BY <1>2 DEF Right
<1>7. \A x \in live \cup {e} : FileOf[x] = f => Contains(t, x)
  BY <1>2 DEF Right
<1> QED BY <1>1, <1>5, <1>6, <1>7 DEF Right

LEMMA RightRewritten ==
  ASSUME NEW s \in Seq(MdBlocks), NEW e \in MdEntries, NEW live, NEW kept, NEW f,
         live \subseteq MdEntries, Right(s, f, live, kept)
  PROVE  Right(KeptBlocks(s, MdEntries \ {e}), f, live \ {e}, kept \ {e})
<1>1. \A i, j \in 1 .. Len(s) : s[i] = s[j] /\ s[i] \in MdEntries \ {e} => i = j
  BY MarkdownAssumption DEF Right, EachOnce
<1>2. PICK t : t = KeptBlocks(s, MdEntries \ {e})
  OBVIOUS
<1>3. /\ \A x : Contains(t, x) <=> x \in MdEntries \ {e} /\ Contains(s, x)
      /\ \A i, j \in 1 .. Len(t) : t[i] = t[j] => i = j
  <2>1. PICK S : S = MdEntries \ {e}
    OBVIOUS
  <2>2. \A i, j \in 1 .. Len(s) : s[i] = s[j] /\ s[i] \in S => i = j
    BY <1>1, <2>1
  <2>3. /\ \A x : Contains(KeptBlocks(s, S), x) <=> x \in S /\ Contains(s, x)
        /\ \A i, j \in 1 .. Len(KeptBlocks(s, S)) :
             KeptBlocks(s, S)[i] = KeptBlocks(s, S)[j] => i = j
    BY <2>2, KeptBlocksAre
  <2> QED BY <1>2, <2>1, <2>3
<1>4. EachOnce(t)
  BY <1>3 DEF EachOnce
<1>5. \A x \in MdEntries : Contains(t, x) => x \in kept \ {e}
  BY <1>3 DEF Right
<1>6. \A x \in live \ {e} : FileOf[x] = f => Contains(t, x)
  BY <1>3 DEF Right
<1> QED BY <1>2, <1>4, <1>5, <1>6 DEF Right

Live == {e \in stored : e \in deleting => e \in InUse}
Kept == stored \ gone
MdPlaces ==
  /\ gone \subseteq deleting /\ deleting \subseteq stored
  /\ \A c \in MdCalls :
       /\ mdStep[c] \in {"idle", "look"} => reading[c] = NoFile
       /\ mdStep[c] = "idle" => target[c] = Prose
       /\ mdStep[c] \in {"append", "appending"} => target[c] \in MdEntries \ stored
       /\ mdStep[c] \in {"look", "rewrite", "rewriting"} => target[c] \in deleting
       /\ mdStep[c] \in {"append", "appending", "rewrite", "rewriting"} => reading[c] = FileOf[target[c]]
  /\ \A c, d \in MdCalls : target[c] = target[d] => c = d \/ target[c] = Prose
LookedIn == \A c \in MdCalls :
  mdStep[c] = "look" /\ FileOf[target[c]] \notin todo[c] => FileOf[target[c]] \in spoiled
AllOwn == \A f \in MdFiles : /\ OwnOnly(blocks[f], f)
                             /\ \A c \in MdCalls : reading[c] = f => OwnOnly(content[c], f)
FileRight(f) ==
  /\ \A c, d \in MdCalls : reading[c] = f /\ reading[d] = f => c = d
  /\ \A c \in MdCalls : reading[c] = f => Right(content[c], f, Live, Kept)
  /\ (\A c \in MdCalls : reading[c] # f) => Right(blocks[f], f, Live, Kept)
MarkdownInv == /\ MarkdownTypeOK /\ MdPlaces /\ LookedIn /\ AllOwn
               /\ \A f \in MdFiles \ spoiled : FileRight(f)

LEMMA MarkdownStarts == MarkdownInit => MarkdownInv
<1> SUFFICES ASSUME MarkdownInit PROVE MarkdownInv
  OBVIOUS
<1>1. MarkdownTypeOK
  <2>1. <<>> \in Seq(MdEntries \cup {Prose}) /\ <<Prose>> \in Seq(MdEntries \cup {Prose})
    OBVIOUS
  <2> QED BY <2>1 DEF MarkdownInit, MarkdownTypeOK
<1>2. MdPlaces /\ LookedIn
  BY DEF MarkdownInit, MdPlaces, LookedIn
<1>3. ASSUME NEW f \in MdFiles
      PROVE  /\ \A e \in MdEntries : ~Contains(blocks[f], e)
             /\ EachOnce(blocks[f])
             /\ \A c \in MdCalls : reading[c] # f
  <2>1. blocks[f] = <<>> \/ blocks[f] = <<Prose>>
    BY DEF MarkdownInit
  <2>2. \A c \in MdCalls : reading[c] # f
    BY MarkdownAssumption DEF MarkdownInit
  <2> QED BY <2>1, <2>2, MarkdownAssumption DEF EachOnce, Contains
<1>4. AllOwn
  BY <1>3 DEF AllOwn, OwnOnly
<1>5. \A f \in MdFiles : FileRight(f)
  <2>1. Live = {}
    BY DEF MarkdownInit, Live
  <2> QED BY <1>3, <2>1 DEF FileRight, Right
<1> QED BY <1>1, <1>2, <1>4, <1>5 DEF MarkdownInv

(* A step that does nothing to file f but for entries that leave it.       *)
LEMMA FileGoesOn ==
  ASSUME MarkdownInv, NEW f \in MdFiles \ spoiled, Live' \subseteq MdEntries,
         \A e \in MdEntries : FileOf[e] = f => (e \in Live' => e \in Live) /\ (e \in Kept => e \in Kept'),
         blocks'[f] = blocks[f],
         \A c \in MdCalls : /\ reading'[c] = f <=> reading[c] = f
                            /\ reading[c] = f => content'[c] = content[c]
  PROVE  FileRight(f)'
<1>1. FileRight(f)
  BY DEF MarkdownInv
<1>2. \A c, d \in MdCalls : reading'[c] = f /\ reading'[d] = f => c = d
  BY <1>1 DEF FileRight
<1>3. ASSUME NEW c \in MdCalls, reading'[c] = f PROVE Right(content'[c], f, Live', Kept')
  <2>1. reading[c] = f /\ content'[c] = content[c]
    BY <1>3
  <2>2. Right(content[c], f, Live, Kept) /\ OwnOnly(content[c], f)
    BY <1>1, <2>1 DEF FileRight, MarkdownInv, AllOwn
  <2> QED BY <2>1, <2>2, RightElse
<1>4. ASSUME \A c \in MdCalls : reading'[c] # f PROVE Right(blocks'[f], f, Live', Kept')
  <2>1. Right(blocks[f], f, Live, Kept) /\ OwnOnly(blocks[f], f)
    BY <1>1, <1>4 DEF FileRight, MarkdownInv, AllOwn
  <2> QED BY <2>1, RightElse
<1> QED BY <1>2, <1>3, <1>4 DEF FileRight

(* A call reads a file nobody else is going to write.                      *)
LEMMA FileIsRead ==
  ASSUME MarkdownInv, NEW f \in MdFiles \ spoiled, NEW c \in MdCalls,
         reading' = [reading EXCEPT ![c] = f], content' = [content EXCEPT ![c] = blocks[f]],
         \A d \in MdCalls : reading[d] # f, Live' = Live, Kept' = Kept
  PROVE  FileRight(f)'
<1>1. Right(blocks[f], f, Live, Kept)
  BY DEF MarkdownInv, FileRight
<1>2. \A d \in MdCalls : reading'[d] = f <=> d = c
  BY DEF MarkdownInv, MarkdownTypeOK
<1>3. content'[c] = blocks[f]
  BY DEF MarkdownInv, MarkdownTypeOK
<1> QED BY <1>1, <1>2, <1>3 DEF FileRight

(* A call writes a file, which is as it should be.                         *)
LEMMA FileIsWritten ==
  ASSUME MarkdownInv, NEW f \in MdFiles \ spoiled, NEW c \in MdCalls, reading[c] = f,
         reading' = [reading EXCEPT ![c] = NoFile], Right(blocks'[f], f, Live', Kept')
  PROVE  FileRight(f)'
<1>1. FileRight(f)
  BY DEF MarkdownInv
<1>2. \A d \in MdCalls : reading'[d] # f
  BY <1>1, MarkdownAssumption DEF MarkdownInv, MarkdownTypeOK, FileRight
<1> QED BY <1>2 DEF FileRight

(* Who is at work on which entry is all that decides what lives.           *)
LEMMA LiveInFiles == ASSUME MarkdownTypeOK PROVE Live \subseteq MdEntries /\ Kept \subseteq MdEntries
  BY DEF Live, Kept, MarkdownTypeOK

(* One call moves on and keeps its entry.                                  *)
LEMMA SameLive ==
  ASSUME UNCHANGED <<stored, deleting, gone, target>>
  PROVE  Live' = Live /\ Kept' = Kept
BY DEF Live, Kept, InUse

(* A call's next step, and what may be said of the others.                 *)
LEMMA StoreKept ==
  ASSUME MarkdownInv, NEW c \in MdCalls, NEW e \in MdEntries, Store(c, e) PROVE MarkdownInv'
<1> DEFINE f == FileOf[e]
<1>1. /\ f \in MdFiles /\ f # NoFile /\ reading[c] = NoFile /\ mdStep[c] = "idle" /\ target[c] = Prose
      /\ e \notin stored /\ e \notin deleting /\ e # Prose /\ \A d \in MdCalls : target[d] # e
      /\ blocks[f] \in Seq(MdEntries \cup {Prose})
  BY MarkdownAssumption DEF MarkdownInv, MarkdownTypeOK, MdPlaces, Store, MdAt, InUse
<1>2. /\ target' = [target EXCEPT ![c] = e] /\ mdStep' = [mdStep EXCEPT ![c] = "append"]
      /\ reading' = [reading EXCEPT ![c] = f] /\ content' = [content EXCEPT ![c] = blocks[f]]
      /\ UNCHANGED <<blocks, todo, stored, deleting, gone>>
      /\ spoiled' = spoiled \cup {g \in {f} : Rewriting(c, g)}
  BY DEF Store, MdTo
<1>3. MarkdownTypeOK'
  BY <1>1, <1>2 DEF MarkdownInv, MarkdownTypeOK
<1>4. /\ target'[c] = e /\ mdStep'[c] = "append" /\ reading'[c] = f /\ content'[c] = blocks[f]
      /\ \A d \in MdCalls : d # c => /\ target'[d] = target[d] /\ mdStep'[d] = mdStep[d]
                                     /\ reading'[d] = reading[d] /\ content'[d] = content[d]
  BY <1>2 DEF MarkdownInv, MarkdownTypeOK
<1>5. MdPlaces'
  BY <1>1, <1>2, <1>4 DEF MarkdownInv, MdPlaces
<1>6. LookedIn'
  BY <1>2, <1>4 DEF MarkdownInv, LookedIn
<1>7. AllOwn'
  BY <1>1, <1>2, <1>4 DEF MarkdownInv, AllOwn
<1>8. Live' = Live /\ Kept' = Kept
  <2>1. \A x \in deleting : x \in InUse' <=> x \in InUse
    <3>1. ASSUME NEW x \in InUse', x \in deleting PROVE x \in InUse
      BY <1>1, <1>4, <3>1 DEF InUse
    <3>2. ASSUME NEW x \in InUse, x \in deleting PROVE x \in InUse'
      <4>1. x # Prose
        BY <3>2, MarkdownAssumption DEF MarkdownInv, MarkdownTypeOK
      <4>2. PICK d \in MdCalls : x = target[d]
        BY <3>2 DEF InUse
      <4>3. target'[d] = x
        BY <1>1, <1>4, <4>1, <4>2
      <4> QED BY <4>3 DEF InUse
    <3> QED BY <3>1, <3>2
  <2> QED BY <1>2, <2>1 DEF Live, Kept
<1>9. ASSUME NEW g \in MdFiles \ spoiled' PROVE FileRight(g)'
  <2>1. g \notin spoiled /\ (g = f => ~Rewriting(c, f))
    BY <1>2, <1>9
  <2>2. CASE g = f
    <3>1. \A d \in MdCalls : reading[d] # f
      BY <1>1, <2>1, <2>2 DEF Rewriting
    <3> QED BY <1>2, <1>8, <2>1, <2>2, <3>1, FileIsRead
  <2>3. CASE g # f
    <3>1. \A d \in MdCalls : /\ reading'[d] = g <=> reading[d] = g
                             /\ reading[d] = g => content'[d] = content[d]
      BY <1>1, <1>4, <2>3, MarkdownAssumption
    <3> QED BY <1>2, <1>8, <2>1, <3>1, FileGoesOn, LiveInFiles DEF MarkdownInv
  <2> QED BY <2>2, <2>3
<1> QED BY <1>3, <1>5, <1>6, <1>7, <1>9 DEF MarkdownInv

LEMMA DeleteKept ==
  ASSUME MarkdownInv, NEW c \in MdCalls, NEW e \in MdEntries, Delete(c, e) PROVE MarkdownInv'
<1>1. /\ reading[c] = NoFile /\ mdStep[c] = "idle" /\ target[c] = Prose
      /\ e \in stored /\ e \notin deleting /\ e # Prose /\ \A d \in MdCalls : target[d] # e
  BY MarkdownAssumption DEF MarkdownInv, MarkdownTypeOK, MdPlaces, Delete, MdAt, InUse
<1>2. /\ target' = [target EXCEPT ![c] = e] /\ mdStep' = [mdStep EXCEPT ![c] = "look"]
      /\ deleting' = deleting \cup {e} /\ todo' = [todo EXCEPT ![c] = MdFiles]
      /\ UNCHANGED <<blocks, reading, content, stored, gone, spoiled>>
  BY DEF Delete, MdTo
<1>3. MarkdownTypeOK'
  BY <1>1, <1>2 DEF MarkdownInv, MarkdownTypeOK
<1>4. /\ target'[c] = e /\ mdStep'[c] = "look" /\ todo'[c] = MdFiles
      /\ \A d \in MdCalls : d # c => /\ target'[d] = target[d] /\ mdStep'[d] = mdStep[d]
                                     /\ todo'[d] = todo[d]
  BY <1>2 DEF MarkdownInv, MarkdownTypeOK
<1>5. MdPlaces'
  BY <1>1, <1>2, <1>4 DEF MarkdownInv, MdPlaces
<1>6. LookedIn'
  BY <1>2, <1>4, MarkdownAssumption DEF MarkdownInv, LookedIn
<1>7. AllOwn'
  BY <1>2 DEF MarkdownInv, AllOwn
<1>8. Live' \subseteq Live /\ Kept' = Kept
  <2>1. ASSUME NEW x \in Live' PROVE x \in Live
    <3>1. x \in stored /\ (x \in deleting \cup {e} => \E d \in MdCalls : x = target'[d])
      BY <1>2, <2>1 DEF Live, InUse
    <3> QED BY <1>1, <1>4, <3>1 DEF Live, InUse
  <2> QED BY <1>2, <2>1 DEF Kept
<1>9. ASSUME NEW g \in MdFiles \ spoiled' PROVE FileRight(g)'
  BY <1>2, <1>8, FileGoesOn, LiveInFiles DEF MarkdownInv
<1> QED BY <1>3, <1>5, <1>6, <1>7, <1>9 DEF MarkdownInv

(* Who holds a sequence that contains an entry has it in its range.        *)
LEMMA InRange == ASSUME NEW X, NEW s \in Seq(X), NEW x PROVE x \in Range(s) <=> Contains(s, x)
BY DEF Range, Contains

LEMMA LookInKept ==
  ASSUME MarkdownInv, NEW c \in MdCalls, NEW f \in MdFiles, LookIn(c, f) PROVE MarkdownInv'
<1>1. /\ reading[c] = NoFile /\ mdStep[c] = "look" /\ target[c] \in deleting /\ f # NoFile
      /\ target[c] \in MdEntries /\ target[c] \in stored
      /\ blocks[f] \in Seq(MdEntries \cup {Prose})
  BY MarkdownAssumption DEF MarkdownInv, MarkdownTypeOK, MdPlaces, LookIn, MdAt
<1>2. /\ todo' = [todo EXCEPT ![c] = @ \ {f}]
      /\ UNCHANGED <<blocks, target, stored, deleting, gone>>
      /\ spoiled' = spoiled \cup {g \in {f} : Rewriting(c, g)}
  BY DEF LookIn
<1>3. Live' = Live /\ Kept' = Kept /\ Live \subseteq MdEntries
  BY <1>2, SameLive, LiveInFiles DEF MarkdownInv
<1>4. target[c] \in Live
  BY <1>1 DEF Live, InUse
<1>5. CASE Contains(blocks[f], target[c])
  <2>1. /\ mdStep' = [mdStep EXCEPT ![c] = "rewrite"] /\ reading' = [reading EXCEPT ![c] = f]
        /\ content' = [content EXCEPT ![c] = blocks[f]]
    BY <1>1, <1>5, InRange DEF LookIn, MdTo
  <2>2. FileOf[target[c]] = f
    BY <1>1, <1>5 DEF MarkdownInv, AllOwn, OwnOnly
  <2>3. MarkdownTypeOK'
    BY <1>1, <1>2, <2>1 DEF MarkdownInv, MarkdownTypeOK
  <2>4. /\ mdStep'[c] = "rewrite" /\ reading'[c] = f /\ content'[c] = blocks[f]
        /\ \A d \in MdCalls : d # c => /\ mdStep'[d] = mdStep[d] /\ todo'[d] = todo[d]
                                       /\ reading'[d] = reading[d] /\ content'[d] = content[d]
    BY <1>2, <2>1 DEF MarkdownInv, MarkdownTypeOK
  <2>5. MdPlaces'
    BY <1>1, <1>2, <2>2, <2>4 DEF MarkdownInv, MdPlaces
  <2>6. LookedIn'
    BY <1>2, <2>4 DEF MarkdownInv, LookedIn
  <2>7. AllOwn'
    BY <1>2, <2>4 DEF MarkdownInv, AllOwn
  <2>8. ASSUME NEW g \in MdFiles \ spoiled' PROVE FileRight(g)'
    <3>1. g \notin spoiled /\ (g = f => ~Rewriting(c, f))
      BY <1>2, <2>8
    <3>2. CASE g = f
      <4>1. \A d \in MdCalls : reading[d] # f
        BY <1>1, <3>1, <3>2 DEF Rewriting
      <4> QED BY <1>3, <2>1, <3>1, <3>2, <4>1, FileIsRead
    <3>3. CASE g # f
      <4>1. \A d \in MdCalls : /\ reading'[d] = g <=> reading[d] = g
                               /\ reading[d] = g => content'[d] = content[d]
        BY <1>1, <2>4, <3>3, MarkdownAssumption
      <4> QED BY <1>2, <1>3, <3>1, <4>1, FileGoesOn
    <3> QED BY <3>2, <3>3
  <2> QED BY <2>3, <2>5, <2>6, <2>7, <2>8 DEF MarkdownInv
<1>6. CASE ~Contains(blocks[f], target[c])
  <2>1. UNCHANGED <<mdStep, reading, content>>
    BY <1>1, <1>6, InRange DEF LookIn
  <2>2. MarkdownTypeOK'
    BY <1>1, <1>2, <2>1 DEF MarkdownInv, MarkdownTypeOK
  <2>3. MdPlaces'
    BY <1>2, <2>1 DEF MarkdownInv, MdPlaces
  <2>4. AllOwn'
    BY <1>2, <2>1 DEF MarkdownInv, AllOwn
  <2>5. ASSUME NEW g \in MdFiles \ spoiled' PROVE FileRight(g)'
    BY <1>2, <1>3, <2>1, FileGoesOn
  <2>6. LookedIn'
    <3>1. ASSUME FileOf[target[c]] = f, f \notin spoiled' PROVE FALSE
      <4>1. f \notin spoiled /\ ~Rewriting(c, f)
        BY <1>2, <3>1
      <4>2. \A d \in MdCalls : reading[d] # f
        BY <1>1, <4>1 DEF Rewriting
      <4>3. Right(blocks[f], f, Live, Kept)
        BY <4>1, <4>2 DEF MarkdownInv, FileRight
      <4> QED BY <1>4, <1>6, <3>1, <4>3 DEF Right
    <3>2. ASSUME NEW d \in MdCalls, mdStep[d] = "look", FileOf[target[d]] \notin todo'[d]
          PROVE  FileOf[target[d]] \in spoiled'
      <4>1. FileOf[target[d]] \notin todo[d] \/ (d = c /\ FileOf[target[d]] = f)
        BY <1>2, <3>2 DEF MarkdownInv, MarkdownTypeOK
      <4> QED BY <1>2, <3>1, <3>2, <4>1 DEF MarkdownInv, LookedIn
    <3> QED BY <1>2, <2>1, <3>2 DEF LookedIn
  <2> QED BY <2>2, <2>3, <2>4, <2>5, <2>6 DEF MarkdownInv
<1> QED BY <1>5, <1>6

LEMMA TruncateFileKept ==
  ASSUME MarkdownInv, NEW c \in MdCalls, TruncateFile(c) PROVE MarkdownInv'
<1> DEFINE f == reading[c]  st == IF mdStep[c] = "append" THEN "appending" ELSE "rewriting"
<1>1. /\ mdStep[c] \in {"append", "rewrite"} /\ f \in MdFiles
      /\ blocks' = [blocks EXCEPT ![f] = <<>>] /\ mdStep' = [mdStep EXCEPT ![c] = st]
      /\ UNCHANGED <<target, todo, reading, content, stored, deleting, gone, spoiled>>
  <2>1. mdStep[c] \in {"append", "rewrite"} /\ target[c] \in MdEntries /\ f = FileOf[target[c]]
    BY DEF TruncateFile, MarkdownInv, MdPlaces, MarkdownTypeOK
  <2> QED BY <2>1, MarkdownAssumption DEF TruncateFile, MdTo, MdAt
<1>2. MarkdownTypeOK'
  <2>1. <<>> \in Seq(MdEntries \cup {Prose}) /\ st \in {"appending", "rewriting"}
    OBVIOUS
  <2> QED BY <1>1, <2>1 DEF MarkdownInv, MarkdownTypeOK
<1>3. /\ mdStep'[c] = st /\ \A d \in MdCalls : d # c => mdStep'[d] = mdStep[d]
  BY <1>1 DEF MarkdownInv, MarkdownTypeOK
<1>4. MdPlaces'
  BY <1>1, <1>3 DEF MarkdownInv, MdPlaces
<1>5. LookedIn'
  BY <1>1, <1>3 DEF MarkdownInv, LookedIn
<1>6. blocks'[f] = <<>> /\ \A g \in MdFiles : g # f => blocks'[g] = blocks[g]
  BY <1>1 DEF MarkdownInv, MarkdownTypeOK
<1>7. AllOwn'
  <2>1. OwnOnly(blocks'[f], f)
    BY <1>6 DEF OwnOnly, Contains
  <2> QED BY <1>1, <1>6, <2>1 DEF MarkdownInv, AllOwn
<1>8. Live' = Live /\ Kept' = Kept /\ Live \subseteq MdEntries
  BY <1>1, SameLive, LiveInFiles DEF MarkdownInv
<1>9. ASSUME NEW g \in MdFiles \ spoiled' PROVE FileRight(g)'
  <2>1. CASE g = f
    <3>1. FileRight(f)
      BY <1>1, <2>1, <1>9 DEF MarkdownInv
    <3> QED BY <1>1, <1>8, <2>1, <3>1 DEF FileRight
  <2>2. CASE g # f
    BY <1>1, <1>6, <1>8, <1>9, <2>2, FileGoesOn
  <2> QED BY <2>1, <2>2
<1> QED BY <1>2, <1>4, <1>5, <1>7, <1>9 DEF MarkdownInv

(* A call ends: what it is said of in the invariant is over.               *)
LEMMA MdCallEnds ==
  ASSUME MarkdownInv, NEW c \in MdCalls, mdStep[c] # "idle", EndMdCall(c)
  PROVE  /\ mdStep'[c] = "idle" /\ target'[c] = Prose /\ reading'[c] = NoFile
         /\ reading' = [reading EXCEPT ![c] = NoFile]
         /\ \A d \in MdCalls : d # c => /\ mdStep'[d] = mdStep[d] /\ target'[d] = target[d]
                                        /\ reading'[d] = reading[d] /\ content'[d] = content[d]
                                        /\ todo'[d] = todo[d]
         /\ mdStep' \in [MdCalls -> {"idle", "append", "appending", "look", "rewrite", "rewriting"}]
         /\ target' \in [MdCalls -> MdEntries \cup {Prose}] /\ todo' \in [MdCalls -> SUBSET MdFiles]
         /\ reading' \in [MdCalls -> MdFiles \cup {NoFile}]
         /\ content' \in [MdCalls -> Seq(MdEntries \cup {Prose})]
         /\ \A x \in MdEntries : x \in InUse' <=> x \in InUse /\ x # target[c]
<1>1. /\ mdStep' = [mdStep EXCEPT ![c] = "idle"] /\ target' = [target EXCEPT ![c] = Prose]
      /\ reading' = [reading EXCEPT ![c] = NoFile] /\ content' = [content EXCEPT ![c] = <<>>]
      /\ todo' = [todo EXCEPT ![c] = {}]
  BY DEF EndMdCall, MdTo
<1>2. <<>> \in Seq(MdEntries \cup {Prose})
  OBVIOUS
<1>3. /\ mdStep' \in [MdCalls -> {"idle", "append", "appending", "look", "rewrite", "rewriting"}]
      /\ target' \in [MdCalls -> MdEntries \cup {Prose}] /\ todo' \in [MdCalls -> SUBSET MdFiles]
      /\ reading' \in [MdCalls -> MdFiles \cup {NoFile}]
      /\ content' \in [MdCalls -> Seq(MdEntries \cup {Prose})]
  BY <1>1, <1>2 DEF MarkdownInv, MarkdownTypeOK
<1>4. /\ mdStep'[c] = "idle" /\ target'[c] = Prose /\ reading'[c] = NoFile
      /\ \A d \in MdCalls : d # c => /\ mdStep'[d] = mdStep[d] /\ target'[d] = target[d]
                                     /\ reading'[d] = reading[d] /\ content'[d] = content[d]
                                     /\ todo'[d] = todo[d]
  BY <1>1 DEF MarkdownInv, MarkdownTypeOK
<1>5. ASSUME NEW x \in MdEntries PROVE x \in InUse' <=> x \in InUse /\ x # target[c]
  <2>1. x # Prose
    BY MarkdownAssumption
  <2>2. ASSUME NEW d \in MdCalls, x = target'[d] PROVE x \in InUse /\ x # target[c]
    BY <1>4, <2>1, <2>2 DEF InUse, MarkdownInv, MdPlaces
  <2>3. ASSUME NEW d \in MdCalls, x = target[d], x # target[c] PROVE x = target'[d]
    BY <1>4, <2>3
  <2> QED BY <2>2, <2>3 DEF InUse
<1> QED BY <1>1, <1>3, <1>4, <1>5, Zenon

(* What stays as it was said of the calls when one of them ended.          *)
LEMMA EndPlaces ==
  ASSUME MarkdownInv, NEW c \in MdCalls, mdStep[c] # "idle", EndMdCall(c),
         gone' \subseteq deleting, UNCHANGED <<deleting, spoiled>>,
         stored' = stored \/ stored' = stored \cup {target[c]}
  PROVE  MdPlaces' /\ LookedIn'
<1>1. /\ mdStep'[c] = "idle" /\ target'[c] = Prose /\ reading'[c] = NoFile
      /\ \A d \in MdCalls : d # c => /\ mdStep'[d] = mdStep[d] /\ target'[d] = target[d]
                                     /\ reading'[d] = reading[d] /\ todo'[d] = todo[d]
  BY MdCallEnds
<1>2. \A d \in MdCalls : d # c /\ target[d] \in MdEntries /\ target[d] \notin stored => target[d] \notin stored'
  BY MarkdownAssumption DEF MarkdownInv, MdPlaces
<1>3. MdPlaces'
  BY <1>1, <1>2 DEF MarkdownInv, MdPlaces
<1>4. LookedIn'
  BY <1>1 DEF MarkdownInv, LookedIn
<1> QED BY <1>3, <1>4

LEMMA AppendEntryKept ==
  ASSUME MarkdownInv, NEW c \in MdCalls, AppendEntry(c) PROVE MarkdownInv'
<1> DEFINE f == reading[c]  e == target[c]  t == Append(content[c], e)
<1>1. /\ mdStep[c] = "appending" /\ e \in MdEntries /\ e \notin stored /\ f = FileOf[e] /\ f \in MdFiles
      /\ e \notin deleting /\ e \notin gone
      /\ EndMdCall(c) /\ blocks' = [blocks EXCEPT ![f] = t] /\ stored' = stored \cup {e}
      /\ UNCHANGED <<deleting, gone, spoiled>>
      /\ content[c] \in Seq(MdBlocks)
  BY MarkdownAssumption DEF AppendEntry, MdAt, MarkdownInv, MdPlaces, MarkdownTypeOK, MdBlocks
<1>2. t \in Seq(MdBlocks) /\ \A x : Contains(t, x) <=> Contains(content[c], x) \/ x = e
  <2>1. e \in MdBlocks
    BY <1>1 DEF MdBlocks
  <2> QED BY <1>1, <2>1, AppendedIs
<1>3. blocks'[f] = t /\ \A g \in MdFiles : g # f => blocks'[g] = blocks[g]
  BY <1>1 DEF MarkdownInv, MarkdownTypeOK
<1>4. /\ reading'[c] = NoFile /\ reading' = [reading EXCEPT ![c] = NoFile]
      /\ \A d \in MdCalls : d # c => reading'[d] = reading[d] /\ content'[d] = content[d]
  BY <1>1, MdCallEnds
<1> HIDE DEF t
<1>5. MarkdownTypeOK'
  <2>1. /\ mdStep' \in [MdCalls -> {"idle", "append", "appending", "look", "rewrite", "rewriting"}]
        /\ target' \in [MdCalls -> MdEntries \cup {Prose}] /\ todo' \in [MdCalls -> SUBSET MdFiles]
        /\ reading' \in [MdCalls -> MdFiles \cup {NoFile}]
        /\ content' \in [MdCalls -> Seq(MdEntries \cup {Prose})]
    BY <1>1, MdCallEnds
  <2>2. blocks' \in [MdFiles -> Seq(MdEntries \cup {Prose})]
    BY <1>1, <1>2 DEF MarkdownInv, MarkdownTypeOK, MdBlocks
  <2> QED BY <1>1, <2>1, <2>2 DEF MarkdownInv, MarkdownTypeOK
<1>6. MdPlaces' /\ LookedIn'
  BY <1>1, EndPlaces DEF MarkdownInv, MdPlaces
<1>7. AllOwn'
  <2>1. OwnOnly(content[c], f)
    BY <1>1 DEF MarkdownInv, AllOwn
  <2>2. OwnOnly(t, f)
    BY <1>1, <1>2, <2>1 DEF OwnOnly
  <2> QED BY <1>1, <1>3, <1>4, <2>2, MarkdownAssumption DEF MarkdownInv, AllOwn
<1>8. Live' = Live \cup {e} /\ Kept' = Kept \cup {e}
  <2>1. \A x \in MdEntries : x \in InUse' <=> x \in InUse /\ x # e
    BY <1>1, MdCallEnds
  <2>2. \A x \in deleting : x \in InUse' <=> x \in InUse
    BY <1>1, <2>1 DEF MarkdownInv, MarkdownTypeOK
  <2> QED BY <1>1, <2>2 DEF Live, Kept
<1>9. ASSUME NEW g \in MdFiles \ spoiled' PROVE FileRight(g)'
  <2>1. CASE g = f
    <3>1. Right(content[c], f, Live, Kept)
      BY <1>1, <1>9, <2>1 DEF MarkdownInv, FileRight
    <3>2. Right(t, f, Live \cup {e}, Kept \cup {e})
      <4>1. e \notin Kept
        BY <1>1 DEF Kept
      <4> QED BY <1>1, <3>1, <4>1, RightAppended DEF t
    <3>3. Right(blocks'[f], f, Live', Kept')
      BY <1>3, <1>8, <3>2
    <3> QED BY <1>1, <1>4, <1>9, <2>1, <3>3, FileIsWritten
  <2>2. CASE g # f
    <3>1. \A d \in MdCalls : /\ reading'[d] = g <=> reading[d] = g
                             /\ reading[d] = g => content'[d] = content[d]
      BY <1>4, <2>2, MarkdownAssumption
    <3>2. /\ Live' \subseteq MdEntries
          /\ \A x \in MdEntries : FileOf[x] = g => (x \in Live' => x \in Live) /\ (x \in Kept => x \in Kept')
      BY <1>1, <1>8, <2>2, LiveInFiles DEF MarkdownInv
    <3> QED BY <1>1, <1>3, <1>9, <2>2, <3>1, <3>2, FileGoesOn
  <2> QED BY <2>1, <2>2
<1> QED BY <1>5, <1>6, <1>7, <1>9 DEF MarkdownInv

LEMMA RewriteEntriesKept ==
  ASSUME MarkdownInv, NEW c \in MdCalls, RewriteEntries(c) PROVE MarkdownInv'
<1> DEFINE f == reading[c]  e == target[c]  t == KeptBlocks(content[c], MdEntries \ {e})
<1>1. /\ mdStep[c] = "rewriting" /\ e \in MdEntries /\ f = FileOf[e] /\ f \in MdFiles /\ e \in deleting
      /\ EndMdCall(c) /\ blocks' = [blocks EXCEPT ![f] = t] /\ gone' = gone \cup {e}
      /\ UNCHANGED <<stored, deleting, spoiled>>
      /\ content[c] \in Seq(MdBlocks)
  BY MarkdownAssumption DEF RewriteEntries, MdAt, MarkdownInv, MdPlaces, MarkdownTypeOK, MdBlocks
<1>2. blocks'[f] = t /\ \A g \in MdFiles : g # f => blocks'[g] = blocks[g]
  BY <1>1 DEF MarkdownInv, MarkdownTypeOK
<1>3. t \in Seq(MdBlocks) /\ \A x : Contains(t, x) => Contains(content[c], x)
  <2>1. PICK S : S = MdEntries \ {e}
    OBVIOUS
  <2>2. Len(content[c]) \in Nat
    BY <1>1
  <2>3. PICK h : h = CHOOSE g : Filters(g, content[c], S, Len(content[c]))
    OBVIOUS
  <2>4. Filters(h, content[c], S, Len(content[c]))
    BY <2>2, <2>3, FilterExists
  <2>5. KeptBlocks(content[c], S) = h[Len(content[c])]
    BY <2>3 DEF KeptBlocks, Filters
  <2>6. /\ h[Len(content[c])] \in Seq(MdBlocks)
        /\ \A x : Contains(h[Len(content[c])], x) => Contains(content[c], x)
    BY <1>1, <2>4, Filtered
  <2> QED BY <2>1, <2>5, <2>6
<1>4. /\ reading'[c] = NoFile /\ reading' = [reading EXCEPT ![c] = NoFile]
      /\ \A d \in MdCalls : d # c => reading'[d] = reading[d] /\ content'[d] = content[d]
  BY <1>1, MdCallEnds
<1>10. Right(content[c], f, Live, Kept) => Right(t, f, Live \ {e}, Kept \ {e})
  BY <1>1, LiveInFiles, RightRewritten DEF MarkdownInv
<1> HIDE DEF t
<1>5. MarkdownTypeOK'
  <2>1. /\ mdStep' \in [MdCalls -> {"idle", "append", "appending", "look", "rewrite", "rewriting"}]
        /\ target' \in [MdCalls -> MdEntries \cup {Prose}] /\ todo' \in [MdCalls -> SUBSET MdFiles]
        /\ reading' \in [MdCalls -> MdFiles \cup {NoFile}]
        /\ content' \in [MdCalls -> Seq(MdEntries \cup {Prose})]
    BY <1>1, MdCallEnds
  <2>2. blocks' \in [MdFiles -> Seq(MdEntries \cup {Prose})]
    BY <1>1, <1>3 DEF MarkdownInv, MarkdownTypeOK, MdBlocks
  <2> QED BY <1>1, <2>1, <2>2 DEF MarkdownInv, MarkdownTypeOK
<1>6. MdPlaces' /\ LookedIn'
  BY <1>1, EndPlaces DEF MarkdownInv, MdPlaces
<1>7. AllOwn'
  <2>1. OwnOnly(content[c], f)
    BY <1>1 DEF MarkdownInv, AllOwn
  <2>2. OwnOnly(t, f)
    BY <1>1, <1>3, <2>1 DEF OwnOnly
  <2> QED BY <1>1, <1>2, <1>4, <2>2, MarkdownAssumption DEF MarkdownInv, AllOwn
<1>8. Live' = Live \ {e} /\ Kept' = Kept \ {e}
  <2>1. \A x \in MdEntries : x \in InUse' <=> x \in InUse /\ x # e
    BY <1>1, MdCallEnds
  <2>2. \A x \in deleting : x \in InUse' <=> x \in InUse /\ x # e
    BY <1>1, <2>1 DEF MarkdownInv, MarkdownTypeOK
  <2> QED BY <1>1, <2>2 DEF Live, Kept
<1>9. ASSUME NEW g \in MdFiles \ spoiled' PROVE FileRight(g)'
  <2>1. CASE g = f
    <3>1. Right(content[c], f, Live, Kept)
      BY <1>1, <1>9, <2>1 DEF MarkdownInv, FileRight
    <3>2. Right(blocks'[f], f, Live', Kept')
      BY <1>2, <1>8, <1>10, <3>1
    <3> QED BY <1>1, <1>4, <1>9, <2>1, <3>2, FileIsWritten
  <2>2. CASE g # f
    <3>1. \A d \in MdCalls : /\ reading'[d] = g <=> reading[d] = g
                             /\ reading[d] = g => content'[d] = content[d]
      BY <1>4, <2>2, MarkdownAssumption
    <3>2. /\ Live' \subseteq MdEntries
          /\ \A x \in MdEntries : FileOf[x] = g => (x \in Live' => x \in Live) /\ (x \in Kept => x \in Kept')
      BY <1>1, <1>8, <2>2, LiveInFiles DEF MarkdownInv
    <3> QED BY <1>1, <1>2, <1>9, <2>2, <3>1, <3>2, FileGoesOn
  <2> QED BY <2>1, <2>2
<1> QED BY <1>5, <1>6, <1>7, <1>9 DEF MarkdownInv

LEMMA NotFoundKept ==
  ASSUME MarkdownInv, NEW c \in MdCalls, NotFound(c) PROVE MarkdownInv'
<1> DEFINE e == target[c]
<1>1. /\ mdStep[c] = "look" /\ e \in MdEntries /\ e \in deleting /\ todo[c] = {} /\ reading[c] = NoFile
      /\ EndMdCall(c) /\ gone' = gone \cup {e} /\ UNCHANGED <<blocks, stored, deleting, spoiled>>
  BY DEF NotFound, MdAt, MarkdownInv, MdPlaces, MarkdownTypeOK
<1>2. FileOf[e] \in spoiled
  BY <1>1 DEF MarkdownInv, LookedIn
<1>4. /\ reading'[c] = NoFile
      /\ \A d \in MdCalls : d # c => reading'[d] = reading[d] /\ content'[d] = content[d]
  BY <1>1, MdCallEnds
<1>5. MarkdownTypeOK'
  <2>1. /\ mdStep' \in [MdCalls -> {"idle", "append", "appending", "look", "rewrite", "rewriting"}]
        /\ target' \in [MdCalls -> MdEntries \cup {Prose}] /\ todo' \in [MdCalls -> SUBSET MdFiles]
        /\ reading' \in [MdCalls -> MdFiles \cup {NoFile}]
        /\ content' \in [MdCalls -> Seq(MdEntries \cup {Prose})]
    BY <1>1, MdCallEnds
  <2> QED BY <1>1, <2>1 DEF MarkdownInv, MarkdownTypeOK
<1>6. MdPlaces' /\ LookedIn'
  BY <1>1, EndPlaces DEF MarkdownInv, MdPlaces
<1>7. AllOwn'
  BY <1>1, <1>4, MarkdownAssumption DEF MarkdownInv, AllOwn
<1>8. Live' \subseteq Live /\ Kept' = Kept \ {e}
  <2>1. \A x \in deleting : x \in InUse' => x \in InUse
    BY <1>1, MdCallEnds DEF MarkdownInv, MarkdownTypeOK
  <2> QED BY <1>1, <2>1 DEF Live, Kept
<1>9. ASSUME NEW g \in MdFiles \ spoiled' PROVE FileRight(g)'
  <2>1. \A d \in MdCalls : /\ reading'[d] = g <=> reading[d] = g
                           /\ reading[d] = g => content'[d] = content[d]
    BY <1>1, <1>4, MarkdownAssumption
  <2>2. /\ Live' \subseteq MdEntries
        /\ \A x \in MdEntries : FileOf[x] = g => (x \in Live' => x \in Live) /\ (x \in Kept => x \in Kept')
    BY <1>1, <1>2, <1>8, <1>9, LiveInFiles DEF MarkdownInv
  <2> QED BY <1>1, <1>9, <2>1, <2>2, FileGoesOn
<1> QED BY <1>5, <1>6, <1>7, <1>9 DEF MarkdownInv

LEMMA MdCrashKept == ASSUME MarkdownInv, MdCrash PROVE MarkdownInv'
<1>1. /\ mdStep' = [c \in MdCalls |-> "idle"] /\ target' = [c \in MdCalls |-> Prose]
      /\ todo' = [c \in MdCalls |-> {}] /\ reading' = [c \in MdCalls |-> NoFile]
      /\ content' = [c \in MdCalls |-> <<>>]
      /\ UNCHANGED <<blocks, stored, deleting, gone>>
      /\ spoiled' = spoiled \cup {f \in MdFiles : \E c \in MdCalls : reading[c] = f}
  BY DEF MdCrash
<1>2. MarkdownTypeOK'
  <2>1. <<>> \in Seq(MdEntries \cup {Prose})
    OBVIOUS
  <2> QED BY <1>1, <2>1 DEF MarkdownInv, MarkdownTypeOK
<1>3. MdPlaces' /\ LookedIn'
  BY <1>1 DEF MarkdownInv, MdPlaces, LookedIn
<1>4. AllOwn'
  BY <1>1, MarkdownAssumption DEF MarkdownInv, AllOwn
<1>5. Live' \subseteq Live /\ Kept' = Kept
  <2>1. \A x \in MdEntries : x \notin InUse'
    BY <1>1, MarkdownAssumption DEF InUse
  <2> QED BY <1>1, <2>1 DEF Live, Kept, MarkdownInv, MarkdownTypeOK
<1>6. ASSUME NEW g \in MdFiles \ spoiled' PROVE FileRight(g)'
  <2>1. g \notin spoiled /\ \A c \in MdCalls : reading[c] # g /\ reading'[c] # g
    BY <1>1, <1>6, MarkdownAssumption
  <2>2. Live' \subseteq MdEntries
    BY <1>5, LiveInFiles DEF MarkdownInv
  <2> QED BY <1>1, <1>5, <2>1, <2>2, FileGoesOn
<1> QED BY <1>2, <1>3, <1>4, <1>6 DEF MarkdownInv

LEMMA MarkdownKept == MarkdownInv /\ [MarkdownNext]_markdownVars => MarkdownInv'
<1> SUFFICES ASSUME MarkdownInv, [MarkdownNext]_markdownVars PROVE MarkdownInv'
  OBVIOUS
<1>1. CASE UNCHANGED markdownVars
  <2>1. Live' = Live /\ Kept' = Kept /\ Live \subseteq MdEntries
    BY <1>1, SameLive, LiveInFiles DEF markdownVars, MarkdownInv
  <2>2. \A g \in MdFiles \ spoiled' : FileRight(g)'
    BY <1>1, <2>1, FileGoesOn DEF markdownVars
  <2>3. MarkdownTypeOK' /\ MdPlaces' /\ LookedIn' /\ AllOwn'
    BY <1>1 DEF markdownVars, MarkdownInv, MarkdownTypeOK, MdPlaces, LookedIn, AllOwn
  <2> QED BY <2>2, <2>3 DEF MarkdownInv
<1>2. CASE MarkdownNext
  BY <1>2, StoreKept, DeleteKept, LookInKept, TruncateFileKept, AppendEntryKept, RewriteEntriesKept,
     NotFoundKept, MdCrashKept DEF MarkdownNext
<1> QED BY <1>1, <1>2

(* A file that no two calls rewrote at once has each entry that was stored *)
(* and is not being deleted, once, and none whose delete has ended.        *)
THEOREM EntriesKeptHolds == MarkdownSpec => []EntriesKept
<1>1. MarkdownInv => EntriesKept
  <2> SUFFICES ASSUME MarkdownInv, NEW f \in MdFiles \ spoiled, \A c \in MdCalls : reading[c] # f,
                      NEW e \in MdEntries, FileOf[e] = f
               PROVE  /\ e \in stored \ deleting => Cardinality({i \in DOMAIN blocks[f] : blocks[f][i] = e}) = 1
                      /\ e \in gone => Cardinality({i \in DOMAIN blocks[f] : blocks[f][i] = e}) = 0
    BY DEF EntriesKept
  <2>1. Right(blocks[f], f, Live, Kept) /\ DOMAIN blocks[f] = 1 .. Len(blocks[f]) /\ e # Prose
    BY MarkdownAssumption DEF MarkdownInv, FileRight, MarkdownTypeOK
  <2>2. PICK I : I = {i \in DOMAIN blocks[f] : blocks[f][i] = e}
    OBVIOUS
  <2>3. ASSUME e \in stored \ deleting PROVE Cardinality(I) = 1
    <3>1. Contains(blocks[f], e)
      BY <2>1, <2>3 DEF Live, Right
    <3>2. PICK i \in 1 .. Len(blocks[f]) : blocks[f][i] = e
      BY <3>1 DEF Contains
    <3>3. I = {i}
      BY <2>1, <2>2, <3>2 DEF Right, EachOnce
    <3> QED BY <3>3, FS_Singleton
  <2>4. ASSUME e \in gone PROVE Cardinality(I) = 0
    <3>1. ~Contains(blocks[f], e)
      BY <2>1, <2>4 DEF Kept, Right
    <3>2. I = {}
      BY <2>1, <2>2, <3>1 DEF Contains
    <3> QED BY <3>2, FS_EmptySet
  <2> QED BY <2>2, <2>3, <2>4
<1> QED BY <1>1, MarkdownStarts, MarkdownKept, PTL DEF MarkdownSpec

-----------------------------------------------------------------------------
(* The file of credentials, for any chats, providers and number of keys.   *)

CredEntries == [name : Vendors, keys : Seq(AllKeys), model : ModelIds]
OfEntry(s, k) == \E i \in 1 .. Len(s) : Contains(s[i].keys, k)
NamedOnce(s) == \A i, j \in 1 .. Len(s) : s[i].name = s[j].name => i = j
OwnEntries(s) == \A i \in 1 .. Len(s) : /\ s[i].keys # <<>>
                                        /\ \A k : Contains(s[i].keys, k) => k \in KeysOf(s[i].name)
GoodFile(c) ==
  /\ c \in Creds /\ NamedOnce(c.entries) /\ OwnEntries(c.entries)
  /\ c.entries # <<>> => \E i \in 1 .. Len(c.entries) : c.entries[i].name = c.active
Chosen(c, p, m) ==
  p # NoVendor => /\ c.active = p
                  /\ \E i \in 1 .. Len(c.entries) : c.entries[i].name = p /\ c.entries[i].model = m

LEMMA KeysApart == ASSUME NEW p, NEW q, NEW k \in KeysOf(p), k \in KeysOf(q) PROVE p = q
BY DEF KeysOf

LEMMA KeysAreKeys == ASSUME NEW p \in Vendors PROVE KeysOf(p) \subseteq AllKeys
BY DEF AllKeys

LEMMA FindIs ==
  ASSUME NEW c, GoodFile(c), NEW i \in 1 .. Len(c.entries)
  PROVE  Has(c, c.entries[i].name) /\ Find(c, c.entries[i].name) = c.entries[i]
<1>1. DOMAIN c.entries = 1 .. Len(c.entries) /\ Len(c.entries) \in Nat
  BY DEF GoodFile, Creds
<1>2. PICK p : p = c.entries[i].name
  OBVIOUS
<1>3. \A n \in DOMAIN c.entries : c.entries[n].name = p <=> n = i
  BY <1>1, <1>2 DEF GoodFile, NamedOnce
<1>4. \A n \in DOMAIN c.entries :
        n = i <=> /\ c.entries[n].name = p
                  /\ \A j \in DOMAIN c.entries : c.entries[j].name = p => n <= j
  BY <1>1, <1>3
<1>5. (CHOOSE n \in DOMAIN c.entries :
         /\ c.entries[n].name = p
         /\ \A j \in DOMAIN c.entries : c.entries[j].name = p => n <= j) = i
  BY <1>1, <1>4
<1>6. Find(c, p) = c.entries[i]
  BY <1>5, Zenon DEF Find
<1> QED BY <1>1, <1>2, <1>6 DEF Has

LEMMA HasMeans ==
  ASSUME NEW c, GoodFile(c), NEW p
  PROVE  Has(c, p) <=> \E i \in 1 .. Len(c.entries) : c.entries[i].name = p
<1>1. DOMAIN c.entries = 1 .. Len(c.entries)
  BY DEF GoodFile, Creds
<1> QED BY <1>1 DEF Has

LEMMA ActiveIs ==
  ASSUME NEW c, GoodFile(c), c.entries # <<>>
  PROVE  \E i \in 1 .. Len(c.entries) : ActiveOf(c) = c.entries[i] /\ c.entries[i].name = c.active
<1>1. PICK i \in 1 .. Len(c.entries) : c.entries[i].name = c.active
  BY DEF GoodFile
<1> QED BY <1>1, FindIs DEF ActiveOf

LEMMA RangeIs == ASSUME NEW s, NEW X, s \in Seq(X), NEW k PROVE k \in Range(s) <=> Contains(s, k)
BY DEF Range, Contains

LEMMA ListedMeans ==
  ASSUME NEW c \in Creds, NEW k
  PROVE  k \in UNION {Range(e.keys) : e \in Range(c.entries)} <=> OfEntry(c.entries, k)
<1>1. c.entries \in Seq(CredEntries)
  BY DEF Creds, CredEntries
<1>2. ASSUME NEW i \in 1 .. Len(c.entries) PROVE c.entries[i].keys \in Seq(AllKeys)
  <2>1. c.entries[i] \in CredEntries
    BY <1>1
  <2> QED BY <2>1 DEF CredEntries
<1>3. \A e : e \in Range(c.entries) <=> \E i \in 1 .. Len(c.entries) : e = c.entries[i]
  BY <1>1 DEF Range
<1>4. \A i \in 1 .. Len(c.entries) : k \in Range(c.entries[i].keys) <=> Contains(c.entries[i].keys, k)
  BY <1>2, RangeIs
<1>5. k \in UNION {Range(e.keys) : e \in Range(c.entries)}
        <=> \E e \in Range(c.entries) : k \in Range(e.keys)
  OBVIOUS
<1>6. (\E e \in Range(c.entries) : k \in Range(e.keys))
        <=> \E i \in 1 .. Len(c.entries) : k \in Range(c.entries[i].keys)
  BY <1>3, Zenon
<1> QED BY <1>4, <1>5, <1>6 DEF OfEntry

LEMMA OthersAre ==
  ASSUME NEW c, GoodFile(c), NEW p
  PROVE  /\ Others(c, p) \in Seq(CredEntries)
         /\ \A e : Contains(Others(c, p), e) <=> Contains(c.entries, e) /\ e.name # p
         /\ NamedOnce(Others(c, p))
<1>1. PICK s : s = c.entries
  OBVIOUS
<1>2. s \in Seq(CredEntries) /\ Len(s) \in Nat /\ NamedOnce(s)
  BY <1>1 DEF GoodFile, Creds, CredEntries
<1>3. PICK S : S = {e \in Range(s) : e.name # p}
  OBVIOUS
<1>4. PICK f : f = CHOOSE g : Filters(g, s, S, Len(s))
  OBVIOUS
<1>5. Filters(f, s, S, Len(s))
  BY <1>2, <1>4, FilterExists
<1>6. Others(c, p) = f[Len(s)]
  BY <1>1, <1>3, <1>4 DEF Others, Filters
<1>7. PICK t : t = f[Len(s)]
  OBVIOUS
<1>8. \A i, j \in 1 .. Len(s) : s[i] = s[j] /\ s[i] \in S => i = j
  BY <1>2 DEF NamedOnce
<1>9. /\ t \in Seq(CredEntries) /\ \A e : Contains(t, e) <=> e \in S /\ Contains(s, e)
      /\ \A i, j \in 1 .. Len(t) : t[i] = t[j] => i = j
  BY <1>2, <1>5, <1>7, <1>8, Filtered, FilteredOnce
<1>10. \A e : Contains(t, e) <=> Contains(s, e) /\ e.name # p
  BY <1>2, <1>3, <1>9, RangeIs
<1>11. ASSUME NEW i \in 1 .. Len(t), NEW j \in 1 .. Len(t), t[i].name = t[j].name PROVE i = j
  <2>1. Contains(t, t[i]) /\ Contains(t, t[j])
    BY DEF Contains
  <2>2. Contains(s, t[i]) /\ Contains(s, t[j])
    BY <1>9, <2>1
  <2>3. PICK a \in 1 .. Len(s), b \in 1 .. Len(s) : s[a] = t[i] /\ s[b] = t[j]
    BY <2>2 DEF Contains
  <2>4. a = b
    BY <1>2, <1>11, <2>3 DEF NamedOnce
  <2> QED BY <1>9, <2>3, <2>4
<1> QED BY <1>1, <1>6, <1>7, <1>9, <1>10, <1>11 DEF NamedOnce

(* The entries stay where they are, and keep their names.                  *)
LEMMA MappedFile ==
  ASSUME NEW c, GoodFile(c), NEW p, NEW t, t \in [1 .. Len(c.entries) -> CredEntries],
         \A i \in 1 .. Len(c.entries) : t[i].name = c.entries[i].name,
         OwnEntries(t), NEW a \in 1 .. Len(c.entries), c.entries[a].name = p
  PROVE  GoodFile([active |-> p, entries |-> t]) /\ Len(t) = Len(c.entries)
<1>1. c.entries \in Seq(CredEntries) /\ Len(c.entries) \in Nat
  BY DEF GoodFile, Creds, CredEntries
<1>2. t \in Seq(CredEntries) /\ Len(t) = Len(c.entries)
  BY <1>1
<1>3. p \in Vendors
  <2>1. c.entries[a] \in CredEntries
    BY <1>1
  <2> QED BY <2>1 DEF CredEntries
<1>4. PICK d : d = [active |-> p, entries |-> t]
  OBVIOUS
<1>5. d.active = p /\ d.entries = t /\ d \in Creds
  BY <1>2, <1>3, <1>4 DEF Creds, CredEntries
<1>6. NamedOnce(t)
  BY <1>2 DEF GoodFile, NamedOnce
<1>7. \E i \in 1 .. Len(t) : t[i].name = p
  BY <1>2
<1> QED BY <1>2, <1>4, <1>5, <1>6, <1>7 DEF GoodFile

LEMMA WithModelIs ==
  ASSUME NEW c, GoodFile(c), NEW p, Has(c, p), NEW m \in ModelIds
  PROVE  /\ GoodFile(WithModel(c, p, m)) /\ Chosen(WithModel(c, p, m), p, m)
         /\ \A k : OfEntry(WithModel(c, p, m).entries, k) <=> OfEntry(c.entries, k)
<1>1. PICK s : s = c.entries
  OBVIOUS
<1>2. s \in Seq(CredEntries) /\ Len(s) \in Nat /\ DOMAIN s = 1 .. Len(s) /\ OwnEntries(s)
  BY <1>1 DEF GoodFile, Creds, CredEntries
<1>3. PICK a \in 1 .. Len(s) : s[a].name = p
  BY <1>1, HasMeans
<1>4. PICK t : t = [i \in 1 .. Len(s) |-> IF s[i].name = p THEN [s[i] EXCEPT !.model = m] ELSE s[i]]
  OBVIOUS
<1>5. WithModel(c, p, m) = [active |-> p, entries |-> t]
  BY <1>1, <1>2, <1>4 DEF WithModel
<1>6. ASSUME NEW i \in 1 .. Len(s)
      PROVE  /\ t[i] \in CredEntries /\ t[i].name = s[i].name /\ t[i].keys = s[i].keys
             /\ s[i].name = p => t[i].model = m
  <2>1. s[i] \in CredEntries
    BY <1>2
  <2>2. t[i] = IF s[i].name = p THEN [s[i] EXCEPT !.model = m] ELSE s[i]
    BY <1>4
  <2> QED BY <2>1, <2>2 DEF CredEntries
<1>7. t \in [1 .. Len(s) -> CredEntries]
  BY <1>4, <1>6
<1>8. Len(t) = Len(s)
  BY <1>2, <1>7
<1>9. OwnEntries(t)
  BY <1>2, <1>6, <1>8 DEF OwnEntries
<1>10. GoodFile([active |-> p, entries |-> t])
  BY <1>1, <1>3, <1>6, <1>7, <1>9, MappedFile
<1>11. Chosen([active |-> p, entries |-> t], p, m)
  BY <1>3, <1>6, <1>8 DEF Chosen
<1>12. \A k : OfEntry(t, k) <=> OfEntry(s, k)
  BY <1>6, <1>8 DEF OfEntry
<1> QED BY <1>1, <1>5, <1>10, <1>11, <1>12

LEMMA WithKeyIs ==
  ASSUME NEW c, GoodFile(c), NEW p \in Vendors, NEW k \in KeysOf(p), NEW m \in ModelIds
  PROVE  /\ GoodFile(WithKey(c, p, k, m)) /\ Chosen(WithKey(c, p, k, m), p, m)
         /\ \A x : OfEntry(WithKey(c, p, k, m).entries, x) <=> OfEntry(c.entries, x) \/ x = k
<1>1. PICK s : s = c.entries
  OBVIOUS
<1>2. s \in Seq(CredEntries) /\ Len(s) \in Nat /\ DOMAIN s = 1 .. Len(s) /\ OwnEntries(s) /\ NamedOnce(s)
  BY <1>1 DEF GoodFile, Creds, CredEntries
<1>3. k \in AllKeys
  BY KeysAreKeys
<1>4. CASE Has(c, p)
  <2>1. PICK a \in 1 .. Len(s) : s[a].name = p
    BY <1>1, <1>4, HasMeans
  <2>2. PICK t : t = [i \in 1 .. Len(s) |->
                        IF s[i].name # p THEN s[i]
                        ELSE [name |-> p, model |-> m,
                              keys |-> IF Contains(s[i].keys, k) THEN s[i].keys ELSE Append(s[i].keys, k)]]
    OBVIOUS
  <2>3. WithKey(c, p, k, m) = [active |-> p, entries |-> t]
    BY <1>1, <1>2, <1>4, <2>2 DEF WithKey
  <2>4. ASSUME NEW i \in 1 .. Len(s)
        PROVE  /\ t[i] \in CredEntries /\ t[i].name = s[i].name /\ t[i].keys # <<>>
               /\ s[i].name = p => t[i].model = m
               /\ \A x : Contains(t[i].keys, x) <=> Contains(s[i].keys, x) \/ (x = k /\ s[i].name = p)
    <3>1. s[i] \in CredEntries /\ s[i].keys \in Seq(AllKeys) /\ s[i].keys # <<>>
      <4>1. s[i] \in CredEntries
        BY <1>2
      <4> QED BY <1>2, <4>1 DEF CredEntries, OwnEntries
    <3>2. CASE s[i].name # p
      <4>1. t[i] = s[i]
        BY <2>2, <3>2
      <4> QED BY <3>1, <3>2, <4>1
    <3>3. CASE s[i].name = p
      <4>1. PICK u : u = IF Contains(s[i].keys, k) THEN s[i].keys ELSE Append(s[i].keys, k)
        OBVIOUS
      <4>2. t[i] = [name |-> p, model |-> m, keys |-> u]
        BY <2>2, <3>3, <4>1
      <4>3. u \in Seq(AllKeys) /\ u # <<>> /\ \A x : Contains(u, x) <=> Contains(s[i].keys, x) \/ x = k
        <5>1. CASE Contains(s[i].keys, k)
          BY <3>1, <4>1, <5>1
        <5>2. CASE ~Contains(s[i].keys, k)
          <6>1. u = Append(s[i].keys, k)
            BY <4>1, <5>2
          <6>2. /\ u \in Seq(AllKeys) /\ Len(u) = Len(s[i].keys) + 1 /\ Len(s[i].keys) \in Nat
                /\ \A x : Contains(u, x) <=> Contains(s[i].keys, x) \/ x = k
            BY <1>3, <3>1, <6>1, AppendedIs
          <6>3. u # <<>>
            BY <6>2
          <6> QED BY <6>2, <6>3
        <5> QED BY <5>1, <5>2
      <4>4. t[i].name = p /\ t[i].model = m /\ t[i].keys = u /\ t[i] \in CredEntries
        BY <4>2, <4>3 DEF CredEntries
      <4> QED BY <3>3, <4>3, <4>4
    <3> QED BY <3>2, <3>3
  <2>5. t \in [1 .. Len(s) -> CredEntries]
    BY <2>2, <2>4
  <2>6. Len(t) = Len(s)
    BY <1>2, <2>5
  <2>7. OwnEntries(t)
    BY <1>2, <2>4, <2>6 DEF OwnEntries
  <2>8. GoodFile([active |-> p, entries |-> t])
    BY <1>1, <2>1, <2>4, <2>5, <2>7, MappedFile
  <2>9. Chosen([active |-> p, entries |-> t], p, m)
    BY <2>1, <2>4, <2>6 DEF Chosen
  <2>10. \A x : OfEntry(t, x) <=> OfEntry(s, x) \/ x = k
    BY <2>1, <2>4, <2>6 DEF OfEntry
  <2> QED BY <1>1, <2>3, <2>8, <2>9, <2>10
<1>5. CASE ~Has(c, p)
  <2>1. PICK e : e = [name |-> p, keys |-> <<k>>, model |-> m]
    OBVIOUS
  <2>2. e \in CredEntries /\ e.name = p /\ e.model = m /\ e.keys # <<>> /\ \A x : Contains(e.keys, x) <=> x = k
    <3>1. <<k>> \in Seq(AllKeys) /\ <<k>> # <<>> /\ \A x : Contains(<<k>>, x) <=> x = k
      BY <1>3 DEF Contains
    <3> QED BY <2>1, <3>1 DEF CredEntries
  <2>3. PICK t : t = Append(s, e)
    OBVIOUS
  <2>4. WithKey(c, p, k, m) = [active |-> p, entries |-> t]
    BY <1>1, <1>5, <2>1, <2>3 DEF WithKey
  <2>5. /\ t \in Seq(CredEntries) /\ Len(t) = Len(s) + 1 /\ t[Len(s) + 1] = e
        /\ \A i \in 1 .. Len(s) : t[i] = s[i]
    BY <1>2, <2>2, <2>3, AppendedIs
  <2>6. \A i : i \in 1 .. Len(t) <=> i \in 1 .. Len(s) \/ i = Len(s) + 1
    BY <1>2, <2>5
  <2>7. \A i \in 1 .. Len(s) : s[i].name # p
    BY <1>1, <1>5, HasMeans
  <2>8. NamedOnce(t)
    <3>1. ASSUME NEW i \in 1 .. Len(t), NEW j \in 1 .. Len(t), t[i].name = t[j].name PROVE i = j
      BY <1>2, <2>2, <2>5, <2>6, <2>7, <3>1 DEF NamedOnce
    <3> QED BY <3>1 DEF NamedOnce
  <2>9. OwnEntries(t)
    BY <1>2, <2>2, <2>5, <2>6 DEF OwnEntries
  <2>10. Len(s) + 1 \in 1 .. Len(t) /\ t[Len(s) + 1].name = p /\ t[Len(s) + 1].model = m
    BY <1>2, <2>2, <2>5, <2>6
  <2>11. PICK d : d = [active |-> p, entries |-> t]
    OBVIOUS
  <2>12. d.active = p /\ d.entries = t /\ d \in Creds
    BY <2>5, <2>11 DEF Creds, CredEntries
  <2>13. GoodFile(d) /\ Chosen(d, p, m)
    BY <2>8, <2>9, <2>10, <2>12 DEF GoodFile, Chosen
  <2>14. \A x : OfEntry(t, x) <=> OfEntry(s, x) \/ x = k
    BY <2>2, <2>5, <2>6 DEF OfEntry
  <2> QED BY <1>1, <2>4, <2>11, <2>12, <2>13, <2>14
<1> QED BY <1>4, <1>5

LEMMA WithoutVendorIs ==
  ASSUME NEW c, GoodFile(c), NEW p \in Vendors
  PROVE  /\ GoodFile(WithoutVendor(c, p))
         /\ \A q, m : Chosen(c, q, m) /\ q # p => Chosen(WithoutVendor(c, p), q, m)
         /\ \A x : OfEntry(WithoutVendor(c, p).entries, x) <=> OfEntry(c.entries, x) /\ x \notin KeysOf(p)
<1>1. PICK s, t : s = c.entries /\ t = Others(c, p)
  OBVIOUS
<1>2. s \in Seq(CredEntries) /\ Len(s) \in Nat /\ OwnEntries(s) /\ NamedOnce(s)
  BY <1>1 DEF GoodFile, Creds, CredEntries
<1>3. /\ t \in Seq(CredEntries) /\ NamedOnce(t)
      /\ \A e : Contains(t, e) <=> Contains(s, e) /\ e.name # p
  BY <1>1, OthersAre
<1>4. PICK d : d = WithoutVendor(c, p)
  OBVIOUS
<1>5. d.entries = t /\ d.active = IF c.active # p THEN c.active
                                  ELSE IF t = <<>> THEN NoVendor ELSE Head(t).name
  BY <1>1, <1>4 DEF WithoutVendor
<1>6. \A i \in 1 .. Len(t) : \E j \in 1 .. Len(s) : t[i] = s[j] /\ s[j].name # p
  <2>1. ASSUME NEW i \in 1 .. Len(t) PROVE \E j \in 1 .. Len(s) : t[i] = s[j] /\ s[j].name # p
    <3>1. Contains(t, t[i])
      BY DEF Contains
    <3>2. Contains(s, t[i]) /\ t[i].name # p
      BY <1>3, <3>1
    <3> QED BY <3>2 DEF Contains
  <2> QED BY <2>1
<1>7. \A j \in 1 .. Len(s) : s[j].name # p => \E i \in 1 .. Len(t) : t[i] = s[j]
  <2>1. ASSUME NEW j \in 1 .. Len(s), s[j].name # p PROVE \E i \in 1 .. Len(t) : t[i] = s[j]
    <3>1. Contains(s, s[j])
      BY DEF Contains
    <3>2. Contains(t, s[j])
      BY <1>3, <2>1, <3>1
    <3> QED BY <3>2 DEF Contains
  <2> QED BY <2>1
<1>8. t # <<>> => 1 \in 1 .. Len(t) /\ Head(t) = t[1]
  BY <1>3, HeadTailProperties
<1>9. \A i \in 1 .. Len(t) : t[i].name \in Vendors
  <2>1. \A i \in 1 .. Len(t) : t[i] \in CredEntries
    BY <1>3
  <2> QED BY <2>1 DEF CredEntries
<1>10. d.active \in Vendors \cup {NoVendor}
  <2>1. c.active \in Vendors \cup {NoVendor}
    BY DEF GoodFile, Creds
  <2> QED BY <1>5, <1>8, <1>9, <2>1
<1>11. d \in Creds
  <2>1. d = [entries |-> d.entries, active |-> d.active]
    BY <1>4 DEF WithoutVendor
  <2> QED BY <1>3, <1>5, <1>10, <2>1 DEF Creds, CredEntries
<1>12. OwnEntries(t)
  BY <1>2, <1>6 DEF OwnEntries
<1>13. t # <<>> => \E i \in 1 .. Len(t) : t[i].name = d.active
  <2>1. CASE c.active # p /\ t # <<>>
    <3>1. s # <<>>
      BY <1>6, <1>8, <2>1
    <3>2. PICK j \in 1 .. Len(s) : s[j].name = c.active
      BY <1>1, <3>1 DEF GoodFile
    <3>3. PICK i \in 1 .. Len(t) : t[i] = s[j]
      BY <1>7, <2>1, <3>2
    <3> QED BY <1>5, <2>1, <3>2, <3>3
  <2>2. CASE c.active = p /\ t # <<>>
    BY <1>5, <1>8, <2>2
  <2> QED BY <2>1, <2>2
<1>14. GoodFile(d)
  BY <1>3, <1>5, <1>11, <1>12, <1>13 DEF GoodFile
<1>15. ASSUME NEW q, NEW m, Chosen(c, q, m), q # p, q # NoVendor PROVE Chosen(d, q, m)
  <2>1. PICK j \in 1 .. Len(s) : s[j].name = q /\ s[j].model = m
    BY <1>1, <1>15 DEF Chosen
  <2>2. PICK i \in 1 .. Len(t) : t[i] = s[j]
    BY <1>7, <1>15, <2>1
  <2>3. d.active = q
    BY <1>5, <1>15 DEF Chosen
  <2> QED BY <1>5, <2>1, <2>2, <2>3 DEF Chosen
<1>16. ASSUME NEW x PROVE OfEntry(t, x) <=> OfEntry(s, x) /\ x \notin KeysOf(p)
  <2>1. ASSUME NEW i \in 1 .. Len(t), Contains(t[i].keys, x) PROVE OfEntry(s, x) /\ x \notin KeysOf(p)
    <3>1. PICK j \in 1 .. Len(s) : t[i] = s[j] /\ s[j].name # p
      BY <1>6
    <3>2. x \in KeysOf(s[j].name)
      BY <1>2, <2>1, <3>1 DEF OwnEntries
    <3> QED BY <2>1, <3>1, <3>2, KeysApart DEF OfEntry
  <2>2. ASSUME NEW j \in 1 .. Len(s), Contains(s[j].keys, x), x \notin KeysOf(p) PROVE OfEntry(t, x)
    <3>1. s[j].name # p
      BY <1>2, <2>2 DEF OwnEntries
    <3> QED BY <1>7, <2>2, <3>1 DEF OfEntry
  <2> QED BY <2>1, <2>2 DEF OfEntry
<1>17. \A q, m : q = NoVendor => Chosen(d, q, m)
  BY DEF Chosen
<1> QED BY <1>1, <1>4, <1>5, <1>14, <1>15, <1>16, <1>17

(* A command is what its step says it is.                                  *)
OwnKeys(a) == \A k : Contains(a.keys, k) => k \in KeysOf(a.provider)
CommandRecords == [at : {"idle", "build", "name", "persist", "truncate", "write"},
                   op : {"none", "save", "remove", "switch"}, want : Agents,
                   persist : BOOLEAN, copy : Creds]
CommandRight(w, cmd) ==
  /\ cmd \in CommandRecords
  /\ cmd.at = "idle" <=> cmd.op = "none"
  /\ cmd.at \in {"build", "name", "persist"} => cmd.op = "switch"
  /\ cmd.at \in {"truncate", "write"} => GoodFile(cmd.copy)
  /\ cmd.op = "switch" => /\ w \in CredChats /\ cmd.want.provider \in Vendors
                          /\ cmd.want.model \in ModelIds /\ OwnKeys(cmd.want)
CredTypes ==
  /\ GoodFile(credFile)
  /\ credCmd \in [CredWriters -> CommandRecords]
  /\ \A w \in CredWriters : CommandRight(w, credCmd[w])
  /\ agentHas \in Agents /\ OwnKeys(agentHas)
  /\ boot.at \in {"read", "keys", "up"} /\ boot.got \in Agents /\ OwnKeys(boot.got)
  /\ clean \in BOOLEAN /\ switchesMet \in BOOLEAN

(* No chat is served before the server is up; one switch at a time is      *)
(* between the agent it set and the name.                                  *)
BootAlone == boot.at # "up" => \A w \in CredChats : credCmd[w].at = "idle"
SwitchAlone ==
  ~switchesMet =>
    /\ \A v, w \in CredWriters : credCmd[v].op = "switch" /\ credCmd[w].op = "switch" => v = w
    /\ \A w \in CredWriters : credCmd[w].at = "name" => agentHas = credCmd[w].want
    /\ (\A w \in CredWriters : credCmd[w].at # "name") => activeName = agentHas.provider

(* Of the one writer that is at work the copy has the keys and the choice  *)
(* that its answer will tell of.                                           *)
KeyKeptAfter(cmd, k) ==
  IF cmd.op = "remove" THEN k \in keptKeys /\ k \notin KeysOf(cmd.want.provider)
  ELSE IF cmd.op = "save" THEN k \in keptKeys \/ k \in Range(cmd.want.keys) ELSE k \in keptKeys
CopyRight(cmd) ==
  /\ \A k : OfEntry(cmd.copy.entries, k) <=> KeyKeptAfter(cmd, k)
  /\ cmd.op = "remove" /\ chosen.provider # cmd.want.provider => Chosen(cmd.copy, chosen.provider, chosen.model)
  /\ cmd.op \in {"save", "switch"} => Chosen(cmd.copy, cmd.want.provider, cmd.want.model)
FileAgrees ==
  clean =>
    /\ \A v, w \in CredWriters : Editing(v) /\ Editing(w) => v = w
    /\ (\A w \in CredWriters : credCmd[w].at # "write") =>
         /\ \A k : OfEntry(credFile.entries, k) <=> k \in keptKeys
         /\ Chosen(credFile, chosen.provider, chosen.model)
    /\ \A w \in CredWriters : Editing(w) => CopyRight(credCmd[w])
    /\ \A w \in CredWriters : credCmd[w].at = "write" => credFile = NoCreds
CredInv == CredTypes /\ BootAlone /\ SwitchAlone /\ FileAgrees

LEMMA NoCommandIsOne ==
  /\ NoCommand \in CommandRecords /\ NoCommand.at = "idle" /\ NoCommand.op = "none"
  /\ GoodFile(NoCreds) /\ NoCreds.entries = <<>> /\ NoCreds \in Creds
  /\ NoAgent \in Agents /\ NoAgent.provider = NoVendor /\ NoAgent.keys = <<>> /\ OwnKeys(NoAgent)
  /\ \A w : CommandRight(w, NoCommand)
<1>1. NoCreds \in Creds /\ NoCreds.entries = <<>>
  BY DEF NoCreds, Creds
<1>2. GoodFile(NoCreds)
  BY <1>1 DEF GoodFile, NamedOnce, OwnEntries
<1>3. NoAgent \in Agents /\ NoAgent.keys = <<>> /\ NoAgent.provider = NoVendor
  BY DEF NoAgent, Agents
<1>4. OwnKeys(NoAgent)
  BY <1>3 DEF OwnKeys, Contains
<1>5. NoCommand \in CommandRecords /\ NoCommand.at = "idle" /\ NoCommand.op = "none"
  BY <1>1, <1>3 DEF NoCommand, CommandRecords
<1>6. \A w : CommandRight(w, NoCommand)
  BY <1>5 DEF CommandRight
<1> QED BY <1>1, <1>2, <1>3, <1>4, <1>5, <1>6

LEMMA CredStarts == CredInit => CredInv
<1> SUFFICES ASSUME CredInit PROVE CredInv
  OBVIOUS
<1>1. PICK e : e = [name |-> FirstVendor, keys |-> <<FirstKey>>, model |-> 1]
  OBVIOUS
<1>2. credFile = [active |-> FirstVendor, entries |-> <<e>>]
  BY <1>1 DEF CredInit
<1>3. FirstKey \in KeysOf(FirstVendor) /\ FirstKey \in AllKeys /\ FirstVendor \in Vendors
  <2>1. FirstKey \in KeysOf(FirstVendor) /\ FirstVendor \in Vendors
    BY CredentialsAssumption DEF FirstKey, KeysOf
  <2> QED BY <2>1, KeysAreKeys
<1>4. <<FirstKey>> \in Seq(AllKeys) /\ <<FirstKey>> # <<>> /\ \A k : Contains(<<FirstKey>>, k) <=> k = FirstKey
  BY <1>3 DEF Contains
<1>5. /\ e \in CredEntries /\ e.name = FirstVendor /\ e.model = 1 /\ e.keys # <<>>
      /\ \A k : Contains(e.keys, k) <=> k = FirstKey
  BY <1>1, <1>3, <1>4 DEF CredEntries, ModelIds
<1>6. PICK s : s = <<e>>
  OBVIOUS
<1>7. s \in Seq(CredEntries) /\ Len(s) = 1 /\ s[1] = e
  BY <1>5, <1>6
<1>8. credFile.entries = s /\ credFile.active = FirstVendor /\ credFile \in Creds
  BY <1>2, <1>3, <1>6, <1>7 DEF Creds, CredEntries
<1>9. \A i : i \in 1 .. Len(s) <=> i = 1
  BY <1>7
<1>10. GoodFile(credFile)
  <2>1. NamedOnce(s)
    BY <1>9 DEF NamedOnce
  <2>2. OwnEntries(s)
    BY <1>3, <1>5, <1>7, <1>9 DEF OwnEntries
  <2>3. \E i \in 1 .. Len(s) : s[i].name = FirstVendor
    BY <1>5, <1>7, <1>9
  <2> QED BY <1>8, <2>1, <2>2, <2>3 DEF GoodFile
<1>11. \A k : OfEntry(credFile.entries, k) <=> k = FirstKey
  BY <1>5, <1>7, <1>8, <1>9 DEF OfEntry
<1>12. Chosen(credFile, FirstVendor, 1)
  BY <1>5, <1>7, <1>8, <1>9 DEF Chosen
<1>13. /\ credCmd = [w \in CredWriters |-> NoCommand] /\ agentHas = NoAgent /\ activeName = NoVendor
       /\ boot = [at |-> "read", got |-> NoAgent] /\ clean = TRUE /\ switchesMet = FALSE
       /\ keptKeys = {FirstKey} /\ chosen = [provider |-> FirstVendor, model |-> 1]
  BY DEF CredInit
<1>14. boot.at = "read" /\ boot.got = NoAgent /\ chosen.provider = FirstVendor /\ chosen.model = 1
  BY <1>13
<1>15. \A w \in CredWriters : credCmd[w] = NoCommand
  BY <1>13
<1>16. CredTypes
  BY <1>10, <1>13, <1>14, <1>15, NoCommandIsOne DEF CredTypes
<1>17. BootAlone
  BY <1>15, NoCommandIsOne DEF BootAlone, CredWriters
<1>18. SwitchAlone
  BY <1>13, <1>15, NoCommandIsOne DEF SwitchAlone
<1>19. FileAgrees
  <2>1. \A w \in CredWriters : ~Editing(w) /\ credCmd[w].at # "write"
    BY <1>15, NoCommandIsOne DEF Editing
  <2> QED BY <1>11, <1>12, <1>13, <1>14, <2>1 DEF FileAgrees
<1> QED BY <1>16, <1>17, <1>18, <1>19 DEF CredInv

(* One writer goes on.                                                     *)
LEMMA CredGoesOn ==
  ASSUME CredInv, NEW w \in CredWriters, NEW cmd, CommandRight(w, cmd),
         credCmd' = [credCmd EXCEPT ![w] = cmd]
  PROVE  /\ credCmd'[w] = cmd /\ \A v \in CredWriters : v # w => credCmd'[v] = credCmd[v]
         /\ credCmd' \in [CredWriters -> CommandRecords]
         /\ \A v \in CredWriters : CommandRight(v, credCmd'[v])
<1>1. cmd \in CommandRecords
  BY DEF CommandRight
<1>2. /\ credCmd'[w] = cmd /\ \A v \in CredWriters : v # w => credCmd'[v] = credCmd[v]
      /\ credCmd' \in [CredWriters -> CommandRecords]
  BY <1>1 DEF CredInv, CredTypes
<1>3. \A v \in CredWriters : CommandRight(v, credCmd'[v])
  BY <1>2 DEF CredInv, CredTypes
<1> QED BY <1>2, <1>3

(* The command does not bear on the agent.                                 *)
LEMMA SwitchStays ==
  ASSUME CredInv, NEW w \in CredWriters, NEW cmd, CommandRight(w, cmd),
         credCmd' = [credCmd EXCEPT ![w] = cmd], credCmd[w].at # "name", cmd.at # "name",
         cmd.op = "switch" => credCmd[w].op = "switch",
         UNCHANGED <<agentHas, activeName, switchesMet>>
  PROVE  SwitchAlone'
<1>1. credCmd'[w] = cmd /\ \A v \in CredWriters : v # w => credCmd'[v] = credCmd[v]
  BY CredGoesOn
<1>2. \A v \in CredWriters : credCmd'[v].op = "switch" => credCmd[v].op = "switch"
  BY <1>1
<1>3. \A v \in CredWriters : credCmd'[v].at = "name" <=> credCmd[v].at = "name"
  BY <1>1
<1>4. \A v \in CredWriters : credCmd'[v].at = "name" => credCmd'[v] = credCmd[v]
  BY <1>1
<1> QED BY <1>2, <1>3, <1>4 DEF CredInv, SwitchAlone

(* A command that a served chat, or the wizard, is at.                     *)
LEMMA BootStays ==
  ASSUME CredInv, NEW w \in CredWriters, NEW cmd, CommandRight(w, cmd),
         credCmd' = [credCmd EXCEPT ![w] = cmd], UNCHANGED boot,
         boot.at = "up" \/ credCmd[w].at # "idle" \/ w \notin CredChats
  PROVE  BootAlone'
<1>1. credCmd'[w] = cmd /\ \A v \in CredWriters : v # w => credCmd'[v] = credCmd[v]
  BY CredGoesOn
<1>2. CredChats \subseteq CredWriters
  BY DEF CredWriters
<1>3. boot.at = "up" \/ w \notin CredChats
  BY DEF CredInv, BootAlone
<1> QED BY <1>1, <1>2, <1>3 DEF CredInv, BootAlone

(* The command does not bear on the file.                                  *)
LEMMA FileStays ==
  ASSUME CredInv, NEW w \in CredWriters, NEW cmd, CommandRight(w, cmd),
         credCmd' = [credCmd EXCEPT ![w] = cmd],
         cmd.at \notin {"truncate", "write"}, credCmd[w].at \notin {"truncate", "write"},
         UNCHANGED <<credFile, keptKeys, chosen, clean>>
  PROVE  FileAgrees'
<1>1. credCmd'[w] = cmd /\ \A v \in CredWriters : v # w => credCmd'[v] = credCmd[v]
  BY CredGoesOn
<1>2. \A v \in CredWriters : Editing(v)' <=> Editing(v)
  BY <1>1 DEF Editing
<1>3. \A v \in CredWriters : Editing(v)' => credCmd'[v] = credCmd[v]
  BY <1>1 DEF Editing
<1>4. \A v \in CredWriters : credCmd'[v].at = "write" <=> credCmd[v].at = "write"
  BY <1>1
<1>6. \A v \in CredWriters : Editing(v)' /\ CopyRight(credCmd[v]) => CopyRight(credCmd[v])'
  <2>1. ASSUME NEW v \in CredWriters, Editing(v)', CopyRight(credCmd[v]) PROVE CopyRight(credCmd[v])'
    <3>1. credCmd'[v] = credCmd[v]
      BY <1>3, <2>1
    <3> QED BY <2>1, <3>1 DEF CopyRight, KeyKeptAfter
  <2> QED BY <2>1
<1>7. credFile' = credFile /\ keptKeys' = keptKeys /\ chosen' = chosen
  OBVIOUS
<1>8. ASSUME clean'
      PROVE  /\ \A v, u \in CredWriters : Editing(v)' /\ Editing(u)' => v = u
             /\ (\A v \in CredWriters : credCmd'[v].at # "write") =>
                  /\ \A k : OfEntry(credFile'.entries, k) <=> k \in keptKeys'
                  /\ Chosen(credFile', chosen'.provider, chosen'.model)
             /\ \A v \in CredWriters : Editing(v)' => CopyRight(credCmd[v])'
             /\ \A v \in CredWriters : credCmd'[v].at = "write" => credFile' = NoCreds
  <2>1. clean
    BY <1>8
  <2>2. /\ \A v, u \in CredWriters : Editing(v) /\ Editing(u) => v = u
        /\ (\A v \in CredWriters : credCmd[v].at # "write") =>
             /\ \A k : OfEntry(credFile.entries, k) <=> k \in keptKeys
             /\ Chosen(credFile, chosen.provider, chosen.model)
        /\ \A v \in CredWriters : Editing(v) => CopyRight(credCmd[v])
        /\ \A v \in CredWriters : credCmd[v].at = "write" => credFile = NoCreds
    BY <2>1 DEF CredInv, FileAgrees
  <2>3. (\A v \in CredWriters : credCmd'[v].at # "write") =>
          /\ \A k : OfEntry(credFile'.entries, k) <=> k \in keptKeys'
          /\ Chosen(credFile', chosen'.provider, chosen'.model)
    BY <1>4, <1>7, <2>2
  <2>4. \A v \in CredWriters : Editing(v)' => CopyRight(credCmd[v])'
    BY <1>2, <1>6, <2>2
  <2>5. \A v, u \in CredWriters : Editing(v)' /\ Editing(u)' => v = u
    BY <1>2, <2>2
  <2>6. \A v \in CredWriters : credCmd'[v].at = "write" => credFile' = NoCreds
    BY <1>4, <1>7, <2>2
  <2> QED BY <2>3, <2>4, <2>5, <2>6
<1> QED BY <1>8 DEF FileAgrees

(* A writer has read the file and made its copy.                           *)
LEMMA EditBegins ==
  ASSUME CredInv, NEW w \in CredWriters, NEW cmd, CommandRight(w, cmd), cmd.at = "truncate",
         credCmd[w].at \notin {"truncate", "write"},
         credCmd' = [credCmd EXCEPT ![w] = cmd],
         clean' = (clean /\ ~Overlap), UNCHANGED <<credFile, keptKeys, chosen>>,
         (\A k : OfEntry(credFile.entries, k) <=> k \in keptKeys)
           /\ Chosen(credFile, chosen.provider, chosen.model) => CopyRight(cmd)
  PROVE  FileAgrees' /\ clean' \in BOOLEAN
<1>1. credCmd'[w] = cmd /\ \A v \in CredWriters : v # w => credCmd'[v] = credCmd[v]
  BY CredGoesOn
<1>2. credFile' = credFile /\ keptKeys' = keptKeys /\ chosen' = chosen
  OBVIOUS
<1>3. ASSUME clean'
      PROVE  /\ \A v, u \in CredWriters : Editing(v)' /\ Editing(u)' => v = u
             /\ (\A v \in CredWriters : credCmd'[v].at # "write") =>
                  /\ \A k : OfEntry(credFile'.entries, k) <=> k \in keptKeys'
                  /\ Chosen(credFile', chosen'.provider, chosen'.model)
             /\ \A v \in CredWriters : Editing(v)' => CopyRight(credCmd[v])'
             /\ \A v \in CredWriters : credCmd'[v].at = "write" => credFile' = NoCreds
  <2>1. clean /\ ~Overlap
    BY <1>3
  <2>2. \A v \in CredWriters : ~Editing(v)
    BY <2>1 DEF Overlap
  <2>3. \A v \in CredWriters : credCmd[v].at # "write"
    BY <2>2 DEF Editing
  <2>4. /\ \A k : OfEntry(credFile.entries, k) <=> k \in keptKeys
        /\ Chosen(credFile, chosen.provider, chosen.model)
    BY <2>1, <2>3 DEF CredInv, FileAgrees
  <2>5. \A v \in CredWriters : Editing(v)' => v = w
    BY <1>1, <2>2 DEF Editing
  <2>6. CopyRight(cmd)
    BY <2>4
  <2>7. CopyRight(credCmd[w])'
    BY <1>1, <1>2, <2>6 DEF CopyRight, KeyKeptAfter
  <2>8. \A v \in CredWriters : credCmd'[v].at # "write"
    BY <1>1, <2>3
  <2> QED BY <1>2, <2>4, <2>5, <2>7, <2>8
<1>4. clean' \in BOOLEAN
  OBVIOUS
<1> QED BY <1>3, <1>4 DEF FileAgrees

LEMMA WizardSavesKept ==
  ASSUME CredInv, NEW p \in Vendors, NEW k \in KeysOf(p), WizardSaves(p, k) PROVE CredInv'
<1> DEFINE w == WizardProc
<1>1. PICK want : want = [provider |-> p, model |-> 1, keys |-> <<k>>]
  OBVIOUS
<1>2. PICK cmd : cmd = [at |-> "truncate", op |-> "save", persist |-> TRUE, want |-> want,
                        copy |-> WithKey(credFile, p, k, 1)]
  OBVIOUS
<1>3. /\ credCmd[w].at = "idle" /\ credCmd' = [credCmd EXCEPT ![w] = cmd] /\ clean' = (clean /\ ~Overlap)
      /\ UNCHANGED <<credFile, agentHas, activeName, boot, boots, keptKeys, chosen, switchesMet>>
  BY <1>1, <1>2 DEF WizardSaves, BeginsCmd, Away
<1>4. w \in CredWriters /\ w \notin CredChats /\ 1 \in ModelIds /\ GoodFile(credFile)
  BY CredentialsAssumption DEF CredWriters, ModelIds, CredInv, CredTypes
<1>5. /\ GoodFile(WithKey(credFile, p, k, 1)) /\ Chosen(WithKey(credFile, p, k, 1), p, 1)
      /\ \A x : OfEntry(WithKey(credFile, p, k, 1).entries, x) <=> OfEntry(credFile.entries, x) \/ x = k
  BY <1>4, WithKeyIs
<1>6. want \in Agents /\ want.provider = p /\ want.model = 1 /\ Range(want.keys) = {k}
  <2>1. <<k>> \in Seq(AllKeys) /\ Range(<<k>>) = {k}
    BY KeysAreKeys DEF Range
  <2> QED BY <1>1, <1>4, <2>1 DEF Agents
<1>7. /\ cmd.at = "truncate" /\ cmd.op = "save" /\ cmd.want = want /\ cmd.persist = TRUE
      /\ cmd.copy = WithKey(credFile, p, k, 1)
  BY <1>2
<1>8. CommandRight(w, cmd)
  <2>1. cmd \in CommandRecords
    <3>1. cmd.copy \in Creds
      BY <1>5, <1>7 DEF GoodFile
    <3> QED BY <1>2, <1>6, <1>7, <3>1 DEF CommandRecords
  <2> QED BY <1>5, <1>7, <2>1 DEF CommandRight
<1>9. /\ credCmd' \in [CredWriters -> CommandRecords] /\ \A v \in CredWriters : CommandRight(v, credCmd'[v])
  BY <1>3, <1>4, <1>8, CredGoesOn
<1>10. (\A x : OfEntry(credFile.entries, x) <=> x \in keptKeys) => CopyRight(cmd)
  BY <1>5, <1>6, <1>7 DEF CopyRight, KeyKeptAfter
<1>11. FileAgrees' /\ clean' \in BOOLEAN
  BY <1>3, <1>4, <1>7, <1>8, <1>10, EditBegins
<1>12. SwitchAlone'
  BY <1>3, <1>4, <1>7, <1>8, SwitchStays
<1>13. BootAlone'
  BY <1>3, <1>4, <1>8, BootStays
<1>14. CredTypes'
  BY <1>3, <1>9, <1>11 DEF CredInv, CredTypes
<1> QED BY <1>11, <1>12, <1>13, <1>14 DEF CredInv

(* A command of a chat that is answered at once.                           *)
LEMMA AnsweredAtOnce ==
  ASSUME CredInv, UNCHANGED <<credFile, credCmd, agentHas, activeName, boot, keptKeys, chosen, clean, switchesMet>>
  PROVE  CredInv'
<1>1. CredTypes'
  BY DEF CredInv, CredTypes
<1>2. BootAlone' /\ SwitchAlone'
  BY DEF CredInv, BootAlone, SwitchAlone
<1>3. FileAgrees'
  BY DEF CredInv, FileAgrees, Editing, CopyRight, KeyKeptAfter
<1> QED BY <1>1, <1>2, <1>3 DEF CredInv

LEMMA RemoveKeyKept ==
  ASSUME CredInv, NEW w \in CredChats, NEW p \in Vendors, RemoveKey(w, p) PROVE CredInv'
<1>1. /\ credCmd[w].at = "idle" /\ boot.at = "up" /\ w \in CredWriters
      /\ UNCHANGED <<credFile, agentHas, activeName, boot, boots, keptKeys, chosen, switchesMet>>
  BY CredentialsAssumption DEF RemoveKey, BeginsCmd, Away, CredWriters
<1>2. CASE ~Has(credFile, p)
  <2>1. UNCHANGED <<credCmd, clean>>
    BY <1>2 DEF RemoveKey
  <2> QED BY <1>1, <2>1, AnsweredAtOnce
<1>3. CASE Has(credFile, p)
  <2>1. PICK want : want = [NoAgent EXCEPT !.provider = p]
    OBVIOUS
  <2>2. PICK cmd : cmd = [at |-> "truncate", op |-> "remove", persist |-> TRUE, want |-> want,
                          copy |-> WithoutVendor(credFile, p)]
    OBVIOUS
  <2>3. credCmd' = [credCmd EXCEPT ![w] = cmd] /\ clean' = (clean /\ ~Overlap)
    BY <1>3, <2>1, <2>2 DEF RemoveKey
  <2>4. want \in Agents /\ want.provider = p
    BY <2>1, NoCommandIsOne DEF Agents
  <2>5. /\ cmd.at = "truncate" /\ cmd.op = "remove" /\ cmd.want = want /\ cmd.copy = WithoutVendor(credFile, p)
    BY <2>2
  <2>6. /\ GoodFile(cmd.copy)
        /\ \A q, m : Chosen(credFile, q, m) /\ q # p => Chosen(cmd.copy, q, m)
        /\ \A x : OfEntry(cmd.copy.entries, x) <=> OfEntry(credFile.entries, x) /\ x \notin KeysOf(p)
    BY <2>5, WithoutVendorIs DEF CredInv, CredTypes
  <2>7. CommandRight(w, cmd)
    <3>1. cmd \in CommandRecords
      <4>1. cmd.copy \in Creds
        BY <2>6 DEF GoodFile
      <4> QED BY <2>2, <2>4, <2>5, <4>1 DEF CommandRecords
    <3> QED BY <2>5, <2>6, <3>1 DEF CommandRight
  <2>8. /\ credCmd' \in [CredWriters -> CommandRecords] /\ \A v \in CredWriters : CommandRight(v, credCmd'[v])
    BY <1>1, <2>3, <2>7, CredGoesOn
  <2>9. (\A x : OfEntry(credFile.entries, x) <=> x \in keptKeys)
          /\ Chosen(credFile, chosen.provider, chosen.model) => CopyRight(cmd)
    BY <2>4, <2>5, <2>6 DEF CopyRight, KeyKeptAfter
  <2>10. FileAgrees' /\ clean' \in BOOLEAN
    BY <1>1, <2>3, <2>5, <2>7, <2>9, EditBegins
  <2>11. SwitchAlone'
    BY <1>1, <2>3, <2>5, <2>7, SwitchStays
  <2>12. BootAlone'
    BY <1>1, <2>3, <2>7, BootStays
  <2>13. CredTypes'
    BY <1>1, <2>8, <2>10 DEF CredInv, CredTypes
  <2> QED BY <2>10, <2>11, <2>12, <2>13 DEF CredInv
<1> QED BY <1>2, <1>3

LEMMA PersistKept == ASSUME CredInv, NEW w \in CredChats, Persist(w) PROVE CredInv'
<1> DEFINE old == credCmd[w]  p == old.want.provider  m == old.want.model
<1>1. /\ old.at = "persist" /\ w \in CredWriters /\ CommandRight(w, old)
      /\ UNCHANGED <<credFile, agentHas, activeName, boot, commandsRun, boots, keptKeys, chosen, switchesMet>>
  BY DEF Persist, CommandAt, CredWriters, CredInv, CredTypes
<1>2. old.op = "switch" /\ p \in Vendors /\ m \in ModelIds /\ old \in CommandRecords
  BY <1>1 DEF CommandRight
<1>3. CASE ~Has(credFile, p)
  <2>1. credCmd' = [credCmd EXCEPT ![w] = NoCommand] /\ UNCHANGED clean
    BY <1>3 DEF Persist, AnswersCmd
  <2>2. CommandRight(w, NoCommand) /\ NoCommand.at = "idle" /\ NoCommand.op = "none"
    BY NoCommandIsOne
  <2>3. /\ credCmd' \in [CredWriters -> CommandRecords] /\ \A v \in CredWriters : CommandRight(v, credCmd'[v])
    BY <1>1, <2>1, <2>2, CredGoesOn
  <2>4. FileAgrees'
    BY <1>1, <2>1, <2>2, FileStays
  <2>5. SwitchAlone'
    BY <1>1, <2>1, <2>2, SwitchStays
  <2>6. BootAlone'
    BY <1>1, <2>1, <2>2, BootStays
  <2>7. CredTypes'
    BY <1>1, <2>1, <2>3 DEF CredInv, CredTypes
  <2> QED BY <2>4, <2>5, <2>6, <2>7 DEF CredInv
<1>4. CASE Has(credFile, p)
  <2>1. PICK d : d = WithModel(credFile, p, m)
    OBVIOUS
  <2>2. PICK cmd : cmd = [at |-> "truncate", op |-> old.op, want |-> old.want, persist |-> old.persist, copy |-> d]
    OBVIOUS
  <2>3. credCmd' = [credCmd EXCEPT ![w] = cmd] /\ clean' = (clean /\ ~Overlap)
    BY <1>4, <2>1, <2>2 DEF Persist, Edits
  <2>4. /\ GoodFile(d) /\ Chosen(d, p, m) /\ \A k : OfEntry(d.entries, k) <=> OfEntry(credFile.entries, k)
    BY <1>2, <1>4, <2>1, WithModelIs DEF CredInv, CredTypes
  <2>5. cmd.at = "truncate" /\ cmd.op = "switch" /\ cmd.want = old.want /\ cmd.copy = d
    BY <1>2, <2>2
  <2>6. CommandRight(w, cmd)
    <3>1. cmd \in CommandRecords
      <4>1. d \in Creds
        BY <2>4 DEF GoodFile
      <4> QED BY <1>2, <2>2, <4>1 DEF CommandRecords
    <3> QED BY <1>1, <2>4, <2>5, <3>1 DEF CommandRight
  <2>7. /\ credCmd' \in [CredWriters -> CommandRecords] /\ \A v \in CredWriters : CommandRight(v, credCmd'[v])
    BY <1>1, <2>3, <2>6, CredGoesOn
  <2>8. (\A k : OfEntry(credFile.entries, k) <=> k \in keptKeys) => CopyRight(cmd)
    BY <2>4, <2>5 DEF CopyRight, KeyKeptAfter
  <2>9. FileAgrees' /\ clean' \in BOOLEAN
    BY <1>1, <2>3, <2>5, <2>6, <2>8, EditBegins
  <2>10. SwitchAlone'
    BY <1>1, <1>2, <2>3, <2>5, <2>6, SwitchStays
  <2>11. BootAlone'
    BY <1>1, <2>3, <2>6, BootStays
  <2>12. CredTypes'
    BY <1>1, <2>7, <2>9 DEF CredInv, CredTypes
  <2> QED BY <2>9, <2>10, <2>11, <2>12 DEF CredInv
<1> QED BY <1>3, <1>4

-----------------------------------------------------------------------------
(* The start of the server, the switch of its agent, and the writing.      *)

LEMMA BootReadKept == ASSUME CredInv, BootRead PROVE CredInv'
<1>1. /\ boot.at = "read"
      /\ UNCHANGED <<credFile, credCmd, agentHas, activeName, keptKeys, chosen, clean, switchesMet>>
  BY DEF BootRead
<1>2. boot'.at \in {"keys", "up"} /\ boot'.got \in Agents /\ OwnKeys(boot'.got)
  <2>1. CASE credFile.entries = <<>>
    <3>1. boot' = [at |-> "up", got |-> NoAgent]
      BY <2>1 DEF BootRead
    <3> QED BY <3>1, NoCommandIsOne
  <2>2. CASE credFile.entries # <<>>
    <3>1. PICK e : e = ActiveOf(credFile)
      OBVIOUS
    <3>2. PICK i \in 1 .. Len(credFile.entries) : e = credFile.entries[i]
      BY <2>2, <3>1, ActiveIs DEF CredInv, CredTypes
    <3>3. credFile.entries \in Seq(CredEntries) /\ OwnEntries(credFile.entries)
      BY DEF CredInv, CredTypes, GoodFile, Creds, CredEntries
    <3>4. e \in CredEntries
      BY <3>2, <3>3
    <3>5. e.keys # <<>> /\ \A k : Contains(e.keys, k) => k \in KeysOf(e.name)
      BY <3>2, <3>3 DEF OwnEntries
    <3>6. e.name \in Vendors /\ e.model \in ModelIds /\ e.keys \in Seq(AllKeys)
      BY <3>4 DEF CredEntries
    <3>7. PICK k : k = Head(e.keys)
      OBVIOUS
    <3>8. k \in AllKeys /\ k = e.keys[1] /\ 1 \in 1 .. Len(e.keys)
      BY <3>5, <3>6, <3>7, HeadTailProperties, LenProperties, EmptySeq
    <3>9. k \in KeysOf(e.name)
      BY <3>5, <3>8 DEF Contains
    <3>10. PICK got : got = [provider |-> e.name, model |-> e.model, keys |-> <<k>>]
      OBVIOUS
    <3>11. boot' = [at |-> "keys", got |-> got]
      BY <2>2, <3>1, <3>7, <3>10 DEF BootRead
    <3>12. <<k>> \in Seq(AllKeys) /\ \A x : Contains(<<k>>, x) => x = k
      BY <3>8 DEF Contains
    <3>13. got \in Agents
      BY <3>6, <3>10, <3>12 DEF Agents
    <3>14. OwnKeys(got)
      BY <3>9, <3>10, <3>12 DEF OwnKeys
    <3> QED BY <3>11, <3>13, <3>14
  <2> QED BY <2>1, <2>2
<1>3. CredTypes'
  BY <1>1, <1>2 DEF CredInv, CredTypes
<1>4. BootAlone' /\ SwitchAlone'
  BY <1>1 DEF CredInv, BootAlone, SwitchAlone
<1>5. FileAgrees'
  BY <1>1 DEF CredInv, FileAgrees, Editing, CopyRight, KeyKeptAfter
<1> QED BY <1>3, <1>4, <1>5 DEF CredInv

LEMMA BootAgentKept == ASSUME CredInv, BootAgent PROVE CredInv'
<1>1. /\ boot.at = "keys" /\ boot' = [at |-> "up", got |-> NoAgent]
      /\ UNCHANGED <<credFile, credCmd, keptKeys, chosen, clean, switchesMet>>
  BY DEF BootAgent
<1>2. PICK ks : ks = KeysFor(boot.got)
  OBVIOUS
<1>3. boot.got \in Agents /\ OwnKeys(boot.got)
  BY DEF CredInv, CredTypes
<1>4. ks \in Seq(AllKeys) /\ \A k : Contains(ks, k) => k \in KeysOf(boot.got.provider)
  <2>1. CASE credFile.entries # <<>> /\ ActiveOf(credFile).name = boot.got.provider
    <3>1. PICK i \in 1 .. Len(credFile.entries) : ActiveOf(credFile) = credFile.entries[i]
      BY <2>1, ActiveIs DEF CredInv, CredTypes
    <3>2. credFile.entries \in Seq(CredEntries) /\ OwnEntries(credFile.entries)
      BY DEF CredInv, CredTypes, GoodFile, Creds, CredEntries
    <3>3. credFile.entries[i] \in CredEntries
      BY <3>1, <3>2
    <3>4. credFile.entries[i].keys \in Seq(AllKeys) /\ credFile.entries[i].name = boot.got.provider
      BY <2>1, <3>1, <3>3 DEF CredEntries
    <3>5. ks = credFile.entries[i].keys
      BY <1>2, <2>1, <3>1 DEF KeysFor
    <3> QED BY <3>2, <3>4, <3>5 DEF OwnEntries
  <2>2. CASE ~(credFile.entries # <<>> /\ ActiveOf(credFile).name = boot.got.provider)
    <3>1. ks = boot.got.keys
      BY <1>2, <2>2 DEF KeysFor
    <3> QED BY <1>3, <3>1 DEF Agents, OwnKeys
  <2> QED BY <2>1, <2>2
<1>5. PICK a : a = [boot.got EXCEPT !.keys = ks]
  OBVIOUS
<1>6. a \in Agents /\ a.provider = boot.got.provider /\ a.keys = ks
  BY <1>3, <1>4, <1>5 DEF Agents
<1>7. OwnKeys(a)
  BY <1>4, <1>6 DEF OwnKeys
<1>8. (agentHas' = a /\ activeName' = a.provider) \/ (agentHas' = agentHas /\ activeName' = activeName)
  BY <1>2, <1>5, <1>6 DEF BootAgent
<1>9. boot'.at = "up" /\ boot'.got = NoAgent
  BY <1>1
<1>10. CredTypes'
  <2>1. agentHas' \in Agents /\ OwnKeys(agentHas')
    BY <1>6, <1>7, <1>8 DEF CredInv, CredTypes
  <2> QED BY <1>1, <1>9, <2>1, NoCommandIsOne DEF CredInv, CredTypes
<1>11. BootAlone'
  BY <1>9 DEF BootAlone
<1>12. SwitchAlone'
  <2>1. \A w \in CredChats : credCmd[w].at = "idle"
    BY <1>1 DEF CredInv, BootAlone
  <2>2. \A w \in CredWriters : CommandRight(w, credCmd[w])
    BY DEF CredInv, CredTypes
  <2>3. \A w \in CredWriters : credCmd[w].op # "switch" /\ credCmd[w].at # "name"
    BY <2>1, <2>2 DEF CommandRight
  <2> QED BY <1>1, <1>8, <2>3 DEF CredInv, SwitchAlone
<1>13. FileAgrees'
  BY <1>1 DEF CredInv, FileAgrees, Editing, CopyRight, KeyKeptAfter
<1> QED BY <1>10, <1>11, <1>12, <1>13 DEF CredInv

LEMMA RebootKept == ASSUME CredInv, Reboot PROVE CredInv'
<1>1. /\ boot' = [at |-> "read", got |-> NoAgent] /\ agentHas' = NoAgent /\ activeName' = NoVendor
      /\ credCmd' = [w \in CredWriters |-> IF w = WizardProc THEN credCmd[w] ELSE NoCommand]
      /\ clean' = (clean /\ \A w \in CredChats : credCmd[w].at # "write")
      /\ UNCHANGED <<credFile, keptKeys, chosen, switchesMet>>
  BY DEF Reboot, CommandAt
<1>2. \A w \in CredWriters : credCmd'[w] = IF w = WizardProc THEN credCmd[w] ELSE NoCommand
  BY <1>1
<1>3. WizardProc \notin CredChats /\ CredWriters = CredChats \cup {WizardProc}
  BY CredentialsAssumption DEF CredWriters
<1>4. /\ credCmd' \in [CredWriters -> CommandRecords]
      /\ \A w \in CredWriters : CommandRight(w, credCmd'[w])
  BY <1>1, <1>2, NoCommandIsOne DEF CredInv, CredTypes
<1>5. boot'.at = "read" /\ boot'.got = NoAgent
  BY <1>1
<1>6. clean' \in BOOLEAN
  BY <1>1
<1>7. CredTypes'
  BY <1>1, <1>4, <1>5, <1>6, NoCommandIsOne DEF CredInv, CredTypes
<1>8. BootAlone'
  BY <1>2, <1>3, NoCommandIsOne DEF BootAlone
<1>9. SwitchAlone'
  <2>1. CommandRight(WizardProc, credCmd[WizardProc])
    BY <1>3 DEF CredInv, CredTypes
  <2>2. credCmd[WizardProc].op # "switch" /\ credCmd[WizardProc].at # "name"
    BY <1>3, <2>1 DEF CommandRight
  <2>3. \A w \in CredWriters : credCmd'[w].op # "switch" /\ credCmd'[w].at # "name"
    BY <1>2, <2>2, NoCommandIsOne
  <2> QED BY <1>1, <2>3, NoCommandIsOne DEF SwitchAlone
<1>10. ASSUME clean'
       PROVE  /\ \A v, u \in CredWriters : Editing(v)' /\ Editing(u)' => v = u
              /\ (\A v \in CredWriters : credCmd'[v].at # "write") =>
                   /\ \A k : OfEntry(credFile'.entries, k) <=> k \in keptKeys'
                   /\ Chosen(credFile', chosen'.provider, chosen'.model)
              /\ \A v \in CredWriters : Editing(v)' => CopyRight(credCmd[v])'
              /\ \A v \in CredWriters : credCmd'[v].at = "write" => credFile' = NoCreds
  <2>1. clean /\ \A w \in CredChats : credCmd[w].at # "write"
    BY <1>1, <1>10
  <2>2. \A v \in CredWriters : Editing(v)' => v = WizardProc /\ Editing(v)
    BY <1>2, NoCommandIsOne DEF Editing
  <2>3. \A v \in CredWriters : credCmd'[v].at = "write" <=> credCmd[v].at = "write"
    BY <1>2, <1>3, <2>1, NoCommandIsOne
  <2>4. credCmd'[WizardProc] = credCmd[WizardProc]
    BY <1>2, <1>3
  <2>5. /\ (\A v \in CredWriters : credCmd[v].at # "write") =>
             /\ \A k : OfEntry(credFile.entries, k) <=> k \in keptKeys
             /\ Chosen(credFile, chosen.provider, chosen.model)
        /\ \A v \in CredWriters : Editing(v) => CopyRight(credCmd[v])
        /\ \A v \in CredWriters : credCmd[v].at = "write" => credFile = NoCreds
    BY <2>1 DEF CredInv, FileAgrees
  <2>6. CopyRight(credCmd[WizardProc]) => CopyRight(credCmd[WizardProc])'
    BY <1>1, <2>4 DEF CopyRight, KeyKeptAfter
  <2>7. \A v \in CredWriters : Editing(v)' => CopyRight(credCmd[v])'
    BY <2>2, <2>5, <2>6
  <2>8. credFile' = credFile /\ keptKeys' = keptKeys /\ chosen' = chosen
    BY <1>1
  <2>9. (\A v \in CredWriters : credCmd'[v].at # "write") =>
          /\ \A k : OfEntry(credFile'.entries, k) <=> k \in keptKeys'
          /\ Chosen(credFile', chosen'.provider, chosen'.model)
    BY <2>3, <2>5, <2>8
  <2> QED BY <2>2, <2>3, <2>5, <2>7, <2>8, <2>9
<1>11. FileAgrees'
  BY <1>10 DEF FileAgrees
<1> QED BY <1>7, <1>8, <1>9, <1>11 DEF CredInv

LEMMA SwitchKept ==
  ASSUME CredInv, NEW w \in CredChats, NEW p \in Vendors, NEW m \in ModelIds, NEW persist \in BOOLEAN,
         Switch(w, p, m, persist)
  PROVE  CredInv'
<1>1. /\ credCmd[w].at = "idle" /\ boot.at = "up" /\ w \in CredWriters
      /\ UNCHANGED <<credFile, agentHas, activeName, boot, keptKeys, chosen, clean>>
  BY CredentialsAssumption DEF Switch, BeginsCmd, Away, CredWriters, NameLater
<1>2. CASE ~(Has(credFile, p) /\ agentHas # NoAgent)
  <2>1. UNCHANGED <<credCmd, switchesMet>>
    BY <1>2 DEF Switch
  <2> QED BY <1>1, <2>1, AnsweredAtOnce
<1>3. CASE Has(credFile, p) /\ agentHas # NoAgent
  <2>1. PICK want : want = [provider |-> p, model |-> m, keys |-> Find(credFile, p).keys]
    OBVIOUS
  <2>2. PICK cmd : cmd = [at |-> "build", op |-> "switch", persist |-> persist, copy |-> NoCreds, want |-> want]
    OBVIOUS
  <2>3. /\ credCmd' = [credCmd EXCEPT ![w] = cmd]
        /\ switchesMet' = (switchesMet \/ \E v \in CredChats : credCmd[v].op = "switch")
    BY <1>3, <2>1, <2>2 DEF Switch
  <2>4. PICK i \in 1 .. Len(credFile.entries) : credFile.entries[i].name = p
    BY <1>3, HasMeans DEF CredInv, CredTypes
  <2>5. Find(credFile, p) = credFile.entries[i]
    BY <2>4, FindIs DEF CredInv, CredTypes
  <2>6. credFile.entries \in Seq(CredEntries) /\ OwnEntries(credFile.entries)
    BY DEF CredInv, CredTypes, GoodFile, Creds, CredEntries
  <2>7. PICK ks : ks = credFile.entries[i].keys
    OBVIOUS
  <2>8. ks \in Seq(AllKeys) /\ \A k : Contains(ks, k) => k \in KeysOf(p)
    <3>1. credFile.entries[i] \in CredEntries
      BY <2>6
    <3> QED BY <2>4, <2>6, <2>7, <3>1 DEF CredEntries, OwnEntries
  <2>9. want = [provider |-> p, model |-> m, keys |-> ks]
    BY <2>1, <2>5, <2>7
  <2>10. want \in Agents /\ want.provider = p /\ want.model = m /\ want.keys = ks
    BY <2>8, <2>9 DEF Agents
  <2>11. OwnKeys(want)
    BY <2>8, <2>10 DEF OwnKeys
  <2>12. cmd.at = "build" /\ cmd.op = "switch" /\ cmd.want = want
    BY <2>2
  <2>13. cmd \in CommandRecords
    BY <2>2, <2>10, NoCommandIsOne DEF CommandRecords
  <2>14. CommandRight(w, cmd)
    BY <2>10, <2>11, <2>12, <2>13 DEF CommandRight
  <2>15. /\ credCmd'[w] = cmd /\ \A v \in CredWriters : v # w => credCmd'[v] = credCmd[v]
         /\ credCmd' \in [CredWriters -> CommandRecords]
         /\ \A v \in CredWriters : CommandRight(v, credCmd'[v])
    BY <1>1, <2>3, <2>14, CredGoesOn
  <2>16. FileAgrees'
    BY <1>1, <2>3, <2>12, <2>14, FileStays
  <2>17. BootAlone'
    BY <1>1, <2>3, <2>14, BootStays
  <2>18. switchesMet' \in BOOLEAN
    BY <2>3
  <2>19. CredTypes'
    BY <1>1, <2>15, <2>18 DEF CredInv, CredTypes
  <2>20. ASSUME ~switchesMet'
         PROVE  /\ \A u, v \in CredWriters : credCmd'[u].op = "switch" /\ credCmd'[v].op = "switch" => u = v
                /\ \A v \in CredWriters : credCmd'[v].at = "name" => agentHas' = credCmd'[v].want
                /\ (\A v \in CredWriters : credCmd'[v].at # "name") => activeName' = agentHas'.provider
    <3>1. ~switchesMet /\ \A v \in CredChats : credCmd[v].op # "switch"
      BY <2>3, <2>20
    <3>2. \A v \in CredWriters : CommandRight(v, credCmd[v])
      BY DEF CredInv, CredTypes
    <3>3. \A v \in CredWriters : credCmd[v].op # "switch" /\ credCmd[v].at # "name"
      BY <3>1, <3>2 DEF CommandRight
    <3>4. \A v \in CredWriters : credCmd'[v].op = "switch" => v = w
      BY <2>15, <3>3
    <3>5. \A v \in CredWriters : credCmd'[v].at # "name"
      BY <2>12, <2>15, <3>3
    <3>6. activeName = agentHas.provider
      BY <3>1, <3>3 DEF CredInv, SwitchAlone
    <3> QED BY <1>1, <3>4, <3>5, <3>6
  <2>21. SwitchAlone'
    BY <2>20 DEF SwitchAlone
  <2> QED BY <2>16, <2>17, <2>19, <2>21 DEF CredInv
<1> QED BY <1>2, <1>3

LEMMA BuildFailsKept == ASSUME CredInv, NEW w \in CredChats, BuildFails(w) PROVE CredInv'
<1>1. /\ credCmd[w].at = "build" /\ w \in CredWriters /\ credCmd' = [credCmd EXCEPT ![w] = NoCommand]
      /\ UNCHANGED <<credFile, agentHas, activeName, boot, keptKeys, chosen, clean, switchesMet>>
  BY DEF BuildFails, CommandAt, AnswersCmd, CredWriters
<1>2. CommandRight(w, NoCommand) /\ NoCommand.at = "idle" /\ NoCommand.op = "none"
  BY NoCommandIsOne
<1>3. /\ credCmd' \in [CredWriters -> CommandRecords] /\ \A v \in CredWriters : CommandRight(v, credCmd'[v])
  BY <1>1, <1>2, CredGoesOn
<1>4. FileAgrees'
  BY <1>1, <1>2, FileStays
<1>5. SwitchAlone'
  BY <1>1, <1>2, SwitchStays
<1>6. BootAlone'
  BY <1>1, <1>2, BootStays
<1>7. CredTypes'
  BY <1>1, <1>3 DEF CredInv, CredTypes
<1> QED BY <1>4, <1>5, <1>6, <1>7 DEF CredInv

(* A command at its next step.                                             *)
LEMMA NextStepRight ==
  ASSUME NEW w, NEW old, CommandRight(w, old), NEW cmd, NEW place, cmd = [old EXCEPT !.at = place],
         \/ old.at \in {"build", "name"} /\ place \in {"name", "persist"}
         \/ old.at = "truncate" /\ place = "write"
  PROVE  /\ CommandRight(w, cmd) /\ cmd.at = place /\ cmd.op = old.op /\ cmd.want = old.want
         /\ cmd.copy = old.copy
<1>1. old \in CommandRecords
  BY DEF CommandRight
<1>2. /\ cmd \in CommandRecords /\ cmd.at = place /\ cmd.op = old.op /\ cmd.want = old.want
      /\ cmd.copy = old.copy
  BY <1>1 DEF CommandRecords
<1>3. CommandRight(w, cmd)
  BY <1>2 DEF CommandRight
<1> QED BY <1>2, <1>3

LEMMA SetAgentKept == ASSUME CredInv, NEW w \in CredChats, SetAgent(w) PROVE CredInv'
<1>1. PICK old : old = credCmd[w]
  OBVIOUS
<1>2. PICK cmd : cmd = [old EXCEPT !.at = "name"]
  OBVIOUS
<1>3. /\ old.at = "build" /\ w \in CredWriters /\ credCmd' = [credCmd EXCEPT ![w] = cmd]
      /\ agentHas' = old.want /\ CommandRight(w, old)
      /\ UNCHANGED <<credFile, activeName, boot, keptKeys, chosen, clean, switchesMet>>
  <2>1. w \in CredWriters
    BY DEF CredWriters
  <2> QED BY <1>1, <1>2, <2>1 DEF SetAgent, CommandAt, Does, CredInv, CredTypes
<1>4. /\ CommandRight(w, cmd) /\ cmd.at = "name" /\ cmd.op = "switch" /\ cmd.want = old.want
  <2>1. old.op = "switch"
    BY <1>3 DEF CommandRight
  <2> QED BY <1>2, <1>3, <2>1, NextStepRight
<1>5. /\ credCmd'[w] = cmd /\ \A v \in CredWriters : v # w => credCmd'[v] = credCmd[v]
      /\ credCmd' \in [CredWriters -> CommandRecords] /\ \A v \in CredWriters : CommandRight(v, credCmd'[v])
  BY <1>3, <1>4, CredGoesOn
<1>6. FileAgrees'
  BY <1>1, <1>3, <1>4, FileStays
<1>7. BootAlone'
  BY <1>1, <1>3, <1>4, BootStays
<1>8. agentHas' \in Agents /\ OwnKeys(agentHas')
  BY <1>3, <1>4 DEF CommandRight, CommandRecords
<1>9. CredTypes'
  BY <1>3, <1>5, <1>8 DEF CredInv, CredTypes
<1>10. SwitchAlone'
  <2>1. old.op = "switch"
    BY <1>3 DEF CommandRight
  <2>2. \A v \in CredWriters : credCmd'[v].op = credCmd[v].op
    BY <1>1, <1>4, <1>5, <2>1
  <2>3. ~switchesMet => \A v \in CredWriters : credCmd'[v].at = "name" => v = w
    <3>1. \A v \in CredWriters : credCmd'[v].at = "name" => credCmd'[v].op = "switch"
      BY <1>5 DEF CommandRight
    <3> QED BY <1>1, <2>1, <2>2, <3>1 DEF CredInv, SwitchAlone, CredWriters
  <2>4. credCmd'[w].at = "name" /\ credCmd'[w].want = agentHas'
    BY <1>3, <1>4, <1>5
  <2> QED BY <1>3, <2>2, <2>3, <2>4 DEF CredInv, SwitchAlone
<1> QED BY <1>6, <1>7, <1>9, <1>10 DEF CredInv

LEMMA SetNameKept == ASSUME CredInv, NEW w \in CredChats, SetName(w) PROVE CredInv'
<1>1. PICK old : old = credCmd[w]
  OBVIOUS
<1>2. PICK cmd : cmd = IF old.persist THEN [old EXCEPT !.at = "persist"] ELSE NoCommand
  OBVIOUS
<1>3. /\ old.at = "name" /\ w \in CredWriters /\ credCmd' = [credCmd EXCEPT ![w] = cmd]
      /\ activeName' = old.want.provider /\ CommandRight(w, old)
      /\ UNCHANGED <<credFile, agentHas, boot, keptKeys, chosen, clean, switchesMet>>
  <2>1. w \in CredWriters
    BY DEF CredWriters
  <2> QED BY <1>1, <1>2, <2>1 DEF SetName, CommandAt, Does, AnswersCmd, CredInv, CredTypes
<1>4. old.op = "switch"
  BY <1>3 DEF CommandRight
<1>5. CommandRight(w, cmd) /\ cmd.at \in {"persist", "idle"}
  <2>1. CASE old.persist
    <3>1. cmd = [old EXCEPT !.at = "persist"]
      BY <1>2, <2>1
    <3> QED BY <1>3, <3>1, NextStepRight
  <2>2. CASE ~old.persist
    BY <1>2, <2>2, NoCommandIsOne
  <2> QED BY <2>1, <2>2
<1>6. /\ credCmd'[w] = cmd /\ \A v \in CredWriters : v # w => credCmd'[v] = credCmd[v]
      /\ credCmd' \in [CredWriters -> CommandRecords] /\ \A v \in CredWriters : CommandRight(v, credCmd'[v])
  BY <1>3, <1>5, CredGoesOn
<1>7. FileAgrees'
  BY <1>1, <1>3, <1>5, FileStays
<1>8. BootAlone'
  BY <1>1, <1>3, <1>5, BootStays
<1>9. CredTypes'
  BY <1>3, <1>6 DEF CredInv, CredTypes
<1>10. SwitchAlone'
  <2>1. \A v \in CredWriters : credCmd'[v].op = "switch" => credCmd[v].op = "switch"
    BY <1>1, <1>4, <1>6
  <2>2. \A v \in CredWriters : credCmd'[v].at = "name" => v # w /\ credCmd[v].at = "name"
    BY <1>5, <1>6
  <2>3. \A v \in CredWriters : credCmd[v].at = "name" => credCmd[v].op = "switch"
    BY DEF CredInv, CredTypes, CommandRight
  <2>4. ASSUME ~switchesMet'
        PROVE  /\ \A u, v \in CredWriters : credCmd'[u].op = "switch" /\ credCmd'[v].op = "switch" => u = v
               /\ \A v \in CredWriters : credCmd'[v].at # "name"
               /\ activeName' = agentHas'.provider
    <3>1. /\ \A u, v \in CredWriters : credCmd[u].op = "switch" /\ credCmd[v].op = "switch" => u = v
          /\ \A v \in CredWriters : credCmd[v].at = "name" => agentHas = credCmd[v].want
      BY <1>3, <2>4 DEF CredInv, SwitchAlone
    <3>2. \A v \in CredWriters : credCmd'[v].at # "name"
      BY <1>1, <1>3, <1>4, <2>2, <2>3, <3>1
    <3>3. activeName' = agentHas'.provider
      BY <1>1, <1>3, <3>1
    <3> QED BY <2>1, <3>1, <3>2, <3>3
  <2> QED BY <2>4 DEF SwitchAlone
<1> QED BY <1>7, <1>8, <1>9, <1>10 DEF CredInv

LEMMA EmptyFileKept == ASSUME CredInv, NEW w \in CredWriters, EmptyFile(w) PROVE CredInv'
<1>1. PICK old : old = credCmd[w]
  OBVIOUS
<1>2. PICK cmd : cmd = [old EXCEPT !.at = "write"]
  OBVIOUS
<1>3. /\ old.at = "truncate" /\ credCmd' = [credCmd EXCEPT ![w] = cmd] /\ credFile' = NoCreds
      /\ CommandRight(w, old)
      /\ UNCHANGED <<agentHas, activeName, boot, keptKeys, chosen, clean, switchesMet>>
  BY <1>1, <1>2 DEF EmptyFile, CommandAt, Does, CredInv, CredTypes
<1>4. /\ CommandRight(w, cmd) /\ cmd.at = "write" /\ cmd.op = old.op /\ cmd.want = old.want
      /\ cmd.copy = old.copy
  BY <1>2, <1>3, NextStepRight
<1>5. /\ credCmd'[w] = cmd /\ \A v \in CredWriters : v # w => credCmd'[v] = credCmd[v]
      /\ credCmd' \in [CredWriters -> CommandRecords] /\ \A v \in CredWriters : CommandRight(v, credCmd'[v])
  BY <1>3, <1>4, CredGoesOn
<1>6. BootAlone'
  BY <1>1, <1>3, <1>4, BootStays
<1>7. SwitchAlone'
  BY <1>1, <1>3, <1>4, SwitchStays
<1>8. CredTypes'
  BY <1>3, <1>5, NoCommandIsOne DEF CredInv, CredTypes
<1>9. ASSUME clean'
      PROVE  /\ \A v, u \in CredWriters : Editing(v)' /\ Editing(u)' => v = u
             /\ \A v \in CredWriters : Editing(v)' => CopyRight(credCmd[v])'
  <2>1. /\ \A v, u \in CredWriters : Editing(v) /\ Editing(u) => v = u
        /\ \A v \in CredWriters : Editing(v) => CopyRight(credCmd[v])
    BY <1>3, <1>9 DEF CredInv, FileAgrees
  <2>2. Editing(w)
    BY <1>1, <1>3 DEF Editing
  <2>3. \A v \in CredWriters : Editing(v)' => v = w
    BY <1>5, <2>1, <2>2 DEF Editing
  <2>4. CopyRight(old)
    BY <1>1, <2>1, <2>2
  <2>5. CopyRight(credCmd[w])'
    BY <1>3, <1>4, <1>5, <2>4 DEF CopyRight, KeyKeptAfter
  <2> QED BY <2>3, <2>5
<1>10. credCmd'[w].at = "write"
  BY <1>4, <1>5
<1>11. FileAgrees'
  BY <1>3, <1>9, <1>10 DEF FileAgrees
<1> QED BY <1>6, <1>7, <1>8, <1>11 DEF CredInv

LEMMA WriteCopyKept == ASSUME CredInv, NEW w \in CredWriters, WriteCopy(w) PROVE CredInv'
<1>1. PICK old : old = credCmd[w]
  OBVIOUS
<1>2. /\ old.at = "write" /\ credCmd' = [credCmd EXCEPT ![w] = NoCommand] /\ CommandRight(w, old)
      /\ credFile' = old.copy \/ (credFile # NoCreds /\ credFile' = NoCreds)
      /\ UNCHANGED <<agentHas, activeName, boot, clean, switchesMet>>
  BY <1>1 DEF WriteCopy, CommandAt, AnswersCmd, CredInv, CredTypes
<1>3. CommandRight(w, NoCommand) /\ NoCommand.at = "idle" /\ NoCommand.op = "none"
  BY NoCommandIsOne
<1>4. /\ credCmd'[w] = NoCommand /\ \A v \in CredWriters : v # w => credCmd'[v] = credCmd[v]
      /\ credCmd' \in [CredWriters -> CommandRecords] /\ \A v \in CredWriters : CommandRight(v, credCmd'[v])
  BY <1>2, <1>3, CredGoesOn
<1>5. BootAlone'
  BY <1>1, <1>2, <1>3, BootStays
<1>6. SwitchAlone'
  BY <1>1, <1>2, <1>3, SwitchStays
<1>7. GoodFile(credFile')
  BY <1>2, NoCommandIsOne DEF CommandRight
<1>8. CredTypes'
  BY <1>2, <1>4, <1>7 DEF CredInv, CredTypes
<1>9. old.op \in {"save", "remove", "switch"}
  BY <1>2 DEF CommandRight, CommandRecords
<1>10. old.op = "remove" =>
         /\ keptKeys' = keptKeys \ KeysOf(old.want.provider)
         /\ chosen' = IF chosen.provider = old.want.provider THEN [provider |-> NoVendor, model |-> 0]
                      ELSE chosen
  BY <1>1 DEF WriteCopy
<1>11. old.op = "save" =>
         /\ keptKeys' = keptKeys \cup Range(old.want.keys)
         /\ chosen' = [provider |-> old.want.provider, model |-> old.want.model]
  BY <1>1 DEF WriteCopy
<1>12. old.op = "switch" =>
         /\ keptKeys' = keptKeys
         /\ chosen' = [provider |-> old.want.provider, model |-> old.want.model]
  BY <1>1 DEF WriteCopy
<1>13. ASSUME clean'
       PROVE  /\ \A v \in CredWriters : ~Editing(v)' /\ credCmd'[v].at # "write"
              /\ \A k : OfEntry(credFile'.entries, k) <=> k \in keptKeys'
              /\ Chosen(credFile', chosen'.provider, chosen'.model)
  <2>1. /\ \A v, u \in CredWriters : Editing(v) /\ Editing(u) => v = u
        /\ \A v \in CredWriters : Editing(v) => CopyRight(credCmd[v])
        /\ \A v \in CredWriters : credCmd[v].at = "write" => credFile = NoCreds
    BY <1>2, <1>13 DEF CredInv, FileAgrees
  <2>2. Editing(w) /\ credFile = NoCreds /\ CopyRight(old)
    BY <1>1, <1>2, <2>1 DEF Editing
  <2>3. credFile' = old.copy
    BY <1>2, <2>2
  <2>4. \A v \in CredWriters : ~Editing(v)' /\ credCmd'[v].at # "write"
    BY <1>3, <1>4, <2>1, <2>2 DEF Editing
  <2>5. CASE old.op = "remove"
    <3>1. \A k : OfEntry(old.copy.entries, k) <=> k \in keptKeys'
      BY <1>10, <2>2, <2>5 DEF CopyRight, KeyKeptAfter
    <3>2. Chosen(old.copy, chosen'.provider, chosen'.model)
      BY <1>10, <2>2, <2>5 DEF CopyRight, Chosen
    <3> QED BY <2>3, <2>4, <3>1, <3>2
  <2>6. CASE old.op = "save"
    <3>1. \A k : OfEntry(old.copy.entries, k) <=> k \in keptKeys'
      BY <1>11, <2>2, <2>6 DEF CopyRight, KeyKeptAfter
    <3>2. Chosen(old.copy, chosen'.provider, chosen'.model)
      BY <1>11, <2>2, <2>6 DEF CopyRight
    <3> QED BY <2>3, <2>4, <3>1, <3>2
  <2>7. CASE old.op = "switch"
    <3>1. \A k : OfEntry(old.copy.entries, k) <=> k \in keptKeys'
      BY <1>12, <2>2, <2>7 DEF CopyRight, KeyKeptAfter
    <3>2. Chosen(old.copy, chosen'.provider, chosen'.model)
      BY <1>12, <2>2, <2>7 DEF CopyRight
    <3> QED BY <2>3, <2>4, <3>1, <3>2
  <2> QED BY <1>9, <2>5, <2>6, <2>7
<1>14. FileAgrees'
  BY <1>13 DEF FileAgrees
<1> QED BY <1>5, <1>6, <1>8, <1>14 DEF CredInv

LEMMA WriteCutKept == ASSUME CredInv, NEW w \in CredWriters, WriteCut(w) PROVE CredInv'
<1>1. PICK old : old = credCmd[w]
  OBVIOUS
<1>2. /\ old.at = "write" /\ credCmd' = [credCmd EXCEPT ![w] = NoCommand] /\ CommandRight(w, old)
      /\ credFile' = NoCreds /\ clean' = FALSE
      /\ UNCHANGED <<agentHas, activeName, boot, switchesMet>>
  BY <1>1 DEF WriteCut, CommandAt, AnswersCmd, CredInv, CredTypes
<1>3. CommandRight(w, NoCommand) /\ NoCommand.at = "idle" /\ NoCommand.op = "none"
  BY NoCommandIsOne
<1>4. /\ credCmd' \in [CredWriters -> CommandRecords] /\ \A v \in CredWriters : CommandRight(v, credCmd'[v])
  BY <1>2, <1>3, CredGoesOn
<1>5. BootAlone'
  BY <1>1, <1>2, <1>3, BootStays
<1>6. SwitchAlone'
  BY <1>1, <1>2, <1>3, SwitchStays
<1>7. CredTypes'
  BY <1>2, <1>4, NoCommandIsOne DEF CredInv, CredTypes
<1>8. FileAgrees'
  BY <1>2 DEF FileAgrees
<1> QED BY <1>5, <1>6, <1>7, <1>8 DEF CredInv

LEMMA CredKept == CredInv /\ [CredNext]_credVars => CredInv'
<1> SUFFICES ASSUME CredInv, [CredNext]_credVars PROVE CredInv'
  OBVIOUS
<1>1. CASE BootRead \/ BootAgent \/ Reboot
  BY <1>1, BootReadKept, BootAgentKept, RebootKept
<1>2. ASSUME NEW p \in Vendors, NEW k \in KeysOf(p), WizardSaves(p, k) PROVE CredInv'
  BY <1>2, WizardSavesKept
<1>3. ASSUME NEW w \in CredChats, NEW p \in Vendors, RemoveKey(w, p) PROVE CredInv'
  BY <1>3, RemoveKeyKept
<1>4. ASSUME NEW w \in CredChats, NEW p \in Vendors, NEW m \in ModelIds, NEW persist \in BOOLEAN,
             Switch(w, p, m, persist)
      PROVE  CredInv'
  BY <1>4, SwitchKept
<1>5. ASSUME NEW w \in CredChats, BuildFails(w) \/ SetAgent(w) \/ SetName(w) \/ Persist(w) PROVE CredInv'
  BY <1>5, BuildFailsKept, SetAgentKept, SetNameKept, PersistKept
<1>6. ASSUME NEW w \in CredWriters, EmptyFile(w) \/ WriteCopy(w) \/ WriteCut(w) PROVE CredInv'
  BY <1>6, EmptyFileKept, WriteCopyKept, WriteCutKept
<1>7. CASE UNCHANGED credVars
  BY <1>7, AnsweredAtOnce DEF credVars
<1> QED BY <1>1, <1>2, <1>3, <1>4, <1>5, <1>6, <1>7 DEF CredNext

LEMMA CredMeans == CredInv => CredentialsSound
<1> SUFFICES ASSUME CredInv PROVE CredentialsSound
  OBVIOUS
<1>1. GoodFile(credFile) /\ credFile \in Creds /\ DOMAIN credFile.entries = 1 .. Len(credFile.entries)
  BY DEF CredInv, CredTypes, GoodFile, Creds
<1>2. ActiveListed
  <2>1. credFile.entries # <<>> => Has(credFile, credFile.active)
    BY <1>1, HasMeans DEF GoodFile
  <2> QED BY <1>1, <2>1 DEF ActiveListed, GoodFile, NamedOnce
<1>3. AgentAgrees
  <2>1. agentHas.keys \in Seq(AllKeys) /\ OwnKeys(agentHas)
    BY DEF CredInv, CredTypes, Agents
  <2>2. Range(agentHas.keys) \subseteq KeysOf(agentHas.provider)
    BY <2>1, RangeIs DEF OwnKeys
  <2>3. ASSUME ~switchesMet, NoneUnderWay PROVE activeName = agentHas.provider
    BY <2>3 DEF CredInv, SwitchAlone, NoneUnderWay, Away
  <2> QED BY <2>2, <2>3 DEF AgentAgrees
<1>4. ASSUME clean, \A w \in CredWriters : ~CommandAt(w, "write")
      PROVE  /\ Listed = keptKeys
             /\ chosen.provider # NoVendor =>
                  credFile.active = chosen.provider /\ ActiveOf(credFile).model = chosen.model
  <2>1. /\ \A k : OfEntry(credFile.entries, k) <=> k \in keptKeys
        /\ Chosen(credFile, chosen.provider, chosen.model)
    BY <1>4 DEF CredInv, FileAgrees, CommandAt
  <2>2. Listed = keptKeys
    BY <1>1, <2>1, ListedMeans DEF Listed
  <2>3. ASSUME chosen.provider # NoVendor
        PROVE  credFile.active = chosen.provider /\ ActiveOf(credFile).model = chosen.model
    <3>1. PICK i \in 1 .. Len(credFile.entries) : /\ credFile.active = chosen.provider
                                                 /\ credFile.entries[i].name = chosen.provider
                                                 /\ credFile.entries[i].model = chosen.model
      BY <2>1, <2>3 DEF Chosen
    <3>2. Has(credFile, credFile.active) /\ Find(credFile, credFile.active) = credFile.entries[i]
      BY <1>1, <3>1, FindIs
    <3> QED BY <3>1, <3>2 DEF ActiveOf
  <2> QED BY <2>2, <2>3
<1>5. KeysKept
  BY <1>4 DEF KeysKept
<1> QED BY <1>2, <1>3, <1>5 DEF CredentialsSound

(* However the chats' commands, the wizard and the starts of the server    *)
(* interleave, for any number of chats, providers and keys: the file of    *)
(* credentials has one entry of a provider and the active one among them,  *)
(* while no two writers overlap and no write is cut exactly the keys saved *)
(* and not removed, and the agent uses only keys of its own provider.      *)
THEOREM CredentialsSoundHolds == CredSpec => []CredentialsSound
<1> QED BY CredStarts, CredKept, CredMeans, PTL DEF CredSpec

-----------------------------------------------------------------------------
(* Who may talk.  The list has an admin or nobody, whoever gives a command *)
(* or saves the list does so under the admin of now, and one who saves it  *)
(* alone saves what is in memory.                                          *)
Between(h) == handling[h] \in {"truncate", "write"}
AdminListed ==
  /\ admin = Nobody => allowed = {}
  /\ admin # Nobody => admin \in allowed
FileOfAdmin ==
  listFile # Unreadable => listFile.admin \in listFile.users /\ listFile.admin = admin
AdminActs == \A h \in Handlers :
  /\ handling[h] = "command" => sender[h] = admin
  /\ handling[h] \in {"command", "copy", "truncate", "write"} => admin # Nobody
  /\ Between(h) => copied[h].admin = admin /\ admin \in copied[h].users
SavedAlone == ~overlapped =>
  /\ \A h, g \in Saving : h = g
  /\ \A h \in Handlers : Between(h) => copied[h] = Entry(admin, allowed)
  /\ \A h \in Handlers : handling[h] = "write" => listFile = Unreadable
  /\ ~torn /\ Saving = {} => Loaded(listFile) = Entry(admin, allowed)
AllowlistInv == AllowlistTypeOK /\ AdminListed /\ FileOfAdmin /\ AdminActs /\ SavedAlone

(* What a start loads is a list with its admin on it, or an empty one.     *)
LEMMA LoadedIsAList ==
  ASSUME NEW f \in Lists, f # Unreadable => f.admin \in f.users
  PROVE  /\ Loaded(f) \in Lists
         /\ Loaded(f).admin = Nobody => Loaded(f).users = {}
         /\ Loaded(f).admin # Nobody => Loaded(f).admin \in Loaded(f).users
         /\ Loaded(f) = Entry(Loaded(f).admin, Loaded(f).users)
         /\ f # Unreadable => Loaded(f) = f
<1> USE AllowlistAssumption
<1>1. CASE f # Unreadable
  <2>1. f.users \in SUBSET Senders /\ f.admin # Nobody
    BY <1>1 DEF Lists
  <2>2. f = Entry(f.admin, f.users)
    BY DEF Lists, Entry
  <2> QED BY <1>1, <2>1, <2>2 DEF Loaded
<1>2. CASE f = Unreadable /\ Configured # <<>>
  <2>1. Configured[1] \in Senders /\ 1 \in DOMAIN Configured
    BY <1>2
  <2>2. {Configured[i] : i \in DOMAIN Configured} \subseteq Senders
    OBVIOUS
  <2>3. Loaded(f) = Entry(Configured[1], {Configured[i] : i \in DOMAIN Configured})
    BY <1>2 DEF Loaded
  <2> QED BY <1>2, <2>1, <2>2, <2>3 DEF Entry, Lists
<1>3. CASE f = Unreadable /\ Configured = <<>>
  BY <1>3 DEF Loaded, Unreadable, Entry, Lists
<1> QED BY <1>1, <1>2, <1>3

LEMMA UnreadableIsAList == Unreadable \in Lists
BY DEF Unreadable, Entry, Lists

LEMMA AllowlistStarts == AllowlistInit => AllowlistInv
<1> SUFFICES ASSUME AllowlistInit PROVE AllowlistInv
  OBVIOUS
<1>1. /\ listFile = Unreadable /\ allowed = Loaded(listFile).users /\ admin = Loaded(listFile).admin
      /\ handling = [h \in Handlers |-> "none"] /\ sender = [h \in Handlers |-> Nobody]
      /\ copied = [h \in Handlers |-> Unreadable] /\ after = [h \in Handlers |-> "none"]
      /\ commands = 0 /\ torn = FALSE /\ overlapped = FALSE
  BY DEF AllowlistInit
<1>2. /\ Loaded(listFile) \in Lists /\ AdminListed /\ Loaded(listFile) = Entry(admin, allowed)
  BY <1>1, LoadedIsAList, UnreadableIsAList DEF AdminListed
<1>3. allowed \subseteq Senders /\ admin \in Senders \cup {Nobody}
  BY <1>1, <1>2 DEF Lists
<1>4. AllowlistTypeOK
  BY <1>1, <1>3, UnreadableIsAList DEF AllowlistTypeOK
<1>5. FileOfAdmin /\ AdminActs
  BY <1>1 DEF FileOfAdmin, AdminActs, Between
<1>6. SavedAlone
  BY <1>1, <1>2 DEF SavedAlone, Saving, Between
<1> QED BY <1>2, <1>4, <1>5, <1>6 DEF AllowlistInv

(* One goes on that neither saves nor will give a command but the admin:   *)
(* list, admin and file stay.                                              *)
LEMMA GoesOnAllowed ==
  ASSUME AllowlistInv, NEW h \in Handlers, NEW goal \in {"none", "access", "command"},
         handling[h] \in {"none", "access", "command"}, To(h, goal),
         UNCHANGED <<allowed, admin, listFile, copied, after, commands, torn, overlapped>>,
         sender' \in [Handlers -> Senders \cup {Nobody}],
         \A g \in Handlers \ {h} : sender'[g] = sender[g],
         goal = "command" => sender'[h] = admin /\ admin # Nobody
  PROVE  AllowlistInv'
<1>1. handling' = [handling EXCEPT ![h] = goal]
  BY DEF To
<1>2. AllowlistTypeOK'
  BY <1>1 DEF AllowlistInv, AllowlistTypeOK
<1>3. Saving' = Saving
  BY <1>1 DEF AllowlistInv, AllowlistTypeOK, Saving
<1>4. AdminListed' /\ FileOfAdmin'
  BY DEF AllowlistInv, AdminListed, FileOfAdmin
<1>5. \A g \in Handlers \ {h} : handling'[g] = handling[g]
  BY <1>1 DEF AllowlistInv, AllowlistTypeOK
<1>6. handling'[h] = goal
  BY <1>1 DEF AllowlistInv, AllowlistTypeOK
<1>7. AdminActs'
  BY <1>5, <1>6 DEF AllowlistInv, AdminActs, Between
<1>8. SavedAlone'
  BY <1>3, <1>5, <1>6 DEF AllowlistInv, SavedAlone, Between
<1> QED BY <1>2, <1>4, <1>7, <1>8 DEF AllowlistInv

(* The list is changed, with the admin on it, and is going to be saved.    *)
LEMMA ChangeKept ==
  ASSUME AllowlistInv, NEW h \in Handlers, NEW goal \in {"none", "access"},
         handling[h] \in {"none", "command"}, SaveThen(h, goal),
         UNCHANGED <<listFile, copied, torn>>,
         sender' \in [Handlers -> Senders \cup {Nobody}],
         \A g \in Handlers \ {h} : sender'[g] = sender[g],
         allowed' \subseteq Senders, admin' \in Senders, admin' \in allowed',
         admin # Nobody => admin' = admin
  PROVE  AllowlistInv'
<1> USE AllowlistAssumption
<1>1. /\ handling' = [handling EXCEPT ![h] = "copy"] /\ after' = [after EXCEPT ![h] = goal]
      /\ commands' = commands + 1 /\ overlapped' = (overlapped \/ Saving # {})
  BY DEF SaveThen, To
<1>2. AllowlistTypeOK'
  <2>1. overlapped' \in BOOLEAN /\ torn' \in BOOLEAN
    BY Zenon, <1>1 DEF AllowlistInv, AllowlistTypeOK
  <2> QED BY <1>1, <2>1 DEF AllowlistInv, AllowlistTypeOK
<1>3. handling'[h] = "copy" /\ \A g \in Handlers \ {h} : handling'[g] = handling[g]
  BY <1>1 DEF AllowlistInv, AllowlistTypeOK
<1>4. Saving' = Saving \cup {h}
  BY <1>3 DEF Saving
<1>5. AdminListed' /\ FileOfAdmin'
  <2>1. listFile # Unreadable => admin # Nobody
    BY DEF AllowlistInv, AllowlistTypeOK, FileOfAdmin, Lists
  <2> QED BY <2>1 DEF AllowlistInv, AdminListed, FileOfAdmin, Unreadable
<1>6. AdminActs'
  <2>1. ASSUME NEW g \in Handlers, g # h PROVE
          /\ handling'[g] = "command" => sender'[g] = admin'
          /\ Between(g)' => copied'[g].admin = admin' /\ admin' \in copied'[g].users
    BY <1>3, <2>1 DEF AllowlistInv, AdminActs, Between
  <2>2. handling'[h] # "command" /\ ~Between(h)'
    BY <1>3 DEF Between
  <2> QED BY <2>1, <2>2 DEF AdminActs
<1>7. ~overlapped' => Saving' = {h}
  BY <1>1, <1>4
<1>8. \A g \in Handlers : Between(g)' \/ handling'[g] = "write" => g \in Saving'
  BY DEF Saving, Between
<1>9. ~Between(h)' /\ handling'[h] # "write"
  BY <1>3 DEF Between
<1>10. SavedAlone'
  BY <1>7, <1>8, <1>9 DEF SavedAlone
<1> QED BY <1>2, <1>5, <1>6, <1>10 DEF AllowlistInv

LEMMA MessageInKept ==
  ASSUME AllowlistInv, NEW h \in Handlers, NEW u \in Senders, MessageIn(h, u)
  PROVE  AllowlistInv'
<1>1. handling[h] = "none" /\ sender' = [sender EXCEPT ![h] = u] /\ UNCHANGED <<listFile, copied, torn>>
  BY DEF MessageIn, HandlingAt
<1>2. /\ sender' \in [Handlers -> Senders \cup {Nobody}]
      /\ \A g \in Handlers \ {h} : sender'[g] = sender[g]
  BY <1>1 DEF AllowlistInv, AllowlistTypeOK
<1>3. CASE allowed = {} /\ Bootstrap
  <2>1. allowed' = {u} /\ admin' = u /\ SaveThen(h, "access") /\ admin = Nobody
    BY <1>3 DEF MessageIn, AllowlistInv, AdminListed
  <2> QED BY <1>1, <1>2, <2>1, ChangeKept
<1>4. CASE ~(allowed = {} /\ Bootstrap)
  <2>1. To(h, "access") /\ UNCHANGED <<allowed, admin, after, commands, overlapped>>
    BY <1>4 DEF MessageIn
  <2> QED BY <1>1, <1>2, <2>1, GoesOnAllowed
<1> QED BY <1>3, <1>4

LEMMA LetGoAllowed ==
  ASSUME AllowlistInv, NEW h \in Handlers, LetGo(h)
  PROVE  /\ To(h, "none") /\ sender' \in [Handlers -> Senders \cup {Nobody}]
         /\ \A g \in Handlers \ {h} : sender'[g] = sender[g]
BY DEF LetGo, AllowlistInv, AllowlistTypeOK

LEMMA CheckedKept ==
  ASSUME AllowlistInv, NEW h \in Handlers, Reject(h) \/ Pass(h)
  PROVE  AllowlistInv'
<1>1. handling[h] = "access"
      /\ UNCHANGED <<allowed, admin, listFile, copied, after, commands, torn, overlapped>>
  BY DEF Reject, Pass, HandlingAt
<1>2. CASE LetGo(h)
  BY <1>1, <1>2, LetGoAllowed, GoesOnAllowed
<1>3. CASE sender[h] \in allowed /\ sender[h] = admin /\ To(h, "command") /\ UNCHANGED sender
  <2>1. admin # Nobody /\ sender' \in [Handlers -> Senders \cup {Nobody}]
    BY <1>3, AllowlistAssumption DEF AllowlistInv, AllowlistTypeOK
  <2> QED BY <1>1, <1>3, <2>1, GoesOnAllowed
<1> QED BY <1>2, <1>3 DEF Reject, Pass

LEMMA CommandKept ==
  ASSUME AllowlistInv, NEW h \in Handlers, NEW u \in Senders, Allow(h, u) \/ Revoke(h, u)
  PROVE  AllowlistInv'
<1>1. /\ handling[h] = "command" /\ UNCHANGED <<admin, listFile, copied, torn>>
  BY DEF Allow, Revoke, HandlingAt
<1>2. sender[h] = admin /\ admin # Nobody /\ admin \in allowed /\ admin \in Senders
  BY <1>1 DEF AllowlistInv, AdminActs, AdminListed, AllowlistTypeOK
<1>3. CASE LetGo(h) /\ UNCHANGED <<allowed, after, commands, overlapped>>
  BY <1>1, <1>3, LetGoAllowed, GoesOnAllowed
<1>4. CASE SaveThen(h, "none") /\ UNCHANGED sender /\ allowed' \subseteq Senders /\ admin \in allowed'
  <2>1. sender' \in [Handlers -> Senders \cup {Nobody}]
    BY <1>4 DEF AllowlistInv, AllowlistTypeOK
  <2> QED BY <1>1, <1>2, <1>4, <2>1, ChangeKept
<1>5. CASE Allow(h, u)
  <2>1. allowed' = allowed \cup {u} /\ allowed \subseteq Senders
    BY <1>5 DEF Allow, AllowlistInv, AllowlistTypeOK
  <2>2. CASE u \in allowed
    BY <1>3, <1>5, <2>1, <2>2 DEF Allow
  <2>3. CASE u \notin allowed
    BY <1>2, <1>4, <1>5, <2>1, <2>3 DEF Allow
  <2> QED BY <2>2, <2>3
<1>6. CASE Revoke(h, u)
  <2>1. allowed' = (IF u = sender[h] THEN allowed ELSE allowed \ {u}) /\ allowed \subseteq Senders
    BY <1>6 DEF Revoke, AllowlistInv, AllowlistTypeOK
  <2>2. CASE u \notin allowed \/ u = sender[h]
    <3>1. allowed' = allowed
      BY <2>1, <2>2
    <3> QED BY <1>3, <1>6, <3>1, <2>2 DEF Revoke
  <2>3. CASE ~(u \notin allowed \/ u = sender[h])
    BY <1>2, <1>4, <1>6, <2>1, <2>3 DEF Revoke
  <2> QED BY <2>2, <2>3
<1> QED BY <1>5, <1>6

LEMMA CopyKept ==
  ASSUME AllowlistInv, NEW h \in Handlers, CopyList(h)
  PROVE  AllowlistInv'
<1>1. /\ handling[h] = "copy" /\ copied' = [copied EXCEPT ![h] = Entry(admin, allowed)]
      /\ handling' = [handling EXCEPT ![h] = "truncate"]
      /\ UNCHANGED <<allowed, admin, listFile, sender, after, commands, torn, overlapped>>
  BY DEF CopyList, HandlingAt, To
<1>2. Entry(admin, allowed) \in Lists /\ admin # Nobody /\ admin \in allowed
  BY <1>1 DEF AllowlistInv, AllowlistTypeOK, AdminActs, AdminListed, Entry, Lists
<1>3. AllowlistTypeOK'
  BY <1>1, <1>2 DEF AllowlistInv, AllowlistTypeOK
<1>4. AdminListed' /\ FileOfAdmin'
  BY <1>1 DEF AllowlistInv, AdminListed, FileOfAdmin
<1>5. /\ handling'[h] = "truncate" /\ copied'[h] = Entry(admin, allowed)
      /\ \A g \in Handlers \ {h} : handling'[g] = handling[g] /\ copied'[g] = copied[g]
  BY <1>1 DEF AllowlistInv, AllowlistTypeOK
<1>6. Entry(admin, allowed).admin = admin /\ Entry(admin, allowed).users = allowed
  BY DEF Entry
<1>7. AdminActs'
  BY <1>1, <1>2, <1>5, <1>6 DEF AllowlistInv, AdminActs, Between
<1>8. Saving' = Saving
  BY <1>1, <1>5 DEF Saving
<1>9. SavedAlone'
  BY <1>1, <1>5, <1>8 DEF AllowlistInv, SavedAlone, Between, Entry
<1> QED BY <1>3, <1>4, <1>7, <1>9 DEF AllowlistInv

LEMMA TruncateKept ==
  ASSUME AllowlistInv, NEW h \in Handlers, Truncate(h)
  PROVE  AllowlistInv'
<1>1. /\ handling[h] = "truncate" /\ listFile' = Unreadable
      /\ handling' = [handling EXCEPT ![h] = "write"]
      /\ UNCHANGED <<allowed, admin, copied, sender, after, commands, torn, overlapped>>
  BY DEF Truncate, HandlingAt, To
<1>3. AllowlistTypeOK'
  BY <1>1, UnreadableIsAList DEF AllowlistInv, AllowlistTypeOK
<1>4. AdminListed' /\ FileOfAdmin'
  BY <1>1 DEF AllowlistInv, AdminListed, FileOfAdmin
<1>5. handling'[h] = "write" /\ \A g \in Handlers \ {h} : handling'[g] = handling[g]
  BY <1>1 DEF AllowlistInv, AllowlistTypeOK
<1>7. AdminActs'
  BY <1>1, <1>5 DEF AllowlistInv, AdminActs, Between
<1>8. Saving' = Saving /\ h \in Saving
  BY <1>1, <1>5 DEF Saving
<1>9. SavedAlone'
  BY <1>1, <1>5, <1>8 DEF AllowlistInv, SavedAlone, Between
<1> QED BY <1>3, <1>4, <1>7, <1>9 DEF AllowlistInv

(* The end of a save, good or not.                                         *)
LEMMA SaveEndsKept ==
  ASSUME AllowlistInv, NEW h \in Handlers, WriteList(h) \/ ListSaveFails(h)
  PROVE  AllowlistInv'
<1>1. /\ Between(h) /\ handling' = [handling EXCEPT ![h] = after[h]]
      /\ copied' = [copied EXCEPT ![h] = Unreadable] /\ after' = [after EXCEPT ![h] = "none"]
      /\ sender' = [sender EXCEPT ![h] = IF after[h] = "none" THEN Nobody ELSE @]
      /\ UNCHANGED <<allowed, admin, commands, overlapped>>
  BY DEF WriteList, ListSaveFails, ListSaved, HandlingAt, To, Between
<1>2. \/ /\ handling[h] = "write" /\ torn' = torn
         /\ listFile' \in {copied[h]} \cup (IF listFile = Unreadable THEN {} ELSE {Unreadable})
      \/ listFile' = listFile /\ torn' = TRUE
  BY DEF WriteList, ListSaveFails, HandlingAt
<1>3. listFile' \in {copied[h], Unreadable, listFile}
  BY <1>2
<1>4. /\ copied[h].admin = admin /\ admin \in copied[h].users /\ admin # Nobody /\ copied[h] \in Lists
      /\ after[h] \in {"none", "access"}
  BY <1>1 DEF AllowlistInv, AllowlistTypeOK, AdminActs, Between
<1>5. AllowlistTypeOK'
  <2>1. torn' \in BOOLEAN
    BY <1>2 DEF AllowlistInv, AllowlistTypeOK
  <2>2. sender' \in [Handlers -> Senders \cup {Nobody}]
    BY <1>1 DEF AllowlistInv, AllowlistTypeOK
  <2> QED BY <1>1, <1>3, <1>4, <2>1, <2>2, UnreadableIsAList DEF AllowlistInv, AllowlistTypeOK
<1>6. AdminListed' /\ FileOfAdmin'
  BY <1>1, <1>3, <1>4 DEF AllowlistInv, AdminListed, FileOfAdmin
<1>7. /\ handling'[h] = after[h]
      /\ \A g \in Handlers \ {h} : handling'[g] = handling[g] /\ copied'[g] = copied[g]
                                   /\ sender'[g] = sender[g]
  BY <1>1 DEF AllowlistInv, AllowlistTypeOK
<1>8. AdminActs'
  BY <1>1, <1>4, <1>7 DEF AllowlistInv, AdminActs, Between
<1>9. Saving' = Saving \ {h} /\ h \in Saving
  BY <1>1, <1>4, <1>7 DEF Saving, Between
<1>10. ASSUME ~overlapped PROVE Saving' = {}
  BY <1>9, <1>10 DEF AllowlistInv, SavedAlone
<1>11. ASSUME ~overlapped, ~torn' PROVE Loaded(listFile') = Entry(admin', allowed')
  <2>1. listFile = Unreadable /\ copied[h] = Entry(admin, allowed) /\ handling[h] = "write"
    BY <1>1, <1>2, <1>11 DEF AllowlistInv, SavedAlone
  <2>2. listFile' = copied[h]
    BY <1>2, <1>11, <2>1
  <2>3. copied[h] # Unreadable
    BY <1>4 DEF Unreadable, Entry
  <2> QED BY <1>1, <2>1, <2>2, <2>3 DEF Loaded
<1>12. \A g \in Handlers : g \notin Saving' => ~Between(g)' /\ handling'[g] # "write"
  BY DEF Saving, Between
<1>13. SavedAlone'
  BY <1>1, <1>10, <1>11, <1>12 DEF SavedAlone
<1> QED BY <1>5, <1>6, <1>8, <1>13 DEF AllowlistInv

LEMMA AllowlistRestartKept ==
  ASSUME AllowlistInv, Restart
  PROVE  AllowlistInv'
<1>1. /\ allowed' = Loaded(listFile).users /\ admin' = Loaded(listFile).admin
      /\ handling' = [h \in Handlers |-> "none"] /\ sender' = [h \in Handlers |-> Nobody]
      /\ copied' = [h \in Handlers |-> Unreadable] /\ after' = [h \in Handlers |-> "none"]
      /\ torn' = FALSE /\ overlapped' = FALSE /\ UNCHANGED <<listFile, commands>>
  BY DEF Restart
<1>2. listFile \in Lists /\ (listFile # Unreadable => listFile.admin \in listFile.users)
  BY DEF AllowlistInv, AllowlistTypeOK, FileOfAdmin
<1>3. /\ Loaded(listFile) \in Lists /\ AdminListed' /\ Loaded(listFile) = Entry(admin', allowed')
      /\ listFile # Unreadable => admin' = listFile.admin
  BY <1>1, <1>2, LoadedIsAList DEF AdminListed
<1>4. allowed' \subseteq Senders /\ admin' \in Senders \cup {Nobody}
  BY <1>1, <1>3 DEF Lists
<1>5. AllowlistTypeOK'
  BY <1>1, <1>4, UnreadableIsAList DEF AllowlistInv, AllowlistTypeOK
<1>6. FileOfAdmin' /\ AdminActs'
  BY <1>1, <1>2, <1>3 DEF FileOfAdmin, AdminActs, Between
<1>7. Saving' = {} /\ \A h \in Handlers : handling'[h] = "none"
  BY <1>1 DEF Saving
<1>8. Loaded(listFile)' = Entry(admin, allowed)'
  BY <1>1, <1>3 DEF Loaded, Entry
<1>9. SavedAlone'
  BY <1>7, <1>8 DEF SavedAlone, Between
<1> QED BY <1>3, <1>5, <1>6, <1>9 DEF AllowlistInv

LEMMA AllowlistKeptInv == AllowlistInv /\ [AllowlistNext]_allowlistVars => AllowlistInv'
<1> SUFFICES ASSUME AllowlistInv, [AllowlistNext]_allowlistVars PROVE AllowlistInv'
  OBVIOUS
<1>1. CASE UNCHANGED allowlistVars
  <2>1. Saving' = Saving
    BY <1>1 DEF allowlistVars, Saving
  <2> QED BY <1>1, <2>1 DEF allowlistVars, AllowlistInv, AllowlistTypeOK, AdminListed, FileOfAdmin,
                            AdminActs, SavedAlone, Between, Loaded
<1>2. ASSUME NEW h \in Handlers, NEW u \in Senders, MessageIn(h, u) \/ Allow(h, u) \/ Revoke(h, u)
      PROVE  AllowlistInv'
  BY <1>2, MessageInKept, CommandKept
<1>3. ASSUME NEW h \in Handlers, Reject(h) \/ Pass(h) PROVE AllowlistInv'
  BY <1>3, CheckedKept
<1>4. ASSUME NEW h \in Handlers, CopyList(h) \/ Truncate(h) PROVE AllowlistInv'
  BY <1>4, CopyKept, TruncateKept
<1>5. ASSUME NEW h \in Handlers, WriteList(h) \/ ListSaveFails(h) PROVE AllowlistInv'
  BY <1>5, SaveEndsKept
<1>6. CASE Restart
  BY <1>6, AllowlistRestartKept
<1> QED BY <1>1, <1>2, <1>3, <1>4, <1>5, <1>6 DEF AllowlistNext

(* For any number of messages in hand: the admin stays on the list, in     *)
(* memory and in the file, whatever saves fail or meet and whenever the    *)
(* process stops; and if none failed or met, a start loads what memory has.*)
THEOREM AllowlistKeptHolds == AllowlistSpec => []AllowlistKept
<1>1. AllowlistInv => AllowlistKept
  BY DEF AllowlistInv, AdminListed, FileOfAdmin, SavedAlone, AllowlistKept, AdminStays, ListIsSaved
<1> QED BY <1>1, AllowlistStarts, AllowlistKeptInv, PTL DEF AllowlistSpec

(* The types of the memory, for any number of tasks.                       *)
LEMMA FailoverTypesKept == FailoverTypeOK /\ [FailoverNext]_failoverVars => FailoverTypeOK'
<1> SUFFICES ASSUME FailoverTypeOK, [FailoverNext]_failoverVars PROVE FailoverTypeOK'
  OBVIOUS
<1> DEFINE Entries == [Keys -> 0 .. MaxStores]
           Cells == /\ primary \in Entries /\ cache \in Entries
                    /\ failures \in 0 .. Threshold /\ tried \in BOOLEAN
           Copies == toSync \in [Users -> Entries] /\ syncOk \in [Users -> BOOLEAN]
           Answered == op \in [Users -> Ops] /\ acked \in Entries /\ deleted \subseteq Keys
           Counted1 == stores \in 0 .. MaxStores
<1>1. MaxStores \in Nat /\ Threshold \in Nat /\ Threshold > 0
  BY FailoverAssumption
<1>2. Cells /\ Copies /\ Answered /\ Counted1
  BY DEF FailoverTypeOK
<1>3. ASSUME Cells', Copies', Answered', Counted1' PROVE FailoverTypeOK'
  BY <1>3 DEF FailoverTypeOK
<1>4. NoEntries \in Entries
  BY <1>1 DEF NoEntries
<1>5. ASSUME NEW u \in Users PROVE op[u].key \in Keys /\ op[u].value \in 0 .. MaxStores
  BY <1>2 DEF Ops
<1>6. ASSUME NEW u \in Users,
             NEW goal \in {"idle", "call", "failed", "probe", "snapshot", "sync", "clear", "done"},
             Then(u, goal)
      PROVE  op' \in [Users -> Ops]
  <2>1. [op[u] EXCEPT !.at = goal] \in Ops
    BY <1>2 DEF Ops
  <2>2. op' = [op EXCEPT ![u] = [op[u] EXCEPT !.at = goal]]
    BY <1>6, Zenon DEF Then
  <2> QED BY <1>2, <2>1, <2>2
<1>7. ASSUME NEW u \in Users, Answer(u) PROVE Answered'
  <2>1. op' = [op EXCEPT ![u] = Idle] /\ deleted' = deleted
    BY <1>7 DEF Answer
  <2>2. \/ acked' = [acked EXCEPT ![op[u].key] = op[u].value]
        \/ acked' = [acked EXCEPT ![op[u].key] = 0] \/ acked' = acked
    BY <1>7, Zenon DEF Answer
  <2>3. acked' \in Entries
    BY <1>1, <1>2, <1>5, <2>2
  <2> QED BY <1>2, <2>1, <2>3, IdleIsAnOp
<1>8. ASSUME NEW u \in Users, NEW kind \in {"store", "get", "delete", "list"}, NEW k \in Keys,
             NEW v \in 0 .. MaxStores, Begin(u, kind, k, v)
      PROVE  op' \in [Users -> Ops]
  <2>1. [kind |-> kind, at |-> "call", key |-> k, value |-> v] \in Ops
    BY DEF Ops
  <2> QED BY <1>2, <1>8, <2>1 DEF Begin
<1>9. 0 \in 0 .. MaxStores /\ 0 \in 0 .. Threshold /\ 1 \in 0 .. Threshold
  BY <1>1
<1> HIDE DEF Entries
<1>10. ASSUME NEW e \in Entries, NEW k \in Keys, NEW v \in 0 .. MaxStores PROVE [e EXCEPT ![k] = v] \in Entries
  BY DEF Entries
<1>11. ASSUME NEW u \in Users, NEW k \in Keys, BeginStore(u, k) PROVE FailoverTypeOK'
  <2>1. stores + 1 \in 0 .. MaxStores
    BY <1>1, <1>2, <1>11 DEF BeginStore
  <2>2. op' \in [Users -> Ops]
    BY <1>8, <1>11, <2>1 DEF BeginStore
  <2>3. cache' \in Entries
    BY <1>2, <1>10, <1>11, <2>1 DEF BeginStore
  <2> QED BY <1>2, <1>3, <1>11, <2>1, <2>2, <2>3 DEF BeginStore
<1>12. ASSUME NEW u \in Users, NEW k \in Keys, BeginGet(u, k) PROVE FailoverTypeOK'
  <2>1. op' \in [Users -> Ops]
    BY <1>8, <1>9, <1>12 DEF BeginGet
  <2> QED BY <1>2, <1>3, <1>12, <2>1 DEF BeginGet, cellVars
<1>13. ASSUME NEW u \in Users, NEW k \in Keys, BeginDelete(u, k) PROVE FailoverTypeOK'
  <2>1. op' \in [Users -> Ops]
    BY <1>8, <1>9, <1>13 DEF BeginDelete
  <2>2. cache' \in Entries
    BY <1>2, <1>9, <1>10, <1>13 DEF BeginDelete
  <2> QED BY <1>2, <1>3, <1>13, <2>1, <2>2 DEF BeginDelete
<1>14. ASSUME NEW u \in Users, BeginList(u) PROVE FailoverTypeOK'
  <2>1. (CHOOSE k \in Keys : TRUE) \in Keys
    BY FailoverAssumption
  <2>2. op' \in [Users -> Ops]
    BY <1>8, <1>9, <1>14, <2>1 DEF BeginList
  <2> QED BY <1>2, <1>3, <1>14, <2>2 DEF BeginList, cellVars
<1>15. ASSUME NEW u \in Users, CallSucceeds(u) PROVE FailoverTypeOK'
  <2>1. op' \in [Users -> Ops]
    BY <1>6, <1>15 DEF CallSucceeds
  <2>2. \/ primary' = [primary EXCEPT ![op[u].key] = op[u].value]
        \/ primary' = [primary EXCEPT ![op[u].key] = 0] \/ primary' = primary
    BY <1>15, Zenon DEF CallSucceeds, Applied
  <2>3. primary' \in Entries
    BY <1>2, <1>5, <1>9, <1>10, <2>2
  <2> QED BY <1>2, <1>3, <1>15, <2>1, <2>3 DEF CallSucceeds
<1>16. ASSUME NEW u \in Users, CallFails(u) PROVE FailoverTypeOK'
  <2>1. op' \in [Users -> Ops]
    BY <1>6, <1>16 DEF CallFails
  <2> QED BY <1>2, <1>3, <1>16, <2>1 DEF CallFails, cellVars
<1>17. ASSUME NEW u \in Users, RecordSuccess(u) PROVE FailoverTypeOK'
  <2>1. tried' \in BOOLEAN
    <3>1. tried' = FALSE \/ tried' = tried
      BY <1>17, Zenon DEF RecordSuccess
    <3>2. tried \in BOOLEAN
      BY <1>2
    <3> QED BY <3>1, <3>2, Zenon
  <2>2. Answered'
    BY <1>7, <1>17 DEF RecordSuccess
  <2> QED BY <1>2, <1>3, <1>9, <1>17, <2>1, <2>2 DEF RecordSuccess
<1>18. ASSUME NEW u \in Users, RecordFailure(u) PROVE FailoverTypeOK'
  <2>1. failures' \in 0 .. Threshold
    BY <1>1, <1>2, <1>18 DEF RecordFailure
  <2>2. (Then(u, "probe") /\ UNCHANGED <<deleted, acked>>) \/ Answer(u)
    BY <1>18 DEF RecordFailure
  <2>3. Answered'
    BY <1>2, <1>6, <1>7, <2>2
  <2> QED BY <1>2, <1>3, <1>18, <2>1, <2>3 DEF RecordFailure
<1>19. ASSUME NEW u \in Users, ProbeFails(u) PROVE FailoverTypeOK'
  <2>1. failures' \in 0 .. Threshold
    BY <1>2, <1>9, <1>19 DEF ProbeFails
  <2>2. Answered'
    BY <1>7, <1>19 DEF ProbeFails
  <2> QED BY <1>2, <1>3, <1>19, <2>1, <2>2 DEF ProbeFails
<1>20. ASSUME NEW u \in Users, ProbeSucceeds(u) PROVE FailoverTypeOK'
  <2>1. op' \in [Users -> Ops]
    BY <1>6, <1>20 DEF ProbeSucceeds
  <2> QED BY <1>2, <1>3, <1>20, <2>1 DEF ProbeSucceeds, cellVars
<1>21. ASSUME NEW u \in Users, Snapshot(u) PROVE FailoverTypeOK'
  <2>1. Then(u, "clear") \/ Then(u, "sync")
    BY <1>21 DEF Snapshot
  <2>2. op' \in [Users -> Ops]
    BY <1>6, <2>1
  <2>3. Copies'
    BY <1>2, <1>21 DEF Snapshot
  <2> QED BY <1>2, <1>3, <1>21, <2>2, <2>3 DEF Snapshot, cellVars
<1>22. ASSUME NEW u \in Users, NEW k \in Keys, SyncOne(u, k) PROVE FailoverTypeOK'
  <2>1. toSync[u] \in Entries /\ toSync[u][k] \in 0 .. MaxStores
    BY <1>2 DEF Entries
  <2>2. PICK e : e = [toSync[u] EXCEPT ![k] = 0]
    OBVIOUS
  <2>3. e \in Entries
    BY <1>9, <1>10, <2>1, <2>2
  <2>4. toSync' = [toSync EXCEPT ![u] = e]
    BY <1>22, <2>2, Zenon DEF SyncOne
  <2>5. primary' = primary \/ primary' = [primary EXCEPT ![k] = toSync[u][k]]
    BY <1>22 DEF SyncOne
  <2>6. primary' \in Entries
    BY <1>2, <1>10, <2>1, <2>5
  <2>7. syncOk' = syncOk \/ syncOk' = [syncOk EXCEPT ![u] = FALSE]
    BY <1>22 DEF SyncOne
  <2>8. Copies'
    BY <1>2, <2>3, <2>4, <2>7
  <2> QED BY <1>2, <1>3, <1>22, <2>6, <2>8 DEF SyncOne
<1>23. ASSUME NEW u \in Users, SyncDone(u) PROVE FailoverTypeOK'
  <2>1. \/ cache' = NoEntries /\ Then(u, "clear") /\ UNCHANGED <<deleted, acked>>
        \/ Answer(u) /\ UNCHANGED cache
    BY <1>23 DEF SyncDone
  <2>2. Answered' /\ cache' \in Entries
    BY <1>2, <1>4, <1>6, <1>7, <2>1
  <2> QED BY <1>2, <1>3, <1>23, <2>2 DEF SyncDone
<1>24. ASSUME NEW u \in Users, Repaired(u) PROVE FailoverTypeOK'
  <2>1. Answered'
    BY <1>7, <1>24 DEF Repaired
  <2> QED BY <1>2, <1>3, <1>9, <1>24, <2>1 DEF Repaired
<1>25. CASE UNCHANGED failoverVars
  BY <1>2, <1>3, <1>25 DEF failoverVars
<1> QED BY <1>11, <1>12, <1>13, <1>14, <1>15, <1>16, <1>17, <1>18, <1>19, <1>20, <1>21, <1>22, <1>23,
           <1>24, <1>25 DEF FailoverNext

LEMMA FailoverTyped == FailoverSpec => []FailoverTypeOK
<1>1. FailoverInit => FailoverTypeOK
  BY FailoverStarts DEF FailoverInv
<1> QED BY <1>1, FailoverTypesKept, PTL DEF FailoverSpec

-----------------------------------------------------------------------------
(* Every variable of the stores keeps its type.                            *)
LEMMA OauthTyped == OauthSpec => []OauthTypeOK
<1>1. OauthInv => OauthTypeOK
  BY DEF OauthInv
<1> QED BY <1>1, OauthStarts, OauthKept, PTL DEF OauthSpec

LEMMA MarkdownTyped == MarkdownSpec => []MarkdownTypeOK
<1>1. MarkdownInv => MarkdownTypeOK
  BY DEF MarkdownInv
<1> QED BY <1>1, MarkdownStarts, MarkdownKept, PTL DEF MarkdownSpec

LEMMA AllowlistTyped == AllowlistSpec => []AllowlistTypeOK
<1>1. AllowlistInv => AllowlistTypeOK
  BY DEF AllowlistInv
<1> QED BY <1>1, AllowlistStarts, AllowlistKeptInv, PTL DEF AllowlistSpec

LEMMA IdentityTyped == IdentityInit /\ [][IdentityNext]_identityVars => []IdentityTypeOK
<1>1. IdentityInv => IdentityTypeOK
  <2> SUFFICES ASSUME IdentityInv PROVE IdentityTypeOK
    OBVIOUS
  <2>1. IdentityTypes
    BY DEF IdentityInv
  <2>2. \A c \in IdCalls : idCall[c].step \in {"idle", "exchange", "refresh", "answered"}
                           /\ idCall[c].account \in Accounts \cup {NoAccount}
    BY <2>1 DEF IdentityTypes, IdRecords, IdSteps
  <2> QED BY <2>1, <2>2 DEF IdentityTypes, IdentityTypeOK
<1> QED BY <1>1, IdentityStarts, IdentityKept, PTL

LEMMA SessionsTyped == SessionsSpec => []SessionsTypeOK
<1>1. SessionsInv => SessionsTypeOK
  BY DEF SessionsInv, SessionsTypes, SessionsTypeOK
<1> QED BY <1>1, SessionsStart, SessionsStep, PTL DEF SessionsSpec

(* The rest of what the credentials keep.                                  *)
CredMore ==
  /\ activeName \in Vendors \cup {NoVendor}
  /\ commandsRun \in 0 .. MaxCommandsRun /\ boots \in 0 .. MaxBoots
  /\ boot = [at |-> boot.at, got |-> boot.got]
  /\ keptKeys \subseteq AllKeys
  /\ chosen \in [provider : Vendors \cup {NoVendor}, model : {0} \cup ModelIds]

LEMMA CredMoreKept == CredInv /\ CredMore /\ [CredNext]_credVars => CredMore'
<1> SUFFICES ASSUME CredInv, CredMore, [CredNext]_credVars PROVE CredMore'
  OBVIOUS
<1> DEFINE VendorNames == Vendors \cup {NoVendor}
           Selections == [provider : VendorNames, model : {0} \cup ModelIds]
           Counts == commandsRun \in 0 .. MaxCommandsRun /\ boots \in 0 .. MaxBoots
           OfFile == keptKeys \subseteq AllKeys /\ chosen \in Selections
           Booting == boot = [at |-> boot.at, got |-> boot.got]
           Named == activeName \in VendorNames
<1>1. Named /\ Booting /\ Counts /\ OfFile
  BY DEF CredMore
<1>2. ASSUME Named', Booting', Counts', OfFile' PROVE CredMore'
  BY <1>2 DEF CredMore, AllKeys, ModelIds, KeysOf
<1>3. ASSUME UNCHANGED <<activeName, boot, commandsRun, boots, keptKeys, chosen>> PROVE CredMore'
  BY <1>1, <1>2, <1>3 DEF AllKeys, ModelIds, KeysOf
<1>4. boot.got \in Agents /\ agentHas \in Agents
  BY DEF CredInv, CredTypes
<1>5. ASSUME NEW w \in CredWriters PROVE credCmd[w].want \in Agents /\ CommandRight(w, credCmd[w])
  BY DEF CredInv, CredTypes, CommandRecords
<1>6. ASSUME NEW a \in Agents PROVE a.provider \in VendorNames /\ a.model \in {0} \cup ModelIds /\ a.keys \in Seq(AllKeys)
  BY DEF Agents
<1>7. MaxCommandsRun \in Nat /\ MaxBoots \in Nat
  BY CredentialsAssumption
<1>8. CASE BootRead
  <2>1. Booting'
    <3>1. CASE credFile.entries = <<>>
      BY <1>8, <3>1 DEF BootRead
    <3>2. CASE credFile.entries # <<>>
      <4>1. PICK g : boot' = [at |-> "keys", got |-> g]
        BY <1>8, <3>2 DEF BootRead
      <4> QED BY <4>1
    <3> QED BY <3>1, <3>2
  <2> QED BY <1>1, <1>2, <1>8, <2>1 DEF BootRead, AllKeys, ModelIds, KeysOf
<1>9. CASE BootAgent
  <2>1. Named'
    BY <1>1, <1>4, <1>6, <1>9 DEF BootAgent
  <2>2. Booting'
    BY <1>9 DEF BootAgent
  <2> QED BY <1>1, <1>2, <1>9, <2>1, <2>2 DEF BootAgent, AllKeys, ModelIds, KeysOf
<1>10. CASE Reboot
  <2>1. Counts'
    BY <1>1, <1>7, <1>10 DEF Reboot
  <2>2. Booting'
    BY <1>10 DEF Reboot
  <2> QED BY <1>1, <1>2, <1>10, <2>1, <2>2 DEF Reboot, AllKeys, ModelIds, KeysOf
<1>11. ASSUME NEW w, BeginsCmd(w), UNCHANGED <<activeName, boot, boots, keptKeys, chosen>> PROVE CredMore'
  <2>1. Counts'
    BY <1>1, <1>7, <1>11 DEF BeginsCmd
  <2> QED BY <1>1, <1>2, <1>11, <2>1 DEF AllKeys, ModelIds, KeysOf
<1>12. ASSUME NEW p \in Vendors, NEW k \in KeysOf(p), WizardSaves(p, k) PROVE CredMore'
  BY <1>11, <1>12 DEF WizardSaves
<1>13. ASSUME NEW w \in CredChats, NEW p \in Vendors, RemoveKey(w, p) PROVE CredMore'
  BY <1>11, <1>13 DEF RemoveKey
<1>14. ASSUME NEW w \in CredChats, NEW p \in Vendors, NEW m \in ModelIds, NEW persist \in BOOLEAN,
              Switch(w, p, m, persist)
       PROVE  CredMore'
  <2>1. activeName' = activeName
    BY <1>14 DEF Switch, NameLater
  <2> QED BY <1>11, <1>14, <2>1 DEF Switch
<1>15. ASSUME NEW w \in CredChats, BuildFails(w) \/ SetAgent(w) \/ Persist(w) PROVE CredMore'
  BY <1>3, <1>15 DEF BuildFails, SetAgent, Persist
<1>16. ASSUME NEW w \in CredChats, SetName(w) PROVE CredMore'
  <2>1. Named'
    BY <1>5, <1>6, <1>16 DEF SetName, CredWriters
  <2> QED BY <1>1, <1>2, <1>16, <2>1 DEF SetName, AllKeys, ModelIds, KeysOf
<1>17. ASSUME NEW w \in CredWriters, EmptyFile(w) \/ WriteCut(w) PROVE CredMore'
  BY <1>3, <1>17 DEF EmptyFile, WriteCut
<1>18. ASSUME NEW w \in CredWriters, WriteCopy(w) PROVE CredMore'
  <2>1. PICK a : a = credCmd[w].want
    OBVIOUS
  <2>2. a \in Agents /\ CommandRight(w, credCmd[w])
    BY <1>5, <2>1
  <2>3. credCmd[w].op \in {"remove", "save", "switch"}
    BY <1>18, <2>2 DEF WriteCopy, CommandAt, CommandRight, CommandRecords
  <2>4. [provider |-> a.provider, model |-> a.model] \in Selections
    BY <1>6, <2>2
  <2>5. [provider |-> NoVendor, model |-> 0] \in Selections
    OBVIOUS
  <2>6. Range(a.keys) \subseteq AllKeys
    BY <1>6, <2>2 DEF Range
  <2>7. /\ \/ keptKeys' = keptKeys \ KeysOf(a.provider)
           \/ keptKeys' = keptKeys \cup Range(a.keys) \/ keptKeys' = keptKeys
        /\ \/ chosen' = [provider |-> a.provider, model |-> a.model]
           \/ chosen' = [provider |-> NoVendor, model |-> 0] \/ chosen' = chosen
    BY <1>18, <2>1, <2>3 DEF WriteCopy
  <2>8. keptKeys' \subseteq AllKeys
    BY <1>1, <2>6, <2>7
  <2>9. OfFile'
    BY <1>1, <2>4, <2>5, <2>7, <2>8 DEF AllKeys, ModelIds, KeysOf
  <2> QED BY <1>1, <1>2, <1>18, <2>9 DEF WriteCopy
<1>19. CASE UNCHANGED credVars
  BY <1>3, <1>19 DEF credVars
<1> QED BY <1>8, <1>9, <1>10, <1>12, <1>13, <1>14, <1>15, <1>16, <1>17, <1>18, <1>19 DEF CredNext

LEMMA CredTyped == CredSpec => []CredTypeOK
<1>1. CredInit => CredMore
  <2> SUFFICES ASSUME CredInit PROVE CredMore
    OBVIOUS
  <2>1. /\ activeName = NoVendor /\ commandsRun = 0 /\ boots = 1 /\ keptKeys = {FirstKey}
        /\ boot = [at |-> boot.at, got |-> boot.got] /\ chosen = [provider |-> FirstVendor, model |-> 1]
    BY DEF CredInit
  <2>2. MaxCommandsRun \in Nat /\ MaxBoots \in Nat \ {0} /\ FirstVendor \in Vendors /\ MaxKeys \in Nat \ {0}
    BY CredentialsAssumption
  <2>3. FirstKey \in AllKeys
    BY <2>2 DEF FirstKey, AllKeys, KeysOf
  <2>4. chosen \in [provider : Vendors \cup {NoVendor}, model : {0} \cup ModelIds]
    BY <2>1, <2>2 DEF ModelIds
  <2> QED BY <2>1, <2>2, <2>3, <2>4 DEF CredMore
<1>2. CredInv /\ CredMore => CredTypeOK
  <2> SUFFICES ASSUME CredInv, CredMore PROVE CredTypeOK
    OBVIOUS
  <2>1. credFile \in Creds
    BY DEF CredInv, CredTypes, GoodFile
  <2>2. boot \in [at : {"read", "keys", "up"}, got : Agents]
    <3>1. boot = [at |-> boot.at, got |-> boot.got]
      BY DEF CredMore
    <3>2. boot.at \in {"read", "keys", "up"} /\ boot.got \in Agents
      BY DEF CredInv, CredTypes
    <3> QED BY <3>1, <3>2
  <2>3. credCmd \in [CredWriters -> CommandRecords] /\ agentHas \in Agents
        /\ clean \in BOOLEAN /\ switchesMet \in BOOLEAN
    BY DEF CredInv, CredTypes
  <2> QED BY <2>1, <2>2, <2>3 DEF CredMore, CredTypeOK, CommandRecords
<1> QED BY <1>1, <1>2, CredStarts, CredKept, CredMoreKept, PTL DEF CredSpec

=============================================================================

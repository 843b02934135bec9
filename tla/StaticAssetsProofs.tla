-------------------------- MODULE StaticAssetsProofs --------------------------
(***************************************************************************)
(* That a page has files of one build, for any files, builds and order of  *)
(* deployments.  The theorems rest on what NewAssetVersion hashes: builds  *)
(* that differ give it different bytes.                                    *)
(***************************************************************************)
EXTENDS StaticAssets, SequenceTheorems, WellFoundedInduction, NaturalsInduction, TLAPS

-----------------------------------------------------------------------------
(* Sequences of bytes *)

\* A set of numbers has a least one, which takes the place of an induction.
LEMMA LeastNatural ==
    ASSUME NEW S, S \subseteq Nat, S # {}
    PROVE  \E m \in S : \A k \in S : m =< k
<1>1. PICK m \in S : \A k \in S : ~(<<k, m>> \in OpToRel(<, Nat))
  BY NatLessThanWellFounded, WFMin
<1>2. ASSUME NEW k \in S PROVE ~(k < m)
  <2>1. <<k, m>> \in Nat \X Nat
    OBVIOUS
  <2>2. <<k, m>> \notin OpToRel(<, Nat)
    BY <1>1
  <2> QED
    BY <2>1, <2>2 DEF OpToRel
<1>3. \A k \in S : m =< k
  <2> SUFFICES ASSUME NEW k \in S PROVE m =< k
    OBVIOUS
  <2> QED
    BY <1>2
<1> QED
  BY <1>3

\* Induction: a set of numbers that has the first of a range, and with each the
\* next one, has the whole range.
LEMMA Induction ==
    ASSUME NEW m \in Nat, NEW n \in Nat, NEW G,
           m \in G, \A k \in m..(n - 1) : k \in G => k + 1 \in G
    PROVE  \A k \in m..n : k \in G
<1> DEFINE Bad == {k \in m..n : k \notin G}
<1> SUFFICES ASSUME Bad # {} PROVE FALSE
  OBVIOUS
<1>1. Bad \subseteq Nat
  OBVIOUS
<1>2. \E k \in Bad : \A j \in Bad : k =< j
  <2> HIDE DEF Bad
  <2> QED
    BY <1>1, LeastNatural
<1>3. PICK k \in Bad : \A j \in Bad : k =< j
  BY <1>2
<1>4. k \in m..n /\ k \notin G /\ k # m
  OBVIOUS
<1>5. k - 1 \in m..(n - 1) /\ k - 1 \in m..n
  BY <1>4
<1>6. k - 1 \in G
  BY <1>3, <1>5
<1>7. (k - 1) + 1 \in G
  BY <1>5, <1>6
<1> QED
  BY <1>4, <1>7

\* The two parts of a concatenation.
LEMMA ConcatOK ==
    ASSUME NEW a \in Seq(Nat), NEW b \in Seq(Nat)
    PROVE  /\ a \o b \in Seq(Nat) /\ Len(a \o b) = Len(a) + Len(b)
           /\ \A k \in 1..Len(a) : (a \o b)[k] = a[k]
           /\ \A k \in 1..Len(b) : (a \o b)[Len(a) + k] = b[k]
OBVIOUS

\* What FlattenSeq has put together, part by part.
IsFlattening(g, s, n) ==
    g = [i \in 1..n |-> IF i = 1 THEN s[i] ELSE g[i - 1] \o s[i]]

\* There is a function that satisfies the recursion of FlattenSeq.
LEMMA FlatteningExists ==
    ASSUME NEW s, NEW n \in Nat
    PROVE  \E g : IsFlattening(g, s, n)
<1> DEFINE G == {k \in Nat : \E g : IsFlattening(g, s, k)}
<1>1. 0 \in G
  <2>1. IsFlattening([i \in 1..0 |-> s[i]], s, 0)
    BY DEF IsFlattening
  <2> QED
    BY <2>1
<1>2. ASSUME NEW k \in 0..(n - 1), k \in G PROVE k + 1 \in G
  <2>1. PICK g : IsFlattening(g, s, k)
    BY <1>2
  <2> DEFINE h == [i \in 1..(k + 1) |-> IF i = 1 THEN s[i] ELSE g[i - 1] \o s[i]]
  <2>2. ASSUME NEW i \in 1..k PROVE h[i] = g[i]
    <3>1. g[i] = IF i = 1 THEN s[i] ELSE g[i - 1] \o s[i]
      BY <2>1 DEF IsFlattening
    <3>2. i \in 1..(k + 1)
      OBVIOUS
    <3> QED
      BY <3>1, <3>2
  <2>3. h = [i \in 1..(k + 1) |-> IF i = 1 THEN s[i] ELSE h[i - 1] \o s[i]]
    <3>1. ASSUME NEW i \in 1..(k + 1), i # 1 PROVE g[i - 1] = h[i - 1]
      <4>1. i - 1 \in 1..k
        BY <3>1
      <4> QED
        BY <2>2, <4>1
    <3> QED
      BY <3>1
  <2>4. IsFlattening(h, s, k + 1)
    BY <2>3 DEF IsFlattening
  <2> QED
    BY <2>4
<1>3. n \in G
  <2> HIDE DEF G
  <2>1. \A k \in 0..n : k \in G
    BY <1>1, <1>2, Induction
  <2> QED
    BY <2>1
<1> QED
  BY <1>3

\* FlattenSeq is the last value of this function.
LEMMA FlattenSeqOK ==
    ASSUME NEW s, Len(s) \in Nat \ {0}
    PROVE  \E g : IsFlattening(g, s, Len(s)) /\ FlattenSeq(s) = g[Len(s)]
<1> DEFINE n == Len(s)
           g == CHOOSE f : f = [i \in 1..n |-> IF i = 1 THEN s[i] ELSE f[i - 1] \o s[i]]
<1>1. \E f : f = [i \in 1..n |-> IF i = 1 THEN s[i] ELSE f[i - 1] \o s[i]]
  BY FlatteningExists DEF IsFlattening
<1>2. g = [i \in 1..n |-> IF i = 1 THEN s[i] ELSE g[i - 1] \o s[i]]
  BY <1>1
<1>3. FlattenSeq(s) = g[n]
  BY DEF FlattenSeq
<1> HIDE DEF g
<1> QED
  BY <1>2, <1>3 DEF IsFlattening

\* The parts before a place, and what follows them: nothing that was put
\* together is changed later.
Before(g, i) == IF i = 1 THEN <<>> ELSE g[i - 1]

\* Each part is appended to the ones before it, and all are bytes.
LEMMA FlatteningType ==
    ASSUME NEW s \in Seq(Seq(Nat)), NEW g, IsFlattening(g, s, Len(s)), NEW i \in 1..Len(s)
    PROVE  /\ g[i] = Before(g, i) \o s[i]
           /\ g[i] \in Seq(Nat) /\ Before(g, i) \in Seq(Nat) /\ s[i] \in Seq(Nat)
<1> DEFINE G == {k \in Nat : g[k] \in Seq(Nat)}
<1>1. \A k \in 1..Len(s) : s[k] \in Seq(Nat)
  BY ElementOfSeq
<1>2. \A k \in 1..Len(s) : g[k] = IF k = 1 THEN s[k] ELSE g[k - 1] \o s[k]
  BY DEF IsFlattening
<1>3. \A k \in 1..Len(s) : k \in G
  <2>1. Len(s) \in Nat /\ 1 \in 1..Len(s)
    OBVIOUS
  <2>2. 1 \in G
    BY <1>1, <1>2, <2>1
  <2>3. ASSUME NEW k \in 1..(Len(s) - 1), k \in G PROVE k + 1 \in G
    <3>1. k + 1 \in 1..Len(s) /\ k + 1 # 1 /\ (k + 1) - 1 = k
      BY <2>1
    <3>2. g[k + 1] = g[k] \o s[k + 1]
      BY <1>2, <3>1
    <3>3. g[k] \in Seq(Nat) /\ s[k + 1] \in Seq(Nat)
      BY <1>1, <2>3, <3>1
    <3>4. g[k] \o s[k + 1] \in Seq(Nat)
      BY <3>3, ConcatProperties, Zenon
    <3>5. g[k + 1] \in Seq(Nat)
      BY <3>2, <3>4, Zenon
    <3>6. k + 1 \in Nat
      BY <3>1
    <3> QED
      BY <3>5, <3>6, Zenon
  <2> HIDE DEF G
  <2> QED
    BY <2>1, <2>2, <2>3, Induction
<1>4. Before(g, i) \in Seq(Nat)
  <2>1. CASE i = 1
    BY <2>1 DEF Before
  <2>2. CASE i # 1
    <3>1. i - 1 \in 1..Len(s)
      BY <2>2
    <3>2. g[i - 1] \in Seq(Nat)
      BY <1>3, <3>1
    <3> QED
      BY <2>2, <3>2 DEF Before
  <2> QED
    BY <2>1, <2>2
<1>5. <<>> \o s[i] = s[i]
  BY <1>1, ConcatEmptySeq
<1>6. g[i] = Before(g, i) \o s[i]
  BY <1>2, <1>5 DEF Before
<1> QED
  BY <1>1, <1>3, <1>4, <1>6

\* What was put together up to a place begins everything that comes later.
LEMMA FlatteningGrows ==
    ASSUME NEW s \in Seq(Seq(Nat)), NEW g, IsFlattening(g, s, Len(s)),
           NEW i \in 1..Len(s), NEW j \in i..Len(s)
    PROVE  /\ Len(g[i]) =< Len(g[j])
           /\ \A k \in 1..Len(g[i]) : g[j][k] = g[i][k]
<1> DEFINE Grown(m) == /\ Len(g[i]) =< Len(g[m])
                       /\ \A k \in 1..Len(g[i]) : g[m][k] = g[i][k]
           G == {m \in Nat : Grown(m)}
<1>1. g[i] \in Seq(Nat)
  BY FlatteningType
<1>2. i \in G
  BY <1>1
<1>3. ASSUME NEW m \in i..(Len(s) - 1), m \in G PROVE m + 1 \in G
  <2>1. m \in 1..Len(s) /\ m + 1 \in 1..Len(s) /\ m + 1 # 1 /\ (m + 1) - 1 = m
    OBVIOUS
  <2>2. g[m] \in Seq(Nat) /\ s[m + 1] \in Seq(Nat) /\ g[m + 1] = g[m] \o s[m + 1]
    <3>1. g[m] \in Seq(Nat)
      BY <2>1, FlatteningType, Zenon
    <3>2. s[m + 1] \in Seq(Nat) /\ g[m + 1] = Before(g, m + 1) \o s[m + 1]
      BY <2>1, FlatteningType, Zenon
    <3> QED
      BY <2>1, <3>1, <3>2 DEF Before
  <2>3. /\ Len(g[m + 1]) = Len(g[m]) + Len(s[m + 1])
        /\ \A k \in 1..Len(g[m]) : g[m + 1][k] = g[m][k]
    <3>1. /\ Len(g[m] \o s[m + 1]) = Len(g[m]) + Len(s[m + 1])
          /\ \A k \in 1..Len(g[m]) : (g[m] \o s[m + 1])[k] = g[m][k]
      BY <2>2, ConcatOK, Zenon
    <3> QED
      BY <2>2, <3>1, Zenon
  <2>4. Grown(m)
    BY <1>3
  <2>5. Len(g[i]) \in Nat /\ Len(g[m]) \in Nat /\ Len(s[m + 1]) \in Nat
    BY <1>1, <2>2
  <2>6. Len(g[i]) =< Len(g[m + 1])
    <3> DEFINE x == Len(g[i])
               y == Len(g[m])
               z == Len(s[m + 1])
    <3>1. x =< y /\ Len(g[m + 1]) = y + z
      BY <2>3, <2>4, Zenon
    <3>2. x \in Nat /\ y \in Nat /\ z \in Nat
      BY <2>5, Zenon
    <3>3. x =< y + z
      <4> HIDE DEF x, y, z
      <4> QED
        BY <3>1, <3>2
    <3> QED
      BY <3>1, <3>3, Zenon
  <2>7. ASSUME NEW k \in 1..Len(g[i]) PROVE g[m + 1][k] = g[i][k]
    <3>1. k \in 1..Len(g[m])
      BY <2>4, <2>5
    <3> QED
      BY <2>3, <2>4, <3>1, Zenon
  <2> QED
    BY <2>1, <2>6, <2>7
<1>4. \A m \in i..Len(s) : m \in G
  <2>1. Len(s) \in Nat /\ i \in Nat
    OBVIOUS
  <2> HIDE DEF G
  <2> QED
    BY <1>2, <1>3, <2>1, Induction
<1> QED
  BY <1>4

-----------------------------------------------------------------------------
(* What NewAssetVersion hashes *)

\* The bytes H have at place p the name N and the content c of a file.
Entry(H, p, N, c) ==
    /\ p + Len(N) + Len(c) + 2 =< Len(H)
    /\ \A k \in 1..Len(N) : H[p + k] = N[k]
    /\ H[p + Len(N) + 1] = 0
    /\ \A k \in 1..Len(c) : H[p + Len(N) + 1 + k] = c[k]
    /\ H[p + Len(N) + Len(c) + 2] = 0

\* A sequence with a zero byte after it.
LEMMA ZeroEnded ==
    ASSUME NEW a \in Seq(Nat)
    PROVE  /\ a \o <<0>> \in Seq(Nat) /\ Len(a \o <<0>>) = Len(a) + 1
           /\ \A k \in 1..Len(a) : (a \o <<0>>)[k] = a[k]
           /\ (a \o <<0>>)[Len(a) + 1] = 0
OBVIOUS

\* A name and a content, each with the zero byte after it.
EntryBytes(N, c) == N \o <<0>> \o c \o <<0>>

\* Where the parts of an entry are.
LEMMA EntryParts ==
    ASSUME NEW N \in Seq(Nat), NEW c \in Seq(Nat)
    PROVE  /\ EntryBytes(N, c) \in Seq(Nat) /\ Len(EntryBytes(N, c)) = Len(N) + Len(c) + 2
           /\ \A k \in 1..Len(N) : EntryBytes(N, c)[k] = N[k]
           /\ EntryBytes(N, c)[Len(N) + 1] = 0
           /\ \A k \in 1..Len(c) : EntryBytes(N, c)[Len(N) + 1 + k] = c[k]
           /\ EntryBytes(N, c)[Len(N) + Len(c) + 2] = 0
<1>1. ASSUME NEW A \in Seq(Nat), NEW B \in Seq(Nat), NEW D \in Seq(Nat),
             Len(A) = Len(N) + 1, \A k \in 1..Len(N) : A[k] = N[k], A[Len(N) + 1] = 0,
             Len(B) = Len(A) + Len(c), \A k \in 1..Len(A) : B[k] = A[k],
             \A k \in 1..Len(c) : B[Len(A) + k] = c[k],
             Len(D) = Len(B) + 1, \A k \in 1..Len(B) : D[k] = B[k], D[Len(B) + 1] = 0
      PROVE  /\ D \in Seq(Nat) /\ Len(D) = Len(N) + Len(c) + 2
             /\ \A k \in 1..Len(N) : D[k] = N[k]
             /\ D[Len(N) + 1] = 0
             /\ \A k \in 1..Len(c) : D[Len(N) + 1 + k] = c[k]
             /\ D[Len(N) + Len(c) + 2] = 0
  <2>1. Len(N) \in Nat /\ Len(c) \in Nat
    OBVIOUS
  <2>2. Len(A) = Len(N) + 1 /\ Len(B) = Len(A) + Len(c) /\ Len(D) = Len(B) + 1
    BY <1>1, Zenon
  <2>3. /\ Len(D) = Len(N) + Len(c) + 2 /\ Len(N) + Len(c) + 2 = Len(B) + 1
        /\ Len(N) + 1 \in 1..Len(A)
    BY <2>1, <2>2
  <2>4. D[Len(N) + Len(c) + 2] = 0
    BY <1>1, <2>3, Zenon
  <2>5. ASSUME NEW k \in 1..Len(A) PROVE D[k] = A[k]
    <3>1. k \in 1..Len(B)
      BY <2>1, <2>2
    <3> QED
      BY <1>1, <3>1, Zenon
  <2>6. ASSUME NEW k \in 1..Len(N) PROVE D[k] = N[k]
    <3>1. k \in 1..Len(A)
      BY <2>1, <2>2
    <3> QED
      BY <1>1, <2>5, <3>1, Zenon
  <2>7. D[Len(N) + 1] = 0
    BY <1>1, <2>3, <2>5, Zenon
  <2>8. ASSUME NEW k \in 1..Len(c) PROVE D[Len(N) + 1 + k] = c[k]
    <3>1. Len(A) + k \in 1..Len(B) /\ Len(A) + k = Len(N) + 1 + k
      BY <2>1, <2>2
    <3> QED
      BY <1>1, <3>1, Zenon
  <2> QED
    BY <2>3, <2>4, <2>6, <2>7, <2>8
<1> DEFINE A == N \o <<0>>
           B == A \o c
           C == B \o <<0>>
<1>2. /\ A \in Seq(Nat) /\ Len(A) = Len(N) + 1 /\ A[Len(N) + 1] = 0
      /\ \A k \in 1..Len(N) : A[k] = N[k]
  BY ZeroEnded, Zenon
<1>3. /\ B \in Seq(Nat) /\ Len(B) = Len(A) + Len(c)
      /\ \A k \in 1..Len(A) : B[k] = A[k]
      /\ \A k \in 1..Len(c) : B[Len(A) + k] = c[k]
  BY <1>2, ConcatOK, Zenon
<1>4. /\ C \in Seq(Nat) /\ Len(C) = Len(B) + 1 /\ C[Len(B) + 1] = 0
      /\ \A k \in 1..Len(B) : C[k] = B[k]
  BY <1>3, ZeroEnded, Zenon
<1> HIDE DEF A, B, C
<1>5. /\ C \in Seq(Nat) /\ Len(C) = Len(N) + Len(c) + 2
      /\ \A k \in 1..Len(N) : C[k] = N[k]
      /\ C[Len(N) + 1] = 0
      /\ \A k \in 1..Len(c) : C[Len(N) + 1 + k] = c[k]
      /\ C[Len(N) + Len(c) + 2] = 0
  BY <1>1, <1>2, <1>3, <1>4, Zenon
<1>6. EntryBytes(N, c) = C
  BY DEF EntryBytes, A, B, C
<1> QED
  BY <1>5, <1>6, Zenon

\* What the walk writes for a file is an entry of everything that begins so.
LEMMA EntryWritten ==
    ASSUME NEW P \in Seq(Nat), NEW N \in Seq(Nat), NEW c \in Seq(Nat), NEW H \in Seq(Nat),
           NEW F, F = P \o EntryBytes(N, c),
           Len(F) =< Len(H), \A k \in 1..Len(F) : H[k] = F[k]
    PROVE  Entry(H, Len(P), N, c)
<1> DEFINE C == EntryBytes(N, c)
<1>1. /\ C \in Seq(Nat) /\ Len(C) = Len(N) + Len(c) + 2
      /\ \A k \in 1..Len(N) : C[k] = N[k]
      /\ C[Len(N) + 1] = 0
      /\ \A k \in 1..Len(c) : C[Len(N) + 1 + k] = c[k]
      /\ C[Len(N) + Len(c) + 2] = 0
  BY EntryParts, Zenon
<1>2. F = P \o C /\ Len(F) =< Len(H) /\ \A k \in 1..Len(F) : H[k] = F[k]
  BY Zenon
<1> HIDE DEF C
<1>3. Len(F) = Len(P) + Len(C) /\ \A k \in 1..Len(C) : F[Len(P) + k] = C[k]
  <2>1. /\ Len(P \o C) = Len(P) + Len(C)
        /\ \A k \in 1..Len(C) : (P \o C)[Len(P) + k] = C[k]
    BY <1>1, ConcatOK, Zenon
  <2>2. F = P \o C
    BY <1>2, Zenon
  <2> QED
    BY <2>1, <2>2, Zenon
<1>4. Len(P) \in Nat /\ Len(N) \in Nat /\ Len(c) \in Nat /\ Len(H) \in Nat
  OBVIOUS
<1>5. ASSUME NEW k \in 1..Len(C) PROVE H[Len(P) + k] = C[k]
  <2>1. Len(P) + k \in 1..Len(F)
    BY <1>1, <1>3, <1>4
  <2> QED
    BY <1>2, <1>3, <2>1, Zenon
<1>6. Len(P) + Len(N) + Len(c) + 2 =< Len(H)
  BY <1>1, <1>2, <1>3, <1>4
<1>7. ASSUME NEW k \in 1..Len(N) PROVE H[Len(P) + k] = N[k]
  <2>1. k \in 1..Len(C)
    BY <1>1, <1>4
  <2> QED
    BY <1>1, <1>5, <2>1, Zenon
<1>8. H[Len(P) + Len(N) + 1] = 0
  <2>1. Len(N) + 1 \in 1..Len(C) /\ Len(P) + (Len(N) + 1) = Len(P) + Len(N) + 1
    BY <1>1, <1>4
  <2> QED
    BY <1>1, <1>5, <2>1, Zenon
<1>9. ASSUME NEW k \in 1..Len(c) PROVE H[Len(P) + Len(N) + 1 + k] = c[k]
  <2>1. /\ Len(N) + 1 + k \in 1..Len(C)
        /\ Len(P) + (Len(N) + 1 + k) = Len(P) + Len(N) + 1 + k
    <3>1. Len(C) = Len(N) + Len(c) + 2
      BY <1>1, Zenon
    <3> QED
      BY <1>4, <3>1
  <2> QED
    BY <1>1, <1>5, <2>1, Zenon
<1>10. H[Len(P) + Len(N) + Len(c) + 2] = 0
  <2>1. /\ Len(N) + Len(c) + 2 \in 1..Len(C)
        /\ Len(P) + (Len(N) + Len(c) + 2) = Len(P) + Len(N) + Len(c) + 2
    BY <1>1, <1>4
  <2> QED
    BY <1>1, <1>5, <2>1, Zenon
<1> QED
  BY <1>6, <1>7, <1>8, <1>9, <1>10, Zenon DEF Entry

\* The zero bytes tell where a name and a content end.
LEMMA EntryUnique ==
    ASSUME NEW H, NEW p \in Nat, NEW M \in Text, NEW N \in Text, NEW c \in Text,
           NEW d \in Text, Entry(H, p, M, c), Entry(H, p, N, d)
    PROVE  M = N /\ c = d
<1>1. ASSUME NEW q \in Nat, NEW u \in Text, NEW v \in Text,
             \A k \in 1..Len(u) : H[q + k] = u[k], H[q + Len(u) + 1] = 0,
             \A k \in 1..Len(v) : H[q + k] = v[k], H[q + Len(v) + 1] = 0
      PROVE  u = v
  <2>1. /\ Len(u) \in Nat /\ Len(v) \in Nat
        /\ \A k \in 1..Len(u) : u[k] # 0
        /\ \A k \in 1..Len(v) : v[k] # 0
    BY DEF Text
  <2>2. ~(Len(u) < Len(v))
    <3> SUFFICES ASSUME Len(u) < Len(v) PROVE FALSE
      OBVIOUS
    <3>1. Len(u) + 1 \in 1..Len(v) /\ q + (Len(u) + 1) = q + Len(u) + 1
      BY <2>1
    <3> QED
      BY <1>1, <2>1, <3>1
  <2>3. ~(Len(v) < Len(u))
    <3> SUFFICES ASSUME Len(v) < Len(u) PROVE FALSE
      OBVIOUS
    <3>1. Len(v) + 1 \in 1..Len(u) /\ q + (Len(v) + 1) = q + Len(v) + 1
      BY <2>1
    <3> QED
      BY <1>1, <2>1, <3>1
  <2>4. Len(u) = Len(v)
    BY <2>1, <2>2, <2>3
  <2>5. \A k \in 1..Len(u) : u[k] = v[k]
    BY <1>1, <2>4
  <2> QED
    BY <2>4, <2>5, SeqEqual DEF Text
<1>2. M = N
  BY <1>1 DEF Entry
<1>3. Len(M) \in Nat /\ Len(c) \in Nat /\ Len(d) \in Nat
  BY DEF Text
<1>4. /\ p + Len(M) + 1 \in Nat
      /\ H[(p + Len(M) + 1) + Len(c) + 1] = 0
      /\ H[(p + Len(M) + 1) + Len(d) + 1] = 0
  <2>1. (p + Len(M) + 1) + Len(c) + 1 = p + Len(M) + Len(c) + 2
    BY <1>3
  <2>2. (p + Len(M) + 1) + Len(d) + 1 = p + Len(M) + Len(d) + 2
    BY <1>3
  <2> QED
    BY <1>2, <1>3, <2>1, <2>2 DEF Entry
<1>5. c = d
  BY <1>1, <1>2, <1>4 DEF Entry
<1> QED
  BY <1>2, <1>5

\* What is written for the files of a build, one after the other, and all of it
\* up to each file.
Chunks(b) == [f \in Files |-> IF b[f] = Nil THEN <<>>
                              ELSE Names[f] \o <<0>> \o b[f] \o <<0>>]

Walk(b, g) == IsFlattening(g, Chunks(b), Len(Names)) /\ HashInput(b) = g[Len(Names)]

\* Files are numbered in the order of the walk.
LEMMA FilesType == Len(Names) \in Nat /\ Files = 1..Len(Names)
BY TextAssumption DEF Files

\* A file has a name without zero bytes ...
LEMMA NameType ==
    ASSUME NEW f \in Files
    PROVE  Names[f] \in Text
BY TextAssumption, ElementOfSeq DEF Files

\* ... and a content without zero bytes, if the build has it.
LEMMA ContentType ==
    ASSUME NEW b \in Builds, NEW f \in Files, b[f] # Nil
    PROVE  b[f] \in Text
BY TextAssumption

\* Text is bytes.
LEMMA TextBytes == Text \subseteq Seq(Nat)
BY SeqMonotonic DEF Text

\* The walk has bytes for each file, none for one that is missing.
LEMMA ChunksType ==
    ASSUME NEW b \in Builds
    PROVE  Chunks(b) \in Seq(Seq(Nat)) /\ Len(Chunks(b)) = Len(Names)
<1> DEFINE e(f) == IF b[f] = Nil THEN <<>> ELSE Names[f] \o <<0>> \o b[f] \o <<0>>
<1>1. ASSUME NEW f \in Files PROVE e(f) \in Seq(Nat)
  <2>1. CASE b[f] = Nil
    <3>1. <<>> \in Seq(Nat)
      OBVIOUS
    <3> QED
      BY <2>1, <3>1, Zenon
  <2>2. CASE b[f] # Nil
    <3>1. Names[f] \in Seq(Nat) /\ b[f] \in Seq(Nat)
      BY <2>2, NameType, ContentType, TextBytes, Zenon
    <3>2. EntryBytes(Names[f], b[f]) \in Seq(Nat)
      BY <3>1, EntryParts, Zenon
    <3> QED
      BY <2>2, <3>2, Zenon DEF EntryBytes
  <2> QED
    BY <2>1, <2>2
<1>2. Chunks(b) = [f \in 1..Len(Names) |-> e(f)]
  BY FilesType, Zenon DEF Chunks
<1>3. \A f \in 1..Len(Names) : e(f) \in Seq(Nat)
  BY <1>1, FilesType, Zenon
<1> HIDE DEF e
<1>4. [f \in 1..Len(Names) |-> e(f)] \in Seq(Seq(Nat))
  BY <1>3, FilesType
<1>5. Len([f \in 1..Len(Names) |-> e(f)]) = Len(Names)
  BY FilesType
<1> QED
  BY <1>2, <1>4, <1>5, Zenon

\* The hash is fed file by file.
LEMMA WalkExists ==
    ASSUME NEW b \in Builds, Files # {}
    PROVE  \E g : Walk(b, g)
<1>1. Len(Chunks(b)) = Len(Names) /\ Len(Names) \in Nat \ {0}
  BY ChunksType, FilesType
<1>2. HashInput(b) = FlattenSeq(Chunks(b))
  BY DEF HashInput, Chunks
<1>3. PICK g : /\ IsFlattening(g, Chunks(b), Len(Chunks(b)))
               /\ FlattenSeq(Chunks(b)) = g[Len(Chunks(b))]
  BY <1>1, FlattenSeqOK
<1> QED
  BY <1>1, <1>2, <1>3, Zenon DEF Walk

\* A file's bytes come after those of the files before it.
LEMMA WalkStep ==
    ASSUME NEW b \in Builds, NEW g, Walk(b, g), NEW i \in Files
    PROVE  g[i] = Before(g, i) \o Chunks(b)[i] /\ Before(g, i) \in Seq(Nat)
BY FilesType, ChunksType, FlatteningType, Zenon DEF Walk

\* A file that a build has leaves its entry where the walk comes to it.
LEMMA EntryOfFile ==
    ASSUME NEW b \in Builds, NEW g, Walk(b, g), NEW f \in Files, b[f] # Nil
    PROVE  /\ Before(g, f) \in Seq(Nat)
           /\ Entry(HashInput(b), Len(Before(g, f)), Names[f], b[f])
<1> DEFINE s == Chunks(b)
           n == Len(Names)
<1>1. s \in Seq(Seq(Nat)) /\ IsFlattening(g, s, Len(s)) /\ f \in 1..Len(s) /\ Len(s) = n
  BY ChunksType, FilesType, Zenon DEF Walk
<1>2. n \in f..Len(s) /\ n \in 1..Len(s)
  BY <1>1, FilesType
<1>3. s[f] = EntryBytes(Names[f], b[f])
  BY Zenon DEF Chunks, EntryBytes
<1> HIDE DEF s
<1>4. /\ Before(g, f) \in Seq(Nat) /\ g[f] = Before(g, f) \o s[f] /\ g[n] \in Seq(Nat)
  BY <1>1, <1>2, FlatteningType, Zenon
<1>5. Len(g[f]) =< Len(g[n]) /\ \A k \in 1..Len(g[f]) : g[n][k] = g[f][k]
  BY <1>1, <1>2, FlatteningGrows, Zenon
<1>6. Names[f] \in Seq(Nat) /\ b[f] \in Seq(Nat)
  BY NameType, ContentType, TextBytes, Zenon
<1>7. Entry(g[n], Len(Before(g, f)), Names[f], b[f])
  <2> DEFINE F == Before(g, f) \o EntryBytes(Names[f], b[f])
  <2>1. F = g[f]
    BY <1>3, <1>4, Zenon
  <2>2. Len(F) =< Len(g[n]) /\ \A k \in 1..Len(F) : g[n][k] = F[k]
    BY <1>5, <2>1, Zenon
  <2> QED
    BY <1>4, <1>6, <2>2, EntryWritten, Zenon
<1> QED
  BY <1>4, <1>7, Zenon DEF Walk

\* Files that a build does not have leave nothing.
LEMMA NothingOfMissing ==
    ASSUME NEW b \in Builds, NEW g, Walk(b, g), NEW f \in Files, NEW h \in f..(Len(Names) + 1),
           \A i \in f..(h - 1) : b[i] = Nil
    PROVE  Before(g, h) = Before(g, f)
<1> DEFINE G == {i \in Nat : Before(g, i) = Before(g, f)}
<1>1. f \in G /\ f \in Nat /\ h \in Nat /\ f \in 1..Len(Names)
  BY FilesType
<1>2. ASSUME NEW i \in f..(h - 1), i \in G PROVE i + 1 \in G
  <2>1. i \in Files /\ i \in 1..Len(Names) /\ i + 1 # 1 /\ (i + 1) - 1 = i /\ i + 1 \in Nat
    BY <1>1, FilesType
  <2>2. b[i] = Nil
    BY <1>2
  <2>3. Chunks(b)[i] = <<>>
    BY <2>1, <2>2, Zenon DEF Chunks
  <2>4. g[i] = Before(g, i) \o Chunks(b)[i] /\ Before(g, i) \in Seq(Nat)
    BY <2>1, WalkStep, Zenon
  <2>5. g[i] = Before(g, i)
    BY <2>3, <2>4, ConcatEmptySeq, Zenon
  <2>6. Before(g, i + 1) = g[i]
    BY <2>1 DEF Before
  <2>7. Before(g, i) = Before(g, f)
    BY <1>2
  <2> QED
    BY <2>1, <2>5, <2>6, <2>7, Zenon
<1>3. \A i \in f..h : i \in G
  <2> HIDE DEF G
  <2> QED
    BY <1>1, <1>2, Induction
<1> QED
  BY <1>1, <1>3

\* Builds that agree up to a file write the same up to it.
LEMMA SameSoFar ==
    ASSUME NEW a \in Builds, NEW b \in Builds, NEW g, Walk(a, g), NEW h, Walk(b, h),
           NEW f \in Files, \A i \in 1..(f - 1) : a[i] = b[i]
    PROVE  Before(g, f) = Before(h, f)
<1> DEFINE G == {i \in Nat : Before(g, i) = Before(h, i)}
<1>1. f \in Nat /\ f \in 1..Len(Names) /\ 1 \in Nat /\ Len(Names) \in Nat
  BY FilesType
<1>2. 1 \in G
  BY DEF Before
<1>3. ASSUME NEW i \in 1..(f - 1), i \in G PROVE i + 1 \in G
  <2>1. i \in Files /\ i \in 1..Len(Names) /\ i + 1 # 1 /\ (i + 1) - 1 = i /\ i + 1 \in Nat
    BY <1>1, FilesType
  <2>2. Chunks(a)[i] = Chunks(b)[i]
    <3>1. a[i] = b[i]
      OBVIOUS
    <3>2. /\ Chunks(a)[i] = IF a[i] = Nil THEN <<>> ELSE Names[i] \o <<0>> \o a[i] \o <<0>>
          /\ Chunks(b)[i] = IF b[i] = Nil THEN <<>> ELSE Names[i] \o <<0>> \o b[i] \o <<0>>
      BY <2>1, Zenon DEF Chunks
    <3> QED
      BY <3>1, <3>2, Zenon
  <2>3. g[i] = Before(g, i) \o Chunks(a)[i] /\ h[i] = Before(h, i) \o Chunks(b)[i]
    BY <2>1, WalkStep, Zenon
  <2>4. Before(g, i) = Before(h, i)
    BY <1>3
  <2>5. Before(g, i + 1) = g[i] /\ Before(h, i + 1) = h[i]
    BY <2>1 DEF Before
  <2> QED
    BY <2>1, <2>2, <2>3, <2>4, <2>5, Zenon
<1>4. \A i \in 1..f : i \in G
  <2> HIDE DEF G
  <2> QED
    BY <1>1, <1>2, <1>3, Induction
<1> QED
  BY <1>1, <1>4

\* Builds that agree up to a file, and differ in it, write different bytes.
LEMMA FirstDifference ==
    ASSUME NEW a \in Builds, NEW b \in Builds, NEW f \in Files,
           \A i \in 1..(f - 1) : a[i] = b[i], a[f] # b[f], b[f] # Nil,
           HashInput(a) = HashInput(b)
    PROVE  FALSE
<1> DEFINE H == HashInput(b)
           n == Len(Names)
<1>1. PICK g : Walk(a, g)
  BY WalkExists
<1>2. PICK h : Walk(b, h)
  BY WalkExists
<1> DEFINE P == Before(h, f)
<1>3. Before(g, f) = P
  BY <1>1, <1>2, SameSoFar
<1>4. P \in Seq(Nat) /\ Entry(H, Len(P), Names[f], b[f])
  BY <1>2, EntryOfFile, Zenon
<1>5. Names[f] \in Text /\ b[f] \in Text /\ Len(P) \in Nat
  BY <1>4, NameType, ContentType
<1>6. ASSUME NEW i \in Files, a[i] # Nil, Before(g, i) = P
      PROVE  i = f /\ a[i] = b[f]
  <2>1. Entry(H, Len(P), Names[i], a[i])
    BY <1>1, <1>6, EntryOfFile, Zenon
  <2>2. Names[i] \in Text /\ a[i] \in Text
    BY <1>6, NameType, ContentType, Zenon
  <2>3. Names[i] = Names[f] /\ a[i] = b[f]
    BY <1>4, <1>5, <2>1, <2>2, EntryUnique, Zenon
  <2> QED
    BY <2>3, TextAssumption
<1>7. a[f] = Nil
  BY <1>3, <1>6
<1>8. f \in Nat /\ f \in 1..n /\ n \in Nat
  BY FilesType
<1>9. CASE \A i \in f..n : a[i] = Nil
  <2>1. n + 1 \in f..(n + 1) /\ (n + 1) - 1 = n /\ n + 1 # 1
    BY <1>8
  <2>2. Before(g, n + 1) = P
    <3>1. \A i \in f..((n + 1) - 1) : a[i] = Nil
      BY <1>9, <2>1, Zenon
    <3> QED
      BY <1>1, <1>3, <2>1, <3>1, NothingOfMissing
  <2>3. H = P
    BY <1>1, <2>1, <2>2, Zenon DEF Walk, Before
  <2>4. Len(P) + Len(Names[f]) + Len(b[f]) + 2 =< Len(P)
    BY <1>4, <2>3, Zenon DEF Entry
  <2>5. Len(Names[f]) \in Nat /\ Len(b[f]) \in Nat
    BY <1>5 DEF Text
  <2>6. ASSUME NEW x \in Nat, NEW y \in Nat, NEW z \in Nat PROVE ~(x + y + z + 2 =< x)
    OBVIOUS
  <2> QED
    BY <1>5, <2>4, <2>5, <2>6, Zenon
<1>10. CASE \E i \in f..n : a[i] # Nil
  <2> DEFINE S == {i \in f..n : a[i] # Nil}
  <2>1. S \subseteq Nat /\ S # {}
    BY <1>8, <1>10
  <2>2. \E i \in S : \A j \in S : i =< j
    <3> HIDE DEF S
    <3> QED
      BY <2>1, LeastNatural
  <2>3. PICK i \in S : \A j \in S : i =< j
    BY <2>2
  <2>4. i \in f..n /\ a[i] # Nil /\ i \in Files /\ i \in f..(n + 1)
    BY <1>8, FilesType
  <2>5. ASSUME NEW j \in f..(i - 1) PROVE a[j] = Nil
    <3>1. j \in f..n /\ ~(i =< j)
      BY <1>8, <2>4
    <3> QED
      BY <2>3, <3>1
  <2>6. Before(g, i) = P
    BY <1>1, <1>3, <2>4, <2>5, NothingOfMissing, Zenon
  <2>7. i = f
    BY <1>6, <2>4, <2>6, Zenon
  <2> QED
    BY <1>7, <2>4, <2>7, Zenon
<1> QED
  BY <1>9, <1>10

\* NewAssetVersion tells builds apart: they differ if and only if the bytes it
\* hashes do, although a build may lack files and contents may look like names.
THEOREM HashInputTellsBuildsApart ==
    ASSUME NEW a \in Builds, NEW b \in Builds, HashInput(a) = HashInput(b)
    PROVE  a = b
<1> SUFFICES ASSUME a # b PROVE FALSE
  OBVIOUS
<1> DEFINE S == {f \in Files : a[f] # b[f]}
<1>1. S \subseteq Nat /\ S # {}
  <2>1. a \in [Files -> {Nil} \cup Text] /\ b \in [Files -> {Nil} \cup Text]
    BY TextAssumption
  <2> QED
    BY <2>1, FilesType
<1>2. \E f \in S : \A g \in S : f =< g
  <2> HIDE DEF S
  <2> QED
    BY <1>1, LeastNatural
<1>3. PICK f \in S : \A g \in S : f =< g
  BY <1>2
<1>4. f \in Files /\ a[f] # b[f]
  OBVIOUS
<1>5. ASSUME NEW i \in 1..(f - 1) PROVE a[i] = b[i] /\ b[i] = a[i]
  <2>1. i \in Files /\ ~(f =< i)
    BY <1>4, FilesType
  <2> QED
    BY <1>3, <2>1
<1>6. CASE b[f] # Nil
  BY <1>4, <1>5, <1>6, FirstDifference, Zenon
<1>7. CASE a[f] # Nil
  BY <1>4, <1>5, <1>7, FirstDifference, Zenon
<1> QED
  BY <1>4, <1>6, <1>7

-----------------------------------------------------------------------------
(* Pages *)

\* A page has the version of its build, and the browser keeps a file under the
\* version of a build in which it is so.
Inv ==
    /\ server \in Builds /\ version = HashInput(server)
    /\ loaded \in [Files -> {loaded[f] : f \in Files}]
    /\ page = Nil => \A f \in Files : loaded[f] = Nil
    /\ page # Nil => page.build \in Builds /\ page.version = HashInput(page.build)
    /\ \A e \in cache : \E b \in Builds :
          e.version = HashInput(b) /\ e.body = b[e.file]
    /\ PageOfOneBuild

\* The first server, with an empty cache and no page.
LEMMA InitInv == Init => Inv
BY DEF Init, Inv, PageOfOneBuild

\* What a page fetches is the file of its build, or missing; and it is not
\* missing if the build is the one that runs.
LEMMA FetchInv ==
    ASSUME Inv, NEW f \in Files, Fetch(f)
    PROVE  /\ Inv'
           /\ page.build = server => loaded'[f] = server[f]
<1>1. /\ page # Nil /\ page.build \in Builds /\ page.version = HashInput(page.build)
      /\ page.build[f] # Nil /\ UNCHANGED <<server, version, page, deploys>>
      /\ server \in Builds /\ version = HashInput(server)
  BY DEF Inv, Fetch
<1>2. ASSUME NEW x, loaded' = [loaded EXCEPT ![f] = x], x \in {Missing, page.build[f]},
             \A e \in cache' : \E b \in Builds : e.version = HashInput(b) /\ e.body = b[e.file]
      PROVE  Inv' /\ loaded'[f] = x
  BY <1>1, <1>2 DEF Inv, PageOfOneBuild
<1>3. CASE \E e \in Cached(page.version, f) :
              loaded' = [loaded EXCEPT ![f] = e.body] /\ cache' = cache
  <2>1. PICK e \in Cached(page.version, f) :
              loaded' = [loaded EXCEPT ![f] = e.body] /\ cache' = cache
    BY <1>3
  <2>2. e \in cache /\ e.version = page.version /\ e.file = f
    BY DEF Cached
  <2>3. PICK b \in Builds : e.version = HashInput(b) /\ e.body = b[f]
    BY <2>2 DEF Inv
  <2>4. b = page.build
    BY <1>1, <2>2, <2>3, HashInputTellsBuildsApart
  <2>5. \A d \in cache' : \E c \in Builds : d.version = HashInput(c) /\ d.body = c[d.file]
    BY <2>1 DEF Inv
  <2> QED
    BY <1>2, <2>1, <2>3, <2>4, <2>5
<1>4. CASE /\ Cached(page.version, f) = {}
           /\ LET answer == HandleStaticAssets(page.version, f) IN
              /\ loaded' = [loaded EXCEPT ![f] = answer.body]
              /\ cache' = IF answer.immutable
                          THEN cache \cup {[version |-> page.version, file |-> f,
                                            body |-> answer.body]}
                          ELSE cache
  <2>1. CASE page.version # version \/ server[f] = Nil
    <3>1. loaded' = [loaded EXCEPT ![f] = Missing] /\ cache' = cache
      BY <1>4, <2>1 DEF HandleStaticAssets
    <3>2. page.build # server
      BY <1>1, <2>1
    <3> QED
      BY <1>2, <3>1, <3>2 DEF Inv
  <2>2. CASE page.version = version /\ server[f] # Nil
    <3>1. page.build = server
      BY <1>1, <2>2, HashInputTellsBuildsApart
    <3>2. /\ loaded' = [loaded EXCEPT ![f] = server[f]]
          /\ cache' = cache \cup {[version |-> version, file |-> f, body |-> server[f]]}
      BY <1>4, <2>2 DEF HandleStaticAssets
    <3>3. \A e \in cache' : \E b \in Builds : e.version = HashInput(b) /\ e.body = b[e.file]
      BY <1>1, <3>2 DEF Inv
    <3> QED
      BY <1>2, <3>1, <3>2, <3>3
  <2> QED
    BY <2>1, <2>2
<1> QED
  BY <1>3, <1>4 DEF Fetch

\* Deployments, page loads, fetches and evictions keep the invariant.
LEMMA NextInv ==
    ASSUME Inv, [Next]_vars
    PROVE  Inv'
<1>1. CASE Deploy
  BY <1>1 DEF Deploy, Inv, PageOfOneBuild
<1>2. CASE LoadPage
  BY <1>2 DEF LoadPage, Inv, PageOfOneBuild
<1>3. CASE Evict
  BY <1>3 DEF Evict, Inv, PageOfOneBuild
<1>4. ASSUME NEW f \in Files, Fetch(f) PROVE Inv'
  BY <1>4, FetchInv
<1>5. CASE UNCHANGED vars
  BY <1>5 DEF vars, Inv, PageOfOneBuild
<1> QED
  BY <1>1, <1>2, <1>3, <1>4, <1>5 DEF Next

\* Versions and cached files belong to builds.
LEMMA Invariance == Spec => []Inv
BY InitInv, NextInv, PTL DEF Spec

\* A page never runs with files of another build, whatever is deployed after it
\* was rendered and whatever the browser has kept.
THEOREM OneBuild == Spec => []PageOfOneBuild
<1>1. Inv => PageOfOneBuild
  BY DEF Inv
<1> QED
  BY <1>1, Invariance, PTL

\* A page of the build that runs gets all its files.
THEOREM CurrentComplete == Spec => CurrentPageComplete
<1>1. Inv /\ [Next]_vars =>
        [\A f \in Files : Fetch(f) /\ page.build = server => loaded'[f] = server[f]]_vars
  BY FetchInv
<1> QED
  BY <1>1, Invariance, PTL DEF Spec, CurrentPageComplete
=============================================================================

----------------------- MODULE TurnTranscript_proofs -----------------------
(***************************************************************************)
(* Proofs about TurnTranscript, for any questions, texts and documents:    *)
(* the feed shows the document the model wrote, and what a picker sends    *)
(* the card in the feed reads back.                                        *)
(*                                                                         *)
(* Both directions walk over sequences of any length, so the proofs need   *)
(* induction; Induction states it for a set of numbers.  FlattenPlaces     *)
(* says where the parts of a flattened sequence stand.  PartRead: the      *)
(* lines of the answer string that start a field are the first lines of    *)
(* the fields that are not empty, since no other line of a Clear response  *)
(* can be taken for one, so a field is read up to where the next begins.   *)
(* PieceRead: the scanner standing at a piece of a document reads the      *)
(* whole of it as what it is.  DocumentRead joins the pieces: the prose    *)
(* not flushed yet is what stands since the last page or note.             *)
(***************************************************************************)
EXTENDS TurnTranscript, SequenceTheorems, WellFoundedInduction, TLAPS

-----------------------------------------------------------------------------
(* Induction over the natural numbers, in a form without operator          *)
(* parameters: a set of numbers has a least one.                           *)

Below == {ss \in Nat \X Nat : ss[1] < ss[2]}

LEMMA Least ==
    ASSUME NEW T \in SUBSET Nat, T # {}
    PROVE  \E n \in T : \A m \in T : n <= m
<1>1. IsWellFoundedOn(Below, Nat)
  BY NatLessThanWellFounded DEF OpToRel, Below
<1>2. PICK n \in T : \A m \in T : <<m, n>> \notin Below
  BY <1>1, WFMin
<1>3. \A m \in T : ~(m < n)
  BY <1>2 DEF Below
<1>4. QED
  BY <1>3

LEMMA Induction ==
    ASSUME NEW S, 0 \in S, \A n \in Nat : n \in S => n + 1 \in S
    PROVE  Nat \subseteq S
<1> SUFFICES ASSUME Nat \ S # {}
             PROVE  FALSE
  OBVIOUS
<1>1. PICK n \in Nat \ S : \A m \in Nat \ S : n <= m
  BY Least
<1>2. n # 0 /\ n - 1 \in Nat
  BY <1>1
<1>3. n - 1 \in S
  BY <1>1, <1>2
<1>4. QED
  BY <1>1, <1>2, <1>3

-----------------------------------------------------------------------------
(* What FlattenSeq returns.                                                *)

Joins(f, s, n) == f = [i \in 1 .. n |-> IF i = 1 THEN s[i] ELSE f[i - 1] \o s[i]]

LEMMA JoinStep ==
    ASSUME NEW f, NEW s, NEW n \in Nat, Joins(f, s, n), NEW i \in 1 .. n
    PROVE  f[i] = IF i = 1 THEN s[i] ELSE f[i - 1] \o s[i]
<1> DEFINE h == [j \in 1 .. n |-> IF j = 1 THEN s[j] ELSE f[j - 1] \o s[j]]
<1>1. h[i] = IF i = 1 THEN s[i] ELSE f[i - 1] \o s[i]
  OBVIOUS
<1>2. f = h
  BY DEF Joins
<1>3. QED
  BY <1>1, <1>2

\* The recursive function that FlattenSeq is defined by exists.
LEMMA JoinExists ==
    ASSUME NEW s, NEW n \in Nat
    PROVE  \E f : Joins(f, s, n)
<1> DEFINE S == {m \in Nat : \E f : Joins(f, s, m)}
<1>1. 0 \in S
  <2>1. Joins([i \in 1 .. 0 |-> 0], s, 0)
    BY DEF Joins
  <2>2. QED
    BY <2>1
<1>2. ASSUME NEW m \in Nat, m \in S
      PROVE  m + 1 \in S
  <2>1. PICK f : Joins(f, s, m)
    BY <1>2
  <2> DEFINE g == [i \in 1 .. m + 1 |-> IF i <= m THEN f[i]
                                        ELSE IF i = 1 THEN s[i] ELSE f[m] \o s[i]]
  <2>2. \A i \in 1 .. m : g[i] = f[i]
    OBVIOUS
  <2>3. \A i \in 1 .. m + 1 : g[i] = IF i = 1 THEN s[i] ELSE g[i - 1] \o s[i]
    <3> SUFFICES ASSUME NEW i \in 1 .. m + 1
                 PROVE  g[i] = IF i = 1 THEN s[i] ELSE g[i - 1] \o s[i]
      OBVIOUS
    <3>1. CASE i = m + 1
      <4>1. i # 1 => i - 1 = m /\ g[i - 1] = f[m]
        BY <3>1, <2>2
      <4>2. g[i] = IF i = 1 THEN s[i] ELSE f[m] \o s[i]
        BY <3>1
      <4>3. QED
        BY <4>1, <4>2
    <3>2. CASE i <= m
      <4>1. g[i] = f[i] /\ (i # 1 => g[i - 1] = f[i - 1])
        BY <3>2, <2>2
      <4>2. f[i] = IF i = 1 THEN s[i] ELSE f[i - 1] \o s[i]
        BY <1>2, <2>1, <3>2, JoinStep
      <4>3. QED
        BY <4>1, <4>2
    <3>3. QED
      BY <3>1, <3>2
  <2> HIDE DEF g
  <2>4. g = [i \in 1 .. m + 1 |-> g[i]]
    BY DEF g
  <2>5. Joins(g, s, m + 1)
    BY <2>3, <2>4 DEF Joins
  <2>6. QED
    BY <2>5
<1> HIDE DEF S
<1>3. Nat \subseteq S
  BY <1>1, <1>2, Induction
<1>4. QED
  BY <1>3 DEF S

\* FlattenSeq(s) is the last of the prefixes f that are joined one by one.
Joined(f, s, X) ==
    /\ f \in [0 .. Len(s) -> Seq(X)]
    /\ f[0] = <<>>
    /\ \A i \in 1 .. Len(s) : f[i] = f[i - 1] \o s[i]

LEMMA FlattenPrefixes ==
    ASSUME NEW X, NEW s \in Seq(Seq(X))
    PROVE  \E f : Joined(f, s, X) /\ FlattenSeq(s) = f[Len(s)]
<1>1. CASE Len(s) = 0
  <2>1. FlattenSeq(s) = <<>>
    BY <1>1 DEF FlattenSeq
  <2>2. Joined([i \in 0 .. 0 |-> <<>>], s, X)
    BY <1>1 DEF Joined
  <2>3. QED
    BY <1>1, <2>1, <2>2
<1>2. CASE Len(s) # 0
  <2>1. FlattenSeq(s) = (CHOOSE f : f = [i \in 1 .. Len(s) |->
                           IF i = 1 THEN s[i] ELSE f[i - 1] \o s[i]])[Len(s)]
    BY <1>2 DEF FlattenSeq
  <2>2. FlattenSeq(s) = (CHOOSE f : Joins(f, s, Len(s)))[Len(s)]
    BY <2>1 DEF Joins
  <2> DEFINE g == CHOOSE f : Joins(f, s, Len(s))
  <2>0. Len(s) \in Nat
    OBVIOUS
  <2>3. Joins(g, s, Len(s))
    BY <2>0, JoinExists
  <2> HIDE DEF g
  <2>4. \A i \in 1 .. Len(s) : g[i] = IF i = 1 THEN s[i] ELSE g[i - 1] \o s[i]
    BY <2>0, <2>3, JoinStep
  <2> DEFINE f == [i \in 0 .. Len(s) |-> IF i = 0 THEN <<>> ELSE g[i]]
             S == {n \in Nat : n <= Len(s) => f[n] \in Seq(X)}
  <2>5. \A i \in 1 .. Len(s) : f[i] = f[i - 1] \o s[i]
    <3> SUFFICES ASSUME NEW i \in 1 .. Len(s)
                 PROVE  f[i] = f[i - 1] \o s[i]
      OBVIOUS
    <3>1. CASE i = 1
      <4>1. f[i] = s[i] /\ f[i - 1] = <<>>
        BY <2>4, <3>1
      <4>2. s[i] \in Seq(X)
        OBVIOUS
      <4> DEFINE a == s[i]
      <4>3. <<>> \o a = a
        <5> HIDE DEF a
        <5>1. a \in Seq(X) => <<>> \o a = a
          OBVIOUS
        <5>2. QED
          BY <4>2, <5>1 DEF a
      <4>4. QED
        BY <4>1, <4>3
    <3>2. CASE i # 1
      <4>1. f[i] = g[i] /\ f[i - 1] = g[i - 1]
        BY <3>2
      <4>2. QED
        BY <2>4, <3>2, <4>1
    <3>3. QED
      BY <3>1, <3>2
  <2>6. 0 \in S
    OBVIOUS
  <2>7. f[0] = <<>> /\ f = [i \in 0 .. Len(s) |-> f[i]]
    OBVIOUS
  <2> HIDE DEF f
  <2>8. ASSUME NEW n \in Nat, n \in S
        PROVE  n + 1 \in S
    <3> SUFFICES ASSUME n + 1 <= Len(s)
                 PROVE  f[n + 1] \in Seq(X)
      OBVIOUS
    <3>1. f[n] \in Seq(X) /\ s[n + 1] \in Seq(X)
      BY <2>8
    <3>2. f[n + 1] = f[n] \o s[n + 1]
      <4>1. n + 1 \in 1 .. Len(s) /\ (n + 1) - 1 = n
        OBVIOUS
      <4>2. QED
        BY <2>5, <4>1
    <3>3. QED
      BY <3>1, <3>2
  <2> HIDE DEF S
  <2>9. Nat \subseteq S
    BY <2>6, <2>8, Induction
  <2>10. \A n \in 0 .. Len(s) : f[n] \in Seq(X)
    BY <2>9 DEF S
  <2>11. Joined(f, s, X)
    BY <2>5, <2>7, <2>10 DEF Joined
  <2>12. FlattenSeq(s) = f[Len(s)]
    BY <1>2, <2>2 DEF f, g
  <2>13. QED
    BY <2>11, <2>12
<1>3. QED
  BY <1>1, <1>2

LEMMA Concat ==
    ASSUME NEW X, NEW a \in Seq(X), NEW b \in Seq(X)
    PROVE  /\ a \o b \in Seq(X) /\ Len(a \o b) = Len(a) + Len(b)
           /\ Len(a) \in Nat /\ Len(b) \in Nat
           /\ \A k \in 1 .. Len(a) : (a \o b)[k] = a[k]
           /\ \A k \in 1 .. Len(b) : (a \o b)[Len(a) + k] = b[k]
OBVIOUS

\* Where the parts of s stand in FlattenSeq(s): part i begins after off[i].
Places(off, s, w) ==
    /\ off \in [1 .. Len(s) + 1 -> Nat]
    /\ off[1] = 0 /\ off[Len(s) + 1] = Len(w)
    /\ \A i \in 1 .. Len(s) :
         /\ off[i + 1] = off[i] + Len(s[i])
         /\ \A j \in i + 1 .. Len(s) + 1 : off[i + 1] <= off[j]
         /\ \A k \in 1 .. Len(s[i]) : w[off[i] + k] = s[i][k]
    /\ \A p \in 1 .. Len(w) : \E i \in 1 .. Len(s) : \E k \in 1 .. Len(s[i]) : p = off[i] + k

LEMMA FlattenPlaces ==
    ASSUME NEW X, NEW s \in Seq(Seq(X))
    PROVE  /\ FlattenSeq(s) \in Seq(X)
           /\ \E off : Places(off, s, FlattenSeq(s))
<1>1. PICK f : Joined(f, s, X) /\ FlattenSeq(s) = f[Len(s)]
  BY FlattenPrefixes
<1> DEFINE N == Len(s)
           off == [i \in 1 .. N + 1 |-> Len(f[i - 1])]
<1>2. N \in Nat /\ \A i \in 1 .. N : s[i] \in Seq(X)
  OBVIOUS
<1>3. f \in [0 .. N -> Seq(X)] /\ f[0] = <<>> /\ \A i \in 1 .. N : f[i] = f[i - 1] \o s[i]
  BY <1>1 DEF Joined
<1>4. off \in [1 .. N + 1 -> Nat] /\ off[1] = 0 /\ \A i \in 0 .. N : off[i + 1] = Len(f[i])
  <2>1. ASSUME NEW i \in 0 .. N
        PROVE  off[i + 1] = Len(f[i]) /\ Len(f[i]) \in Nat
    BY <1>2, <1>3
  <2>2. \A i \in 1 .. N + 1 : Len(f[i - 1]) \in Nat
    BY <1>2, <1>3
  <2>3. QED
    BY <1>2, <1>3, <2>1, <2>2
<1> HIDE DEF N, off
<1>5. \A i \in 1 .. N : off[i + 1] = off[i] + Len(s[i])
  <2> SUFFICES ASSUME NEW i \in 1 .. N
               PROVE  off[i + 1] = off[i] + Len(s[i])
    OBVIOUS
  <2>1. i \in 0 .. N /\ i - 1 \in 0 .. N /\ (i - 1) + 1 = i
    BY <1>2
  <2>2. f[i] = f[i - 1] \o s[i] /\ f[i - 1] \in Seq(X) /\ s[i] \in Seq(X)
    BY <1>2, <1>3, <2>1
  <2>3. Len(f[i]) = Len(f[i - 1]) + Len(s[i])
    BY <2>2
  <2>4. QED
    BY <1>4, <2>1, <2>3
\* What holds of a prefix holds of the next one.
<1> DEFINE Mono(n) == \A j \in 1 .. n + 1 : off[j] <= off[n + 1]
           Kept(n) == \A i \in 1 .. n : \A k \in 1 .. Len(s[i]) :
                        off[i] + k \in 1 .. Len(f[n]) /\ f[n][off[i] + k] = s[i][k]
           All(n)  == \A p \in 1 .. Len(f[n]) :
                        \E i \in 1 .. n : \E k \in 1 .. Len(s[i]) : p = off[i] + k
           S == {n \in Nat : n <= N => Mono(n) /\ Kept(n) /\ All(n)}
<1>6. 0 \in S
  BY <1>3, <1>4
<1>7. ASSUME NEW n \in Nat, n \in S
      PROVE  n + 1 \in S
  <2> SUFFICES ASSUME n + 1 <= N
               PROVE  Mono(n + 1) /\ Kept(n + 1) /\ All(n + 1)
    OBVIOUS
  <2>1. Mono(n) /\ Kept(n) /\ All(n)
    BY <1>2, <1>7
  <2>2. n + 1 \in 1 .. N /\ n \in 0 .. N /\ (n + 1) - 1 = n
    BY <1>2
  <2>3. /\ f[n + 1] = f[n] \o s[n + 1] /\ f[n] \in Seq(X) /\ s[n + 1] \in Seq(X)
        /\ off[n + 1] = Len(f[n]) /\ off[n + 2] = off[n + 1] + Len(s[n + 1])
    <3>1. f[n + 1] = f[n] \o s[n + 1] /\ f[n] \in Seq(X) /\ s[n + 1] \in Seq(X)
      BY <1>2, <1>3, <2>2
    <3>2. off[n + 1] = Len(f[n])
      BY <1>4, <2>2
    <3>3. off[(n + 1) + 1] = off[n + 1] + Len(s[n + 1])
      BY <1>5, <2>2
    <3>4. (n + 1) + 1 = n + 2
      OBVIOUS
    <3>5. QED
      BY <3>1, <3>2, <3>3, <3>4
  <2>9. n + 1 \in 1 .. N + 1 /\ n + 2 \in 1 .. N + 1
    BY <1>2, <2>2
  <2>10. off[n + 1] \in Nat /\ off[n + 2] \in Nat
    BY <1>4, <2>9
  <2> DEFINE a == f[n]
             b == s[n + 1]
             c == f[n + 1]
             o == off[n + 1]
  <2>11. a = f[n] /\ b = s[n + 1] /\ c = f[n + 1] /\ o = off[n + 1]
    OBVIOUS
  <2>12. /\ c = a \o b /\ a \in Seq(X) /\ b \in Seq(X)
         /\ o = Len(a) /\ off[n + 2] = o + Len(b) /\ o \in Nat
    BY <2>3, <2>10
  <2> HIDE DEF a, b, c, o
  <2>8. /\ Len(a) \in Nat /\ Len(b) \in Nat /\ Len(c) = Len(a) + Len(b)
        /\ \A k \in 1 .. Len(a) : c[k] = a[k]
        /\ \A k \in 1 .. Len(b) : c[o + k] = b[k]
    BY <2>12, Concat
  <2>4. Mono(n + 1)
    <3>1. \A j \in 1 .. n + 1 : off[j] <= o /\ off[j] \in Nat
      BY <1>2, <1>4, <2>1, <2>2, <2>11 DEF Mono
    <3>2. o <= off[n + 2]
      BY <2>8, <2>12
    <3>0. (n + 1) + 1 = n + 2
      OBVIOUS
    <3> SUFFICES ASSUME NEW j \in 1 .. n + 2
                 PROVE  off[j] <= off[n + 2]
      BY <3>0 DEF Mono
    <3>3. CASE j \in 1 .. n + 1
      <4>1. off[j] <= o /\ off[j] \in Nat
        BY <3>1, <3>3
      <4>2. QED
        BY <2>10, <2>12, <3>2, <4>1
    <3>4. CASE j = n + 2
      BY <2>10, <3>4
    <3>5. QED
      BY <3>3, <3>4
  <2>5. Kept(n + 1)
    <3> SUFFICES ASSUME NEW i \in 1 .. n + 1, NEW k \in 1 .. Len(s[i])
                 PROVE  off[i] + k \in 1 .. Len(c) /\ c[off[i] + k] = s[i][k]
      BY <2>11 DEF Kept
    <3>1. CASE i = n + 1
      <4>1. s[i] = b /\ off[i] = o /\ k \in 1 .. Len(b)
        BY <2>11, <3>1
      <4>2. o + k \in 1 .. Len(c) /\ c[o + k] = b[k]
        BY <2>8, <2>12, <4>1
      <4>3. QED
        BY <4>1, <4>2
    <3>2. CASE i \in 1 .. n
      <4>1. off[i] + k \in 1 .. Len(a) /\ a[off[i] + k] = s[i][k]
        BY <2>1, <2>11, <3>2 DEF Kept
      <4>2. QED
        BY <2>8, <4>1
    <3>3. QED
      BY <3>1, <3>2
  <2>6. All(n + 1)
    <3> SUFFICES ASSUME NEW p \in 1 .. Len(c)
                 PROVE  \E i \in 1 .. n + 1 : \E k \in 1 .. Len(s[i]) : p = off[i] + k
      BY <2>11 DEF All
    <3>1. CASE p <= Len(a)
      <4>1. p \in 1 .. Len(a)
        BY <2>8, <3>1
      <4>2. PICK i \in 1 .. n : \E k \in 1 .. Len(s[i]) : p = off[i] + k
        BY <2>1, <2>11, <4>1 DEF All
      <4>3. QED
        BY <4>2
    <3>2. CASE p > Len(a)
      <4>1. p - o \in 1 .. Len(b) /\ p = o + (p - o)
        BY <2>8, <2>12, <3>2
      <4>2. \E k \in 1 .. Len(s[n + 1]) : p = off[n + 1] + k
        BY <2>11, <4>1
      <4>3. QED
        BY <4>2
    <3>3. QED
      BY <2>8, <3>1, <3>2
  <2>7. QED
    BY <2>4, <2>5, <2>6
<1> HIDE DEF S, Mono, Kept, All
<1>8. Nat \subseteq S
  BY <1>6, <1>7, Induction
<1>9. \A n \in 0 .. N : Mono(n) /\ Kept(n) /\ All(n)
  BY <1>2, <1>8 DEF S
<1>10. Kept(N) /\ All(N) /\ f[N] \in Seq(X) /\ off[N + 1] = Len(f[N])
  <2>1. N \in 0 .. N
    BY <1>2
  <2>2. QED
    BY <1>3, <1>4, <1>9, <2>1
<1>11. \A i \in 1 .. N : \A j \in i + 1 .. N + 1 : off[i + 1] <= off[j]
  <2> SUFFICES ASSUME NEW i \in 1 .. N, NEW j \in i + 1 .. N + 1
               PROVE  off[i + 1] <= off[j]
    OBVIOUS
  <2>1. j - 1 \in 0 .. N /\ (j - 1) + 1 = j /\ i + 1 \in 1 .. j
    BY <1>2
  <2>2. \A l \in 1 .. (j - 1) + 1 : off[l] <= off[(j - 1) + 1]
    BY <1>9, <2>1 DEF Mono
  <2>3. QED
    BY <2>1, <2>2
<1>12. Places(off, s, f[N])
  BY <1>4, <1>5, <1>10, <1>11 DEF Places, N, Kept, All
<1>13. QED
  BY <1>1, <1>10, <1>12 DEF N

-----------------------------------------------------------------------------
(* Reading one field back.                                                 *)

N == Len(Questions)

LEMMA LineParts ==
    ASSUME NEW g \in Lines
    PROVE  Line(g.tags, g.text) = g
BY DEF Lines, Line

\* A field that nothing was written for is read as nothing.
LEMMA ValueOfNone ==
    ASSUME NEW w, NEW q, NEW f,
           \A p \in 1 .. Len(w) : ~(Starts(Questions, w[p]) /\ w[p].tags[1].field = f
                                                          /\ w[p].tags[1].q = q)
    PROVE  Value(Questions, w, q, f) = <<>>
BY DEF Value, Target

\* The lines G of field f of question q stand in w after the first b lines.
StandsAt(G, w, q, f, b, tag) ==
    /\ tag.q = q /\ tag.field = f
    /\ b + Len(G) <= Len(w)
    /\ Starts(Questions, w[b + 1]) /\ w[b + 1] = Line(<<tag>> \o G[1].tags, G[1].text)
    /\ \A k \in 2 .. Len(G) : w[b + k] = G[k] /\ ~Starts(Questions, w[b + k])
    /\ b + Len(G) = Len(w) \/ Starts(Questions, w[b + Len(G) + 1])
    /\ \A p \in 1 .. Len(w) : Starts(Questions, w[p]) /\ w[p].tags[1].field = f
                                                     /\ w[p].tags[1].q = q => p = b + 1

\* A field is read from its tagged line up to the next line that starts one.
LEMMA ValueOfLines ==
    ASSUME NEW w \in Seq(Lines), NEW q, NEW f, NEW b \in Nat, NEW G \in Seq(Lines), G # <<>>,
           NEW tag \in Tags, StandsAt(G, w, q, f, b, tag)
    PROVE  Value(Questions, w, q, f) = G
<1> DEFINE starts == {i \in 1 .. Len(w) : Starts(Questions, w[i])}
           mine == {i \in starts : /\ w[i].tags[1].field = f
                                   /\ Target(Questions, w[i].tags[1]) = q}
           at == CHOOSE i \in mine : \A j \in mine : j <= i
           Ends(e) == /\ \A i \in at + 1 .. e : i \notin starts
                      /\ e = Len(w) \/ e + 1 \in starts
           end == CHOOSE e \in at .. Len(w) : Ends(e)
<1> SUFFICES ASSUME tag.q = q, tag.field = f,
                    b + Len(G) <= Len(w),
                    Starts(Questions, w[b + 1]),
                    w[b + 1] = Line(<<tag>> \o G[1].tags, G[1].text),
                    \A k \in 2 .. Len(G) : w[b + k] = G[k] /\ ~Starts(Questions, w[b + k]),
                    b + Len(G) = Len(w) \/ Starts(Questions, w[b + Len(G) + 1]),
                    \A p \in 1 .. Len(w) : Starts(Questions, w[p]) /\ w[p].tags[1].field = f
                                                     /\ w[p].tags[1].q = q => p = b + 1
             PROVE  Value(Questions, w, q, f) = G
  BY DEF StandsAt
<1>1. Len(G) \in Nat /\ Len(G) >= 1 /\ Len(w) \in Nat /\ G[1] \in Lines
  OBVIOUS
<1>2. G[1].tags \in Seq(Tags)
  BY <1>1 DEF Lines
<1>3. w[b + 1].tags = <<tag>> \o G[1].tags /\ w[b + 1].text = G[1].text
  BY DEF Line
<1>4. w[b + 1].tags[1] = tag /\ Tail(w[b + 1].tags) = G[1].tags
  <2>1. (<<tag>> \o G[1].tags)[1] = tag /\ Tail(<<tag>> \o G[1].tags) = G[1].tags
    BY <1>2
  <2>2. QED
    BY <1>3, <2>1
<1>5. mine = {b + 1}
  <2>1. b + 1 \in 1 .. Len(w)
    BY <1>1
  <2>2. b + 1 \in mine
    BY <1>4, <2>1 DEF Target
  <2>3. QED
    BY <2>2 DEF Target
<1>6. at = b + 1
  BY <1>5
<1>7. Value(Questions, w, q, f) =
        <<Line(Tail(w[at].tags), w[at].text)>> \o SubSeq(w, at + 1, end)
  BY <1>5, Zenon DEF Value
<1> HIDE DEF mine, at
<1>8. \A i \in at + 1 .. b + Len(G) : i \notin starts
  <2> SUFFICES ASSUME NEW i \in at + 1 .. b + Len(G)
               PROVE  ~Starts(Questions, w[i])
    OBVIOUS
  <2>1. i - b \in 2 .. Len(G) /\ i = b + (i - b)
    BY <1>1, <1>6
  <2>2. QED
    BY <2>1
<1>9. Ends(b + Len(G)) /\ b + Len(G) \in at .. Len(w)
  <2>1. b + Len(G) # Len(w) => b + Len(G) + 1 \in 1 .. Len(w)
    BY <1>1
  <2>2. QED
    BY <1>1, <1>6, <1>8, <2>1
<1>10. ASSUME NEW e \in at .. Len(w), Ends(e)
       PROVE  e = b + Len(G)
  <2>1. CASE e < b + Len(G)
    <3>1. e + 1 \in at + 1 .. b + Len(G) /\ e # Len(w)
      BY <1>1, <1>6, <2>1
    <3>2. QED
      BY <1>8, <1>10, <3>1
  <2>2. CASE e > b + Len(G)
    <3>1. b + Len(G) + 1 \in at + 1 .. e /\ b + Len(G) # Len(w)
      BY <1>1, <1>6, <2>2
    <3>2. QED
      BY <1>9, <1>10, <3>1
  <2>3. e \in Nat /\ b + Len(G) \in Nat
    BY <1>1, <1>6
  <2>4. \A x \in Nat, y \in Nat : x < y \/ x > y \/ x = y
    OBVIOUS
  <2>5. QED
    BY <2>1, <2>2, <2>3, <2>4, Zenon
<1>11. end = b + Len(G)
  BY <1>9, <1>10
<1> HIDE DEF end, starts
<1>12. Value(Questions, w, q, f) = <<G[1]>> \o SubSeq(w, b + 2, b + Len(G))
  <2>1. at + 1 = b + 2
    BY <1>6
  <2>2. Line(Tail(w[at].tags), w[at].text) = G[1]
    BY <1>1, <1>3, <1>4, <1>6, LineParts
  <2>3. QED
    BY <1>7, <1>11, <2>1, <2>2
<1>13. <<G[1]>> \o SubSeq(w, b + 2, b + Len(G)) = G
  <2> DEFINE r == SubSeq(w, b + 2, b + Len(G))
             v == <<G[1]>> \o r
  <2>1. r \in Seq(Lines) /\ Len(r) = Len(G) - 1 /\ \A k \in 1 .. Len(G) - 1 : r[k] = w[b + 1 + k]
    BY <1>1
  <2>2. \A k \in 1 .. Len(G) - 1 : r[k] = G[k + 1]
    <3> SUFFICES ASSUME NEW k \in 1 .. Len(G) - 1
                 PROVE  r[k] = G[k + 1]
      OBVIOUS
    <3>1. k + 1 \in 2 .. Len(G) /\ b + 1 + k = b + (k + 1)
      BY <1>1
    <3>2. w[b + (k + 1)] = G[k + 1]
      BY <3>1
    <3>3. QED
      BY <2>1, <3>1, <3>2
  <2> HIDE DEF r
  <2>3. v \in Seq(Lines) /\ Len(v) = Len(G) /\ v[1] = G[1] /\ \A k \in 2 .. Len(G) : v[k] = r[k - 1]
    BY <1>1, <2>1
  <2>4. \A k \in 1 .. Len(G) : v[k] = G[k]
    <3> SUFFICES ASSUME NEW k \in 1 .. Len(G)
                 PROVE  v[k] = G[k]
      OBVIOUS
    <3>1. CASE k = 1
      BY <2>3, <3>1
    <3>2. CASE k # 1
      <4>1. k - 1 \in 1 .. Len(G) - 1 /\ (k - 1) + 1 = k /\ k \in 2 .. Len(G)
        BY <1>1, <3>2
      <4>2. QED
        BY <2>2, <2>3, <4>1
    <3>3. QED
      BY <3>1, <3>2
  <2> HIDE DEF v
  <2>5. v = G
    <3>1. v \in Seq(Lines) /\ G \in Seq(Lines) /\ Len(v) = Len(G)
      BY <2>3
    <3>2. \A k \in 1 .. Len(v) : v[k] = G[k]
      BY <2>4, <3>1
    <3>3. QED
      BY <3>1, <3>2, SeqEqual
  <2>6. QED
    BY <2>5 DEF v, r
<1>14. QED
  BY <1>12, <1>13

-----------------------------------------------------------------------------
(* The fields of an answer string.                                         *)

\* The responses to the whole group.
Replies == {rs \in [1 .. N -> [chosen : SUBSET Nat, custom : Seq(Lines), question : Seq(Lines)]] :
              \A q \in 1 .. N : rs[q].chosen \in Picks(Questions[q])}

\* The lines that a field of question q is to be read back as.
Put(rs, q, f) ==
    CASE f = "answer"   -> IF rs[q].chosen = {} THEN <<>>
                           ELSE <<Line(<<>>, Picked(Questions[q], rs[q].chosen))>>
      [] f = "custom"   -> Trim(rs[q].custom)
      [] f = "question" -> Trim(rs[q].question)

TagOf(q, f)     == Tag(q, Questions[q].head, f)
Part(rs, q, f)  == Field(TagOf(q, f), Put(rs, q, f))
Block(rs, q)    == Part(rs, q, "answer") \o Part(rs, q, "custom") \o Part(rs, q, "question")

LEMMA QuestionTypes ==
    ASSUME NEW q \in 1 .. N
    PROVE  /\ N \in Nat /\ Questions[q].head \in STRING /\ Questions[q].multiSelect \in BOOLEAN
           /\ Questions[q].options \in Seq(Seq(STRING))
           /\ \A f \in Fields : TagOf(q, f) \in Tags
<1> DEFINE Q == [head : STRING, multiSelect : BOOLEAN, options : Seq(Seq(STRING))]
<1>1. Questions \in Seq(Q) /\ N \in Nat
  <2>1. Questions \in Seq(Q)
    BY TranscriptAssumption
  <2> HIDE DEF Q
  <2>2. QED
    BY <2>1 DEF N
<1> HIDE DEF Q
<1>2. Questions[q] \in Q
  BY <1>1 DEF N
<1>3. /\ Questions[q].head \in STRING /\ Questions[q].multiSelect \in BOOLEAN
      /\ Questions[q].options \in Seq(Seq(STRING))
  BY <1>2 DEF Q
<1>4. \A f \in Fields : TagOf(q, f) \in Tags
  <2>1. q \in Nat
    BY <1>1
  <2>2. QED
    BY <1>3, <2>1 DEF TagOf, Tag, Tags
<1>5. QED
  BY <1>1, <1>3, <1>4

LEMMA TrimType ==
    ASSUME NEW lines \in Seq(Lines)
    PROVE  Trim(lines) \in Seq(Lines)
<1> DEFINE ink == {i \in 1 .. Len(lines) : lines[i] # BlankLine}
           first == CHOOSE i \in ink : \A j \in ink : i <= j
           last == CHOOSE i \in ink : \A j \in ink : i >= j
<1>1. CASE ink = {}
  BY <1>1 DEF Trim
<1>2. CASE ink # {}
  <2>1. \E i \in ink : \A j \in ink : i <= j
    <3>1. ink \in SUBSET Nat
      OBVIOUS
    <3>2. QED
      BY <1>2, <3>1, Least
  <2>2. first \in 1 .. Len(lines)
    BY <2>1
  <2>3. \E i \in ink : \A j \in ink : i >= j
    <3> DEFINE T == {Len(lines) - i : i \in ink}
    <3>1. T \in SUBSET Nat /\ T # {}
      BY <1>2
    <3>2. PICK n \in T : \A m \in T : n <= m
      BY <3>1, Least
    <3>3. PICK i \in ink : n = Len(lines) - i
      BY <3>2
    <3>4. \A j \in ink : n <= Len(lines) - j
      BY <3>2
    <3>5. \A j \in ink : i >= j
      BY <3>3, <3>4
    <3>6. QED
      BY <3>5
  <2>4. last \in 1 .. Len(lines)
    BY <2>3
  <2>5. Trim(lines) = SubSeq(lines, first, last)
    BY <1>2 DEF Trim
  <2> HIDE DEF first, last
  <2>6. SubSeq(lines, first, last) \in Seq(Lines)
    BY <2>2, <2>4
  <2>7. QED
    BY <2>5, <2>6
<1>3. QED
  BY <1>1, <1>2

\* A field has one line for each of its text, and the first has the tag.
LEMMA FieldLines ==
    ASSUME NEW tag \in Tags, NEW lines \in Seq(Lines)
    PROVE  /\ Field(tag, lines) \in Seq(Lines) /\ Len(Field(tag, lines)) = Len(lines)
           /\ lines # <<>> => Field(tag, lines)[1] = Line(<<tag>> \o lines[1].tags, lines[1].text)
           /\ \A k \in 2 .. Len(lines) : Field(tag, lines)[k] = lines[k]
<1>1. CASE lines = <<>>
  BY <1>1 DEF Field
<1>2. CASE lines # <<>>
  <2> DEFINE h == Line(<<tag>> \o lines[1].tags, lines[1].text)
  <2>1. Len(lines) \in Nat /\ Len(lines) >= 1 /\ lines[1] \in Lines
    BY <1>2
  <2>2. lines[1].tags \in Seq(Tags) /\ lines[1].text \in Seq(STRING)
    BY <2>1 DEF Lines
  <2>3. <<tag>> \o lines[1].tags \in Seq(Tags)
    BY <2>2
  <2>4. h \in Lines
    BY <2>2, <2>3 DEF Line, Lines
  <2>5. Field(tag, lines) = <<h>> \o Tail(lines)
    BY <1>2 DEF Field
  <2> HIDE DEF h
  <2>6. Tail(lines) \in Seq(Lines) /\ Len(Tail(lines)) = Len(lines) - 1
        /\ \A k \in 1 .. Len(lines) - 1 : Tail(lines)[k] = lines[k + 1]
    BY <1>2, <2>1
  <2> DEFINE v == <<h>> \o Tail(lines)
  <2>7. v \in Seq(Lines) /\ Len(v) = Len(lines) /\ v[1] = h
        /\ \A k \in 2 .. Len(lines) : v[k] = Tail(lines)[k - 1]
    BY <2>1, <2>4, <2>6
  <2>8. \A k \in 2 .. Len(lines) : Tail(lines)[k - 1] = lines[k]
    BY <2>1, <2>6
  <2> HIDE DEF v
  <2>9. Field(tag, lines) = v
    BY <2>5 DEF v
  <2>10. QED
    BY <2>7, <2>8, <2>9 DEF h
<1>3. QED
  BY <1>1, <1>2

\* The labels of the picked options, each where it stands.
LEMMA PickedPlaces ==
    ASSUME NEW q \in 1 .. N, NEW chosen
    PROVE  LET o == Questions[q].options
               s == [i \in 1 .. Len(o) |-> IF i \in chosen THEN o[i] ELSE <<>>]
           IN  /\ Picked(Questions[q], chosen) \in Seq(STRING)
               /\ s \in Seq(Seq(STRING)) /\ Len(s) = Len(o)
               /\ \E off : Places(off, s, Picked(Questions[q], chosen))
<1> DEFINE o == Questions[q].options
           s == [i \in 1 .. Len(o) |-> IF i \in chosen THEN o[i] ELSE <<>>]
<1>1. o \in Seq(Seq(STRING))
  BY QuestionTypes
<1>2. Picked(Questions[q], chosen) = FlattenSeq(s)
  BY DEF Picked
<1> HIDE DEF o
<1>3. s \in Seq(Seq(STRING)) /\ Len(s) = Len(o)
  <2>1. \A i \in 1 .. Len(o) : s[i] \in Seq(STRING)
    <3> SUFFICES ASSUME NEW i \in 1 .. Len(o)
                 PROVE  s[i] \in Seq(STRING)
      OBVIOUS
    <3>1. o[i] \in Seq(STRING)
      BY <1>1
    <3>2. s[i] = o[i] \/ s[i] = <<>>
      OBVIOUS
    <3>3. <<>> \in Seq(STRING)
      OBVIOUS
    <3> HIDE DEF s
    <3>4. QED
      BY <3>1, <3>2, <3>3
  <2>2. Len(o) \in Nat
    BY <1>1
  <2>3. s \in [1 .. Len(o) -> Seq(STRING)]
    BY <2>1
  <2>4. QED
    BY <2>2, <2>3
<1> HIDE DEF s
<1>4. FlattenSeq(s) \in Seq(STRING) /\ \E off : Places(off, s, FlattenSeq(s))
  BY <1>3, FlattenPlaces
<1>5. QED
  BY <1>2, <1>3, <1>4 DEF s, o

LEMMA PutType ==
    ASSUME NEW rs \in Replies, NEW q \in 1 .. N, NEW f \in Fields
    PROVE  Put(rs, q, f) \in Seq(Lines)
<1>1. rs[q].custom \in Seq(Lines) /\ rs[q].question \in Seq(Lines)
  BY DEF Replies
<1>2. Trim(rs[q].custom) \in Seq(Lines) /\ Trim(rs[q].question) \in Seq(Lines)
  BY <1>1, TrimType
<1>3. Picked(Questions[q], rs[q].chosen) \in Seq(STRING)
  BY PickedPlaces
<1>4. Line(<<>>, Picked(Questions[q], rs[q].chosen)) \in Lines
  BY <1>3 DEF Line, Lines
<1>5. CASE f = "answer"
  BY <1>4, <1>5 DEF Put
<1>6. CASE f = "custom"
  BY <1>2, <1>6 DEF Put
<1>7. CASE f = "question"
  BY <1>2, <1>7 DEF Put
<1>8. QED
  BY <1>5, <1>6, <1>7 DEF Fields

LEMMA PartLines ==
    ASSUME NEW rs \in Replies, NEW q \in 1 .. N, NEW f \in Fields
    PROVE  /\ Part(rs, q, f) \in Seq(Lines) /\ Len(Part(rs, q, f)) = Len(Put(rs, q, f))
           /\ Put(rs, q, f) \in Seq(Lines) /\ Len(Part(rs, q, f)) \in Nat
           /\ LET g == Put(rs, q, f)
              IN  /\ g # <<>> => Part(rs, q, f)[1] = Line(<<TagOf(q, f)>> \o g[1].tags, g[1].text)
                  /\ \A k \in 2 .. Len(g) : Part(rs, q, f)[k] = g[k]
<1>1. Put(rs, q, f) \in Seq(Lines) /\ TagOf(q, f) \in Tags
  BY PutType, QuestionTypes
<1>2. QED
  BY <1>1, FieldLines DEF Part

\* Where the field stands in the block of its question.
Into(rs, q, f) ==
    IF f = "answer" THEN 0
    ELSE IF f = "custom" THEN Len(Part(rs, q, "answer"))
    ELSE Len(Part(rs, q, "answer")) + Len(Part(rs, q, "custom"))

LEMMA BlockPlaces ==
    ASSUME NEW rs \in Replies, NEW q \in 1 .. N
    PROVE  /\ Block(rs, q) \in Seq(Lines)
           /\ \A f \in Fields :
                /\ Into(rs, q, f) \in Nat /\ Into(rs, q, f) + Len(Part(rs, q, f)) <= Len(Block(rs, q))
                /\ \A k \in 1 .. Len(Part(rs, q, f)) : Block(rs, q)[Into(rs, q, f) + k] = Part(rs, q, f)[k]
                /\ \A g \in Fields \ {f} :
                     \/ Into(rs, q, f) + Len(Part(rs, q, f)) <= Into(rs, q, g)
                     \/ Into(rs, q, g) + Len(Part(rs, q, g)) <= Into(rs, q, f)
           /\ \A p \in 1 .. Len(Block(rs, q)) :
                \E f \in Fields : \E k \in 1 .. Len(Part(rs, q, f)) : p = Into(rs, q, f) + k
<1> DEFINE a == Part(rs, q, "answer")
           b == Part(rs, q, "custom")
           c == Part(rs, q, "question")
           d == Block(rs, q)
<1>1. a \in Seq(Lines) /\ b \in Seq(Lines) /\ c \in Seq(Lines)
  BY PartLines DEF Fields
<1>2. d = (a \o b) \o c
  BY DEF Block
<1>3. /\ Into(rs, q, "answer") = 0 /\ Into(rs, q, "custom") = Len(a)
      /\ Into(rs, q, "question") = Len(a) + Len(b)
  BY DEF Into
<1>4. /\ a = Part(rs, q, "answer") /\ b = Part(rs, q, "custom") /\ c = Part(rs, q, "question")
      /\ d = Block(rs, q)
  OBVIOUS
<1> HIDE DEF a, b, c, d
<1>5. /\ Len(a) \in Nat /\ Len(b) \in Nat /\ Len(c) \in Nat
      /\ d \in Seq(Lines) /\ Len(d) = Len(a) + Len(b) + Len(c)
  BY <1>1, <1>2
<1>6. /\ \A k \in 1 .. Len(a) : d[k] = a[k]
      /\ \A k \in 1 .. Len(b) : d[Len(a) + k] = b[k]
      /\ \A k \in 1 .. Len(c) : d[Len(a) + Len(b) + k] = c[k]
  <2> DEFINE ab == a \o b
  <2>1. /\ ab \in Seq(Lines) /\ Len(ab) = Len(a) + Len(b)
        /\ \A k \in 1 .. Len(a) : ab[k] = a[k]
        /\ \A k \in 1 .. Len(b) : ab[Len(a) + k] = b[k]
    BY <1>1, Concat
  <2> HIDE DEF ab
  <2>2. d = ab \o c
    BY <1>2 DEF ab
  <2>3. /\ \A k \in 1 .. Len(ab) : d[k] = ab[k]
        /\ \A k \in 1 .. Len(c) : d[Len(ab) + k] = c[k]
    BY <1>1, <2>1, <2>2, Concat
  <2>4. ASSUME NEW k \in 1 .. Len(b)
        PROVE  d[Len(a) + k] = b[k]
    <3>1. Len(a) + k \in 1 .. Len(ab)
      BY <1>5, <2>1
    <3>2. QED
      BY <2>1, <2>3, <3>1
  <2>5. QED
    BY <1>5, <2>1, <2>3, <2>4
<1>7. \A p \in 1 .. Len(d) : \/ \E k \in 1 .. Len(a) : p = 0 + k
                             \/ \E k \in 1 .. Len(b) : p = Len(a) + k
                             \/ \E k \in 1 .. Len(c) : p = Len(a) + Len(b) + k
  <2> SUFFICES ASSUME NEW p \in 1 .. Len(d)
               PROVE  \/ \E k \in 1 .. Len(a) : p = 0 + k
                      \/ \E k \in 1 .. Len(b) : p = Len(a) + k
                      \/ \E k \in 1 .. Len(c) : p = Len(a) + Len(b) + k
    OBVIOUS
  <2>1. CASE p <= Len(a)
    <3>1. p \in 1 .. Len(a) /\ p = 0 + p
      BY <1>5, <2>1
    <3>2. QED
      BY <3>1
  <2>2. CASE p > Len(a) /\ p <= Len(a) + Len(b)
    <3>1. p - Len(a) \in 1 .. Len(b) /\ p = Len(a) + (p - Len(a))
      BY <1>5, <2>2
    <3>2. QED
      BY <3>1
  <2>3. CASE p > Len(a) + Len(b)
    <3>1. /\ p - (Len(a) + Len(b)) \in 1 .. Len(c)
          /\ p = Len(a) + Len(b) + (p - (Len(a) + Len(b)))
      BY <1>5, <2>3
    <3>2. QED
      BY <3>1
  <2>4. QED
    BY <1>5, <2>1, <2>2, <2>3
<1>8. \A f \in Fields : f \in {"answer", "custom", "question"}
  BY DEF Fields
<1>9. /\ \A f \in Fields :
           /\ Into(rs, q, f) \in Nat /\ Into(rs, q, f) + Len(Part(rs, q, f)) <= Len(d)
           /\ \A k \in 1 .. Len(Part(rs, q, f)) : d[Into(rs, q, f) + k] = Part(rs, q, f)[k]
  <2>1. \A k \in 1 .. Len(a) : d[0 + k] = a[k]
    BY <1>5, <1>6
  <2> SUFFICES ASSUME NEW f \in Fields
               PROVE  /\ Into(rs, q, f) \in Nat /\ Into(rs, q, f) + Len(Part(rs, q, f)) <= Len(d)
                      /\ \A k \in 1 .. Len(Part(rs, q, f)) : d[Into(rs, q, f) + k] = Part(rs, q, f)[k]
    OBVIOUS
  <2>2. CASE f = "answer"
    BY <1>3, <1>4, <1>5, <2>1, <2>2
  <2>3. CASE f = "custom"
    <3>1. Into(rs, q, f) = Len(a) /\ Part(rs, q, f) = b
      BY <1>3, <1>4, <2>3
    <3>2. QED
      BY <1>5, <1>6, <3>1
  <2>4. CASE f = "question"
    <3>1. Into(rs, q, f) = Len(a) + Len(b) /\ Part(rs, q, f) = c
      BY <1>3, <1>4, <2>4
    <3>2. QED
      BY <1>5, <1>6, <3>1
  <2>5. QED
    BY <1>8, <2>2, <2>3, <2>4
<1>10. \A f \in Fields, g \in Fields : f # g =>
          \/ Into(rs, q, f) + Len(Part(rs, q, f)) <= Into(rs, q, g)
          \/ Into(rs, q, g) + Len(Part(rs, q, g)) <= Into(rs, q, f)
  BY <1>3, <1>4, <1>5, <1>8
<1>11. \A p \in 1 .. Len(d) :
          \E f \in Fields : \E k \in 1 .. Len(Part(rs, q, f)) : p = Into(rs, q, f) + k
  <2>1. "answer" \in Fields /\ "custom" \in Fields /\ "question" \in Fields
    BY DEF Fields
  <2> SUFFICES ASSUME NEW p \in 1 .. Len(d)
               PROVE  \E f \in Fields : \E k \in 1 .. Len(Part(rs, q, f)) : p = Into(rs, q, f) + k
    OBVIOUS
  <2>2. CASE \E k \in 1 .. Len(a) : p = 0 + k
    <3>1. \E k \in 1 .. Len(Part(rs, q, "answer")) : p = Into(rs, q, "answer") + k
      BY <1>3, <1>4, <2>2
    <3>2. QED
      BY <2>1, <3>1
  <2>3. CASE \E k \in 1 .. Len(b) : p = Len(a) + k
    <3>1. \E k \in 1 .. Len(Part(rs, q, "custom")) : p = Into(rs, q, "custom") + k
      BY <1>3, <1>4, <2>3
    <3>2. QED
      BY <2>1, <3>1
  <2>4. CASE \E k \in 1 .. Len(c) : p = Len(a) + Len(b) + k
    <3>1. \E k \in 1 .. Len(Part(rs, q, "question")) : p = Into(rs, q, "question") + k
      BY <1>3, <1>4, <2>4
    <3>2. QED
      BY <2>1, <3>1
  <2>5. QED
    BY <1>7, <2>2, <2>3, <2>4
<1>12. QED
  BY <1>4, <1>5, <1>9, <1>10, <1>11

\* Where the field stands in the whole answer.
At(off, rs, q, f) == off[q] + Into(rs, q, f)

Bases(off, rs, w) ==
    /\ \A q \in 1 .. N : \A f \in Fields :
         /\ At(off, rs, q, f) \in Nat /\ At(off, rs, q, f) + Len(Part(rs, q, f)) <= Len(w)
         /\ \A k \in 1 .. Len(Part(rs, q, f)) : w[At(off, rs, q, f) + k] = Part(rs, q, f)[k]
         /\ \A r \in 1 .. N : \A g \in Fields : <<q, f>> # <<r, g>> =>
              \/ At(off, rs, q, f) + Len(Part(rs, q, f)) <= At(off, rs, r, g)
              \/ At(off, rs, r, g) + Len(Part(rs, r, g)) <= At(off, rs, q, f)
    /\ \A p \in 1 .. Len(w) : \E q \in 1 .. N : \E f \in Fields :
         \E k \in 1 .. Len(Part(rs, q, f)) : p = At(off, rs, q, f) + k

LEMMA FormatBases ==
    ASSUME NEW rs \in Replies
    PROVE  LET w == FormatGroupAnswer(Questions, rs)
           IN  w \in Seq(Lines) /\ \E off : Bases(off, rs, w)
<1> DEFINE s == [q \in 1 .. N |-> Block(rs, q)]
           w == FormatGroupAnswer(Questions, rs)
<1>1. N \in Nat
  BY TranscriptAssumption DEF N
<1>2. s \in Seq(Seq(Lines)) /\ Len(s) = N /\ \A q \in 1 .. N : s[q] = Block(rs, q)
  <2>1. \A q \in 1 .. N : Block(rs, q) \in Seq(Lines)
    BY BlockPlaces
  <2>2. s \in [1 .. N -> Seq(Lines)]
    BY <2>1
  <2>3. QED
    BY <1>1, <2>2
<1>3. w = FlattenSeq(s)
  BY DEF FormatGroupAnswer, N, Block, Part, Put, TagOf, Field
<1> HIDE DEF s, w
<1>4. w \in Seq(Lines)
  BY <1>2, <1>3, FlattenPlaces
<1>5. PICK off : Places(off, s, w)
  BY <1>2, <1>3, FlattenPlaces
<1>6. /\ off \in [1 .. N + 1 -> Nat] /\ off[N + 1] = Len(w)
      /\ \A q \in 1 .. N :
           /\ off[q + 1] = off[q] + Len(Block(rs, q))
           /\ \A r \in q + 1 .. N + 1 : off[q + 1] <= off[r]
           /\ \A k \in 1 .. Len(Block(rs, q)) : w[off[q] + k] = Block(rs, q)[k]
      /\ \A p \in 1 .. Len(w) : \E q \in 1 .. N : \E k \in 1 .. Len(Block(rs, q)) : p = off[q] + k
  BY <1>2, <1>5 DEF Places
<1>7. \A q \in 1 .. N : /\ off[q] \in Nat /\ Len(Block(rs, q)) \in Nat
                       /\ off[q] + Len(Block(rs, q)) <= Len(w)
  <2> SUFFICES ASSUME NEW q \in 1 .. N
               PROVE  /\ off[q] \in Nat /\ Len(Block(rs, q)) \in Nat
                      /\ off[q] + Len(Block(rs, q)) <= Len(w)
    OBVIOUS
  <2>1. Block(rs, q) \in Seq(Lines)
    BY BlockPlaces
  <2>2. off[q] \in Nat /\ off[q + 1] \in Nat
    <3>1. q \in 1 .. N + 1 /\ q + 1 \in 1 .. N + 1
      BY <1>1
    <3>2. QED
      BY <1>6, <3>1
  <2>3. off[q + 1] <= off[N + 1]
    <3>1. N + 1 \in q + 1 .. N + 1
      BY <1>1
    <3>2. QED
      BY <1>6, <3>1
  <2>4. QED
    BY <1>6, <2>1, <2>2, <2>3
<1>8. ASSUME NEW q \in 1 .. N, NEW f \in Fields
      PROVE  /\ At(off, rs, q, f) \in Nat /\ At(off, rs, q, f) + Len(Part(rs, q, f)) <= Len(w)
             /\ \A k \in 1 .. Len(Part(rs, q, f)) : w[At(off, rs, q, f) + k] = Part(rs, q, f)[k]
             /\ off[q] <= At(off, rs, q, f)
             /\ At(off, rs, q, f) + Len(Part(rs, q, f)) <= off[q] + Len(Block(rs, q))
  <2> DEFINE a == Part(rs, q, f)
             d == Block(rs, q)
             i == Into(rs, q, f)
             o == off[q]
  <2>1. /\ i \in Nat /\ i + Len(a) <= Len(d)
        /\ \A k \in 1 .. Len(a) : d[i + k] = a[k]
    BY BlockPlaces
  <2>2. Len(a) \in Nat /\ Len(d) \in Nat /\ Len(w) \in Nat /\ o \in Nat /\ o + Len(d) <= Len(w)
    BY <1>4, <1>7, PartLines
  <2>3. \A k \in 1 .. Len(d) : w[o + k] = d[k]
    BY <1>6
  <2>4. At(off, rs, q, f) = o + i
    BY DEF At
  <2> HIDE DEF a, d, i, o
  <2>5. \A k \in 1 .. Len(a) : w[(o + i) + k] = a[k]
    <3> SUFFICES ASSUME NEW k \in 1 .. Len(a)
                 PROVE  w[(o + i) + k] = a[k]
      OBVIOUS
    <3>1. i + k \in 1 .. Len(d) /\ (o + i) + k = o + (i + k)
      BY <2>1, <2>2
    <3>2. w[o + (i + k)] = d[i + k]
      BY <2>3, <3>1
    <3>3. QED
      BY <2>1, <3>1, <3>2
  <2>6. /\ o + i \in Nat /\ (o + i) + Len(a) <= Len(w)
        /\ o <= o + i /\ (o + i) + Len(a) <= o + Len(d)
    BY <2>1, <2>2
  <2>7. QED
    BY <2>4, <2>5, <2>6 DEF a, d, i, o
<1>9. ASSUME NEW q \in 1 .. N, NEW f \in Fields, NEW r \in 1 .. N, NEW g \in Fields,
             <<q, f>> # <<r, g>>
      PROVE  \/ At(off, rs, q, f) + Len(Part(rs, q, f)) <= At(off, rs, r, g)
             \/ At(off, rs, r, g) + Len(Part(rs, r, g)) <= At(off, rs, q, f)
  <2>1. ASSUME NEW x \in 1 .. N, NEW y \in 1 .. N, x < y, NEW h \in Fields, NEW e \in Fields
        PROVE  At(off, rs, x, h) + Len(Part(rs, x, h)) <= At(off, rs, y, e)
    <3>1. off[x + 1] <= off[y] /\ off[x + 1] = off[x] + Len(Block(rs, x))
      <4>1. y \in x + 1 .. N + 1
        BY <1>1, <2>1
      <4>2. QED
        BY <1>6, <4>1
    <3>2. /\ At(off, rs, x, h) + Len(Part(rs, x, h)) <= off[x] + Len(Block(rs, x))
          /\ off[y] <= At(off, rs, y, e)
          /\ At(off, rs, x, h) \in Nat /\ At(off, rs, y, e) \in Nat
      BY <1>8
    <3>3. Len(Part(rs, x, h)) \in Nat /\ off[x] \in Nat /\ off[y] \in Nat /\ Len(Block(rs, x)) \in Nat
      BY <1>7, PartLines
    <3>4. QED
      BY <3>1, <3>2, <3>3
  <2>2. CASE q = r
    <3>1. f # g
      BY <1>9, <2>2
    <3>2. \/ Into(rs, q, f) + Len(Part(rs, q, f)) <= Into(rs, q, g)
          \/ Into(rs, q, g) + Len(Part(rs, q, g)) <= Into(rs, q, f)
      BY <3>1, BlockPlaces
    <3>3. /\ Into(rs, q, f) \in Nat /\ Into(rs, q, g) \in Nat /\ off[q] \in Nat
          /\ Len(Part(rs, q, f)) \in Nat /\ Len(Part(rs, q, g)) \in Nat
      BY <1>7, BlockPlaces, PartLines
    <3>4. QED
      BY <2>2, <3>2, <3>3 DEF At
  <2>3. CASE q < r
    BY <2>1, <2>3
  <2>4. CASE r < q
    BY <2>1, <2>4
  <2>5. QED
    BY <1>1, <2>2, <2>3, <2>4
<1>10. ASSUME NEW p \in 1 .. Len(w)
       PROVE  \E q \in 1 .. N : \E f \in Fields :
                \E k \in 1 .. Len(Part(rs, q, f)) : p = At(off, rs, q, f) + k
  <2>0. PICK q \in 1 .. N : \E j \in 1 .. Len(Block(rs, q)) : p = off[q] + j
    BY <1>6
  <2>1. PICK j \in 1 .. Len(Block(rs, q)) : p = off[q] + j
    BY <2>0
  <2>2. PICK f \in Fields : \E k \in 1 .. Len(Part(rs, q, f)) : j = Into(rs, q, f) + k
    BY BlockPlaces
  <2>3. PICK k \in 1 .. Len(Part(rs, q, f)) : j = Into(rs, q, f) + k
    BY <2>2
  <2>4. off[q] \in Nat /\ Into(rs, q, f) \in Nat /\ Len(Part(rs, q, f)) \in Nat
    BY <1>7, BlockPlaces, PartLines
  <2>5. p = At(off, rs, q, f) + k
    BY <2>1, <2>3, <2>4 DEF At
  <2>6. QED
    BY <2>5
<1>11. Bases(off, rs, w)
  BY <1>8, <1>9, <1>10 DEF Bases
<1>12. QED
  BY <1>4, <1>11 DEF w

\* A field of the answer string is read back as the lines it was written for.
LEMMA PartRead ==
    ASSUME NEW rs \in Replies, Clear(rs), NEW q \in 1 .. N, NEW f \in Fields
    PROVE  Value(Questions, FormatGroupAnswer(Questions, rs), q, f) = Put(rs, q, f)
<1> DEFINE w == FormatGroupAnswer(Questions, rs)
<1>1. PICK off : Bases(off, rs, w)
  BY FormatBases
<1>2. w \in Seq(Lines)
  BY FormatBases
<1>3. N \in Nat /\ Len(w) \in Nat
  BY <1>2, TranscriptAssumption DEF N
<1> HIDE DEF w
\* The lines of the answer that start a field.
<1>4. ASSUME NEW r \in 1 .. N, NEW g \in Fields, Put(rs, r, g) # <<>>
      PROVE  LET l == w[At(off, rs, r, g) + 1]
             IN  /\ l = Line(<<TagOf(r, g)>> \o Put(rs, r, g)[1].tags, Put(rs, r, g)[1].text)
                 /\ l.tags[1] = TagOf(r, g) /\ Starts(Questions, l)
  <2> DEFINE l == w[At(off, rs, r, g) + 1]
             x == Put(rs, r, g)[1]
  <2>1. 1 \in 1 .. Len(Part(rs, r, g)) /\ x \in Lines /\ TagOf(r, g) \in Tags
    <3>1. Len(Part(rs, r, g)) = Len(Put(rs, r, g)) /\ Put(rs, r, g) \in Seq(Lines)
      BY PartLines
    <3>2. 1 \in 1 .. Len(Put(rs, r, g)) /\ x \in Lines
      BY <1>4, <3>1
    <3>3. QED
      BY <3>1, <3>2, QuestionTypes
  <2>2. l = Part(rs, r, g)[1]
    BY <1>1, <2>1 DEF Bases
  <2>3. l = Line(<<TagOf(r, g)>> \o x.tags, x.text)
    BY <1>4, <2>2, PartLines
  <2>4. x.tags \in Seq(Tags)
    BY <2>1 DEF Lines
  <2> HIDE DEF x, l
  <2>5. l.tags = <<TagOf(r, g)>> \o x.tags
    BY <2>3 DEF Line
  <2>6. l.tags[1] = TagOf(r, g) /\ l.tags # <<>>
    BY <2>1, <2>4, <2>5
  <2>7. TagOf(r, g).q = r /\ TagOf(r, g).head = Questions[r].head
    BY DEF TagOf, Tag
  <2>8. Starts(Questions, l)
    BY <2>6, <2>7 DEF Starts, N
  <2>9. QED
    BY <2>3, <2>6, <2>8 DEF l, x
<1>5. ASSUME NEW r \in 1 .. N, NEW g \in Fields, NEW k \in 2 .. Len(Put(rs, r, g))
      PROVE  w[At(off, rs, r, g) + k] = Put(rs, r, g)[k] /\ ~Starts(Questions, w[At(off, rs, r, g) + k])
  <2>1. k \in 1 .. Len(Part(rs, r, g)) /\ Part(rs, r, g)[k] = Put(rs, r, g)[k]
    <3>1. Len(Part(rs, r, g)) = Len(Put(rs, r, g)) /\ Len(Part(rs, r, g)) \in Nat
      BY PartLines
    <3>2. Part(rs, r, g)[k] = Put(rs, r, g)[k]
      BY PartLines
    <3>3. QED
      BY <3>1, <3>2
  <2>2. w[At(off, rs, r, g) + k] = Put(rs, r, g)[k]
    BY <1>1, <2>1 DEF Bases
  <2>3. ~Starts(Questions, Put(rs, r, g)[k])
    <3>1. CASE g = "answer"
      <4>1. Len(Put(rs, r, g)) <= 1
        BY <3>1 DEF Put
      <4>2. QED
        BY <4>1
    <3>2. CASE g = "custom"
      BY <3>2 DEF Put, Clear, Ambiguous, N
    <3>3. CASE g = "question"
      BY <3>3 DEF Put, Clear, Ambiguous, N
    <3>4. QED
      BY <3>1, <3>2, <3>3 DEF Fields
  <2>4. QED
    BY <2>2, <2>3
<1>6. ASSUME NEW p \in 1 .. Len(w), Starts(Questions, w[p])
      PROVE  \E r \in 1 .. N : \E g \in Fields :
               /\ Put(rs, r, g) # <<>> /\ p = At(off, rs, r, g) + 1
               /\ w[p].tags[1] = TagOf(r, g)
  <2>1. PICK r \in 1 .. N : \E g \in Fields : \E k \in 1 .. Len(Part(rs, r, g)) : p = At(off, rs, r, g) + k
    BY <1>1 DEF Bases
  <2>2. PICK g \in Fields : \E k \in 1 .. Len(Part(rs, r, g)) : p = At(off, rs, r, g) + k
    BY <2>1
  <2>3. PICK k \in 1 .. Len(Part(rs, r, g)) : p = At(off, rs, r, g) + k
    BY <2>2
  <2>4. Len(Part(rs, r, g)) = Len(Put(rs, r, g)) /\ Put(rs, r, g) \in Seq(Lines)
    BY PartLines
  <2>5. k = 1
    <3> SUFFICES ASSUME k # 1
                 PROVE  FALSE
      OBVIOUS
    <3>1. k \in 2 .. Len(Put(rs, r, g))
      BY <2>4
    <3>2. QED
      BY <1>5, <1>6, <2>3, <3>1
  <2>6. Put(rs, r, g) # <<>>
    BY <2>4, <2>5
  <2>7. QED
    BY <1>4, <2>3, <2>5, <2>6
<1>7. \A r \in 1 .. N : \A g \in Fields : TagOf(r, g).q = r /\ TagOf(r, g).field = g
  BY DEF TagOf, Tag
<1>8. CASE Put(rs, q, f) = <<>>
  <2>1. ASSUME NEW p \in 1 .. Len(w), Starts(Questions, w[p]), w[p].tags[1].field = f,
               w[p].tags[1].q = q
        PROVE  FALSE
    BY <1>6, <1>7, <1>8, <2>1
  <2>2. Value(Questions, w, q, f) = <<>>
    BY <2>1, ValueOfNone
  <2>3. QED
    BY <1>8, <2>2 DEF w
<1>9. CASE Put(rs, q, f) # <<>>
  <2> DEFINE b == At(off, rs, q, f)
             G == Put(rs, q, f)
             tag == TagOf(q, f)
  <2>1. /\ G \in Seq(Lines) /\ G # <<>> /\ Len(G) \in Nat /\ Len(Part(rs, q, f)) = Len(G)
        /\ tag \in Tags /\ tag.q = q /\ tag.field = f
    <3>1. /\ G \in Seq(Lines) /\ Len(Part(rs, q, f)) = Len(G) /\ Len(Part(rs, q, f)) \in Nat
      BY PartLines
    <3>2. tag \in Tags
      BY QuestionTypes
    <3>3. QED
      BY <1>7, <1>9, <3>1, <3>2
  <2>2. b \in Nat /\ b + Len(G) <= Len(w)
    BY <1>1, <2>1 DEF Bases
  <2>3. Starts(Questions, w[b + 1]) /\ w[b + 1] = Line(<<tag>> \o G[1].tags, G[1].text)
    BY <1>4, <1>9
  <2>4. \A k \in 2 .. Len(G) : w[b + k] = G[k] /\ ~Starts(Questions, w[b + k])
    BY <1>5
  <2>5. \A p \in 1 .. Len(w) : Starts(Questions, w[p]) /\ w[p].tags[1].field = f
                                                     /\ w[p].tags[1].q = q => p = b + 1
    <3> SUFFICES ASSUME NEW p \in 1 .. Len(w), Starts(Questions, w[p]), w[p].tags[1].field = f,
                        w[p].tags[1].q = q
                 PROVE  p = b + 1
      OBVIOUS
    <3>1. PICK r \in 1 .. N : \E g \in Fields : /\ p = At(off, rs, r, g) + 1
                                               /\ w[p].tags[1] = TagOf(r, g)
      BY <1>6
    <3>2. PICK g \in Fields : p = At(off, rs, r, g) + 1 /\ w[p].tags[1] = TagOf(r, g)
      BY <3>1
    <3>3. r = q /\ g = f
      BY <1>7, <3>2
    <3>4. QED
      BY <3>2, <3>3
  \* The line after the field, if there is one, starts the field it is in.
  <2>6. b + Len(G) = Len(w) \/ Starts(Questions, w[b + Len(G) + 1])
    <3> SUFFICES ASSUME b + Len(G) # Len(w)
                 PROVE  Starts(Questions, w[b + Len(G) + 1])
      OBVIOUS
    <3> DEFINE p == b + Len(G) + 1
    <3>1. p \in 1 .. Len(w)
      BY <1>3, <2>1, <2>2
    <3>2. PICK r \in 1 .. N : \E g \in Fields : \E k \in 1 .. Len(Part(rs, r, g)) : p = At(off, rs, r, g) + k
      BY <1>1, <3>1 DEF Bases
    <3>3. PICK g \in Fields : \E k \in 1 .. Len(Part(rs, r, g)) : p = At(off, rs, r, g) + k
      BY <3>2
    <3>4. PICK k \in 1 .. Len(Part(rs, r, g)) : p = At(off, rs, r, g) + k
      BY <3>3
    <3> DEFINE c == At(off, rs, r, g)
               M == Len(Part(rs, r, g))
    <3>5. M \in Nat /\ M = Len(Put(rs, r, g)) /\ c \in Nat /\ k \in 1 .. M /\ p = c + k
      BY <1>1, <3>4, PartLines DEF Bases
    <3>6. <<r, g>> # <<q, f>>
      <4> SUFFICES ASSUME r = q, g = f
                   PROVE  FALSE
        OBVIOUS
      <4>1. c = b /\ M = Len(G)
        BY <2>1
      <4> HIDE DEF c, b, M, G
      <4>2. QED
        BY <2>1, <2>2, <3>5, <4>1
    <3>7. b + Len(G) <= c \/ c + M <= b
      BY <1>1, <2>1, <3>6 DEF Bases
    <3> HIDE DEF c, M
    <3>8. k = 1
      <4> HIDE DEF b, G
      <4>1. QED
        BY <2>1, <2>2, <3>5, <3>7
    <3>9. Put(rs, r, g) # <<>>
      BY <3>5
    <3>10. Starts(Questions, w[p])
      BY <1>4, <3>5, <3>8, <3>9 DEF c
    <3>11. QED
      BY <3>10
  <2> HIDE DEF b, G, tag
  <2>7. Value(Questions, w, q, f) = G
    <3>1. StandsAt(G, w, q, f, b, tag)
      BY <2>1, <2>2, <2>3, <2>4, <2>5, <2>6 DEF StandsAt
    <3>2. QED
      BY <1>2, <2>1, <2>2, <3>1, ValueOfLines
  <2>8. QED
    BY <2>7 DEF w, G
<1>10. QED
  BY <1>8, <1>9

-----------------------------------------------------------------------------
(* Reading the picked options back.                                        *)

\* One label is written as it is.
LEMMA PickedOne ==
    ASSUME NEW q \in 1 .. N, NEW i \in 1 .. Len(Questions[q].options)
    PROVE  Picked(Questions[q], {i}) = Questions[q].options[i]
<1> DEFINE o == Questions[q].options
           s == [j \in 1 .. Len(o) |-> IF j \in {i} THEN o[j] ELSE <<>>]
           w == Picked(Questions[q], {i})
           a == o[i]
<1>1. o \in Seq(Seq(STRING))
  BY QuestionTypes
<1>2. w \in Seq(STRING) /\ s \in Seq(Seq(STRING)) /\ Len(s) = Len(o) /\ \E off : Places(off, s, w)
  BY PickedPlaces
<1>3. PICK off : Places(off, s, w)
  BY <1>2
<1>4. i \in 1 .. Len(o) /\ Len(o) \in Nat /\ a \in Seq(STRING)
  BY <1>1
<1>5. s[i] = a /\ \A j \in 1 .. Len(o) : j # i => s[j] = <<>>
  BY <1>4
<1> HIDE DEF o, s, w
<1>6. a = o[i]
  OBVIOUS
<1> HIDE DEF a
<1>7. Len(a) \in Nat /\ Len(w) \in Nat
  BY <1>2, <1>4
<1> DEFINE b == off[i]
<1>8. /\ b \in Nat /\ b + Len(a) <= Len(w)
      /\ \A k \in 1 .. Len(a) : w[b + k] = a[k]
  <2>1. i \in 1 .. Len(o) + 1 /\ i + 1 \in 1 .. Len(o) + 1 /\ Len(o) + 1 \in i + 1 .. Len(o) + 1
    BY <1>4
  <2>2. off[i] \in Nat /\ off[i + 1] = off[i] + Len(a) /\ off[i + 1] <= off[Len(o) + 1]
    BY <1>2, <1>3, <1>4, <1>5, <2>1 DEF Places
  <2>3. off[Len(o) + 1] = Len(w)
    BY <1>2, <1>3 DEF Places
  <2>4. \A k \in 1 .. Len(a) : w[off[i] + k] = a[k]
    BY <1>2, <1>3, <1>4, <1>5 DEF Places
  <2>5. QED
    BY <2>2, <2>3, <2>4
<1>9. ASSUME NEW p \in 1 .. Len(w)
      PROVE  \E k \in 1 .. Len(a) : p = b + k
  <2>1. PICK j \in 1 .. Len(o) : \E k \in 1 .. Len(s[j]) : p = off[j] + k
    BY <1>2, <1>3 DEF Places
  <2>2. PICK k \in 1 .. Len(s[j]) : p = off[j] + k
    BY <2>1
  <2>3. j = i
    <3> SUFFICES ASSUME j # i
                 PROVE  FALSE
      OBVIOUS
    <3>1. Len(s[j]) = 0
      BY <1>5
    <3>2. QED
      BY <2>2, <3>1
  <2>4. QED
    BY <1>5, <2>2, <2>3
<1> HIDE DEF b
<1>10. Len(w) = Len(a) /\ (Len(w) # 0 => b = 0)
  <2>1. CASE Len(w) = 0
    BY <1>7, <1>8, <2>1
  <2>2. CASE Len(w) # 0
    <3>1. 1 \in 1 .. Len(w) /\ Len(w) \in 1 .. Len(w)
      BY <1>7, <2>2
    <3>2. PICK k \in 1 .. Len(a) : 1 = b + k
      BY <1>9, <3>1
    <3>3. PICK m \in 1 .. Len(a) : Len(w) = b + m
      BY <1>9, <3>1
    <3>4. QED
      BY <1>7, <1>8, <3>2, <3>3
  <2>3. QED
    BY <2>1, <2>2
<1>11. \A k \in 1 .. Len(a) : w[k] = a[k]
  <2> SUFFICES ASSUME NEW k \in 1 .. Len(a)
               PROVE  w[k] = a[k]
    OBVIOUS
  <2>1. b = 0 /\ b + k = k
    BY <1>7, <1>10
  <2>2. w[b + k] = a[k]
    BY <1>8
  <2>3. QED
    BY <2>1, <2>2
<1>12. w = a
  <2>1. w \in Seq(STRING) /\ a \in Seq(STRING) /\ Len(w) = Len(a)
    BY <1>2, <1>4, <1>10
  <2>2. \A k \in 1 .. Len(w) : w[k] = a[k]
    BY <1>10, <1>11
  <2>3. QED
    BY <2>1, <2>2, SeqEqual
<1>13. QED
  BY <1>6, <1>12 DEF w, o

\* The labels found in an answer of one line.
LEMMA LabelsOfLine ==
    ASSUME NEW w \in Seq(STRING)
    PROVE  Labels(<<Line(<<>>, w)>>) = {<<w[k]>> : k \in 1 .. Len(w)}
<1> DEFINE l == <<Line(<<>>, w)>>
<1>1. Len(l) = 1 /\ DOMAIN l = {1} /\ l[1].text = w /\ l[1].tags = <<>>
  BY DEF Line
<1> HIDE DEF l
<1>2. \A k : Whole(l, 1, k)
  BY <1>1 DEF Whole
<1>3. DOMAIN w = 1 .. Len(w)
  OBVIOUS
<1>4. Labels(l) = {<<w[k]>> : k \in 1 .. Len(w)}
  BY <1>1, <1>2, <1>3 DEF Labels
<1>5. QED
  BY <1>4 DEF l

LEMMA PickedMany ==
    ASSUME NEW q \in 1 .. N, NEW chosen \in SUBSET (1 .. Len(Questions[q].options)),
           IsInjective(Questions[q].options),
           \A i \in chosen : Len(Questions[q].options[i]) = 1
    PROVE  \A i \in 1 .. Len(Questions[q].options) :
              Questions[q].options[i] \in Labels(<<Line(<<>>, Picked(Questions[q], chosen))>>)
                 <=> i \in chosen
<1> DEFINE o == Questions[q].options
           s == [j \in 1 .. Len(o) |-> IF j \in chosen THEN o[j] ELSE <<>>]
           w == Picked(Questions[q], chosen)
<1>1. o \in Seq(Seq(STRING)) /\ IsInjective(o)
  BY QuestionTypes
<1>2. w \in Seq(STRING) /\ s \in Seq(Seq(STRING)) /\ Len(s) = Len(o) /\ \E off : Places(off, s, w)
  BY PickedPlaces
<1>3. PICK off : Places(off, s, w)
  BY <1>2
<1>4. /\ Len(o) \in Nat /\ DOMAIN o = 1 .. Len(o) /\ chosen \subseteq 1 .. Len(o)
      /\ \A i \in 1 .. Len(o) : o[i] \in Seq(STRING)
      /\ \A i \in chosen : Len(o[i]) = 1
  BY <1>1
<1>5. \A j \in 1 .. Len(o) : s[j] = IF j \in chosen THEN o[j] ELSE <<>>
  OBVIOUS
<1>6. Labels(<<Line(<<>>, w)>>) = {<<w[k]>> : k \in 1 .. Len(w)}
  BY <1>2, LabelsOfLine
<1> HIDE DEF o, s, w
<1>7. ASSUME NEW i \in chosen
      PROVE  \E k \in 1 .. Len(w) : o[i] = <<w[k]>>
  <2>1. i \in 1 .. Len(o) /\ s[i] = o[i] /\ Len(o[i]) = 1 /\ Len(s[i]) = 1
    BY <1>4, <1>5
  <2>2. i \in 1 .. Len(o) + 1 /\ Len(o) + 1 \in i + 1 .. Len(o) + 1 /\ 1 \in 1 .. Len(s[i])
    BY <1>4, <2>1
  <2>3. off[i] \in Nat /\ off[i + 1] = off[i] + 1 /\ off[i + 1] <= off[Len(o) + 1]
    BY <1>2, <1>3, <2>1, <2>2 DEF Places
  <2>4. off[Len(o) + 1] = Len(w)
    BY <1>2, <1>3 DEF Places
  <2>5. w[off[i] + 1] = s[i][1]
    BY <1>2, <1>3, <2>1, <2>2 DEF Places
  <2>6. off[i] + 1 \in 1 .. Len(w)
    BY <1>2, <2>3, <2>4
  <2>7. o[i] = <<o[i][1]>>
    <3> DEFINE a == o[i]
    <3>1. a \in Seq(STRING) /\ Len(a) = 1
      BY <1>4, <2>1
    <3> HIDE DEF a
    <3>2. a = <<a[1]>>
      BY <3>1
    <3>3. QED
      BY <3>2 DEF a
  <2>8. QED
    BY <2>1, <2>5, <2>6, <2>7
<1>8. ASSUME NEW i \in 1 .. Len(o), NEW k \in 1 .. Len(w), o[i] = <<w[k]>>
      PROVE  i \in chosen
  <2>1. PICK j \in 1 .. Len(o) : \E m \in 1 .. Len(s[j]) : k = off[j] + m
    <3>1. \A p \in 1 .. Len(w) : \E j \in 1 .. Len(s) : \E m \in 1 .. Len(s[j]) : p = off[j] + m
      BY <1>3 DEF Places
    <3>2. QED
      BY <1>2, <3>1
  <2>2. PICK m \in 1 .. Len(s[j]) : k = off[j] + m
    BY <2>1
  <2>3. j \in chosen
    <3> SUFFICES ASSUME j \notin chosen
                 PROVE  FALSE
      OBVIOUS
    <3>1. Len(s[j]) = 0
      BY <1>5
    <3>2. QED
      BY <2>2, <3>1
  <2>4. s[j] = o[j] /\ Len(o[j]) = 1 /\ o[j] \in Seq(STRING)
    BY <1>4, <1>5, <2>3
  <2>5. m = 1
    BY <2>2, <2>4
  <2>6. w[k] = o[j][1]
    <3>1. w[off[j] + m] = s[j][m]
      BY <1>2, <1>3, <2>2 DEF Places
    <3>2. QED
      BY <2>2, <2>4, <2>5, <3>1
  <2>7. o[j] = <<o[j][1]>>
    <3> DEFINE a == o[j]
    <3>1. a \in Seq(STRING) /\ Len(a) = 1
      BY <2>4
    <3> HIDE DEF a
    <3>2. a = <<a[1]>>
      BY <3>1
    <3>3. QED
      BY <3>2 DEF a
  <2>8. o[i] = o[j]
    BY <1>8, <2>6, <2>7
  <2>9. i = j
    BY <1>1, <1>4, <2>8 DEF IsInjective
  <2>10. QED
    BY <2>3, <2>9
<1>9. \A i \in 1 .. Len(o) : o[i] \in Labels(<<Line(<<>>, w)>>) <=> i \in chosen
  BY <1>4, <1>6, <1>7, <1>8
<1>10. QED
  BY <1>9 DEF o, w

\* The options of a question are read back as they were picked.
LEMMA ChosenRead ==
    ASSUME NEW rs \in Replies, Clear(rs), NEW q \in 1 .. N
    PROVE  Chosen(Questions[q], Put(rs, q, "answer")) = rs[q].chosen
<1> DEFINE o == Questions[q].options
           c == rs[q].chosen
<1>1. c \in Picks(Questions[q])
  BY DEF Replies
<1>2. o \in Seq(Seq(STRING)) /\ Questions[q].multiSelect \in BOOLEAN /\ IsInjective(o)
  BY QuestionTypes DEF Clear, N
<1>3. c \subseteq 1 .. Len(o)
  BY <1>1 DEF Picks
<1>4. CASE c = {}
  <2>1. Put(rs, q, "answer") = <<>>
    BY <1>4 DEF Put
  <2>2. Labels(<<>>) = {}
    BY DEF Labels
  <2>3. QED
    BY <1>4, <2>1, <2>2 DEF Chosen
<1>5. CASE c # {} /\ Questions[q].multiSelect
  <2>1. Put(rs, q, "answer") = <<Line(<<>>, Picked(Questions[q], c))>>
    BY <1>5 DEF Put
  <2>2. \A i \in c : Len(o[i]) = 1
    BY <1>5 DEF Clear, N
  <2>3. \A i \in 1 .. Len(o) : o[i] \in Labels(Put(rs, q, "answer")) <=> i \in c
    BY <1>2, <1>3, <2>1, <2>2, PickedMany
  <2>4. QED
    BY <1>3, <1>5, <2>3 DEF Chosen
<1>6. CASE c # {} /\ ~Questions[q].multiSelect
  <2>1. PICK i \in 1 .. Len(o) : c = {i}
    BY <1>1, <1>6 DEF Picks
  <2>2. Put(rs, q, "answer") = <<Line(<<>>, o[i])>>
    BY <1>6, <2>1, PickedOne DEF Put
  <2>3. \A j \in 1 .. Len(o) : Line(<<>>, o[i]) = Line(<<>>, o[j]) => o[i] = o[j]
    BY DEF Line
  <2>4. \A j \in 1 .. Len(o) : <<Line(<<>>, o[i])>> = <<Line(<<>>, o[j])>> => i = j
    <3>1. DOMAIN o = 1 .. Len(o)
      BY <1>2
    <3>2. \A j \in 1 .. Len(o) : o[i] = o[j] => i = j
      BY <1>2, <3>1 DEF IsInjective
    <3>3. QED
      BY <2>3, <3>2
  <2>5. QED
    BY <1>6, <2>1, <2>2, <2>4 DEF Chosen
<1>7. QED
  BY <1>2, <1>4, <1>5, <1>6

\* What the picker sends, it reads back.
LEMMA GroupRead ==
    ASSUME NEW rs \in Replies, Clear(rs)
    PROVE  ParseGroupAnswer(Questions, FormatGroupAnswer(Questions, rs)) = Trimmed(rs)
<1> DEFINE w == FormatGroupAnswer(Questions, rs)
<1>1. ASSUME NEW q \in 1 .. N
      PROVE  /\ Value(Questions, w, q, "answer") = Put(rs, q, "answer")
             /\ Value(Questions, w, q, "custom") = Trim(rs[q].custom)
             /\ Value(Questions, w, q, "question") = Trim(rs[q].question)
  <2>1. \A f \in Fields : Value(Questions, w, q, f) = Put(rs, q, f)
    BY PartRead
  <2>2. QED
    BY <2>1 DEF Fields, Put
<1> HIDE DEF w
<1>2. ASSUME NEW q \in 1 .. N
      PROVE  [chosen   |-> Chosen(Questions[q], Value(Questions, w, q, "answer")),
              custom   |-> Value(Questions, w, q, "custom"),
              question |-> Value(Questions, w, q, "question")]
             = [chosen |-> rs[q].chosen, custom |-> Trim(rs[q].custom),
                question |-> Trim(rs[q].question)]
  <2>1. Chosen(Questions[q], Value(Questions, w, q, "answer")) = rs[q].chosen
    BY <1>1, ChosenRead
  <2>2. QED
    BY <1>1, <2>1
<1>3. ParseGroupAnswer(Questions, w) = Trimmed(rs)
  BY <1>2 DEF ParseGroupAnswer, Trimmed, N
<1>4. QED
  BY <1>3 DEF w

-----------------------------------------------------------------------------
(* The responses a user may give to the group.                             *)

Response == [chosen : SUBSET Nat, custom : Seq(Lines), question : Seq(Lines)]
Addressed(n) == {x \in Responses(Questions[n]) : IsAddressed(x)}
Grown(F, n) == {Append(rs, r) : rs \in F, r \in Addressed(n)}
Grows(f, m) == f = [n \in 0 .. m |-> IF n = 0 THEN {<<>>} ELSE Grown(f[n - 1], n)]

LEMMA GrowStep ==
    ASSUME NEW f, NEW m \in Nat, Grows(f, m), NEW n \in 0 .. m
    PROVE  f[n] = IF n = 0 THEN {<<>>} ELSE Grown(f[n - 1], n)
<1> DEFINE h == [i \in 0 .. m |-> IF i = 0 THEN {<<>>} ELSE Grown(f[i - 1], i)]
<1>1. h[n] = IF n = 0 THEN {<<>>} ELSE Grown(f[n - 1], n)
  OBVIOUS
<1>2. f = h
  BY DEF Grows
<1>3. QED
  BY <1>1, <1>2

LEMMA GrowExists ==
    ASSUME NEW n \in Nat
    PROVE  \E f : Grows(f, n)
<1> DEFINE S == {m \in Nat : \E f : Grows(f, m)}
<1>1. 0 \in S
  <2>1. Grows([i \in 0 .. 0 |-> {<<>>}], 0)
    BY DEF Grows
  <2>2. QED
    BY <2>1
<1>2. ASSUME NEW m \in Nat, m \in S
      PROVE  m + 1 \in S
  <2>1. PICK f : Grows(f, m)
    BY <1>2
  <2> DEFINE g == [i \in 0 .. m + 1 |-> IF i <= m THEN f[i] ELSE Grown(f[m], m + 1)]
  <2>2. /\ \A i \in 0 .. m : g[i] = f[i]
        /\ g[m + 1] = Grown(f[m], m + 1)
    OBVIOUS
  <2>3. \A i \in 0 .. m : f[i] = IF i = 0 THEN {<<>>} ELSE Grown(f[i - 1], i)
    BY <2>1, GrowStep
  <2>4. g = [i \in 0 .. m + 1 |-> g[i]]
    OBVIOUS
  <2> HIDE DEF g
  <2>5. \A i \in 0 .. m + 1 : g[i] = IF i = 0 THEN {<<>>} ELSE Grown(g[i - 1], i)
    <3> SUFFICES ASSUME NEW i \in 0 .. m + 1
                 PROVE  g[i] = IF i = 0 THEN {<<>>} ELSE Grown(g[i - 1], i)
      OBVIOUS
    <3>1. CASE i = m + 1
      <4>1. i # 0 /\ i - 1 = m /\ m \in 0 .. m
        BY <3>1
      <4>2. g[i - 1] = f[m]
        BY <2>2, <4>1
      <4>3. QED
        BY <2>2, <3>1, <4>1, <4>2
    <3>2. CASE i <= m
      <4>1. i \in 0 .. m /\ (i # 0 => i - 1 \in 0 .. m)
        BY <3>2
      <4>2. g[i] = f[i] /\ (i # 0 => g[i - 1] = f[i - 1])
        BY <2>2, <4>1
      <4>3. QED
        BY <2>3, <4>1, <4>2
    <3>3. QED
      BY <3>1, <3>2
  <2>6. Grows(g, m + 1)
    BY <2>4, <2>5 DEF Grows
  <2>7. QED
    BY <2>6
<1> HIDE DEF S
<1>3. Nat \subseteq S
  BY <1>1, <1>2, Induction
<1>4. QED
  BY <1>3 DEF S

LEMMA GroupsReplies ==
    ASSUME NEW rs \in Groups[N]
    PROVE  rs \in Replies
<1> DEFINE Good(x, n) == /\ x \in Seq(Response) /\ Len(x) = n
                         /\ \A q \in 1 .. n : x[q].chosen \in Picks(Questions[q])
           S == {n \in Nat : n <= N => \A x \in Groups[n] : Good(x, n)}
<1>1. N \in Nat
  BY TranscriptAssumption DEF N
<1>2. Groups = CHOOSE f : Grows(f, N)
  BY DEF Groups, Grows, Grown, Addressed, N
<1>3. Grows(Groups, N)
  BY <1>1, <1>2, GrowExists
<1>4. Groups[0] = {<<>>}
  BY <1>1, <1>3, GrowStep
<1>5. \A n \in 1 .. N : Groups[n] = Grown(Groups[n - 1], n)
  BY <1>1, <1>3, GrowStep
<1>6. ASSUME NEW n \in 1 .. N, NEW r \in Addressed(n)
      PROVE  r \in Response /\ r.chosen \in Picks(Questions[n])
  <2>1. r \in [chosen : Picks(Questions[n]), custom : Texts, question : Texts]
    BY DEF Addressed, Responses
  <2>2. Questions[n].options \in Seq(Seq(STRING)) /\ Questions[n].multiSelect \in BOOLEAN
    BY QuestionTypes
  <2>3. Picks(Questions[n]) \subseteq SUBSET Nat
    <3>1. Len(Questions[n].options) \in Nat
      BY <2>2
    <3>2. QED
      BY <3>1 DEF Picks
  <2>4. Texts \subseteq Seq(Lines)
    BY TranscriptAssumption
  <2>5. QED
    BY <2>1, <2>3, <2>4 DEF Response
<1>7. 0 \in S
  <2>1. Good(<<>>, 0)
    OBVIOUS
  <2>2. QED
    BY <1>4, <2>1
<1>8. ASSUME NEW n \in Nat, n \in S
      PROVE  n + 1 \in S
  <2> SUFFICES ASSUME n + 1 <= N, NEW y \in Groups[n + 1]
               PROVE  Good(y, n + 1)
    OBVIOUS
  <2>1. n + 1 \in 1 .. N /\ (n + 1) - 1 = n /\ n <= N
    BY <1>1
  <2>2. PICK x \in Groups[n] : \E r \in Addressed(n + 1) : y = Append(x, r)
    BY <1>5, <2>1 DEF Grown
  <2>3. PICK r \in Addressed(n + 1) : y = Append(x, r)
    BY <2>2
  <2>4. Good(x, n)
    BY <1>8, <2>1
  <2>5. r \in Response /\ r.chosen \in Picks(Questions[n + 1])
    BY <1>6, <2>1
  <2> HIDE DEF S
  <2>6. /\ y \in Seq(Response) /\ Len(y) = n + 1 /\ y[n + 1] = r
        /\ \A q \in 1 .. n : y[q] = x[q]
    <3> HIDE DEF Response
    <3>1. x \in Seq(Response) /\ Len(x) = n
      BY <2>4
    <3>2. QED
      BY <2>3, <2>5, <3>1
  <2>7. \A q \in 1 .. n + 1 : y[q].chosen \in Picks(Questions[q])
    <3> SUFFICES ASSUME NEW q \in 1 .. n + 1
                 PROVE  y[q].chosen \in Picks(Questions[q])
      OBVIOUS
    <3>1. CASE q = n + 1
      BY <2>5, <2>6, <3>1
    <3>2. CASE q \in 1 .. n
      BY <2>4, <2>6, <3>2
    <3>3. QED
      BY <3>1, <3>2
  <2>8. QED
    BY <2>6, <2>7
<1> HIDE DEF S
<1>9. Nat \subseteq S
  BY <1>7, <1>8, Induction
<1>10. Good(rs, N)
  BY <1>1, <1>9 DEF S
<1>11. rs \in [1 .. N -> Response]
  BY <1>1, <1>10
<1>12. QED
  BY <1>10, <1>11 DEF Replies, Response

-----------------------------------------------------------------------------
(* The segments a text is cut into.                                        *)

Segments(tok) == [kind : {"text", "artifact", "doing"}, body : Seq(tok), verb : {"", "doing", "verb"}]
Scan(tok)     == [prose : Seq(tok), segments : Seq(Segments(tok))]

LEMMA SomeLeast ==
    ASSUME NEW T \in SUBSET Nat, T # {}
    PROVE  (CHOOSE n \in T : \A m \in T : n <= m) \in T
<1>1. \E n \in T : \A m \in T : n <= m
  BY Least
<1>2. QED
  BY <1>1

LEMMA SomeGreatest ==
    ASSUME NEW b \in Nat, NEW T \in SUBSET (0 .. b), T # {}
    PROVE  (CHOOSE n \in T : \A m \in T : n >= m) \in T
<1> DEFINE U == {b - i : i \in T}
<1>1. U \in SUBSET Nat /\ U # {}
  <2>1. \A i \in T : b - i \in Nat
    OBVIOUS
  <2>2. QED
    BY <2>1
<1>2. PICK n \in U : \A m \in U : n <= m
  BY <1>1, Least
<1>3. PICK i \in T : n = b - i
  BY <1>2
<1>4. \A j \in T : n <= b - j
  BY <1>2
<1>5. \A j \in T : i >= j
  BY <1>3, <1>4
<1>6. QED
  BY <1>5

LEMMA FindRange ==
    ASSUME NEW tok, NEW t \in Seq(tok), NEW p \in Nat, NEW x
    PROVE  Find(t, p, x) = 0 \/ Find(t, p, x) \in p .. Len(t)
<1> DEFINE found == {q \in p .. Len(t) : t[q] = x}
<1>1. found \in SUBSET Nat
  OBVIOUS
<1>2. CASE found = {}
  BY <1>2 DEF Find
<1>3. CASE found # {}
  <2>1. (CHOOSE q \in found : \A r \in found : q <= r) \in found
    BY <1>1, <1>3, SomeLeast
  <2>2. Find(t, p, x) = CHOOSE q \in found : \A r \in found : q <= r
    BY <1>3 DEF Find
  <2>3. QED
    BY <2>1, <2>2
<1>4. QED
  BY <1>2, <1>3

LEMMA CodeRange ==
    ASSUME NEW tok, NEW t \in Seq(tok), NEW p \in 1 .. Len(t)
    PROVE  CodeEnd(t, p) = 0 \/ CodeEnd(t, p) \in p + 1 .. Len(t) + 1
<1>0. Len(t) \in Nat
  OBVIOUS
<1>1. FenceEnd(t, p) = 0 \/ FenceEnd(t, p) \in p + 1 .. Len(t) + 1
  <2> DEFINE closing == {q \in p + 3 .. Len(t) : Fenced(t, q)}
  <2>1. CASE ~Fenced(t, p) \/ closing = {}
    BY <2>1 DEF FenceEnd
  <2>2. CASE Fenced(t, p) /\ closing # {}
    <3> DEFINE e == CHOOSE q \in closing : \A r \in closing : q <= r
    <3>1. closing \in SUBSET Nat
      BY <1>0
    <3>2. e \in closing
      BY <2>2, <3>1, SomeLeast
    <3>3. FenceEnd(t, p) = 3 + e
      BY <2>2 DEF FenceEnd
    <3>4. e \in p + 3 .. Len(t) /\ Fenced(t, e)
      BY <3>2
    <3> HIDE DEF e
    <3>5. e + 2 <= Len(t)
      BY <3>4 DEF Fenced
    <3>6. QED
      BY <1>0, <3>3, <3>4, <3>5
  <2>3. QED
    BY <2>1, <2>2
<1>2. InlineEnd(t, p) = 0 \/ InlineEnd(t, p) \in p + 1 .. Len(t) + 1
  <2>1. Find(t, p + 1, Tick) = 0 \/ Find(t, p + 1, Tick) \in p + 1 .. Len(t)
    BY <1>0, FindRange
  <2>2. InlineEnd(t, p) = 0 \/ (Find(t, p + 1, Tick) # 0 /\ InlineEnd(t, p) = Find(t, p + 1, Tick) + 1)
    BY DEF InlineEnd
  <2>3. QED
    BY <1>0, <2>1, <2>2
<1>3. QED
  BY <1>1, <1>2 DEF CodeEnd

LEMMA TagRange ==
    ASSUME NEW tok, NEW t \in Seq(tok), NEW p \in 1 .. Len(t), NEW tag
    PROVE  /\ TagEnd(t, p, tag) = 0 \/ TagEnd(t, p, tag) \in p + 1 .. Len(t) + 1
           /\ TagEnd(t, p, tag) # 0 => t[p] \in tag.open
<1>1. Find(t, p, tag.close) = 0 \/ Find(t, p, tag.close) \in p .. Len(t)
  BY FindRange
<1>2. \/ TagEnd(t, p, tag) = 0
      \/ /\ TagEnd(t, p, tag) = Find(t, p, tag.close) + 1
         /\ Find(t, p, tag.close) # 0 /\ t[p] \in tag.open
  BY DEF TagEnd
<1>3. QED
  BY <1>1, <1>2

LEMMA StripType ==
    ASSUME NEW tok, NEW t \in Seq(tok)
    PROVE  Strip(t) \in Seq(tok)
<1> DEFINE ink == {p \in 1 .. Len(t) : t[p] \notin {Blank, Newline}}
           first == CHOOSE p \in ink : \A q \in ink : p <= q
           last == CHOOSE p \in ink : \A q \in ink : p >= q
<1>1. CASE ink = {}
  BY <1>1 DEF Strip
<1>2. CASE ink # {}
  <2>1. ink \in SUBSET Nat /\ Len(t) \in Nat /\ ink \in SUBSET (0 .. Len(t))
    OBVIOUS
  <2>2. first \in ink
    BY <1>2, <2>1, SomeLeast
  <2>3. last \in ink
    BY <1>2, <2>1, SomeGreatest
  <2>4. Strip(t) = SubSeq(t, first, last)
    BY <1>2 DEF Strip
  <2>5. first \in 1 .. Len(t) /\ last \in 1 .. Len(t)
    BY <2>2, <2>3
  <2> HIDE DEF first, last
  <2>6. SubSeq(t, first, last) \in Seq(tok)
    BY <2>5
  <2>7. QED
    BY <2>4, <2>6
<1>3. QED
  BY <1>1, <1>2

LEMMA OneInSeq ==
    ASSUME NEW X, NEW a \in X
    PROVE  <<>> \in Seq(X) /\ <<a>> \in Seq(X) /\ <<a, a, a>> \in Seq(X)
OBVIOUS

LEMMA FlushType ==
    ASSUME NEW tok, NEW b \in Seq(tok)
    PROVE  Flush(b) \in Seq(Segments(tok))
<1>1. Segment("text", Strip(b), "") \in Segments(tok)
  BY StripType DEF Segment, Segments
<1> DEFINE a == Segment("text", Strip(b), "")
           X == Segments(tok)
<1>2. a \in X /\ (Flush(b) = <<>> \/ Flush(b) = <<a>>)
  BY <1>1 DEF Flush
<1> HIDE DEF a, X
<1>3. <<>> \in Seq(X) /\ <<a>> \in Seq(X)
  BY <1>2, OneInSeq
<1>4. Flush(b) \in Seq(X)
  BY <1>2, <1>3
<1>5. QED
  BY <1>4 DEF X

LEMMA NoteType ==
    ASSUME NEW tok, NEW b \in Seq(tok), NEW open \in Note.open
    PROVE  NoteOf(open, b) \in Seq(Segments(tok))
<1>1. \A v \in {"doing", "verb"} : Segment("doing", Strip(b), v) \in Segments(tok)
  BY StripType DEF Segment, Segments
<1> DEFINE a(v) == Segment("doing", Strip(b), v)
           X == Segments(tok)
<1>2. \/ NoteOf(open, b) = <<>>
      \/ NoteOf(open, b) = <<a("doing")>>
      \/ NoteOf(open, b) = <<a("verb")>>
  BY DEF NoteOf
<1>3. a("doing") \in X /\ a("verb") \in X
  BY <1>1
<1> HIDE DEF a, X
<1>4. <<>> \in Seq(X) /\ <<a("doing")>> \in Seq(X) /\ <<a("verb")>> \in Seq(X)
  BY <1>3, OneInSeq
<1>5. NoteOf(open, b) \in Seq(X)
  BY <1>2, <1>4
<1>6. QED
  BY <1>5 DEF X

\* What is read from position p on, from what is read further on.
Read(t, p, scan) ==
    LET Inner(from, after) == SubSeq(t, from + 1, after - 2)
        code == CodeEnd(t, p)
        page == TagEnd(t, p, Page)
        note == TagEnd(t, p, Note)
        Rest(after, made) == [prose |-> <<>>, segments |->
            made \o Flush(scan[after].prose) \o scan[after].segments]
        Prose(after) == [scan[after] EXCEPT !.prose = SubSeq(t, p, after - 1) \o @]
    IN  IF code # 0 THEN Prose(code)
        ELSE IF page # 0 THEN Rest(page, <<Segment("artifact", Strip(Inner(p, page)), "")>>)
        ELSE IF note # 0 THEN Rest(note, NoteOf(t[p], Inner(p, note)))
        ELSE Prose(p + 1)

Nothing == [prose |-> <<>>, segments |-> <<>>]
Scans(scan, t, from) ==
    scan = [p \in from .. Len(t) + 1 |-> IF p > Len(t) THEN Nothing ELSE Read(t, p, scan)]

LEMMA SplitScan ==
    ASSUME NEW t
    PROVE  LET scan == CHOOSE f : Scans(f, t, 1)
           IN  Split(t) = Flush(scan[1].prose) \o scan[1].segments
BY DEF Split, Scans, Read, Nothing

\* Reading at p looks only at what is read behind p, and gives a scan.
LEMMA ReadType ==
    ASSUME NEW tok, NEW t \in Seq(tok), NEW p \in 1 .. Len(t),
           NEW f, \A q \in p + 1 .. Len(t) + 1 : f[q] \in Scan(tok)
    PROVE  /\ Read(t, p, f) \in Scan(tok)
           /\ \A g : (\A q \in p + 1 .. Len(t) + 1 : g[q] = f[q]) => Read(t, p, g) = Read(t, p, f)
<1> DEFINE Inner(from, after) == SubSeq(t, from + 1, after - 2)
           code == CodeEnd(t, p)
           page == TagEnd(t, p, Page)
           note == TagEnd(t, p, Note)
           Rest(h, after, made) == [prose |-> <<>>, segments |->
               made \o Flush(h[after].prose) \o h[after].segments]
           Prose(h, after) == [h[after] EXCEPT !.prose = SubSeq(t, p, after - 1) \o @]
<1>1. /\ code = 0 \/ code \in p + 1 .. Len(t) + 1
      /\ page = 0 \/ page \in p + 1 .. Len(t) + 1
      /\ note = 0 \/ (note \in p + 1 .. Len(t) + 1 /\ t[p] \in Note.open)
      /\ p + 1 \in p + 1 .. Len(t) + 1
  BY CodeRange, TagRange
<1>2. \A h : Read(t, p, h) =
        IF code # 0 THEN Prose(h, code)
        ELSE IF page # 0 THEN Rest(h, page, <<Segment("artifact", Strip(Inner(p, page)), "")>>)
        ELSE IF note # 0 THEN Rest(h, note, NoteOf(t[p], Inner(p, note)))
        ELSE Prose(h, p + 1)
  BY DEF Read
<1> HIDE DEF code, page, note
<1>3. ASSUME NEW q \in p + 1 .. Len(t) + 1
      PROVE  /\ SubSeq(t, p, q - 1) \in Seq(tok) /\ Inner(p, q) \in Seq(tok)
             /\ f[q].prose \in Seq(tok) /\ f[q].segments \in Seq(Segments(tok))
             /\ f[q] \in Scan(tok)
  <2>1. Len(t) \in Nat
    OBVIOUS
  <2>2. SubSeq(t, p, q - 1) \in Seq(tok)
    BY <2>1
  <2>3. SubSeq(t, p + 1, q - 2) \in Seq(tok)
    BY <2>1
  <2>4. f[q] \in Scan(tok)
    OBVIOUS
  <2>5. QED
    BY <2>2, <2>3, <2>4 DEF Scan
<1>4. ASSUME NEW q \in p + 1 .. Len(t) + 1
      PROVE  Prose(f, q) \in Scan(tok)
  <2> DEFINE x == f[q]
             a == SubSeq(t, p, q - 1)
  <2>1. x \in Scan(tok) /\ a \in Seq(tok) /\ x.prose \in Seq(tok)
    BY <1>3
  <2> HIDE DEF x, a
  <2>2. a \o x.prose \in Seq(tok)
    BY <2>1
  <2>3. [x EXCEPT !.prose = a \o x.prose] \in Scan(tok)
    BY <2>1, <2>2 DEF Scan
  <2>4. QED
    BY <2>3 DEF x, a
<1>5. ASSUME NEW q \in p + 1 .. Len(t) + 1, NEW made \in Seq(Segments(tok))
      PROVE  Rest(f, q, made) \in Scan(tok)
  <2> DEFINE a == Flush(f[q].prose)
             b == f[q].segments
             X == Segments(tok)
  <2>1. a \in Seq(X) /\ b \in Seq(X) /\ made \in Seq(X)
    BY <1>3, FlushType
  <2> HIDE DEF a, b, X
  <2>2. (made \o a) \o b \in Seq(X)
    BY <2>1
  <2>3. [prose |-> <<>>, segments |-> made \o a \o b] \in [prose : Seq(tok), segments : Seq(X)]
    BY <2>2
  <2>4. QED
    BY <2>3 DEF Scan, a, b, X
<1>6. page # 0 => <<Segment("artifact", Strip(Inner(p, page)), "")>> \in Seq(Segments(tok))
  <2>1. ASSUME page # 0
        PROVE  Segment("artifact", Strip(Inner(p, page)), "") \in Segments(tok)
    <3>1. Strip(Inner(p, page)) \in Seq(tok)
      BY <1>1, <1>3, <2>1, StripType
    <3>2. QED
      BY <3>1 DEF Segment, Segments
  <2>2. QED
    BY <2>1, OneInSeq
<1>7. note # 0 => NoteOf(t[p], Inner(p, note)) \in Seq(Segments(tok))
  BY <1>1, <1>3, NoteType
<1>8. Read(t, p, f) \in Scan(tok)
  <2> HIDE DEF Prose, Rest, Inner
  <2>1. CASE code # 0
    BY <1>1, <1>2, <1>4, <2>1
  <2>2. CASE code = 0 /\ page # 0
    BY <1>1, <1>2, <1>5, <1>6, <2>2
  <2>3. CASE code = 0 /\ page = 0 /\ note # 0
    BY <1>1, <1>2, <1>5, <1>7, <2>3
  <2>4. CASE code = 0 /\ page = 0 /\ note = 0
    BY <1>1, <1>2, <1>4, <2>4
  <2>5. QED
    BY <2>1, <2>2, <2>3, <2>4
<1>9. ASSUME NEW g, \A q \in p + 1 .. Len(t) + 1 : g[q] = f[q]
      PROVE  Read(t, p, g) = Read(t, p, f)
  <2>1. \A q \in p + 1 .. Len(t) + 1 : Prose(g, q) = Prose(f, q)
    BY <1>9
  <2>2. \A q \in p + 1 .. Len(t) + 1 : \A made : Rest(g, q, made) = Rest(f, q, made)
    BY <1>9
  <2> HIDE DEF Prose, Rest, Inner
  <2>3. QED
    BY <1>1, <1>2, <2>1, <2>2
<1>10. QED
  BY <1>8, <1>9

LEMMA ScanStep ==
    ASSUME NEW tok, NEW t \in Seq(tok), NEW from \in 1 .. Len(t) + 1,
           NEW f, Scans(f, t, from), NEW p \in from .. Len(t) + 1
    PROVE  f[p] = IF p > Len(t) THEN Nothing ELSE Read(t, p, f)
<1> DEFINE h == [q \in from .. Len(t) + 1 |-> IF q > Len(t) THEN Nothing ELSE Read(t, q, f)]
<1>1. h[p] = IF p > Len(t) THEN Nothing ELSE Read(t, p, f)
  OBVIOUS
<1>2. f = h
  BY DEF Scans
<1>3. QED
  BY <1>1, <1>2

LEMMA ScanType ==
    ASSUME NEW tok, NEW t \in Seq(tok), NEW from \in 1 .. Len(t) + 1, NEW f, Scans(f, t, from)
    PROVE  \A p \in from .. Len(t) + 1 : f[p] \in Scan(tok)
<1> DEFINE M == Len(t) + 1
           S == {n \in Nat : \A p \in from .. M : M - p <= n => f[p] \in Scan(tok)}
<1>1. Len(t) \in Nat /\ from \in Nat /\ M = Len(t) + 1
  OBVIOUS
<1>2. Nothing \in Scan(tok)
  BY OneInSeq DEF Nothing, Scan
<1> HIDE DEF M
<1>3. 0 \in S
  <2> SUFFICES ASSUME NEW p \in from .. M, M - p <= 0
               PROVE  f[p] \in Scan(tok)
    OBVIOUS
  <2>1. p = M /\ p > Len(t)
    BY <1>1
  <2>2. f[p] = Nothing
    BY <1>1, <2>1, ScanStep
  <2>3. QED
    BY <1>2, <2>2
<1>4. ASSUME NEW n \in Nat, n \in S
      PROVE  n + 1 \in S
  <2> SUFFICES ASSUME NEW p \in from .. M, M - p <= n + 1
               PROVE  f[p] \in Scan(tok)
    OBVIOUS
  <2>1. f[p] = IF p > Len(t) THEN Nothing ELSE Read(t, p, f)
    BY <1>1, ScanStep
  <2>2. CASE p > Len(t)
    BY <1>2, <2>1, <2>2
  <2>3. CASE p <= Len(t)
    <3>1. p \in 1 .. Len(t)
      BY <1>1, <2>3
    <3>2. \A q \in p + 1 .. Len(t) + 1 : f[q] \in Scan(tok)
      <4> SUFFICES ASSUME NEW q \in p + 1 .. Len(t) + 1
                   PROVE  f[q] \in Scan(tok)
        OBVIOUS
      <4>1. q \in from .. M /\ M - q <= n
        BY <1>1
      <4>2. QED
        BY <1>4, <4>1
    <3>3. Read(t, p, f) \in Scan(tok)
      BY <3>1, <3>2, ReadType
    <3>4. QED
      BY <1>1, <2>1, <2>3, <3>3
  <2>4. QED
    BY <1>1, <2>2, <2>3
<1> HIDE DEF S
<1>5. Nat \subseteq S
  BY <1>3, <1>4, Induction
<1>6. SUFFICES ASSUME NEW p \in from .. M
               PROVE  f[p] \in Scan(tok)
  BY <1>1
<1>7. M - p \in Nat /\ M - p <= M - p
  BY <1>1
<1>8. QED
  BY <1>5, <1>7 DEF S

LEMMA ScanExists ==
    ASSUME NEW tok, NEW t \in Seq(tok)
    PROVE  \E f : Scans(f, t, 1)
<1> DEFINE M == Len(t) + 1
           S == {n \in Nat : n < M => \E f : Scans(f, t, M - n)}
<1>1. Len(t) \in Nat /\ M = Len(t) + 1
  OBVIOUS
<1> HIDE DEF M
<1>2. 0 \in S
  <2> DEFINE g == [p \in M .. M |-> Nothing]
  <2>1. \A p \in M .. M : p > Len(t)
    BY <1>1
  <2>2. Scans(g, t, M)
    BY <1>1, <2>1 DEF Scans
  <2>3. M - 0 = M
    BY <1>1
  <2>4. QED
    BY <2>2, <2>3
<1>3. ASSUME NEW n \in Nat, n \in S
      PROVE  n + 1 \in S
  <2> SUFFICES ASSUME n + 1 < M
               PROVE  \E f : Scans(f, t, M - (n + 1))
    OBVIOUS
  <2>1. n < M /\ M - n \in 1 .. M
    BY <1>1
  <2>2. PICK f : Scans(f, t, M - n)
    BY <1>3, <2>1
  <2> DEFINE o == M - (n + 1)
             g == [p \in o .. M |-> IF p = o THEN Read(t, o, f) ELSE f[p]]
  <2>3. o \in 1 .. Len(t) /\ M - n = o + 1 /\ o \in o .. M
    BY <1>1
  <2> HIDE DEF o
  <2>4. g[o] = Read(t, o, f) /\ \A p \in o + 1 .. M : g[p] = f[p]
    BY <1>1, <2>3
  <2>5. g = [p \in o .. M |-> g[p]]
    OBVIOUS
  <2> HIDE DEF g
  <2>6. Scans(f, t, o + 1) /\ o + 1 \in 1 .. Len(t) + 1
    BY <1>1, <2>2, <2>3
  <2>7. \A p \in o + 1 .. M : f[p] \in Scan(tok)
    BY <1>1, <2>6, ScanType
  <2>8. \A p \in o .. M : g[p] = IF p > Len(t) THEN Nothing ELSE Read(t, p, g)
    <3> SUFFICES ASSUME NEW p \in o .. M
                 PROVE  g[p] = IF p > Len(t) THEN Nothing ELSE Read(t, p, g)
      OBVIOUS
    <3>1. p \in Nat /\ o \in Nat
      BY <2>3
    <3>2. p <= Len(t) => Read(t, p, g) = Read(t, p, f)
      <4> SUFFICES ASSUME p <= Len(t)
                   PROVE  Read(t, p, g) = Read(t, p, f)
        OBVIOUS
      <4>1. p \in 1 .. Len(t)
        BY <2>3, <3>1
      <4>2. \A q \in p + 1 .. Len(t) + 1 : f[q] \in Scan(tok) /\ g[q] = f[q]
        <5> SUFFICES ASSUME NEW q \in p + 1 .. Len(t) + 1
                     PROVE  f[q] \in Scan(tok) /\ g[q] = f[q]
          OBVIOUS
        <5>1. q \in o + 1 .. M
          BY <1>1, <2>3, <3>1
        <5>2. QED
          BY <2>4, <2>7, <5>1
      <4>3. QED
        BY <4>1, <4>2, ReadType
    <3>3. CASE p = o
      BY <1>1, <2>3, <2>4, <3>2, <3>3
    <3>4. CASE p # o
      <4>1. p \in o + 1 .. M
        BY <1>1, <3>1, <3>4
      <4>2. f[p] = IF p > Len(t) THEN Nothing ELSE Read(t, p, f)
        BY <1>1, <2>6, <4>1, ScanStep
      <4>3. g[p] = f[p]
        BY <2>4, <4>1
      <4>4. QED
        BY <1>1, <3>1, <3>2, <4>2, <4>3
    <3>5. QED
      BY <3>3, <3>4
  <2>9. g = [p \in o .. M |-> IF p > Len(t) THEN Nothing ELSE Read(t, p, g)]
    BY <2>5, <2>8
  <2>10. Scans(g, t, o)
    BY <1>1, <2>9 DEF Scans
  <2>11. QED
    BY <2>10 DEF o
<1> HIDE DEF S
<1>4. Nat \subseteq S
  BY <1>2, <1>3, Induction
<1>5. Len(t) \in S /\ Len(t) < M /\ M - Len(t) = 1
  BY <1>1, <1>4
<1>6. QED
  BY <1>5 DEF S

\* A text is cut into prose, pages and notes only.
LEMMA SplitType ==
    ASSUME NEW tok, NEW t \in Seq(tok)
    PROVE  Split(t) \in Seq(Segments(tok))
<1> DEFINE f == CHOOSE g : Scans(g, t, 1)
           X == Segments(tok)
<1>1. Split(t) = Flush(f[1].prose) \o f[1].segments
  BY SplitScan
<1>2. Scans(f, t, 1)
  BY ScanExists
<1> HIDE DEF f
<1>3. 1 \in 1 .. Len(t) + 1
  OBVIOUS
<1>4. f[1] \in Scan(tok)
  BY <1>2, <1>3, ScanType
<1>5. f[1].prose \in Seq(tok) /\ f[1].segments \in Seq(X)
  BY <1>4 DEF Scan
<1>6. Flush(f[1].prose) \in Seq(X)
  BY <1>5, FlushType
<1> HIDE DEF X
<1>7. Split(t) \in Seq(X)
  BY <1>1, <1>5, <1>6
<1>8. QED
  BY <1>7 DEF X

-----------------------------------------------------------------------------
(* The feed.                                                               *)

Tokens == STRING \cup {Tick, "<artifact>", "</artifact>", "<doing>", "<doing verb>", "</doing>"}
Entered == [kind : {"text", "artifact", "doing", "tool", "result", "ask"}, body : Seq(Tokens),
            verb : {"", "doing", "verb"}, answer : Seq(Lines)]

LEMMA WideSeq ==
    ASSUME NEW X, NEW Y, X \subseteq Y, NEW s \in Seq(X)
    PROVE  s \in Seq(Y)
OBVIOUS

LEMMA TextType ==
    ASSUME NEW piece \in Pieces \cup Cuts
    PROVE  Text(piece) \in Seq(Tokens)
<1> DEFINE b == piece.body
           T == Tokens
<1>1. piece \in [kind : Kinds, body : Seq(STRING)]
  BY TranscriptAssumption
<1>2. b \in Seq(STRING) /\ STRING \subseteq T
  BY <1>1 DEF Tokens
<1>3. b \in Seq(T)
  BY <1>2, WideSeq
<1>4. /\ Tick \in T /\ "<artifact>" \in T /\ "</artifact>" \in T /\ "<doing>" \in T
      /\ "<doing verb>" \in T /\ "</doing>" \in T
  BY DEF Tokens
<1> HIDE DEF b, T
<1>5. \A x \in T, y \in T : <<x>> \o b \o <<y>> \in Seq(T)
  BY <1>3, OneInSeq
<1>6. <<Tick, Tick, Tick>> \o b \o <<Tick, Tick, Tick>> \in Seq(T)
  <2> DEFINE three == <<Tick, Tick, Tick>>
  <2>1. three \in Seq(T)
    BY <1>4, OneInSeq
  <2> HIDE DEF three
  <2>2. three \o b \o three \in Seq(T)
    BY <1>3, <2>1
  <2>3. QED
    BY <2>2 DEF three
<1>7. piece.kind \in Kinds
  BY <1>1
<1>8. Text(piece) \in Seq(T)
  <2>1. CASE piece.kind = "prose"
    BY <1>3, <2>1 DEF Text, b
  <2>2. CASE piece.kind = "span"
    BY <1>4, <1>5, <2>2 DEF Text, b
  <2>3. CASE piece.kind = "fence"
    BY <1>6, <2>3 DEF Text, b
  <2>4. CASE piece.kind = "artifact"
    BY <1>4, <1>5, <2>4 DEF Text, b
  <2>5. CASE piece.kind = "doing"
    BY <1>4, <1>5, <2>5 DEF Text, b
  <2>6. CASE piece.kind = "verb"
    BY <1>4, <1>5, <2>6 DEF Text, b
  <2>7. QED
    BY <1>7, <2>1, <2>2, <2>3, <2>4, <2>5, <2>6 DEF Kinds
<1>9. QED
  BY <1>8 DEF T

LEMMA TextOfType ==
    ASSUME NEW doc \in Seq(Pieces \cup Cuts)
    PROVE  TextOf(doc) \in Seq(Tokens)
<1> DEFINE s == [i \in 1 .. Len(doc) |-> Text(doc[i])]
<1>1. Len(doc) \in Nat
  OBVIOUS
<1>2. \A i \in 1 .. Len(doc) : s[i] \in Seq(Tokens)
  BY TextType
<1>3. s \in [1 .. Len(doc) -> Seq(Tokens)]
  BY <1>2
<1> HIDE DEF s
<1>4. s \in Seq(Seq(Tokens))
  BY <1>1, <1>3
<1>5. FlattenSeq(s) \in Seq(Tokens)
  BY <1>4, FlattenPlaces
<1>6. QED
  BY <1>5 DEF TextOf, s

\* A text brings entries of its own, none of them a picker.
LEMMA EntriesType ==
    ASSUME NEW doc \in Seq(Pieces \cup Cuts)
    PROVE  LET new == Entries(Split(TextOf(doc)))
           IN  new \in Seq(Entered) /\ \A i \in 1 .. Len(new) : new[i].kind # "ask"
<1> DEFINE ss == Split(TextOf(doc))
           new == Entries(ss)
<1>1. ss \in Seq(Segments(Tokens))
  BY TextOfType, SplitType
<1> HIDE DEF ss
<1>2. ASSUME NEW i \in 1 .. Len(ss)
      PROVE  Entry(ss[i]) \in Entered /\ Entry(ss[i]).kind # "ask"
  <2>1. ss[i] \in Segments(Tokens)
    <3> DEFINE X == Segments(Tokens)
    <3>1. ss \in Seq(X)
      BY <1>1
    <3> HIDE DEF X
    <3>2. ss[i] \in X
      BY <3>1
    <3>3. QED
      BY <3>2 DEF X
  <2> DEFINE x == ss[i]
  <2>2. /\ x.kind \in {"text", "artifact", "doing"} /\ x.body \in Seq(Tokens)
        /\ x.verb \in {"", "doing", "verb"}
    BY <2>1 DEF Segments
  <2> HIDE DEF x
  <2>3. <<>> \in Seq(Lines)
    OBVIOUS
  <2>4. Entry(x) \in Entered /\ Entry(x).kind # "ask"
    BY <2>2, <2>3 DEF Entry, Entered
  <2>5. QED
    BY <2>4 DEF x
<1>3. Len(ss) \in Nat
  BY <1>1
<1>4. new \in [1 .. Len(ss) -> Entered]
  BY <1>2 DEF Entries
<1>5. new \in Seq(Entered) /\ Len(new) = Len(ss)
  BY <1>3, <1>4
<1>6. \A i \in 1 .. Len(new) : new[i].kind # "ask"
  BY <1>2, <1>5 DEF Entries
<1>7. QED
  BY <1>5, <1>6 DEF ss

LEMMA EmptyEntry ==
    ASSUME NEW kind \in {"tool", "result", "ask"}
    PROVE  LET e == Entry(Segment(kind, <<>>, ""))
           IN  e \in Entered /\ e.kind = kind /\ e.answer = <<>>
<1>1. <<>> \in Seq(Tokens) /\ <<>> \in Seq(Lines)
  OBVIOUS
<1>2. QED
  BY <1>1 DEF Entry, Segment, Entered

\* A document: pieces, and a cut one at its end or none.
Complete(doc) ==
    /\ doc \in Seq(Pieces \cup Cuts)
    /\ \A i \in 1 .. Len(doc) : doc[i] \in Pieces \/ (i = Len(doc) /\ doc[i] \in Cuts)

LEMMA DocumentComplete ==
    ASSUME written \in Nat, written < MaxPieces, NEW doc \in Documents
    PROVE  Complete(doc)
<1> DEFINE n == MaxPieces - written
           P == Pieces \cup Cuts
           A == Docs(n)
           B == Docs(n - 1)
           End(d, c) == d \o <<c>>
<1>1. n \in Nat /\ n - 1 \in Nat
  BY TranscriptAssumption
<1>2. ASSUME NEW m \in Nat, NEW d \in Docs(m)
      PROVE  d \in Seq(Pieces)
  <2>1. PICK k \in 0 .. m : d \in [1 .. k -> Pieces]
    BY DEF Docs
  <2>2. QED
    BY <2>1
<1>3. Documents = (A \ {<<>>}) \cup {End(d, c) : d \in B, c \in Cuts}
  BY DEF Documents
<1>4. A \subseteq Seq(Pieces) /\ B \subseteq Seq(Pieces) /\ Pieces \subseteq P /\ Cuts \subseteq P
  BY <1>1, <1>2
<1> HIDE DEF n, P, A, B, End
<1>5. doc \in A \/ \E d \in B : \E c \in Cuts : doc = End(d, c)
  BY <1>3
<1>6. CASE doc \in A
  <2>1. doc \in Seq(Pieces)
    BY <1>4, <1>6
  <2>2. doc \in Seq(P)
    BY <1>4, <2>1, WideSeq
  <2>3. \A i \in 1 .. Len(doc) : doc[i] \in Pieces
    BY <2>1
  <2>4. QED
    BY <2>2, <2>3 DEF Complete, P
<1>7. CASE \E d \in B : \E c \in Cuts : doc = End(d, c)
  <2>1. PICK d \in B : \E c \in Cuts : doc = End(d, c)
    BY <1>7
  <2>2. PICK c \in Cuts : doc = End(d, c)
    BY <2>1
  <2>3. d \in Seq(Pieces) /\ doc = Append(d, c)
    BY <1>4, <2>2 DEF End
  <2>4. /\ Len(d) \in Nat /\ Len(doc) = Len(d) + 1 /\ doc[Len(d) + 1] = c
        /\ \A k \in 1 .. Len(d) : doc[k] = d[k] /\ d[k] \in Pieces
    BY <2>3
  <2>5. \A i \in 1 .. Len(doc) : doc[i] \in Pieces \/ (i = Len(doc) /\ doc[i] \in Cuts)
    BY <2>4
  <2>6. doc \in Seq(P)
    <3>1. d \in Seq(P) /\ c \in P
      BY <1>4, <2>3, WideSeq
    <3>2. QED
      BY <2>3, <3>1
  <2>7. QED
    BY <2>5, <2>6 DEF Complete, P
<1>8. QED
  BY <1>5, <1>6, <1>7

\* There is one picker at most, and what it was answered is what the user gave.
Inv ==
    /\ written \in Nat /\ feed \in Seq(Entered)
    /\ \A i, j \in Asked : i = j
    /\ \A i \in Asked : feed[i].answer # <<>> =>
          given \in Replies /\ feed[i].answer = FormatGroupAnswer(Questions, given)

LEMMA InvInit == Init => Inv
BY DEF Init, Inv, Asked

\* Adding entries that are no pickers disturbs nothing.
LEMMA InvMore ==
    ASSUME Inv, NEW new \in Seq(Entered), feed' = feed \o new, UNCHANGED given, written' \in Nat,
           \/ \A i \in 1 .. Len(new) : new[i].kind # "ask"
           \/ Asked = {} /\ Len(new) = 1 /\ new[1].answer = <<>>
    PROVE  Inv'
<1>1. feed \in Seq(Entered) /\ Len(feed) \in Nat /\ Len(new) \in Nat
  BY DEF Inv
<1>2. /\ feed' \in Seq(Entered) /\ Len(feed') = Len(feed) + Len(new)
      /\ \A i \in 1 .. Len(feed) : feed'[i] = feed[i]
      /\ \A i \in 1 .. Len(new) : feed'[Len(feed) + i] = new[i]
  BY <1>1, Concat
<1>3. \A i \in 1 .. Len(feed') : i \notin 1 .. Len(feed) =>
        i - Len(feed) \in 1 .. Len(new) /\ feed'[i] = new[i - Len(feed)]
  <2> SUFFICES ASSUME NEW i \in 1 .. Len(feed'), i \notin 1 .. Len(feed)
               PROVE  i - Len(feed) \in 1 .. Len(new) /\ feed'[i] = new[i - Len(feed)]
    OBVIOUS
  <2>1. i - Len(feed) \in 1 .. Len(new) /\ Len(feed) + (i - Len(feed)) = i
    BY <1>1, <1>2
  <2>2. QED
    BY <1>2, <2>1
<1>4. CASE \A i \in 1 .. Len(new) : new[i].kind # "ask"
  <2>1. Asked' = Asked /\ \A i \in Asked : feed'[i] = feed[i]
    <3>1. \A i \in Asked' : i \in Asked
      BY <1>2, <1>3, <1>4 DEF Asked
    <3>2. \A i \in Asked : i \in Asked'
      BY <1>1, <1>2 DEF Asked
    <3>3. QED
      BY <1>2, <3>1, <3>2 DEF Asked
  <2>2. QED
    BY <1>2, <2>1 DEF Inv
<1>5. CASE Asked = {} /\ Len(new) = 1 /\ new[1].answer = <<>>
  <2>1. \A i \in Asked' : i = Len(feed) + 1 /\ feed'[i].answer = <<>>
    <3> SUFFICES ASSUME NEW i \in Asked'
                 PROVE  i = Len(feed) + 1 /\ feed'[i].answer = <<>>
      OBVIOUS
    <3>1. i \in 1 .. Len(feed') /\ feed'[i].kind = "ask"
      BY DEF Asked
    <3>2. i \notin 1 .. Len(feed)
      BY <1>2, <1>5, <3>1 DEF Asked
    <3>3. i - Len(feed) = 1 /\ feed'[i] = new[1]
      BY <1>3, <1>5, <3>1, <3>2
    <3>4. QED
      BY <1>1, <1>5, <3>1, <3>3
  <2>2. \A i, j \in Asked' : i = j
    BY <2>1
  <2>3. QED
    BY <1>2, <2>1, <2>2 DEF Inv
<1>6. QED
  BY <1>4, <1>5

LEMMA InvNext ==
    ASSUME Inv, [Next]_vars
    PROVE  Inv'
<1> USE DEF vars
<1>0. /\ written \in Nat /\ feed \in Seq(Entered)
      /\ \A i, j \in Asked : i = j
      /\ \A i \in Asked : feed[i].answer # <<>> =>
            given \in Replies /\ feed[i].answer = FormatGroupAnswer(Questions, given)
  BY DEF Inv
<1>1. ASSUME NEW doc \in Documents, written < MaxPieces, RelayText(doc)
      PROVE  Inv'
  <2> DEFINE new == Entries(Split(TextOf(doc)))
  <2>1. doc \in Seq(Pieces \cup Cuts)
    BY <1>0, <1>1, DocumentComplete DEF Complete
  <2>2. new \in Seq(Entered) /\ \A i \in 1 .. Len(new) : new[i].kind # "ask"
    BY <2>1, EntriesType
  <2>3. Len(doc) \in Nat /\ written' \in Nat
    BY <1>0, <1>1, <2>1 DEF RelayText, Writes
  <2>4. feed' = feed \o new /\ UNCHANGED given
    BY <1>1 DEF RelayText
  <2> HIDE DEF new
  <2>5. QED
    BY <2>2, <2>3, <2>4, InvMore
<1>2. ASSUME NEW kind \in {"tool", "result"}, RelayLine(kind)
      PROVE  Inv'
  <2> DEFINE e == Entry(Segment(kind, <<>>, ""))
  <2>1. e \in Entered /\ e.kind # "ask"
    BY EmptyEntry
  <2>2. feed' = Append(feed, e) /\ UNCHANGED given /\ written' \in Nat
    <3>1. feed' = Append(feed, e) /\ UNCHANGED given
      BY <1>2 DEF RelayLine
    <3>2. written' = written + 1
      BY <1>2 DEF RelayLine, Writes
    <3>3. written' \in Nat
      BY <1>0, <3>2
    <3>4. QED
      BY <3>1, <3>3
  <2> HIDE DEF e
  <2>3. feed' = feed \o <<e>> /\ <<e>> \in Seq(Entered) /\ Len(<<e>>) = 1 /\ <<e>>[1] = e
    BY <1>0, <2>1, <2>2
  <2>4. \A i \in 1 .. Len(<<e>>) : <<e>>[i].kind # "ask"
    BY <2>1, <2>3
  <2>5. QED
    BY <2>2, <2>3, <2>4, InvMore
<1>3. CASE RelayAsk
  <2> DEFINE e == Entry(Segment("ask", <<>>, ""))
  <2>1. e \in Entered /\ e.answer = <<>>
    BY EmptyEntry
  <2>2. feed' = Append(feed, e) /\ UNCHANGED given /\ written' \in Nat /\ Asked = {}
    <3>1. feed' = Append(feed, e) /\ UNCHANGED given /\ Asked = {}
      BY <1>3 DEF RelayAsk
    <3>2. written' = written + 2
      BY <1>3 DEF RelayAsk, Writes
    <3>3. written' \in Nat
      BY <1>0, <3>2
    <3>4. QED
      BY <3>1, <3>3
  <2> HIDE DEF e
  <2>3. feed' = feed \o <<e>> /\ <<e>> \in Seq(Entered) /\ Len(<<e>>) = 1 /\ <<e>>[1] = e
    BY <1>0, <2>1, <2>2
  <2>4. QED
    BY <2>1, <2>2, <2>3, InvMore
<1>4. ASSUME NEW rs \in Groups[Len(Questions)], Answer(rs)
      PROVE  Inv'
  <2>1. rs \in Replies
    BY <1>4, GroupsReplies DEF N
  <2>2. PICK i \in Unanswered : feed' = [feed EXCEPT ![i].answer = FormatGroupAnswer(Questions, rs)]
    BY <1>4 DEF Answer
  <2>3. i \in 1 .. Len(feed) /\ feed[i] \in Entered /\ i \in Asked
    BY <1>0, <2>2 DEF Unanswered, Asked
  <2> DEFINE w == FormatGroupAnswer(Questions, rs)
             e == [feed[i] EXCEPT !.answer = w]
  <2>4. w \in Seq(Lines)
    BY <2>1, FormatBases
  <2>5. feed' = [feed EXCEPT ![i] = e]
    BY <2>2
  <2> HIDE DEF w
  <2>6. e \in Entered /\ e.answer = w /\ e.kind = feed[i].kind
    BY <2>3, <2>4 DEF Entered
  <2> HIDE DEF e
  <2>7. /\ feed' \in Seq(Entered) /\ Len(feed') = Len(feed) /\ feed'[i] = e
        /\ \A j \in 1 .. Len(feed) : j # i => feed'[j] = feed[j]
    BY <1>0, <2>3, <2>5, <2>6
  <2>8. Asked' = Asked
    BY <2>3, <2>6, <2>7 DEF Asked
  <2>9. \A j \in Asked : j = i
    BY <1>0, <2>3
  <2>10. given' = rs /\ written' = written
    BY <1>4 DEF Answer
  <2>11. feed'[i].answer = FormatGroupAnswer(Questions, given')
    BY <2>6, <2>7, <2>10 DEF w
  <2>12. \A j \in Asked' : feed'[j].answer # <<>> =>
            given' \in Replies /\ feed'[j].answer = FormatGroupAnswer(Questions, given')
    BY <2>1, <2>8, <2>9, <2>10, <2>11
  <2>13. QED
    BY <1>0, <2>7, <2>8, <2>10, <2>12 DEF Inv
<1>5. CASE UNCHANGED vars
  BY <1>5 DEF Inv, Asked
<1>6. QED
  BY <1>1, <1>2, <1>3, <1>4, <1>5 DEF Next

\* The card shown again has the picks and the texts the user gave: the answer
\* string of formatGroupAnswer, read by parseGroupAnswer.
THEOREM AnswerIsReadBack == Spec => []AnswerReadBack
<1>1. Inv => AnswerReadBack
  <2> SUFFICES ASSUME Inv, given # <<>> => Clear(given), NEW i \in Asked, feed[i].answer # <<>>
               PROVE  ParseGroupAnswer(Questions, feed[i].answer) = Trimmed(given)
    BY DEF AnswerReadBack, ReadBack
  <2>1. given \in Replies /\ feed[i].answer = FormatGroupAnswer(Questions, given)
    BY DEF Inv
  <2>2. Clear(given)
    <3>1. CASE given # <<>>
      BY <3>1
    <3>2. CASE given = <<>>
      <4>1. given \in [1 .. N -> Response] /\ N \in Nat
        BY <2>1, TranscriptAssumption DEF Replies, Response, N
      <4>2. N = 0
        <5>1. DOMAIN given = 1 .. N
          BY <4>1
        <5>2. DOMAIN given = 1 .. 0
          BY <3>2
        <5>3. QED
          BY <4>1, <5>1, <5>2
      <4>3. QED
        BY <4>2 DEF Clear, N
    <3>3. QED
      BY <3>1, <3>2
  <2>3. QED
    BY <2>1, <2>2, GroupRead
<1>2. QED
  BY <1>1, InvInit, InvNext, PTL DEF Spec

-----------------------------------------------------------------------------
(* Pieces of sequences.                                                    *)

LEMMA FlattenSnoc ==
    ASSUME NEW X, NEW s \in Seq(Seq(X)), NEW x \in Seq(X)
    PROVE  FlattenSeq(Append(s, x)) = FlattenSeq(s) \o x
<1> DEFINE r == Append(s, x)
           m == Len(s)
<1>1. r \in Seq(Seq(X)) /\ Len(r) = m + 1 /\ r[m + 1] = x /\ \A i \in 1 .. m : r[i] = s[i]
  OBVIOUS
<1>2. m \in Nat /\ m = Len(s)
  OBVIOUS
<1> HIDE DEF r, m
<1>3. PICK f : Joined(f, s, X) /\ FlattenSeq(s) = f[m]
  BY <1>2, FlattenPrefixes
<1>4. PICK g : Joined(g, r, X) /\ FlattenSeq(r) = g[m + 1]
  BY <1>1, FlattenPrefixes
<1> DEFINE S == {n \in Nat : n <= m => g[n] = f[n]}
<1>5. 0 \in S
  BY <1>3, <1>4 DEF Joined
<1>6. ASSUME NEW n \in Nat, n \in S
      PROVE  n + 1 \in S
  <2> SUFFICES ASSUME n + 1 <= m
               PROVE  g[n + 1] = f[n + 1]
    OBVIOUS
  <2>1. n + 1 \in 1 .. m /\ n + 1 \in 1 .. m + 1 /\ (n + 1) - 1 = n
    BY <1>2
  <2>2. f[n + 1] = f[(n + 1) - 1] \o s[n + 1]
    BY <1>2, <1>3, <2>1 DEF Joined
  <2>3. g[n + 1] = g[(n + 1) - 1] \o r[n + 1]
    BY <1>1, <1>4, <2>1 DEF Joined
  <2>4. g[n] = f[n] /\ r[n + 1] = s[n + 1]
    BY <1>1, <1>2, <1>6, <2>1
  <2>5. QED
    BY <2>1, <2>2, <2>3, <2>4
<1> HIDE DEF S
<1>7. Nat \subseteq S
  BY <1>5, <1>6, Induction
<1>8. g[m] = f[m]
  BY <1>2, <1>7 DEF S
<1>9. g[m + 1] = g[m] \o x
  <2>1. m + 1 \in 1 .. m + 1 /\ (m + 1) - 1 = m
    BY <1>2
  <2>2. g[m + 1] = g[(m + 1) - 1] \o r[m + 1]
    BY <1>1, <1>4, <2>1 DEF Joined
  <2>3. QED
    BY <1>1, <2>1, <2>2
<1>10. QED
  BY <1>3, <1>4, <1>8, <1>9 DEF r

\* The parts of s from i to k, joined.
Flat(s, i, k) == FlattenSeq(SubSeq(s, i, k))

LEMMA SubSeqMore ==
    ASSUME NEW X, NEW s \in Seq(X), NEW k \in 1 .. Len(s), NEW i \in 1 .. k
    PROVE  /\ SubSeq(s, i, k - 1) \in Seq(X)
           /\ SubSeq(s, i, k) = Append(SubSeq(s, i, k - 1), s[k])
<1> DEFINE a == SubSeq(s, i, k - 1)
           x == s[k]
<1>1. i \in 1 .. Len(s) /\ k \in i .. Len(s)
  OBVIOUS
<1>2. SubSeq(s, i, k) = a \o <<x>>
  BY <1>1, SubSeqRecursiveSecond
<1>3. a \in Seq(X) /\ x \in X
  <2>1. x \in X /\ k - 1 \in Nat /\ i \in Nat /\ k - 1 <= Len(s) /\ Len(s) \in Nat
    OBVIOUS
  <2>2. QED
    BY <2>1
<1> HIDE DEF a, x
<1>4. a \o <<x>> = Append(a, x)
  BY <1>3
<1>5. QED
  BY <1>2, <1>3, <1>4 DEF a, x

LEMMA FlatMore ==
    ASSUME NEW X, NEW s \in Seq(Seq(X)), NEW k \in 1 .. Len(s), NEW i \in 1 .. k
    PROVE  /\ Flat(s, i, k - 1) \in Seq(X) /\ Flat(s, i, k) \in Seq(X)
           /\ Flat(s, i, k) = Flat(s, i, k - 1) \o s[k]
<1> DEFINE Y == Seq(X)
<1>1. s \in Seq(Y) /\ s[k] \in Y
  OBVIOUS
<1> HIDE DEF Y
<1>2. /\ SubSeq(s, i, k - 1) \in Seq(Y)
      /\ SubSeq(s, i, k) = Append(SubSeq(s, i, k - 1), s[k])
  BY <1>1, SubSeqMore
<1> DEFINE a == SubSeq(s, i, k - 1)
           x == s[k]
<1>3. a \in Seq(Y) /\ x \in Y /\ SubSeq(s, i, k) = Append(a, x)
  BY <1>1, <1>2
<1>4. Flat(s, i, k - 1) = FlattenSeq(a) /\ Flat(s, i, k) = FlattenSeq(Append(a, x)) /\ x = s[k]
  BY <1>3 DEF Flat
<1> HIDE DEF a, x
<1>5. FlattenSeq(Append(a, x)) = FlattenSeq(a) \o x /\ FlattenSeq(a) \in Seq(X)
  BY <1>3, FlattenSnoc, FlattenPlaces DEF Y
<1>6. FlattenSeq(a) \o x \in Seq(X)
  BY <1>3, <1>5, Concat DEF Y
<1>7. QED
  BY <1>4, <1>5, <1>6

LEMMA FlatNone ==
    ASSUME NEW s, NEW i \in Nat
    PROVE  Flat(s, i, i - 1) = <<>>
<1>1. SubSeq(s, i, i - 1) = <<>>
  OBVIOUS
<1>2. FlattenSeq(<<>>) = <<>>
  BY DEF FlattenSeq
<1>3. QED
  BY <1>1, <1>2 DEF Flat

\* A part of a text that stands in it after its first b tokens.
Stands(t, b, w) == b + Len(w) <= Len(t) /\ \A k \in 1 .. Len(w) : t[b + k] = w[k]

LEMMA StandsSub ==
    ASSUME NEW X, NEW t \in Seq(X), NEW w \in Seq(X), NEW b \in Nat, Stands(t, b, w)
    PROVE  SubSeq(t, b + 1, b + Len(w)) = w
<1> DEFINE a == SubSeq(t, b + 1, b + Len(w))
<1>1. Len(t) \in Nat /\ Len(w) \in Nat /\ b + Len(w) <= Len(t)
  BY DEF Stands
<1>2. a \in Seq(X) /\ Len(a) = Len(w) /\ \A k \in 1 .. Len(w) : a[k] = t[b + k]
  BY <1>1
<1>3. \A k \in 1 .. Len(w) : t[b + k] = w[k]
  BY DEF Stands
<1> HIDE DEF a
<1>4. \A k \in 1 .. Len(a) : a[k] = w[k]
  BY <1>2, <1>3
<1>5. a = w
  BY <1>2, <1>4, SeqEqual
<1>6. QED
  BY <1>5 DEF a

LEMMA FindFirst ==
    ASSUME NEW t, NEW p \in Nat, NEW x, Len(t) \in Nat, NEW q \in p .. Len(t), t[q] = x,
           \A r \in p .. q - 1 : t[r] # x
    PROVE  Find(t, p, x) = q
<1> DEFINE found == {r \in p .. Len(t) : t[r] = x}
<1>1. q \in found /\ \A r \in found : q <= r
  OBVIOUS
<1>2. \A n \in found : (\A r \in found : n <= r) => n = q
  BY <1>1
<1>3. Find(t, p, x) = CHOOSE n \in found : \A r \in found : n <= r
  BY <1>1 DEF Find
<1> HIDE DEF found
<1>4. (CHOOSE n \in found : \A r \in found : n <= r) = q
  BY <1>1, <1>2
<1>5. QED
  BY <1>3, <1>4

LEMMA FindNone ==
    ASSUME NEW t, NEW p \in Nat, NEW x, \A r \in p .. Len(t) : t[r] # x
    PROVE  Find(t, p, x) = 0
BY DEF Find

\* What is read before x: prose a, or a page or note.
After(x, a)  == [prose |-> a \o x.prose, segments |-> x.segments]
Cut(x, made) == [prose |-> <<>>, segments |-> made \o Flush(x.prose) \o x.segments]

\* What is read from position p on.
LEMMA ScanAt ==
    ASSUME NEW tok, NEW t \in Seq(tok), NEW f, Scans(f, t, 1), NEW p \in 1 .. Len(t)
    PROVE  LET code == CodeEnd(t, p)
               page == TagEnd(t, p, Page)
               note == TagEnd(t, p, Note)
           IN  /\ code # 0 => f[p] = After(f[code], SubSeq(t, p, code - 1))
               /\ code = 0 /\ page # 0 => f[p] = Cut(f[page],
                     <<Segment("artifact", Strip(SubSeq(t, p + 1, page - 2)), "")>>)
               /\ code = 0 /\ page = 0 /\ note # 0 => f[p] = Cut(f[note],
                     NoteOf(t[p], SubSeq(t, p + 1, note - 2)))
               /\ code = 0 /\ page = 0 /\ note = 0 => f[p] = After(f[p + 1], SubSeq(t, p, p))
<1> DEFINE code == CodeEnd(t, p)
           page == TagEnd(t, p, Page)
           note == TagEnd(t, p, Note)
<1>1. /\ code = 0 \/ code \in p + 1 .. Len(t) + 1
      /\ page = 0 \/ page \in p + 1 .. Len(t) + 1
      /\ note = 0 \/ note \in p + 1 .. Len(t) + 1
      /\ p + 1 \in p + 1 .. Len(t) + 1
  BY CodeRange, TagRange
<1>2. ASSUME NEW q \in p + 1 .. Len(t) + 1
      PROVE  \A a : [f[q] EXCEPT !.prose = a \o @] = After(f[q], a)
  <2>1. q \in 1 .. Len(t) + 1 /\ 1 \in 1 .. Len(t) + 1
    OBVIOUS
  <2>2. f[q] \in Scan(tok)
    BY <2>1, ScanType
  <2> DEFINE x == f[q]
  <2>3. x \in Scan(tok)
    BY <2>2
  <2> HIDE DEF x
  <2>4. \A b : [x EXCEPT !.prose = b] = [prose |-> b, segments |-> x.segments]
    BY <2>3 DEF Scan
  <2>5. \A a : [x EXCEPT !.prose = a \o x.prose] = After(x, a)
    BY <2>4 DEF After
  <2>6. QED
    BY <2>5 DEF x
<1>3. f[p] = Read(t, p, f)
  <2>1. p \in 1 .. Len(t) + 1 /\ ~(p > Len(t)) /\ 1 \in 1 .. Len(t) + 1
    OBVIOUS
  <2>2. QED
    BY <2>1, ScanStep
<1>4. (p + 1) - 1 = p
  OBVIOUS
<1>5. f[p] = IF code # 0 THEN [f[code] EXCEPT !.prose = SubSeq(t, p, code - 1) \o @]
             ELSE IF page # 0 THEN Cut(f[page],
                     <<Segment("artifact", Strip(SubSeq(t, p + 1, page - 2)), "")>>)
             ELSE IF note # 0 THEN Cut(f[note], NoteOf(t[p], SubSeq(t, p + 1, note - 2)))
             ELSE [f[p + 1] EXCEPT !.prose = SubSeq(t, p, (p + 1) - 1) \o @]
  BY <1>3 DEF Read, Cut
<1> HIDE DEF code, page, note
<1>6. code # 0 => f[p] = After(f[code], SubSeq(t, p, code - 1))
  BY <1>1, <1>2, <1>5
<1>7. code = 0 /\ page = 0 /\ note = 0 => f[p] = After(f[p + 1], SubSeq(t, p, p))
  BY <1>1, <1>2, <1>4, <1>5
<1>8. code = 0 /\ page # 0 => f[p] = Cut(f[page],
          <<Segment("artifact", Strip(SubSeq(t, p + 1, page - 2)), "")>>)
  BY <1>5
<1>9. code = 0 /\ page = 0 /\ note # 0 => f[p] = Cut(f[note], NoteOf(t[p], SubSeq(t, p + 1, note - 2)))
  BY <1>5
<1>10. QED
  BY <1>6, <1>7, <1>8, <1>9 DEF code, page, note

LEMMA AfterAfter ==
    ASSUME NEW tok, NEW x \in Scan(tok), NEW a \in Seq(tok), NEW c \in Seq(tok)
    PROVE  After(x, <<>>) = x /\ After(After(x, c), a) = After(x, a \o c)
<1> DEFINE p == x.prose
           s == x.segments
<1>1. p \in Seq(tok) /\ x = [prose |-> p, segments |-> s]
  BY DEF Scan
<1> HIDE DEF p, s
<1>2. <<>> \o p = p /\ a \o (c \o p) = (a \o c) \o p
  BY <1>1, ConcatAssociative
<1>3. QED
  BY <1>1, <1>2 DEF After

\* Where no backtick stands, there is no code.
LEMMA NoCode ==
    ASSUME NEW t, NEW p \in Nat, t[p] # Tick
    PROVE  CodeEnd(t, p) = 0
<1>1. ~Fenced(t, p)
  BY DEF Fenced
<1>2. QED
  BY <1>1 DEF CodeEnd, FenceEnd, InlineEnd

\* w, a piece d between an opening x and a closing y, stands in t behind b.
Wraps(t, b, d, x, y, w) ==
    LET q == b + Len(d) + 2
    IN  /\ Len(w) = Len(d) + 2 /\ Len(d) \in Nat /\ Len(t) \in Nat
        /\ q \in b + 2 .. Len(t) /\ b + 1 \in 1 .. Len(t)
        /\ t[b + 1] = x /\ t[q] = y
        /\ \A r \in b + 2 .. q - 1 : r - b - 1 \in 1 .. Len(d) /\ t[r] = d[r - b - 1]
        /\ SubSeq(t, b + 2, q - 1) = d /\ SubSeq(t, b + 1, q) = w

LEMMA Wrapped ==
    ASSUME NEW X, NEW t \in Seq(X), NEW d \in Seq(X), NEW x \in X, NEW y \in X, NEW b \in Nat,
           NEW w, w = <<x>> \o d \o <<y>>, Stands(t, b, w)
    PROVE  Wraps(t, b, d, x, y, w)
<1> DEFINE n == Len(d)
           q == b + n + 2
<1>0. n = Len(d) /\ n \in Nat /\ Len(t) \in Nat /\ q = b + n + 2
  OBVIOUS
<1>1. /\ w \in Seq(X) /\ Len(w) = n + 2 /\ w[1] = x /\ w[n + 2] = y
      /\ \A k \in 1 .. n : w[k + 1] = d[k]
  <2>1. <<x>> \in Seq(X) /\ <<y>> \in Seq(X) /\ Len(<<x>>) = 1 /\ Len(<<y>>) = 1
    BY OneInSeq
  <2> DEFINE v == <<x>> \o d
             z == <<y>>
  <2>2. v \in Seq(X) /\ Len(v) = n + 1 /\ v[1] = x /\ \A k \in 1 .. n : v[k + 1] = d[k]
    BY <2>1
  <2>3. w = v \o z /\ z \in Seq(X) /\ Len(z) = 1 /\ z[1] = y
    BY <2>1
  <2> HIDE DEF v, z, n
  <2>4. /\ w \in Seq(X) /\ Len(w) = Len(v) + Len(z) /\ Len(v) \in Nat
        /\ \A k \in 1 .. Len(v) : w[k] = v[k]
        /\ \A k \in 1 .. Len(z) : w[Len(v) + k] = z[k]
    <3>1. /\ v \o z \in Seq(X) /\ Len(v \o z) = Len(v) + Len(z) /\ Len(v) \in Nat
          /\ \A k \in 1 .. Len(v) : (v \o z)[k] = v[k]
          /\ \A k \in 1 .. Len(z) : (v \o z)[Len(v) + k] = z[k]
      <4>1. v \in Seq(X) /\ z \in Seq(X)
        BY <2>2, <2>3
      <4>2. QED
        BY <4>1, Concat
    <3>2. w = v \o z
      BY <2>3
    <3>3. QED
      BY <3>1, <3>2
  <2>5. Len(w) = n + 2
    BY <1>0, <2>2, <2>3, <2>4
  <2>6. w[1] = x /\ \A k \in 1 .. n : w[k + 1] = d[k]
    <3>1. 1 \in 1 .. Len(v) /\ \A k \in 1 .. n : k + 1 \in 1 .. Len(v)
      BY <1>0, <2>2
    <3>2. QED
      BY <2>2, <2>4, <3>1
  <2>7. w[n + 2] = y
    <3>1. 1 \in 1 .. Len(z) /\ Len(v) + 1 = n + 2
      BY <1>0, <2>2, <2>3
    <3>2. w[Len(v) + 1] = z[1]
      BY <2>4, <3>1
    <3>3. QED
      BY <2>3, <3>1, <3>2
  <2>8. QED
    BY <2>4, <2>5, <2>6, <2>7
<1> HIDE DEF n, q
<1>3. b + n + 2 <= Len(t) /\ \A k \in 1 .. n + 2 : t[b + k] = w[k]
  BY <1>0, <1>1 DEF Stands
<1>4. q \in b + 2 .. Len(t) /\ b + 1 \in 1 .. Len(t)
  BY <1>0, <1>3
<1>5. t[b + 1] = x
  BY <1>0, <1>1, <1>3
<1>6. t[q] = y
  <2>1. n + 2 \in 1 .. n + 2 /\ q = b + (n + 2)
    BY <1>0
  <2>2. QED
    BY <1>1, <1>3, <2>1
<1>7. \A k \in 1 .. n : t[b + 1 + k] = d[k]
  <2> SUFFICES ASSUME NEW k \in 1 .. n
               PROVE  t[b + 1 + k] = d[k]
    OBVIOUS
  <2>1. k + 1 \in 1 .. n + 2 /\ b + 1 + k = b + (k + 1)
    BY <1>0
  <2>2. QED
    BY <1>1, <1>3, <2>1
<1>8. \A r \in b + 2 .. q - 1 : r - b - 1 \in 1 .. n /\ t[r] = d[r - b - 1]
  <2> SUFFICES ASSUME NEW r \in b + 2 .. q - 1
               PROVE  r - b - 1 \in 1 .. n /\ t[r] = d[r - b - 1]
    OBVIOUS
  <2>1. r - b - 1 \in 1 .. n /\ r = b + 1 + (r - b - 1)
    BY <1>0
  <2>2. QED
    BY <1>7, <2>1
<1>9. SubSeq(t, b + 1, q) = w
  <2>1. SubSeq(t, b + 1, b + Len(w)) = w
    BY <1>1, StandsSub
  <2>2. b + Len(w) = q
    BY <1>0, <1>1
  <2>3. QED
    BY <2>1, <2>2
<1>10. SubSeq(t, b + 2, q - 1) = d
  <2>1. Stands(t, b + 1, d) /\ b + 1 \in Nat
    BY <1>0, <1>3, <1>7 DEF Stands
  <2>2. SubSeq(t, (b + 1) + 1, (b + 1) + Len(d)) = d
    BY <2>1, StandsSub
  <2>3. (b + 1) + 1 = b + 2 /\ (b + 1) + Len(d) = q - 1
    BY <1>0
  <2>4. QED
    BY <2>2, <2>3
<1>11. QED
  BY <1>0, <1>1, <1>4, <1>5, <1>6, <1>7, <1>8, <1>9, <1>10 DEF n, q, Wraps

\* A span is read as code up to its end.
LEMMA SpanRead ==
    ASSUME NEW X, NEW t \in Seq(X), Tick \in X, NEW d \in Seq(X), NEW b \in Nat,
           d # <<>>, \A k \in 1 .. Len(d) : d[k] \notin {Tick, Newline},
           NEW w, w = <<Tick>> \o d \o <<Tick>>, Stands(t, b, w)
    PROVE  CodeEnd(t, b + 1) = b + Len(d) + 3
<1> DEFINE n == Len(d)
           q == b + n + 2
<1>0. Wraps(t, b, d, Tick, Tick, w)
  BY Wrapped
<1>1. /\ n \in Nat /\ Len(t) \in Nat /\ q \in b + 2 .. Len(t) /\ q = b + n + 2
      /\ t[b + 1] = Tick /\ t[q] = Tick
      /\ \A r \in b + 2 .. q - 1 : r - b - 1 \in 1 .. n /\ t[r] = d[r - b - 1]
  BY <1>0 DEF Wraps
<1>2. n # 0
  OBVIOUS
<1> HIDE DEF n, q
<1>3. \A r \in b + 2 .. q - 1 : t[r] \notin {Tick, Newline}
  BY <1>1 DEF n
<1>4. Find(t, b + 2, Tick) = q
  <2>1. \A r \in b + 2 .. q - 1 : t[r] # Tick
    BY <1>3
  <2>2. QED
    BY <1>1, <2>1, FindFirst
<1>5. ~Fenced(t, b + 1)
  <2>1. b + 2 \in b + 2 .. q - 1 /\ b + 2 \in b + 1 .. (b + 1) + 2
    BY <1>1, <1>2
  <2>2. t[b + 2] # Tick
    BY <1>3, <2>1
  <2>3. QED
    BY <2>1, <2>2 DEF Fenced
<1>6. \A r \in b + 1 .. q : t[r] # Newline
  <2> SUFFICES ASSUME NEW r \in b + 1 .. q
               PROVE  t[r] # Newline
    OBVIOUS
  <2>1. r = b + 1 \/ r = q \/ r \in b + 2 .. q - 1
    BY <1>1
  <2>2. Tick # Newline
    BY DEF Tick, Newline
  <2>3. QED
    BY <1>1, <1>3, <2>1, <2>2
<1>7. (b + 1) + 1 = b + 2 /\ q # 0 /\ q + 1 # 0 /\ q + 1 = b + n + 3
  BY <1>1
<1>8. InlineEnd(t, b + 1) = q + 1
  BY <1>1, <1>4, <1>6, <1>7 DEF InlineEnd
<1>9. FenceEnd(t, b + 1) = 0
  BY <1>5 DEF FenceEnd
<1>10. QED
  BY <1>7, <1>8, <1>9 DEF CodeEnd, n

\* A fence is read as code up to its end.
FenceText(w, d) ==
    /\ w = <<Tick, Tick, Tick>> \o d \o <<Tick, Tick, Tick>>
    /\ \A q \in 1 .. Len(d) : ~Fenced(d \o <<Tick, Tick, Tick>>, q)

LEMMA FenceRead ==
    ASSUME NEW X, NEW t \in Seq(X), Tick \in X, NEW d \in Seq(X), NEW b \in Nat,
           NEW w, FenceText(w, d), Stands(t, b, w)
    PROVE  /\ CodeEnd(t, b + 1) = b + Len(d) + 7
           /\ Len(w) = Len(d) + 6
           /\ b + 1 \in 1 .. Len(t)
<1> DEFINE n == Len(d)
           z == <<Tick, Tick, Tick>>
           v == d \o z
<1>1. /\ z \in Seq(X) /\ Len(z) = 3 /\ \A k \in 1 .. 3 : z[k] = Tick
      /\ n = Len(d) /\ n \in Nat /\ Len(t) \in Nat
  BY OneInSeq
<1>2. \A q \in 1 .. n : ~Fenced(v, q)
  BY DEF FenceText
<1>3. v = d \o z /\ w = (z \o d) \o z
  BY DEF FenceText
<1> HIDE DEF z
<1>4. w = z \o v
  <2>1. z \in Seq(X) /\ d \in Seq(X)
    BY <1>1
  <2>2. (z \o d) \o z = z \o (d \o z)
    BY <2>1, ConcatAssociative
  <2>3. QED
    BY <1>3, <2>2
<1> HIDE DEF n, v
<1>6. v \in Seq(X) /\ Len(v) = n + 3 /\ \A k \in 1 .. 3 : v[n + k] = Tick
  <2>1. /\ d \o z \in Seq(X) /\ Len(d \o z) = Len(d) + Len(z)
        /\ \A k \in 1 .. Len(z) : (d \o z)[Len(d) + k] = z[k]
    <3>1. d \in Seq(X) /\ z \in Seq(X)
      BY <1>1
    <3>2. QED
      BY <3>1, Concat
  <2>2. QED
    BY <1>1, <1>3, <2>1
<1>7. w \in Seq(X) /\ Len(w) = n + 6 /\ \A k \in 1 .. 3 : w[k] = Tick
  <2>1. /\ z \o v \in Seq(X) /\ Len(z \o v) = Len(z) + Len(v)
        /\ \A k \in 1 .. Len(z) : (z \o v)[k] = z[k]
    <3>1. z \in Seq(X) /\ v \in Seq(X)
      BY <1>1, <1>6
    <3>2. QED
      BY <3>1, Concat
  <2>2. QED
    BY <1>1, <1>4, <1>6, <2>1
<1>8. \A k \in 1 .. n + 3 : w[3 + k] = v[k]
  <2>1. \A k \in 1 .. Len(v) : (z \o v)[Len(z) + k] = v[k]
    <3>1. z \in Seq(X) /\ v \in Seq(X)
      BY <1>1, <1>6
    <3>2. QED
      BY <3>1, Concat
  <2>2. QED
    BY <1>1, <1>4, <1>6, <2>1
<1>9. b + n + 6 <= Len(t) /\ \A k \in 1 .. n + 6 : t[b + k] = w[k]
  <2>1. b + Len(w) <= Len(t) /\ \A k \in 1 .. Len(w) : t[b + k] = w[k]
    BY DEF Stands
  <2>2. Len(w) = n + 6
    BY <1>7
  <2> HIDE DEF z
  <2>3. b + (n + 6) = b + n + 6
    BY <1>1
  <2>4. QED
    BY <2>1, <2>2, <2>3
<1>10. \A k \in 1 .. n + 3 : t[b + 3 + k] = v[k]
  <2> SUFFICES ASSUME NEW k \in 1 .. n + 3
               PROVE  t[b + 3 + k] = v[k]
    OBVIOUS
  <2>1. 3 + k \in 1 .. n + 6 /\ b + 3 + k = b + (3 + k)
    BY <1>1
  <2>2. QED
    BY <1>8, <1>9, <2>1
<1>11. Fenced(t, b + 1)
  <2>1. \A r \in b + 1 .. (b + 1) + 2 : r - b \in 1 .. 3 /\ r - b \in 1 .. n + 6 /\ b + (r - b) = r
    BY <1>1
  <2>2. \A r \in b + 1 .. (b + 1) + 2 : t[r] = Tick
    BY <1>7, <1>9, <2>1
  <2>3. (b + 1) + 2 <= Len(t)
    BY <1>1, <1>9
  <2>4. QED
    BY <2>2, <2>3 DEF Fenced
<1> DEFINE q == b + n + 4
           closing == {r \in (b + 1) + 3 .. Len(t) : Fenced(t, r)}
<1>12. q \in closing
  <2>1. q \in (b + 1) + 3 .. Len(t) /\ q + 2 <= Len(t)
    BY <1>1, <1>9
  <2>2. \A r \in q .. q + 2 : t[r] = Tick
    <3> SUFFICES ASSUME NEW r \in q .. q + 2
                 PROVE  t[r] = Tick
      OBVIOUS
    <3> DEFINE k == r - b - 3 - n
    <3>1. r \in Int /\ q <= r /\ r <= q + 2
      BY <1>1
    <3>5. k \in 1 .. 3 /\ n + k \in 1 .. n + 3 /\ b + 3 + (n + k) = r
      <4>1. n \in Nat /\ b \in Nat
        BY <1>1
      <4>2. \A m \in Nat, a \in Nat, s \in Int : a + m + 4 <= s /\ s <= a + m + 6 =>
              LET l == s - a - 3 - m
              IN  l \in 1 .. 3 /\ m + l \in 1 .. m + 3 /\ a + 3 + (m + l) = s
        OBVIOUS
      <4>3. b + n + 4 <= r /\ r <= b + n + 6
        BY <3>1, <4>1
      <4>4. QED
        BY <3>1, <4>1, <4>2, <4>3
    <3> HIDE DEF k
    <3>2. t[b + 3 + (n + k)] = v[n + k]
      BY <1>10, <3>5
    <3>3. v[n + k] = Tick
      BY <1>6, <3>5
    <3>4. QED
      BY <3>2, <3>3, <3>5
  <2>3. QED
    BY <2>1, <2>2 DEF Fenced
<1>13. \A r \in closing : q <= r
  <2> SUFFICES ASSUME NEW r \in closing, r < q
               PROVE  FALSE
    BY <1>1
  <2>1. r \in b + 4 .. Len(t) /\ Fenced(t, r)
    BY <1>1
  <2> DEFINE k == r - b - 3
  <2>2. k \in 1 .. n /\ r = b + 3 + k
    BY <1>1, <2>1
  <2> HIDE DEF k
  <2>3. \A l \in k .. k + 2 : l \in 1 .. n + 3 /\ b + 3 + l \in r .. r + 2
    BY <1>1, <2>2
  <2>4. \A l \in r .. r + 2 : t[l] = Tick
    BY <2>1 DEF Fenced
  <2>5. \A l \in k .. k + 2 : v[l] = Tick
    BY <1>10, <2>3, <2>4
  <2>6. k + 2 <= Len(v)
    BY <1>1, <1>6, <2>2
  <2>7. Fenced(v, k)
    BY <2>5, <2>6 DEF Fenced
  <2>8. QED
    BY <1>2, <2>2, <2>7
<1>14. FenceEnd(t, b + 1) = 3 + q
  <2>1. FenceEnd(t, b + 1) = 3 + CHOOSE l \in closing : \A r \in closing : l <= r
    BY <1>11, <1>12 DEF FenceEnd
  <2>2. closing \subseteq Int /\ q \in Int
    BY <1>1
  <2> HIDE DEF closing, q
  <2>3. \A l \in closing : (\A r \in closing : l <= r) => l = q
    BY <1>12, <1>13, <2>2
  <2>4. (CHOOSE l \in closing : \A r \in closing : l <= r) = q
    BY <1>12, <1>13, <2>3
  <2>5. QED
    BY <2>1, <2>4
<1>15. 3 + q # 0 /\ 3 + q = b + n + 7 /\ b + 1 \in 1 .. Len(t)
  BY <1>1, <1>9
<1>16. CodeEnd(t, b + 1) = b + n + 7
  BY <1>14, <1>15 DEF CodeEnd
<1>17. QED
  BY <1>7, <1>15, <1>16 DEF n

\* A page or a note is read as one, up to its closing tag.
LEMMA TagRead ==
    ASSUME NEW X, NEW t \in Seq(X), NEW tag \in {Page, Note}, NEW x \in tag.open, x \in X,
           tag.close \in X, NEW d \in Seq(X), NEW b \in Nat,
           \A k \in 1 .. Len(d) : d[k] # tag.close,
           NEW w, w = <<x>> \o d \o <<tag.close>>, Stands(t, b, w)
    PROVE  /\ CodeEnd(t, b + 1) = 0 /\ TagEnd(t, b + 1, tag) = b + Len(d) + 3
           /\ tag = Note => TagEnd(t, b + 1, Page) = 0
<1> DEFINE n == Len(d)
           q == b + n + 2
<1>0. Wraps(t, b, d, x, tag.close, w)
  BY Wrapped
<1>1. /\ n \in Nat /\ Len(t) \in Nat /\ q \in b + 2 .. Len(t) /\ q = b + n + 2
      /\ t[b + 1] = x /\ t[q] = tag.close
      /\ \A r \in b + 2 .. q - 1 : r - b - 1 \in 1 .. n /\ t[r] = d[r - b - 1]
  BY <1>0 DEF Wraps
<1> HIDE DEF n, q
<1>2. x # Tick /\ x # tag.close /\ (tag = Note => x \notin Page.open)
  <2>1. CASE tag = Page
    BY <2>1 DEF Page, Note, Tick
  <2>2. CASE tag = Note
    BY <2>2 DEF Page, Note, Tick
  <2>3. QED
    BY <2>1, <2>2
<1>3. CodeEnd(t, b + 1) = 0
  BY <1>1, <1>2, NoCode
<1>4. Find(t, b + 1, tag.close) = q
  <2>1. \A r \in b + 1 .. q - 1 : t[r] # tag.close
    <3> SUFFICES ASSUME NEW r \in b + 1 .. q - 1
                 PROVE  t[r] # tag.close
      OBVIOUS
    <3>1. r = b + 1 \/ r \in b + 2 .. q - 1
      BY <1>1
    <3>2. QED
      BY <1>1, <1>2, <3>1 DEF n
  <2>2. q \in b + 1 .. Len(t)
    BY <1>1
  <2> DEFINE c == tag.close
  <2>3. t[q] = c /\ \A r \in b + 1 .. q - 1 : t[r] # c
    BY <1>1, <2>1
  <2> HIDE DEF c
  <2>4. Find(t, b + 1, c) = q
    BY <1>1, <2>2, <2>3, FindFirst
  <2>5. QED
    BY <2>4 DEF c
<1>5. q # 0 /\ q + 1 = b + n + 3
  BY <1>1
<1>6. TagEnd(t, b + 1, tag) = q + 1
  BY <1>1, <1>4, <1>5 DEF TagEnd
<1>7. tag = Note => TagEnd(t, b + 1, Page) = 0
  BY <1>1, <1>2 DEF TagEnd
<1>8. QED
  BY <1>3, <1>5, <1>6, <1>7 DEF n

\* Where neither code nor a tag begins, a token is prose.
LEMMA ProseAt ==
    ASSUME NEW X, NEW t \in Seq(X), NEW f, Scans(f, t, 1), NEW p \in 1 .. Len(t),
           t[p] \notin {Tick} \cup Page.open \cup Note.open
    PROVE  f[p] = After(f[p + 1], SubSeq(t, p, p))
<1>1. CodeEnd(t, p) = 0
  BY NoCode
<1>2. TagEnd(t, p, Page) = 0 /\ TagEnd(t, p, Note) = 0
  BY DEF TagEnd
<1>3. QED
  BY <1>1, <1>2, ScanAt

LEMMA ProseRead ==
    ASSUME NEW X, NEW t \in Seq(X), NEW f, Scans(f, t, 1), NEW w \in Seq(X), NEW b \in Nat,
           Stands(t, b, w), \A k \in 1 .. Len(w) : w[k] \notin {Tick} \cup Page.open \cup Note.open
    PROVE  f[b + 1] = After(f[b + Len(w) + 1], w)
<1> DEFINE m == Len(w)
           S == {n \in Nat : n <= m => f[b + 1] = After(f[b + n + 1], SubSeq(t, b + 1, b + n))}
<1>1. m \in Nat /\ Len(t) \in Nat /\ b + m <= Len(t) /\ \A k \in 1 .. m : t[b + k] = w[k]
  BY DEF Stands
<1>2. \A p \in 1 .. Len(t) + 1 : f[p] \in Scan(X)
  <2>1. 1 \in 1 .. Len(t) + 1
    BY <1>1
  <2>2. QED
    BY <2>1, ScanType
<1> HIDE DEF m
<1>3. 0 \in S
  <2>1. f[b + 1] \in Scan(X) /\ b + 0 + 1 = b + 1 /\ b + 0 = b
    BY <1>1, <1>2
  <2>2. SubSeq(t, b + 1, b) = <<>>
    <3>1. b + 1 \in Int /\ b \in Int /\ b < b + 1
      OBVIOUS
    <3>2. QED
      BY <3>1, SubSeqEmpty
  <2>3. <<>> \in Seq(X)
    OBVIOUS
  <2>4. After(f[b + 1], <<>>) = f[b + 1]
    BY <2>1, <2>3, AfterAfter
  <2>5. QED
    BY <2>1, <2>2, <2>4
<1>4. ASSUME NEW n \in Nat, n \in S
      PROVE  n + 1 \in S
  <2> SUFFICES ASSUME n + 1 <= m
               PROVE  f[b + 1] = After(f[b + (n + 1) + 1], SubSeq(t, b + 1, b + (n + 1)))
    OBVIOUS
  <2> DEFINE p == b + n + 1
             a == SubSeq(t, b + 1, p - 1)
             c == SubSeq(t, p, p)
  <2>1. p \in 1 .. Len(t) /\ p + 1 \in 1 .. Len(t) + 1 /\ b + n = p - 1 /\ n + 1 \in 1 .. m
    BY <1>1
  <2>2. t[p] = w[n + 1]
    <3>1. p = b + (n + 1)
      OBVIOUS
    <3>2. QED
      BY <1>1, <2>1, <3>1
  <2>3. f[b + 1] = After(f[p], a)
    BY <1>1, <1>4, <2>1
  <2>4. a \in Seq(X) /\ c \in Seq(X)
    BY <1>1, <2>1
  <2>5. a \o c = SubSeq(t, b + 1, p)
    <3>1. /\ b + 1 \in 1 .. Len(t) + 1 /\ p - 1 \in (b + 1) - 1 .. Len(t) /\ p \in p - 1 .. Len(t)
          /\ (p - 1) + 1 = p
      BY <1>1, <2>1
    <3>2. QED
      BY <3>1, ConcatAdjacentSubSeq
  <2>6. b + (n + 1) = p
    OBVIOUS
  <2> HIDE DEF p, a
  <2>7. t[p] \notin {Tick} \cup Page.open \cup Note.open
    BY <2>1, <2>2 DEF m
  <2>8. f[p] = After(f[p + 1], c)
    BY <2>1, <2>7, ProseAt
  <2>9. f[p + 1] \in Scan(X)
    BY <1>2, <2>1
  <2> HIDE DEF c
  <2>10. f[b + 1] = After(f[p + 1], a \o c)
    BY <2>3, <2>4, <2>8, <2>9, AfterAfter
  <2>11. QED
    BY <2>5, <2>6, <2>10
<1> HIDE DEF S
<1>5. Nat \subseteq S
  BY <1>3, <1>4, Induction
<1>6. f[b + 1] = After(f[b + m + 1], SubSeq(t, b + 1, b + m))
  <2>1. m \in S /\ m <= m
    BY <1>1, <1>5
  <2>2. QED
    BY <2>1 DEF S
<1>7. SubSeq(t, b + 1, b + m) = w
  BY StandsSub DEF m
<1>8. QED
  BY <1>6, <1>7 DEF m

\* What a cut reply left open is prose up to the end of the text, whatever of
\* it is read as code.
Unclosed(w) == \A tag \in {Page, Note} : \A i, j \in 1 .. Len(w) :
    w[i] \in tag.open /\ i <= j => w[j] # tag.close

LEMMA OpenRead ==
    ASSUME NEW X, NEW t \in Seq(X), NEW f, Scans(f, t, 1), NEW w \in Seq(X), NEW b \in Nat,
           Stands(t, b, w), b + Len(w) = Len(t), Unclosed(w)
    PROVE  f[b + 1] = After(Nothing, w)
<1> DEFINE m == Len(t)
           S == {n \in Nat : \A p \in b + 1 .. m + 1 : m + 1 - p <= n =>
                               f[p] = After(Nothing, SubSeq(t, p, m))}
<1>1. m \in Nat /\ m = Len(t) /\ Len(w) \in Nat /\ m = b + Len(w)
      /\ \A k \in 1 .. Len(w) : t[b + k] = w[k]
  BY DEF Stands
<1>2. Nothing \in Scan(X)
  <2>1. <<>> \in Seq(X) /\ <<>> \in Seq(Segments(X))
    OBVIOUS
  <2>2. QED
    BY <2>1 DEF Nothing, Scan
<1> HIDE DEF m
<1>3. 0 \in S
  <2> SUFFICES ASSUME NEW p \in b + 1 .. m + 1, m + 1 - p <= 0
               PROVE  f[p] = After(Nothing, SubSeq(t, p, m))
    OBVIOUS
  <2>1. p = m + 1 /\ p > Len(t) /\ p \in 1 .. Len(t) + 1 /\ 1 \in 1 .. Len(t) + 1
    <3>1. m \in Nat /\ p \in Int /\ p <= m + 1 /\ b + 1 <= p
      BY <1>1
    <3>2. p = m + 1
      BY <3>1
    <3>3. QED
      BY <1>1, <3>1, <3>2
  <2>2. f[p] = Nothing
    BY <2>1, ScanStep
  <2>3. SubSeq(t, p, m) = <<>>
    <3>1. p \in Int /\ m \in Int /\ m < p
      BY <1>1, <2>1
    <3>2. QED
      BY <3>1, SubSeqEmpty
  <2>4. <<>> \in Seq(X)
    OBVIOUS
  <2>5. After(Nothing, <<>>) = Nothing
    BY <1>2, <2>4, AfterAfter
  <2>6. QED
    BY <2>2, <2>3, <2>5
<1>4. ASSUME NEW n \in Nat, n \in S
      PROVE  n + 1 \in S
  <2> SUFFICES ASSUME NEW p \in b + 1 .. m + 1, m + 1 - p <= n + 1
               PROVE  f[p] = After(Nothing, SubSeq(t, p, m))
    OBVIOUS
  <2>1. CASE m + 1 - p <= n
    BY <1>4, <2>1
  <2>2. CASE m + 1 - p = n + 1
    <3>1. p \in 1 .. Len(t) /\ p \in b + 1 .. m
      BY <1>1, <2>2
    <3>2. ASSUME NEW q \in p + 1 .. m + 1, f[p] = After(f[q], SubSeq(t, p, q - 1))
          PROVE  f[p] = After(Nothing, SubSeq(t, p, m))
      <4>1. q \in b + 1 .. m + 1 /\ m + 1 - q <= n
        BY <1>1, <2>2
      <4>2. f[q] = After(Nothing, SubSeq(t, q, m))
        BY <1>4, <4>1
      <4> DEFINE a == SubSeq(t, p, q - 1)
                 c == SubSeq(t, q, m)
      <4>3. a \in Seq(X) /\ c \in Seq(X)
        <5>1. /\ \A i \in p .. q - 1 : i \in 1 .. Len(t)
              /\ \A i \in q .. m : i \in 1 .. Len(t)
          BY <1>1, <3>1
        <5>2. (\A i \in p .. q - 1 : t[i] \in X) /\ \A i \in q .. m : t[i] \in X
          BY <5>1
        <5>3. p \in Int /\ q - 1 \in Int /\ q \in Int /\ m \in Int
          BY <1>1, <3>1
        <5>4. QED
          BY <5>2, <5>3, SubSeqProperties
      <4>4. a \o c = SubSeq(t, p, m)
        <5>1. /\ p \in 1 .. Len(t) + 1 /\ q - 1 \in p - 1 .. Len(t) /\ m \in q - 1 .. Len(t)
              /\ (q - 1) + 1 = q
          BY <1>1, <3>1
        <5>2. QED
          BY <5>1, ConcatAdjacentSubSeq
      <4>5. f[p] = After(After(Nothing, c), a)
        BY <3>2, <4>2
      <4> HIDE DEF a, c
      <4>6. After(After(Nothing, c), a) = After(Nothing, a \o c)
        BY <1>2, <4>3, AfterAfter
      <4>7. QED
        BY <4>4, <4>5, <4>6
    <3>3. ASSUME NEW tag \in {Page, Note}
          PROVE  TagEnd(t, p, tag) = 0
      <4>1. CASE t[p] \notin tag.open
        BY <4>1 DEF TagEnd
      <4>2. CASE t[p] \in tag.open
        <5> DEFINE c == tag.close
        <5>1. \A r \in p .. Len(t) : t[r] # c
          <6> SUFFICES ASSUME NEW r \in p .. Len(t)
                       PROVE  t[r] # c
            OBVIOUS
          <6>1. p - b \in 1 .. Len(w) /\ r - b \in 1 .. Len(w) /\ p - b <= r - b
            BY <1>1, <3>1
          <6>2. b + (p - b) = p /\ b + (r - b) = r
            BY <1>1, <3>1
          <6>3. w[p - b] = t[p] /\ w[r - b] = t[r]
            BY <1>1, <6>1, <6>2
          <6>4. QED
            BY <4>2, <6>1, <6>3 DEF Unclosed
        <5> HIDE DEF c
        <5>2. p \in Nat
          BY <3>1
        <5>3. Find(t, p, c) = 0
          BY <5>1, <5>2, FindNone
        <5>4. QED
          BY <5>3 DEF c, TagEnd
      <4>3. QED
        BY <4>1, <4>2
    <3>4. TagEnd(t, p, Page) = 0 /\ TagEnd(t, p, Note) = 0
      BY <3>3
    <3> DEFINE code == CodeEnd(t, p)
    <3>5. /\ code # 0 => f[p] = After(f[code], SubSeq(t, p, code - 1))
          /\ code = 0 => f[p] = After(f[p + 1], SubSeq(t, p, p))
      BY <3>1, <3>4, ScanAt
    <3>6. code = 0 \/ code \in p + 1 .. Len(t) + 1
      BY <3>1, CodeRange
    <3> HIDE DEF code
    <3>7. p + 1 \in p + 1 .. m + 1 /\ (p + 1) - 1 = p
      BY <1>1, <3>1
    <3>8. CASE code = 0
      BY <3>2, <3>5, <3>7, <3>8
    <3>9. CASE code # 0
      BY <1>1, <3>2, <3>5, <3>6, <3>9
    <3>10. QED
      BY <3>8, <3>9
  <2>3. m + 1 - p <= n \/ m + 1 - p = n + 1
    <3>1. m + 1 - p \in Int
      BY <1>1
    <3> HIDE DEF S
    <3>2. \A k \in Int : k <= n + 1 => k <= n \/ k = n + 1
      OBVIOUS
    <3>3. QED
      BY <3>1, <3>2
  <2>4. QED
    BY <2>1, <2>2, <2>3
<1> HIDE DEF S
<1>5. Nat \subseteq S
  BY <1>3, <1>4, Induction
<1>6. b + 1 \in b + 1 .. m + 1 /\ m + 1 - (b + 1) \in Nat /\ m + 1 - (b + 1) <= m + 1 - (b + 1)
  BY <1>1
<1>7. f[b + 1] = After(Nothing, SubSeq(t, b + 1, m))
  BY <1>5, <1>6 DEF S
<1>8. SubSeq(t, b + 1, m) = w
  BY <1>1, StandsSub
<1>9. QED
  BY <1>7, <1>8

\* A piece of a document is read as what it is.
Broken(piece) == piece.kind \in {"artifact", "doing", "verb"}

Tagged(w, tag, x, d) ==
    /\ tag \in {Page, Note} /\ x \in tag.open
    /\ \A k \in 1 .. Len(d) : d[k] # tag.close
    /\ w = <<x>> \o d \o <<tag.close>>
Made(tag, x, d) == IF tag = Page THEN <<Segment("artifact", Strip(d), "")>> ELSE NoteOf(x, d)

LEMMA TagPiece ==
    ASSUME NEW t \in Seq(Tokens), NEW f, Scans(f, t, 1), NEW d \in Seq(Tokens), NEW b \in Nat,
           NEW w, Stands(t, b, w), NEW tag, NEW x, Tagged(w, tag, x, d)
    PROVE  f[b + 1] = Cut(f[b + Len(w) + 1], Made(tag, x, d))
<1> DEFINE T == Tokens
           e == b + Len(d) + 3
<1>0. /\ tag \in {Page, Note} /\ x \in tag.open /\ w = <<x>> \o d \o <<tag.close>>
      /\ \A k \in 1 .. Len(d) : d[k] # tag.close
  BY DEF Tagged
<1>1. x \in T /\ tag.close \in T /\ t \in Seq(T) /\ d \in Seq(T)
  <2>1. CASE tag = Page
    BY <1>0, <2>1 DEF Tokens, Page
  <2>2. CASE tag = Note
    BY <1>0, <2>2 DEF Tokens, Note
  <2>3. QED
    BY <1>0, <2>1, <2>2
<1> HIDE DEF T
<1>2. Wraps(t, b, d, x, tag.close, w)
  BY <1>0, <1>1, Wrapped
<1>3. /\ CodeEnd(t, b + 1) = 0 /\ TagEnd(t, b + 1, tag) = e
      /\ tag = Note => TagEnd(t, b + 1, Page) = 0
  BY <1>0, <1>1, TagRead
<1>4. /\ Len(d) \in Nat /\ Len(w) = Len(d) + 2 /\ b + 1 \in 1 .. Len(t) /\ t[b + 1] = x
      /\ SubSeq(t, b + 2, b + Len(d) + 2 - 1) = d
  BY <1>2 DEF Wraps
<1>5. e # 0 /\ e - 2 = b + Len(d) + 2 - 1 /\ (b + 1) + 1 = b + 2 /\ e = b + Len(w) + 1
  BY <1>4
<1>6. SubSeq(t, (b + 1) + 1, e - 2) = d
  BY <1>4, <1>5
<1> HIDE DEF e
<1>7. CASE tag = Page
  <2>1. f[b + 1] = Cut(f[e], <<Segment("artifact", Strip(SubSeq(t, (b + 1) + 1, e - 2)), "")>>)
    BY <1>1, <1>3, <1>4, <1>5, <1>7, ScanAt
  <2>2. QED
    BY <1>5, <1>6, <1>7, <2>1 DEF Made
<1>8. CASE tag = Note
  <2>1. f[b + 1] = Cut(f[e], NoteOf(t[b + 1], SubSeq(t, (b + 1) + 1, e - 2)))
    BY <1>1, <1>3, <1>4, <1>5, <1>8, ScanAt
  <2>2. Page # Note
    BY DEF Page, Note
  <2>3. QED
    BY <1>4, <1>5, <1>6, <1>8, <2>1, <2>2 DEF Made
<1>9. QED
  BY <1>0, <1>7, <1>8

LEMMA PieceRead ==
    ASSUME NEW t \in Seq(Tokens), NEW f, Scans(f, t, 1), NEW piece \in Pieces \cup Cuts,
           Proper(piece), NEW b \in Nat, NEW w, w = Text(piece), Stands(t, b, w)
    PROVE  f[b + 1] = IF Broken(piece) THEN Cut(f[b + Len(w) + 1], Shown(piece))
                      ELSE After(f[b + Len(w) + 1], w)
<1> DEFINE d == piece.body
           T == Tokens
<1>1. piece.kind \in Kinds /\ d \in Seq(STRING)
  BY TranscriptAssumption
<1>2. STRING \subseteq T /\ Tick \in T /\ t \in Seq(T)
  BY DEF Tokens
<1>3. d \in Seq(T) /\ Len(d) \in Nat /\ DOMAIN d = 1 .. Len(d)
  <2> HIDE DEF T, d
  <2>1. d \in Seq(T)
    BY <1>1, <1>2, WideSeq
  <2>2. QED
    BY <2>1
<1>4. w \in Seq(T)
  BY TextType
<1>5. CASE piece.kind = "prose"
  <2>1. w = d /\ ~Broken(piece)
    BY <1>5 DEF Text, Broken
  <2>2. \A k \in 1 .. Len(w) : w[k] \notin {Tick} \cup Page.open \cup Note.open
    BY <1>3, <1>5, <2>1 DEF Proper
  <2> HIDE DEF T, d
  <2>3. f[b + 1] = After(f[b + Len(w) + 1], w)
    BY <1>2, <1>4, <2>2, ProseRead
  <2>4. QED
    BY <2>1, <2>3
<1>6. CASE piece.kind = "span"
  <2>1. w = <<Tick>> \o d \o <<Tick>> /\ ~Broken(piece)
    BY <1>6 DEF Text, Broken
  <2>2. d # <<>> /\ \A k \in 1 .. Len(d) : d[k] \notin {Tick, Newline}
    BY <1>3, <1>6 DEF Proper
  <2> HIDE DEF T, d
  <2>3. CodeEnd(t, b + 1) = b + Len(d) + 3
    BY <1>2, <1>3, <2>1, <2>2, SpanRead
  <2>4. Wraps(t, b, d, Tick, Tick, w)
    BY <1>2, <1>3, <2>1, Wrapped
  <2>5. /\ Len(w) = Len(d) + 2 /\ b + 1 \in 1 .. Len(t)
        /\ b + Len(d) + 3 = b + Len(w) + 1 /\ b + Len(d) + 3 # 0
    BY <1>3, <2>4 DEF Wraps
  <2>6. SubSeq(t, b + 1, b + Len(w)) = w
    BY <1>2, <1>4, StandsSub
  <2> DEFINE e == b + Len(w) + 1
  <2>7. CodeEnd(t, b + 1) = e /\ e # 0 /\ e - 1 = b + Len(w)
    BY <1>3, <2>3, <2>5
  <2> HIDE DEF e
  <2>8. f[b + 1] = After(f[e], SubSeq(t, b + 1, e - 1))
    BY <1>2, <2>5, <2>7, ScanAt
  <2>9. QED
    BY <2>1, <2>6, <2>7, <2>8 DEF e
<1>7. CASE piece.kind = "fence"
  <2>1. w = <<Tick, Tick, Tick>> \o d \o <<Tick, Tick, Tick>> /\ ~Broken(piece)
    BY <1>7 DEF Text, Broken
  <2>2. \A q \in 1 .. Len(d) : ~Fenced(d \o <<Tick, Tick, Tick>>, q)
    BY <1>3, <1>7 DEF Proper
  <2> HIDE DEF T, d
  <2>3. CodeEnd(t, b + 1) = b + Len(d) + 7 /\ Len(w) = Len(d) + 6 /\ b + 1 \in 1 .. Len(t)
    <3>1. FenceText(w, d) /\ Tick \in T /\ t \in Seq(T) /\ d \in Seq(T)
      BY <1>2, <1>3, <2>1, <2>2 DEF FenceText
    <3>2. QED
      BY <3>1, FenceRead
  <2>6. SubSeq(t, b + 1, b + Len(w)) = w
    BY <1>2, <1>4, StandsSub
  <2> DEFINE e == b + Len(w) + 1
  <2>7. CodeEnd(t, b + 1) = e /\ e # 0 /\ e - 1 = b + Len(w)
    BY <1>3, <2>3
  <2> HIDE DEF e
  <2>8. f[b + 1] = After(f[e], SubSeq(t, b + 1, e - 1))
    BY <1>2, <2>3, <2>7, ScanAt
  <2>9. QED
    BY <2>1, <2>6, <2>7, <2>8 DEF e
<1>8. CASE piece.kind = "artifact"
  <2>1. w = <<"<artifact>">> \o d \o <<Page.close>> /\ Broken(piece)
    BY <1>8 DEF Text, Broken, Page
  <2>2. \A k \in 1 .. Len(d) : d[k] # Page.close
    BY <1>3, <1>8 DEF Proper
  <2>3. Shown(piece) = <<Segment("artifact", Strip(d), "")>>
    BY <1>8 DEF Shown
  <2>4. Tagged(w, Page, "<artifact>", d)
    BY <2>1, <2>2 DEF Tagged, Page
  <2> DEFINE tag == Page
             x == "<artifact>"
  <2>5. Tagged(w, tag, x, d) /\ d \in Seq(Tokens)
    BY <1>3, <2>4
  <2>6. Shown(piece) = Made(tag, x, d)
    BY <2>3 DEF Made
  <2> HIDE DEF d, x, tag
  <2>7. f[b + 1] = Cut(f[b + Len(w) + 1], Made(tag, x, d))
    BY <2>5, TagPiece
  <2>8. QED
    BY <2>1, <2>6, <2>7
<1>9. CASE piece.kind = "doing"
  <2>1. w = <<"<doing>">> \o d \o <<Note.close>> /\ Broken(piece)
    BY <1>9 DEF Text, Broken, Note
  <2>2. \A k \in 1 .. Len(d) : d[k] # Note.close
    BY <1>3, <1>9 DEF Proper
  <2>3. Shown(piece) = NoteOf("<doing>", d)
    BY <1>9 DEF Shown
  <2>4. Tagged(w, Note, "<doing>", d)
    BY <2>1, <2>2 DEF Tagged, Note
  <2> DEFINE tag == Note
             x == "<doing>"
  <2>5. Tagged(w, tag, x, d) /\ d \in Seq(Tokens)
    BY <1>3, <2>4
  <2>6. Shown(piece) = Made(tag, x, d)
    BY <2>3 DEF Made, Page, Note
  <2> HIDE DEF d, x, tag
  <2>7. f[b + 1] = Cut(f[b + Len(w) + 1], Made(tag, x, d))
    BY <2>5, TagPiece
  <2>8. QED
    BY <2>1, <2>6, <2>7
<1>10. CASE piece.kind = "verb"
  <2>1. w = <<"<doing verb>">> \o d \o <<Note.close>> /\ Broken(piece)
    BY <1>10 DEF Text, Broken, Note
  <2>2. \A k \in 1 .. Len(d) : d[k] # Note.close
    BY <1>3, <1>10 DEF Proper
  <2>3. Shown(piece) = NoteOf("<doing verb>", d)
    BY <1>10 DEF Shown
  <2>4. Tagged(w, Note, "<doing verb>", d)
    BY <2>1, <2>2 DEF Tagged, Note
  <2> DEFINE tag == Note
             x == "<doing verb>"
  <2>5. Tagged(w, tag, x, d) /\ d \in Seq(Tokens)
    BY <1>3, <2>4
  <2>6. Shown(piece) = Made(tag, x, d)
    BY <2>3 DEF Made, Page, Note
  <2> HIDE DEF d, x, tag
  <2>7. f[b + 1] = Cut(f[b + Len(w) + 1], Made(tag, x, d))
    BY <2>5, TagPiece
  <2>8. QED
    BY <2>1, <2>6, <2>7
<1>11. QED
  BY <1>1, <1>5, <1>6, <1>7, <1>8, <1>9, <1>10 DEF Kinds

-----------------------------------------------------------------------------
(* A document read as a whole.                                             *)

TextsOf(doc) == [i \in 1 .. Len(doc) |-> Text(doc[i])]

LEMMA TextsType ==
    ASSUME NEW doc \in Seq(Pieces \cup Cuts)
    PROVE  /\ TextsOf(doc) \in Seq(Seq(Tokens)) /\ Len(TextsOf(doc)) = Len(doc)
           /\ \A i \in 1 .. Len(doc) : TextsOf(doc)[i] = Text(doc[i])
<1> DEFINE s == TextsOf(doc)
<1>1. \A i \in 1 .. Len(doc) : s[i] = Text(doc[i]) /\ doc[i] \in Pieces \cup Cuts
  BY DEF TextsOf
<1>2. \A i \in 1 .. Len(doc) : s[i] \in Seq(Tokens)
  BY <1>1, TextType
<1>3. s \in [1 .. Len(doc) -> Seq(Tokens)] /\ Len(doc) \in Nat
  BY <1>2 DEF TextsOf
<1> HIDE DEF s
<1>4. s \in Seq(Seq(Tokens)) /\ Len(s) = Len(doc)
  BY <1>3
<1>5. QED
  BY <1>1, <1>4 DEF s

\* What stands between two places of a document is the text of its pieces.
LEMMA VerbatimFlat ==
    ASSUME NEW doc \in Seq(Pieces \cup Cuts), NEW to \in 0 .. Len(doc), NEW from \in 1 .. to + 1
    PROVE  Verbatim(doc, from, to) = Flat(TextsOf(doc), from, to)
<1> DEFINE P == Pieces \cup Cuts
           s == TextsOf(doc)
           d == SubSeq(doc, from, to)
           a == TextsOf(d)
           c == SubSeq(s, from, to)
           m == to - from + 1
<1>1. s \in Seq(Seq(Tokens)) /\ Len(s) = Len(doc) /\ \A i \in 1 .. Len(doc) : s[i] = Text(doc[i])
  BY TextsType
<1>2. Len(doc) \in Nat /\ m \in Nat /\ \A k \in 1 .. m : from + k - 1 \in 1 .. Len(doc)
  OBVIOUS
<1>3. d \in Seq(P) /\ Len(d) = m /\ \A k \in 1 .. m : d[k] = doc[from + k - 1]
  OBVIOUS
<1>4. a \in Seq(Seq(Tokens)) /\ Len(a) = m /\ \A k \in 1 .. m : a[k] = Text(d[k])
  BY <1>3, TextsType
<1>5. c \in Seq(Seq(Tokens)) /\ Len(c) = m /\ \A k \in 1 .. m : c[k] = s[from + k - 1]
  <2> DEFINE Y == Seq(Tokens)
  <2>1. s \in Seq(Y) /\ Len(s) = Len(doc)
    BY <1>1
  <2> HIDE DEF Y, s
  <2>2. c \in Seq(Y) /\ Len(c) = m /\ \A k \in 1 .. m : c[k] = s[from + k - 1]
    BY <2>1
  <2>3. QED
    BY <2>2 DEF Y
<1>6. Verbatim(doc, from, to) = FlattenSeq(a)
  BY DEF Verbatim, TextOf, TextsOf
<1>7. Flat(s, from, to) = FlattenSeq(c)
  BY DEF Flat
<1> HIDE DEF P, s, d, a, c, m
<1>8. \A k \in 1 .. m : a[k] = c[k]
  BY <1>1, <1>2, <1>3, <1>4, <1>5
<1>9. a = c
  <2> DEFINE Y == Seq(Tokens)
  <2>1. a \in Seq(Y) /\ c \in Seq(Y) /\ Len(a) = Len(c) /\ \A k \in 1 .. Len(a) : a[k] = c[k]
    BY <1>4, <1>5, <1>8
  <2> HIDE DEF Y
  <2>2. QED
    BY <2>1, SeqEqual
<1>10. QED
  BY <1>6, <1>7, <1>9 DEF s

LEMMA BeforeStep ==
    ASSUME NEW doc, NEW i \in 1 .. Len(doc), Len(doc) \in Nat
    PROVE  Before(doc, i + 1) = IF i \in Breaks(doc) THEN i + 1 ELSE Before(doc, i)
<1> DEFINE b == {k \in Breaks(doc) : k < i + 1}
           a == {k \in Breaks(doc) : k < i}
<1>1. Breaks(doc) \subseteq 1 .. Len(doc)
  BY DEF Breaks
<1>2. CASE i \in Breaks(doc)
  <2>1. i \in b /\ \A l \in b : l <= i
    BY <1>1, <1>2
  <2>2. b \subseteq Int
    BY <1>1
  <2>3. Before(doc, i + 1) = 1 + CHOOSE k \in b : \A l \in b : l <= k
    BY <2>1 DEF Before
  <2> HIDE DEF b
  <2>4. \A k \in b : (\A l \in b : l <= k) => k = i
    BY <2>1, <2>2
  <2>5. (CHOOSE k \in b : \A l \in b : l <= k) = i
    BY <2>1, <2>4
  <2>6. Before(doc, i + 1) = 1 + i
    BY <2>3, <2>5
  <2>7. 1 + i = i + 1
    OBVIOUS
  <2>8. QED
    BY <1>2, <2>6, <2>7
<1>3. CASE i \notin Breaks(doc)
  <2>1. a = b
    <3>1. \A k \in Breaks(doc) : k < i + 1 <=> k < i
      BY <1>1, <1>3
    <3>2. QED
      BY <3>1
  <2> DEFINE Behind(c) == IF c = {} THEN 1 ELSE 1 + CHOOSE k \in c : \A l \in c : l <= k
  <2>4. Before(doc, i + 1) = Behind(b) /\ Before(doc, i) = Behind(a)
    BY DEF Before
  <2> HIDE DEF a, b, Behind
  <2>2. Before(doc, i + 1) = Before(doc, i)
    BY <2>1, <2>4
  <2>3. QED
    BY <1>3, <2>2
<1>4. QED
  BY <1>2, <1>3

LEMMA ShownType ==
    ASSUME NEW piece \in Pieces \cup Cuts, Broken(piece)
    PROVE  Shown(piece) \in Seq(Segments(Tokens))
<1> DEFINE d == piece.body
<1>1. d \in Seq(Tokens)
  <2>1. d \in Seq(STRING) /\ STRING \subseteq Tokens
    BY TranscriptAssumption DEF Tokens
  <2> HIDE DEF d
  <2>2. QED
    BY <2>1, WideSeq
<1>2. CASE piece.kind = "artifact"
  <2>1. Segment("artifact", Strip(d), "") \in Segments(Tokens)
    BY <1>1, StripType DEF Segment, Segments
  <2>2. QED
    BY <1>2, <2>1, OneInSeq DEF Shown
<1>3. CASE piece.kind = "doing"
  <2>1. "<doing>" \in Note.open
    BY DEF Note
  <2>2. NoteOf("<doing>", d) \in Seq(Segments(Tokens))
    BY <1>1, <2>1, NoteType
  <2>3. QED
    BY <1>3, <2>2 DEF Shown
<1>4. CASE piece.kind = "verb"
  <2>1. "<doing verb>" \in Note.open
    BY DEF Note
  <2>2. NoteOf("<doing verb>", d) \in Seq(Segments(Tokens))
    BY <1>1, <2>1, NoteType
  <2>3. QED
    BY <1>4, <2>2 DEF Shown
<1>5. QED
  BY <1>2, <1>3, <1>4 DEF Broken

\* The reader is at a place of the text: the entries A are made, the prose v
\* is not flushed yet, and x is what it reads from here on.
Reads(A, v, x) == A \o (Flush(v \o x.prose) \o x.segments)

LEMMA ReadsOn ==
    ASSUME NEW tok, NEW A \in Seq(Segments(tok)), NEW v \in Seq(tok), NEW x \in Scan(tok)
    PROVE  /\ \A w \in Seq(tok) : Reads(A, v, After(x, w)) = Reads(A, v \o w, x)
           /\ \A made \in Seq(Segments(tok)) :
                Reads(A, v, Cut(x, made)) = Reads(A \o (Flush(v) \o made), <<>>, x)
           /\ Reads(A, v, Nothing) = A \o Flush(v)
<1> DEFINE p == x.prose
           g == x.segments
           S == Segments(tok)
<1>1. p \in Seq(tok) /\ g \in Seq(S)
  BY DEF Scan
<1>2. <<>> \o p = p /\ v \o <<>> = v
  BY <1>1
<1>3. Flush(v) \in Seq(S) /\ Flush(p) \in Seq(S) /\ A \in Seq(S)
  BY <1>1, FlushType
<1>4. ASSUME NEW w \in Seq(tok)
      PROVE  Reads(A, v, After(x, w)) = Reads(A, v \o w, x)
  <2> HIDE DEF p
  <2>1. (v \o w) \o p = v \o (w \o p)
    BY <1>1, ConcatAssociative, SMTT(20)
  <2>2. QED
    BY <2>1 DEF Reads, After, p
<1>5. ASSUME NEW made \in Seq(S)
      PROVE  Reads(A, v, Cut(x, made)) = Reads(A \o (Flush(v) \o made), <<>>, x)
  <2> DEFINE F == Flush(v)
             G == Flush(p)
  <2>1. Reads(A, v, Cut(x, made)) = A \o (F \o ((made \o G) \o g))
    BY <1>2 DEF Reads, Cut
  <2>2. Reads(A \o (F \o made), <<>>, x) = (A \o (F \o made)) \o (G \o g)
    BY <1>2 DEF Reads
  <2>3. F \in Seq(S) /\ G \in Seq(S) /\ A \in Seq(S) /\ g \in Seq(S) /\ made \in Seq(S)
    BY <1>1, <1>3
  <2> DEFINE H == G \o g
             K == F \o made
  <2> HIDE DEF F, G, S, g
  <2>4. (made \o G) \o g = made \o H
    BY <2>3, ConcatAssociative, SMTT(20)
  <2>5. H \in Seq(S) /\ K \in Seq(S)
    BY <2>3
  <2>6. (F \o made) \o H = F \o (made \o H)
    <3>1. H \in Seq(S)
      BY <2>5
    <3> HIDE DEF H, K
    <3>2. QED
      BY <2>3, <3>1, ConcatAssociative, SMTT(20)
  <2>7. A \o (K \o H) = (A \o K) \o H
    <3>1. H \in Seq(S) /\ K \in Seq(S)
      BY <2>5
    <3> HIDE DEF H, K
    <3>2. (A \o K) \o H = A \o (K \o H)
      BY <2>3, <3>1, ConcatAssociative, SMTT(20)
    <3>3. QED
      BY <3>2
  <2>8. Reads(A, v, Cut(x, made)) = Reads(A \o (F \o made), <<>>, x)
    BY <2>1, <2>2, <2>4, <2>6, <2>7
  <2>9. QED
    BY <2>8 DEF F
<1>6. Reads(A, v, Nothing) = A \o Flush(v)
  <2> DEFINE F == Flush(v)
  <2>1. Reads(A, v, Nothing) = A \o (F \o <<>>)
    BY <1>2 DEF Reads, Nothing
  <2>2. F \in Seq(S)
    BY <1>3
  <2> HIDE DEF F
  <2>3. F \o <<>> = F
    BY <2>2
  <2>4. QED
    BY <2>1, <2>3 DEF F
<1>7. QED
  BY <1>4, <1>5, <1>6

\* The parts of a document, each read where it stands.
LEMMA PartOfDocument ==
    ASSUME Closed, NEW doc, Complete(doc), NEW f, Scans(f, TextOf(doc), 1),
           NEW off, Places(off, TextsOf(doc), TextOf(doc)), NEW i \in 1 .. Len(doc)
    PROVE  f[off[i] + 1] = IF Broken(doc[i]) THEN Cut(f[off[i + 1] + 1], Shown(doc[i]))
                           ELSE After(f[off[i + 1] + 1], Text(doc[i]))
<1> DEFINE t == TextOf(doc)
           s == TextsOf(doc)
           piece == doc[i]
           w == Text(piece)
           b == off[i]
<1>0. doc \in Seq(Pieces \cup Cuts) /\ (piece \in Pieces \/ (i = Len(doc) /\ piece \in Cuts))
  BY DEF Complete
<1>1. t \in Seq(Tokens) /\ Len(t) \in Nat
  <2>1. t \in Seq(Tokens)
    BY <1>0, TextOfType
  <2> HIDE DEF t
  <2>2. QED
    BY <2>1
<1>2. /\ Len(s) = Len(doc) /\ s[i] = w /\ piece \in Pieces \cup Cuts /\ Len(doc) \in Nat
      /\ w \in Seq(Tokens)
  BY <1>0, TextsType, TextType
<1>3. /\ b \in Nat /\ off[i + 1] = b + Len(w) /\ off[Len(doc) + 1] = Len(t)
      /\ off[i + 1] <= off[Len(doc) + 1]
      /\ \A k \in 1 .. Len(w) : t[b + k] = w[k]
  <2> HIDE DEF s, t, w
  <2>1. /\ off \in [1 .. Len(doc) + 1 -> Nat] /\ off[Len(doc) + 1] = Len(t)
        /\ off[i + 1] = off[i] + Len(s[i])
        /\ \A j \in i + 1 .. Len(doc) + 1 : off[i + 1] <= off[j]
        /\ \A k \in 1 .. Len(s[i]) : t[off[i] + k] = s[i][k]
    BY <1>2 DEF Places, s, t
  <2>2. i \in 1 .. Len(doc) + 1 /\ Len(doc) + 1 \in i + 1 .. Len(doc) + 1
    BY <1>2
  <2>3. QED
    BY <1>2, <2>1, <2>2
<1>4. Scans(f, t, 1)
  OBVIOUS
<1> HIDE DEF t, s, w, b
<1>5. Stands(t, b, w)
  BY <1>3 DEF Stands
<1>6. CASE piece \in Pieces
  <2>1. Proper(piece)
    BY <1>6 DEF Closed
  <2>2. f[b + 1] = IF Broken(piece) THEN Cut(f[b + Len(w) + 1], Shown(piece))
                   ELSE After(f[b + Len(w) + 1], w)
    BY <1>1, <1>2, <1>3, <1>4, <1>5, <2>1, PieceRead DEF w
  <2>3. QED
    BY <1>3, <2>2 DEF w, b
<1>7. CASE i = Len(doc) /\ piece \in Cuts
  <2>1. Open(piece) /\ piece.body \in Seq(STRING)
    BY <1>7, TranscriptAssumption DEF Closed
  <2>2. w = piece.body /\ ~Broken(piece)
    BY <2>1 DEF Open, Text, Broken, w
  <2>3. Unclosed(w)
    <3>1. DOMAIN w = 1 .. Len(w)
      BY <2>1, <2>2
    <3>2. QED
      BY <2>1, <2>2, <3>1 DEF Open, Unclosed
  <2>4. b + Len(w) = Len(t)
    BY <1>3, <1>7
  <2>5. f[b + 1] = After(Nothing, w)
    BY <1>1, <1>2, <1>3, <1>4, <1>5, <2>3, <2>4, OpenRead
  <2>6. f[Len(t) + 1] = Nothing
    <3>1. /\ 1 \in 1 .. Len(t) + 1 /\ Len(t) + 1 \in 1 .. Len(t) + 1 /\ Len(t) + 1 > Len(t)
      BY <1>1
    <3>2. QED
      BY <1>1, <1>4, <3>1, ScanStep
  <2>7. off[i + 1] = Len(t)
    BY <1>3, <2>4
  <2>8. QED
    BY <2>2, <2>5, <2>6, <2>7 DEF w, b
<1>8. QED
  BY <1>0, <1>6, <1>7

\* split_render_segments cuts the text of a document into what it stands for.
LEMMA DocumentRead ==
    ASSUME Closed, NEW doc, Complete(doc)
    PROVE  Split(TextOf(doc)) = EntriesOf(doc)
<1> DEFINE t == TextOf(doc)
           s == TextsOf(doc)
           n == Len(doc)
           f == CHOOSE g : Scans(g, t, 1)
<1>0. doc \in Seq(Pieces \cup Cuts)
  BY DEF Complete
<1>1. t \in Seq(Tokens) /\ s \in Seq(Seq(Tokens)) /\ Len(s) = n /\ n \in Nat
      /\ \A i \in 1 .. n : s[i] = Text(doc[i]) /\ doc[i] \in Pieces \cup Cuts
  BY <1>0, TextOfType, TextsType
<1>2. Scans(f, t, 1)
  BY <1>1, ScanExists
<1>3. PICK off : Places(off, s, t)
  <2>1. t = FlattenSeq(s)
    BY DEF TextOf, TextsOf
  <2> HIDE DEF t, s
  <2>2. QED
    BY <1>1, <2>1, FlattenPlaces
<1>4. Split(t) = Flush(f[1].prose) \o f[1].segments
  BY SplitScan
<1> HIDE DEF f
<1>5. \A i \in 1 .. n : f[off[i] + 1] =
        IF Broken(doc[i]) THEN Cut(f[off[i + 1] + 1], Shown(doc[i]))
        ELSE After(f[off[i + 1] + 1], s[i])
  <2> SUFFICES ASSUME NEW i \in 1 .. n
               PROVE  f[off[i] + 1] = IF Broken(doc[i]) THEN Cut(f[off[i + 1] + 1], Shown(doc[i]))
                                      ELSE After(f[off[i + 1] + 1], s[i])
    OBVIOUS
  <2>1. f[off[i] + 1] = IF Broken(doc[i]) THEN Cut(f[off[i + 1] + 1], Shown(doc[i]))
                        ELSE After(f[off[i + 1] + 1], Text(doc[i]))
    BY <1>2, <1>3, PartOfDocument
  <2>2. s[i] = Text(doc[i])
    BY <1>1
  <2> HIDE DEF s
  <2>3. QED
    BY <2>1, <2>2
<1>6. \A i \in 1 .. n : i \in Breaks(doc) <=> Broken(doc[i])
  BY DEF Breaks, Broken
<1>7. \A i \in 1 .. n + 1 : Before(doc, i) \in 1 .. i
  <2> DEFINE S == {m \in Nat : m <= n => Before(doc, m + 1) \in 1 .. m + 1}
  <2>1. 0 \in S
    <3>1. {k \in Breaks(doc) : k < 1} = {}
      BY DEF Breaks
    <3>2. Before(doc, 1) = 1
      BY <3>1 DEF Before
    <3>3. QED
      BY <3>2
  <2>2. ASSUME NEW m \in Nat, m \in S
        PROVE  m + 1 \in S
    <3> SUFFICES ASSUME m + 1 <= n
                 PROVE  Before(doc, (m + 1) + 1) \in 1 .. (m + 1) + 1
      OBVIOUS
    <3>1. m + 1 \in 1 .. n /\ Before(doc, m + 1) \in 1 .. m + 1
      BY <1>1, <2>2
    <3>2. \/ Before(doc, (m + 1) + 1) = (m + 1) + 1
          \/ Before(doc, (m + 1) + 1) = Before(doc, m + 1)
      BY <1>1, <3>1, BeforeStep
    <3>3. QED
      BY <3>1, <3>2
  <2> HIDE DEF S
  <2>3. Nat \subseteq S
    BY <2>1, <2>2, Induction
  <2> SUFFICES ASSUME NEW i \in 1 .. n + 1
               PROVE  Before(doc, i) \in 1 .. i
    OBVIOUS
  <2>4. i - 1 \in S /\ i - 1 <= n /\ (i - 1) + 1 = i
    BY <1>1, <2>3
  <2>5. QED
    BY <2>4 DEF S
<1> DEFINE V(i) == Flat(s, Before(doc, i), i - 1)
<1>8. \A i \in 1 .. n + 1 : Verbatim(doc, Before(doc, i), i - 1) = V(i) /\ V(i) \in Seq(Tokens)
  <2> SUFFICES ASSUME NEW i \in 1 .. n + 1
               PROVE  Verbatim(doc, Before(doc, i), i - 1) = V(i) /\ V(i) \in Seq(Tokens)
    OBVIOUS
  <2>1. i - 1 \in 0 .. n /\ (i - 1) + 1 = i /\ Before(doc, i) \in 1 .. i
    BY <1>1, <1>7
  <2>2. Verbatim(doc, Before(doc, i), i - 1) = V(i)
    BY <1>0, <2>1, VerbatimFlat
  <2>3. SubSeq(s, Before(doc, i), i - 1) \in Seq(Seq(Tokens))
    <3> DEFINE Z == Seq(Tokens)
    <3>1. s \in Seq(Z) /\ Len(s) = n /\ n \in Nat
      BY <1>1
    <3> HIDE DEF Z, s, n
    <3>2. SubSeq(s, Before(doc, i), i - 1) \in Seq(Z)
      BY <2>1, <3>1
    <3>3. QED
      BY <3>2 DEF Z
  <2>4. V(i) \in Seq(Tokens)
    BY <2>3, FlattenPlaces DEF Flat
  <2>5. QED
    BY <2>2, <2>4
<1> DEFINE Y == Segments(Tokens)
           E == [i \in 1 .. n + 1 |-> EntriesAt(doc, i)]
           A(i) == Flat(E, 1, i - 1)
           x(i) == f[off[i] + 1]
<1>9. \A i \in 1 .. n + 1 : E[i] = IF i <= n /\ ~Broken(doc[i]) THEN <<>>
                                  ELSE Flush(V(i)) \o IF i <= n THEN Shown(doc[i]) ELSE <<>>
  <2> SUFFICES ASSUME NEW i \in 1 .. n + 1
               PROVE  E[i] = IF i <= n /\ ~Broken(doc[i]) THEN <<>>
                             ELSE Flush(V(i)) \o IF i <= n THEN Shown(doc[i]) ELSE <<>>
    OBVIOUS
  <2>1. E[i] = EntriesAt(doc, i)
    OBVIOUS
  <2>2. i <= n => i \in 1 .. n
    BY <1>1
  <2>3. Verbatim(doc, Before(doc, i), i - 1) = V(i)
    BY <1>8
  <2> HIDE DEF E, V
  <2>4. QED
    BY <1>6, <2>1, <2>2, <2>3 DEF EntriesAt
<1> HIDE DEF V, f
<1>10. \A i \in 1 .. n + 1 : E[i] \in Seq(Y)
  <2> SUFFICES ASSUME NEW i \in 1 .. n + 1
               PROVE  E[i] \in Seq(Y)
    OBVIOUS
  <2>1. i <= n => i \in 1 .. n
    BY <1>1
  <2>2. V(i) \in Seq(Tokens)
    BY <1>8
  <2>3. Flush(V(i)) \in Seq(Y)
    BY <2>2, FlushType
  <2>4. i <= n /\ Broken(doc[i]) => Shown(doc[i]) \in Seq(Y)
    BY <1>1, <2>1, ShownType
  <2>5. <<>> \in Seq(Y)
    OBVIOUS
  <2> DEFINE r == IF i <= n THEN Shown(doc[i]) ELSE <<>>
  <2>6. E[i] = <<>> \/ (r \in Seq(Y) /\ E[i] = Flush(V(i)) \o r)
    <3> HIDE DEF E, Y
    <3>1. QED
      BY <1>9, <2>4, <2>5
  <2> DEFINE F == Flush(V(i))
  <2>7. F \in Seq(Y) /\ (E[i] = <<>> \/ (r \in Seq(Y) /\ E[i] = F \o r))
    BY <2>3, <2>6
  <2> HIDE DEF r, Y, E, F
  <2>8. r \in Seq(Y) => F \o r \in Seq(Y)
    BY <2>7
  <2>9. QED
    BY <2>5, <2>7, <2>8
<1>11. E \in Seq(Seq(Y)) /\ Len(E) = n + 1
  <2>1. E \in [1 .. n + 1 -> Seq(Y)]
    <3> HIDE DEF Y
    <3>1. QED
      BY <1>10
  <2> HIDE DEF E, Y
  <2>2. QED
    BY <1>1, <2>1
<1>12. EntriesOf(doc) = A(n + 2)
  <2>1. EntriesOf(doc) = FlattenSeq(E)
    BY DEF EntriesOf
  <2>2. SubSeq(E, 1, Len(E)) = E
    <3> DEFINE Z == Seq(Y)
    <3>1. E \in Seq(Z)
      BY <1>11
    <3> HIDE DEF E, Z
    <3>2. QED
      BY <3>1, SubSeqFull
  <2>3. (n + 2) - 1 = Len(E)
    BY <1>1, <1>11
  <2> HIDE DEF E
  <2>4. QED
    BY <2>1, <2>2, <2>3 DEF Flat
<1> HIDE DEF E
<1>13. /\ \A i \in 1 .. n + 1 : A(i) \in Seq(Y) /\ A(i + 1) = A(i) \o E[i]
       /\ A(1) = <<>>
  <2>1. ASSUME NEW i \in 1 .. n + 1
        PROVE  A(i) \in Seq(Y) /\ A(i + 1) = A(i) \o E[i]
    <3>1. i \in 1 .. Len(E) /\ 1 \in 1 .. i /\ (i + 1) - 1 = i
      BY <1>1, <1>11
    <3>2. Flat(E, 1, i - 1) \in Seq(Y) /\ Flat(E, 1, i) = Flat(E, 1, i - 1) \o E[i]
      BY <1>11, <3>1, FlatMore
    <3>3. QED
      BY <3>1, <3>2
  <2>2. A(1) = <<>>
    BY FlatNone
  <2>3. QED
    BY <2>1, <2>2
<1>14. /\ \A i \in 1 .. n + 1 : x(i) \in Scan(Tokens)
       /\ x(1) = f[1] /\ x(n + 1) = Nothing
  <2>1. Len(t) \in Nat /\ 1 \in 1 .. Len(t) + 1 /\ Len(t) + 1 \in 1 .. Len(t) + 1
        /\ Len(t) + 1 > Len(t)
    <3> HIDE DEF t
    <3>1. Len(t) \in Nat
      BY <1>1
    <3>2. QED
      BY <3>1
  <2>2. \A p \in 1 .. Len(t) + 1 : f[p] \in Scan(Tokens)
    BY <1>1, <1>2, <2>1, ScanType
  <2>3. f[Len(t) + 1] = Nothing
    BY <1>1, <1>2, <2>1, ScanStep
  <2> HIDE DEF s, t
  <2>4. /\ off \in [1 .. n + 1 -> Nat] /\ off[1] = 0 /\ off[n + 1] = Len(t)
        /\ \A i \in 1 .. n : \A j \in i + 1 .. n + 1 : off[i + 1] <= off[j]
    BY <1>1, <1>3 DEF Places
  <2>5. ASSUME NEW i \in 1 .. n + 1
        PROVE  off[i] + 1 \in 1 .. Len(t) + 1
    <3>1. off[i] \in Nat
      BY <2>4
    <3>2. off[i] <= off[n + 1]
      <4>1. CASE i = 1
        BY <2>1, <2>4, <4>1
      <4>2. CASE i # 1
        <5>1. i - 1 \in 1 .. n /\ (i - 1) + 1 = i /\ n + 1 \in i .. n + 1
          BY <1>1, <4>2
        <5>2. QED
          BY <2>4, <5>1
      <4>3. QED
        BY <4>1, <4>2
    <3>3. QED
      BY <2>1, <2>4, <3>1, <3>2
  <2>6. QED
    BY <2>2, <2>3, <2>4, <2>5
<1>15. ASSUME NEW i \in 1 .. n
       PROVE  Reads(A(i), V(i), x(i)) = Reads(A(i + 1), V(i + 1), x(i + 1))
  <2>1. i \in 1 .. n + 1 /\ i + 1 \in 1 .. n + 1 /\ i <= n /\ (i + 1) - 1 = i
    BY <1>1
  <2> DEFINE a == A(i)
             v == V(i)
             y == x(i + 1)
  <2>2. a \in Seq(Y) /\ v \in Seq(Tokens) /\ y \in Scan(Tokens) /\ A(i + 1) = a \o E[i]
    BY <1>8, <1>13, <1>14, <2>1
  <2>3. CASE ~Broken(doc[i])
    <3>1. x(i) = After(y, s[i])
      BY <1>5, <2>3
    <3>2. E[i] = <<>>
      BY <1>9, <2>1, <2>3
    <3>3. A(i + 1) = a
      <4> HIDE DEF a, Y, A
      <4>1. a \o <<>> = a
        BY <2>2
      <4>2. QED
        BY <2>2, <3>2, <4>1
    <3>4. V(i + 1) = v \o s[i]
      <4>1. Before(doc, i + 1) = Before(doc, i) /\ Before(doc, i) \in 1 .. i
        BY <1>1, <1>6, <1>7, <2>1, <2>3, BeforeStep
      <4>2. Flat(s, Before(doc, i), i) = Flat(s, Before(doc, i), i - 1) \o s[i]
        BY <1>1, <4>1, FlatMore
      <4>3. QED
        BY <2>1, <4>1, <4>2 DEF V
    <3>5. s[i] \in Seq(Tokens)
      BY <1>1, TextType
    <3> DEFINE w == s[i]
    <3>6. w \in Seq(Tokens) /\ x(i) = After(y, w) /\ V(i + 1) = v \o w
      BY <3>1, <3>4, <3>5
    <3> HIDE DEF w, a, v, y, A, x
    <3>7. Reads(a, v, After(y, w)) = Reads(a, v \o w, y)
      BY <2>2, <3>6, ReadsOn
    <3>8. QED
      BY <3>3, <3>6, <3>7 DEF a, v, y
  <2>4. CASE Broken(doc[i])
    <3> DEFINE made == Shown(doc[i])
    <3>1. x(i) = Cut(y, made)
      BY <1>5, <2>4
    <3>2. E[i] = Flush(v) \o made
      BY <1>9, <2>1, <2>4
    <3>3. V(i + 1) = <<>>
      <4>1. Before(doc, i + 1) = i + 1 /\ i + 1 \in Nat
        <5>1. i \in Breaks(doc) /\ n \in Nat /\ i \in 1 .. n
          BY <1>1, <1>6, <2>4
        <5>2. QED
          BY <5>1, BeforeStep
      <4>2. QED
        BY <4>1, FlatNone DEF V
    <3>4. made \in Seq(Y)
      BY <1>1, <2>4, ShownType
    <3> HIDE DEF made, a, v, y, A, x
    <3>5. Reads(a, v, Cut(y, made)) = Reads(a \o (Flush(v) \o made), <<>>, y)
      BY <2>2, <3>4, ReadsOn
    <3>6. QED
      BY <2>2, <3>1, <3>2, <3>3, <3>5 DEF a, v, y
  <2>5. QED
    BY <2>3, <2>4
<1> DEFINE S == {m \in Nat : m <= n => Split(t) = Reads(A(m + 1), V(m + 1), x(m + 1))}
<1>16. 0 \in S
  <2>1. V(1) = <<>>
    <3>1. Before(doc, 1) = 1
      BY <1>1, <1>7
    <3>2. Flat(s, 1, 1 - 1) = <<>>
      BY FlatNone
    <3>3. QED
      BY <3>1, <3>2 DEF V
  <2> DEFINE p == f[1].prose
             g == f[1].segments
             F == Flush(p)
  <2>2. p \in Seq(Tokens) /\ g \in Seq(Y)
    <3>1. f[1] \in Scan(Tokens)
      BY <1>1, <1>14
    <3>2. QED
      BY <3>1 DEF Scan
  <2>3. F \in Seq(Y)
    BY <2>2, FlushType
  <2>4. <<>> \o p = p
    <3> HIDE DEF p
    <3>1. QED
      BY <2>2
  <2>5. <<>> \o (F \o g) = F \o g
    <3> HIDE DEF F, g, Y
    <3>1. QED
      BY <2>2, <2>3
  <2>6. Reads(<<>>, <<>>, f[1]) = F \o g
    BY <2>4, <2>5 DEF Reads
  <2> HIDE DEF A, x
  <2>7. Split(t) = Reads(A(1), V(1), x(1))
    BY <1>4, <1>13, <1>14, <2>1, <2>6
  <2>8. QED
    BY <2>7
<1>17. ASSUME NEW m \in Nat, m \in S
       PROVE  m + 1 \in S
  <2> HIDE DEF A, x
  <2> SUFFICES ASSUME m + 1 <= n
               PROVE  Split(t) = Reads(A((m + 1) + 1), V((m + 1) + 1), x((m + 1) + 1))
    OBVIOUS
  <2>1. m + 1 \in 1 .. n /\ m <= n
    BY <1>1
  <2>2. Split(t) = Reads(A(m + 1), V(m + 1), x(m + 1))
    BY <1>17, <2>1
  <2>3. QED
    BY <1>15, <2>1, <2>2
<1> HIDE DEF S
<1>18. Nat \subseteq S
  BY <1>16, <1>17, Induction
<1>19. n \in S
  BY <1>1, <1>18
<1> HIDE DEF A, x
<1>20. Split(t) = Reads(A(n + 1), V(n + 1), Nothing)
  <2>1. n <= n
    BY <1>1
  <2>2. QED
    BY <1>14, <1>19, <2>1 DEF S
<1> DEFINE a == A(n + 1)
           v == V(n + 1)
           F == Flush(v)
<1>21. a \in Seq(Y) /\ v \in Seq(Tokens) /\ A((n + 1) + 1) = a \o E[n + 1]
       /\ E[n + 1] = F \o <<>> /\ (n + 1) + 1 = n + 2
  <2>1. n + 1 \in 1 .. n + 1 /\ ~(n + 1 <= n) /\ (n + 1) + 1 = n + 2
    BY <1>1
  <2>2. QED
    BY <1>8, <1>9, <1>13, <2>1
<1>22. F \in Seq(Y)
  BY <1>21, FlushType
<1> HIDE DEF a, v
<1>23. Reads(a, v, Nothing) = a \o Flush(v)
  <2>1. Nothing \in Scan(Tokens)
    BY OneInSeq DEF Nothing, Scan
  <2>2. QED
    BY <1>21, <2>1, ReadsOn
<1>24. F \o <<>> = F
  <2> HIDE DEF F, Y
  <2>1. QED
    BY <1>22
<1>25. QED
  BY <1>12, <1>20, <1>21, <1>23, <1>24 DEF a, v

-----------------------------------------------------------------------------
(* The feed as the model wrote it.                                         *)

\* An entry without its answer, as the model meant it.
Bare(e) == [kind |-> e.kind, body |-> e.body, verb |-> e.verb]
Bares   == [kind : {"text", "artifact", "doing", "tool", "result", "ask"}, body : Seq(Tokens),
            verb : {"", "doing", "verb"}]

LEMMA BareType ==
    ASSUME NEW e \in Entered
    PROVE  Bare(e) \in Bares
BY DEF Entered, Bares, Bare

LEMMA BareEntry ==
    ASSUME NEW seg \in Segments(Tokens)
    PROVE  Bare(Entry(seg)) = seg
<1>1. seg = [kind |-> seg.kind, body |-> seg.body, verb |-> seg.verb]
  BY DEF Segments
<1>2. QED
  BY <1>1 DEF Bare, Entry

Bared(s) == [i \in 1 .. Len(s) |-> Bare(s[i])]

LEMMA BaredType ==
    ASSUME NEW s \in Seq(Entered)
    PROVE  /\ Bared(s) \in Seq(Bares) /\ Len(Bared(s)) = Len(s) /\ Len(s) \in Nat
           /\ \A i \in 1 .. Len(s) : Bared(s)[i] = Bare(s[i])
<1>1. Len(s) \in Nat /\ \A i \in 1 .. Len(s) : Bare(s[i]) \in Bares
  BY BareType
<1>2. Bared(s) \in [1 .. Len(s) -> Bares] /\ \A i \in 1 .. Len(s) : Bared(s)[i] = Bare(s[i])
  BY <1>1 DEF Bared
<1>3. QED
  BY <1>1, <1>2

\* What is recorded and what was meant grow alike.
LEMMA BaredMore ==
    ASSUME NEW a \in Seq(Entered), NEW c \in Seq(Entered)
    PROVE  Bared(a \o c) = Bared(a) \o Bared(c)
<1> DEFINE x == Bared(a \o c)
           p == Bared(a)
           q == Bared(c)
           y == p \o q
           n == Len(a)
           m == Len(c)
<1>1. /\ a \o c \in Seq(Entered) /\ Len(a \o c) = n + m /\ n \in Nat /\ m \in Nat
      /\ \A i \in 1 .. n : (a \o c)[i] = a[i]
      /\ \A i \in 1 .. m : (a \o c)[n + i] = c[i]
  BY Concat
<1>2. /\ x \in Seq(Bares) /\ Len(x) = n + m /\ \A i \in 1 .. n + m : x[i] = Bare((a \o c)[i])
      /\ p \in Seq(Bares) /\ Len(p) = n /\ \A i \in 1 .. n : p[i] = Bare(a[i])
      /\ q \in Seq(Bares) /\ Len(q) = m /\ \A i \in 1 .. m : q[i] = Bare(c[i])
  BY <1>1, BaredType
<1> HIDE DEF x, p, q, n, m
<1>3. /\ y \in Seq(Bares) /\ Len(y) = n + m
      /\ \A i \in 1 .. n : y[i] = p[i]
      /\ \A i \in 1 .. m : y[n + i] = q[i]
  <2>1. p \in Seq(Bares) /\ q \in Seq(Bares)
    BY <1>2
  <2>2. /\ p \o q \in Seq(Bares) /\ Len(p \o q) = Len(p) + Len(q)
        /\ \A k \in 1 .. Len(p) : (p \o q)[k] = p[k]
        /\ \A k \in 1 .. Len(q) : (p \o q)[Len(p) + k] = q[k]
    BY <2>1, Concat
  <2>3. QED
    BY <1>2, <2>2
<1> HIDE DEF y
<1>4. \A i \in 1 .. Len(x) : x[i] = y[i]
  <2> SUFFICES ASSUME NEW i \in 1 .. n + m
               PROVE  x[i] = y[i]
    BY <1>2
  <2>1. CASE i \in 1 .. n
    <3>1. (a \o c)[i] = a[i] /\ y[i] = p[i]
      BY <1>1, <1>3, <2>1
    <3>2. x[i] = Bare((a \o c)[i]) /\ p[i] = Bare(a[i])
      BY <1>2, <2>1
    <3>3. QED
      BY <3>1, <3>2
  <2>2. CASE i \notin 1 .. n
    <3>1. i - n \in 1 .. m /\ n + (i - n) = i
      BY <1>1, <2>2
    <3>2. (a \o c)[i] = c[i - n] /\ y[i] = q[i - n]
      BY <1>1, <1>3, <3>1
    <3>3. x[i] = Bare((a \o c)[i]) /\ q[i - n] = Bare(c[i - n])
      BY <1>2, <3>1
    <3>4. QED
      BY <3>2, <3>3
  <2>3. QED
    BY <2>1, <2>2
<1>5. x = y
  BY <1>2, <1>3, <1>4, SeqEqual
<1>6. QED
  BY <1>5 DEF x, y, p, q

LEMMA ShownNext ==
    ASSUME Inv, Closed, FeedShown, [Next]_vars
    PROVE  FeedShown'
<1> USE DEF vars
<1>0. written \in Nat /\ feed \in Seq(Entered) /\ meant = Bared(feed)
  BY DEF Inv, FeedShown, Bared, Bare
<1>1. ASSUME NEW doc \in Documents, written < MaxPieces, RelayText(doc)
      PROVE  FeedShown'
  <2> DEFINE ss == Split(TextOf(doc))
             new == Entries(ss)
             Y == Segments(Tokens)
  <2>1. doc \in Seq(Pieces \cup Cuts) /\ Complete(doc)
    BY <1>0, <1>1, DocumentComplete DEF Complete
  <2>2. new \in Seq(Entered) /\ ss \in Seq(Y)
    BY <2>1, EntriesType, TextOfType, SplitType
  <2>3. ss = EntriesOf(doc)
    BY <2>1, DocumentRead
  <2>4. feed' = feed \o new /\ meant' = meant \o ss
    BY <1>1, <2>3 DEF RelayText
  <2> HIDE DEF ss
  <2>5. Len(ss) \in Nat /\ \A i \in 1 .. Len(ss) : ss[i] \in Y
    <3> HIDE DEF Y
    <3>1. QED
      BY <2>2
  <2>6. ss = [i \in 1 .. Len(ss) |-> ss[i]]
    <3> HIDE DEF Y
    <3>1. QED
      BY <2>2
  <2>7. Len(new) = Len(ss) /\ \A i \in 1 .. Len(ss) : new[i] = Entry(ss[i])
    BY <2>5 DEF Entries
  <2>8. \A i \in 1 .. Len(new) : Bare(new[i]) = ss[i]
    BY <2>5, <2>7, BareEntry
  <2> HIDE DEF new
  <2>9. Bared(new) = ss
    BY <2>6, <2>7, <2>8 DEF Bared
  <2>10. meant' = Bared(feed')
    BY <1>0, <2>2, <2>4, <2>9, BaredMore
  <2>11. QED
    BY <2>10 DEF FeedShown, Bared, Bare
<1>2. ASSUME NEW kind \in {"tool", "result", "ask"},
             feed' = Append(feed, Entry(Segment(kind, <<>>, ""))),
             meant' = Append(meant, Segment(kind, <<>>, ""))
      PROVE  FeedShown'
  <2> DEFINE g == Segment(kind, <<>>, "")
             e == Entry(g)
  <2>1. e \in Entered
    BY EmptyEntry
  <2>2. Bare(e) = g /\ g \in Bares
    <3>1. Bare(e) = g
      BY DEF Bare, Entry, Segment
    <3>2. QED
      BY <2>1, <3>1, BareType
  <2>3. feed' = Append(feed, e) /\ meant' = Append(meant, g)
    BY <1>2
  <2> HIDE DEF e, g
  <2>4. meant \in Seq(Bares)
    BY <1>0, BaredType
  <2>5. feed' = feed \o <<e>> /\ meant' = meant \o <<g>>
    BY <1>0, <2>1, <2>2, <2>3, <2>4
  <2>6. <<e>> \in Seq(Entered) /\ Bared(<<e>>) = <<g>>
    <3>1. Len(<<e>>) = 1 /\ \A i \in 1 .. 1 : Bare(<<e>>[i]) = <<g>>[i]
      BY <2>2
    <3>2. <<g>> = [i \in 1 .. 1 |-> <<g>>[i]]
      OBVIOUS
    <3>3. QED
      BY <2>1, <3>1, <3>2 DEF Bared
  <2>7. meant' = Bared(feed')
    BY <1>0, <2>5, <2>6, BaredMore
  <2>8. QED
    BY <2>7 DEF FeedShown, Bared, Bare
<1>3. ASSUME NEW kind \in {"tool", "result"}, RelayLine(kind)
      PROVE  FeedShown'
  <2>1. /\ feed' = Append(feed, Entry(Segment(kind, <<>>, "")))
        /\ meant' = Append(meant, Segment(kind, <<>>, ""))
    BY <1>3 DEF RelayLine
  <2>2. kind \in {"tool", "result", "ask"}
    OBVIOUS
  <2>3. QED
    BY <1>2, <2>1, <2>2
<1>4. CASE RelayAsk
  <2>1. /\ feed' = Append(feed, Entry(Segment("ask", <<>>, "")))
        /\ meant' = Append(meant, Segment("ask", <<>>, ""))
    BY <1>4 DEF RelayAsk
  <2>2. "ask" \in {"tool", "result", "ask"}
    OBVIOUS
  <2>3. QED
    BY <1>2, <2>1, <2>2
<1>5. ASSUME NEW rs, Answer(rs)
      PROVE  FeedShown'
  <2>1. PICK i \in Unanswered : feed' = [feed EXCEPT ![i].answer = FormatGroupAnswer(Questions, rs)]
    BY <1>5 DEF Answer
  <2>2. i \in 1 .. Len(feed) /\ feed[i] \in Entered /\ meant' = meant
    BY <1>0, <1>5, <2>1 DEF Unanswered, Asked, Answer
  <2> DEFINE w == FormatGroupAnswer(Questions, rs)
             x == feed[i]
             e == [x EXCEPT !.answer = w]
  <2>3. x \in Entered /\ feed' = [feed EXCEPT ![i] = e]
    BY <2>1, <2>2
  <2> HIDE DEF w, x
  <2>4. Bare(e) = Bare(x)
    BY <2>3 DEF Entered, Bare
  <2> HIDE DEF e
  <2>5. Len(feed') = Len(feed) /\ \A j \in 1 .. Len(feed) : Bare(feed'[j]) = Bare(feed[j])
    <3>1. /\ Len(feed') = Len(feed) /\ feed'[i] = e
          /\ \A j \in 1 .. Len(feed) : j # i => feed'[j] = feed[j]
      BY <1>0, <2>2, <2>3
    <3>2. QED
      BY <2>4, <3>1 DEF x
  <2>6. meant' = Bared(feed')
    BY <1>0, <2>2, <2>5 DEF Bared
  <2>7. QED
    BY <2>6 DEF FeedShown, Bared, Bare
<1>6. CASE UNCHANGED vars
  BY <1>6 DEF FeedShown
<1>7. QED
  BY <1>1, <1>3, <1>4, <1>5, <1>6 DEF Next

\* The feed shows what the model wrote: split_render_segments cuts the text
\* of the pieces into their pages and notes, and the prose and code between
\* them, whatever the documents are and however many.
THEOREM FeedIsAsWritten == Spec => []FeedAsWritten
<1> DEFINE IInv == Inv /\ FeedAsWritten
<1>1. Init => IInv
  <2>1. Init => FeedShown
    BY DEF Init, FeedShown
  <2>2. QED
    BY <2>1, InvInit DEF FeedAsWritten
<1>2. IInv /\ [Next]_vars => IInv'
  <2>1. Closed' <=> Closed
    OBVIOUS
  <2>2. QED
    BY <2>1, InvNext, ShownNext DEF FeedAsWritten
<1>3. QED
  BY <1>1, <1>2, PTL DEF Spec
=============================================================================

--------------------------- MODULE AnswersProofs ----------------------------
(***************************************************************************)
(* What an answer holds, for any documents, requests and faults: its pages *)
(* add up to it and can be fetched while they are fresh, a search serves   *)
(* what its seat may see, and a context names what it leaves out.          *)
(***************************************************************************)
EXTENDS FiniteSetTheorems, WellFoundedInduction, Pages, Search, Context, TLAPS

\* A set of numbers that has one has a least one.
LEMMA Least == ASSUME NEW S \in SUBSET Nat, S # {} PROVE \E n \in S : \A m \in S : n <= m
<1> DEFINE R == {ss \in Nat \X Nat : ss[1] < ss[2]}
<1>1. R = OpToRel(<, Nat)
  BY DEF OpToRel
<1>2. IsWellFoundedOn(R, Nat)
  BY <1>1, NatLessThanWellFounded
<1>3. \A m, n \in Nat : m < n => <<m, n>> \in R
  OBVIOUS
<1> HIDE DEF R
<1>4. PICK n \in S : \A m \in S : ~(<<m, n>> \in R)
  BY <1>2, WFMin
<1>5. \A m \in S : ~(m < n)
  BY <1>3, <1>4
<1> QED BY <1>5

----------------------------------------------------------------------------
(* Pages: what they add up to *)

Piece == [item : Nat, part : Nat, of : Nat, size : Nat]

\* The piece v comes after u.
Continues(u, v) ==
    IF u.part < u.of THEN v \in [item : {u.item}, part : {u.part + 1}, of : {u.of}, size : Nat]
    ELSE v.item = u.item + 1 /\ v.part = 1

\* Pieces in their order.
Chain(got) ==
    /\ got \in Seq(Piece) /\ Len(got) > 0
    /\ \A q \in 1..Len(got) : got[q].part <= got[q].of
    /\ \A q \in 1..Len(got) - 1 : Continues(got[q], got[q + 1])
Begins(u) == u.item = 1 /\ u.part = 1
Ends(u, n) == u.item = n /\ u.part = u.of

\* Pages that tell n items.
Whole(P, n) ==
    /\ P \in Seq(Seq(Piece)) /\ Len(P) > 0
    /\ \A i \in 1..Len(P) : Chain(P[i])
    /\ \A i \in 1..Len(P) - 1 : Continues(Last(P[i]), P[i + 1][1])
    /\ Begins(P[1][1]) /\ Ends(Last(P[Len(P)]), n)

\* So far nothing, or n items.
Told(P, n) == (n = 0 /\ P = <<>>) \/ Whole(P, n)

\* A chain from the first piece to the last one has each item.
LEMMA ChainTells ==
    ASSUME NEW got, Chain(got), Begins(got[1]), NEW n \in Nat, Ends(Last(got), n)
    PROVE  \A k \in 1..n : \E q \in 1..Len(got) : got[q].item = k /\ got[q].part = got[q].of
<1> DEFINE Has(k) == \E q \in 1..Len(got) : got[q].item = k /\ got[q].part = got[q].of
           Behind(q) == \A k \in 1..n : k < got[q].item => Has(k)
           S == {q \in 1..Len(got) : ~Behind(q)}
<1>1. got \in Seq(Piece) /\ Len(got) \in Nat \ {0}
  BY DEF Chain
<1>2. \A q \in 1..Len(got) : got[q] \in Piece
  BY <1>1
<1>3. Behind(1)
  BY DEF Begins
<1>4. ASSUME NEW q \in 1..Len(got) - 1, Behind(q) PROVE Behind(q + 1)
  <2> SUFFICES ASSUME NEW k \in 1..n, k < got[q + 1].item PROVE Has(k)
    OBVIOUS
  <2>1. q \in 1..Len(got) /\ got[q] \in Piece /\ got[q].part <= got[q].of /\ Continues(got[q], got[q + 1])
    BY <1>1, <1>2 DEF Chain
  <2>2. CASE got[q].part < got[q].of
    <3>1. got[q + 1].item = got[q].item
      BY <2>1, <2>2 DEF Continues
    <3> QED BY <1>4, <3>1
  <2>3. CASE ~(got[q].part < got[q].of)
    <3>1. got[q + 1].item = got[q].item + 1 /\ got[q].part = got[q].of /\ got[q].item \in Nat
      BY <2>1, <2>3 DEF Continues, Piece
    <3>2. k < got[q].item \/ k = got[q].item
      BY <3>1
    <3> QED BY <1>4, <2>1, <3>1, <3>2
  <2> QED BY <2>2, <2>3
<1>5. S = {}
  <2> SUFFICES ASSUME S # {} PROVE FALSE
    OBVIOUS
  <2>1. S \in SUBSET Nat
    OBVIOUS
  <2>2. PICK q \in S : \A m \in S : q <= m
    <3> HIDE DEF S
    <3> QED BY <2>1, Least
  <2>3. q \in 1..Len(got) /\ ~Behind(q) /\ q # 1
    BY <1>3, <2>2
  <2>4. q - 1 \in 1..Len(got) - 1 /\ q - 1 \in 1..Len(got)
    BY <1>1, <2>3
  <2>5. Behind(q - 1)
    <3> HIDE DEF Behind
    <3>1. q - 1 \notin S
      BY <2>2, <2>4
    <3> QED BY <2>4, <3>1
  <2>6. (q - 1) + 1 = q
    BY <2>3
  <2> HIDE DEF Behind
  <2>7. Behind((q - 1) + 1)
    BY <1>4, <2>4, <2>5
  <2> QED BY <2>3, <2>6, <2>7
<1>6. Behind(Len(got)) /\ got[Len(got)].item = n /\ got[Len(got)].part = got[Len(got)].of
  <2> HIDE DEF Behind
  <2> QED BY <1>1, <1>5 DEF Ends, Last
<1>7. \A k \in 1..n : k < n \/ k = n
  OBVIOUS
<1>8. Has(n)
  BY <1>1, <1>6
<1> QED BY <1>6, <1>7, <1>8

\* Two chains that meet are one.
LEMMA ChainsMeet ==
    ASSUME NEW g, NEW h, Chain(g), Chain(h), Continues(Last(g), h[1])
    PROVE  Chain(g \o h) /\ (g \o h)[1] = g[1] /\ Last(g \o h) = Last(h)
<1> DEFINE s == g \o h
<1>1. g \in Seq(Piece) /\ h \in Seq(Piece) /\ Len(g) \in Nat \ {0} /\ Len(h) \in Nat \ {0}
  BY DEF Chain
<1>2. s \in Seq(Piece) /\ Len(s) = Len(g) + Len(h)
  BY <1>1
<1>3. \A q \in 1..Len(s) : s[q] = IF q <= Len(g) THEN g[q] ELSE h[q - Len(g)]
  BY <1>1
<1> HIDE DEF s
<1>4. \A q \in 1..Len(s) : s[q].part <= s[q].of
  <2> SUFFICES ASSUME NEW q \in 1..Len(s) PROVE s[q].part <= s[q].of
    OBVIOUS
  <2>1. CASE q <= Len(g)
    BY <1>1, <1>3, <2>1 DEF Chain
  <2>2. CASE q > Len(g)
    <3>1. q - Len(g) \in 1..Len(h)
      BY <1>1, <1>2, <2>2
    <3> QED BY <1>1, <1>3, <2>2, <3>1, SMTT(30) DEF Chain
  <2> QED BY <1>1, <2>1, <2>2
<1>5. ASSUME NEW q \in 1..Len(s) - 1 PROVE Continues(s[q], s[q + 1])
  <2>1. CASE q < Len(g)
    <3>1. q \in 1..Len(g) - 1 /\ s[q] = g[q] /\ s[q + 1] = g[q + 1]
      BY <1>1, <1>2, <1>3, <2>1
    <3> QED BY <3>1 DEF Chain
  <2>2. CASE q = Len(g)
    <3> DEFINE n == Len(g)
    <3>1. n \in Nat /\ q = n /\ q \in 1..Len(s) /\ q + 1 \in 1..Len(s) /\ Last(g) = g[n]
      BY <1>1, <1>2, <2>2 DEF Last
    <3>2. \A i \in 1..Len(s) : s[i] = IF i <= n THEN g[i] ELSE h[i - n]
      BY <1>3
    <3> HIDE DEF n
    <3>3. s[q] = g[q]
      BY <3>1, <3>2
    <3>4. s[q + 1] = h[(q + 1) - n] /\ (q + 1) - n = 1
      BY <3>1, <3>2
    <3>5. s[q] = Last(g) /\ s[q + 1] = h[1]
      BY <3>1, <3>3, <3>4
    <3> QED BY <3>5
  <2>3. CASE q > Len(g)
    <3>1. q - Len(g) \in 1..Len(h) - 1 /\ (q + 1) - Len(g) = (q - Len(g)) + 1
      BY <1>1, <1>2, <2>3
    <3>2. s[q] = h[q - Len(g)] /\ s[q + 1] = h[(q - Len(g)) + 1]
      BY <1>1, <1>2, <1>3, <2>3, <3>1, SMTT(30)
    <3> QED BY <3>1, <3>2 DEF Chain
  <2> QED BY <1>1, <2>1, <2>2, <2>3
<1>6. Chain(s)
  BY <1>1, <1>2, <1>4, <1>5 DEF Chain
<1>7. s[1] = g[1] /\ Last(s) = Last(h)
  <2>1. Len(s) > Len(g) /\ Len(s) - Len(g) = Len(h) /\ Len(s) \in 1..Len(s) /\ 1 \in 1..Len(s)
    BY <1>1, <1>2
  <2> QED BY <1>1, <1>3, <2>1 DEF Last
<1> QED BY <1>6, <1>7 DEF s

\* Pieces of one item, in their order.
Parts(q, k) ==
    /\ q \in Seq(Piece) /\ Len(q) > 0
    /\ \A p \in 1..Len(q) : q[p].item = k /\ q[p].part = p /\ q[p].of = Len(q)

LEMMA PartIs ==
    ASSUME NEW q, NEW k, Parts(q, k)
    PROVE  \A p \in 1..Len(q) : q[p] \in Piece /\ q[p].item = k /\ q[p].part = p /\ q[p].of = Len(q)
  BY DEF Parts

LEMMA SplitIs ==
    ASSUME NEW item \in PgItem, NEW k \in Nat, NEW chunk \in Nat \ {0}
    PROVE  Parts(SplitItem(item, k, chunk), k)
<1>1. item.size \in Nat /\ item.body \in Nat /\ item.body <= item.size
  BY DEF PgItem
<1>2. CASE item.body <= chunk
  <2>1. SplitItem(item, k, chunk) = <<[item |-> k, part |-> 1, of |-> 1, size |-> item.size]>>
    BY <1>2 DEF SplitItem
  <2>2. [item |-> k, part |-> 1, of |-> 1, size |-> item.size] \in Piece
    BY <1>1 DEF Piece
  <2> QED BY <2>1, <2>2 DEF Parts
<1>3. CASE ~(item.body <= chunk)
  <2> DEFINE n == Ceil(item.body, chunk)
             more(p) == IF p * chunk > item.body THEN item.body % chunk ELSE chunk
             q == [p \in 1..n |-> [item |-> k, part |-> p, of |-> n, size |-> item.size - item.body + more(p)]]
  <2>1. n \in Nat \ {0}
    BY <1>1, <1>3 DEF Ceil
  <2>2. \A p \in 1..n : more(p) \in Nat
    BY <1>1
  <2>3. SplitItem(item, k, chunk) = q
    BY <1>3 DEF SplitItem
  <2> HIDE DEF n, more
  <2>4. \A p \in 1..n : item.size - item.body + more(p) \in Nat
    BY <1>1, <2>2
  <2>5. \A p \in 1..n : q[p] \in Piece
    BY <2>1, <2>4 DEF Piece
  <2>6. q \in Seq(Piece) /\ Len(q) = n
    BY <2>1, <2>5
  <2> QED BY <2>1, <2>3, <2>6 DEF Parts
<1> QED BY <1>2, <1>3

LEMMA ChainOfOne ==
    ASSUME NEW u \in Piece, u.part <= u.of
    PROVE  Chain(<<u>>) /\ Last(<<u>>) = u /\ <<u>>[1] = u
  BY DEF Chain, Last

LEMMA Joined ==
    ASSUME NEW T, NEW g \in Seq(T), NEW h \in Seq(T)
    PROVE  /\ g \o h \in Seq(T) /\ Len(g \o h) = Len(g) + Len(h)
           /\ \A i \in 1..Len(g) : (g \o h)[i] = g[i]
           /\ \A i \in 1..Len(h) : (g \o h)[Len(g) + i] = h[i]
  OBVIOUS

\* More pages, each with one part of the next item.
LEMMA AloneTells ==
    ASSUME NEW P, NEW k \in Nat, Told(P, k), NEW q, Parts(q, k + 1)
    PROVE  Whole(P \o Alone(q), k + 1)
<1> DEFINE A == Alone(q)
           R == P \o A
<1>1. q \in Seq(Piece) /\ Len(q) \in Nat \ {0} /\ \A p \in 1..Len(q) : q[p] \in Piece
  BY DEF Parts
<1>2. /\ A \in Seq(Seq(Piece)) /\ Len(A) = Len(q) /\ \A p \in 1..Len(q) : A[p] = <<q[p]>>
  <2>1. \A p \in 1..Len(q) : <<q[p]>> \in Seq(Piece)
    BY <1>1
  <2> QED BY <1>1, <2>1 DEF Alone
<1>3. \A p \in 1..Len(q) : Chain(A[p]) /\ Last(A[p]) = q[p] /\ A[p][1] = q[p]
  <2> SUFFICES ASSUME NEW p \in 1..Len(q) PROVE Chain(A[p]) /\ Last(A[p]) = q[p] /\ A[p][1] = q[p]
    OBVIOUS
  <2>1. q[p] \in Piece /\ q[p].part <= q[p].of
    BY <1>1 DEF Parts
  <2> QED BY <1>2, <2>1, ChainOfOne
<1>4. P \in Seq(Seq(Piece)) /\ Len(P) \in Nat
  <2>1. CASE Whole(P, k)
    BY <2>1 DEF Whole
  <2>2. CASE P = <<>>
    <3> DEFINE T == Seq(Piece)
    <3> HIDE DEF T
    <3>1. P \in Seq(T) /\ Len(P) = 0
      BY <2>2
    <3> QED BY <3>1 DEF T
  <2> QED BY <2>1, <2>2 DEF Told
<1>5. /\ R \in Seq(Seq(Piece)) /\ Len(R) = Len(P) + Len(q)
      /\ \A i \in 1..Len(P) : R[i] = P[i]
      /\ \A p \in 1..Len(q) : R[Len(P) + p] = A[p]
  <2> DEFINE T == Seq(Piece)
  <2>1. P \in Seq(T) /\ A \in Seq(T)
    BY <1>2, <1>4
  <2> HIDE DEF A, T
  <2>2. /\ R \in Seq(T) /\ Len(R) = Len(P) + Len(A)
        /\ \A i \in 1..Len(P) : R[i] = P[i]
        /\ \A i \in 1..Len(A) : R[Len(P) + i] = A[i]
    BY <2>1, Joined
  <2>3. Len(A) = Len(q)
    BY <1>2
  <2> HIDE DEF R
  <2> QED BY <2>2, <2>3 DEF T
<1> HIDE DEF A, R
<1>6. \A i \in 1..Len(P) : Chain(P[i])
  BY <1>4 DEF Told, Whole
<1>7. ASSUME NEW i \in 1..Len(R) PROVE Chain(R[i])
  <2>1. CASE i <= Len(P)
    BY <1>4, <1>5, <1>6, <2>1
  <2>2. CASE i > Len(P)
    <3>1. i - Len(P) \in 1..Len(q) /\ Len(P) + (i - Len(P)) = i
      BY <1>1, <1>4, <1>5, <2>2
    <3>2. R[Len(P) + (i - Len(P))] = A[i - Len(P)]
      BY <1>5, <3>1
    <3> QED BY <1>3, <3>1, <3>2
  <2> QED BY <1>4, <2>1, <2>2
<1>8. ASSUME NEW i \in 1..Len(R) - 1 PROVE Continues(Last(R[i]), R[i + 1][1])
  <2>1. CASE i < Len(P)
    <3> DEFINE n == Len(P)
    <3>1. n \in Nat /\ \A p \in 1..n : R[p] = P[p]
      BY <1>4, <1>5
    <3>2. i \in Nat \ {0} /\ i < n
      BY <1>4, <1>5, <2>1, SMTT(30)
    <3> HIDE DEF n
    <3>3. i \in 1..n - 1 /\ i \in 1..n /\ i + 1 \in 1..n
      BY <3>1, <3>2
    <3>4. i \in 1..Len(P) - 1 /\ R[i] = P[i] /\ R[i + 1] = P[i + 1]
      BY <3>1, <3>3 DEF n
    <3>5. Whole(P, k)
      BY <1>4, <2>1 DEF Told
    <3> QED BY <3>4, <3>5 DEF Whole
  <2>2. CASE i = Len(P)
    <3>1. R[i] = P[Len(P)] /\ R[i + 1] = A[1] /\ A[1][1] = q[1] /\ Len(P) > 0
      BY <1>1, <1>3, <1>4, <1>5, <2>2
    <3>2. Whole(P, k)
      BY <1>4, <3>1 DEF Told
    <3>3. Ends(Last(P[Len(P)]), k)
      BY <3>2 DEF Whole
    <3>4. q[1].item = k + 1 /\ q[1].part = 1
      BY <1>1 DEF Parts
    <3>5. Last(P[Len(P)]) \in Piece
      <4>1. Chain(P[Len(P)])
        BY <1>4, <1>6, <3>1
      <4> QED BY <4>1 DEF Chain, Last
    <3> QED BY <3>1, <3>3, <3>4, <3>5 DEF Ends, Continues, Piece
  <2>3. CASE i > Len(P)
    <3> DEFINE p == i - Len(P)
    <3>1. p \in 1..Len(q) - 1 /\ p + 1 \in 1..Len(q) /\ Len(P) + p = i /\ Len(P) + (p + 1) = i + 1
      BY <1>1, <1>4, <1>5, <2>3
    <3>2. p \in 1..Len(q)
      BY <1>1, <3>1
    <3> HIDE DEF p
    <3>3. R[i] = A[p] /\ R[i + 1] = A[p + 1]
      BY <1>5, <3>1, <3>2
    <3>4. Last(R[i]) = q[p] /\ R[i + 1][1] = q[p + 1]
      BY <1>3, <3>1, <3>2, <3>3
    <3>5. Continues(q[p], q[p + 1])
      <4>1. /\ q[p].item = k + 1 /\ q[p].part = p /\ q[p].of = Len(q)
            /\ q[p + 1].item = k + 1 /\ q[p + 1].part = p + 1 /\ q[p + 1].of = Len(q)
            /\ q[p + 1] \in Piece
        BY <1>1, <3>1, <3>2 DEF Parts
      <4>2. p < Len(q)
        BY <1>1, <3>1
      <4> QED BY <4>1, <4>2 DEF Continues, Piece
    <3> QED BY <3>4, <3>5
  <2> QED BY <1>4, <2>1, <2>2, <2>3
<1>9. Begins(R[1][1])
  <2>1. CASE Len(P) > 0
    <3>1. R[1] = P[1] /\ Whole(P, k)
      BY <1>4, <1>5, <2>1 DEF Told
    <3> QED BY <3>1 DEF Whole
  <2>2. CASE Len(P) = 0
    <3>1. k = 0
      BY <1>4, <2>2 DEF Told, Whole
    <3>0. 1 \in 1..Len(q)
      BY <1>1
    <3>2. R[Len(P) + 1] = A[1] /\ A[1][1] = q[1]
      BY <1>3, <1>5, <3>0
    <3>4. q[1].item = k + 1 /\ q[1].part = 1
      BY <3>0 DEF Parts
    <3>3. Len(P) + 1 = 1
      BY <2>2
    <3> QED BY <3>1, <3>2, <3>3, <3>4 DEF Begins
  <2> QED BY <1>4, <2>1, <2>2
<1>10. Ends(Last(R[Len(R)]), k + 1)
  <2>1. Len(q) \in 1..Len(q) /\ Len(R) = Len(P) + Len(q)
    BY <1>1, <1>5
  <2>2. R[Len(R)] = A[Len(q)] /\ Last(A[Len(q)]) = q[Len(q)]
    BY <1>3, <1>5, <2>1
  <2>3. q[Len(q)].item = k + 1 /\ q[Len(q)].part = q[Len(q)].of
    BY <2>1 DEF Parts
  <2> QED BY <2>2, <2>3 DEF Ends
<1>11. Len(R) > 0
  BY <1>1, <1>4, <1>5
<1> QED BY <1>5, <1>7, <1>8, <1>9, <1>10, <1>11 DEF R, A, Whole

\* The next item on the last page.
LEMMA LastTells ==
    ASSUME NEW P \in Seq(Seq(Piece)), NEW c, NEW k \in Nat, Whole(Append(P, c), k),
           NEW u \in Piece, u.item = k + 1, u.part = 1, u.of = 1
    PROVE  Whole(Append(P, Append(c, u)), k + 1)
<1> DEFINE D == Append(P, c)
           R == Append(P, Append(c, u))
<1>1. u \in Piece /\ u.item = k + 1 /\ u.part = 1 /\ u.of = 1
  OBVIOUS
<1>2. /\ Len(P) \in Nat /\ D[Len(P) + 1] = c /\ Len(D) = Len(P) + 1
      /\ \A i \in 1..Len(P) : D[i] = P[i]
  OBVIOUS
<1>3. Chain(c) /\ Ends(Last(c), k) /\ c \in Seq(Piece) /\ Last(c) \in Piece /\ Len(c) \in Nat \ {0}
  <2>1. Chain(c) /\ Ends(Last(c), k)
    <3>1. Whole(D, k)
      OBVIOUS
    <3> HIDE DEF D
    <3>2. Len(P) + 1 \in 1..Len(D)
      BY <1>2
    <3> QED BY <1>2, <3>1, <3>2 DEF Whole
  <2> QED BY <2>1 DEF Chain, Last
<1>4. Append(c, u) = c \o <<u>>
  BY <1>1, <1>3
<1>5. Chain(<<u>>) /\ Last(<<u>>) = u /\ <<u>>[1] = u
  BY <1>1, ChainOfOne
<1>6. Continues(Last(c), u)
  BY <1>1, <1>3 DEF Continues, Ends, Piece
<1>7. Chain(Append(c, u)) /\ Append(c, u)[1] = c[1] /\ Last(Append(c, u)) = u
  <2> QED BY <1>3, <1>4, <1>5, <1>6, ChainsMeet
<1>8. /\ R \in Seq(Seq(Piece)) /\ Len(R) = Len(P) + 1 /\ R[Len(P) + 1] = Append(c, u)
      /\ \A i \in 1..Len(P) : R[i] = P[i]
  <2> DEFINE T == Seq(Piece)
             d == Append(c, u)
  <2>1. d \in T /\ P \in Seq(T)
    BY <1>1, <1>3
  <2> HIDE DEF T, d
  <2>2. /\ Append(P, d) \in Seq(T) /\ Len(Append(P, d)) = Len(P) + 1 /\ Append(P, d)[Len(P) + 1] = d
        /\ \A i \in 1..Len(P) : Append(P, d)[i] = P[i]
    BY <2>1
  <2> QED BY <2>2 DEF T, d
<1> HIDE DEF D, R
<1>9. ASSUME NEW i \in 1..Len(R) PROVE Chain(R[i])
  <2>1. CASE i <= Len(P)
    <3>1. R[i] = D[i] /\ i \in 1..Len(D)
      BY <1>2, <1>8, <2>1
    <3> QED BY <3>1 DEF Whole, D
  <2>2. CASE i = Len(P) + 1
    BY <1>7, <1>8, <2>2
  <2> QED BY <1>2, <1>8, <2>1, <2>2
<1>10. ASSUME NEW i \in 1..Len(R) - 1 PROVE Continues(Last(R[i]), R[i + 1][1])
  <2>1. R[i] = D[i] /\ i \in 1..Len(D) - 1 /\ R[i + 1][1] = D[i + 1][1]
    <3>1. CASE i < Len(P)
      <4>1. i + 1 \in 1..Len(P) /\ i \in 1..Len(P)
        BY <1>2, <3>1
      <4> QED BY <1>2, <1>8, <4>1
    <3>2. CASE i = Len(P)
      <4>1. i \in 1..Len(P) /\ i + 1 = Len(P) + 1
        BY <1>2, <3>2
      <4>2. R[i] = D[i] /\ R[i + 1] = Append(c, u) /\ D[i + 1] = c
        BY <1>2, <1>8, <4>1
      <4> QED BY <1>2, <1>7, <4>1, <4>2
    <3> QED BY <1>2, <1>8, <3>1, <3>2
  <2> QED BY <2>1 DEF Whole, D
<1>11. Begins(R[1][1])
  <2>1. R[1][1] = D[1][1]
    <3>1. CASE Len(P) = 0
      BY <1>2, <1>7, <1>8, <3>1
    <3>2. CASE Len(P) # 0
      <4>1. 1 \in 1..Len(P)
        BY <1>2, <3>2
      <4> QED BY <1>2, <1>8, <4>1
    <3> QED BY <3>1, <3>2
  <2> QED BY <2>1 DEF Whole, D
<1>12. Ends(Last(R[Len(R)]), k + 1)
  BY <1>1, <1>7, <1>8 DEF Ends
<1>13. Len(R) > 0
  BY <1>2, <1>8
<1>14. Whole(R, k + 1)
  BY <1>8, <1>9, <1>10, <1>11, <1>12, <1>13 DEF Whole
<1> QED BY <1>14 DEF R

\* What is packed is what the loop makes of it, item by item.
Start0 == [pages |-> <<>>, current |-> <<>>, chars |-> 0]
Packs(f, items, limit, n) ==
    f = [k \in 0..n |-> IF k = 0 THEN Start0 ELSE PackItem(items, limit, f[k - 1], k)]

LEMMA PacksAre ==
    ASSUME NEW items, NEW limit, NEW n \in Nat
    PROVE  \E f : Packs(f, items, limit, n)
<1> DEFINE S == {m \in Nat : ~ \E f : Packs(f, items, limit, m)}
<1>1. S = {}
  <2> SUFFICES ASSUME S # {} PROVE FALSE
    OBVIOUS
  <2>1. PICK m \in S : \A j \in S : m <= j
    <3>1. S \in SUBSET Nat
      OBVIOUS
    <3> HIDE DEF S
    <3> QED BY <3>1, Least
  <2>2. CASE m = 0
    <3> DEFINE g == [k \in 0..m |-> Start0]
    <3>1. \A k \in 0..m : k = 0
      BY <2>2
    <3>2. g = [k \in 0..m |-> IF k = 0 THEN Start0 ELSE PackItem(items, limit, g[k - 1], k)]
      BY <3>1
    <3>3. Packs(g, items, limit, m)
      BY <3>2 DEF Packs
    <3> QED BY <3>3
  <2>3. CASE m # 0
    <3>1. m \in Nat /\ m - 1 \in Nat
      BY <2>3
    <3>2. m - 1 \notin S
      BY <2>1, <3>1
    <3>3. PICK f : Packs(f, items, limit, m - 1)
      BY <3>1, <3>2
    <3> DEFINE g == [k \in 0..m |-> IF k = m THEN PackItem(items, limit, f[m - 1], m) ELSE f[k]]
    <3>4. \A k \in 0..m - 1 : f[k] = IF k = 0 THEN Start0 ELSE PackItem(items, limit, f[k - 1], k)
      BY <3>3 DEF Packs
    <3>5. \A k \in 0..m - 1 : k \in 0..m /\ k # m /\ g[k] = f[k]
      BY <3>1
    <3>6. ASSUME NEW k \in 0..m
          PROVE  g[k] = IF k = 0 THEN Start0 ELSE PackItem(items, limit, g[k - 1], k)
      <4>1. CASE k = m
        <5>1. g[k - 1] = f[m - 1] /\ k # 0
          BY <2>3, <3>1, <3>5, <4>1
        <5>2. g[k] = PackItem(items, limit, f[m - 1], m)
          BY <4>1
        <5> HIDE DEF g
        <5> QED BY <4>1, <5>1, <5>2
      <4>2. CASE k # m
        <5>1. k \in 0..m - 1
          BY <3>1, <4>2
        <5>2. k # 0 => k - 1 \in 0..m - 1
          BY <3>1, <5>1
        <5> HIDE DEF g
        <5> QED BY <3>4, <3>5, <5>1, <5>2
      <4> QED BY <4>1, <4>2
    <3>7. g = [k \in 0..m |-> g[k]]
      OBVIOUS
    <3> HIDE DEF g
    <3>8. Packs(g, items, limit, m)
      <4>1. g = [k \in 0..m |-> IF k = 0 THEN Start0 ELSE PackItem(items, limit, g[k - 1], k)]
        BY <3>6, <3>7
      <4> QED BY <4>1 DEF Packs
    <3> QED BY <3>8
  <2> QED BY <2>2, <2>3
<1> QED BY <1>1

LEMMA PackingIs ==
    ASSUME NEW items, Len(items) \in Nat, NEW limit
    PROVE  \A k \in 0..Len(items) :
              Packing(items, limit)[k] =
                  IF k = 0 THEN Start0 ELSE PackItem(items, limit, Packing(items, limit)[k - 1], k)
<1> DEFINE n == Len(items)
           p == Packing(items, limit)
<1>1. \E f : Packs(f, items, limit, n)
  BY PacksAre
<1>2. p = CHOOSE f : Packs(f, items, limit, n)
  BY DEF Packing, Packs, Start0
<1> HIDE DEF n, p
<1>3. Packs(p, items, limit, n)
  BY <1>1, <1>2
<1>4. \A k \in 0..n : p[k] = IF k = 0 THEN Start0 ELSE PackItem(items, limit, p[k - 1], k)
  BY <1>3 DEF Packs
<1> QED BY <1>4 DEF n, p

\* What is packed after k items tells them.
Packed == [pages : Seq(Seq(Piece)), current : Seq(Piece), chars : Nat]
PackedOK(k, s) ==
    /\ s \in Packed
    /\ s.current = <<>> => Told(s.pages, k)
    /\ s.current # <<>> => Whole(Append(s.pages, s.current), k)

LEMMA PackedWith ==
    ASSUME NEW A \in Seq(Seq(Piece)), NEW c \in Seq(Piece), NEW n \in Nat,
           NEW f, f = [pages |-> A, current |-> c, chars |-> n]
    PROVE  f \in Packed /\ f.pages = A /\ f.current = c
  BY DEF Packed

LEMMA NotEmpty == ASSUME NEW T, NEW g \in Seq(T), NEW u \in T PROVE Append(g, u) # <<>>
<1>1. Len(Append(g, u)) = Len(g) + 1 /\ Len(g) \in Nat /\ Len(<<>>) = 0
  OBVIOUS
<1> QED BY <1>1

LEMMA Nothing == <<>> \in Seq(Piece)
  OBVIOUS

LEMMA NothingFirst == ASSUME NEW T, NEW g \in Seq(T) PROVE <<>> \o g = g
  OBVIOUS

LEMMA FlushTells ==
    ASSUME NEW k \in Nat, NEW s, PackedOK(k, s)
    PROVE  PackedOK(k, Flush(s)) /\ Flush(s).current = <<>> /\ Told(Flush(s).pages, k)
<1>1. CASE s.current = <<>>
  BY <1>1 DEF Flush, PackedOK
<1>2. CASE s.current # <<>>
  <2> DEFINE f == Flush(s)
  <2>1. s \in Packed /\ Whole(Append(s.pages, s.current), k)
    BY <1>2 DEF PackedOK
  <2>2. f = [s EXCEPT !.pages = Append(@, s.current), !.current = <<>>, !.chars = 0]
    BY <1>2 DEF Flush
  <2>3. f \in Packed /\ f.pages = Append(s.pages, s.current) /\ f.current = <<>>
    <3>1. Append(s.pages, s.current) \in Seq(Seq(Piece))
      BY <2>1 DEF Whole
    <3>2. <<>> \in Seq(Piece)
      BY Nothing
    <3> DEFINE A == Append(s.pages, s.current)
    <3>3. f = [pages |-> A, current |-> <<>>, chars |-> 0]
      BY <2>1, <2>2 DEF Packed
    <3> HIDE DEF A, f
    <3>4. A \in Seq(Seq(Piece))
      BY <3>1 DEF A
    <3>5. f \in Packed /\ f.pages = A /\ f.current = <<>>
      BY <3>2, <3>3, <3>4, PackedWith
    <3> QED BY <3>5 DEF A
  <2> HIDE DEF f
  <2> QED BY <2>1, <2>3 DEF PackedOK, Told, f
<1> QED BY <1>1, <1>2

LEMMA PushTells ==
    ASSUME NEW k \in Nat, NEW s, PackedOK(k, s), NEW u \in Piece, u.item = k + 1, u.part = 1, u.of = 1
    PROVE  PackedOK(k + 1, Push(s, u))
<1> DEFINE f == Push(s, u)
<1>1. s \in Packed /\ s.pages \in Seq(Seq(Piece)) /\ s.current \in Seq(Piece)
  BY DEF PackedOK, Packed
<1>2. f.pages = s.pages /\ f.current = Append(s.current, u) /\ f \in Packed
  <2>1. s.chars + u.size \in Nat /\ Append(s.current, u) \in Seq(Piece)
    BY <1>1 DEF Packed, Piece
  <2> DEFINE c == Append(s.current, u)
             n == s.chars + u.size
  <2>2. f = [pages |-> s.pages, current |-> c, chars |-> n]
    <3>1. s = [pages |-> s.pages, current |-> s.current, chars |-> s.chars]
      BY <1>1 DEF Packed
    <3>2. f = [s EXCEPT !.current = c, !.chars = n]
      BY <3>1 DEF Push
    <3> HIDE DEF c, n, f
    <3> QED BY <3>1, <3>2
  <2>3. c \in Seq(Piece) /\ n \in Nat
    BY <2>1
  <2> HIDE DEF c, n, f
  <2>4. f \in Packed /\ f.pages = s.pages /\ f.current = c
    BY <1>1, <2>2, <2>3, PackedWith
  <2> QED BY <2>4 DEF c
<1>3. f.current # <<>>
  BY <1>1, <1>2, NotEmpty
<1> HIDE DEF f
<1>4. CASE s.current = <<>>
  <2> DEFINE q == <<u>>
  <2>1. Told(s.pages, k)
    BY <1>4 DEF PackedOK
  <2>2. Parts(q, k + 1)
    BY DEF Parts
  <2>3. Append(s.pages, f.current) = s.pages \o Alone(q)
    <3>1. Alone(q) = <<q>>
      BY DEF Alone
    <3>2. f.current = q
      BY <1>2, <1>4
    <3> HIDE DEF q
    <3> QED BY <1>1, <3>1, <3>2
  <2> HIDE DEF q
  <2>4. Whole(Append(s.pages, f.current), k + 1)
    BY <2>1, <2>2, <2>3, AloneTells
  <2> QED BY <1>2, <1>3, <2>4 DEF PackedOK, f
<1>5. CASE s.current # <<>>
  <2>1. Whole(Append(s.pages, s.current), k)
    BY <1>5 DEF PackedOK
  <2>2. Whole(Append(s.pages, Append(s.current, u)), k + 1)
    BY <1>1, <2>1, LastTells
  <2> QED BY <1>2, <1>3, <2>2 DEF PackedOK, f
<1> QED BY <1>4, <1>5

LEMMA PackTells ==
    ASSUME NEW items \in Seq(PgItem), NEW limit \in Nat \ {0}, NEW k \in 1..Len(items), NEW s, PackedOK(k - 1, s)
    PROVE  PackedOK(k, PackItem(items, limit, s, k))
<1> DEFINE f == Flush(s)
           q == SplitItem(items[k], k, ChunkLimit(limit))
           u == SplitItem(items[k], k, items[k].size)[1]
<1>1. items[k] \in PgItem /\ k \in Nat /\ k - 1 \in Nat /\ (k - 1) + 1 = k
  OBVIOUS
<1>2. ChunkLimit(limit) \in Nat \ {0}
  BY DEF ChunkLimit
<1>3. PackedOK(k - 1, f) /\ f.current = <<>> /\ Told(f.pages, k - 1)
  BY <1>1, FlushTells
<1>4. CASE items[k].size > limit
  <2>1. Parts(q, (k - 1) + 1)
    BY <1>1, <1>2, SplitIs
  <2>2. PackItem(items, limit, s, k) = [f EXCEPT !.pages = @ \o Alone(q)]
    BY <1>4 DEF PackItem
  <2> HIDE DEF f, q
  <2>3. Whole(f.pages \o Alone(q), k)
    BY <1>1, <1>3, <2>1, AloneTells
  <2> DEFINE g == [f EXCEPT !.pages = @ \o Alone(q)]
  <2>4. g \in Packed /\ g.current = <<>> /\ g.pages = f.pages \o Alone(q)
    <3>1. f \in Packed /\ f.pages \o Alone(q) \in Seq(Seq(Piece))
      BY <1>3, <2>3 DEF PackedOK, Whole
    <3> QED BY <1>3, <3>1 DEF Packed
  <2> HIDE DEF g
  <2>5. PackedOK(k, g)
    BY <2>3, <2>4 DEF PackedOK, Told
  <2> QED BY <2>2, <2>5 DEF g
<1>5. CASE ~(items[k].size > limit)
  <2> DEFINE r == IF s.chars + items[k].size > limit THEN f ELSE s
  <2>1. PackedOK(k - 1, r)
    BY <1>3
  <2>2. items[k].size \in Nat \ {0} /\ items[k].body <= items[k].size
    BY <1>1 DEF PgItem
  <2>3. u = [item |-> k, part |-> 1, of |-> 1, size |-> items[k].size]
    BY <2>2 DEF SplitItem
  <2>4. u \in Piece /\ u.item = (k - 1) + 1 /\ u.part = 1 /\ u.of = 1
    BY <1>1, <2>2, <2>3 DEF Piece
  <2>5. PackItem(items, limit, s, k) = Push(r, u)
    BY <1>5 DEF PackItem
  <2> HIDE DEF r, u
  <2>6. PackedOK((k - 1) + 1, Push(r, u))
    BY <1>1, <2>1, <2>4, PushTells
  <2> QED BY <1>1, <2>5, <2>6
<1> QED BY <1>4, <1>5

LEMMA ListTells ==
    ASSUME NEW items \in Seq(PgItem), Len(items) > 0, NEW limit \in Nat \ {0}
    PROVE  Whole(ListPages(items, limit), Len(items))
<1> DEFINE n == Len(items)
           p == Packing(items, limit)
           S == {k \in 0..n : ~PackedOK(k, p[k])}
<1>1. n \in Nat \ {0}
  OBVIOUS
<1>2. \A k \in 0..n : p[k] = IF k = 0 THEN Start0 ELSE PackItem(items, limit, p[k - 1], k)
  BY <1>1, PackingIs
<1> HIDE DEF p
<1>3. PackedOK(0, p[0])
  <2> DEFINE T == Seq(Piece)
  <2>1. 0 \in 0..n
    BY <1>1
  <2>2. p[0] = Start0
    BY <1>2, <2>1
  <2>3. <<>> \in T
    OBVIOUS
  <2>4. <<>> \in Seq(T)
    <3> HIDE DEF T
    <3> QED OBVIOUS
  <2>5. Start0 \in Packed
    BY <2>3, <2>4 DEF Start0, Packed
  <2>6. Start0.current = <<>> /\ Start0.pages = <<>>
    BY DEF Start0
  <2> QED BY <2>2, <2>5, <2>6 DEF PackedOK, Told
<1>4. S = {}
  <2> SUFFICES ASSUME S # {} PROVE FALSE
    OBVIOUS
  <2>1. PICK k \in S : \A m \in S : k <= m
    <3>1. S \in SUBSET Nat
      OBVIOUS
    <3> HIDE DEF S
    <3> QED BY <3>1, Least
  <2>2. k \in 1..n /\ k - 1 \in 0..n /\ k - 1 \notin S /\ k \in 0..n
    BY <1>1, <1>3, <2>1
  <2>3. PackedOK(k - 1, p[k - 1])
    BY <2>2
  <2>4. PackedOK(k, PackItem(items, limit, p[k - 1], k))
    BY <2>2, <2>3, PackTells
  <2>5. PackedOK(k, p[k])
    BY <1>2, <2>2, <2>4
  <2> QED BY <2>1, <2>5
<1>5. PackedOK(n, p[n])
  BY <1>1, <1>4
<1>6. Told(Flush(p[n]).pages, n)
  BY <1>1, <1>5, FlushTells
<1> HIDE DEF n
<1>7. Whole(Flush(p[n]).pages, n)
  BY <1>1, <1>6 DEF Told
<1> QED BY <1>7 DEF ListPages, p, n

\* What an answer is cut into tells all of it, and so does an answer that is not cut.
LEMMA PagesTell ==
    ASSUME NEW x \in PgAnswers, NEW limit \in Nat \ {0}
    PROVE  Whole(PagesOf(x, limit), Len(x.items))
<1>1. x.items \in Seq(PgItem) /\ Len(x.items) > 0 /\ (x.list \/ Len(x.items) = 1)
  BY PagesAssumption
<1>2. CASE x.list
  BY <1>1, <1>2, ListTells DEF PagesOf
<1>3. CASE ~x.list
  <2> DEFINE q == SplitItem(x.items[1], 1, ChunkLimit(limit))
  <2>1. x.items[1] \in PgItem
    BY <1>1
  <2>2. ChunkLimit(limit) \in Nat \ {0}
    BY DEF ChunkLimit
  <2>3. Parts(q, 0 + 1)
    BY <2>1, <2>2, SplitIs
  <2>4. PagesOf(x, limit) = Alone(q)
    BY <1>3 DEF PagesOf, ObjectPages
  <2> HIDE DEF q
  <2>5. Whole(<<>> \o Alone(q), 0 + 1)
    BY <2>3, AloneTells DEF Told
  <2>6. Alone(q) = <<>> \o Alone(q)
    <3>1. Len(q) \in Nat /\ \A p \in 1..Len(q) : q[p] \in Piece
      BY <2>3, PartIs DEF Parts
    <3>2. \A p \in 1..Len(q) : <<q[p]>> \in Seq(Piece)
      BY <3>1
    <3>3. Alone(q) \in Seq(Seq(Piece))
      BY <3>1, <3>2 DEF Alone
    <3> DEFINE T == Seq(Piece)
               A == Alone(q)
    <3>4. A \in Seq(T)
      BY <3>3
    <3> HIDE DEF T, A
    <3>5. <<>> \o A = A
      BY <3>4
    <3> QED BY <3>5 DEF A
  <2>7. Len(x.items) = 0 + 1
    BY <1>1, <1>3
  <2>8. Whole(Alone(q), 0 + 1)
    BY <2>5, <2>6
  <2> QED BY <2>4, <2>7, <2>8
<1> QED BY <1>2, <1>3

LEMMA WholePageTells ==
    ASSUME NEW x \in PgAnswers
    PROVE  LET g == WholePage(x) IN Chain(g) /\ Begins(g[1]) /\ Ends(Last(g), Len(x.items))
<1> DEFINE g == WholePage(x)
           n == Len(x.items)
<1>1. x.items \in Seq(PgItem) /\ n \in Nat \ {0}
  BY PagesAssumption
<1>2. ASSUME NEW k \in 1..n
      PROVE  LET u == SplitItem(x.items[k], k, x.items[k].size)[1]
             IN  u \in Piece /\ u.item = k /\ u.part = 1 /\ u.of = 1
  <2>1. x.items[k] \in PgItem
    BY <1>1
  <2>2. x.items[k].size \in Nat \ {0} /\ x.items[k].body <= x.items[k].size
    BY <2>1 DEF PgItem
  <2>3. SplitItem(x.items[k], k, x.items[k].size)[1] = [item |-> k, part |-> 1, of |-> 1, size |-> x.items[k].size]
    BY <2>2 DEF SplitItem
  <2> QED BY <1>1, <2>2, <2>3 DEF Piece
<1> HIDE DEF n
<1>3. g = [k \in 1..n |-> SplitItem(x.items[k], k, x.items[k].size)[1]]
  BY DEF WholePage, n
<1>4. g \in Seq(Piece) /\ Len(g) = n
  BY <1>1, <1>2, <1>3
<1>5. \A k \in 1..n : g[k].item = k /\ g[k].part = 1 /\ g[k].of = 1
  BY <1>2, <1>3
<1> HIDE DEF g
<1>6. \A k \in 1..Len(g) - 1 : Continues(g[k], g[k + 1])
  BY <1>1, <1>4, <1>5 DEF Continues
<1>7. Chain(g)
  BY <1>1, <1>4, <1>5, <1>6 DEF Chain
<1>8. Begins(g[1]) /\ Ends(Last(g), n)
  BY <1>1, <1>4, <1>5 DEF Begins, Ends, Last
<1> QED BY <1>7, <1>8 DEF g, n

----------------------------------------------------------------------------
(* Pages: what an answer announces can be fetched *)

\* Pages that were deleted or are older than the time they are kept.
Excused(r, born) == r \in deleted \/ born + PgTtl < pgClock

Aged(r) == r \in deleted \/ (meta[r] # 0 /\ meta[r] + PgTtl < pgClock)

Fetching(c) ==
    /\ pgJob[c].page \in Nat /\ Len(pages[pgJob[c].resp]) \in Nat
    /\ pgJob[c].page < Len(pages[pgJob[c].resp])
    /\ meta[pgJob[c].resp] = pgJob[c].born /\ pgJob[c].born # 0

PageOK(c) ==
    /\ pgJob[c].at \in {"idle", "limit", "put", "meta", "more", "read", "refused", "unmeta"}
    /\ pgJob[c].at \in {"limit", "put", "meta"} =>
          /\ pgJob[c].resp \in 1 .. pgCalls
          /\ meta[pgJob[c].resp] = 0 /\ pgJob[c].resp \notin deleted
    /\ pgJob[c].at = "limit" => pgJob[c].x \in PgAnswers
    /\ pgJob[c].at \in {"put", "meta"} =>
          {"at", "resp", "pages"} \subseteq DOMAIN pgJob[c] /\ Len(pgJob[c].pages) \in Nat \ {0}
    /\ pgJob[c].at = "meta" => pages[pgJob[c].resp] = pgJob[c].pages
    /\ pgJob[c].at = "more" =>
          /\ {"at", "resp", "page", "born"} \subseteq DOMAIN pgJob[c]
          /\ pgJob[c].resp \in Resp /\ pgJob[c].born \in Nat
          /\ Excused(pgJob[c].resp, pgJob[c].born) \/ Fetching(c)
    /\ pgJob[c].at = "refused" => /\ pgJob[c].born \in Nat
                                  /\ Excused(pgJob[c].resp, pgJob[c].born)
    /\ pgJob[c].at = "unmeta" => pgJob[c].resp \in deleted

Storing(c) == pgJob[c].at \in {"limit", "put", "meta"}

PageInv ==
    /\ pages = [r \in Resp |-> pages[r]] /\ meta \in [Resp -> Nat]
    /\ pgLimit \in PgLimits /\ pgJob = [c \in PgClient |-> pgJob[c]]
    /\ pgClock \in Nat \ {0} /\ pgCalls \in 0 .. MaxPgCalls
    /\ \A c \in PgClient : PageOK(c)
    /\ \A c, d \in PgClient : Storing(c) /\ Storing(d) /\ c # d => pgJob[c].resp # pgJob[d].resp
    /\ \A r \in Resp : r > pgCalls => meta[r] = 0 /\ r \notin deleted
    /\ deleted \subseteq Resp
    /\ sweeping = [left |-> sweeping.left, half |-> sweeping.half]
    /\ sweeping.left \subseteq Resp /\ sweeping.half \in {0} \cup Resp
    /\ sweeping.half \notin sweeping.left
    /\ \A r \in sweeping.left \cup {sweeping.half} : r # 0 => Aged(r)

LEMMA InitPages == PgInit => PageInv
  BY PagesAssumption DEF PgInit, PageInv, PageOK, Storing, PgIdle, NoSweep, Resp

\* What a client holds stays true when its pages and what is known of them do.
LEMMA PageStays ==
    ASSUME PageInv, NEW d \in PgClient, pgJob'[d] = pgJob[d], deleted \subseteq deleted',
           pgCalls' \in Nat, pgCalls <= pgCalls', pgClock' \in Nat, pgClock <= pgClock',
           Storing(d) => /\ pages'[pgJob[d].resp] = pages[pgJob[d].resp]
                         /\ meta'[pgJob[d].resp] = 0 /\ pgJob[d].resp \notin deleted',
           pgJob[d].at = "more" =>
              \/ /\ pages'[pgJob[d].resp] = pages[pgJob[d].resp]
                 /\ meta'[pgJob[d].resp] = meta[pgJob[d].resp]
              \/ Excused(pgJob[d].resp, pgJob[d].born)
              \/ pgJob[d].resp \in deleted'
    PROVE  PageOK(d)'
<1>1. PageOK(d) /\ pgClock \in Nat /\ PgTtl \in Nat /\ pgCalls \in Nat
  BY PagesAssumption DEF PageInv
<1>2. \A r : \A b \in Nat : Excused(r, b) => Excused(r, b)'
  BY <1>1 DEF Excused
<1>3. pgJob[d].at \in {"limit", "put", "meta"} =>
         /\ pgJob[d].resp \in 1 .. pgCalls' /\ meta'[pgJob[d].resp] = 0
         /\ pgJob[d].resp \notin deleted'
  BY <1>1 DEF PageOK, Storing
<1>4. pgJob[d].at = "meta" => pages'[pgJob[d].resp] = pgJob[d].pages
  BY <1>1 DEF PageOK, Storing
<1>5. pgJob[d].at = "more" => Excused(pgJob[d].resp, pgJob[d].born)' \/ Fetching(d)'
  <2> SUFFICES ASSUME pgJob[d].at = "more"
               PROVE  Excused(pgJob[d].resp, pgJob[d].born)' \/ Fetching(d)'
    OBVIOUS
  <2>1. pgJob[d].born \in Nat /\ (Excused(pgJob[d].resp, pgJob[d].born) \/ Fetching(d))
    BY <1>1 DEF PageOK
  <2>2. CASE Excused(pgJob[d].resp, pgJob[d].born) \/ pgJob[d].resp \in deleted'
    BY <1>2, <2>1, <2>2 DEF Excused
  <2>3. CASE /\ pages'[pgJob[d].resp] = pages[pgJob[d].resp]
             /\ meta'[pgJob[d].resp] = meta[pgJob[d].resp] /\ Fetching(d)
    BY <2>3 DEF Fetching
  <2> QED BY <2>1, <2>2, <2>3
<1>6. pgJob[d].at = "refused" => Excused(pgJob[d].resp, pgJob[d].born)'
  BY <1>1, <1>2 DEF PageOK
<1>7. pgJob[d].at = "unmeta" => pgJob[d].resp \in deleted'
  BY <1>1 DEF PageOK
<1> QED BY <1>1, <1>3, <1>4, <1>5, <1>6, <1>7 DEF PageOK

\* A step of a client that leaves what is stored alone.
LEMMA PageOwn ==
    ASSUME PageInv, NEW c \in PgClient, NEW x, PgGoes(c, x), pages' = pages, meta' = meta,
           pgLimit' \in PgLimits, sweeping' = sweeping, deleted' = deleted, pgClock' = pgClock,
           pgCalls' = pgCalls, PageOK(c)',
           Storing(c)' => Storing(c) /\ pgJob'[c].resp = pgJob[c].resp
    PROVE  PageInv'
<1>1. \A d \in PgClient \ {c} : pgJob'[d] = pgJob[d] /\ Storing(d)' = Storing(d)
  BY DEF PageInv, PgGoes, Storing
<1>2. \A d \in PgClient \ {c} : Storing(d) => meta[pgJob[d].resp] = 0 /\ pgJob[d].resp \notin deleted
  BY DEF PageInv, PageOK, Storing
<1>3. pgCalls \in Nat /\ pgClock \in Nat
  BY PagesAssumption DEF PageInv
<1>4. \A d \in PgClient \ {c} : PageOK(d)'
  BY <1>1, <1>2, <1>3, PageStays
<1>5. \A d, e \in PgClient : Storing(d)' /\ Storing(e)' /\ d # e => pgJob'[d].resp # pgJob'[e].resp
  BY <1>1 DEF PageInv
<1>6. pgJob' = [d \in PgClient |-> pgJob'[d]]
  BY DEF PageInv, PgGoes
<1>7. \A r \in sweeping.left \cup {sweeping.half} : r # 0 => Aged(r)'
  BY DEF PageInv, Aged
<1> QED BY <1>4, <1>5, <1>6, <1>7 DEF PageInv

LEMMA JobIs ==
    ASSUME PageInv, NEW c \in PgClient, NEW x, PgGoes(c, x) PROVE pgJob'[c] = x
  BY DEF PageInv, PgGoes

LEMMA ReadsPages == ASSUME PageInv, NEW c \in PgClient, ReadsLimit(c) PROVE PageInv'
<1>1. /\ pages' = pages /\ meta' = meta /\ pgLimit' = pgLimit /\ sweeping' = sweeping
      /\ deleted' = deleted /\ pgClock' = pgClock /\ pgCalls' = pgCalls
      /\ pgJob[c].at = "limit" /\ pgLimit' \in PgLimits
  BY DEF ReadsLimit, PgStored, Other, PageInv
<1>2. PICK limit, r, x : /\ limit = (IF PgOwn[c] # 0 THEN PgOwn[c] ELSE pgLimit)
                         /\ r = pgJob[c].resp /\ x = pgJob[c].x
  OBVIOUS
<1>3. /\ limit \in PgLimits \cup {PgOwn[d] : d \in PgClient} /\ limit # 0
      /\ r \in 1 .. pgCalls /\ meta[r] = 0 /\ r \notin deleted /\ x \in PgAnswers
  BY <1>1, <1>2, PagesAssumption DEF PageInv, PageOK
<1>4. CASE Total(x) > limit /\ Paged(x, limit)
  <2>1. PICK ps : ps = PagesOf(x, limit) /\ Len(ps) \in Nat \ {0}
    <3>1. limit \in Nat \ {0}
      BY <1>3, PagesAssumption
    <3>2. Whole(PagesOf(x, limit), Len(x.items))
      BY <1>3, <3>1, PagesTell
    <3> QED BY <3>2 DEF Whole
  <2>2. PgGoes(c, [at |-> "put", resp |-> r, x |-> x, pages |-> ps])
    BY <1>2, <1>4, <2>1 DEF ReadsLimit
  <2>3. /\ pgJob'[c].at = "put" /\ pgJob'[c].resp = r /\ pgJob'[c].pages = ps
        /\ {"at", "resp", "pages"} \subseteq DOMAIN pgJob'[c]
    BY <2>2, JobIs
  <2>4. PageOK(c)'
    BY <1>1, <1>3, <2>1, <2>3 DEF PageOK
  <2> QED BY <1>1, <1>2, <2>2, <2>3, <2>4, PageOwn DEF Storing
<1>5. CASE ~(Total(x) > limit /\ Paged(x, limit))
  <2>1. PgGoes(c, [at |-> "read", x |-> x, got |-> WholePage(x)])
    BY <1>2, <1>5 DEF ReadsLimit
  <2>2. pgJob'[c].at = "read"
    BY <2>1, JobIs
  <2>3. PageOK(c)'
    BY <2>2 DEF PageOK
  <2> QED BY <1>1, <2>1, <2>2, <2>3, PageOwn DEF Storing
<1> QED BY <1>4, <1>5

LEMMA ActsPages == ASSUME PageInv, NEW c \in PgClient, Acts(c) PROVE PageInv'
<1>1. /\ pages' = pages /\ meta' = meta /\ pgLimit' = pgLimit /\ sweeping' = sweeping
      /\ deleted' = deleted /\ pgClock' = pgClock /\ pgCalls' = pgCalls + 1
      /\ pgCalls < MaxPgCalls /\ pgCalls \in Nat /\ MaxPgCalls \in Nat /\ pgClock \in Nat
  BY PagesAssumption DEF Acts, PgStored, PageInv
<1>2. PICK x \in PgAnswers : PgGoes(c, [at |-> "limit", resp |-> pgCalls + 1, x |-> x])
  BY DEF Acts
<1>3. pgJob'[c].at = "limit" /\ pgJob'[c].resp = pgCalls + 1 /\ pgJob'[c].x = x
  BY <1>2, JobIs
<1>4. meta[pgCalls + 1] = 0 /\ pgCalls + 1 \notin deleted
  BY <1>1 DEF PageInv, Resp
<1>5. PageOK(c)'
  BY <1>1, <1>3, <1>4 DEF PageOK
<1>6. \A d \in PgClient \ {c} : pgJob'[d] = pgJob[d] /\ Storing(d)' = Storing(d)
  BY <1>2 DEF PageInv, PgGoes, Storing
<1>7. \A d \in PgClient : Storing(d) => /\ meta[pgJob[d].resp] = 0 /\ pgJob[d].resp \notin deleted
                                        /\ pgJob[d].resp \in 1 .. pgCalls
  BY DEF PageInv, PageOK, Storing
<1>8. \A d \in PgClient \ {c} : PageOK(d)'
  BY <1>1, <1>6, <1>7, PageStays
<1>9. \A d, e \in PgClient : Storing(d)' /\ Storing(e)' /\ d # e => pgJob'[d].resp # pgJob'[e].resp
  <2> SUFFICES ASSUME NEW d \in PgClient, NEW e \in PgClient, Storing(d)', Storing(e)', d # e
               PROVE  pgJob'[d].resp # pgJob'[e].resp
    OBVIOUS
  <2>1. CASE d # c /\ e # c
    BY <1>6, <2>1 DEF PageInv
  <2>2. CASE d = c \/ e = c
    BY <1>1, <1>3, <1>6, <1>7, <2>2
  <2> QED BY <2>1, <2>2
<1>10. pgJob' = [d \in PgClient |-> pgJob'[d]] /\ pgCalls' \in 0 .. MaxPgCalls
  BY <1>1, <1>2 DEF PageInv, PgGoes
<1>11. \A r \in sweeping.left \cup {sweeping.half} : r # 0 => Aged(r)'
  BY <1>1 DEF PageInv, Aged
<1>12. \A r \in Resp : r > pgCalls' => meta[r] = 0 /\ r \notin deleted
  BY <1>1 DEF PageInv, Resp
<1> QED BY <1>1, <1>5, <1>8, <1>9, <1>10, <1>11, <1>12 DEF PageInv

\* A step that changes what is stored, of which every client still holds true things.
LEMMA PageStep ==
    ASSUME PageInv, pages' = [r \in Resp |-> pages'[r]], meta' \in [Resp -> Nat], pgLimit' = pgLimit,
           pgJob' = [c \in PgClient |-> pgJob'[c]], pgCalls' = pgCalls, pgClock' \in Nat \ {0},
           \A c \in PgClient : PageOK(c)',
           \A c \in PgClient : Storing(c)' => Storing(c) /\ pgJob'[c].resp = pgJob[c].resp,
           \A r \in Resp : r > pgCalls => meta'[r] = 0 /\ r \notin deleted',
           deleted' \subseteq Resp,
           sweeping' = [left |-> sweeping'.left, half |-> sweeping'.half],
           sweeping'.left \subseteq Resp, sweeping'.half \in {0} \cup Resp,
           sweeping'.half \notin sweeping'.left,
           \A r \in sweeping'.left \cup {sweeping'.half} : r # 0 => Aged(r)'
    PROVE  PageInv'
<1>1. \A c, d \in PgClient : Storing(c)' /\ Storing(d)' /\ c # d => pgJob'[c].resp # pgJob'[d].resp
  BY DEF PageInv
<1> QED BY <1>1 DEF PageInv

LEMMA PutsThePages == ASSUME PageInv, NEW c \in PgClient, PutsPages(c) PROVE PageInv'
<1> DEFINE x == [pgJob[c] EXCEPT !.at = "meta"]
<1>1. PICK r, ps : r = pgJob[c].resp /\ ps = pgJob[c].pages
  OBVIOUS
<1>2. /\ meta' = meta /\ pgLimit' = pgLimit /\ sweeping' = sweeping /\ deleted' = deleted
      /\ pgClock' = pgClock /\ pgCalls' = pgCalls /\ pgJob[c].at = "put"
      /\ pages' = [pages EXCEPT ![r] = ps] /\ PgGoes(c, x)
  BY <1>1 DEF PutsPages, Other
<1>3. /\ r \in Resp /\ r \in 1 .. pgCalls /\ meta[r] = 0 /\ r \notin deleted
      /\ {"at", "resp", "pages"} \subseteq DOMAIN pgJob[c] /\ Len(ps) \in Nat \ {0}
  <2>1. PageOK(c) /\ pgCalls \in 0 .. MaxPgCalls /\ MaxPgCalls \in Nat
    BY PagesAssumption DEF PageInv
  <2>2. r \in 1 .. pgCalls /\ meta[r] = 0 /\ r \notin deleted
    BY <1>1, <1>2, <2>1 DEF PageOK
  <2>3. {"at", "resp", "pages"} \subseteq DOMAIN pgJob[c] /\ Len(ps) \in Nat \ {0}
    BY <1>1, <1>2, <2>1 DEF PageOK
  <2> QED BY <2>1, <2>2, <2>3 DEF Resp
<1>4. pgJob'[c].at = "meta" /\ pgJob'[c].resp = r /\ pgJob'[c].pages = ps
      /\ {"at", "resp", "pages"} \subseteq DOMAIN pgJob'[c]
  <2>1. x.at = "meta" /\ x.resp = r /\ x.pages = ps /\ {"at", "resp", "pages"} \subseteq DOMAIN x
    BY <1>1, <1>3
  <2>2. pgJob'[c] = x
    BY <1>2, JobIs
  <2> QED BY <2>1, <2>2
<1>5. pages' = [q \in Resp |-> pages'[q]] /\ pages'[r] = ps /\ \A q \in Resp : q # r => pages'[q] = pages[q]
  BY <1>2, <1>3 DEF PageInv
<1>6. PageOK(c)'
  BY <1>2, <1>3, <1>4, <1>5 DEF PageOK
<1>7. \A d \in PgClient \ {c} : pgJob'[d] = pgJob[d] /\ Storing(d)' = Storing(d)
  BY <1>2 DEF PageInv, PgGoes, Storing
<1>8. ASSUME NEW d \in PgClient \ {c} PROVE PageOK(d)'
  <2>1. pgClock \in Nat /\ pgCalls \in Nat
    BY PagesAssumption DEF PageInv
  <2>2. PageOK(d) /\ (Storing(d) => pgJob[d].resp # r)
    BY <1>1, <1>2 DEF PageInv, Storing
  <2>3. Storing(d) => /\ pages'[pgJob[d].resp] = pages[pgJob[d].resp]
                      /\ meta'[pgJob[d].resp] = 0 /\ pgJob[d].resp \notin deleted'
    BY <1>2, <1>5, <2>2, PagesAssumption DEF PageOK, Storing, Resp, PageInv
  <2>4. pgJob[d].at = "more" =>
           \/ /\ pages'[pgJob[d].resp] = pages[pgJob[d].resp]
              /\ meta'[pgJob[d].resp] = meta[pgJob[d].resp]
           \/ Excused(pgJob[d].resp, pgJob[d].born)
    BY <1>2, <1>3, <1>5, <2>2 DEF PageOK, Fetching
  <2> QED BY <1>2, <1>7, <2>1, <2>3, <2>4, PageStays
<1>9. \A d \in PgClient : Storing(d)' => Storing(d) /\ pgJob'[d].resp = pgJob[d].resp
  BY <1>1, <1>2, <1>4, <1>7 DEF Storing
<1>10. \A q \in sweeping.left \cup {sweeping.half} : q # 0 => Aged(q)'
  BY <1>2 DEF PageInv, Aged
<1> HIDE DEF x
<1>11. pgJob' = [d \in PgClient |-> pgJob'[d]]
  BY <1>2 DEF PageInv, PgGoes
<1> QED BY <1>2, <1>5, <1>6, <1>8, <1>9, <1>10, <1>11, PageStep DEF PageInv

LEMMA PutsTheMeta == ASSUME PageInv, NEW c \in PgClient, PutsMeta(c) PROVE PageInv'
<1>1. PICK r, ps : r = pgJob[c].resp /\ ps = pgJob[c].pages
  OBVIOUS
<1>2. /\ pages' = pages /\ pgLimit' = pgLimit /\ sweeping' = sweeping /\ deleted' = deleted
      /\ pgClock' = pgClock /\ pgCalls' = pgCalls /\ pgJob[c].at = "meta"
      /\ meta' = [meta EXCEPT ![r] = pgClock]
  BY <1>1 DEF PutsMeta, Other
<1>3. /\ r \in Resp /\ r \in 1 .. pgCalls /\ meta[r] = 0 /\ r \notin deleted
      /\ pages[r] = ps /\ Len(ps) \in Nat \ {0} /\ pgClock \in Nat \ {0} /\ pgCalls \in Nat
  <2>1. PageOK(c) /\ pgCalls \in 0 .. MaxPgCalls /\ MaxPgCalls \in Nat /\ pgClock \in Nat \ {0}
    BY PagesAssumption DEF PageInv
  <2>2. r \in 1 .. pgCalls /\ meta[r] = 0 /\ r \notin deleted
    BY <1>1, <1>2, <2>1 DEF PageOK
  <2>3. pages[r] = ps /\ Len(ps) \in Nat \ {0}
    BY <1>1, <1>2, <2>1 DEF PageOK
  <2> QED BY <2>1, <2>2, <2>3 DEF Resp
<1>4. PICK x : /\ PgGoes(c, x) /\ x.at = (IF Len(ps) = 1 THEN "read" ELSE "more")
               /\ x.resp = r /\ x.page = 1 /\ x.born = pgClock
               /\ {"at", "resp", "page", "born"} \subseteq DOMAIN x
  <2> DEFINE x == [at |-> IF Len(ps) = 1 THEN "read" ELSE "more", resp |-> r,
                   x |-> pgJob[c].x, page |-> 1, got |-> ps[1], born |-> pgClock]
  <2>1. PgGoes(c, x)
    BY <1>1 DEF PutsMeta
  <2>2. /\ x.at = (IF Len(ps) = 1 THEN "read" ELSE "more")
        /\ x.resp = r /\ x.page = 1 /\ x.born = pgClock
        /\ {"at", "resp", "page", "born"} \subseteq DOMAIN x
    OBVIOUS
  <2> HIDE DEF x
  <2> QED BY <2>1, <2>2
<1>5. pgJob'[c] = x
  BY <1>4, JobIs
<1>6. meta' \in [Resp -> Nat] /\ meta'[r] = pgClock /\ \A q \in Resp : q # r => meta'[q] = meta[q]
  BY <1>2, <1>3 DEF PageInv
<1>7. PageOK(c)'
  <2>1. CASE Len(ps) = 1
    BY <1>4, <1>5, <2>1 DEF PageOK
  <2>2. CASE Len(ps) # 1
    <3>a. pages'[r] = ps
      BY <1>2, <1>3
    <3>d. PICK size : size = Len(ps)
      OBVIOUS
    <3>e. size \in Nat \ {0} /\ size # 1
      BY <1>3, <2>2, <3>d
    <3>f. Len(pages'[r]) = size /\ size \in Nat /\ 1 < size
      BY <3>a, <3>d, <3>e
    <3>b. pgClock # 0 /\ meta'[r] = pgClock
      BY <1>6 DEF PageInv
    <3>c. pgJob'[c].page = 1 /\ pgJob'[c].resp = r /\ pgJob'[c].born = pgClock
      BY <1>4, <1>5
    <3>1. Fetching(c)'
      BY <3>f, <3>b, <3>c DEF Fetching
    <3> QED BY <1>3, <1>4, <1>5, <2>2, <3>1 DEF PageOK
  <2> QED BY <2>1, <2>2
<1>8. \A d \in PgClient \ {c} : pgJob'[d] = pgJob[d] /\ Storing(d)' = Storing(d)
  BY <1>4 DEF PageInv, PgGoes, Storing
<1>9. ASSUME NEW d \in PgClient \ {c} PROVE PageOK(d)'
  <2>1. PageOK(d) /\ (Storing(d) => pgJob[d].resp # r)
    BY <1>1, <1>2 DEF PageInv, Storing
  <2>2. Storing(d) => /\ pages'[pgJob[d].resp] = pages[pgJob[d].resp]
                      /\ meta'[pgJob[d].resp] = 0 /\ pgJob[d].resp \notin deleted'
    <3> SUFFICES ASSUME Storing(d) PROVE meta'[pgJob[d].resp] = 0 /\ pgJob[d].resp \notin deleted
      BY <1>2
    <3>1. pgJob[d].resp \in 1 .. pgCalls /\ meta[pgJob[d].resp] = 0 /\ pgJob[d].resp \notin deleted
      BY <2>1 DEF PageOK, Storing
    <3>2. pgJob[d].resp \in Resp
      BY <3>1, PagesAssumption DEF PageInv, Resp
    <3> QED BY <1>6, <2>1, <3>1, <3>2
  <2>3. pgJob[d].at = "more" =>
           \/ /\ pages'[pgJob[d].resp] = pages[pgJob[d].resp]
              /\ meta'[pgJob[d].resp] = meta[pgJob[d].resp]
           \/ Excused(pgJob[d].resp, pgJob[d].born)
    BY <1>2, <1>3, <1>6, <2>1 DEF PageOK, Fetching
  <2> QED BY <1>2, <1>3, <1>8, <2>2, <2>3, PageStays
<1>10. \A d \in PgClient : Storing(d)' => Storing(d) /\ pgJob'[d].resp = pgJob[d].resp
  BY <1>4, <1>5, <1>8 DEF Storing
<1>11. \A q \in sweeping.left \cup {sweeping.half} : q # 0 => Aged(q)'
  <2> SUFFICES ASSUME NEW q \in sweeping.left \cup {sweeping.half}, q # 0 PROVE Aged(q)'
    OBVIOUS
  <2>1. Aged(q) /\ q \in Resp
    BY DEF PageInv
  <2> QED BY <1>2, <1>3, <1>6, <2>1 DEF Aged
<1>12. pgJob' = [d \in PgClient |-> pgJob'[d]]
  BY <1>4 DEF PageInv, PgGoes
<1>13. \A q \in Resp : q > pgCalls => meta'[q] = 0 /\ q \notin deleted'
  BY <1>2, <1>3, <1>6 DEF PageInv
<1> QED BY <1>2, <1>3, <1>6, <1>7, <1>9, <1>10, <1>11, <1>12, <1>13, PageStep DEF PageInv

\* Steps of a client between the pages, and its answers.
LEMMA FetchPages ==
    ASSUME PageInv, NEW c \in PgClient, GetPage(c) \/ Leaves(c) \/ SetPageLimit(c)
    PROVE  PageInv'
<1>1. CASE SetPageLimit(c)
  <2>1. /\ pages' = pages /\ meta' = meta /\ pgLimit' \in PgLimits /\ pgJob' = pgJob
        /\ sweeping' = sweeping /\ deleted' = deleted /\ pgClock' = pgClock /\ pgCalls' = pgCalls
    BY <1>1 DEF SetPageLimit, Other
  <2>2. PgGoes(c, pgJob[c])
    BY <2>1 DEF PgGoes, PageInv
  <2>3. PageOK(c)'
    BY <2>1 DEF PageInv, PageOK, Excused, Fetching
  <2> QED BY <2>1, <2>2, <2>3, PageOwn DEF Storing
<1>2. CASE Leaves(c)
  <2>1. /\ pages' = pages /\ meta' = meta /\ pgLimit' = pgLimit /\ PgGoes(c, PgIdle)
        /\ sweeping' = sweeping /\ deleted' = deleted /\ pgClock' = pgClock /\ pgCalls' = pgCalls
    BY <1>2 DEF Leaves, PgStored, Other
  <2>2. pgJob'[c].at = "idle"
    BY <2>1, JobIs DEF PgIdle
  <2> QED BY <2>1, <2>2, PageOwn DEF Storing, PageOK, PageInv
<1>3. CASE GetPage(c)
  <2>1. /\ pages' = pages /\ meta' = meta /\ pgLimit' = pgLimit /\ pgJob[c].at = "more"
        /\ sweeping' = sweeping /\ deleted' = deleted /\ pgClock' = pgClock /\ pgCalls' = pgCalls
        /\ pgLimit' \in PgLimits
    BY <1>3 DEF GetPage, PgStored, Other, PageInv
  <2>a. PICK r \in Resp, born \in Nat : r = pgJob[c].resp /\ born = pgJob[c].born
    BY <2>1 DEF PageInv, PageOK
  <2>b. PICK n : n = pgJob[c].page
    OBVIOUS
  <2>2. /\ r = pgJob[c].resp /\ n = pgJob[c].page /\ born = pgJob[c].born /\ r \in Resp
        /\ {"at", "resp", "page", "born"} \subseteq DOMAIN pgJob[c]
        /\ Excused(r, born) \/ Fetching(c)
    BY <2>1, <2>a, <2>b DEF PageInv, PageOK
  <2>3. CASE pages[r] = Gone \/ n + 1 > Len(pages[r])
    <3>1. PgGoes(c, [at |-> "refused", resp |-> r, born |-> born])
      BY <1>3, <2>2, <2>3 DEF GetPage
    <3>2. pgJob'[c].at = "refused" /\ pgJob'[c].resp = r /\ pgJob'[c].born = born
      BY <3>1, JobIs
    <3>3. ~Fetching(c)
      BY <2>2, <2>3 DEF Fetching, Gone
    <3>4. Excused(r, born)'
      BY <2>1, <2>2, <3>3 DEF Excused
    <3>5. PageOK(c)'
      BY <2>2, <3>2, <3>4 DEF PageOK
    <3> QED BY <2>1, <3>1, <3>2, <3>5, PageOwn DEF Storing
  <2>4. CASE ~(pages[r] = Gone \/ n + 1 > Len(pages[r]))
    <3> DEFINE at == IF n + 1 = Len(pages[r]) THEN "read" ELSE "more"
               x == [pgJob[c] EXCEPT !.at = at, !.page = n + 1,
                                     !.got = @ \o pages[r][n + 1]]
    <3>1. PgGoes(c, x)
      BY <1>3, <2>2, <2>4 DEF GetPage
    <3>2. /\ x.at = at /\ x.resp = r /\ x.page = n + 1 /\ x.born = born
          /\ {"at", "resp", "page", "born"} \subseteq DOMAIN x
      BY <2>2
    <3> HIDE DEF x
    <3>3. /\ pgJob'[c].at = at /\ pgJob'[c].resp = r /\ pgJob'[c].page = n + 1
          /\ pgJob'[c].born = born /\ {"at", "resp", "page", "born"} \subseteq DOMAIN pgJob'[c]
      BY <3>1, <3>2, JobIs
    <3>4. at = "more" => Excused(r, born)' \/ Fetching(c)'
      <4>1. CASE Excused(r, born)
        BY <2>1, <4>1 DEF Excused
      <4>2. CASE Fetching(c)
        BY <2>1, <2>2, <2>4, <3>3, <4>2 DEF Fetching
      <4> QED BY <2>2, <4>1, <4>2
    <3>5. PageOK(c)'
      BY <2>2, <3>3, <3>4 DEF PageOK
    <3> QED BY <2>1, <3>1, <3>3, <3>5, PageOwn DEF Storing
  <2> QED BY <2>3, <2>4
<1> QED BY <1>1, <1>2, <1>3

LEMMA FailsPages == ASSUME PageInv, NEW c \in PgClient, CallFails(c) PROVE PageInv'
<1>1. /\ pages' = pages /\ meta' = meta /\ pgLimit' = pgLimit /\ PgGoes(c, PgIdle)
      /\ sweeping' = sweeping /\ deleted' = deleted /\ pgClock' = pgClock /\ pgCalls' = pgCalls
  BY DEF CallFails, PgStored
<1>2. pgJob'[c].at = "idle"
  BY <1>1, JobIs DEF PgIdle
<1> QED BY <1>1, <1>2, PageOwn DEF Storing, PageOK, PageInv

\* The clients hold true things when pages go that are old or were deleted.
LEMMA AgedGoes ==
    ASSUME PageInv, NEW r \in Resp, r \in deleted' \/ Aged(r), deleted \subseteq deleted',
           deleted' \subseteq deleted \cup {r}, r \in deleted' => r \in deleted \/ meta[r] # 0,
           \A q \in Resp : q # r => pages'[q] = pages[q] /\ meta'[q] = meta[q],
           pgClock' = pgClock, pgCalls' = pgCalls,
           NEW d \in PgClient, pgJob'[d] = pgJob[d]
    PROVE  PageOK(d)'
<1>1. pgClock \in Nat /\ pgCalls \in Nat /\ PageOK(d)
  BY PagesAssumption DEF PageInv
<1>2. Storing(d) => /\ pages'[pgJob[d].resp] = pages[pgJob[d].resp]
                    /\ meta'[pgJob[d].resp] = 0 /\ pgJob[d].resp \notin deleted'
  <2> SUFFICES ASSUME Storing(d)
               PROVE  /\ pages'[pgJob[d].resp] = pages[pgJob[d].resp]
                      /\ meta'[pgJob[d].resp] = 0 /\ pgJob[d].resp \notin deleted'
    OBVIOUS
  <2>1. pgJob[d].resp \in 1 .. pgCalls /\ meta[pgJob[d].resp] = 0 /\ pgJob[d].resp \notin deleted
    BY <1>1 DEF PageOK, Storing
  <2>2. pgJob[d].resp \in Resp
    BY <2>1, PagesAssumption DEF PageInv, Resp
  <2>3. pgJob[d].resp # r
    BY <2>1 DEF Aged
  <2> QED BY <2>1, <2>2, <2>3
<1>3. pgJob[d].at = "more" =>
         \/ /\ pages'[pgJob[d].resp] = pages[pgJob[d].resp]
            /\ meta'[pgJob[d].resp] = meta[pgJob[d].resp]
         \/ Excused(pgJob[d].resp, pgJob[d].born)
         \/ pgJob[d].resp \in deleted'
  <2> SUFFICES ASSUME pgJob[d].at = "more", pgJob[d].resp = r, r \notin deleted'
               PROVE  Excused(pgJob[d].resp, pgJob[d].born)
    BY <1>1 DEF PageOK
  <2>1. meta[r] # 0 /\ meta[r] + PgTtl < pgClock
    BY DEF Aged
  <2>2. Excused(pgJob[d].resp, pgJob[d].born) \/ meta[r] = pgJob[d].born
    BY <1>1 DEF PageOK, Fetching
  <2> QED BY <2>1, <2>2 DEF Excused
<1> QED BY <1>1, <1>2, <1>3, PageStays

LEMMA DeletesPages ==
    ASSUME PageInv, NEW c \in PgClient, DeleteResponse(c) \/ DeleteMeta(c) PROVE PageInv'
<1>1. CASE DeleteResponse(c)
  <2>1. PICK r \in Resp : /\ meta[r] # 0 /\ pages' = [pages EXCEPT ![r] = Gone]
                          /\ deleted' = deleted \cup {r}
                          /\ PgGoes(c, [at |-> "unmeta", resp |-> r])
    BY <1>1 DEF DeleteResponse
  <2>2. /\ meta' = meta /\ pgLimit' = pgLimit /\ sweeping' = sweeping
        /\ pgClock' = pgClock /\ pgCalls' = pgCalls
    BY <1>1 DEF DeleteResponse
  <2>3. pgJob'[c].at = "unmeta" /\ pgJob'[c].resp = r
    BY <2>1, JobIs
  <2>4. pages' = [q \in Resp |-> pages'[q]] /\ \A q \in Resp : q # r => pages'[q] = pages[q]
    BY <2>1 DEF PageInv
  <2>5. \A d \in PgClient \ {c} : pgJob'[d] = pgJob[d] /\ Storing(d)' = Storing(d)
    BY <2>1 DEF PageInv, PgGoes, Storing
  <2>6. \A d \in PgClient \ {c} : PageOK(d)'
    BY <2>1, <2>2, <2>4, <2>5, AgedGoes
  <2>7. PageOK(c)'
    BY <2>1, <2>3 DEF PageOK
  <2>8. \A q \in sweeping.left \cup {sweeping.half} : q # 0 => Aged(q)'
    BY <2>1, <2>2 DEF PageInv, Aged
  <2>9. \A q \in Resp : q > pgCalls => meta'[q] = 0 /\ q \notin deleted'
    BY <2>1, <2>2 DEF PageInv
  <2>10. pgJob' = [d \in PgClient |-> pgJob'[d]] /\ deleted' \subseteq Resp
    BY <2>1 DEF PageInv, PgGoes
  <2>11. \A d \in PgClient : Storing(d)' => Storing(d) /\ pgJob'[d].resp = pgJob[d].resp
    BY <2>3, <2>5 DEF Storing
  <2> QED BY <2>2, <2>4, <2>5, <2>6, <2>7, <2>8, <2>9, <2>10, <2>11, PageStep DEF PageInv
<1>2. CASE DeleteMeta(c)
  <2>1. PICK r : r = pgJob[c].resp
    OBVIOUS
  <2>2. r \in deleted /\ r \in Resp
    BY <1>2, <2>1 DEF DeleteMeta, PageInv, PageOK
  <2>3. /\ pages' = pages /\ pgLimit' = pgLimit /\ sweeping' = sweeping /\ deleted' = deleted
        /\ pgClock' = pgClock /\ pgCalls' = pgCalls /\ meta' = [meta EXCEPT ![r] = 0]
        /\ PgGoes(c, PgIdle)
    BY <1>2, <2>1 DEF DeleteMeta, Other
  <2>4. pgJob'[c].at = "idle"
    BY <2>3, JobIs DEF PgIdle
  <2>5. meta' \in [Resp -> Nat] /\ meta'[r] = 0 /\ \A q \in Resp : q # r => meta'[q] = meta[q]
    BY <2>2, <2>3 DEF PageInv
  <2>6. \A d \in PgClient \ {c} : pgJob'[d] = pgJob[d] /\ Storing(d)' = Storing(d)
    BY <2>3 DEF PageInv, PgGoes, Storing
  <2>7. \A d \in PgClient \ {c} : PageOK(d)'
    BY <2>2, <2>3, <2>5, <2>6, AgedGoes
  <2>8. PageOK(c)'
    BY <2>4 DEF PageOK
  <2>9. \A q \in sweeping.left \cup {sweeping.half} : q # 0 => Aged(q)'
    <3> SUFFICES ASSUME NEW q \in sweeping.left \cup {sweeping.half}, q # 0 PROVE Aged(q)'
      OBVIOUS
    <3>1. Aged(q) /\ q \in Resp
      BY DEF PageInv
    <3> QED BY <2>2, <2>3, <2>5, <3>1 DEF Aged
  <2>10. \A q \in Resp : q > pgCalls => meta'[q] = 0 /\ q \notin deleted'
    BY <2>3, <2>5 DEF PageInv
  <2>11. pgJob' = [d \in PgClient |-> pgJob'[d]]
    BY <2>3 DEF PageInv, PgGoes
  <2>12. \A d \in PgClient : Storing(d)' => Storing(d) /\ pgJob'[d].resp = pgJob[d].resp
    BY <2>4, <2>6 DEF Storing
  <2> QED BY <2>3, <2>5, <2>7, <2>8, <2>9, <2>10, <2>11, <2>12, PageStep DEF PageInv
<1> QED BY <1>1, <1>2

\* The sweep touches old or deleted responses only.
LEMMA SweepKeeps ==
    ASSUME PageInv, SweepLists \/ SweepPages \/ SweepMeta \/ SweepFails PROVE PageInv'
<1>0. /\ pgLimit' = pgLimit /\ pgJob' = pgJob /\ deleted' = deleted /\ pgClock' = pgClock
      /\ pgCalls' = pgCalls
  BY DEF SweepLists, SweepPages, SweepMeta, SweepFails, PgStored
<1>1. \A d \in PgClient : Storing(d)' => Storing(d) /\ pgJob'[d].resp = pgJob[d].resp
  BY <1>0 DEF Storing
<1>2. CASE SweepLists \/ SweepFails
  <2>1. pages' = pages /\ meta' = meta
    BY <1>2 DEF SweepLists, SweepFails, PgStored
  <2>2. \A d \in PgClient : PageOK(d)'
    BY <1>0, <2>1 DEF PageInv, PageOK, Excused, Fetching
  <2>3. /\ sweeping' = [left |-> sweeping'.left, half |-> 0] /\ sweeping'.half = 0
        /\ sweeping'.left \subseteq {r \in Resp : Sweepable(r)}
    <3>1. CASE SweepLists
      BY <3>1 DEF SweepLists
    <3>2. CASE SweepFails
      BY <3>2 DEF SweepFails, NoSweep
    <3> QED BY <1>2, <3>1, <3>2
  <2>4. 0 \notin Resp
    BY PagesAssumption DEF Resp
  <2>5. \A r \in sweeping'.left \cup {sweeping'.half} : r # 0 => Aged(r)'
    BY <1>0, <2>1, <2>3 DEF Sweepable, Expired, Aged
  <2> QED BY <1>0, <1>1, <2>1, <2>2, <2>3, <2>4, <2>5, PageStep DEF PageInv
<1>3. CASE SweepPages
  <2>1. PICK r \in sweeping.left : /\ sweeping.half = 0 /\ pages' = [pages EXCEPT ![r] = Gone]
                                   /\ sweeping' = [left |-> sweeping.left \ {r}, half |-> r]
    BY <1>3 DEF SweepPages
  <2>2. meta' = meta /\ r \in Resp /\ r # 0 /\ Aged(r)
    BY <1>3, <2>1, PagesAssumption DEF SweepPages, PageInv, Resp
  <2>3. pages' = [q \in Resp |-> pages'[q]] /\ \A q \in Resp : q # r => pages'[q] = pages[q]
    BY <2>1 DEF PageInv
  <2>4. \A d \in PgClient : PageOK(d)'
    BY <1>0, <2>2, <2>3, AgedGoes DEF Aged
  <2>5. sweeping'.left = sweeping.left \ {r} /\ sweeping'.half = r
    BY <2>1
  <2>6. \A q \in sweeping'.left \cup {sweeping'.half} : q # 0 => Aged(q)'
    BY <1>0, <2>2, <2>5 DEF PageInv, Aged
  <2> QED BY <1>0, <1>1, <2>1, <2>2, <2>3, <2>4, <2>5, <2>6, PageStep DEF PageInv
<1>4. CASE SweepMeta
  <2>1. PICK r : r = sweeping.half
    OBVIOUS
  <2>2. /\ pages' = pages /\ r # 0 /\ meta' = [meta EXCEPT ![r] = 0]
        /\ sweeping' = [sweeping EXCEPT !.half = 0]
    BY <1>4, <2>1 DEF SweepMeta
  <2>3. r \in Resp /\ Aged(r) /\ r \notin sweeping.left
    BY <2>1, <2>2 DEF PageInv
  <2>4. meta' \in [Resp -> Nat] /\ \A q \in Resp : q # r => meta'[q] = meta[q]
    BY <2>2, <2>3 DEF PageInv
  <2>5. \A d \in PgClient : PageOK(d)'
    BY <1>0, <2>2, <2>3, <2>4, AgedGoes DEF Aged
  <2>6. sweeping'.left = sweeping.left /\ sweeping'.half = 0
        /\ sweeping' = [left |-> sweeping'.left, half |-> sweeping'.half]
    <3>1. sweeping = [left |-> sweeping.left, half |-> sweeping.half]
      BY DEF PageInv
    <3> QED BY <2>2, <3>1
  <2>7. \A q \in sweeping'.left \cup {sweeping'.half} : q # 0 => Aged(q)'
    BY <1>0, <2>3, <2>4, <2>6 DEF PageInv, Aged
  <2>8. \A q \in Resp : q > pgCalls => meta'[q] = 0 /\ q \notin deleted'
    <3>1. meta'[r] = 0
      BY <2>2, <2>3 DEF PageInv
    <3> QED BY <1>0, <2>4, <3>1 DEF PageInv
  <2>9. 0 \notin sweeping.left
    BY PagesAssumption DEF PageInv, Resp
  <2> QED BY <1>0, <1>1, <2>2, <2>4, <2>5, <2>6, <2>7, <2>8, <2>9, PageStep DEF PageInv
<1> QED BY <1>2, <1>3, <1>4

LEMMA TimePages == ASSUME PageInv, PgTick \/ PgCrash PROVE PageInv'
<1>0. /\ pages' = pages /\ meta' = meta /\ pgLimit' = pgLimit /\ deleted' = deleted
      /\ pgCalls' = pgCalls
  BY DEF PgTick, PgCrash, PgStored
<1>1. pgClock \in Nat \ {0} /\ pgCalls \in Nat
  BY PagesAssumption DEF PageInv
<1>2. pgClock' \in Nat \ {0} /\ pgClock <= pgClock'
  BY <1>1 DEF PgTick, PgCrash
<1>3. /\ pgJob' = [d \in PgClient |-> pgJob'[d]]
      /\ \A d \in PgClient : pgJob'[d] = pgJob[d] \/ pgJob'[d] = PgIdle
  BY DEF PgTick, PgCrash, PageInv
<1>4. \A d \in PgClient : PageOK(d)'
  <2> SUFFICES ASSUME NEW d \in PgClient PROVE PageOK(d)'
    OBVIOUS
  <2>1. CASE pgJob'[d] = PgIdle
    BY <2>1 DEF PageOK, PgIdle
  <2>2. CASE pgJob'[d] = pgJob[d]
    <3>1. Storing(d) => meta[pgJob[d].resp] = 0 /\ pgJob[d].resp \notin deleted
      BY DEF PageInv, PageOK, Storing
    <3> QED BY <1>0, <1>1, <1>2, <2>2, <3>1, PageStays
  <2> QED BY <1>3, <2>1, <2>2
<1>5. \A d \in PgClient : Storing(d)' => Storing(d) /\ pgJob'[d].resp = pgJob[d].resp
  BY <1>3 DEF Storing, PgIdle
<1>6. \A r \in Resp : Aged(r) => Aged(r)'
  BY <1>0, <1>1, <1>2, PagesAssumption DEF Aged, PageInv
<1>7. sweeping' = sweeping \/ sweeping' = NoSweep
  BY DEF PgTick, PgCrash
<1>8. \A r \in sweeping'.left \cup {sweeping'.half} : r # 0 => Aged(r)'
  BY <1>6, <1>7 DEF PageInv, NoSweep
<1>9. /\ sweeping' = [left |-> sweeping'.left, half |-> sweeping'.half]
      /\ sweeping'.left \subseteq Resp /\ sweeping'.half \in {0} \cup Resp
      /\ sweeping'.half \notin sweeping'.left
  BY <1>7 DEF PageInv, NoSweep
<1> QED BY <1>0, <1>2, <1>3, <1>4, <1>5, <1>8, <1>9, PageStep DEF PageInv

LEMMA PageSteps == PageInv /\ [PgNext]_pgVars => PageInv'
<1> SUFFICES ASSUME PageInv, [PgNext]_pgVars PROVE PageInv'
  OBVIOUS
<1>1. CASE PgNext
  BY <1>1, ActsPages, ReadsPages, PutsThePages, PutsTheMeta, FailsPages, FetchPages,
     DeletesPages, SweepKeeps, TimePages DEF PgNext
<1>2. CASE UNCHANGED pgVars
  BY <1>2 DEF pgVars, PageInv, PageOK, Storing, Excused, Fetching, Aged
<1> QED BY <1>1, <1>2

\* For any answers, limits and numbers of clients: a page of a fresh response that
\* nobody deleted is never refused, whatever the sweep, failures and restarts do.
THEOREM FreshStayServed == PgSpec => []FreshServed
<1>1. PageInv => FreshServed
  BY DEF PageInv, PageOK, Excused, FreshServed
<1> QED BY <1>1, InitPages, PageSteps, PTL DEF PgSpec

\* What a client has got, and what there is for it to get.
Got(x) == Chain(x.got) /\ Begins(x.got[1])
GetsOn(x) ==
    /\ x = [at |-> "more", resp |-> x.resp, x |-> x.x, page |-> x.page, got |-> x.got, born |-> x.born]
    /\ pages[x.resp] # Gone =>
          /\ Whole(pages[x.resp], Len(x.x.items)) /\ x.page \in 1..Len(pages[x.resp])
          /\ Last(x.got) = Last(pages[x.resp][x.page])
Tells(x) ==
    /\ x.at \in {"limit", "put", "meta", "more", "read"} => x.x \in PgAnswers
    /\ x.at \in {"put", "meta"} =>
          /\ x = [at |-> x.at, resp |-> x.resp, x |-> x.x, pages |-> x.pages]
          /\ Whole(x.pages, Len(x.x.items))
    /\ x.at \in {"more", "read"} => Got(x)
    /\ x.at = "more" => GetsOn(x)
    /\ x.at = "read" => Ends(Last(x.got), Len(x.x.items))

Holding(x) == x.at \in {"limit", "put", "meta", "more"}
TellInv ==
    /\ \A c \in PgClient : Tells(pgJob[c])
    /\ \A c \in PgClient : Holding(pgJob[c]) => pgJob[c].resp \in 1..pgCalls
    /\ \A c, d \in PgClient : Holding(pgJob[c]) /\ Holding(pgJob[d]) /\ c # d => pgJob[c].resp # pgJob[d].resp

\* A step after which clients have what they had or nothing, and responses too.
LEMMA LessTells ==
    ASSUME TellInv, pgCalls \in 0..MaxPgCalls, pgCalls' = pgCalls,
           \A c \in PgClient : pgJob'[c] = pgJob[c] \/ pgJob'[c].at \in {"idle", "unmeta", "refused"},
           \A r \in Resp : pages'[r] = pages[r] \/ pages'[r] = Gone
    PROVE  TellInv'
<1>1. ASSUME NEW c \in PgClient PROVE (Tells(pgJob[c]))'
  <2>1. CASE pgJob'[c] = pgJob[c]
    <3>1. Holding(pgJob[c]) => pgJob[c].resp \in Resp
      BY PagesAssumption DEF TellInv, Resp
    <3>2. pgJob[c].at = "more" => GetsOn(pgJob[c]) /\ (pages'[pgJob[c].resp] \in {pages[pgJob[c].resp], Gone})
      BY <3>1 DEF TellInv, Tells, Holding
    <3>3. pgJob[c].at = "more" => (GetsOn(pgJob[c]))'
      BY <2>1, <3>2 DEF GetsOn
    <3> QED BY <2>1, <3>3 DEF TellInv, Tells, Got
  <2>2. CASE pgJob'[c].at \in {"idle", "unmeta", "refused"}
    BY <2>2 DEF Tells
  <2> QED BY <2>1, <2>2
<1>2. \A c \in PgClient : Holding(pgJob'[c]) => pgJob'[c] = pgJob[c]
  BY DEF Holding
<1> QED BY <1>1, <1>2 DEF TellInv, Holding

\* A step of a client with its own response.
LEMMA OwnTells ==
    ASSUME PageInv, TellInv, NEW c \in PgClient, NEW y, PgGoes(c, y), pages' = pages, pgCalls' = pgCalls,
           Tells(y), Holding(y) => Holding(pgJob[c]) /\ y.resp = pgJob[c].resp
    PROVE  TellInv'
<1>1. pgJob'[c] = y /\ \A d \in PgClient : d # c => pgJob'[d] = pgJob[d]
  BY DEF PageInv, PgGoes
<1>2. ASSUME NEW x, Tells(x) PROVE Tells(x)'
  BY <1>2 DEF Tells, Got, GetsOn
<1>3. ASSUME NEW d \in PgClient PROVE (Tells(pgJob[d]))'
  <2>1. Tells(pgJob'[d])
    BY <1>1 DEF TellInv
  <2>2. ASSUME NEW x, x = pgJob'[d] PROVE Tells(x)'
    BY <1>2, <2>1, <2>2
  <2> QED BY <2>2
<1>4. \A d \in PgClient : Holding(pgJob'[d]) => Holding(pgJob[d]) /\ pgJob'[d].resp = pgJob[d].resp
  BY <1>1
<1> QED BY <1>3, <1>4 DEF TellInv, Holding

LEMMA ActsTell == ASSUME PageInv, TellInv, NEW c \in PgClient, Acts(c) PROVE TellInv'
<1>1. PICK a \in PgAnswers : PgGoes(c, [at |-> "limit", resp |-> pgCalls + 1, x |-> a])
  BY DEF Acts
<1> DEFINE y == [at |-> "limit", resp |-> pgCalls + 1, x |-> a]
<1>2. pages' = pages /\ pgCalls' = pgCalls + 1 /\ pgCalls \in Nat
  BY PagesAssumption DEF Acts, PgStored, PageInv
<1>3. pgJob'[c] = y /\ \A d \in PgClient : d # c => pgJob'[d] = pgJob[d]
  BY <1>1 DEF PageInv, PgGoes
<1>4. ASSUME NEW d \in PgClient PROVE (Tells(pgJob[d]))'
  <2>1. CASE d = c
    BY <1>3, <2>1 DEF Tells
  <2>2. CASE d # c
    BY <1>2, <1>3, <2>2 DEF TellInv, Tells, Got, GetsOn
  <2> QED BY <2>1, <2>2
<1>5. \A d \in PgClient : d # c /\ Holding(pgJob[d]) => pgJob[d].resp \in 1..pgCalls
  BY DEF TellInv
<1>6. y.resp = pgCalls + 1
  OBVIOUS
<1> HIDE DEF y
<1>7. \A d \in PgClient : (Holding(pgJob[d]))' => pgJob'[d].resp \in 1..pgCalls'
  BY <1>2, <1>3, <1>5, <1>6 DEF Holding
<1>8. ASSUME NEW d \in PgClient, NEW e \in PgClient, Holding(pgJob[d])', Holding(pgJob[e])', d # e
      PROVE  pgJob'[d].resp # pgJob'[e].resp
  <2>1. CASE d # c /\ e # c
    BY <1>3, <1>8, <2>1 DEF TellInv, Holding
  <2>2. CASE d = c \/ e = c
    BY <1>2, <1>3, <1>5, <1>6, <1>8, <2>2 DEF Holding
  <2> QED BY <2>1, <2>2
<1> QED BY <1>4, <1>7, <1>8 DEF TellInv

LEMMA LimitTells == ASSUME PageInv, TellInv, NEW c \in PgClient, ReadsLimit(c) PROVE TellInv'
<1>1. PICK limit, r, x : /\ limit = (IF PgOwn[c] # 0 THEN PgOwn[c] ELSE pgLimit)
                         /\ r = pgJob[c].resp /\ x = pgJob[c].x
  OBVIOUS
<1>2. pages' = pages /\ pgCalls' = pgCalls /\ pgJob[c].at = "limit" /\ x \in PgAnswers
  BY <1>1 DEF ReadsLimit, PgStored, Other, TellInv, Tells
<1>3. limit \in Nat \ {0}
  BY <1>1, PagesAssumption DEF PageInv
<1>4. CASE Total(x) > limit /\ Paged(x, limit)
  <2> DEFINE y == [at |-> "put", resp |-> r, x |-> x, pages |-> PagesOf(x, limit)]
  <2>1. PgGoes(c, y)
    BY <1>1, <1>4 DEF ReadsLimit
  <2>2. Whole(PagesOf(x, limit), Len(x.items))
    BY <1>2, <1>3, PagesTell
  <2>3. Tells(y) /\ y.resp = r
    BY <1>2, <2>2 DEF Tells
  <2> HIDE DEF y
  <2> QED BY <1>1, <1>2, <2>1, <2>3, OwnTells DEF Holding
<1>5. CASE ~(Total(x) > limit /\ Paged(x, limit))
  <2> DEFINE y == [at |-> "read", x |-> x, got |-> WholePage(x)]
  <2>1. PgGoes(c, y)
    BY <1>1, <1>5 DEF ReadsLimit
  <2>2. Chain(WholePage(x)) /\ Begins(WholePage(x)[1]) /\ Ends(Last(WholePage(x)), Len(x.items))
    BY <1>2, WholePageTells
  <2>3. Tells(y) /\ ~Holding(y)
    BY <1>2, <2>2 DEF Tells, Got, Holding
  <2> HIDE DEF y
  <2> QED BY <1>2, <2>1, <2>3, OwnTells
<1> QED BY <1>4, <1>5

LEMMA PutsTell == ASSUME PageInv, TellInv, NEW c \in PgClient, PutsPages(c) PROVE TellInv'
<1>1. PICK r, ps, a : r = pgJob[c].resp /\ ps = pgJob[c].pages /\ a = pgJob[c].x
  OBVIOUS
<1> DEFINE y == [at |-> "meta", resp |-> r, x |-> a, pages |-> ps]
<1>2. /\ pgJob[c].at = "put" /\ Tells(pgJob[c]) /\ a \in PgAnswers /\ Whole(ps, Len(a.items))
      /\ pgJob[c] = [at |-> "put", resp |-> r, x |-> a, pages |-> ps]
  BY <1>1 DEF PutsPages, TellInv, Tells
<1>3. /\ PgGoes(c, y) /\ pages' = [pages EXCEPT ![r] = ps] /\ pgCalls' = pgCalls
  <2>1. [pgJob[c] EXCEPT !.at = "meta"] = y
    BY <1>2
  <2> HIDE DEF y
  <2> QED BY <1>1, <2>1 DEF PutsPages, Other
<1>4. pgJob'[c] = y /\ \A d \in PgClient : d # c => pgJob'[d] = pgJob[d]
  BY <1>3 DEF PageInv, PgGoes
<1>5. \A q \in Resp : q # r => pages'[q] = pages[q]
  BY <1>3 DEF PageInv
<1>6. \A d \in PgClient : Holding(pgJob[d]) => pgJob[d].resp \in Resp /\ (d # c => pgJob[d].resp # r)
  BY <1>1, <1>2, PagesAssumption, SMTT(30) DEF TellInv, PageInv, Resp, Holding
<1>7. ASSUME NEW d \in PgClient PROVE (Tells(pgJob[d]))'
  <2>1. CASE d = c
    BY <1>2, <1>4, <2>1 DEF Tells
  <2>2. CASE d # c
    <3>1. pgJob[d].at = "more" => pages'[pgJob[d].resp] = pages[pgJob[d].resp]
      BY <1>5, <1>6, <2>2 DEF Holding
    <3>2. Tells(pgJob[d]) /\ pgJob'[d] = pgJob[d]
      BY <1>4, <2>2 DEF TellInv
    <3> QED BY <3>1, <3>2 DEF Tells, Got, GetsOn
  <2> QED BY <2>1, <2>2
<1>8. y.resp = r
  OBVIOUS
<1> HIDE DEF y
<1>9. \A d \in PgClient : Holding(pgJob'[d]) => Holding(pgJob[d]) /\ pgJob'[d].resp = pgJob[d].resp
  BY <1>1, <1>2, <1>4, <1>8 DEF Holding
<1> QED BY <1>3, <1>7, <1>9 DEF TellInv, Holding

LEMMA MetaTells == ASSUME PageInv, TellInv, NEW c \in PgClient, PutsMeta(c) PROVE TellInv'
<1>1. PICK r, ps, a : r = pgJob[c].resp /\ ps = pgJob[c].pages /\ a = pgJob[c].x
  OBVIOUS
<1> DEFINE y == [at |-> IF Len(ps) = 1 THEN "read" ELSE "more", resp |-> r, x |-> a,
                 page |-> 1, got |-> ps[1], born |-> pgClock]
<1>2. /\ pgJob[c].at = "meta" /\ a \in PgAnswers /\ Whole(ps, Len(a.items)) /\ pages[r] = ps
      /\ PgGoes(c, y) /\ pages' = pages /\ pgCalls' = pgCalls
  BY <1>1 DEF PutsMeta, TellInv, Tells, PageInv, PageOK, Other
<1>3. Chain(ps[1]) /\ Begins(ps[1][1]) /\ Len(ps) \in Nat \ {0} /\ Ends(Last(ps[Len(ps)]), Len(a.items))
  BY <1>2 DEF Whole
<1>4. Tells(y)
  <2>1. CASE Len(ps) = 1
    <3>1. y.at = "read" /\ y.x = a /\ y.got = ps[1]
      BY <2>1
    <3> HIDE DEF y
    <3> QED BY <1>2, <1>3, <2>1, <3>1 DEF Tells, Got
  <2>2. CASE Len(ps) # 1
    <3>1. /\ y.at = "more" /\ y.x = a /\ y.got = ps[1] /\ y.page = 1 /\ y.resp = r
          /\ y = [at |-> "more", resp |-> y.resp, x |-> y.x, page |-> y.page, got |-> y.got, born |-> y.born]
      BY <2>2
    <3>2. 1 \in 1..Len(ps)
      BY <1>3
    <3> HIDE DEF y
    <3>3. GetsOn(y)
      BY <1>2, <3>1, <3>2 DEF GetsOn
    <3> QED BY <1>2, <1>3, <3>1, <3>3 DEF Tells, Got
  <2> QED BY <2>1, <2>2
<1>5. y.resp = r
  OBVIOUS
<1> HIDE DEF y
<1> QED BY <1>1, <1>2, <1>4, <1>5, OwnTells DEF Holding

\* The page after the one read last goes on where that one ended.
LEMMA TurnsPage ==
    ASSUME NEW P, NEW n, Whole(P, n), NEW k \in 1..Len(P), ~(k + 1 > Len(P)),
           NEW g, Chain(g), Last(g) = Last(P[k])
    PROVE  /\ k + 1 \in 1..Len(P)
           /\ Chain(g \o P[k + 1]) /\ (g \o P[k + 1])[1] = g[1] /\ Last(g \o P[k + 1]) = Last(P[k + 1])
<1> DEFINE T == Seq(Piece)
<1>1. P \in Seq(T)
  BY DEF Whole
<1> HIDE DEF T
<1>2. Len(P) \in Nat
  BY <1>1
<1>3. k \in 1..Len(P) - 1 /\ k + 1 \in 1..Len(P)
  BY <1>2
<1>4. Chain(P[k + 1]) /\ Continues(Last(P[k]), P[k + 1][1])
  BY <1>3 DEF Whole
<1> DEFINE h == P[k + 1]
<1>5. Chain(h) /\ Continues(Last(g), h[1])
  BY <1>4
<1> HIDE DEF h
<1>6. Chain(g \o h) /\ (g \o h)[1] = g[1] /\ Last(g \o h) = Last(h)
  BY <1>5, ChainsMeet
<1> QED BY <1>3, <1>6 DEF h

LEMMA GetsTell == ASSUME PageInv, TellInv, NEW c \in PgClient, GetPage(c) PROVE TellInv'
<1> DEFINE j == pgJob[c]
           P == pages[j.resp]
           end == j.page + 1
           y == [j EXCEPT !.at = IF end = Len(P) THEN "read" ELSE "more", !.page = @ + 1, !.got = @ \o P[end]]
<1>1. /\ j.at = "more" /\ j.x \in PgAnswers /\ Got(j) /\ GetsOn(j)
      /\ pages' = pages /\ pgCalls' = pgCalls
  BY DEF GetPage, TellInv, Tells, PgStored, Other
<1>2. CASE P = Gone \/ end > Len(P)
  <2> DEFINE z == [at |-> "refused", resp |-> j.resp, born |-> j.born]
  <2>1. PgGoes(c, z)
    BY <1>2 DEF GetPage
  <2>2. Tells(z) /\ ~Holding(z)
    BY DEF Tells, Holding
  <2> HIDE DEF z
  <2> QED BY <1>1, <2>1, <2>2, OwnTells
<1>3. CASE ~(P = Gone \/ end > Len(P))
  <2>1. PgGoes(c, y)
    BY <1>3 DEF GetPage
  <2>2. Whole(P, Len(j.x.items)) /\ j.page \in 1..Len(P) /\ Last(j.got) = Last(P[j.page])
    BY <1>1, <1>3 DEF GetsOn
  <2>3. /\ end \in 1..Len(P)
        /\ Chain(j.got \o P[end]) /\ (j.got \o P[end])[1] = j.got[1] /\ Last(j.got \o P[end]) = Last(P[end])
    <3> HIDE DEF j, P, y
    <3> QED BY <1>1, <1>3, <2>2, TurnsPage, ZenonT(40) DEF Got
  <2>4. j = [at |-> "more", resp |-> j.resp, x |-> j.x, page |-> j.page, got |-> j.got, born |-> j.born]
    BY <1>1 DEF GetsOn
  <2>6. y = [at |-> IF end = Len(P) THEN "read" ELSE "more", resp |-> j.resp, x |-> j.x, page |-> end,
             got |-> j.got \o P[end], born |-> j.born]
    <3> DEFINE t == IF end = Len(P) THEN "read" ELSE "more"
               h == P[end]
               z == [at |-> t, resp |-> j.resp, x |-> j.x, page |-> end, got |-> j.got \o h, born |-> j.born]
               D == {"at", "resp", "x", "page", "got", "born"}
    <3> HIDE DEF j, t, h
    <3>1. y = [j EXCEPT !.at = t, !.page = @ + 1, !.got = @ \o h]
      BY DEF t, h
    <3>2. DOMAIN y = D
      BY <2>4
    <3>3. y.at = t /\ y.resp = j.resp /\ y.x = j.x /\ y.page = end /\ y.got = j.got \o h /\ y.born = j.born
      BY <2>4, <3>1
    <3>4. z.at = t /\ z.resp = j.resp /\ z.x = j.x /\ z.page = end /\ z.got = j.got \o h /\ z.born = j.born
      OBVIOUS
    <3>5. z = [k \in D |-> z[k]]
      OBVIOUS
    <3>6. y = [k \in D |-> y[k]]
      BY <3>2
    <3> HIDE DEF y, z
    <3>7. \A k \in D : y[k] = z[k]
      BY <3>3, <3>4
    <3>8. y = z
      BY <3>5, <3>6, <3>7
    <3> QED BY <3>8 DEF z, t, h
  <2>7. y.resp = j.resp /\ y.x = j.x /\ y.page = end /\ y.got = j.got \o P[end] /\ y.born = j.born
        /\ y.at = IF end = Len(P) THEN "read" ELSE "more"
    BY <2>6
  <2> HIDE DEF y, end, j, P
  <2>8. Got(y)
    BY <1>1, <2>3, <2>7 DEF Got
  <2>9. CASE end = Len(P)
    <3>1. Ends(Last(y.got), Len(y.x.items))
      BY <2>2, <2>3, <2>7, <2>9 DEF Whole
    <3>2. Tells(y) /\ ~Holding(y)
      BY <1>1, <2>7, <2>8, <2>9, <3>1 DEF Tells, Holding
    <3> QED BY <1>1, <2>1, <3>2, OwnTells
  <2>10. CASE end # Len(P)
    <3>1. GetsOn(y)
      <4>1. y = [at |-> "more", resp |-> y.resp, x |-> y.x, page |-> y.page, got |-> y.got, born |-> y.born]
        BY <2>6, <2>7, <2>10
      <4>2. pages[y.resp] = P
        BY <2>7 DEF P
      <4> QED BY <2>2, <2>3, <2>7, <4>1, <4>2 DEF GetsOn
    <3>2. Tells(y)
      BY <1>1, <2>7, <2>8, <2>10, <3>1 DEF Tells
    <3>3. Holding(j)
      BY <1>1 DEF Holding
    <3> QED BY <1>1, <2>1, <2>7, <3>2, <3>3, OwnTells DEF j
  <2> QED BY <2>9, <2>10
<1> QED BY <1>2, <1>3

LEMMA TellSteps == PageInv /\ TellInv /\ [PgNext]_pgVars => TellInv'
<1> SUFFICES ASSUME PageInv, TellInv, [PgNext]_pgVars PROVE TellInv'
  OBVIOUS
<1>0. pgCalls \in 0..MaxPgCalls /\ pages = [r \in Resp |-> pages[r]] /\ pgJob = [c \in PgClient |-> pgJob[c]]
  BY DEF PageInv
<1>1. ASSUME NEW c \in PgClient, Acts(c) \/ ReadsLimit(c) \/ PutsPages(c) \/ PutsMeta(c) \/ GetPage(c)
      PROVE TellInv'
  BY <1>1, ActsTell, LimitTells, PutsTell, MetaTells, GetsTell
<1>2. ASSUME NEW c \in PgClient, CallFails(c) \/ Leaves(c) \/ DeleteMeta(c) PROVE TellInv'
  <2>1. pages' = pages /\ pgCalls' = pgCalls /\ pgJob' = [pgJob EXCEPT ![c] = PgIdle]
    BY <1>2 DEF CallFails, Leaves, DeleteMeta, PgGoes, PgStored, Other
  <2>2. \A d \in PgClient : pgJob'[d] = pgJob[d] \/ pgJob'[d].at = "idle"
    BY <1>0, <2>1 DEF PgIdle
  <2> QED BY <1>0, <2>1, <2>2, LessTells
<1>3. ASSUME NEW c \in PgClient, DeleteResponse(c) PROVE TellInv'
  <2>1. PICK r \in Resp : /\ pages' = [pages EXCEPT ![r] = Gone] /\ pgCalls' = pgCalls
                          /\ pgJob' = [pgJob EXCEPT ![c] = [at |-> "unmeta", resp |-> r]]
    BY <1>3 DEF DeleteResponse, PgGoes
  <2>2. \A d \in PgClient : pgJob'[d] = pgJob[d] \/ pgJob'[d].at = "unmeta"
    BY <1>0, <2>1
  <2>3. \A q \in Resp : pages'[q] = pages[q] \/ pages'[q] = Gone
    BY <1>0, <2>1
  <2> QED BY <1>0, <2>1, <2>2, <2>3, LessTells
<1>4. ASSUME NEW c \in PgClient, SetPageLimit(c) PROVE TellInv'
  BY <1>0, <1>4, LessTells DEF SetPageLimit, Other
<1>5. CASE SweepLists \/ SweepMeta \/ SweepFails \/ PgTick \/ UNCHANGED pgVars
  BY <1>0, <1>5, LessTells DEF SweepLists, SweepMeta, SweepFails, PgTick, PgStored, pgVars
<1>6. CASE SweepPages
  <2>1. PICK r : pages' = [pages EXCEPT ![r] = Gone] /\ pgCalls' = pgCalls /\ pgJob' = pgJob
    BY <1>6 DEF SweepPages
  <2>2. \A q \in Resp : pages'[q] = pages[q] \/ pages'[q] = Gone
    BY <1>0, <2>1
  <2> QED BY <1>0, <2>1, <2>2, LessTells
<1>7. CASE PgCrash
  <2>1. \A c \in PgClient : pgJob'[c] = pgJob[c] \/ pgJob'[c].at = "idle"
    BY <1>7 DEF PgCrash, PgIdle
  <2> QED BY <1>0, <1>7, <2>1, LessTells DEF PgCrash, PgStored
<1> QED BY <1>1, <1>2, <1>3, <1>4, <1>5, <1>6, <1>7 DEF PgNext

LEMMA ToldWhole == TellInv => AnswerWhole
<1> SUFFICES ASSUME TellInv, NEW c \in PgClient, pgJob[c].at = "read"
             PROVE  LET got == pgJob[c].got x == pgJob[c].x IN
                    /\ \A k \in 1..Len(x.items) : \E q \in 1..Len(got) : got[q].item = k /\ got[q].part = got[q].of
                    /\ Begins(got[1])
                    /\ \A q \in 1..Len(got) - 1 : Continues(got[q], got[q + 1])
  BY DEF AnswerWhole, Begins, Continues
<1> DEFINE got == pgJob[c].got
           x == pgJob[c].x
<1>1. x \in PgAnswers /\ Chain(got) /\ Begins(got[1]) /\ Ends(Last(got), Len(x.items))
  BY DEF TellInv, Tells, Got
<1>2. Len(x.items) \in Nat
  BY <1>1, PagesAssumption
<1>3. \A k \in 1..Len(x.items) : \E q \in 1..Len(got) : got[q].item = k /\ got[q].part = got[q].of
  BY <1>1, <1>2, ChainTells
<1> QED BY <1>1, <1>3 DEF Chain

\* What pagination.rs cuts an answer into, and get_page serves page by page while others
\* change the limit, delete and sweep, adds up to the whole answer once the client is
\* told of the end: for any answers, limits and clients.
THEOREM AnswersStayWhole == PgSpec => []AnswerWhole
<1>1. PgInit => TellInv
  BY DEF PgInit, TellInv, Tells, Holding, PgIdle
<1>2. PgSpec => [](PageInv /\ TellInv)
  BY <1>1, InitPages, PageSteps, TellSteps, PTL DEF PgSpec
<1> QED BY <1>2, ToldWhole, PTL

----------------------------------------------------------------------------
(* Search: hits are there, and are there for words *)

\* What a search and an embedding read of a document.
SrCopy == [id : SrId, doc : SrDoc]
SrReading == [at : {"read"}, id : SrId]
SrEmbedding == [at : {"embed", "drop", "insert"}, todo : SUBSET SrCopy, now : SrCopy \cup {NoSrDoc}]
SrSearch ==
    [ at : {"flag", "embed", "drop", "insert", "public", "private", "narrow", "fetch", "words", "answered"},
      todo : SUBSET (SrId \cup SrCopy), best : [SrId -> 0..10], found : SUBSET SrCopy, hits : SUBSET SrCopy,
      now : SrCopy \cup {NoSrDoc} ]

\* What a search may answer with.
Finds(k) == {x \in SrCopy : x.doc \in srSince[k][x.id] /\ SrVisible(k, x.doc) /\ (x.doc.dead => srSetting.mongo)}

\* A document with the words, all the time.
HasWords(k, i) ==
    /\ srDocs[i] # NoSrDoc /\ ~srDocs[i].dead
    /\ SrVisible(k, srDocs[i]) /\ SrWords[srDocs[i].content] > 0
Enough(k) == Cardinality(SrId) <= 6 * SrLimit /\ \E i \in SrId : srSince[k][i] = {srDocs[i]} /\ HasWords(k, i)

SinceOK(k) ==
    \A i \in SrId : /\ srDocs[i] \in srSince[k][i]
                    /\ \A d \in srSince[k][i] : d # NoSrDoc => d.at <= srPuts

\* What the job of a search is like.
Sound(k, x) ==
    /\ x \in SrSearch
    /\ x.at \in {"embed", "drop", "insert"} => x.todo \subseteq SrCopy
    /\ x.at = "insert" => x.now \in SrCopy
    /\ x.at \in {"flag", "public"} => x.todo = {}
    /\ x.at \in {"private", "narrow", "fetch"} => x.todo \subseteq SrId
    /\ IsFiniteSet(x.found) /\ x.found \subseteq Finds(k) /\ x.hits \subseteq Finds(k)
    /\ x.at = "answered" => (Enough(k) => x.hits # {})
SearchOK(k) == SinceOK(k) /\ Sound(k, srJob[k])

FitsJob(k, x) ==
    \/ x = SrIdle
    \/ x \in SrReading
    \/ x \in SrEmbedding /\ (x.at = "insert" => x.now \in SrCopy)
    \/ SinceOK(k) /\ Sound(k, x)

SrVector == [content : SrContent, owner : SrOwner, stale : BOOLEAN]

SrInv ==
    /\ srSetting \in SrSettings /\ srPuts \in Nat
    /\ srDocs \in [SrId -> SrDoc \cup {NoSrDoc}]
    /\ \A i \in SrId : srDocs[i] # NoSrDoc => srDocs[i].at <= srPuts
    /\ srVectors \in [SrId -> SUBSET SrVector]
    /\ srJob = [k \in SrClient |-> srJob[k]]
    /\ srSince \in [SrClient -> [SrId -> SUBSET (SrDoc \cup {NoSrDoc})]]
    /\ \A k \in SrClient : FitsJob(k, srJob[k])

----------------------------------------------------------------------------
\* The largest of some numbers below a bound.
LEMMA MaxOf ==
    ASSUME NEW N \in Nat, NEW S \in SUBSET (0..N), S # {}
    PROVE  Max(S) \in S /\ \A y \in S : Max(S) >= y
<1> DEFINE T == {N - x : x \in S}
<1>0. \A x \in S : N - x \in Nat
  OBVIOUS
<1>1. T \in SUBSET Nat /\ T # {}
  BY <1>0
<1>2. PICK n \in T : \A m \in T : n <= m
  BY <1>1, Least
<1>3. PICK x \in S : n = N - x
  BY <1>2
<1>4. \A y \in S : x >= y
  BY <1>2, <1>3
<1> QED BY <1>4 DEF Max

LEMMA Share ==
    ASSUME NEW m \in 1..10, NEW w \in 0..10
    PROVE  (30 * w) \div m \in 0..300 /\ (30 * m) \div m = 30
<1>1. CASE m = 1 BY <1>1
<1>2. CASE m = 2 BY <1>2
<1>3. CASE m = 3 BY <1>3
<1>4. CASE m = 4 BY <1>4
<1>5. CASE m = 5 BY <1>5
<1>6. CASE m = 6 BY <1>6
<1>7. CASE m = 7 BY <1>7
<1>8. CASE m = 8 BY <1>8
<1>9. CASE m = 9 BY <1>9
<1>10. CASE m = 10 BY <1>10
<1> QED BY <1>1, <1>2, <1>3, <1>4, <1>5, <1>6, <1>7, <1>8, <1>9, <1>10

\* The best of what there is are some, and all if they fit.
LEMMA BestsAre ==
    ASSUME NEW S, IsFiniteSet(S), NEW m \in Nat, NEW T \in SUBSET S,
           Cardinality(T) = IF Cardinality(S) < m THEN Cardinality(S) ELSE m
    PROVE  /\ Cardinality(S) <= m => T = S
           /\ S # {} /\ m > 0 => T # {}
<1>1. Cardinality(S) \in Nat /\ IsFiniteSet(T) /\ Cardinality(T) \in Nat
  BY FS_CardinalityType, FS_Subset
<1>2. ASSUME Cardinality(S) <= m PROVE T = S
  BY <1>1, <1>2, FS_Subset
<1>3. ASSUME S # {}, m > 0 PROVE T # {}
  BY <1>1, <1>3, FS_EmptySet
<1> QED BY <1>2, <1>3

LEMMA SettingTyped ==
    ASSUME SrInv
    PROVE  /\ srSetting.seat \in [SrClient -> SrSeat \cup {SrNobody}]
           /\ \A k \in SrClient : srSince[k] \in [SrId -> SUBSET (SrDoc \cup {NoSrDoc})]
  BY SearchAssumption DEF SrInv

Seen(k) == {i \in SrId : srDocs[i] # NoSrDoc /\ ~srDocs[i].dead /\ SrVisible(k, srDocs[i])}

LEMMA TextHitsAre ==
    ASSUME SrInv, NEW k \in SrClient, NEW W \in TextHits(k)
    PROVE  /\ W \subseteq {i \in Seen(k) : Words(i) > 0}
           /\ Cardinality(SrId) <= 6 * SrLimit /\ (\E i \in Seen(k) : Words(i) > 0) => W # {}
<1> DEFINE Age(i) == srDocs[i].at
           With(T) == {i \in T : Words(i) > 0}
<1>1. PICK T \in Bests(Seen(k), 6 * SrLimit, Age) : W \in Bests(With(T), 2 * SrLimit, Words)
  BY DEF TextHits, Seen
<1>2. /\ T \in SUBSET Seen(k)
      /\ Cardinality(T) = IF Cardinality(Seen(k)) < 6 * SrLimit THEN Cardinality(Seen(k)) ELSE 6 * SrLimit
  BY <1>1 DEF Bests, kSubset
<1>3. /\ W \in SUBSET With(T)
      /\ Cardinality(W) = IF Cardinality(With(T)) < 2 * SrLimit THEN Cardinality(With(T)) ELSE 2 * SrLimit
  BY <1>1 DEF Bests, kSubset
<1>4. Seen(k) \subseteq SrId /\ IsFiniteSet(SrId) /\ SrLimit \in Nat \ {0}
  BY SearchAssumption DEF Seen
<1>5. IsFiniteSet(Seen(k)) /\ IsFiniteSet(T) /\ With(T) \subseteq T /\ IsFiniteSet(With(T))
  BY <1>2, <1>4, FS_Subset
<1>6. ASSUME Cardinality(SrId) <= 6 * SrLimit, NEW i \in Seen(k), Words(i) > 0 PROVE W # {}
  <2>1. Cardinality(Seen(k)) <= 6 * SrLimit
    BY <1>4, <1>6, FS_Subset, FS_CardinalityType
  <2>2. T = Seen(k)
    BY <1>2, <1>4, <1>5, <2>1, BestsAre
  <2>3. With(T) # {}
    BY <1>6, <2>2
  <2> HIDE DEF With
  <2> QED BY <1>3, <1>4, <1>5, <2>3, BestsAre
<1> QED BY <1>2, <1>3, <1>6

\* The scores of what is found, and who has the best words.
LEMMA ScoresAre ==
    ASSUME SrInv, NEW k \in SrClient, SearchOK(k), NEW W \in TextHits(k)
    PROVE  /\ \A x \in Merged(k, W) : Score(k, W, x) \in 0..370
           /\ W # {} => \E x \in Merged(k, W) : Score(k, W, x) >= 30
<1> DEFINE job == srJob[k]
           N == {1} \cup {Words(i) : i \in W}
           mx == Max(N)
           Near(x) == IF x \in job.found THEN 7 * job.best[x.id] ELSE 0
           Word(x) == IF x.id \in W THEN (30 * Words(x.id)) \div mx ELSE 0
<1>1. /\ job.best \in [SrId -> 0..10] /\ job.found \in SUBSET SrCopy
  BY DEF SearchOK, Sound, SrSearch
<1>2. \A i \in W : i \in SrId /\ srDocs[i] \in SrDoc /\ Words(i) \in 1..10
  <2>1. \A i \in W : i \in SrId /\ srDocs[i] \in SrDoc /\ Words(i) > 0
    BY TextHitsAre DEF Seen, SrInv
  <2>2. \A d \in SrDoc : SrWords[d.content] \in 0..10
    BY SearchAssumption DEF SrDoc
  <2> QED BY <2>1, <2>2 DEF Words
<1>3. N \in SUBSET (0..10) /\ N # {}
  BY <1>2
<1>4. mx \in N /\ \A y \in N : mx >= y
  BY <1>3, MaxOf
<1>5. mx \in 1..10
  BY <1>2, <1>4
<1>6. \A x : Near(x) \in 0..70
  BY <1>1 DEF SrCopy
<1>7. \A x : Word(x) \in 0..300
  <2> SUFFICES ASSUME NEW x, x.id \in W PROVE (30 * Words(x.id)) \div mx \in 0..300
    OBVIOUS
  <2> QED BY <1>2, <1>5, Share
<1>8. \A x : Score(k, W, x) = Near(x) + Word(x)
  BY DEF Score
<1>9. \A x : Score(k, W, x) \in 0..370
  <2> HIDE DEF Near, Word
  <2> QED BY <1>6, <1>7, <1>8, SMTT(30)
<1>10. ASSUME W # {} PROVE \E x \in Merged(k, W) : Score(k, W, x) >= 30
  <2>1. PICK j \in W : Words(j) = mx
    <3>1. PICK j \in W : TRUE
      BY <1>10
    <3>2. CASE \E i \in W : Words(i) = mx
      BY <3>2
    <3>3. CASE ~ \E i \in W : Words(i) = mx
      <4>1. mx = 1
        BY <1>4, <3>3
      <4>2. Words(j) \in N /\ Words(j) \in 1..10
        BY <1>2
      <4> HIDE DEF mx, N
      <4>3. mx >= Words(j)
        BY <1>4, <4>2
      <4> DEFINE v == Words(j)
      <4> HIDE DEF v
      <4>4. v \in 1..10 /\ mx >= v /\ mx = 1
        BY <4>1, <4>2, <4>3 DEF v
      <4>5. v = 1
        BY <4>4
      <4> QED BY <3>1, <4>1, <4>5 DEF v
    <3> QED BY <3>2, <3>3
  <2>2. PICK x \in Merged(k, W) : x.id = j
    <3>1. CASE \E x \in job.found : x.id = j
      BY <3>1 DEF Merged
    <3>2. CASE \A x \in job.found : x.id # j
      <4>1. [id |-> j, doc |-> srDocs[j]] \in Merged(k, W)
        BY <3>2 DEF Merged
      <4> QED BY <4>1
    <3> QED BY <3>1, <3>2
  <2>3. Word(x) = 30
    <3>1. (30 * mx) \div mx = 30
      BY <1>5, Share
    <3> HIDE DEF mx
    <3> QED BY <2>1, <2>2, <3>1
  <2> HIDE DEF Near, Word
  <2> QED BY <1>6, <1>7, <1>8, <2>3
<1> QED BY <1>9, <1>10

\* What ranking answers with.
LEMMA RanksWell ==
    ASSUME SrInv, NEW k \in SrClient, SearchOK(k), NEW W \in TextHits(k), NEW H \in SUBSET Relevant(k, W),
           Cardinality(H) = IF Cardinality(Relevant(k, W)) < SrLimit THEN Cardinality(Relevant(k, W)) ELSE SrLimit
    PROVE  H \subseteq Finds(k) /\ (Enough(k) => H # {})
<1> DEFINE M == Merged(k, W)
           R == Relevant(k, W)
           job == srJob[k]
<1>1. /\ job \in SrSearch /\ SinceOK(k) /\ job.found \subseteq Finds(k) /\ IsFiniteSet(job.found)
      /\ srDocs \in [SrId -> SrDoc \cup {NoSrDoc}]
  BY DEF SearchOK, Sound, SrInv
<1>2. \A i \in W : i \in Seen(k) /\ Words(i) > 0
  BY TextHitsAre
<1>3. \A i \in Seen(k) : i \in SrId /\ [id |-> i, doc |-> srDocs[i]] \in Finds(k)
  <2> SUFFICES ASSUME NEW i \in Seen(k) PROVE i \in SrId /\ [id |-> i, doc |-> srDocs[i]] \in Finds(k)
    OBVIOUS
  <2>1. i \in SrId /\ srDocs[i] \in SrDoc /\ ~srDocs[i].dead /\ SrVisible(k, srDocs[i])
    BY <1>1 DEF Seen
  <2>2. srDocs[i] \in srSince[k][i]
    BY <1>1, <2>1 DEF SinceOK
  <2> QED BY <2>1, <2>2 DEF Finds, SrCopy
<1>4. M \subseteq Finds(k)
  BY <1>1, <1>2, <1>3 DEF Merged
<1>5. R \subseteq M
  BY DEF Relevant
<1>6. IsFiniteSet(R)
  <2> DEFINE J == {j \in W : \A x \in job.found : x.id # j}
             D == {[id |-> i, doc |-> srDocs[i]] : i \in J}
  <2>1. J \subseteq SrId /\ IsFiniteSet(SrId)
    BY <1>2, <1>3, SearchAssumption
  <2>2. IsFiniteSet(J)
    BY <2>1, FS_Subset
  <2>3. IsFiniteSet(D)
    <3> DEFINE f == [i \in J |-> [id |-> i, doc |-> srDocs[i]]]
    <3>1. f \in Surjection(J, D)
      BY DEF Surjection
    <3> HIDE DEF J, D, f
    <3> QED BY <2>2, <3>1, FS_Surjection
  <2>4. M = job.found \cup D
    BY DEF Merged
  <2> HIDE DEF D, M, R
  <2>5. IsFiniteSet(M)
    BY <1>1, <2>3, <2>4, FS_Union
  <2> QED BY <1>5, <2>5, FS_Subset
<1>7. ASSUME Enough(k) PROVE H # {}
  <2>1. W # {}
    <3>1. PICK i \in SrId : HasWords(k, i)
      BY <1>7 DEF Enough
    <3>2. i \in Seen(k) /\ Words(i) > 0
      BY <3>1 DEF HasWords, Seen, Words
    <3> QED BY <1>7, <3>2, TextHitsAre DEF Enough
  <2> DEFINE S == {0} \cup {Score(k, W, x) : x \in M}
             top == Max(S)
  <2>2. S \in SUBSET (0..370) /\ S # {}
    BY ScoresAre
  <2>3. top \in S /\ \A y \in S : top >= y
    <3> HIDE DEF S
    <3>1. 370 \in Nat
      OBVIOUS
    <3> QED BY <2>2, <3>1, MaxOf
  <2>4. PICK x \in M : Score(k, W, x) >= 30
    BY <2>1, ScoresAre
  <2>5. Score(k, W, x) \in S
    OBVIOUS
  <2>6. top \in 0..370 /\ top >= 30
    <3> HIDE DEF S, top
    <3>1. Score(k, W, x) \in 0..370
      BY ScoresAre
    <3> QED BY <2>2, <2>3, <2>4, <2>5, <3>1
  <2>7. PICK y \in M : Score(k, W, y) = top
    <3>1. top \in S /\ top # 0
      <4> HIDE DEF S, top
      <4> QED BY <2>3, <2>6
    <3> HIDE DEF top
    <3> QED BY <3>1
  <2>8. y \in R
    <3>1. ~(top < 20) /\ 100 * Score(k, W, y) >= 60 * top
      <4> HIDE DEF top
      <4> QED BY <2>6, <2>7
    <3> QED BY <2>7, <3>1 DEF Relevant
  <2>9. Cardinality(R) \in Nat /\ Cardinality(R) # 0
    BY <1>6, <2>8, FS_EmptySet, FS_CardinalityType
  <2>10. Cardinality(H) # 0
    BY <2>9, SearchAssumption
  <2> QED BY <2>10, FS_EmptySet
<1> QED BY <1>4, <1>5, <1>7

----------------------------------------------------------------------------
\* Steps that change a job and no document.
LEMMA JobGoes ==
    ASSUME SrInv, NEW k \in SrClient, NEW x, SrGoes(k, x), FitsJob(k, x),
           srSetting' = srSetting, srDocs' = srDocs, srSince' = srSince,
           srPuts' \in Nat, srPuts <= srPuts', srVectors' \in [SrId -> SUBSET SrVector]
    PROVE  SrInv'
<1>1. \A i \in SrId : srDocs'[i] # NoSrDoc => srDocs'[i].at <= srPuts'
  <2>1. \A i \in SrId : srDocs[i] # NoSrDoc => srDocs[i].at \in Nat /\ srDocs[i].at <= srPuts
    BY DEF SrInv, SrDoc
  <2> QED BY <2>1 DEF SrInv
<1>2. ASSUME NEW d \in SrClient, NEW y, FitsJob(d, y) PROVE FitsJob(d, y)'
  <2>1. Finds(d)' = Finds(d)
    BY DEF Finds, SrVisible, SrSeatOf
  <2>2. Enough(d)' = Enough(d)
    BY DEF Enough, HasWords, SrVisible, SrSeatOf
  <2>3. SinceOK(d) => SinceOK(d)'
    <3> SUFFICES ASSUME SinceOK(d), NEW i \in SrId, NEW e \in srSince[d][i], e # NoSrDoc PROVE e.at <= srPuts'
      BY DEF SinceOK
    <3>1. e \in SrDoc
      BY SettingTyped
    <3> QED BY <3>1 DEF SinceOK, SrDoc, SrInv
  <2>4. Sound(d, y) => Sound(d, y)'
    BY <2>1, <2>2 DEF Sound
  <2> QED BY <1>2, <2>3, <2>4 DEF FitsJob
<1>3. \A d \in SrClient : FitsJob(d, srJob'[d])
  BY DEF SrGoes, SrInv
<1>4. srJob' = [d \in SrClient |-> srJob'[d]]
  BY DEF SrGoes, SrInv
<1> QED BY <1>1, <1>2, <1>3, <1>4 DEF SrInv

\* Which jobs are searches.
LEMMA JobKinds ==
    ASSUME SrInv, NEW k \in SrClient
    PROVE  /\ Searching(k) => SearchOK(k)
           /\ ~Searching(k) => ~SearchOK(k) /\ FitsJob(k, srJob[k])
           /\ srJob[k].at \in {"flag", "public", "private", "narrow", "fetch", "words", "answered"} => SearchOK(k)
<1>1. FitsJob(k, srJob[k])
  BY DEF SrInv
<1>2. \A x \in SrSearch : "hits" \in DOMAIN x
  BY DEF SrSearch
<1>3. ASSUME srJob[k] = SrIdle PROVE "hits" \notin DOMAIN srJob[k] /\ srJob[k].at = "idle"
  BY <1>3 DEF SrIdle
<1>4. \A x \in SrReading : "hits" \notin DOMAIN x /\ x.at = "read"
  BY DEF SrReading
<1>5. \A x \in SrEmbedding : "hits" \notin DOMAIN x /\ x.at \in {"embed", "drop", "insert"}
  BY DEF SrEmbedding
<1> QED BY <1>1, <1>2, <1>3, <1>4, <1>5 DEF FitsJob, SearchOK, Sound, Searching

LEMMA AfterFits ==
    ASSUME SrInv, NEW k \in SrClient PROVE FitsJob(k, After(k))
<1>1. CASE Searching(k)
  <2> DEFINE x == [srJob[k] EXCEPT !.at = "public", !.todo = {}]
  <2>1. SinceOK(k) /\ Sound(k, srJob[k])
    BY <1>1, JobKinds DEF SearchOK
  <2>2. x \in SrSearch /\ x.at = "public" /\ x.todo = {} /\ x.found = srJob[k].found /\ x.hits = srJob[k].hits
    BY <2>1 DEF Sound, SrSearch
  <2> HIDE DEF x
  <2>3. Sound(k, x)
    BY <2>1, <2>2 DEF Sound
  <2>4. After(k) = x
    BY <1>1 DEF After, x
  <2> QED BY <2>1, <2>3, <2>4 DEF FitsJob
<1>2. CASE ~Searching(k)
  BY <1>2 DEF After, FitsJob
<1> QED BY <1>1, <1>2

LEMMA EmbedsKeep == ASSUME SrInv, NEW k \in SrClient, Embeds(k) PROVE SrInv'
<1> DEFINE x == [srJob[k] EXCEPT !.at = "drop"]
<1>1. FitsJob(k, srJob[k]) /\ srJob[k].at = "embed"
  BY DEF SrInv, Embeds
<1>2. FitsJob(k, x)
  <2>1. CASE Searching(k)
    <3>1. SinceOK(k) /\ Sound(k, srJob[k])
      BY <2>1, JobKinds DEF SearchOK
    <3>2. x \in SrSearch /\ x.at = "drop" /\ x.todo = srJob[k].todo /\ x.found = srJob[k].found /\ x.hits = srJob[k].hits
      BY <3>1 DEF Sound, SrSearch
    <3> HIDE DEF x
    <3>3. Sound(k, x)
      BY <1>1, <3>1, <3>2 DEF Sound
    <3> QED BY <3>1, <3>3 DEF FitsJob
  <2>2. CASE ~Searching(k)
    <3>1. srJob[k] \in SrEmbedding
      BY <1>1, <2>2, JobKinds DEF FitsJob, SearchOK, SrIdle, SrReading
    <3>2. x \in SrEmbedding /\ x.at = "drop"
      BY <3>1 DEF SrEmbedding
    <3> QED BY <3>2 DEF FitsJob
  <2> QED BY <2>1, <2>2
<1> HIDE DEF x
<1>3. SrGoes(k, x) \/ SrGoes(k, After(k))
  BY DEF Embeds, SrAt, x
<1>4. srPuts \in Nat /\ srVectors \in [SrId -> SUBSET SrVector]
  BY DEF SrInv
<1>5. /\ srSetting' = srSetting /\ srDocs' = srDocs /\ srSince' = srSince
      /\ srPuts' = srPuts /\ srVectors' = srVectors
  BY DEF Embeds
<1> QED BY <1>2, <1>3, <1>4, <1>5, AfterFits, JobGoes

\* A job that is not a search.
LEMMA NoSearch ==
    ASSUME SrInv, NEW k \in SrClient, ~Searching(k)
    PROVE  /\ srJob[k].at = "read" => srJob[k] \in SrReading
           /\ srJob[k].at \in {"embed", "drop", "insert"} =>
                 srJob[k] \in SrEmbedding /\ (srJob[k].at = "insert" => srJob[k].now \in SrCopy)
<1>1. FitsJob(k, srJob[k]) /\ ~SearchOK(k)
  BY JobKinds
<1> QED BY <1>1 DEF FitsJob, SearchOK, SrIdle, SrReading, SrEmbedding

LEMMA Reads == ASSUME SrInv, NEW k \in SrClient, SrRead(k) PROVE SrInv'
<1> DEFINE i == srJob[k].id
           x == [at |-> "embed", todo |-> {[id |-> i, doc |-> srDocs[i]]}, now |-> NoSrDoc]
<1>1. ~Searching(k)
  BY JobKinds DEF SrRead, SearchOK, Sound, SrSearch
<1>2. srJob[k] \in SrReading
  BY <1>1, NoSearch DEF SrRead
<1>3. ASSUME SrGot(i) PROVE FitsJob(k, x)
  <2>1. i \in SrId /\ srDocs[i] \in SrDoc
    BY <1>2, <1>3 DEF SrReading, SrGot, SrInv
  <2>2. x \in SrEmbedding /\ x.at = "embed"
    BY <2>1 DEF SrEmbedding, SrCopy
  <2> QED BY <2>2 DEF FitsJob
<1>4. FitsJob(k, SrIdle)
  BY DEF FitsJob
<1>5. SrGoes(k, SrIdle) \/ (SrGot(i) /\ SrGoes(k, x))
  BY DEF SrRead
<1>6. /\ srPuts \in Nat /\ srVectors \in [SrId -> SUBSET SrVector]
      /\ srSetting' = srSetting /\ srDocs' = srDocs /\ srSince' = srSince
      /\ srPuts' = srPuts /\ srVectors' = srVectors
  BY DEF SrRead, SrInv
<1> HIDE DEF i, x
<1> QED BY <1>3, <1>4, <1>5, <1>6, JobGoes

LEMMA Reindexes ==
    ASSUME SrInv, NEW k \in SrClient, NEW owners, Reindex(k, owners) PROVE SrInv'
<1> DEFINE J == {j \in SrId : srDocs[j] # NoSrDoc /\ ~srDocs[j].dead /\ srDocs[j].owner \in owners}
           x == [at |-> "embed", todo |-> {[id |-> i, doc |-> srDocs[i]] : i \in J}, now |-> NoSrDoc]
<1>1. \A i \in J : i \in SrId /\ srDocs[i] \in SrDoc
  BY DEF SrInv
<1>2. x \in SrEmbedding /\ x.at = "embed"
  <2>1. {[id |-> i, doc |-> srDocs[i]] : i \in J} \subseteq SrCopy
    BY <1>1 DEF SrCopy
  <2> HIDE DEF J
  <2> QED BY <2>1 DEF SrEmbedding
<1>3. SrGoes(k, x)
  BY DEF Reindex
<1>4. FitsJob(k, x)
  BY <1>2 DEF FitsJob
<1>5. /\ srPuts \in Nat /\ srVectors \in [SrId -> SUBSET SrVector]
      /\ srSetting' = srSetting /\ srDocs' = srDocs /\ srSince' = srSince
      /\ srPuts' = srPuts + 1 /\ srVectors' = srVectors
  BY DEF Reindex, SrInv
<1> HIDE DEF x
<1> QED BY <1>3, <1>4, <1>5, JobGoes

LEMMA DropsKeep ==
    ASSUME SrInv, NEW k \in SrClient, NEW c \in srJob[k].todo, Drops(k, c) PROVE SrInv'
<1> DEFINE x == [srJob[k] EXCEPT !.at = "insert", !.todo = @ \ {c}, !.now = c]
<1>1. FitsJob(k, x)
  <2>1. CASE Searching(k)
    <3>1. SinceOK(k) /\ Sound(k, srJob[k]) /\ srJob[k].at = "drop"
      BY <2>1, JobKinds DEF SearchOK, Drops
    <3>2. c \in SrCopy /\ srJob[k].todo \subseteq SrCopy
      BY <3>1 DEF Sound
    <3>3. /\ x \in SrSearch /\ x.at = "insert" /\ x.todo \subseteq SrCopy /\ x.now \in SrCopy
          /\ x.found = srJob[k].found /\ x.hits = srJob[k].hits
      BY <3>1, <3>2 DEF Sound, SrSearch
    <3> HIDE DEF x
    <3>4. Sound(k, x)
      BY <3>1, <3>3 DEF Sound
    <3> QED BY <3>1, <3>4 DEF FitsJob
  <2>2. CASE ~Searching(k)
    <3>1. srJob[k] \in SrEmbedding
      BY <2>2, NoSearch DEF Drops
    <3>2. x \in SrEmbedding /\ x.now \in SrCopy
      BY <3>1 DEF SrEmbedding
    <3> QED BY <3>2 DEF FitsJob
  <2> QED BY <2>1, <2>2
<1>2. srVectors' \in [SrId -> SUBSET SrVector] /\ srPuts \in Nat
  BY DEF Drops, SrInv
<1>3. /\ srSetting' = srSetting /\ srDocs' = srDocs /\ srSince' = srSince /\ srPuts' = srPuts
      /\ SrGoes(k, x)
  BY DEF Drops
<1> HIDE DEF x
<1> QED BY <1>1, <1>2, <1>3, JobGoes

LEMMA InsertsKeep == ASSUME SrInv, NEW k \in SrClient, Inserts(k) PROVE SrInv'
<1> DEFINE x == [srJob[k] EXCEPT !.at = "drop"]
<1>1. FitsJob(k, x) /\ srJob[k].now \in SrCopy
  <2>1. CASE Searching(k)
    <3>1. SinceOK(k) /\ Sound(k, srJob[k]) /\ srJob[k].at = "insert"
      BY <2>1, JobKinds DEF SearchOK, Inserts
    <3>2. /\ x \in SrSearch /\ x.at = "drop" /\ x.todo \subseteq SrCopy /\ x.now \in SrCopy
          /\ x.found = srJob[k].found /\ x.hits = srJob[k].hits /\ srJob[k].now \in SrCopy
      BY <3>1 DEF Sound, SrSearch
    <3> HIDE DEF x
    <3>3. Sound(k, x)
      BY <3>1, <3>2 DEF Sound
    <3> QED BY <3>1, <3>2, <3>3 DEF FitsJob
  <2>2. CASE ~Searching(k)
    <3>1. srJob[k] \in SrEmbedding /\ srJob[k].now \in SrCopy
      BY <2>2, NoSearch DEF Inserts
    <3>2. x \in SrEmbedding /\ x.at = "drop"
      BY <3>1 DEF SrEmbedding
    <3> QED BY <3>1, <3>2 DEF FitsJob
  <2> QED BY <2>1, <2>2
<1>2. srVectors' \in [SrId -> SUBSET SrVector] /\ srPuts \in Nat
  <2> DEFINE v == [content |-> srJob[k].now.doc.content, owner |-> srJob[k].now.doc.owner, stale |-> FALSE]
  <2>1. v \in SrVector
    BY <1>1 DEF SrCopy, SrDoc, SrVector
  <2>2. srVectors' = [srVectors EXCEPT ![srJob[k].now.id] = @ \cup {v}]
    BY DEF Inserts
  <2> HIDE DEF v
  <2> QED BY <2>1, <2>2 DEF SrInv
<1>3. /\ srSetting' = srSetting /\ srDocs' = srDocs /\ srSince' = srSince /\ srPuts' = srPuts
      /\ SrGoes(k, x) \/ SrGoes(k, After(k))
  BY DEF Inserts, SrAt
<1> HIDE DEF x
<1> QED BY <1>1, <1>2, <1>3, AfterFits, JobGoes

LEMMA StaleKeeps == ASSUME SrInv, NEW k \in SrClient, RefreshStale(k) PROVE SrInv'
<1> DEFINE stale == {i \in SrId : /\ SrGot(i)
                                  /\ \E r \in srVectors[i] :
                                       r.stale /\ r.owner \in ScopeOf(k, "public") \cup ScopeOf(k, "private")}
           todo == {[id |-> i, doc |-> srDocs[i]] : i \in stale}
           x == [srJob[k] EXCEPT !.at = "public"]
           y == [srJob[k] EXCEPT !.at = "embed", !.todo = todo]
<1>1. SinceOK(k) /\ Sound(k, srJob[k]) /\ srJob[k].at = "flag"
  BY JobKinds DEF SearchOK, RefreshStale
<1>2. \A i \in stale : i \in SrId /\ srDocs[i] \in SrDoc
  BY DEF SrInv, SrGot
<1>3. todo \subseteq SrCopy
  <2> HIDE DEF stale
  <2> QED BY <1>2 DEF SrCopy
<1>4. SrGoes(k, x) \/ SrGoes(k, y)
  BY DEF RefreshStale
<1> HIDE DEF todo
<1>5. x \in SrSearch /\ x.at = "public" /\ x.todo = {} /\ x.found = srJob[k].found /\ x.hits = srJob[k].hits
  BY <1>1 DEF Sound, SrSearch
<1>6. y \in SrSearch /\ y.at = "embed" /\ y.todo = todo /\ y.found = srJob[k].found /\ y.hits = srJob[k].hits
  BY <1>1, <1>3 DEF Sound, SrSearch
<1>7. /\ srSetting' = srSetting /\ srDocs' = srDocs /\ srSince' = srSince /\ srPuts' = srPuts
      /\ srVectors' = srVectors /\ srPuts \in Nat /\ srVectors \in [SrId -> SUBSET SrVector]
  BY DEF RefreshStale, SrInv
<1> HIDE DEF x, y
<1>8. Sound(k, x) /\ Sound(k, y)
  BY <1>1, <1>3, <1>5, <1>6 DEF Sound
<1> QED BY <1>1, <1>4, <1>7, <1>8, JobGoes DEF FitsJob

LEMMA ScoresKeep ==
    ASSUME SrInv, NEW k \in SrClient, NEW scope \in {"public", "private"}, NEW next \in {"private", "narrow"},
           Scores(k, scope, next)
    PROVE  SrInv'
<1> DEFINE Found(i) == {Similarity(r) : r \in {v \in Comparable(i) : v.owner \in ScopeOf(k, scope)}}
           best == [i \in SrId |-> Max({srJob[k].best[i]} \cup Found(i))]
           ids == {i \in SrId : Found(i) # {}}
           x == [srJob[k] EXCEPT !.at = next, !.best = best, !.todo = @ \cup ids]
<1>1. SinceOK(k) /\ Sound(k, srJob[k]) /\ srJob[k].at = scope
  BY JobKinds DEF SearchOK, Scores
<1>2. \A i \in SrId : Found(i) \in SUBSET (0..10)
  <2>1. \A i \in SrId : \A v \in Comparable(i) : v \in SrVector
    BY DEF SrInv, Comparable
  <2>2. \A v \in SrVector : Similarity(v) \in 0..10
    BY SearchAssumption DEF SrVector, Similarity
  <2> QED BY <2>1, <2>2
<1>3. best \in [SrId -> 0..10]
  <2> SUFFICES ASSUME NEW i \in SrId PROVE Max({srJob[k].best[i]} \cup Found(i)) \in 0..10
    OBVIOUS
  <2> DEFINE S == {srJob[k].best[i]} \cup Found(i)
  <2>1. srJob[k].best[i] \in 0..10
    BY <1>1 DEF Sound, SrSearch
  <2>2. S \in SUBSET (0..10) /\ S # {}
    BY <1>2, <2>1
  <2> HIDE DEF S
  <2>3. Max(S) \in S
    BY <2>2, MaxOf
  <2> QED BY <2>2, <2>3 DEF S
<1>4. SrGoes(k, x)
  BY DEF Scores
<1>5. ids \subseteq SrId
  OBVIOUS
<1>6. /\ srSetting' = srSetting /\ srDocs' = srDocs /\ srSince' = srSince /\ srPuts' = srPuts
      /\ srVectors' = srVectors /\ srPuts \in Nat /\ srVectors \in [SrId -> SUBSET SrVector]
  BY DEF Scores, SrInv
<1> HIDE DEF best, ids
<1>7. srJob[k].todo \subseteq SrId
  BY <1>1 DEF Sound
<1>8. /\ x \in SrSearch /\ x.at = next /\ x.todo \subseteq SrId
      /\ x.found = srJob[k].found /\ x.hits = srJob[k].hits
  BY <1>1, <1>3, <1>5, <1>7 DEF Sound, SrSearch
<1> HIDE DEF x
<1>9. Sound(k, x)
  BY <1>1, <1>8 DEF Sound
<1> QED BY <1>1, <1>4, <1>6, <1>9, JobGoes DEF FitsJob

LEMMA NarrowsKeep == ASSUME SrInv, NEW k \in SrClient, Narrows(k) PROVE SrInv'
<1> DEFINE Closest(i) == srJob[k].best[i]
<1>1. PICK T \in Bests(srJob[k].todo, 2 * SrLimit, Closest) :
          SrGoes(k, [srJob[k] EXCEPT !.at = "fetch", !.todo = T])
  BY DEF Narrows
<1> DEFINE x == [srJob[k] EXCEPT !.at = "fetch", !.todo = T]
<1>2. SinceOK(k) /\ Sound(k, srJob[k]) /\ srJob[k].at = "narrow"
  BY JobKinds DEF SearchOK, Narrows
<1>3. T \subseteq srJob[k].todo /\ srJob[k].todo \subseteq SrId
  BY <1>1, <1>2 DEF Bests, kSubset, Sound
<1>4. /\ x \in SrSearch /\ x.at = "fetch" /\ x.todo \subseteq SrId
      /\ x.found = srJob[k].found /\ x.hits = srJob[k].hits
  BY <1>2, <1>3 DEF Sound, SrSearch
<1>5. /\ srSetting' = srSetting /\ srDocs' = srDocs /\ srSince' = srSince /\ srPuts' = srPuts
      /\ srVectors' = srVectors /\ srPuts \in Nat /\ srVectors \in [SrId -> SUBSET SrVector]
  BY DEF Narrows, SrInv
<1> HIDE DEF x
<1>6. Sound(k, x)
  BY <1>2, <1>4 DEF Sound
<1>7. SrGoes(k, x)
  BY <1>1 DEF x
<1> QED BY <1>2, <1>5, <1>6, <1>7, JobGoes DEF FitsJob

\* A document that can be got and matches the filter is one that may be found.
LEMMA GotIsFound ==
    ASSUME SrInv, NEW k \in SrClient, SinceOK(k), NEW i \in SrId, SrGot(i), filter_matches_doc(k, srDocs[i])
    PROVE  [id |-> i, doc |-> srDocs[i]] \in Finds(k)
<1>1. srDocs[i] \in SrDoc /\ srDocs[i] \in srSince[k][i]
  BY DEF SrInv, SrGot, SinceOK
<1> QED BY <1>1 DEF Finds, SrCopy, SrGot, filter_matches_doc

LEMMA FetchesKeep == ASSUME SrInv, NEW k \in SrClient, Fetches(k) PROVE SrInv'
<1>1. SinceOK(k) /\ Sound(k, srJob[k]) /\ srJob[k].at = "fetch" /\ srJob[k].todo \subseteq SrId
  BY JobKinds DEF SearchOK, Fetches, Sound
<1>2. /\ srSetting' = srSetting /\ srDocs' = srDocs /\ srSince' = srSince /\ srPuts' = srPuts
      /\ srVectors' = srVectors /\ srPuts \in Nat /\ srVectors \in [SrId -> SUBSET SrVector]
  BY DEF Fetches, SrInv
<1>3. ASSUME NEW i \in srJob[k].todo,
             SrGoes(k, [srJob[k] EXCEPT !.todo = @ \ {i},
                   !.found = IF SrGot(i) /\ filter_matches_doc(k, srDocs[i])
                             THEN @ \cup {[id |-> i, doc |-> srDocs[i]]} ELSE @])
      PROVE SrInv'
  <2> DEFINE found == IF SrGot(i) /\ filter_matches_doc(k, srDocs[i])
                      THEN srJob[k].found \cup {[id |-> i, doc |-> srDocs[i]]} ELSE srJob[k].found
             x == [srJob[k] EXCEPT !.todo = @ \ {i}, !.found = found]
  <2>1. IsFiniteSet(found) /\ found \subseteq Finds(k)
    <3>1. IsFiniteSet(srJob[k].found) /\ srJob[k].found \subseteq Finds(k)
      BY <1>1 DEF Sound
    <3>2. CASE SrGot(i) /\ filter_matches_doc(k, srDocs[i])
      <4>1. [id |-> i, doc |-> srDocs[i]] \in Finds(k)
        BY <1>1, <3>2, GotIsFound
      <4>2. IsFiniteSet(srJob[k].found \cup {[id |-> i, doc |-> srDocs[i]]})
        BY <3>1, FS_AddElement
      <4> QED BY <3>1, <3>2, <4>1, <4>2
    <3>3. CASE ~(SrGot(i) /\ filter_matches_doc(k, srDocs[i]))
      BY <3>1, <3>3
    <3> QED BY <3>2, <3>3
  <2>2. SrGoes(k, x)
    BY <1>1, <1>3 DEF SrGoes, Sound, SrSearch
  <2> HIDE DEF found
  <2>3. found \subseteq SrCopy
    BY <2>1 DEF Finds
  <2>4. /\ x \in SrSearch /\ x.at = "fetch" /\ x.todo \subseteq SrId
        /\ x.found = found /\ x.hits = srJob[k].hits
    BY <1>1, <2>3 DEF Sound, SrSearch
  <2> HIDE DEF x
  <2>5. Sound(k, x)
    BY <1>1, <2>1, <2>4 DEF Sound
  <2> QED BY <1>1, <1>2, <2>2, <2>5, JobGoes DEF FitsJob
<1>4. ASSUME SrAt(k, "words") PROVE SrInv'
  <2> DEFINE x == [srJob[k] EXCEPT !.at = "words"]
  <2>1. x \in SrSearch /\ x.at = "words" /\ x.found = srJob[k].found /\ x.hits = srJob[k].hits
    BY <1>1 DEF Sound, SrSearch
  <2>2. SrGoes(k, x)
    BY <1>4 DEF SrAt
  <2> HIDE DEF x
  <2>3. Sound(k, x)
    BY <1>1, <2>1 DEF Sound
  <2> QED BY <1>1, <1>2, <2>2, <2>3, JobGoes DEF FitsJob
<1>5. ASSUME SrGoes(k, [srJob[k] EXCEPT !.at = "words", !.found = {}]) PROVE SrInv'
  <2> DEFINE x == [srJob[k] EXCEPT !.at = "words", !.found = {}]
  <2>1. x \in SrSearch /\ x.at = "words" /\ x.found = {} /\ x.hits = srJob[k].hits
    BY <1>1 DEF Sound, SrSearch
  <2>2. SrGoes(k, x)
    BY <1>5
  <2> HIDE DEF x
  <2>3. Sound(k, x)
    BY <1>1, <2>1, FS_EmptySet DEF Sound
  <2> QED BY <1>1, <1>2, <2>2, <2>3, JobGoes DEF FitsJob
<1> QED BY <1>3, <1>4, <1>5 DEF Fetches

LEMMA RanksKeep == ASSUME SrInv, NEW k \in SrClient, Ranks(k) PROVE SrInv'
<1>1. PICK W \in TextHits(k) :
          \E H \in SUBSET Relevant(k, W) :
             /\ Cardinality(H) = IF Cardinality(Relevant(k, W)) < SrLimit THEN Cardinality(Relevant(k, W)) ELSE SrLimit
             /\ SrGoes(k, [srJob[k] EXCEPT !.at = "answered", !.hits = H])
  BY DEF Ranks, Bests, kSubset
<1>2. PICK H \in SUBSET Relevant(k, W) :
          /\ Cardinality(H) = IF Cardinality(Relevant(k, W)) < SrLimit THEN Cardinality(Relevant(k, W)) ELSE SrLimit
          /\ SrGoes(k, [srJob[k] EXCEPT !.at = "answered", !.hits = H])
  BY <1>1
<1> DEFINE x == [srJob[k] EXCEPT !.at = "answered", !.hits = H]
<1>3. SearchOK(k) /\ SinceOK(k) /\ Sound(k, srJob[k])
  BY JobKinds DEF SearchOK, Ranks
<1>4. H \subseteq Finds(k) /\ (Enough(k) => H # {})
  BY <1>2, <1>3, RanksWell
<1>5. x \in SrSearch /\ x.at = "answered" /\ x.found = srJob[k].found /\ x.hits = H
  BY <1>3, <1>4 DEF Sound, SrSearch, Finds
<1>6. /\ srSetting' = srSetting /\ srDocs' = srDocs /\ srSince' = srSince /\ srPuts' = srPuts
      /\ srVectors' = srVectors /\ srPuts \in Nat /\ srVectors \in [SrId -> SUBSET SrVector]
  BY DEF Ranks, SrInv
<1> HIDE DEF x
<1>7. Sound(k, x)
  BY <1>3, <1>4, <1>5 DEF Sound
<1>8. SrGoes(k, x)
  BY <1>2 DEF x
<1> QED BY <1>3, <1>6, <1>7, <1>8, JobGoes DEF FitsJob

----------------------------------------------------------------------------
\* Steps that change what the documents have been.
LEMMA Steady ==
    ASSUME SrInv, NEW d \in SrClient, NEW y, FitsJob(d, y),
           srSetting' = srSetting, srDocs' = srDocs, srSince'[d] = srSince[d], srPuts' = srPuts
    PROVE  FitsJob(d, y)'
<1>1. Finds(d)' = Finds(d) /\ Enough(d)' = Enough(d) /\ SinceOK(d)' = SinceOK(d)
  BY DEF Finds, SrVisible, SrSeatOf, Enough, HasWords, SinceOK
<1> QED BY <1>1 DEF FitsJob, Sound

LEMMA DoneKeeps == ASSUME SrInv, NEW k \in SrClient, SrDone(k) PROVE SrInv'
<1>1. /\ srSetting' = srSetting /\ srDocs' = srDocs /\ srPuts' = srPuts /\ srVectors' = srVectors
      /\ srSince' = [srSince EXCEPT ![k] = [i \in SrId |-> {}]]
      /\ srJob' = [srJob EXCEPT ![k] = SrIdle]
  BY DEF SrDone, SrGoes
<1>2. \A d \in SrClient : FitsJob(d, srJob[d]) /\ srSince \in [SrClient -> [SrId -> SUBSET (SrDoc \cup {NoSrDoc})]]
  BY DEF SrInv
<1>3. ASSUME NEW d \in SrClient, d # k, NEW y, y = srJob[d] PROVE FitsJob(d, y)'
  BY <1>1, <1>2, <1>3, Steady
<1>4. FitsJob(k, SrIdle)'
  BY DEF FitsJob
<1>5. \A d \in SrClient : (FitsJob(d, srJob[d]))'
  <2> SUFFICES ASSUME NEW d \in SrClient PROVE (FitsJob(d, srJob[d]))'
    OBVIOUS
  <2>1. srJob'[d] = IF d = k THEN SrIdle ELSE srJob[d]
    BY <1>1 DEF SrInv
  <2> QED BY <1>3, <1>4, <2>1
<1>6. srJob' = [d \in SrClient |-> srJob'[d]]
  BY <1>1 DEF SrInv
<1> QED BY <1>1, <1>2, <1>5, <1>6 DEF SrInv

LEMMA BeginKeeps == ASSUME SrInv, NEW k \in SrClient, SrBegin(k) PROVE SrInv'
<1> DEFINE job == [at |-> "flag", todo |-> {}, best |-> [i \in SrId |-> 0], found |-> {}, hits |-> {},
                   now |-> NoSrDoc]
           now == [i \in SrId |-> {srDocs[i]}]
<1>1. /\ srSetting' = srSetting /\ srDocs' = srDocs /\ srPuts' = srPuts /\ srVectors' = srVectors
      /\ srSince' = [srSince EXCEPT ![k] = now]
      /\ srJob' = [srJob EXCEPT ![k] = job] \/ srJob' = [srJob EXCEPT ![k] = [job EXCEPT !.at = "words"]]
  BY DEF SrBegin, SrGoes
<1>2. \A d \in SrClient : FitsJob(d, srJob[d]) /\ srSince \in [SrClient -> [SrId -> SUBSET (SrDoc \cup {NoSrDoc})]]
  BY DEF SrInv
<1>3. now \in [SrId -> SUBSET (SrDoc \cup {NoSrDoc})]
  BY DEF SrInv
<1>4. \A d \in SrClient : d # k => srJob'[d] = srJob[d] /\ srSince'[d] = srSince[d]
  BY <1>1, <1>2 DEF SrInv
<1>5. ASSUME NEW x, x = srJob'[k]
      PROVE  x \in SrSearch /\ x.at \in {"flag", "words"} /\ x.todo = {} /\ x.found = {} /\ x.hits = {}
  <2>1. x = job \/ x = [job EXCEPT !.at = "words"]
    BY <1>1, <1>5 DEF SrInv
  <2>2. job \in SrSearch
    BY DEF SrSearch
  <2> QED BY <2>1, <2>2 DEF SrSearch
<1>6. SinceOK(k)'
  <2>1. srSince'[k] = now
    BY <1>1, <1>2
  <2> QED BY <1>1, <2>1 DEF SinceOK, SrInv
<1>7. ASSUME NEW x, x = srJob'[k] PROVE FitsJob(k, x)'
  <2>1. Sound(k, x)'
    BY <1>5, <1>7, FS_EmptySet DEF Sound
  <2> QED BY <1>6, <2>1 DEF FitsJob
<1>8. ASSUME NEW d \in SrClient, d # k, NEW y, y = srJob[d] PROVE FitsJob(d, y)'
  BY <1>1, <1>2, <1>4, <1>8, Steady
<1>9. \A d \in SrClient : (FitsJob(d, srJob[d]))'
  <2> SUFFICES ASSUME NEW d \in SrClient PROVE (FitsJob(d, srJob[d]))'
    OBVIOUS
  <2>1. CASE d = k
    BY <1>7, <2>1
  <2>2. CASE d # k
    BY <1>4, <1>8, <2>2
  <2> QED BY <2>1, <2>2
<1>10. srJob' = [d \in SrClient |-> srJob'[d]]
  BY <1>1 DEF SrInv
<1> QED BY <1>1, <1>2, <1>3, <1>9, <1>10 DEF SrInv

\* A document becomes another, or is deleted: what could be found still can, and what
\* has had the words all the time had them before.
LEMMA BecomesFits ==
    ASSUME SrInv, NEW i \in SrId, NEW e \in SrDoc, e.dead \/ e # srDocs[i], e.at <= srPuts + 1,
           srSetting' = srSetting, srDocs' = [srDocs EXCEPT ![i] = e], SrBecomes(i, e), srPuts' = srPuts + 1,
           NEW d \in SrClient, NEW y, y = srJob[d]
    PROVE  FitsJob(d, y)'
<1>1. /\ FitsJob(d, y) /\ srPuts \in Nat /\ srDocs \in [SrId -> SrDoc \cup {NoSrDoc}]
      /\ srSince[d] \in [SrId -> SUBSET (SrDoc \cup {NoSrDoc})]
  BY SettingTyped DEF SrInv
<1>2. CASE ~Searching(d)
  BY <1>1, <1>2, JobKinds DEF FitsJob, SearchOK
<1>3. CASE Searching(d)
  <2>1. SinceOK(d) /\ Sound(d, y)
    BY <1>3, JobKinds DEF SearchOK
  <2>2. srSince'[d] = [srSince[d] EXCEPT ![i] = @ \cup {e}]
    BY <1>3 DEF SrBecomes
  <2>3. \A j \in SrId : srSince[d][j] \subseteq srSince'[d][j]
    BY <1>1, <2>2
  <2>4. Finds(d) \subseteq Finds(d)'
    BY <2>3 DEF Finds, SrVisible, SrSeatOf, SrCopy
  <2>5. SinceOK(d)'
    <3> SUFFICES ASSUME NEW j \in SrId
                 PROVE  /\ srDocs'[j] \in srSince'[d][j]
                        /\ \A f \in srSince'[d][j] : f # NoSrDoc => f.at <= srPuts'
      BY DEF SinceOK
    <3>1. srDocs'[j] \in srSince'[d][j]
      BY <1>1, <2>1, <2>2 DEF SinceOK
    <3>2. ASSUME NEW f \in srSince'[d][j], f # NoSrDoc PROVE f.at <= srPuts'
      <4>1. f = e \/ f \in srSince[d][j]
        BY <1>1, <2>2
      <4>2. ASSUME f \in srSince[d][j] PROVE f.at <= srPuts + 1
        <5>1. f \in SrDoc /\ f.at <= srPuts
          BY <1>1, <2>1, <3>2, <4>2 DEF SinceOK
        <5> QED BY <1>1, <5>1 DEF SrDoc
      <4> QED BY <4>1, <4>2
    <3> QED BY <3>1, <3>2
  <2>6. Enough(d)' => Enough(d)
    <3> SUFFICES ASSUME Cardinality(SrId) <= 6 * SrLimit, NEW j \in SrId,
                        srSince'[d][j] = {srDocs'[j]}, HasWords(d, j)'
                 PROVE  srSince[d][j] = {srDocs[j]} /\ HasWords(d, j)
      BY DEF Enough
    <3>1. j # i
      <4> SUFFICES ASSUME j = i PROVE FALSE
        OBVIOUS
      <4>1. srDocs'[i] = e
        BY <1>1
      <4>2. ~e.dead
        BY <4>1 DEF HasWords
      <4>3. srDocs[i] \in srSince'[d][i] /\ srDocs[i] # e
        BY <2>1, <2>3, <4>2 DEF SinceOK
      <4> QED BY <4>1, <4>3
    <3>2. srDocs'[j] = srDocs[j] /\ srSince'[d][j] = srSince[d][j]
      BY <1>1, <2>2, <3>1
    <3> QED BY <3>2 DEF HasWords, SrVisible, SrSeatOf
  <2>7. Sound(d, y)'
    BY <2>1, <2>4, <2>6 DEF Sound
  <2> QED BY <2>5, <2>7 DEF FitsJob
<1> QED BY <1>2, <1>3

\* The rest of the invariant, when a document becomes another.
LEMMA BecomesTyped ==
    ASSUME SrInv, NEW i \in SrId, NEW e \in SrDoc, e.at <= srPuts + 1,
           srSetting' = srSetting, srDocs' = [srDocs EXCEPT ![i] = e], SrBecomes(i, e), srPuts' = srPuts + 1
    PROVE  /\ srSetting' \in SrSettings /\ srPuts' \in Nat
           /\ srDocs' \in [SrId -> SrDoc \cup {NoSrDoc}]
           /\ \A j \in SrId : srDocs'[j] # NoSrDoc => srDocs'[j].at <= srPuts'
           /\ srSince' \in [SrClient -> [SrId -> SUBSET (SrDoc \cup {NoSrDoc})]]
<1>1. srDocs \in [SrId -> SrDoc \cup {NoSrDoc}] /\ srPuts \in Nat /\ srSetting \in SrSettings
  BY DEF SrInv
<1>2. srDocs' \in [SrId -> SrDoc \cup {NoSrDoc}]
  BY <1>1
<1>3. \A j \in SrId : srDocs'[j] # NoSrDoc => srDocs'[j].at <= srPuts'
  <2> SUFFICES ASSUME NEW j \in SrId, srDocs'[j] # NoSrDoc PROVE srDocs'[j].at <= srPuts'
    OBVIOUS
  <2>1. CASE j = i
    BY <1>1, <2>1
  <2>2. CASE j # i
    <3>1. srDocs'[j] = srDocs[j] /\ srDocs[j] \in SrDoc /\ srDocs[j].at <= srPuts
      BY <1>1, <2>2 DEF SrInv
    <3> QED BY <1>1, <3>1 DEF SrDoc
  <2> QED BY <2>1, <2>2
<1>4. srSince' \in [SrClient -> [SrId -> SUBSET (SrDoc \cup {NoSrDoc})]]
  <2>1. \A d \in SrClient : srSince[d] \in [SrId -> SUBSET (SrDoc \cup {NoSrDoc})]
    BY SettingTyped
  <2>2. \A d \in SrClient : [srSince[d] EXCEPT ![i] = @ \cup {e}] \in [SrId -> SUBSET (SrDoc \cup {NoSrDoc})]
    BY <2>1
  <2> QED BY <2>1, <2>2 DEF SrBecomes
<1> QED BY <1>1, <1>2, <1>3, <1>4

LEMMA PutKeeps ==
    ASSUME SrInv, NEW k \in SrClient, NEW i \in SrId, NEW content \in SrContent, NEW owner \in SrOwner,
           SrPut(k, i, content, owner)
    PROVE  SrInv'
<1> DEFINE e == [content |-> content, owner |-> owner, dead |-> FALSE, at |-> srPuts + 1]
<1>1. /\ srSetting' = srSetting /\ srDocs' = [srDocs EXCEPT ![i] = e] /\ SrBecomes(i, e) /\ srPuts' = srPuts + 1
      /\ srJob' = [srJob EXCEPT ![k] = [at |-> "read", id |-> i]] /\ srVectors' = srVectors
  BY DEF SrPut, SrGoes
<1>2. e \in SrDoc /\ e.at = srPuts + 1 /\ srPuts \in Nat
  BY DEF SrInv, SrDoc
<1>3. e # srDocs[i]
  <2>1. srDocs[i] # NoSrDoc => srDocs[i].at <= srPuts
    BY DEF SrInv
  <2>2. e # NoSrDoc
    BY <1>2, SearchAssumption
  <2> HIDE DEF e
  <2> QED BY <1>2, <2>1, <2>2
<1> HIDE DEF e
<1>4. e.at <= srPuts + 1
  BY <1>2
<1>5. \A d \in SrClient : (FitsJob(d, srJob[d]))'
  <2> SUFFICES ASSUME NEW d \in SrClient PROVE (FitsJob(d, srJob[d]))'
    OBVIOUS
  <2>1. CASE d = k
    <3>1. srJob'[d] = [at |-> "read", id |-> i]
      BY <1>1, <2>1 DEF SrInv
    <3> QED BY <3>1 DEF FitsJob, SrReading
  <2>2. CASE d # k
    <3>1. srJob'[d] = srJob[d]
      BY <1>1, <2>2 DEF SrInv
    <3>2. ASSUME NEW y, y = srJob[d] PROVE FitsJob(d, y)'
      BY <1>1, <1>2, <1>3, <1>4, <3>2, BecomesFits
    <3> QED BY <3>1, <3>2
  <2> QED BY <2>1, <2>2
<1>6. srJob' = [d \in SrClient |-> srJob'[d]] /\ srVectors' \in [SrId -> SUBSET SrVector]
  BY <1>1 DEF SrInv
<1>7. /\ srSetting' \in SrSettings /\ srPuts' \in Nat
      /\ srDocs' \in [SrId -> SrDoc \cup {NoSrDoc}]
      /\ \A j \in SrId : srDocs'[j] # NoSrDoc => srDocs'[j].at <= srPuts'
      /\ srSince' \in [SrClient -> [SrId -> SUBSET (SrDoc \cup {NoSrDoc})]]
  BY <1>1, <1>2, <1>4, BecomesTyped
<1> QED BY <1>5, <1>6, <1>7 DEF SrInv

LEMMA DeleteKeeps ==
    ASSUME SrInv, NEW k \in SrClient, NEW i \in SrId, SrDelete(k, i) PROVE SrInv'
<1> DEFINE e == [srDocs[i] EXCEPT !.dead = TRUE]
<1>1. srDocs[i] \in SrDoc /\ srDocs[i].at <= srPuts /\ srPuts \in Nat
  BY DEF SrInv, SrDelete, SrGot
<1>2. e \in SrDoc /\ e.dead /\ e.at = srDocs[i].at
  BY <1>1 DEF SrDoc
<1>3. /\ srSetting' = srSetting /\ srDocs' = [srDocs EXCEPT ![i] = e] /\ srPuts' = srPuts + 1
      /\ srJob' = srJob /\ srVectors' = srVectors
  BY DEF SrDelete
<1>4. SrBecomes(i, e)
  <2>1. srDocs'[i] = e
    BY <1>3 DEF SrInv
  <2>2. SrBecomes(i, srDocs'[i])
    BY DEF SrDelete
  <2> HIDE DEF e
  <2> QED BY <2>1, <2>2
<1> HIDE DEF e
<1>5. e.at <= srPuts + 1
  BY <1>1, <1>2 DEF SrDoc
<1>6. \A d \in SrClient : (FitsJob(d, srJob[d]))'
  <2> SUFFICES ASSUME NEW d \in SrClient PROVE (FitsJob(d, srJob[d]))'
    OBVIOUS
  <2>1. ASSUME NEW y, y = srJob[d] PROVE FitsJob(d, y)'
    BY <1>2, <1>3, <1>4, <1>5, <2>1, BecomesFits
  <2> QED BY <1>3, <2>1
<1>7. srJob' = [d \in SrClient |-> srJob'[d]] /\ srVectors' \in [SrId -> SUBSET SrVector]
  BY <1>3 DEF SrInv
<1>8. /\ srSetting' \in SrSettings /\ srPuts' \in Nat
      /\ srDocs' \in [SrId -> SrDoc \cup {NoSrDoc}]
      /\ \A j \in SrId : srDocs'[j] # NoSrDoc => srDocs'[j].at <= srPuts'
      /\ srSince' \in [SrClient -> [SrId -> SUBSET (SrDoc \cup {NoSrDoc})]]
  BY <1>2, <1>3, <1>4, <1>5, BecomesTyped
<1> QED BY <1>6, <1>7, <1>8 DEF SrInv

LEMMA SrRestartKeeps == ASSUME SrInv, NEW other, SrRestart(other) PROVE SrInv'
<1>1. \A k \in SrClient : FitsJob(k, SrIdle)'
  BY DEF FitsJob
<1>2. srJob' = [k \in SrClient |-> SrIdle]
  BY DEF SrRestart
<1>3. srVectors' \in [SrId -> SUBSET SrVector]
  <2>1. \A v \in SrVector : [v EXCEPT !.stale = TRUE] \in SrVector
    BY DEF SrVector
  <2> QED BY <2>1 DEF SrRestart, SrInv
<1>4. srSince' \in [SrClient -> [SrId -> SUBSET (SrDoc \cup {NoSrDoc})]]
  BY DEF SrRestart
<1>5. \A k \in SrClient : (FitsJob(k, srJob[k]))'
  BY <1>1, <1>2
<1>6. srSetting' = srSetting /\ srPuts' = srPuts /\ srDocs' = srDocs
  BY DEF SrRestart
<1> QED BY <1>2, <1>3, <1>4, <1>5, <1>6 DEF SrInv

LEMMA SrStarts == SrInit => SrInv
<1> SUFFICES ASSUME SrInit PROVE SrInv
  OBVIOUS
<1>1. srDocs \in [SrId -> SrDoc \cup {NoSrDoc}] /\ \A i \in SrId : srDocs[i] # NoSrDoc => srDocs[i].at = 0
  BY SearchAssumption DEF SrInit
<1>2. srVectors \in [SrId -> SUBSET SrVector]
  <2>1. \A i \in SrId : srDocs[i] # NoSrDoc =>
          [content |-> srDocs[i].content, owner |-> srDocs[i].owner, stale |-> srSetting.stale] \in SrVector
    BY <1>1, SearchAssumption DEF SrInit, SrDoc, SrVector
  <2> QED BY <2>1 DEF SrInit
<1> QED BY <1>1, <1>2 DEF SrInit, SrInv, FitsJob

LEMMA SrSteps == SrInv /\ [SrNext]_srVars => SrInv'
<1> SUFFICES ASSUME SrInv, [SrNext]_srVars PROVE SrInv'
  OBVIOUS
<1>1. CASE UNCHANGED srVars
  BY <1>1 DEF srVars, SrInv, FitsJob, SinceOK, Sound, Finds, SrVisible, SrSeatOf, Enough, HasWords
<1>2. ASSUME NEW k \in SrClient, NEW i \in SrId, NEW content \in SrContent, NEW owner \in SrOwner,
             SrPut(k, i, content, owner)
      PROVE SrInv'
  BY <1>2, PutKeeps
<1>3. ASSUME NEW k \in SrClient, NEW i \in SrId, SrDelete(k, i) PROVE SrInv'
  BY <1>3, DeleteKeeps
<1>4. ASSUME NEW k \in SrClient, NEW owners, Reindex(k, owners) PROVE SrInv'
  BY <1>4, Reindexes
<1>5. ASSUME NEW k \in SrClient,
             SrRead(k) \/ Embeds(k) \/ Inserts(k) \/ SrBegin(k) \/ RefreshStale(k)
               \/ Narrows(k) \/ Fetches(k) \/ Ranks(k) \/ SrDone(k)
      PROVE SrInv'
  BY <1>5, Reads, EmbedsKeep, InsertsKeep, BeginKeeps, StaleKeeps, NarrowsKeep, FetchesKeep, RanksKeep,
     DoneKeeps
<1>6. ASSUME NEW k \in SrClient, NEW c \in srJob[k].todo, Drops(k, c) PROVE SrInv'
  BY <1>6, DropsKeep
<1>7. ASSUME NEW k \in SrClient, Scores(k, "public", "private") \/ Scores(k, "private", "narrow") PROVE SrInv'
  BY <1>7, ScoresKeep
<1>8. ASSUME NEW other, SrRestart(other) PROVE SrInv'
  BY <1>8, SrRestartKeeps
<1> QED BY <1>1, <1>2, <1>3, <1>4, <1>5, <1>6, <1>7, <1>8 DEF SrNext

LEMMA SrServes == SrInv => SearchServes
<1> SUFFICES ASSUME SrInv, NEW k \in SrClient, srJob[k].at = "answered"
             PROVE  /\ \A x \in srJob[k].hits :
                          x.doc \in srSince[k][x.id] /\ SrVisible(k, x.doc) /\ (x.doc.dead => srSetting.mongo)
                    /\ Enough(k) => srJob[k].hits # {}
  BY DEF SearchServes, Enough, HasWords
<1>1. Sound(k, srJob[k])
  BY JobKinds DEF SearchOK
<1> QED BY <1>1 DEF Sound, Finds

\* What search.rs:search answers with is, for any documents, seats, contents, models
\* that fail, vectors that are stale and changes meanwhile, what its seat could see
\* since the search began, and something of it if there were words for it all along.
THEOREM SearchesServe == SrSpec => []SearchServes
<1>1. SrSpec => []SrInv
  BY SrStarts, SrSteps, PTL DEF SrSpec
<1> QED BY <1>1, SrServes, PTL

----------------------------------------------------------------------------
(* Contexts: what is not answered whole is named *)

CxFields ==
    { "at", "used", "head", "deps", "profiles", "base", "omitted", "summed", "queue", "inspected",
      "seen", "limited", "next", "dirty", "unread", "ask" }
CxTurn == CxDoc \X BOOLEAN
CxQueued(x) == {x.queue[i][1] : i \in DOMAIN x.queue}
CxPlain(x) == \A i \in DOMAIN x.queue : x.queue[i][2] = FALSE
CxWalk(x) ==
    /\ DOMAIN x = CxFields /\ x.seen \in SUBSET CxDoc /\ x.queue \in Seq(CxTurn) /\ x.limited \in BOOLEAN

\* y is x after it has looked at links.
LookedOn(x, y) ==
    /\ CxWalk(y)
    /\ \A f \in CxFields \ {"limited", "inspected", "seen", "queue"} : y[f] = x[f]
    /\ x.seen \subseteq y.seen /\ y.seen \subseteq x.seen \cup CxQueued(y)
    /\ CxQueued(x) \subseteq CxQueued(y)
    /\ x.limited => y.limited

LEMMA QueuedOne ==
    ASSUME NEW T, NEW q \in Seq(T), NEW u \in T
    PROVE  /\ Append(q, u) \in Seq(T) /\ DOMAIN Append(q, u) = 1..Len(q) + 1 /\ DOMAIN q = 1..Len(q) /\ Len(q) \in Nat
           /\ \A i \in DOMAIN q : i \in DOMAIN Append(q, u) /\ Append(q, u)[i] = q[i]
           /\ Len(q) + 1 \in DOMAIN Append(q, u) /\ Append(q, u)[Len(q) + 1] = u
           /\ \A i \in DOMAIN Append(q, u) : i \in DOMAIN q \/ i = Len(q) + 1
  OBVIOUS

LEMMA LookKeeps ==
    ASSUME NEW x, CxWalk(x), NEW id \in CxDoc, NEW t \in BOOLEAN
    PROVE  /\ LookedOn(x, Look(x, id, t))
           /\ Look(x, id, t).limited \/ id \in Look(x, id, t).seen
           /\ cxWorld.policy = NoCxDoc /\ t = FALSE /\ CxPlain(x) => CxPlain(Look(x, id, t))
<1> DEFINE y == Look(x, id, t)
<1>1. CASE x.inspected = CxLinkLimit
  <2>1. y = [x EXCEPT !.limited = TRUE]
    BY <1>1 DEF Look
  <2>2. DOMAIN y = CxFields /\ y.limited = TRUE /\ \A f \in CxFields \ {"limited"} : y[f] = x[f]
    BY <2>1 DEF CxWalk
  <2> HIDE DEF y
  <2>3. y.seen = x.seen /\ y.queue = x.queue
    BY <2>2 DEF CxFields
  <2> QED BY <2>2, <2>3 DEF LookedOn, CxWalk, CxQueued, CxPlain, y
<1>2. CASE x.inspected # CxLinkLimit /\ id \in x.seen
  <2>1. y = [x EXCEPT !.inspected = @ + 1]
    BY <1>2 DEF Look
  <2>2. DOMAIN y = CxFields /\ \A f \in CxFields \ {"inspected"} : y[f] = x[f]
    BY <2>1 DEF CxWalk
  <2> HIDE DEF y
  <2>3. y.seen = x.seen /\ y.queue = x.queue /\ y.limited = x.limited
    BY <2>2 DEF CxFields
  <2> QED BY <1>2, <2>2, <2>3 DEF LookedOn, CxWalk, CxQueued, CxPlain, y
<1>3. CASE x.inspected # CxLinkLimit /\ id \notin x.seen
  <2> DEFINE u == <<id, t \/ cxWorld.policy = id>>
             q == x.queue
  <2>1. y = [x EXCEPT !.inspected = @ + 1, !.seen = @ \cup {id}, !.queue = Append(@, u)]
    BY <1>3 DEF Look
  <2>2. u \in CxTurn /\ u[1] = id /\ (cxWorld.policy = NoCxDoc /\ t = FALSE => u[2] = FALSE)
    BY ContextAssumption DEF CxTurn
  <2> HIDE DEF u
  <2>3. /\ DOMAIN y = CxFields /\ y.seen = x.seen \cup {id} /\ y.queue = Append(x.queue, u)
        /\ \A f \in CxFields \ {"inspected", "seen", "queue"} : y[f] = x[f]
    BY <2>1 DEF CxWalk, CxFields
  <2> HIDE DEF y
  <2>4. y.limited = x.limited /\ q \in Seq(CxTurn) /\ y.queue = Append(q, u)
    BY <2>3 DEF CxWalk, CxFields
  <2>5. /\ Append(q, u) \in Seq(CxTurn)
        /\ \A i \in DOMAIN q : i \in DOMAIN Append(q, u) /\ Append(q, u)[i] = q[i]
        /\ Len(q) + 1 \in DOMAIN Append(q, u) /\ Append(q, u)[Len(q) + 1] = u
        /\ \A i \in DOMAIN Append(q, u) : i \in DOMAIN q \/ i = Len(q) + 1
    BY <2>2, <2>4, QueuedOne
  <2>6. CxQueued(y) = CxQueued(x) \cup {id}
    BY <2>2, <2>4, <2>5 DEF CxQueued
  <2>7. cxWorld.policy = NoCxDoc /\ t = FALSE /\ CxPlain(x) => CxPlain(y)
    BY <2>2, <2>4, <2>5 DEF CxPlain
  <2>8. LookedOn(x, y)
    BY <2>3, <2>4, <2>5, <2>6 DEF LookedOn, CxWalk
  <2> QED BY <2>3, <2>7, <2>8 DEF y
<1> QED BY <1>1, <1>2, <1>3

LEMMA LookedTwice ==
    ASSUME NEW x, NEW y, NEW z, LookedOn(x, y), LookedOn(y, z) PROVE LookedOn(x, z)
  BY DEF LookedOn

\* looked is the walk over links, step by step.
Looks(f, b, links, t, n) ==
    f = [k \in 0..n |-> IF k = 0 THEN b ELSE Look(f[k - 1], links[k], t)]

LEMMA LooksAre ==
    ASSUME NEW b, NEW links, NEW t, NEW n \in Nat
    PROVE  \E f : Looks(f, b, links, t, n)
<1> DEFINE S == {m \in Nat : ~ \E f : Looks(f, b, links, t, m)}
<1>1. S = {}
  <2> SUFFICES ASSUME S # {} PROVE FALSE
    OBVIOUS
  <2>1. PICK m \in S : \A j \in S : m <= j
    <3>1. S \in SUBSET Nat
      OBVIOUS
    <3> HIDE DEF S
    <3> QED BY <3>1, Least
  <2>2. CASE m = 0
    <3> DEFINE g == [k \in 0..m |-> b]
    <3>1. \A k \in 0..m : k = 0
      BY <2>2
    <3>2. g = [k \in 0..m |-> IF k = 0 THEN b ELSE Look(g[k - 1], links[k], t)]
      BY <3>1
    <3>3. Looks(g, b, links, t, m)
      BY <3>2 DEF Looks
    <3> QED BY <3>3
  <2>3. CASE m # 0
    <3>1. m \in Nat /\ m - 1 \in Nat
      BY <2>3
    <3>2. m - 1 \notin S
      BY <2>1, <3>1
    <3>3. PICK f : Looks(f, b, links, t, m - 1)
      BY <3>1, <3>2
    <3> DEFINE g == [k \in 0..m |-> IF k = m THEN Look(f[m - 1], links[m], t) ELSE f[k]]
    <3>4. \A k \in 0..m - 1 : f[k] = IF k = 0 THEN b ELSE Look(f[k - 1], links[k], t)
      BY <3>3 DEF Looks
    <3>5. \A k \in 0..m - 1 : k \in 0..m /\ k # m /\ g[k] = f[k]
      BY <3>1
    <3>6. ASSUME NEW k \in 0..m PROVE g[k] = IF k = 0 THEN b ELSE Look(g[k - 1], links[k], t)
      <4>1. CASE k = m
        <5>1. g[k - 1] = f[m - 1] /\ k # 0
          BY <2>3, <3>1, <3>5, <4>1
        <5>2. g[k] = Look(f[m - 1], links[m], t)
          BY <4>1
        <5> HIDE DEF g
        <5> QED BY <4>1, <5>1, <5>2
      <4>2. CASE k # m
        <5>1. k \in 0..m - 1
          BY <3>1, <4>2
        <5>2. k # 0 => k - 1 \in 0..m - 1
          BY <3>1, <5>1
        <5> HIDE DEF g
        <5> QED BY <3>4, <3>5, <5>1, <5>2
      <4> QED BY <4>1, <4>2
    <3>7. g = [k \in 0..m |-> g[k]]
      OBVIOUS
    <3> HIDE DEF g
    <3>8. Looks(g, b, links, t, m)
      <4>1. g = [k \in 0..m |-> IF k = 0 THEN b ELSE Look(g[k - 1], links[k], t)]
        BY <3>6, <3>7
      <4> QED BY <4>1 DEF Looks
    <3> QED BY <3>8
  <2> QED BY <2>2, <2>3
<1> QED BY <1>1

LEMMA LookingIs ==
    ASSUME NEW b, NEW links, NEW t, Len(links) \in Nat
    PROVE  \A k \in 0..Len(links) :
              Looking(b, links, t)[k] = IF k = 0 THEN b ELSE Look(Looking(b, links, t)[k - 1], links[k], t)
<1> DEFINE n == Len(links)
           p == Looking(b, links, t)
<1>1. \E f : Looks(f, b, links, t, n)
  BY LooksAre
<1>2. p = CHOOSE f : Looks(f, b, links, t, n)
  BY DEF Looking, Looks
<1> HIDE DEF n, p
<1>3. Looks(p, b, links, t, n)
  BY <1>1, <1>2
<1>4. \A k \in 0..n : p[k] = IF k = 0 THEN b ELSE Look(p[k - 1], links[k], t)
  BY <1>3 DEF Looks
<1> QED BY <1>4 DEF n, p

LEMMA EnqueueKeeps ==
    ASSUME NEW x, CxWalk(x), NEW links \in Seq(CxDoc), NEW t \in BOOLEAN
    PROVE  LET y == Enqueue(x, links, t)
           IN  /\ LookedOn(x, y)
               /\ y.limited \/ \A i \in DOMAIN links : links[i] \in y.seen
               /\ cxWorld.policy = NoCxDoc /\ t = FALSE /\ CxPlain(x) => CxPlain(y)
<1> DEFINE n == Len(links)
           p == Looking(x, links, t)
           OK(k) == /\ LookedOn(x, p[k])
                    /\ p[k].limited \/ \A i \in 1..k : links[i] \in p[k].seen
                    /\ cxWorld.policy = NoCxDoc /\ t = FALSE /\ CxPlain(x) => CxPlain(p[k])
           S == {k \in 0..n : ~OK(k)}
<1>1. n \in Nat /\ DOMAIN links = 1..n /\ \A i \in 1..n : links[i] \in CxDoc
  OBVIOUS
<1>2. \A k \in 0..n : p[k] = IF k = 0 THEN x ELSE Look(p[k - 1], links[k], t)
  BY <1>1, LookingIs
<1> HIDE DEF p, n
<1>3. OK(0)
  <2>1. p[0] = x
    BY <1>1, <1>2
  <2>2. LookedOn(x, x)
    BY DEF LookedOn, CxWalk
  <2> QED BY <2>1, <2>2
<1>4. ASSUME NEW k \in 1..n, OK(k - 1) PROVE OK(k)
  <2> DEFINE q == p[k - 1]
             r == p[k]
  <2>1. k \in 0..n /\ k # 0 /\ links[k] \in CxDoc
    BY <1>1
  <2>2. r = Look(q, links[k], t)
    BY <1>2, <2>1
  <2>3. LookedOn(x, q) /\ CxWalk(q)
    BY <1>4 DEF LookedOn
  <2>4. \A i \in 1..k : i = k \/ i \in 1..k - 1
    BY <1>1
  <2>5. q.limited \/ \A i \in 1..k - 1 : links[i] \in q.seen
    BY <1>4
  <2>6. cxWorld.policy = NoCxDoc /\ t = FALSE /\ CxPlain(x) => CxPlain(q)
    BY <1>4
  <2> HIDE DEF q, r
  <2>7. /\ LookedOn(q, r) /\ (r.limited \/ links[k] \in r.seen)
        /\ cxWorld.policy = NoCxDoc /\ t = FALSE /\ CxPlain(q) => CxPlain(r)
    BY <2>1, <2>2, <2>3, LookKeeps
  <2>8. LookedOn(x, r)
    BY <2>3, <2>7, LookedTwice
  <2>9. r.limited \/ \A i \in 1..k : links[i] \in r.seen
    BY <2>4, <2>5, <2>7 DEF LookedOn
  <2> QED BY <2>6, <2>7, <2>8, <2>9 DEF r
<1>5. S = {}
  <2> SUFFICES ASSUME S # {} PROVE FALSE
    OBVIOUS
  <2>1. PICK k \in S : \A j \in S : k <= j
    <3>1. S \in SUBSET Nat
      BY <1>1
    <3> HIDE DEF S
    <3> QED BY <3>1, Least
  <2>2. k \in 0..n /\ ~OK(k)
    BY <2>1
  <2> HIDE DEF OK
  <2>3. k \in 1..n /\ k - 1 \in 0..n
    BY <1>1, <1>3, <2>2
  <2>4. k - 1 \notin S
    BY <1>1, <2>1, <2>3
  <2>5. OK(k - 1)
    BY <2>3, <2>4
  <2> QED BY <1>4, <2>2, <2>3, <2>5
<1>6. OK(n)
  BY <1>1, <1>5
<1> QED BY <1>1, <1>6 DEF Enqueue, p, n

\* left is what the blocks that are dropped leave, step by step.
DropsTo(f, b, kind, n) ==
    f = [k \in 0..n |-> IF k = 0 THEN b ELSE Drop(f[k - 1], kind)]

LEMMA DropsAre ==
    ASSUME NEW b, NEW kind, NEW n \in Nat
    PROVE  \E f : DropsTo(f, b, kind, n)
<1> DEFINE S == {m \in Nat : ~ \E f : DropsTo(f, b, kind, m)}
<1>1. S = {}
  <2> SUFFICES ASSUME S # {} PROVE FALSE
    OBVIOUS
  <2>1. PICK m \in S : \A j \in S : m <= j
    <3>1. S \in SUBSET Nat
      OBVIOUS
    <3> HIDE DEF S
    <3> QED BY <3>1, Least
  <2>2. CASE m = 0
    <3> DEFINE g == [k \in 0..m |-> b]
    <3>1. \A k \in 0..m : k = 0
      BY <2>2
    <3>2. g = [k \in 0..m |-> IF k = 0 THEN b ELSE Drop(g[k - 1], kind)]
      BY <3>1
    <3>3. DropsTo(g, b, kind, m)
      BY <3>2 DEF DropsTo
    <3> QED BY <3>3
  <2>3. CASE m # 0
    <3>1. m \in Nat /\ m - 1 \in Nat
      BY <2>3
    <3>2. m - 1 \notin S
      BY <2>1, <3>1
    <3>3. PICK f : DropsTo(f, b, kind, m - 1)
      BY <3>1, <3>2
    <3> DEFINE g == [k \in 0..m |-> IF k = m THEN Drop(f[m - 1], kind) ELSE f[k]]
    <3>4. \A k \in 0..m - 1 : f[k] = IF k = 0 THEN b ELSE Drop(f[k - 1], kind)
      BY <3>3 DEF DropsTo
    <3>5. \A k \in 0..m - 1 : k \in 0..m /\ k # m /\ g[k] = f[k]
      BY <3>1
    <3>6. ASSUME NEW k \in 0..m PROVE g[k] = IF k = 0 THEN b ELSE Drop(g[k - 1], kind)
      <4>1. CASE k = m
        <5>1. g[k - 1] = f[m - 1] /\ k # 0
          BY <2>3, <3>1, <3>5, <4>1
        <5>2. g[k] = Drop(f[m - 1], kind)
          BY <4>1
        <5> HIDE DEF g
        <5> QED BY <4>1, <5>1, <5>2
      <4>2. CASE k # m
        <5>1. k \in 0..m - 1
          BY <3>1, <4>2
        <5>2. k # 0 => k - 1 \in 0..m - 1
          BY <3>1, <5>1
        <5> HIDE DEF g
        <5> QED BY <3>4, <3>5, <5>1, <5>2
      <4> QED BY <4>1, <4>2
    <3>7. g = [k \in 0..m |-> g[k]]
      OBVIOUS
    <3> HIDE DEF g
    <3>8. DropsTo(g, b, kind, m)
      <4>1. g = [k \in 0..m |-> IF k = 0 THEN b ELSE Drop(g[k - 1], kind)]
        BY <3>6, <3>7
      <4> QED BY <4>1 DEF DropsTo
    <3> QED BY <3>8
  <2> QED BY <2>2, <2>3
<1> QED BY <1>1

LEMMA DroppingIs ==
    ASSUME NEW b, NEW kind, Len(b[kind]) \in Nat
    PROVE  \A k \in 0..Len(b[kind]) :
              Dropping(b, kind)[k] = IF k = 0 THEN b ELSE Drop(Dropping(b, kind)[k - 1], kind)
<1> DEFINE n == Len(b[kind])
           p == Dropping(b, kind)
<1>1. \E f : DropsTo(f, b, kind, n)
  BY DropsAre
<1>2. p = CHOOSE f : DropsTo(f, b, kind, n)
  BY DEF Dropping, DropsTo
<1> HIDE DEF n, p
<1>3. DropsTo(p, b, kind, n)
  BY <1>1, <1>2
<1>4. \A k \in 0..n : p[k] = IF k = 0 THEN b ELSE Drop(p[k - 1], kind)
  BY <1>3 DEF DropsTo
<1> QED BY <1>4 DEF n, p

CxIds(q) == {q[i].id : i \in DOMAIN q}
CxWhole(q) == \A i \in DOMAIN q : q[i].whole = TRUE

LEMMA FrontIs ==
    ASSUME NEW T, NEW q \in Seq(T), q # <<>>
    PROVE  /\ Front(q) \in Seq(T) /\ DOMAIN Front(q) \subseteq DOMAIN q /\ Len(q) \in DOMAIN q
           /\ \A i \in DOMAIN Front(q) : Front(q)[i] = q[i]
           /\ \A i \in DOMAIN q : i \in DOMAIN Front(q) \/ i = Len(q)
<1>1. Len(q) \in Nat \ {0} /\ DOMAIN q = 1..Len(q)
  OBVIOUS
<1>2. Front(q) = SubSeq(q, 1, Len(q) - 1)
  BY DEF Front
<1>3. Front(q) \in Seq(T) /\ Len(Front(q)) = Len(q) - 1 /\ \A i \in 1..Len(q) - 1 : Front(q)[i] = q[i]
  BY <1>1, <1>2
<1>4. DOMAIN Front(q) = 1..Len(q) - 1
  BY <1>1, <1>3
<1> QED BY <1>1, <1>3, <1>4

\* y is x after blocks of a kind were dropped.
CxDropped(x, y, kind) ==
    /\ DOMAIN y = CxFields
    /\ \A f \in CxFields \ {"used", "omitted", kind} : y[f] = x[f]
    /\ y[kind] \in Seq(CxBlocks)
    /\ CxWhole(x[kind]) => CxWhole(y[kind])
    /\ CxIds(y[kind]) \cup y.omitted = CxIds(x[kind]) \cup x.omitted

LEMMA DropKeeps ==
    ASSUME NEW kind \in {"profiles", "base"}, NEW x, DOMAIN x = CxFields, x[kind] \in Seq(CxBlocks)
    PROVE  CxDropped(x, Drop(x, kind), kind)
<1> DEFINE y == Drop(x, kind)
           q == x[kind]
<1>1. CASE x.used <= Limit \/ q = <<>>
  BY <1>1 DEF Drop, CxDropped
<1>2. CASE ~(x.used <= Limit \/ q = <<>>)
  <2>1. y = [x EXCEPT !.used = Less(@, Last(q).size), !.omitted = @ \cup {Last(q).id}, ![kind] = Front(@)]
    BY <1>2 DEF Drop
  <2>2. /\ DOMAIN y = CxFields /\ y.omitted = x.omitted \cup {Last(q).id} /\ y[kind] = Front(q)
        /\ \A f \in CxFields \ {"used", "omitted", kind} : y[f] = x[f]
    BY <2>1 DEF CxFields
  <2> HIDE DEF y
  <2>3. /\ Front(q) \in Seq(CxBlocks) /\ DOMAIN Front(q) \subseteq DOMAIN q /\ Len(q) \in DOMAIN q
        /\ \A i \in DOMAIN Front(q) : Front(q)[i] = q[i]
        /\ \A i \in DOMAIN q : i \in DOMAIN Front(q) \/ i = Len(q)
    BY <1>2, FrontIs
  <2>4. Last(q) = q[Len(q)]
    BY DEF Last
  <2> DEFINE g == Front(q)
             u == Last(q)
  <2> HIDE DEF g, u
  <2>5. CxIds(g) \cup {u.id} = CxIds(q)
    BY <2>3, <2>4 DEF CxIds, g, u
  <2>6. CxWhole(q) => CxWhole(g)
    BY <2>3 DEF CxWhole, g
  <2> HIDE DEF q
  <2>7. y[kind] = g /\ y.omitted = x.omitted \cup {u.id} /\ g \in Seq(CxBlocks)
    BY <2>2, <2>3 DEF g, u
  <2>8. CxIds(y[kind]) \cup y.omitted = CxIds(q) \cup x.omitted
    BY <2>5, <2>7
  <2> QED BY <2>2, <2>6, <2>7, <2>8 DEF CxDropped, q, y
<1> QED BY <1>1, <1>2

LEMMA DroppedKeeps ==
    ASSUME NEW kind \in {"profiles", "base"}, NEW x, DOMAIN x = CxFields, x[kind] \in Seq(CxBlocks)
    PROVE  CxDropped(x, Dropped(x, kind), kind)
<1> DEFINE n == Len(x[kind])
           p == Dropping(x, kind)
           OK(k) == CxDropped(x, p[k], kind)
           S == {k \in 0..n : ~OK(k)}
<1>1. n \in Nat
  OBVIOUS
<1>2. \A k \in 0..n : p[k] = IF k = 0 THEN x ELSE Drop(p[k - 1], kind)
  BY <1>1, DroppingIs
<1> HIDE DEF p, n
<1>3. OK(0)
  BY <1>1, <1>2 DEF CxDropped
<1>4. ASSUME NEW k \in 1..n, OK(k - 1) PROVE OK(k)
  <2> DEFINE q == p[k - 1]
             r == p[k]
  <2>1. r = Drop(q, kind)
    BY <1>1, <1>2
  <2>2. CxDropped(x, q, kind)
    BY <1>4
  <2> HIDE DEF q, r
  <2>3. CxDropped(q, r, kind)
    BY <2>1, <2>2, DropKeeps DEF CxDropped
  <2>4. CxDropped(x, r, kind)
    BY <2>2, <2>3 DEF CxDropped
  <2> QED BY <2>4 DEF r
<1>5. S = {}
  <2> SUFFICES ASSUME S # {} PROVE FALSE
    OBVIOUS
  <2>1. PICK k \in S : \A j \in S : k <= j
    <3>1. S \in SUBSET Nat
      BY <1>1
    <3> HIDE DEF S
    <3> QED BY <3>1, Least
  <2>2. k \in 0..n /\ ~OK(k)
    BY <2>1
  <2> HIDE DEF OK
  <2>3. k \in 1..n /\ k - 1 \in 0..n
    BY <1>1, <1>3, <2>2
  <2>4. k - 1 \notin S
    BY <1>1, <2>1, <2>3
  <2>5. OK(k - 1)
    BY <2>3, <2>4
  <2> QED BY <1>4, <2>2, <2>3, <2>5
<1>6. OK(n)
  BY <1>1, <1>5
<1> QED BY <1>6 DEF Dropped, p, n
\* What an answer holds so far, and what it names.
CxShown(b) ==
    IF b.at \in {"links", "base"} THEN CxIds(b.head) \cup CxIds(b.deps) \cup CxIds(b.profiles) \cup CxIds(b.base)
    ELSE CxIds(b.deps)
CxCovered(b) == CxShown(b) \cup b.omitted

\* The parts of an answer.
CxShape(b) ==
    /\ CxWalk(b) /\ b.at \in {"links", "base", "model", "answered"}
    /\ b.head \in Seq(CxBlocks) /\ b.deps \in Seq(CxBlocks) /\ b.profiles \in Seq(CxBlocks) /\ b.base \in Seq(CxBlocks)
    /\ b.at \in {"links", "base"} => CxWhole(b.head) /\ CxWhole(b.deps) /\ CxWhole(b.profiles) /\ CxWhole(b.base)
                                     /\ b.next \in Nat \ {0}
    /\ b.at \in {"model", "answered"} =>
          /\ b.next \in 0..Len(b.deps)
          /\ \A i \in DOMAIN b.deps : b.deps[i].whole = TRUE \/ b.deps[i].id \in b.summed
    /\ b.at # "links" => b.queue = <<>>
    /\ b.summed \subseteq CxCovered(b) /\ b.dirty \subseteq CxDoc

\* Where the walk has been, it has looked at every link or says that it did not.
CxFollowed(b, u) ==
    u \in CxCovered(b) /\ (b.limited \/ \A i \in DOMAIN cxDocs[u].links : cxDocs[u].links[i] \in b.seen)
CxFollows(b) ==
    /\ b.ask \in CxDoc => b.ask \in b.seen /\ (b.ask \in b.dirty \/ Readable(b.ask))
    /\ \A u \in b.seen : u \in CxQueued(b) \/ u \in b.dirty \cup b.unread \/ ~Readable(u) \/ CxFollowed(b, u)

\* The profiles that were read are shown or named; without a policy nothing is named that is closed.
CxTells(b) ==
    /\ \A i \in DOMAIN cxWorld.profiles :
          (b.at = "links" => i < b.next) => cxWorld.profiles[i].id \in CxCovered(b) \cup b.unread
    /\ cxWorld.policy = NoCxDoc =>
          CxPlain(b) /\ \A id \in CxDoc \cap CxCovered(b) : Readable(id) \/ id \in b.dirty

CxBuildOK(b) == CxShape(b) /\ CxFollows(b) /\ CxTells(b)
CxInv ==
    /\ cxWorld \in CxSeats /\ cxDocs \in [CxDoc -> CxDocs \cup {NoCxDoc}]
    /\ cxBuild.at = "idle" \/ CxBuildOK(cxBuild)

LEMMA InitContext == CxInit => CxInv
  BY ContextAssumption DEF CxInit, CxInv

LEMMA OwnBuild ==
    ASSUME CxInv, NEW y, CxBuildOK(y), cxBuild' = y, cxWorld' = cxWorld, cxDocs' = cxDocs
    PROVE  CxInv'
<1>1. (CxBuildOK(y))'
  BY DEF CxBuildOK, CxShape, CxFollows, CxFollowed, CxTells, Readable
<1> QED BY <1>1 DEF CxInv, CxBuildOK, CxShape, CxFollows, CxFollowed, CxTells, Readable

\* y is b that has got further, without looking at links.
CxSame(b, y) ==
    /\ y.seen = b.seen /\ y.limited = b.limited /\ y.dirty = b.dirty /\ y.ask = b.ask /\ y.queue = b.queue
    /\ b.unread \subseteq y.unread /\ CxCovered(b) \subseteq CxCovered(y)

LEMMA SameFollows == ASSUME NEW b, NEW y, CxFollows(b), CxSame(b, y) PROVE CxFollows(y)
  BY DEF CxFollows, CxSame, CxFollowed, CxQueued

\* y names nothing of a closed document that b did not.
LEMMA SameTells ==
    ASSUME NEW b, NEW y, CxTells(b), CxSame(b, y), b.at # "links",
           cxWorld.policy = NoCxDoc => \A id \in CxDoc \cap CxCovered(y) : id \in CxCovered(b) \/ Readable(id)
    PROVE  CxTells(y)
  BY DEF CxTells, CxSame, CxPlain

\* Sequences of blocks
LEMMA JoinedBlocks ==
    ASSUME NEW p \in Seq(CxBlocks), NEW q \in Seq(CxBlocks)
    PROVE  /\ p \o q \in Seq(CxBlocks) /\ CxIds(p \o q) = CxIds(p) \cup CxIds(q)
           /\ CxWhole(p) /\ CxWhole(q) => CxWhole(p \o q)
<1> DEFINE r == p \o q
<1>1. r \in Seq(CxBlocks) /\ Len(p) \in Nat /\ Len(q) \in Nat /\ DOMAIN r = 1..Len(p) + Len(q)
      /\ DOMAIN p = 1..Len(p) /\ DOMAIN q = 1..Len(q)
  OBVIOUS
<1>2. \A i \in DOMAIN r : r[i] = IF i <= Len(p) THEN p[i] ELSE q[i - Len(p)]
  OBVIOUS
<1> HIDE DEF r
<1>3. \A i \in DOMAIN p : i \in DOMAIN r /\ r[i] = p[i]
  BY <1>1, <1>2
<1>4. ASSUME NEW i \in DOMAIN q PROVE i + Len(p) \in DOMAIN r /\ r[i + Len(p)] = q[i]
  <2>1. i + Len(p) \in DOMAIN r /\ ~(i + Len(p) <= Len(p)) /\ i + Len(p) - Len(p) = i
    BY <1>1
  <2> QED BY <1>2, <2>1
<1>5. ASSUME NEW i \in DOMAIN r
      PROVE  (i \in DOMAIN p /\ r[i] = p[i]) \/ (i - Len(p) \in DOMAIN q /\ r[i] = q[i - Len(p)])
  <2>1. CASE i <= Len(p)
    BY <1>1, <1>2, <2>1
  <2>2. CASE ~(i <= Len(p))
    BY <1>1, <1>2, <2>2
  <2> QED BY <2>1, <2>2
<1>6. CxIds(r) \subseteq CxIds(p) \cup CxIds(q)
  BY <1>5 DEF CxIds
<1>7. CxIds(p) \subseteq CxIds(r)
  BY <1>3 DEF CxIds
<1>8. CxIds(q) \subseteq CxIds(r)
  BY <1>4 DEF CxIds
<1>9. CxWhole(p) /\ CxWhole(q) => CxWhole(r)
  BY <1>5 DEF CxWhole
<1> QED BY <1>1, <1>6, <1>7, <1>8, <1>9 DEF r

LEMMA AppendedBlock ==
    ASSUME NEW q \in Seq(CxBlocks), NEW id \in CxDoc \cup CxLabels, NEW size \in Nat
    PROVE  LET r == Append(q, Block(id, size))
           IN  r \in Seq(CxBlocks) /\ CxIds(r) = CxIds(q) \cup {id} /\ (CxWhole(q) => CxWhole(r))
<1> DEFINE u == Block(id, size)
           r == Append(q, u)
<1>1. u \in CxBlocks /\ u.id = id /\ u.whole = TRUE
  BY DEF Block, CxBlocks
<1> HIDE DEF u
<1>2. /\ r \in Seq(CxBlocks)
      /\ \A i \in DOMAIN q : i \in DOMAIN r /\ r[i] = q[i]
      /\ Len(q) + 1 \in DOMAIN r /\ r[Len(q) + 1] = u
      /\ \A i \in DOMAIN r : i \in DOMAIN q \/ i = Len(q) + 1
  BY <1>1, QueuedOne
<1> HIDE DEF r
<1>3. CxIds(r) = CxIds(q) \cup {id}
  BY <1>1, <1>2 DEF CxIds
<1>4. CxWhole(q) => CxWhole(r)
  BY <1>1, <1>2 DEF CxWhole
<1> QED BY <1>2, <1>3, <1>4 DEF r, u

LEMMA OneBlock ==
    ASSUME NEW id \in CxDoc \cup CxLabels, NEW size \in Nat
    PROVE  LET r == <<Block(id, size)>> IN r \in Seq(CxBlocks) /\ CxIds(r) = {id} /\ CxWhole(r)
<1> DEFINE u == Block(id, size)
<1>1. u \in CxBlocks /\ u.id = id /\ u.whole = TRUE
  BY DEF Block, CxBlocks
<1> HIDE DEF u
<1>2. <<u>> \in Seq(CxBlocks) /\ DOMAIN <<u>> = {1} /\ <<u>>[1] = u
  BY <1>1
<1> QED BY <1>1, <1>2 DEF CxIds, CxWhole, u

LEMMA NoBlock == <<>> \in Seq(CxBlocks) /\ CxIds(<<>>) = {} /\ CxWhole(<<>>)
  BY DEF CxIds, CxWhole

\* The walk over links from something that tells.
LEMMA EnqueueSteps ==
    ASSUME NEW b, CxShape(b), b.at = "links", CxTells(b), NEW id \in CxDoc, NEW t \in BOOLEAN,
           cxWorld.policy = NoCxDoc => t = FALSE,
           cxDocs[id] \in CxDocs, id \in CxCovered(b),
           b.ask \in CxDoc => b.ask \in b.seen /\ (b.ask \in b.dirty \/ Readable(b.ask)),
           \A u \in b.seen :
              u = id \/ u \in CxQueued(b) \/ u \in b.dirty \cup b.unread \/ ~Readable(u) \/ CxFollowed(b, u)
    PROVE  CxBuildOK(Enqueue(b, cxDocs[id].links, t))
<1> DEFINE links == cxDocs[id].links
           y == Enqueue(b, links, t)
<1>1. links \in Seq(CxDoc)
  BY DEF CxDocs
<1>2. CxWalk(b)
  BY DEF CxShape
<1> HIDE DEF links
<1>3. /\ LookedOn(b, y)
      /\ y.limited \/ \A i \in DOMAIN links : links[i] \in y.seen
      /\ cxWorld.policy = NoCxDoc /\ t = FALSE /\ CxPlain(b) => CxPlain(y)
  BY <1>1, <1>2, EnqueueKeeps
<1> HIDE DEF y
<1>4. /\ y.at = b.at /\ y.head = b.head /\ y.deps = b.deps /\ y.profiles = b.profiles /\ y.base = b.base
      /\ y.omitted = b.omitted /\ y.summed = b.summed /\ y.next = b.next /\ y.dirty = b.dirty /\ y.ask = b.ask
      /\ y.unread = b.unread
  BY <1>3 DEF LookedOn, CxFields
<1>5. CxWalk(y) /\ b.seen \subseteq y.seen /\ y.seen \subseteq b.seen \cup CxQueued(y)
      /\ CxQueued(b) \subseteq CxQueued(y) /\ (b.limited => y.limited)
  BY <1>3 DEF LookedOn
<1>6. CxCovered(y) = CxCovered(b)
  BY <1>4 DEF CxCovered, CxShown
<1>7. CxShape(y)
  BY <1>4, <1>5, <1>6 DEF CxShape
<1>8. CxFollowed(y, id)
  BY <1>3, <1>6 DEF CxFollowed, links
<1>9. \A u \in b.seen : CxFollowed(b, u) => CxFollowed(y, u)
  BY <1>5, <1>6 DEF CxFollowed
<1>10. CxFollows(y)
  BY <1>4, <1>5, <1>8, <1>9 DEF CxFollows
<1>11. CxTells(y)
  BY <1>3, <1>4, <1>6 DEF CxTells
<1> QED BY <1>7, <1>10, <1>11 DEF CxBuildOK, y, links

LEMMA StartTells ==
    ASSUME CxInv, NEW saves \in BOOLEAN, NEW reads \in BOOLEAN, NEW lists \in BOOLEAN, Start(saves, reads, lists)
    PROVE  CxInv'
<1> DEFINE w == cxWorld
           has == reads /\ w.active # NoCxDoc /\ Readable(w.active)
           shown == IF has THEN <<Block(w.active, cxDocs[w.active].size)>> ELSE <<>>
           focuses == IF lists /\ w.focuses THEN <<Block("focuses", 0)>> ELSE <<>>
           used == (IF has THEN cxDocs[w.active].size + CxHeader ELSE 0)
                     + (IF lists /\ w.focuses THEN CxFocuses ELSE 0)
           empty == [ at |-> "links", used |-> used, head |-> shown \o focuses, deps |-> <<>>, profiles |-> <<>>,
                      base |-> <<>>, omitted |-> {}, summed |-> {}, queue |-> <<>>, inspected |-> 0,
                      seen |-> IF has THEN {w.active} ELSE {}, limited |-> FALSE, next |-> 1, dirty |-> {},
                      unread |-> {}, ask |-> IF has THEN w.active ELSE NoCxDoc ]
           y == IF has THEN Enqueue(empty, cxDocs[w.active].links, w.active = w.policy) ELSE empty
<1>1. cxBuild' = y /\ cxWorld' = cxWorld /\ cxDocs' = cxDocs
  BY DEF Start
<1>2. w.active \in CxDoc \cup {NoCxDoc}
  BY DEF CxInv, CxSeats
<1>3. has => w.active \in CxDoc /\ cxDocs[w.active] \in CxDocs
  BY <1>2 DEF Readable, CxInv
<1>4. shown \in Seq(CxBlocks) /\ CxWhole(shown) /\ CxIds(shown) = IF has THEN {w.active} ELSE {}
  <2>1. CASE has
    <3>1. cxDocs[w.active].size \in Nat /\ w.active \in CxDoc
      BY <1>3, <2>1 DEF CxDocs
    <3> DEFINE k == cxDocs[w.active].size
               a == w.active
    <3> HIDE DEF has, k, a
    <3>2. LET r == <<Block(a, k)>> IN r \in Seq(CxBlocks) /\ CxIds(r) = {a} /\ CxWhole(r)
      BY <3>1, OneBlock DEF k, a
    <3> QED BY <2>1, <3>2 DEF k, a
  <2>2. CASE ~has
    <3> HIDE DEF has
    <3> QED BY <2>2, NoBlock
  <2> QED BY <2>1, <2>2
<1>5. focuses \in Seq(CxBlocks) /\ CxWhole(focuses) /\ CxIds(focuses) \subseteq CxLabels
  <2>1. LET r == <<Block("focuses", 0)>> IN r \in Seq(CxBlocks) /\ CxIds(r) = {"focuses"} /\ CxWhole(r)
    BY OneBlock DEF CxLabels
  <2>2. "focuses" \in CxLabels
    BY DEF CxLabels
  <2> QED BY <2>1, <2>2, NoBlock
<1> DEFINE head == shown \o focuses
<1> HIDE DEF shown, focuses
<1>6. head \in Seq(CxBlocks) /\ CxWhole(head) /\ CxIds(head) = CxIds(shown) \cup CxIds(focuses)
  BY <1>4, <1>5, JoinedBlocks
<1> HIDE DEF head
<1>7. /\ DOMAIN empty = CxFields /\ empty.at = "links" /\ empty.head = head /\ empty.deps = <<>>
      /\ empty.profiles = <<>> /\ empty.base = <<>> /\ empty.omitted = {} /\ empty.summed = {}
      /\ empty.queue = <<>> /\ empty.limited = FALSE /\ empty.next = 1 /\ empty.dirty = {}
  BY DEF CxFields, head
<1>8. empty.seen = (IF has THEN {w.active} ELSE {}) /\ empty.ask = (IF has THEN w.active ELSE NoCxDoc)
  OBVIOUS
<1> HIDE DEF empty, has, used
<1>9. CxQueued(empty) = {} /\ CxPlain(empty)
  BY <1>7 DEF CxQueued, CxPlain
<1>10. CxCovered(empty) = CxIds(head)
  BY <1>7, NoBlock DEF CxCovered, CxShown
<1>11. CxShape(empty)
  <2>1. CxWalk(empty)
    <3>1. <<>> \in Seq(CxTurn)
      OBVIOUS
    <3> QED BY <1>3, <1>7, <1>8, <3>1 DEF CxWalk
  <2> QED BY <1>6, <1>7, <2>1, NoBlock DEF CxShape
<1>12. \A id \in CxDoc \cap CxCovered(empty) : has /\ id = w.active
  BY <1>4, <1>5, <1>6, <1>10, ContextAssumption
<1>13. CxTells(empty)
  <2>1. \A i \in DOMAIN cxWorld.profiles : ~(i < 1)
    <3>1. cxWorld.profiles \in Seq([id : CxLabels, size : Nat, whole : {TRUE}])
      BY DEF CxInv, CxSeats
    <3> QED BY <3>1
  <2> QED BY <1>7, <1>9, <1>12, <2>1 DEF CxTells, has
<1>14. CxBuildOK(y)
  <2>1. CASE has
    <3> DEFINE id == w.active
               t == w.active = w.policy
               e == empty
    <3>1. id \in CxDoc /\ cxDocs[id] \in CxDocs /\ Readable(id) /\ t \in BOOLEAN
      BY <1>3, <2>1 DEF has
    <3>2. cxWorld.policy = NoCxDoc => t = FALSE
      BY <3>1, ContextAssumption
    <3>3. id \in CxCovered(e) /\ e.seen = {id} /\ e.ask = id
      BY <1>4, <1>6, <1>8, <1>10, <2>1
    <3>4. CxShape(e) /\ e.at = "links" /\ CxTells(e)
      BY <1>7, <1>11, <1>13
    <3>5. y = Enqueue(e, cxDocs[id].links, t)
      BY <2>1
    <3> HIDE DEF y, id, t, e
    <3> QED BY <3>1, <3>2, <3>3, <3>4, <3>5, EnqueueSteps
  <2>2. CASE ~has
    <3>1. y = empty
      BY <2>2
    <3>2. CxFollows(empty)
      BY <1>8, <2>2, ContextAssumption DEF CxFollows
    <3> QED BY <1>11, <1>13, <3>1, <3>2 DEF CxBuildOK
  <2> QED BY <2>1, <2>2
<1> HIDE DEF y
<1> QED BY <1>1, <1>14, OwnBuild

LEMMA VisitTells == ASSUME CxInv, NEW reads \in BOOLEAN, Visit(reads) PROVE CxInv'
<1> DEFINE c == cxBuild
           id == c.queue[1][1]
           t == c.queue[1][2]
           b == [c EXCEPT !.queue = Tail(@)]
           d == cxDocs[id]
           fits == d.size + CxHeader <= Left(b)
           more == IF fits THEN [b EXCEPT !.used = @ + d.size + CxHeader, !.deps = Append(@, Block(id, d.size))]
                   ELSE [b EXCEPT !.omitted = @ \cup {id}]
           skip == [b EXCEPT !.unread = @ \cup {id}]
           y == IF ~reads THEN skip
                ELSE IF d = NoCxDoc \/ (~t /\ ~Readable(id)) THEN b ELSE Enqueue(more, d.links, t)
<1>1. cxBuild' = y /\ cxWorld' = cxWorld /\ cxDocs' = cxDocs /\ c.at = "links" /\ c.queue # <<>>
  BY DEF Visit, LinksOf
<1>2. CxBuildOK(c)
  BY <1>1 DEF CxInv
<1>3. CxWalk(c) /\ CxShape(c) /\ CxFollows(c) /\ CxTells(c)
  BY <1>2 DEF CxBuildOK, CxShape
<1> DEFINE q == c.queue
           g == Tail(q)
<1>4. q \in Seq(CxTurn) /\ q # <<>>
  BY <1>1, <1>3 DEF CxWalk
<1> HIDE DEF c
<1>5. /\ g \in Seq(CxTurn) /\ q[1] \in CxTurn /\ 1 \in DOMAIN q
      /\ \A i \in DOMAIN g : i + 1 \in DOMAIN q /\ g[i] = q[i + 1]
      /\ \A i \in DOMAIN q : i = 1 \/ (i - 1 \in DOMAIN g /\ g[i - 1] = q[i])
  <2> DEFINE T == CxTurn
  <2> HIDE DEF T, q
  <2>1. q \in Seq(T) /\ q # <<>>
    BY <1>4 DEF T
  <2>2. Len(q) \in Nat \ {0} /\ DOMAIN q = 1..Len(q) /\ g \in Seq(T) /\ Len(g) = Len(q) - 1
    BY <2>1
  <2>3. DOMAIN g = 1..Len(q) - 1 /\ \A i \in 1..Len(q) - 1 : g[i] = q[i + 1]
    BY <2>1, <2>2
  <2>4. \A i \in 1..Len(q) : i = 1 \/ (i - 1 \in 1..Len(q) - 1 /\ i - 1 + 1 = i)
    BY <2>2
  <2> QED BY <2>1, <2>2, <2>3, <2>4 DEF T
<1>6. id \in CxDoc /\ t \in BOOLEAN
  BY <1>5 DEF CxTurn
<1>7. d \in CxDocs \cup {NoCxDoc}
  BY <1>6 DEF CxInv
<1>8. DOMAIN b = CxFields /\ b.queue = g /\ \A f \in CxFields \ {"queue"} : b[f] = c[f]
  BY <1>3 DEF CxWalk, CxFields
<1> HIDE DEF b, q, g
<1>9. /\ b.at = c.at /\ b.used = c.used /\ b.head = c.head /\ b.deps = c.deps /\ b.profiles = c.profiles /\ b.base = c.base
      /\ b.omitted = c.omitted /\ b.summed = c.summed /\ b.next = c.next /\ b.dirty = c.dirty /\ b.ask = c.ask
      /\ b.seen = c.seen /\ b.limited = c.limited /\ b.unread = c.unread
  BY <1>8 DEF CxFields
<1>10. CxQueued(c) = CxQueued(b) \cup {id} /\ (CxPlain(c) => CxPlain(b) /\ t = FALSE)
  BY <1>5, <1>8 DEF CxQueued, CxPlain, q
<1>11. CxCovered(b) = CxCovered(c)
  BY <1>9 DEF CxCovered, CxShown
<1>12. CxShape(b)
  BY <1>1, <1>3, <1>5, <1>8, <1>9, <1>11 DEF CxShape, CxWalk
<1>13. CxTells(b)
  BY <1>3, <1>9, <1>10, <1>11 DEF CxTells
<1>14. \A u \in b.seen : u = id \/ u \in CxQueued(b) \/ u \in b.dirty \cup b.unread \/ ~Readable(u) \/ CxFollowed(b, u)
  BY <1>3, <1>9, <1>10, <1>11 DEF CxFollows, CxFollowed
<1>15. b.ask \in CxDoc => b.ask \in b.seen /\ (b.ask \in b.dirty \/ Readable(b.ask))
  BY <1>3, <1>9 DEF CxFollows
<1>16. cxWorld.policy = NoCxDoc => t = FALSE
  BY <1>3, <1>10 DEF CxTells
<1>17. CxBuildOK(y)
  <2>1. CASE reads /\ (d = NoCxDoc \/ (~t /\ ~Readable(id)))
    <3>1. y = b /\ ~Readable(id)
      BY <2>1 DEF Readable
    <3>2. CxFollows(b)
      BY <1>14, <1>15, <3>1 DEF CxFollows
    <3> QED BY <1>12, <1>13, <3>1, <3>2 DEF CxBuildOK
  <2>2. CASE reads /\ ~(d = NoCxDoc \/ (~t /\ ~Readable(id)))
    <3>1. y = Enqueue(more, d.links, t)
      BY <2>2
    <3>2. d \in CxDocs /\ d.size \in Nat
      BY <1>7, <2>2 DEF CxDocs
    <3>3. /\ DOMAIN more = CxFields
          /\ \A f \in CxFields \ {"used", "deps", "omitted"} : more[f] = b[f]
          /\ more.deps \in Seq(CxBlocks) /\ (CxWhole(b.deps) => CxWhole(more.deps))
          /\ CxIds(more.deps) \cup more.omitted = CxIds(b.deps) \cup b.omitted \cup {id}
      <4>1. b.deps \in Seq(CxBlocks)
        BY <1>12 DEF CxShape
      <4> DEFINE r == Append(b.deps, Block(id, d.size))
                 k == d.size
                 v == b.used + d.size + CxHeader
      <4>2. r \in Seq(CxBlocks) /\ CxIds(r) = CxIds(b.deps) \cup {id} /\ (CxWhole(b.deps) => CxWhole(r))
        <5> HIDE DEF id, d
        <5> QED BY <1>6, <3>2, <4>1, AppendedBlock
      <4>3. CASE fits
        <5>1. more = [b EXCEPT !.used = v, !.deps = r]
          BY <4>3
        <5> HIDE DEF r, v, id, d, fits
        <5>2. /\ DOMAIN more = CxFields /\ more.deps = r /\ more.omitted = b.omitted
              /\ \A f \in CxFields \ {"used", "deps"} : more[f] = b[f]
          BY <1>8, <5>1 DEF CxFields
        <5> HIDE DEF more
        <5> QED BY <4>2, <5>2
      <4>4. CASE ~fits
        <5>1. more = [b EXCEPT !.omitted = @ \cup {id}]
          BY <4>4
        <5> HIDE DEF r, v, id, d, fits
        <5>2. /\ DOMAIN more = CxFields /\ more.deps = b.deps /\ more.omitted = b.omitted \cup {id}
              /\ \A f \in CxFields \ {"omitted"} : more[f] = b[f]
          BY <1>8, <5>1 DEF CxFields
        <5> HIDE DEF more
        <5> QED BY <4>1, <5>2
      <4> QED BY <4>3, <4>4
    <3> HIDE DEF more, y
    <3>4. /\ more.at = b.at /\ more.head = b.head /\ more.profiles = b.profiles /\ more.base = b.base
          /\ more.summed = b.summed /\ more.next = b.next /\ more.dirty = b.dirty /\ more.ask = b.ask
          /\ more.seen = b.seen /\ more.limited = b.limited /\ more.queue = b.queue
          /\ more.unread = b.unread
      BY <3>3 DEF CxFields
    <3>5. CxCovered(more) = CxCovered(b) \cup {id}
      BY <1>1, <1>9, <3>3, <3>4 DEF CxCovered, CxShown
    <3>6. CxShape(more)
      BY <1>1, <1>9, <1>12, <3>3, <3>4, <3>5 DEF CxShape, CxWalk
    <3>7. t = FALSE => Readable(id)
      BY <2>2
    <3>8. CxTells(more)
      BY <1>1, <1>9, <1>13, <1>16, <3>4, <3>5, <3>7 DEF CxTells, CxPlain
    <3>9. \A u \in more.seen :
             u = id \/ u \in CxQueued(more) \/ u \in more.dirty \cup more.unread \/ ~Readable(u) \/ CxFollowed(more, u)
      BY <1>14, <3>4, <3>5 DEF CxQueued, CxFollowed
    <3> HIDE DEF id, t, d
    <3>10. CxBuildOK(Enqueue(more, cxDocs[id].links, t))
      BY <1>1, <1>6, <1>9, <1>15, <1>16, <3>2, <3>4, <3>5, <3>6, <3>8, <3>9, EnqueueSteps DEF d
    <3> QED BY <3>1, <3>10 DEF d
  <2>3. CASE ~reads
    <3>1. y = skip
      BY <2>3
    <3>2. DOMAIN skip = CxFields /\ skip.unread = b.unread \cup {id} /\ \A f \in CxFields \ {"unread"} : skip[f] = b[f]
      BY <1>8 DEF CxFields
    <3> HIDE DEF skip, y, id
    <3>3. /\ skip.at = b.at /\ skip.head = b.head /\ skip.deps = b.deps /\ skip.profiles = b.profiles
          /\ skip.base = b.base /\ skip.omitted = b.omitted /\ skip.summed = b.summed /\ skip.next = b.next
          /\ skip.dirty = b.dirty /\ skip.ask = b.ask /\ skip.seen = b.seen /\ skip.limited = b.limited
          /\ skip.queue = b.queue
      BY <3>2 DEF CxFields
    <3>4. CxCovered(skip) = CxCovered(b) /\ CxQueued(skip) = CxQueued(b)
      BY <3>3 DEF CxCovered, CxShown, CxQueued
    <3>5. CxShape(skip)
      BY <1>12, <3>2, <3>3, <3>4 DEF CxShape, CxWalk
    <3>6. CxFollows(skip)
      BY <1>14, <1>15, <3>2, <3>3, <3>4 DEF CxFollows, CxFollowed
    <3>7. CxTells(skip)
      BY <1>13, <3>2, <3>3, <3>4 DEF CxTells, CxPlain
    <3> QED BY <3>1, <3>5, <3>6, <3>7 DEF CxBuildOK
  <2> QED BY <2>1, <2>2, <2>3
<1> HIDE DEF y
<1> QED BY <1>1, <1>17, OwnBuild

LEMMA ProfileTells == ASSUME CxInv, NEW reads \in BOOLEAN, Profile(reads) PROVE CxInv'
<1> DEFINE c == cxBuild
           n == c.next
           p == cxWorld.profiles[n]
           b == [c EXCEPT !.next = @ + 1]
           v == b.used + p.size
           a == [b EXCEPT !.profiles = Append(@, p), !.used = v]
           z == [b EXCEPT !.unread = @ \cup {p.id}]
           y == IF reads THEN a ELSE z
<1>1. /\ cxBuild' = y /\ cxWorld' = cxWorld /\ cxDocs' = cxDocs /\ c.at = "links" /\ c.queue = <<>>
      /\ n <= Len(cxWorld.profiles)
  BY DEF Profile
<1>2. /\ CxShape(c) /\ CxFollows(c) /\ CxTells(c) /\ DOMAIN c = CxFields /\ n \in Nat \ {0}
      /\ c.profiles \in Seq(CxBlocks) /\ CxWhole(c.profiles)
  BY <1>1 DEF CxInv, CxBuildOK, CxShape, CxWalk
<1>3. p.id \in CxLabels /\ p.size \in Nat /\ p = Block(p.id, p.size)
  <2> DEFINE P == [id : CxLabels, size : Nat, whole : {TRUE}]
             q == cxWorld.profiles
  <2>1. q \in Seq(P)
    BY DEF CxInv, CxSeats
  <2>2. \A u \in P : u.id \in CxLabels /\ u.size \in Nat /\ u = Block(u.id, u.size)
    <3> SUFFICES ASSUME NEW u \in P PROVE u.id \in CxLabels /\ u.size \in Nat /\ u = Block(u.id, u.size)
      OBVIOUS
    <3>1. PICK i \in CxLabels, k \in Nat : u = [id |-> i, size |-> k, whole |-> TRUE]
      OBVIOUS
    <3> QED BY <3>1 DEF Block
  <2> HIDE DEF P, q, n
  <2>3. n \in DOMAIN q
    BY <1>1, <1>2, <2>1 DEF q
  <2>4. q[n] \in P
    BY <2>1, <2>3
  <2> QED BY <2>2, <2>4 DEF q
<1> HIDE DEF c, p
<1>4. DOMAIN b = CxFields /\ b.next = n + 1 /\ \A f \in CxFields \ {"next"} : b[f] = c[f]
  BY <1>2 DEF CxFields
<1> HIDE DEF b
<1>5. /\ DOMAIN y = CxFields /\ y.next = n + 1
      /\ \A f \in CxFields \ {"next", "profiles", "used", "unread"} : y[f] = c[f]
      /\ y.profiles \in Seq(CxBlocks) /\ CxWhole(y.profiles)
      /\ CxIds(c.profiles) \subseteq CxIds(y.profiles) /\ CxIds(y.profiles) \subseteq CxIds(c.profiles) \cup CxLabels
      /\ c.unread \subseteq y.unread /\ p.id \in CxIds(y.profiles) \cup y.unread
  <2>1. b.profiles = c.profiles /\ b.unread = c.unread
    BY <1>4 DEF CxFields
  <2>2. CASE reads
    <3> DEFINE k == p.size
               r == Append(c.profiles, Block(p.id, k))
    <3>1. r \in Seq(CxBlocks) /\ CxIds(r) = CxIds(c.profiles) \cup {p.id} /\ CxWhole(r)
      BY <1>2, <1>3, AppendedBlock
    <3>2. a = [b EXCEPT !.profiles = r, !.used = v]
      BY <1>3, <2>1
    <3>3. y = a
      BY <2>2
    <3> HIDE DEF r, v, a, y
    <3>4. /\ DOMAIN a = CxFields /\ a.profiles = r /\ a.next = b.next /\ a.unread = b.unread
          /\ \A f \in CxFields \ {"profiles", "used"} : a[f] = b[f]
      BY <1>4, <3>2 DEF CxFields
    <3> QED BY <1>3, <1>4, <2>1, <3>1, <3>3, <3>4
  <2>3. CASE ~reads
    <3>1. y = z
      BY <2>3
    <3>2. /\ DOMAIN z = CxFields /\ z.unread = b.unread \cup {p.id} /\ z.profiles = b.profiles /\ z.next = b.next
          /\ \A f \in CxFields \ {"unread"} : z[f] = b[f]
      BY <1>4 DEF CxFields
    <3> HIDE DEF z, y
    <3> QED BY <1>2, <1>4, <2>1, <3>1, <3>2
  <2> QED BY <2>2, <2>3
<1> HIDE DEF y, n
<1>6. /\ y.at = c.at /\ y.head = c.head /\ y.deps = c.deps /\ y.base = c.base /\ y.omitted = c.omitted
      /\ y.summed = c.summed /\ y.queue = c.queue /\ y.seen = c.seen /\ y.limited = c.limited
      /\ y.dirty = c.dirty /\ y.ask = c.ask
  BY <1>5 DEF CxFields
<1>7. /\ CxCovered(c) \subseteq CxCovered(y) /\ CxCovered(y) \subseteq CxCovered(c) \cup CxLabels
      /\ p.id \in CxCovered(y) \cup y.unread
  BY <1>1, <1>5, <1>6 DEF CxCovered, CxShown
<1>8. CxShape(y)
  BY <1>1, <1>2, <1>5, <1>6, <1>7 DEF CxShape, CxWalk
<1>9. CxFollows(y)
  BY <1>2, <1>5, <1>6, <1>7, SameFollows DEF CxSame
<1>10. CxTells(y)
  <2>1. ASSUME NEW i \in DOMAIN cxWorld.profiles, i < y.next
        PROVE  cxWorld.profiles[i].id \in CxCovered(y) \cup y.unread
    <3>1. CASE i = n
      BY <1>7, <3>1 DEF p
    <3>2. CASE i < n
      BY <1>2, <1>5, <1>7, <3>2 DEF CxTells, n
    <3>3. i \in Nat
      BY DEF CxInv, CxSeats
    <3> QED BY <1>2, <1>5, <2>1, <3>1, <3>2, <3>3
  <2>2. cxWorld.policy = NoCxDoc =>
           CxPlain(y) /\ \A id \in CxDoc \cap CxCovered(y) : Readable(id) \/ id \in y.dirty
    BY <1>2, <1>6, <1>7, ContextAssumption DEF CxTells, CxPlain
  <2> QED BY <1>1, <1>6, <2>1, <2>2 DEF CxTells
<1> QED BY <1>1, <1>8, <1>9, <1>10, OwnBuild DEF CxBuildOK

LEMMA ProfilesTell == ASSUME CxInv, Profiles PROVE CxInv'
<1> DEFINE c == cxBuild
           y == [c EXCEPT !.at = "base", !.next = 1]
<1>1. /\ cxBuild' = y /\ cxWorld' = cxWorld /\ cxDocs' = cxDocs /\ c.at = "links" /\ c.queue = <<>>
      /\ c.next > Len(cxWorld.profiles)
  BY DEF Profiles
<1>2. CxShape(c) /\ CxFollows(c) /\ CxTells(c) /\ DOMAIN c = CxFields /\ c.next \in Nat
  BY <1>1 DEF CxInv, CxBuildOK, CxShape, CxWalk
<1> HIDE DEF c
<1>3. DOMAIN y = CxFields /\ y.at = "base" /\ y.next = 1 /\ \A f \in CxFields \ {"at", "next"} : y[f] = c[f]
  BY <1>2 DEF CxFields
<1> HIDE DEF y
<1>4. /\ y.head = c.head /\ y.deps = c.deps /\ y.profiles = c.profiles /\ y.base = c.base /\ y.omitted = c.omitted
      /\ y.summed = c.summed /\ y.queue = c.queue /\ y.seen = c.seen /\ y.limited = c.limited
      /\ y.dirty = c.dirty /\ y.unread = c.unread /\ y.ask = c.ask
  BY <1>3 DEF CxFields
<1>5. CxCovered(y) = CxCovered(c)
  BY <1>1, <1>3, <1>4 DEF CxCovered, CxShown
<1>6. CxShape(y)
  BY <1>1, <1>2, <1>3, <1>4, <1>5 DEF CxShape, CxWalk
<1>7. CxFollows(y)
  BY <1>2, <1>4, <1>5, SameFollows DEF CxSame
<1>8. \A i \in DOMAIN cxWorld.profiles : i < c.next
  <2>1. cxWorld.profiles \in Seq([id : CxLabels, size : Nat, whole : {TRUE}])
    BY DEF CxInv, CxSeats
  <2>2. Len(cxWorld.profiles) \in Nat /\ DOMAIN cxWorld.profiles = 1..Len(cxWorld.profiles)
    BY <2>1
  <2> QED BY <1>1, <1>2, <2>2
<1>9. CxTells(y)
  BY <1>2, <1>4, <1>5, <1>8 DEF CxTells, CxPlain
<1> QED BY <1>1, <1>6, <1>7, <1>9, OwnBuild DEF CxBuildOK

LEMMA BaseTells ==
    ASSUME CxInv, NEW include \in BOOLEAN, NEW reads \in BOOLEAN, Base(include, reads)
    PROVE  CxInv'
<1> DEFINE c == cxBuild
           id == CxBase[c.next]
           there == id = c.ask \/ \E i \in DOMAIN c.deps : c.deps[i].id = id
           b == [c EXCEPT !.next = @ + 1]
           z == [b EXCEPT !.next = Len(CxBase) + 1]
           v == b.used + cxDocs[id].size
           a == [b EXCEPT !.base = Append(@, Block(id, cxDocs[id].size)), !.used = v]
           y == IF ~include THEN z ELSE IF there \/ ~reads \/ ~Readable(id) THEN b ELSE a
<1>1. cxBuild' = y /\ cxWorld' = cxWorld /\ cxDocs' = cxDocs /\ c.at = "base" /\ c.next <= Len(CxBase)
  BY DEF Base
<1>2. CxShape(c) /\ CxFollows(c) /\ CxTells(c) /\ DOMAIN c = CxFields /\ c.next \in Nat \ {0}
  BY <1>1 DEF CxInv, CxBuildOK, CxShape, CxWalk
<1>3. id \in CxDoc /\ Len(CxBase) \in Nat
  BY <1>1, <1>2, ContextAssumption
<1> HIDE DEF c, id, there
<1>4. DOMAIN b = CxFields /\ b.next = c.next + 1 /\ \A f \in CxFields \ {"next"} : b[f] = c[f]
  BY <1>2 DEF CxFields
<1> HIDE DEF b
<1>5. /\ DOMAIN y = CxFields /\ \A f \in CxFields \ {"next", "used", "base"} : y[f] = c[f]
      /\ y.next \in Nat \ {0} /\ y.base \in Seq(CxBlocks) /\ (CxWhole(c.base) => CxWhole(y.base))
      /\ CxIds(c.base) \subseteq CxIds(y.base)
      /\ \A k \in CxIds(y.base) : k \in CxIds(c.base) \/ Readable(k)
  <2>1. c.base \in Seq(CxBlocks) /\ b.base = c.base
    BY <1>2, <1>4 DEF CxShape, CxFields
  <2>2. CASE ~include
    <3>1. y = z
      BY <2>2
    <3>2. DOMAIN z = CxFields /\ z.next = Len(CxBase) + 1 /\ \A f \in CxFields \ {"next"} : z[f] = b[f]
      BY <1>4 DEF CxFields
    <3> HIDE DEF z
    <3>3. z.base = c.base /\ \A f \in CxFields \ {"next", "used", "base"} : z[f] = c[f]
      BY <1>4, <2>1, <3>2 DEF CxFields
    <3> HIDE DEF y
    <3> QED BY <1>3, <2>1, <3>1, <3>2, <3>3
  <2>3. CASE include /\ (there \/ ~reads \/ ~Readable(id))
    <3>1. y = b
      BY <2>3
    <3> HIDE DEF y
    <3> QED BY <1>2, <1>4, <2>1, <3>1
  <2>4. CASE include /\ ~(there \/ ~reads \/ ~Readable(id))
    <3>1. y = a /\ Readable(id)
      BY <2>4
    <3>2. cxDocs[id].size \in Nat
      <4>1. cxDocs[id] \in CxDocs
        BY <1>3, <3>1 DEF Readable, CxInv
      <4> QED BY <4>1 DEF CxDocs
    <3> DEFINE k == cxDocs[id].size
               r == Append(c.base, Block(id, k))
    <3> HIDE DEF k
    <3>3. r \in Seq(CxBlocks) /\ CxIds(r) = CxIds(c.base) \cup {id} /\ (CxWhole(c.base) => CxWhole(r))
      BY <1>3, <2>1, <3>2, AppendedBlock DEF k
    <3>4. a = [b EXCEPT !.base = r, !.used = v]
      BY <2>1 DEF k
    <3> HIDE DEF r, v, a
    <3>5. DOMAIN a = CxFields /\ a.base = r /\ a.next = b.next /\ \A f \in CxFields \ {"base", "used"} : a[f] = b[f]
      BY <1>4, <3>4 DEF CxFields
    <3>6. a.next \in Nat \ {0} /\ \A f \in CxFields \ {"next", "used", "base"} : a[f] = c[f]
      BY <1>2, <1>4, <3>5
    <3> HIDE DEF y
    <3> QED BY <3>1, <3>3, <3>5, <3>6
  <2> QED BY <2>2, <2>3, <2>4
<1> HIDE DEF y
<1>6. /\ y.at = c.at /\ y.head = c.head /\ y.deps = c.deps /\ y.profiles = c.profiles /\ y.omitted = c.omitted
      /\ y.summed = c.summed /\ y.queue = c.queue /\ y.seen = c.seen /\ y.limited = c.limited /\ y.dirty = c.dirty
      /\ y.ask = c.ask /\ y.unread = c.unread
  BY <1>5 DEF CxFields
<1>7. /\ CxCovered(c) \subseteq CxCovered(y)
      /\ \A k \in CxCovered(y) : k \in CxCovered(c) \/ Readable(k)
  BY <1>1, <1>5, <1>6 DEF CxCovered, CxShown
<1>8. CxSame(c, y)
  BY <1>6, <1>7 DEF CxSame
<1>9. CxShape(y)
  BY <1>1, <1>2, <1>5, <1>6, <1>7 DEF CxShape, CxWalk
<1>10. CxFollows(y)
  BY <1>2, <1>8, SameFollows
<1>11. CxTells(y)
  BY <1>1, <1>2, <1>7, <1>8, SameTells
<1> QED BY <1>1, <1>9, <1>10, <1>11, OwnBuild DEF CxBuildOK

LEMMA CompressTells == ASSUME CxInv, Compress PROVE CxInv'
<1> DEFINE c == cxBuild
           a == Dropped(c, "profiles")
           b == Dropped(a, "base")
           blocks == b.head \o b.deps \o b.profiles \o b.base
           y == [b EXCEPT !.at = "model", !.deps = blocks, !.next = Len(blocks)]
<1>1. cxBuild' = y /\ cxWorld' = cxWorld /\ cxDocs' = cxDocs /\ c.at = "base"
  BY DEF Compress
<1>2. CxShape(c) /\ CxFollows(c) /\ CxTells(c) /\ DOMAIN c = CxFields
  BY <1>1 DEF CxInv, CxBuildOK, CxShape, CxWalk
<1>3. CxDropped(c, a, "profiles")
  BY <1>2, DroppedKeeps DEF CxShape
<1> HIDE DEF c, a
<1>4. a.base = c.base /\ DOMAIN a = CxFields /\ a.base \in Seq(CxBlocks)
  BY <1>2, <1>3 DEF CxDropped, CxShape, CxFields
<1>5. CxDropped(a, b, "base")
  BY <1>4, DroppedKeeps
<1> HIDE DEF b
<1>6. /\ DOMAIN b = CxFields
      /\ b.head = c.head /\ b.deps = c.deps /\ b.summed = c.summed /\ b.queue = c.queue /\ b.seen = c.seen
      /\ b.limited = c.limited /\ b.dirty = c.dirty /\ b.ask = c.ask /\ b.profiles = a.profiles
      /\ b.unread = c.unread
  BY <1>3, <1>5 DEF CxDropped, CxFields
<1>7. /\ b.head \in Seq(CxBlocks) /\ b.deps \in Seq(CxBlocks) /\ b.profiles \in Seq(CxBlocks) /\ b.base \in Seq(CxBlocks)
      /\ CxWhole(b.head) /\ CxWhole(b.deps) /\ CxWhole(b.profiles) /\ CxWhole(b.base)
  BY <1>1, <1>2, <1>3, <1>4, <1>5, <1>6 DEF CxShape, CxDropped
<1>8. CxIds(b.profiles) \cup CxIds(b.base) \cup b.omitted = CxIds(c.profiles) \cup CxIds(c.base) \cup c.omitted
  <2>1. CxIds(a.profiles) \cup a.omitted = CxIds(c.profiles) \cup c.omitted
    BY <1>3 DEF CxDropped
  <2>2. CxIds(b.base) \cup b.omitted = CxIds(c.base) \cup a.omitted
    BY <1>4, <1>5 DEF CxDropped
  <2> QED BY <1>6, <2>1, <2>2
<1>9. /\ blocks \in Seq(CxBlocks) /\ CxWhole(blocks)
      /\ CxIds(blocks) = CxIds(b.head) \cup CxIds(b.deps) \cup CxIds(b.profiles) \cup CxIds(b.base)
  <2> DEFINE h == b.head \o b.deps
             k == h \o b.profiles
  <2>1. h \in Seq(CxBlocks) /\ CxIds(h) = CxIds(b.head) \cup CxIds(b.deps) /\ CxWhole(h)
    BY <1>7, JoinedBlocks
  <2> HIDE DEF h
  <2>2. k \in Seq(CxBlocks) /\ CxIds(k) = CxIds(h) \cup CxIds(b.profiles) /\ CxWhole(k)
    BY <1>7, <2>1, JoinedBlocks
  <2> HIDE DEF k
  <2>3. k \o b.base \in Seq(CxBlocks) /\ CxIds(k \o b.base) = CxIds(k) \cup CxIds(b.base) /\ CxWhole(k \o b.base)
    BY <1>7, <2>2, JoinedBlocks
  <2>4. blocks = k \o b.base
    BY DEF k, h
  <2> QED BY <2>1, <2>2, <2>3, <2>4
<1> HIDE DEF blocks
<1>10. /\ DOMAIN y = CxFields /\ y.at = "model" /\ y.deps = blocks /\ y.next = Len(blocks)
       /\ \A f \in CxFields \ {"at", "deps", "next"} : y[f] = b[f]
  BY <1>6 DEF CxFields
<1> HIDE DEF y
<1>11. /\ y.head = b.head /\ y.profiles = b.profiles /\ y.base = b.base /\ y.omitted = b.omitted /\ y.summed = c.summed
       /\ y.queue = c.queue /\ y.seen = c.seen /\ y.limited = c.limited /\ y.dirty = c.dirty /\ y.ask = c.ask
       /\ y.unread = c.unread
  BY <1>6, <1>10 DEF CxFields
<1>12. CxCovered(y) = CxCovered(c)
  <2>1. CxCovered(y) = CxIds(blocks) \cup b.omitted
    BY <1>10, <1>11 DEF CxCovered, CxShown
  <2>2. CxCovered(c) = CxIds(c.head) \cup CxIds(c.deps) \cup CxIds(c.profiles) \cup CxIds(c.base) \cup c.omitted
    BY <1>1 DEF CxCovered, CxShown
  <2> QED BY <1>6, <1>8, <1>9, <2>1, <2>2
<1>13. CxSame(c, y)
  BY <1>11, <1>12 DEF CxSame
<1>14. CxShape(y)
  <2>1. CxWalk(y)
    BY <1>2, <1>10, <1>11 DEF CxShape, CxWalk
  <2>2. y.next \in 0..Len(y.deps)
    BY <1>9, <1>10
  <2> QED BY <1>1, <1>2, <1>7, <1>9, <1>10, <1>11, <1>12, <2>1, <2>2 DEF CxShape, CxWhole
<1>15. CxFollows(y)
  BY <1>2, <1>13, SameFollows
<1>16. CxTells(y)
  BY <1>1, <1>2, <1>12, <1>13, SameTells
<1> QED BY <1>1, <1>14, <1>15, <1>16, OwnBuild DEF CxBuildOK

LEMMA SummariseTells == ASSUME CxInv, NEW size \in CxSizes, Summarise(size) PROVE CxInv'
<1> DEFINE c == cxBuild
           n == c.next
           u == c.deps[n]
           budget == IF Limit \div 2 > CxLeast THEN Limit \div 2 ELSE CxLeast
           z == [c EXCEPT !.next = @ - 1]
           v == Less(c.used, u.size) + size
           m == [u EXCEPT !.size = size, !.whole = FALSE]
           a == [c EXCEPT !.next = @ - 1, !.summed = @ \cup {u.id}, !.used = v, !.deps[n] = m]
           y == IF u.size <= budget \/ size >= u.size THEN z ELSE a
<1>1. cxBuild' = y /\ cxWorld' = cxWorld /\ cxDocs' = cxDocs /\ c.at = "model" /\ n > 0
  BY DEF Summarise
<1>2. CxShape(c) /\ CxFollows(c) /\ CxTells(c) /\ DOMAIN c = CxFields /\ n \in 0..Len(c.deps)
      /\ c.deps \in Seq(CxBlocks)
  BY <1>1 DEF CxInv, CxBuildOK, CxShape, CxWalk
<1> HIDE DEF c
<1>3. n \in DOMAIN c.deps /\ u \in CxBlocks /\ n - 1 \in 0..Len(c.deps)
  BY <1>1, <1>2
<1> DEFINE r == [c.deps EXCEPT ![n] = m]
<1>4. m \in CxBlocks /\ m.id = u.id
  BY <1>3, ContextAssumption DEF CxBlocks
<1> HIDE DEF m, u
<1>5. /\ r \in Seq(CxBlocks) /\ Len(r) = Len(c.deps) /\ DOMAIN r = DOMAIN c.deps /\ r[n] = m
      /\ \A i \in DOMAIN r : i # n => r[i] = c.deps[i]
  <2> DEFINE T == CxBlocks
             q == c.deps
  <2> HIDE DEF T, q
  <2>1. q \in Seq(T) /\ m \in T /\ n \in DOMAIN q
    BY <1>2, <1>3, <1>4 DEF T, q
  <2>2. [q EXCEPT ![n] = m] \in Seq(T) /\ Len([q EXCEPT ![n] = m]) = Len(q)
    BY <2>1
  <2> QED BY <2>1, <2>2 DEF T, q
<1>6. CxIds(r) = CxIds(c.deps)
  BY <1>3, <1>4, <1>5 DEF CxIds, u
<1> HIDE DEF n
<1>7. /\ DOMAIN y = CxFields /\ \A f \in CxFields \ {"next", "summed", "used", "deps"} : y[f] = c[f]
      /\ y.next = n - 1
      /\ \/ y.summed = c.summed /\ y.deps = c.deps
         \/ y.summed = c.summed \cup {u.id} /\ y.deps = r
  <2>1. CASE u.size <= budget \/ size >= u.size
    <3>1. y = z
      BY <2>1
    <3>2. DOMAIN z = CxFields /\ z.next = n - 1 /\ \A f \in CxFields \ {"next"} : z[f] = c[f]
      BY <1>2 DEF CxFields, n
    <3> HIDE DEF y, z
    <3>3. z.summed = c.summed /\ z.deps = c.deps
      BY <3>2 DEF CxFields
    <3> QED BY <3>1, <3>2, <3>3
  <2>2. CASE ~(u.size <= budget \/ size >= u.size)
    <3>1. y = a
      BY <2>2
    <3>2. a = [c EXCEPT !.next = @ - 1, !.summed = @ \cup {u.id}, !.used = v, !.deps = r]
      OBVIOUS
    <3> HIDE DEF y, r, v, a
    <3>3. /\ DOMAIN a = CxFields /\ a.next = n - 1 /\ a.summed = c.summed \cup {u.id} /\ a.deps = r
          /\ \A f \in CxFields \ {"next", "summed", "used", "deps"} : a[f] = c[f]
      BY <1>2, <3>2 DEF CxFields, n
    <3> QED BY <3>1, <3>3
  <2> QED BY <2>1, <2>2
<1> HIDE DEF y, r
<1>8. /\ y.at = c.at /\ y.head = c.head /\ y.profiles = c.profiles /\ y.base = c.base /\ y.omitted = c.omitted
      /\ y.queue = c.queue /\ y.seen = c.seen /\ y.limited = c.limited /\ y.dirty = c.dirty /\ y.ask = c.ask
      /\ y.unread = c.unread
  BY <1>7 DEF CxFields
<1>9. CxCovered(y) = CxCovered(c)
  BY <1>1, <1>6, <1>7, <1>8 DEF CxCovered, CxShown
<1>10. CxSame(c, y)
  BY <1>8, <1>9 DEF CxSame
<1>11. u.id \in CxCovered(c)
  BY <1>1, <1>3 DEF CxCovered, CxShown, CxIds, u
<1>12. CxShape(y)
  <2>1. y.deps \in Seq(CxBlocks) /\ y.next \in 0..Len(y.deps) /\ y.summed \subseteq CxCovered(y)
    BY <1>2, <1>3, <1>5, <1>7, <1>9, <1>11 DEF CxShape
  <2>2. \A i \in DOMAIN c.deps : c.deps[i].whole = TRUE \/ c.deps[i].id \in c.summed
    BY <1>1, <1>2 DEF CxShape
  <2>3. \A i \in DOMAIN y.deps : y.deps[i].whole = TRUE \/ y.deps[i].id \in y.summed
    <3>1. CASE y.summed = c.summed /\ y.deps = c.deps
      BY <2>2, <3>1
    <3>2. CASE y.summed = c.summed \cup {u.id} /\ y.deps = r
      <4> SUFFICES ASSUME NEW i \in DOMAIN r PROVE r[i].whole = TRUE \/ r[i].id \in c.summed \cup {u.id}
        BY <3>2
      <4>1. CASE i = n
        BY <1>4, <1>5, <4>1
      <4>2. CASE i # n
        BY <1>5, <2>2, <4>2
      <4> QED BY <4>1, <4>2
    <3> QED BY <1>7, <3>1, <3>2
  <2>4. CxWalk(y)
    BY <1>2, <1>7, <1>8 DEF CxShape, CxWalk
  <2> QED BY <1>1, <1>2, <1>8, <2>1, <2>3, <2>4 DEF CxShape
<1>13. CxFollows(y)
  BY <1>2, <1>10, SameFollows
<1>14. CxTells(y)
  BY <1>1, <1>2, <1>9, <1>10, SameTells
<1> QED BY <1>1, <1>12, <1>13, <1>14, OwnBuild DEF CxBuildOK

LEMMA AnsweredTells == ASSUME CxInv, Answered PROVE CxInv'
<1> DEFINE c == cxBuild
           y == [c EXCEPT !.at = "answered"]
<1>1. cxBuild' = y /\ cxWorld' = cxWorld /\ cxDocs' = cxDocs /\ c.at = "model"
  BY DEF Answered
<1>2. CxShape(c) /\ CxFollows(c) /\ CxTells(c) /\ DOMAIN c = CxFields
  BY <1>1 DEF CxInv, CxBuildOK, CxShape, CxWalk
<1> HIDE DEF c
<1>3. DOMAIN y = CxFields /\ y.at = "answered" /\ \A f \in CxFields \ {"at"} : y[f] = c[f]
  BY <1>2 DEF CxFields
<1> HIDE DEF y
<1>4. /\ y.head = c.head /\ y.deps = c.deps /\ y.profiles = c.profiles /\ y.base = c.base /\ y.omitted = c.omitted
      /\ y.summed = c.summed /\ y.queue = c.queue /\ y.seen = c.seen /\ y.limited = c.limited /\ y.next = c.next
      /\ y.dirty = c.dirty /\ y.ask = c.ask /\ y.unread = c.unread
  BY <1>3 DEF CxFields
<1>5. CxCovered(y) = CxCovered(c)
  BY <1>1, <1>3, <1>4 DEF CxCovered, CxShown
<1>6. CxSame(c, y)
  BY <1>4, <1>5 DEF CxSame
<1>7. CxShape(y)
  BY <1>1, <1>2, <1>3, <1>4, <1>5 DEF CxShape, CxWalk
<1>8. CxFollows(y)
  BY <1>2, <1>6, SameFollows
<1>9. CxTells(y)
  BY <1>1, <1>2, <1>5, <1>6, SameTells
<1> QED BY <1>1, <1>7, <1>8, <1>9, OwnBuild DEF CxBuildOK

\* A changed document is no longer one that nobody has changed.
LEMMA ChangedTells ==
    ASSUME CxInv, NEW c, NEW y, NEW id \in CxDoc, CxBuildOK(c), cxWorld' = cxWorld,
           cxDocs' \in [CxDoc -> CxDocs \cup {NoCxDoc}], \A k \in CxDoc : k # id => cxDocs'[k] = cxDocs[k],
           y = [c EXCEPT !.dirty = @ \cup {id}], cxBuild' = y
    PROVE  CxInv'
<1>1. CxShape(c) /\ CxFollows(c) /\ CxTells(c) /\ DOMAIN c = CxFields
  BY DEF CxBuildOK, CxShape, CxWalk
<1>2. DOMAIN y = CxFields /\ y.dirty = c.dirty \cup {id} /\ \A f \in CxFields \ {"dirty"} : y[f] = c[f]
  BY <1>1 DEF CxFields
<1>3. /\ y.at = c.at /\ y.head = c.head /\ y.deps = c.deps /\ y.profiles = c.profiles /\ y.base = c.base
      /\ y.omitted = c.omitted /\ y.summed = c.summed /\ y.queue = c.queue /\ y.seen = c.seen
      /\ y.limited = c.limited /\ y.next = c.next /\ y.ask = c.ask /\ y.unread = c.unread
  BY <1>2 DEF CxFields
<1>4. CxCovered(y) = CxCovered(c) /\ CxQueued(y) = CxQueued(c)
  BY <1>3 DEF CxCovered, CxShown, CxQueued
<1>5. CxShape(y)
  BY <1>1, <1>2, <1>3, <1>4 DEF CxShape, CxWalk
<1>6. \A k \in CxDoc : k \in y.dirty \/ (k \notin c.dirty /\ cxDocs'[k] = cxDocs[k])
  BY <1>2
<1>7. ASSUME NEW k \in CxDoc, k \notin y.dirty PROVE Readable(k)' <=> Readable(k)
  BY <1>6, <1>7 DEF Readable
<1>8. (CxFollows(y))'
  <2>1. y.seen \subseteq CxDoc
    BY <1>5 DEF CxShape, CxWalk
  <2>2. ASSUME NEW u \in y.seen, u \notin y.dirty, u \notin y.unread, Readable(u)', u \notin CxQueued(y)
        PROVE  (CxFollowed(y, u))'
    <3>1. CxFollowed(c, u) /\ cxDocs'[u] = cxDocs[u]
      BY <1>1, <1>2, <1>3, <1>4, <1>6, <1>7, <2>1, <2>2 DEF CxFollows
    <3> QED BY <1>3, <1>4, <3>1 DEF CxFollowed
  <2>3. y.ask \in CxDoc => y.ask \in y.seen /\ (y.ask \in y.dirty \/ Readable(y.ask)')
    <3> SUFFICES ASSUME y.ask \in CxDoc, y.ask \notin y.dirty PROVE y.ask \in y.seen /\ Readable(y.ask)'
      BY <1>1, <1>2, <1>3 DEF CxFollows
    <3>1. y.ask \in y.seen /\ Readable(y.ask)
      BY <1>1, <1>2, <1>3 DEF CxFollows
    <3> QED BY <1>7, <3>1
  <2> QED BY <2>2, <2>3 DEF CxFollows
<1>9. (CxTells(y))'
  <2>1. \A i \in DOMAIN cxWorld.profiles :
           (y.at = "links" => i < y.next) => cxWorld.profiles[i].id \in CxCovered(y) \cup y.unread
    BY <1>1, <1>3, <1>4 DEF CxTells
  <2>2. cxWorld.policy = NoCxDoc => CxPlain(y)
    BY <1>1, <1>3 DEF CxTells, CxPlain
  <2>3. ASSUME cxWorld.policy = NoCxDoc, NEW k \in CxDoc \cap CxCovered(y), k \notin y.dirty PROVE Readable(k)'
    <3>1. Readable(k)
      BY <1>1, <1>2, <1>3, <1>4, <2>3 DEF CxTells
    <3> QED BY <1>7, <2>3, <3>1
  <2> QED BY <2>1, <2>2, <2>3 DEF CxTells
<1>10. (CxBuildOK(y))'
  BY <1>5, <1>8, <1>9 DEF CxBuildOK, CxShape
<1>11. (CxBuildOK(cxBuild))'
  BY <1>10 DEF CxBuildOK, CxShape, CxFollows, CxFollowed, CxTells
<1> QED BY <1>11 DEF CxInv

LEMMA ChangeTells ==
    ASSUME CxInv, NEW id \in CxDoc, NEW d \in CxDocs \cup {NoCxDoc}, ChangeDocument(id, d)
    PROVE  CxInv'
<1>1. cxDocs' = [cxDocs EXCEPT ![id] = d] /\ cxWorld' = cxWorld
  BY DEF ChangeDocument
<1>2. cxDocs' \in [CxDoc -> CxDocs \cup {NoCxDoc}] /\ \A k \in CxDoc : k # id => cxDocs'[k] = cxDocs[k]
  BY <1>1 DEF CxInv
<1>3. CASE cxBuild.at = "idle"
  <2>1. cxBuild' = cxBuild
    BY <1>3 DEF ChangeDocument
  <2> QED BY <1>1, <1>2, <1>3, <2>1 DEF CxInv
<1>4. CASE cxBuild.at # "idle"
  <2>1. cxBuild' = [cxBuild EXCEPT !.dirty = @ \cup {id}] /\ CxBuildOK(cxBuild)
    BY <1>4 DEF ChangeDocument, CxInv
  <2> QED BY <1>1, <1>2, <2>1, ChangedTells
<1> QED BY <1>3, <1>4

LEMMA ChangeLimitTells == ASSUME CxInv, ChangeLimit PROVE CxInv'
<1>1. cxWorld' \in CxSeats
  BY DEF CxInv, ChangeLimit, CxSeats
<1> QED BY <1>1 DEF CxInv, ChangeLimit

LEMMA ContextSteps == ASSUME CxInv, [CxNext]_cxVars PROVE CxInv'
<1>1. ASSUME NEW id \in CxDoc, NEW d \in UNION {{x.docs[i] : i \in CxDoc} : x \in CxWorlds}, ChangeDocument(id, d)
      PROVE  CxInv'
  <2>1. d \in CxDocs \cup {NoCxDoc}
    BY ContextAssumption
  <2> QED BY <1>1, <2>1, ChangeTells
<1>2. CASE Done
  BY <1>2 DEF Done, CxInv
<1>3. CASE UNCHANGED cxVars
  BY <1>3 DEF cxVars, CxInv, CxBuildOK, CxShape, CxFollows, CxFollowed, CxTells, Readable
<1> QED BY <1>1, <1>2, <1>3, StartTells, VisitTells, ProfileTells, ProfilesTell, BaseTells,
           CompressTells, SummariseTells, AnsweredTells, ChangeLimitTells DEF CxNext

\* What the walk has seen, may be read and nobody has changed is closed under links.
LEMMA AnsweredNames == CxInv => NothingSilent
<1> SUFFICES ASSUME CxInv, cxBuild.at = "answered" PROVE NothingSilent
  BY DEF NothingSilent
<1> DEFINE b == cxBuild
           whole == {b.deps[i].id : i \in {j \in DOMAIN b.deps : b.deps[j].whole}}
           named == b.omitted \cup b.summed
<1>1. CxShape(b) /\ CxFollows(b) /\ CxTells(b)
  BY DEF CxInv, CxBuildOK
<1>2. CxCovered(b) \subseteq whole \cup named
  <2> SUFFICES ASSUME NEW i \in DOMAIN b.deps PROVE b.deps[i].id \in whole \cup named
    BY DEF CxCovered, CxShown, CxIds
  <2>1. b.deps[i].whole = TRUE \/ b.deps[i].id \in b.summed
    BY <1>1 DEF CxShape
  <2> QED BY <2>1
<1>3. whole \cup named \subseteq CxCovered(b)
  BY <1>1 DEF CxShape, CxCovered, CxShown, CxIds
<1>4. CxQueued(b) = {}
  BY <1>1 DEF CxShape, CxQueued
<1> DEFINE S == {u \in b.seen : u \notin b.dirty \cup b.unread /\ Readable(u)}
<1>5. S \in SUBSET CxDoc
  BY <1>1 DEF CxShape, CxWalk
<1>6. b.limited \/ Linked \subseteq CxCovered(b)
  <2> SUFFICES ASSUME ~b.limited PROVE Linked \subseteq CxCovered(b)
    OBVIOUS
  <2>1. \A u \in S : CxFollowed(b, u)
    BY <1>1, <1>4 DEF CxFollows
  <2>2. b.ask \in CxDoc /\ Readable(b.ask) /\ b.ask \notin b.dirty \cup b.unread => b.ask \in S
    BY <1>1 DEF CxFollows
  <2>3. ASSUME NEW u \in S, NEW id \in CxDoc, Readable(id) /\ id \notin b.dirty \cup b.unread,
               \E i \in DOMAIN cxDocs[u].links : cxDocs[u].links[i] = id
        PROVE  id \in S
    <3>1. id \in b.seen
      BY <2>1, <2>3 DEF CxFollowed
    <3> QED BY <2>3, <3>1
  <2>4. Linked \subseteq S
    BY <1>5, <2>2, <2>3 DEF Linked
  <2> QED BY <2>1, <2>4 DEF CxFollowed
<1>7. \A i \in DOMAIN cxWorld.profiles : cxWorld.profiles[i].id \in whole \cup named \cup b.unread
  BY <1>1, <1>2 DEF CxTells
<1>8. cxWorld.policy = NoCxDoc => \A id \in CxDoc \cap (whole \cup named) : Readable(id) \/ id \in b.dirty
  BY <1>1, <1>3 DEF CxTells
<1> QED BY <1>2, <1>6, <1>7, <1>8 DEF NothingSilent

\* What build_context answers names what it leaves out or summarises, whatever other
\* calls change while it reads: for any documents, links, seats and limits.
THEOREM NothingStaysSilent == CxSpec => []NothingSilent
<1> QED BY InitContext, ContextSteps, AnsweredNames, PTL DEF CxSpec
=============================================================================

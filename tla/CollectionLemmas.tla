-------------------------- MODULE CollectionLemmas --------------------------
(***************************************************************************)
(* What the operators on sequences and sets that the modules are built     *)
(* from return: facts that the proofs about several components need.       *)
(***************************************************************************)
EXTENDS SequencesExt, FiniteSetTheorems, Subsequences, WellFoundedInduction, TLAPS

LEMMA InSequence ==
  ASSUME NEW S, NEW s \in Seq(S), NEW x
  PROVE  x \in ToSet(s) <=> \E i \in 1 .. Len(s) : s[i] = x
  BY DEF ToSet

\* The elements of a sequence.
LEMMA Elements ==
  ASSUME NEW S, NEW s \in Seq(S)
  PROVE  ToSet(s) \subseteq S /\ (s = <<>> => ToSet(s) = {})
  BY DEF ToSet

LEMMA Appended ==
  ASSUME NEW S, NEW s \in Seq(S), NEW e \in S
  PROVE  Append(s, e) \in Seq(S) /\ ToSet(Append(s, e)) = ToSet(s) \cup {e}
  <1> DEFINE t == Append(s, e)
  <1>1. /\ t \in Seq(S) /\ Len(t) = Len(s) + 1 /\ t[Len(s) + 1] = e
        /\ \A i \in 1 .. Len(s) : t[i] = s[i]
    OBVIOUS
  <1>2. \A x : x \in ToSet(t) <=> \E i \in 1 .. Len(t) : t[i] = x
    BY <1>1, InSequence
  <1>3. \A x : x \in ToSet(s) <=> \E i \in 1 .. Len(s) : s[i] = x
    BY InSequence
  <1>4. Len(s) \in Nat
    OBVIOUS
  <1> HIDE DEF t
  <1>5. ASSUME NEW x PROVE x \in ToSet(t) <=> x \in ToSet(s) \/ x = e
    BY <1>1, <1>2, <1>3, <1>4
  <1> QED BY <1>1, <1>5 DEF t

LEMMA Concatenated ==
  ASSUME NEW S, NEW s \in Seq(S), NEW t \in Seq(S)
  PROVE  /\ s \o t \in Seq(S) /\ Len(s \o t) = Len(s) + Len(t)
         /\ ToSet(s \o t) = ToSet(s) \cup ToSet(t)
  <1> DEFINE u == s \o t
  <1>1. /\ u \in Seq(S) /\ Len(u) = Len(s) + Len(t) /\ Len(s) \in Nat /\ Len(t) \in Nat
        /\ \A i \in 1 .. Len(s) : u[i] = s[i]
    OBVIOUS
  <1>2. \A i \in 1 .. Len(t) : u[Len(s) + i] = t[i]
    OBVIOUS
  <1>3. \A x : x \in ToSet(u) <=> \E i \in 1 .. Len(u) : u[i] = x
    BY <1>1, InSequence
  <1>4. \A x : x \in ToSet(s) <=> \E i \in 1 .. Len(s) : s[i] = x
    BY InSequence
  <1>5. \A x : x \in ToSet(t) <=> \E i \in 1 .. Len(t) : t[i] = x
    BY InSequence
  <1> HIDE DEF u
  <1>6. ASSUME NEW x \in ToSet(u) PROVE x \in ToSet(s) \/ x \in ToSet(t)
    <2>1. PICK i \in 1 .. Len(u) : u[i] = x
      BY <1>3
    <2>2. CASE i <= Len(s)
      BY <2>1, <2>2, <1>1, <1>4
    <2>3. CASE i > Len(s)
      <3>1. i - Len(s) \in 1 .. Len(t) /\ i = Len(s) + (i - Len(s))
        BY <2>3, <1>1
      <3> QED BY <3>1, <2>1, <1>2, <1>5
    <2> QED BY <2>2, <2>3, <1>1
  <1>7. ASSUME NEW x \in ToSet(s) PROVE x \in ToSet(u)
    BY <1>1, <1>3, <1>4
  <1>8. ASSUME NEW x \in ToSet(t) PROVE x \in ToSet(u)
    <2>1. PICK i \in 1 .. Len(t) : t[i] = x
      BY <1>5
    <2>2. Len(s) + i \in 1 .. Len(u)
      BY <1>1
    <2> QED BY <2>1, <2>2, <1>2, <1>3
  <1>9. u \in Seq(S) /\ Len(u) = Len(s) + Len(t) /\ ToSet(u) = ToSet(s) \cup ToSet(t)
    BY <1>1, <1>6, <1>7, <1>8
  <1> QED BY <1>9 DEF u

LEMMA Beheaded ==
  ASSUME NEW S, NEW s \in Seq(S), s # <<>>
  PROVE  /\ Tail(s) \in Seq(S) /\ Head(s) \in S
         /\ ToSet(s) = {Head(s)} \cup ToSet(Tail(s))
  <1>1. /\ Tail(s) \in Seq(S) /\ Len(Tail(s)) = Len(s) - 1
        /\ Len(s) \in Nat /\ Head(s) = s[1] /\ Len(s) >= 1
        /\ \A i \in 1 .. Len(s) - 1 : Tail(s)[i] = s[i + 1]
    OBVIOUS
  <1>2. \A x : x \in ToSet(s) <=> \E i \in 1 .. Len(s) : s[i] = x
    BY InSequence
  <1>3. \A x : x \in ToSet(Tail(s)) <=> \E i \in 1 .. Len(Tail(s)) : Tail(s)[i] = x
    BY <1>1, InSequence
  <1>4. ASSUME NEW x \in ToSet(s) PROVE x = Head(s) \/ x \in ToSet(Tail(s))
    <2>1. PICK i \in 1 .. Len(s) : s[i] = x
      BY <1>2
    <2>2. CASE i = 1
      BY <2>1, <2>2, <1>1
    <2>3. CASE i # 1
      <3>1. i - 1 \in 1 .. Len(Tail(s)) /\ Tail(s)[i - 1] = s[i]
        BY <2>3, <1>1
      <3> QED BY <3>1, <2>1, <1>3
    <2> QED BY <2>2, <2>3
  <1>5. ASSUME NEW x \in ToSet(Tail(s)) PROVE x \in ToSet(s)
    BY <1>1, <1>2, <1>3
  <1>6. Head(s) \in ToSet(s) /\ Head(s) \in S
    BY <1>1, <1>2
  <1> QED BY <1>1, <1>4, <1>5, <1>6

\* What the first n elements of a sequence are.
LEMMA Begun ==
  ASSUME NEW S, NEW s \in Seq(S), NEW n \in Nat, n <= Len(s)
  PROVE  /\ SubSeq(s, 1, n) \in Seq(S) /\ Len(SubSeq(s, 1, n)) = n
         /\ ToSet(SubSeq(s, 1, n)) \subseteq ToSet(s)
  BY DEF ToSet

LEMMA BoundedSequences ==
  ASSUME NEW S, NEW n \in Nat
  PROVE  BoundedSeq(S, n) = {s \in Seq(S) : Len(s) <= n}
  BY DEF BoundedSeq, SeqOf

\* A set whose elements are all equal has at most one.
LEMMA AtMostOne ==
  ASSUME NEW S, \A x, y \in S : x = y
  PROVE  Cardinality(S) <= 1
  <1>1. CASE S = {}
    BY <1>1, FS_EmptySet
  <1>2. CASE S # {}
    <2>1. PICK x : x \in S
      BY <1>2
    <2>2. S = {x}
      BY <2>1
    <2> QED BY <2>2, FS_Singleton
  <1> QED BY <1>1, <1>2

-----------------------------------------------------------------------------
LEMMA Counting ==
  ASSUME NEW T, 0 \in T, \A n \in Nat : n \in T => n + 1 \in T
  PROVE  Nat \subseteq T
  <1> SUFFICES ASSUME Nat \ T # {} PROVE FALSE
    OBVIOUS
  <1> DEFINE before == OpToRel(<, Nat)
             rest == Nat \ T
  <1>1. \A x, y \in Nat : x < y => <<x, y>> \in before
    BY Zenon DEF OpToRel
  <1>2. IsWellFoundedOn(before, Nat)
    BY Zenon, NatLessThanWellFounded
  <1>3. rest \subseteq Nat /\ rest # {}
    OBVIOUS
  <1> HIDE DEF before, rest
  <1>4. PICK x \in rest : \A y \in rest : <<y, x>> \notin before
    BY <1>2, <1>3, WFMin
  <1>5. x \in Nat /\ x \notin T
    BY <1>4 DEF rest
  <1>6. x # 0 /\ x - 1 \in Nat /\ (x - 1) + 1 = x /\ x - 1 < x
    BY <1>5
  <1>7. x - 1 \notin T
    BY <1>5, <1>6
  <1>8. x - 1 \in rest
    BY <1>6, <1>7 DEF rest
  <1> QED BY <1>1, <1>4, <1>5, <1>6, <1>8
\* A sequence is empty or one element longer than another.
LEMMA Lengthened ==
  ASSUME NEW S, NEW n \in Nat, NEW s \in Seq(S), Len(s) = n + 1
  PROVE  \E t \in Seq(S), e \in S : Len(t) = n /\ s = Append(t, e)
  <1> DEFINE t == SubSeq(s, 1, n)
  <1>1. t \in Seq(S) /\ Len(t) = n /\ \A i \in 1 .. n : t[i] = s[i]
    OBVIOUS
  <1>2. s[n + 1] \in S
    OBVIOUS
  <1> HIDE DEF t
  <1>3. Append(t, s[n + 1]) = s
    <2> DEFINE u == Append(t, s[n + 1])
    <2>1. u \in Seq(S) /\ Len(u) = n + 1 /\ u[n + 1] = s[n + 1] /\ \A i \in 1 .. n : u[i] = t[i]
      BY <1>1, <1>2
    <2> HIDE DEF u
    <2>2. \A i \in 1 .. n + 1 : u[i] = s[i]
      BY <1>1, <2>1
    <2>3. u = s
      BY <2>1, <2>2
    <2> QED BY <2>3 DEF u
  <1> QED BY <1>1, <1>2, <1>3

LEMMA OnlyNone ==
  ASSUME NEW S
  PROVE  Only(<<>>, S) = <<>>
  <1> DEFINE places == {i \in DOMAIN <<>> : <<>>[i] \in S}
  <1>1. places = {}
    OBVIOUS
  <1>2. Cardinality(places) = 0
    BY <1>1, FS_EmptySet
  <1> HIDE DEF places
  <1> QED BY <1>2 DEF Only, places

\* Every rank up to the size of a set of positions is the rank of one of them.
LEMMA RanksReached ==
  ASSUME NEW n \in Nat, NEW P \in SUBSET (1 .. n), NEW k \in 1 .. Cardinality(P)
  PROVE  \E i \in P : Cardinality({j \in P : j <= i}) = k
  <1> DEFINE Reached(Q, h) == \E i \in Q : Cardinality({j \in Q : j <= i}) = h
             all == {m \in Nat : \A Q \in SUBSET (1 .. m) : \A h \in 1 .. Cardinality(Q) : Reached(Q, h)}
  <1>1. 0 \in all
    <2> SUFFICES ASSUME NEW Q \in SUBSET (1 .. 0), NEW h \in 1 .. Cardinality(Q)
                 PROVE  FALSE
      OBVIOUS
    <2>1. Q = {}
      OBVIOUS
    <2> QED BY <2>1, FS_EmptySet
  <1>2. ASSUME NEW m \in Nat, m \in all PROVE m + 1 \in all
    <2> SUFFICES ASSUME NEW Q \in SUBSET (1 .. m + 1), NEW h \in 1 .. Cardinality(Q)
                 PROVE  Reached(Q, h)
      BY <1>2
    <2> DEFINE R == Q \ {m + 1}
    <2>1. R \in SUBSET (1 .. m)
      OBVIOUS
    <2>2. IsFiniteSet(Q) /\ IsFiniteSet(R) /\ Cardinality(Q) \in Nat /\ Cardinality(R) \in Nat
      <3>1. IsFiniteSet(1 .. m) /\ IsFiniteSet(1 .. m + 1)
        BY FS_Interval
      <3> QED BY <2>1, <3>1, FS_Subset, FS_CardinalityType
    <2>3. \A g \in 1 .. Cardinality(R) : Reached(R, g)
      BY <1>2, <2>1
    <2>4. CASE m + 1 \notin Q
      <3>1. R = Q
        BY <2>4
      <3> QED BY <2>3, <3>1
    <2>5. CASE m + 1 \in Q
      <3>1. Cardinality(Q) = Cardinality(R) + 1
        BY <2>2, <2>5, FS_RemoveElement
      <3>2. CASE h = Cardinality(Q)
        <4>1. {j \in Q : j <= m + 1} = Q
          <5>1. \A j \in Q : j <= m + 1
            OBVIOUS
          <5> QED BY <5>1
        <4> QED BY <2>5, <3>2, <4>1
      <3>3. CASE h # Cardinality(Q)
        <4>1. h \in 1 .. Cardinality(R)
          BY <2>2, <3>1, <3>3
        <4>2. PICK i \in R : Cardinality({j \in R : j <= i}) = h
          BY <2>3, <4>1
        <4>3. {j \in Q : j <= i} = {j \in R : j <= i}
          BY <2>1
        <4> QED BY <4>2, <4>3
      <3> QED BY <3>2, <3>3
    <2> QED BY <2>4, <2>5
  <1>3. Nat \subseteq all
    <2> HIDE DEF all
    <2> QED BY <1>1, <1>2, Counting
  <1> QED BY <1>3

LEMMA OnlyAppended ==
  ASSUME NEW T, NEW s \in Seq(T), NEW e \in T, NEW S
  PROVE  Only(Append(s, e), S) = IF e \in S THEN Append(Only(s, S), e) ELSE Only(s, S)
  <1> DEFINE n == Len(s)
             t == Append(s, e)
             old == {i \in DOMAIN s : s[i] \in S}
             new == {i \in DOMAIN t : t[i] \in S}
             c == Cardinality(old)
             OldRank(i) == Cardinality({j \in old : j <= i})
             NewRank(i) == Cardinality({j \in new : j <= i})
             OldAt(k) == CHOOSE i \in old : OldRank(i) = k
             NewAt(k) == CHOOSE i \in new : NewRank(i) = k
  <1>1. /\ DOMAIN s = 1 .. n /\ DOMAIN t = 1 .. n + 1 /\ n \in Nat
        /\ t[n + 1] = e /\ \A i \in 1 .. n : t[i] = s[i]
    OBVIOUS
  <1>2. old \in SUBSET (1 .. n) /\ n + 1 \notin old
    BY <1>1
  <1>3. (e \in S => new = old \cup {n + 1}) /\ (e \notin S => new = old)
    BY <1>1
  <1>4. IsFiniteSet(old) /\ c \in Nat
    <2>1. IsFiniteSet(1 .. n)
      BY <1>1, FS_Interval
    <2> HIDE DEF old
    <2> QED BY <1>2, <2>1, FS_Subset, FS_CardinalityType
  <1>5. Only(s, S) = [k \in 1 .. c |-> s[OldAt(k)]] /\ Only(t, S) = [k \in 1 .. Cardinality(new) |-> t[NewAt(k)]]
    BY DEF Only
  <1>6. \A i \in old : NewRank(i) = OldRank(i) /\ OldRank(i) \in Nat /\ OldRank(i) <= c
    <2> SUFFICES ASSUME NEW i \in old
                 PROVE  NewRank(i) = OldRank(i) /\ OldRank(i) \in Nat /\ OldRank(i) <= c
      OBVIOUS
    <2>1. {j \in new : j <= i} = {j \in old : j <= i}
      BY <1>1, <1>2, <1>3
    <2>2. {j \in old : j <= i} \in SUBSET old
      OBVIOUS
    <2>3. OldRank(i) \in Nat /\ OldRank(i) <= c
      <3> HIDE DEF old
      <3> QED BY <1>4, <2>2, FS_Subset, FS_CardinalityType
    <2> QED BY <2>1, <2>3
  <1>7. \A k \in 1 .. c : OldAt(k) \in old /\ OldRank(OldAt(k)) = k
    <2> SUFFICES ASSUME NEW k \in 1 .. c PROVE OldAt(k) \in old /\ OldRank(OldAt(k)) = k
      OBVIOUS
    <2>1. \E i \in old : OldRank(i) = k
      <3> HIDE DEF old
      <3> QED BY <1>1, <1>2, RanksReached
    <2> HIDE DEF old, OldRank
    <2> QED BY <2>1
  <1>8. CASE e \notin S
    <2>1. new = old
      BY <1>3, <1>8
    <2>2. \A k \in 1 .. c : t[NewAt(k)] = s[OldAt(k)]
      <3>1. \A k \in 1 .. c : NewAt(k) = OldAt(k)
        BY <2>1
      <3> HIDE DEF OldAt, NewAt, old, new, t
      <3> QED BY <1>1, <1>2, <1>7, <3>1
    <2>3. Only(t, S) = Only(s, S)
      <3> HIDE DEF OldAt, NewAt, old, new, t
      <3> QED BY <1>5, <2>1, <2>2
    <2> QED BY <1>8, <2>3
  <1>9. CASE e \in S
    <2>1. new = old \cup {n + 1} /\ Cardinality(new) = c + 1
      <3>1. new = old \cup {n + 1}
        BY <1>3, <1>9
      <3> HIDE DEF new, old
      <3> QED BY <3>1, <1>2, <1>4, FS_AddElement
    <2>2. NewRank(n + 1) = c + 1
      <3>1. {j \in new : j <= n + 1} = new
        BY <1>1, <1>2, <2>1
      <3> QED BY <2>1, <3>1
    <2>3. ASSUME NEW k \in 1 .. c PROVE NewAt(k) = OldAt(k)
      <3>1. \A i : (i \in new /\ NewRank(i) = k) <=> (i \in old /\ OldRank(i) = k)
        <4> HIDE DEF new, old, NewRank, OldRank
        <4> QED BY <1>4, <1>6, <2>1, <2>2
      <3> HIDE DEF new, old, NewRank, OldRank
      <3> QED BY <3>1
    <2>4. NewAt(c + 1) = n + 1
      <3> HIDE DEF new, old, NewRank, OldRank
      <3> QED BY <1>4, <1>6, <2>1, <2>2
    <2>5. Only(s, S) \in Seq(T) /\ Len(Only(s, S)) = c
      <3>1. \A k \in 1 .. c : s[OldAt(k)] \in T
        <4>1. \A i \in old : s[i] \in T
          OBVIOUS
        <4> HIDE DEF OldAt, old, OldRank, c
        <4> QED BY <1>7, <4>1
      <3> HIDE DEF OldAt, old
      <3> QED BY <1>4, <1>5, <3>1
    <2>6. Append(Only(s, S), e) = Only(t, S)
      <3> DEFINE u == Append(Only(s, S), e)
                 v == Only(t, S)
      <3>1. u \in Seq(T) /\ Len(u) = c + 1 /\ u[c + 1] = e /\ \A k \in 1 .. c : u[k] = Only(s, S)[k]
        <4> HIDE DEF c
        <4> QED BY <2>5
      <3>2. \A k \in 1 .. c : Only(s, S)[k] = s[OldAt(k)]
        <4> HIDE DEF OldAt, old
        <4> QED BY <1>5
      <3>3. v = [k \in 1 .. c + 1 |-> t[NewAt(k)]]
        <4> HIDE DEF NewAt, new
        <4> QED BY <1>5, <2>1
      <3>4. \A k \in 1 .. c : s[OldAt(k)] = t[NewAt(k)]
        <4> HIDE DEF NewAt, OldAt, new, old
        <4> QED BY <1>1, <1>2, <1>7, <2>3
      <3>5. t[NewAt(c + 1)] = e
        <4> HIDE DEF NewAt, new
        <4> QED BY <1>1, <2>4
      <3> HIDE DEF u, v, NewAt, OldAt, new, old, c
      <3>6. \A k \in 1 .. c + 1 : u[k] = v[k]
        <4>1. \A k \in 1 .. c + 1 : v[k] = t[NewAt(k)]
          BY <3>3
        <4>2. ASSUME NEW k \in 1 .. c + 1 PROVE u[k] = v[k]
          <5>1. CASE k = c + 1
            BY <3>1, <3>5, <4>1, <5>1
          <5>2. CASE k # c + 1
            <6>1. k \in 1 .. c
              BY <5>2, <1>4
            <6> QED BY <3>1, <3>2, <3>4, <4>1, <6>1
          <5> QED BY <5>1, <5>2
        <4> QED BY <4>2
      <3>7. u = v
        <4>1. u = [k \in 1 .. c + 1 |-> u[k]]
          BY <3>1
        <4>2. v = [k \in 1 .. c + 1 |-> v[k]]
          BY <3>3
        <4> QED BY <3>6, <4>1, <4>2
      <3> QED BY <3>7 DEF u, v
    <2> QED BY <1>9, <2>6
  <1> QED BY <1>8, <1>9

\* Induction over the sequences, about a set of them.
LEMMA Growing ==
  ASSUME NEW T, NEW P, <<>> \in P, \A s \in Seq(T), e \in T : s \in P => Append(s, e) \in P
  PROVE  Seq(T) \subseteq P
  <1> DEFINE all == {n \in Nat : \A s \in Seq(T) : Len(s) = n => s \in P}
  <1>1. 0 \in all
    <2>1. \A s \in Seq(T) : Len(s) = 0 => s = <<>>
      OBVIOUS
    <2> QED BY <2>1
  <1>2. ASSUME NEW n \in Nat, n \in all PROVE n + 1 \in all
    <2> SUFFICES ASSUME NEW s \in Seq(T), Len(s) = n + 1 PROVE s \in P
      OBVIOUS
    <2>1. PICK t \in Seq(T), e \in T : Len(t) = n /\ s = Append(t, e)
      BY Lengthened
    <2>2. t \in P
      BY <1>2, <2>1
    <2> QED BY <2>1, <2>2
  <1>3. Nat \subseteq all
    <2> HIDE DEF all
    <2> QED BY <1>1, <1>2, Counting
  <1> QED BY <1>3

\* What is left is in the set, and nothing in it is lost.
LEMMA OnlyKeeps ==
  ASSUME NEW T, NEW S, NEW s \in Seq(T)
  PROVE  /\ Only(s, S) \in Seq(T \cap S) /\ Len(Only(s, S)) <= Len(s)
         /\ ToSet(Only(s, S)) = ToSet(s) \cap S
  <1> DEFINE Kept(t) == /\ Only(t, S) \in Seq(T \cap S) /\ Len(Only(t, S)) <= Len(t)
                        /\ ToSet(Only(t, S)) = ToSet(t) \cap S
             all == {t \in Seq(T) : Kept(t)}
  <1>1. <<>> \in all
    <2>1. <<>> \in Seq(T) /\ <<>> \in Seq(T \cap S) /\ Len(<<>>) <= Len(<<>>)
      OBVIOUS
    <2>2. ToSet(<<>>) = {}
      BY Elements, <2>1
    <2>3. Only(<<>>, S) = <<>>
      BY OnlyNone
    <2>4. Kept(<<>>)
      BY <2>1, <2>2, <2>3
    <2> QED BY <2>1, <2>4
  <1>2. ASSUME NEW t \in Seq(T), NEW e \in T, t \in all PROVE Append(t, e) \in all
    <2> DEFINE o == Only(t, S)
    <2>1. o \in Seq(T \cap S) /\ Len(o) <= Len(t) /\ ToSet(o) = ToSet(t) \cap S
      BY <1>2
    <2>2. /\ Append(t, e) \in Seq(T) /\ Len(Append(t, e)) = Len(t) + 1
          /\ ToSet(Append(t, e)) = ToSet(t) \cup {e} /\ Len(t) \in Nat
      BY Appended
    <2> HIDE DEF o
    <2>3. CASE e \in S
      <3>1. Only(Append(t, e), S) = Append(o, e)
        BY <2>3, OnlyAppended DEF o
      <3>2. /\ Append(o, e) \in Seq(T \cap S) /\ Len(Append(o, e)) = Len(o) + 1
            /\ ToSet(Append(o, e)) = ToSet(o) \cup {e} /\ Len(o) \in Nat
        BY <2>1, <2>3, Appended
      <3>3. ToSet(Append(o, e)) = ToSet(Append(t, e)) \cap S
        BY <2>1, <2>2, <2>3, <3>2
      <3>4. Len(Append(o, e)) <= Len(Append(t, e))
        BY <2>1, <2>2, <3>2
      <3> QED BY <2>2, <3>1, <3>2, <3>3, <3>4
    <2>4. CASE e \notin S
      <3>1. Only(Append(t, e), S) = o
        BY <2>4, OnlyAppended DEF o
      <3>2. Len(o) \in Nat
        BY <2>1
      <3> QED BY <2>1, <2>2, <2>4, <3>1, <3>2
    <2> QED BY <2>3, <2>4
  <1>3. Seq(T) \subseteq all
    <2> HIDE DEF all
    <2> QED BY <1>1, <1>2, Growing
  <1> QED BY <1>3

LEMMA OnlyAgain ==
  ASSUME NEW T, NEW S, NEW s \in Seq(T)
  PROVE  Only(Only(s, S), S) = Only(s, S)
  <1> DEFINE all == {t \in Seq(T) : Only(Only(t, S), S) = Only(t, S)}
  <1>1. <<>> \in all
    BY OnlyNone
  <1>2. ASSUME NEW t \in Seq(T), NEW e \in T, t \in all PROVE Append(t, e) \in all
    <2>1. Append(t, e) \in Seq(T) /\ Only(Only(t, S), S) = Only(t, S)
      BY <1>2
    <2>4. Only(t, S) \in Seq(T)
      <3>1. Only(t, S) \in Seq(T \cap S)
        BY OnlyKeeps
      <3> QED BY <3>1
    <2>2. CASE e \in S
      <3>1. Only(Append(t, e), S) = Append(Only(t, S), e)
        BY <2>2, OnlyAppended
      <3>2. Only(Append(Only(t, S), e), S) = Append(Only(Only(t, S), S), e)
        BY <2>4, <2>2, OnlyAppended
      <3> QED BY <2>1, <3>1, <3>2
    <2>3. CASE e \notin S
      <3>1. Only(Append(t, e), S) = Only(t, S)
        BY <2>3, OnlyAppended
      <3> QED BY <2>1, <3>1
    <2> QED BY <2>2, <2>3
  <1>3. Seq(T) \subseteq all
    <2> HIDE DEF all
    <2> QED BY <1>1, <1>2, Growing
  <1> QED BY <1>3

LEMMA InjectiveAppended ==
  ASSUME NEW T, NEW s \in Seq(T), NEW e \in T
  PROVE  IsInjective(Append(s, e)) <=> (IsInjective(s) /\ e \notin ToSet(s))
  <1> DEFINE t == Append(s, e)
  <1>1. /\ DOMAIN t = 1 .. Len(s) + 1 /\ t[Len(s) + 1] = e /\ Len(s) \in Nat
        /\ DOMAIN s = 1 .. Len(s) /\ \A i \in 1 .. Len(s) : t[i] = s[i]
    OBVIOUS
  <1>2. e \in ToSet(s) <=> \E i \in 1 .. Len(s) : s[i] = e
    BY InSequence
  <1>3. IsInjective(s) <=> \A i, j \in 1 .. Len(s) : s[i] = s[j] => i = j
    BY DEF IsInjective
  <1> HIDE DEF t
  <1>4. IsInjective(t) <=> \A i, j \in 1 .. Len(s) + 1 : t[i] = t[j] => i = j
    BY <1>1 DEF IsInjective
  <1>5. ASSUME IsInjective(t) PROVE IsInjective(s) /\ e \notin ToSet(s)
    <2>1. \A i \in 1 .. Len(s) : i \in 1 .. Len(s) + 1 /\ i # Len(s) + 1 /\ Len(s) + 1 \in 1 .. Len(s) + 1
      BY <1>1
    <2> QED BY <1>1, <1>2, <1>3, <1>4, <1>5, <2>1
  <1>6. ASSUME IsInjective(s), e \notin ToSet(s) PROVE IsInjective(t)
    <2>1. \A i \in 1 .. Len(s) + 1 : i # Len(s) + 1 => i \in 1 .. Len(s)
      BY <1>1
    <2> QED BY <1>1, <1>2, <1>3, <1>4, <1>6, <2>1
  <1> QED BY <1>5, <1>6 DEF t

LEMMA OnlyInjective ==
  ASSUME NEW T, NEW S, NEW s \in Seq(T), IsInjective(s)
  PROVE  IsInjective(Only(s, S))
  <1> DEFINE all == {t \in Seq(T) : IsInjective(t) => IsInjective(Only(t, S))}
  <1>1. <<>> \in all
    BY OnlyNone
  <1>2. ASSUME NEW t \in Seq(T), NEW e \in T, t \in all PROVE Append(t, e) \in all
    <2> SUFFICES ASSUME IsInjective(Append(t, e)) PROVE IsInjective(Only(Append(t, e), S))
      OBVIOUS
    <2>1. IsInjective(t) /\ e \notin ToSet(t)
      BY InjectiveAppended
    <2>2. IsInjective(Only(t, S)) /\ Only(t, S) \in Seq(T) /\ e \notin ToSet(Only(t, S))
      <3>1. Only(t, S) \in Seq(T \cap S) /\ ToSet(Only(t, S)) = ToSet(t) \cap S
        BY OnlyKeeps
      <3> QED BY <1>2, <2>1, <3>1
    <2>3. CASE e \in S
      <3>1. Only(Append(t, e), S) = Append(Only(t, S), e)
        BY <2>3, OnlyAppended
      <3> QED BY <2>2, <3>1, InjectiveAppended
    <2>4. CASE e \notin S
      <3>1. Only(Append(t, e), S) = Only(t, S)
        BY <2>4, OnlyAppended
      <3> QED BY <2>2, <3>1
    <2> QED BY <2>3, <2>4
  <1>3. Seq(T) \subseteq all
    <2> HIDE DEF all
    <2> QED BY <1>1, <1>2, Growing
  <1> QED BY <1>3

\* A sequence has finitely many elements.
LEMMA FiniteElements ==
  ASSUME NEW T, NEW s \in Seq(T)
  PROVE  IsFiniteSet(ToSet(s))
  <1> DEFINE all == {t \in Seq(T) : IsFiniteSet(ToSet(t))}
  <1>1. <<>> \in all
    <2>1. <<>> \in Seq(T)
      OBVIOUS
    <2>2. ToSet(<<>>) = {}
      BY <2>1, Elements
    <2> QED BY <2>1, <2>2, FS_EmptySet
  <1>2. ASSUME NEW t \in Seq(T), NEW e \in T, t \in all PROVE Append(t, e) \in all
    BY <1>2, Appended, FS_AddElement
  <1>3. Seq(T) \subseteq all
    <2> HIDE DEF all
    <2> QED BY <1>1, <1>2, Growing
  <1> QED BY <1>3
=============================================================================

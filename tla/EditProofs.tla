------------------------------ MODULE EditProofs ------------------------------
(* Proofs about the editor of the configuration file (ConfigText) for every   *)
(* file, every edit and every set of words: what the settings and the tables  *)
(* of a file are, which lines an edit keeps, what a rewriting makes of them,  *)
(* each edit in turn, and that the server then reads what the edit meant.     *)
EXTENDS Site, FiniteSetTheorems, TLAPS

-------------------------------------------------------------------------------
(* What an edit makes of the file (ConfigText).  First, numbers.              *)

(* What a nonempty set of numbers has: a least member ...                     *)
LEMMA LeastNumber ==
    ASSUME NEW S \in SUBSET Nat, S # {}
    PROVE  \E n \in S : \A m \in S : n <= m
<1>1. PICK n \in S : \A m \in S : <<m, n>> \notin OpToRel(<, Nat)
  BY WFMin, NatLessThanWellFounded, Zenon
<1>2. \A m \in S : ~(m < n)
  <2> SUFFICES ASSUME NEW m \in S, m < n PROVE FALSE
    OBVIOUS
  <2>1. <<m, n>> \in OpToRel(<, Nat)
    BY Zenon DEF OpToRel
  <2>2. QED
    BY <1>1, <2>1, Zenon
<1>3. QED
  BY <1>2

(* ... and, if it is bounded, a greatest.                                     *)
LEMMA GreatestNumber ==
    ASSUME NEW n \in Nat, NEW S \in SUBSET (1 .. n), S # {}
    PROVE  \E m \in S : \A i \in S : i <= m
<1> DEFINE Above == {m \in Nat : \A i \in S : i <= m}
<1>1. n \in Above
  OBVIOUS
<1>2. PICK m \in Above : \A k \in Above : m <= k
  BY <1>1, LeastNumber
<1>3. PICK i \in S : TRUE
  OBVIOUS
<1>4. m - 1 \in Nat /\ ~(m <= m - 1)
  BY <1>3
<1>5. m - 1 \notin Above
  BY <1>2, <1>4
<1>6. PICK k \in S : ~(k <= m - 1)
  BY <1>4, <1>5
<1>7. k = m
  BY <1>6
<1>8. QED
  BY <1>7

(* How many of a set of places there are up to one of them.                   *)
Rank(K, i) == Cardinality({j \in K : j <= i})

LEMMA RankLess ==
    ASSUME NEW n \in Nat, NEW K \in SUBSET (1 .. n), NEW i \in K, NEW j \in K, i < j
    PROVE  Rank(K, i) < Rank(K, j)
<1> DEFINE A == {h \in K : h <= i}
           B == {h \in K : h <= j}
<1>1. IsFiniteSet(1 .. n)
  BY FS_Interval
<1>2. IsFiniteSet(B)
  BY <1>1, FS_Subset
<1>3. A \in SUBSET B /\ A # B
  <2>1. i \in Nat /\ j \in Nat /\ K \subseteq Nat
    OBVIOUS
  <2>2. j \in B /\ j \notin A
    BY <2>1
  <2>3. \A h \in K : h <= i => h <= j
    BY <2>1
  <2>4. QED
    BY <2>2, <2>3
<1>4. IsFiniteSet(A) /\ Cardinality(A) <= Cardinality(B) /\ Cardinality(A) # Cardinality(B)
  BY <1>2, <1>3, FS_Subset
<1>5. Cardinality(A) \in Nat /\ Cardinality(B) \in Nat
  BY <1>2, <1>4, FS_CardinalityType
<1> HIDE DEF A, B
<1>6. Cardinality(A) < Cardinality(B)
  BY <1>4, <1>5
<1>7. QED
  BY <1>6 DEF Rank, A, B

(* Every place has a number of its own, and every number up to the last has a *)
(* place.                                                                     *)
LEMMA Ranks ==
    ASSUME NEW n \in Nat, NEW K \in SUBSET (1 .. n)
    PROVE  /\ Cardinality(K) \in Nat
           /\ \A i \in K : Rank(K, i) \in 1 .. Cardinality(K)
           /\ \A i, j \in K : i < j <=> Rank(K, i) < Rank(K, j)
           /\ \A i, j \in K : Rank(K, i) = Rank(K, j) => i = j
           /\ \A m \in 1 .. Cardinality(K) : \E i \in K : Rank(K, i) = m
<1> DEFINE c == Cardinality(K)
           f == [i \in K |-> Rank(K, i)]
<1>1. IsFiniteSet(1 .. n)
  BY FS_Interval
<1>2. IsFiniteSet(K)
  BY <1>1, FS_Subset
<1>3. c \in Nat
  BY <1>2, FS_CardinalityType
<1>4. \A i \in K : Rank(K, i) \in 1 .. c
  <2> TAKE i \in K
  <2> DEFINE A == {j \in K : j <= i}
  <2>1. A \in SUBSET K /\ i \in A
    OBVIOUS
  <2>2. IsFiniteSet(A) /\ Cardinality(A) <= c
    BY <1>2, <2>1, FS_Subset
  <2>3. Cardinality(A) \in Nat /\ Cardinality(A) # 0
    BY <2>1, <2>2, FS_CardinalityType, FS_EmptySet
  <2> HIDE DEF A
  <2>4. Cardinality(A) \in 1 .. c
    BY <1>3, <2>2, <2>3
  <2>5. QED
    BY <2>4 DEF A, Rank
<1>5. \A i, j \in K : i < j => Rank(K, i) < Rank(K, j)
  BY RankLess
<1> HIDE DEF c
<1>6. /\ \A i, j \in K : i < j <=> Rank(K, i) < Rank(K, j)
      /\ \A i, j \in K : Rank(K, i) = Rank(K, j) => i = j
  <2> SUFFICES ASSUME NEW i \in K, NEW j \in K
               PROVE  /\ i < j <=> Rank(K, i) < Rank(K, j)
                      /\ Rank(K, i) = Rank(K, j) => i = j
    OBVIOUS
  <2>1. i \in Nat /\ j \in Nat /\ Rank(K, i) \in Nat /\ Rank(K, j) \in Nat
    BY <1>3, <1>4
  <2>2. (i < j => Rank(K, i) < Rank(K, j)) /\ (j < i => Rank(K, j) < Rank(K, i))
    BY <1>5
  <2>3. QED
    BY <2>1, <2>2
<1>7. \A m \in 1 .. c : \E i \in K : Rank(K, i) = m
  <2>1. f \in Injection(K, 1 .. c)
    <3>1. f \in [K -> 1 .. c]
      BY <1>4
    <3>2. \A i, j \in K : f[i] = f[j] => i = j
      BY <1>6
    <3>3. QED
      BY <3>1, <3>2 DEF Injection, IsInjective
  <2>2. IsFiniteSet(1 .. c) /\ Cardinality(1 .. c) = c
    BY <1>3, FS_Interval
  <2>3. f \in Surjection(K, 1 .. c)
    BY <2>1, <2>2, FS_Injection DEF c
  <2>4. QED
    BY <2>3 DEF Surjection
<1>8. QED
  BY <1>3, <1>4, <1>6, <1>7 DEF c
-------------------------------------------------------------------------------
(* A file, its sections and its tables.                                       *)

LEMMA FileLines ==
    ASSUME NEW t, IsFile(t)
    PROVE  /\ Len(t) \in Nat /\ DOMAIN t = 1 .. Len(t)
           /\ \A i \in DOMAIN t : IsLine(t[i])
BY DEF IsFile

(* A sequence of lines is a file.                                             *)
LEMMA LinesFile ==
    ASSUME NEW n \in Nat, NEW t, t = [i \in 1 .. n |-> t[i]], \A i \in 1 .. n : IsLine(t[i])
    PROVE  IsFile(t) /\ Len(t) = n /\ DOMAIN t = 1 .. n
<1>1. DOMAIN t = 1 .. n
  OBVIOUS
<1> DEFINE R == {t[i] : i \in DOMAIN t}
<1>2. t \in [1 .. n -> R]
  <2>1. \A i \in 1 .. n : t[i] \in R
    BY <1>1
  <2> HIDE DEF R
  <2>2. QED
    BY <2>1
<1>3. t \in Seq(R) /\ Len(t) = n
  <2> HIDE DEF R
  <2>1. QED
    BY <1>2
<1>4. QED
  BY <1>1, <1>3 DEF IsFile

LEMMA SectionNone ==
    ASSUME NEW t, NEW i, \A j \in 1 .. i : t[j].kind # "header"
    PROVE  SectionAt(t, i) = ""
BY DEF SectionAt

(* The last header up to a line is the header of its section.                 *)
LEMMA SectionIs ==
    ASSUME NEW t, NEW i \in Nat, NEW h \in 1 .. i, t[h].kind = "header",
           \A j \in 1 .. i : j > h => t[j].kind # "header"
    PROVE  SectionAt(t, i) = t[h].section
<1> DEFINE headers == {j \in 1 .. i : t[j].kind = "header"}
           last1   == CHOOSE j \in headers : \A g \in headers : g <= j
<1>1. h \in headers /\ \A g \in headers : g <= h
  OBVIOUS
<1>2. last1 \in headers /\ \A g \in headers : g <= last1
  BY <1>1, Zenon
<1>3. last1 \in 1 .. i /\ h <= last1 /\ last1 <= h
  <2>1. last1 \in 1 .. i
    BY <1>2, Zenon
  <2>2. h <= last1 /\ last1 <= h
    BY <1>1, <1>2, Zenon
  <2>3. QED
    BY <2>1, <2>2
<1> HIDE DEF last1
<1>4. last1 = h
  BY <1>3
<1>5. SectionAt(t, i) = t[last1].section
  <2>1. headers # {}
    BY <1>1
  <2>2. QED
    BY <2>1 DEF SectionAt, last1
<1>6. QED
  BY <1>4, <1>5

LEMMA SectionHeader ==
    ASSUME NEW t, IsFile(t), NEW i \in DOMAIN t
    PROVE  \/ SectionAt(t, i) = "" /\ \A j \in 1 .. i : t[j].kind # "header"
           \/ \E h \in 1 .. i : /\ t[h].kind = "header" /\ SectionAt(t, i) = t[h].section
                                /\ \A j \in 1 .. i : j > h => t[j].kind # "header"
<1> DEFINE headers == {j \in 1 .. i : t[j].kind = "header"}
<1>1. i \in Nat
  BY FileLines
<1>2. CASE headers = {}
  BY <1>2, SectionNone
<1>3. CASE headers # {}
  <2>1. PICK h \in headers : \A g \in headers : g <= h
    BY <1>1, <1>3, GreatestNumber
  <2>2. \A j \in 1 .. i : j > h => t[j].kind # "header"
    <3> SUFFICES ASSUME NEW j \in 1 .. i, j > h, t[j].kind = "header" PROVE FALSE
      OBVIOUS
    <3>1. j <= h
      BY <2>1
    <3>2. QED
      BY <1>1, <3>1
  <2>3. QED
    BY <1>1, <2>2, SectionIs
<1>4. QED
  BY <1>2, <1>3

(* A line is without a section exactly if it is before the first header.      *)
LEMMA Nameless ==
    ASSUME NEW t, IsFile(t), NEW i \in DOMAIN t
    PROVE  SectionAt(t, i) = "" <=> \A j \in 1 .. i : t[j].kind # "header"
<1>1. \A h \in 1 .. i : t[h].kind = "header" => t[h].section # ""
  <2> TAKE h \in 1 .. i
  <2>1. h \in DOMAIN t
    BY FileLines
  <2>2. IsLine(t[h])
    BY <2>1, FileLines
  <2>3. QED
    BY <2>2 DEF IsLine
<1>2. QED
  BY <1>1, SectionHeader, SectionNone

(* The place of what a table has under a key.                                 *)
IsLast(t, P, i) == i \in P /\ \A j \in P : t[j].key = t[i].key => j <= i

LEMMA LastHas ==
    ASSUME NEW t, NEW n \in Nat, NEW P \in SUBSET (1 .. n), NEW p \in P
    PROVE  \E i \in P : IsLast(t, P, i) /\ t[i].key = t[p].key
<1> DEFINE same == {i \in P : t[i].key = t[p].key}
<1>1. same \in SUBSET (1 .. n) /\ same # {}
  OBVIOUS
<1>2. PICK i \in same : \A j \in same : j <= i
  BY <1>1, GreatestNumber
<1>3. QED
  BY <1>2, Zenon DEF IsLast

LastPlace(t, P, k) ==
    CHOOSE p \in {j \in P : t[j].key = k} : \A j \in {h \in P : t[h].key = k} : j <= p

LEMMA LastIs ==
    ASSUME NEW t, NEW n \in Nat, NEW P \in SUBSET (1 .. n), NEW i, IsLast(t, P, i)
    PROVE  LastPlace(t, P, t[i].key) = i
<1> DEFINE same == {j \in P : t[j].key = t[i].key}
           it   == CHOOSE p \in same : \A j \in same : j <= p
<1>1. i \in same /\ \A j \in same : j <= i
  BY Zenon DEF IsLast
<1>2. it \in same /\ \A j \in same : j <= it
  BY <1>1, Zenon
<1>3. it \in 1 .. n /\ i \in 1 .. n
  BY <1>1, <1>2, Zenon
<1>4. i <= it /\ it <= i
  BY <1>1, <1>2, Zenon
<1> HIDE DEF it
<1>5. it = i
  BY <1>3, <1>4
<1>6. QED
  BY <1>5, Zenon DEF it, LastPlace

LEMMA PairPlaces ==
    ASSUME NEW t, IsFile(t), NEW s
    PROVE  /\ PairsOf(t, s) \in SUBSET (1 .. Len(t)) /\ PairsOf(t, s) \subseteq DOMAIN t
           /\ \A i \in PairsOf(t, s) : IsText(t[i].key) /\ IsText(t[i].val)
<1>1. PairsOf(t, s) \subseteq DOMAIN t
  BY DEF PairsOf
<1>2. ASSUME NEW i \in PairsOf(t, s) PROVE IsText(t[i].key) /\ IsText(t[i].val)
  <2>1. IsLine(t[i]) /\ t[i].kind = "pair"
    BY <1>1, FileLines DEF PairsOf
  <2>2. QED
    BY <2>1 DEF IsLine
<1>3. QED
  BY <1>1, <1>2, FileLines

(* What a table has under a key is the value at its last place.               *)
LEMMA TableAt ==
    ASSUME NEW t, IsFile(t), NEW s, NEW i, IsLast(t, PairsOf(t, s), i)
    PROVE  t[i].key \in DOMAIN Table(t, s) /\ Table(t, s)[t[i].key] = Reading(t[i].val)
<1> DEFINE P == PairsOf(t, s)
<1>1. P \in SUBSET (1 .. Len(t)) /\ Len(t) \in Nat
  BY PairPlaces, FileLines
<1>2. i \in P
  BY DEF IsLast
<1>3. t[i].key \in {t[j].key : j \in P}
  BY <1>2
<1>4. LastPlace(t, P, t[i].key) = i
  <2> HIDE DEF P
  <2>1. IsLast(t, P, i)
    BY DEF P
  <2>2. QED
    BY <1>1, <2>1, LastIs
<1>5. QED
  BY <1>3, <1>4, Zenon DEF Table, LastPlace

LEMMA TableKeys ==
    ASSUME NEW t, NEW s
    PROVE  \A k : k \in DOMAIN Table(t, s) <=> \E i \in PairsOf(t, s) : t[i].key = k
BY DEF Table

LEMMA TableHas ==
    ASSUME NEW t, IsFile(t), NEW s, NEW k \in DOMAIN Table(t, s)
    PROVE  \E i \in PairsOf(t, s) :
               IsLast(t, PairsOf(t, s), i) /\ t[i].key = k /\ Table(t, s)[k] = Reading(t[i].val)
<1>1. PICK p \in PairsOf(t, s) : t[p].key = k
  BY TableKeys
<1>2. Len(t) \in Nat /\ PairsOf(t, s) \in SUBSET (1 .. Len(t))
  BY PairPlaces, FileLines
<1>3. PICK i \in PairsOf(t, s) : IsLast(t, PairsOf(t, s), i) /\ t[i].key = t[p].key
  BY <1>2, LastHas
<1>4. QED
  BY <1>1, <1>3, TableAt

LEMMA TableFunction ==
    ASSUME NEW t, NEW s
    PROVE  Table(t, s) = [k \in DOMAIN Table(t, s) |-> Table(t, s)[k]]
BY DEF Table

(* Two functions are one if they agree.                                       *)
LEMMA SameFunction ==
    ASSUME NEW f, NEW g, f = [k \in DOMAIN f |-> f[k]], g = [k \in DOMAIN g |-> g[k]],
           DOMAIN f = DOMAIN g, \A k \in DOMAIN f : f[k] = g[k]
    PROVE  f = g
OBVIOUS

(* When a key is there more than once, but always with the same value.        *)
LEMMA TableIs ==
    ASSUME NEW t, IsFile(t), NEW s, NEW f, f = [k \in DOMAIN f |-> f[k]],
           \A i \in PairsOf(t, s) : t[i].key \in DOMAIN f /\ Reading(t[i].val) = f[t[i].key],
           \A k \in DOMAIN f : \E i \in PairsOf(t, s) : t[i].key = k
    PROVE  Table(t, s) = f
<1>1. DOMAIN Table(t, s) = DOMAIN f
  <2>1. \A k : k \in DOMAIN Table(t, s) <=> k \in DOMAIN f
    BY TableKeys
  <2>2. QED
    BY <2>1
<1>2. ASSUME NEW k \in DOMAIN f PROVE Table(t, s)[k] = f[k]
  <2>1. PICK i \in PairsOf(t, s) : t[i].key = k /\ Table(t, s)[k] = Reading(t[i].val)
    BY <1>1, TableHas
  <2>2. QED
    BY <2>1
<1>3. QED
  BY <1>1, <1>2, TableFunction, SameFunction

(* The lines of a table may move as long as they keep their order.            *)
Carried(t, P, u, Q, m) ==
    /\ \A i \in P : m[i] \in Q /\ u[m[i]].key = t[i].key /\ u[m[i]].val = t[i].val
    /\ \A q \in Q : \E i \in P : m[i] = q
    /\ \A i, j \in P : i <= j => m[i] <= m[j]

LEMMA LastCarried ==
    ASSUME NEW t, NEW P, NEW u, NEW Q, NEW m, Carried(t, P, u, Q, m), NEW i, IsLast(t, P, i)
    PROVE  IsLast(u, Q, m[i])
<1>1. i \in P /\ m[i] \in Q
  BY DEF IsLast, Carried
<1>2. ASSUME NEW q \in Q, u[q].key = u[m[i]].key PROVE q <= m[i]
  <2>1. PICK j \in P : m[j] = q
    BY DEF Carried
  <2>2. t[j].key = t[i].key
    BY <1>1, <1>2, <2>1 DEF Carried
  <2>3. j <= i
    BY <2>2 DEF IsLast
  <2>4. QED
    BY <1>1, <2>1, <2>3 DEF Carried
<1>3. QED
  BY <1>1, <1>2, Zenon DEF IsLast

LEMMA TableCarried ==
    ASSUME NEW t, IsFile(t), NEW u, IsFile(u), NEW s, NEW m,
           Carried(t, PairsOf(t, s), u, PairsOf(u, s), m)
    PROVE  Table(u, s) = Table(t, s)
<1> DEFINE P == PairsOf(t, s)
           Q == PairsOf(u, s)
<1>1. DOMAIN Table(u, s) = DOMAIN Table(t, s)
  <2>1. \A q \in Q : \E i \in P : t[i].key = u[q].key
    BY DEF Carried
  <2>2. \A i \in P : \E q \in Q : u[q].key = t[i].key
    BY DEF Carried
  <2>3. \A k : k \in DOMAIN Table(u, s) <=> k \in DOMAIN Table(t, s)
    BY <2>1, <2>2, TableKeys
  <2>4. QED
    BY <2>3
<1>2. ASSUME NEW k \in DOMAIN Table(t, s) PROVE Table(u, s)[k] = Table(t, s)[k]
  <2>1. PICK i \in P : IsLast(t, P, i) /\ t[i].key = k /\ Table(t, s)[k] = Reading(t[i].val)
    BY TableHas
  <2>2. IsLast(u, Q, m[i])
    BY <2>1, LastCarried
  <2>3. Table(u, s)[u[m[i]].key] = Reading(u[m[i]].val)
    BY <2>2, TableAt
  <2>4. QED
    BY <2>1, <2>3 DEF Carried
<1>3. QED
  BY <1>1, <1>2, TableFunction, SameFunction

(* One key has a new value, and the others are where they were, or have moved *)
(* in order.                                                                  *)
Others(t, s, k) == {i \in PairsOf(t, s) : t[i].key # k}

LEMMA TablePut ==
    ASSUME NEW t, IsFile(t), NEW u, IsFile(u), NEW s, NEW m, NEW k, NEW v,
           Carried(t, Others(t, s, k), u, Others(u, s, k), m),
           \A q \in PairsOf(u, s) : u[q].key = k => Reading(u[q].val) = v,
           \E q \in PairsOf(u, s) : u[q].key = k
    PROVE  Table(u, s) = Put(Table(t, s), k, v)
<1> DEFINE P == Others(t, s, k)
           Q == Others(u, s, k)
           f == Put(Table(t, s), k, v)
<1>1. DOMAIN f = DOMAIN Table(t, s) \union {k} /\ f = [x \in DOMAIN f |-> f[x]]
  BY DEF Put
<1>2. f[k] = v /\ \A x \in DOMAIN Table(t, s) : x # k => f[x] = Table(t, s)[x]
  BY DEF Put
<1> HIDE DEF f
<1>3. ASSUME NEW x, x # k PROVE x \in DOMAIN Table(u, s) <=> x \in DOMAIN Table(t, s)
  <2>1. x \in DOMAIN Table(t, s) <=> \E i \in P : t[i].key = x
    BY <1>3, TableKeys DEF Others
  <2>2. x \in DOMAIN Table(u, s) <=> \E q \in Q : u[q].key = x
    BY <1>3, TableKeys DEF Others
  <2> HIDE DEF P, Q
  <2>3. Carried(t, P, u, Q, m)
    BY DEF P, Q
  <2>4. QED
    BY <2>1, <2>2, <2>3 DEF Carried
<1>4. k \in DOMAIN Table(u, s)
  BY TableKeys
<1>5. DOMAIN Table(u, s) = DOMAIN f
  BY <1>1, <1>3, <1>4
<1>6. Table(u, s)[k] = v
  BY <1>4, TableHas
<1>7. ASSUME NEW x \in DOMAIN Table(t, s), x # k PROVE Table(u, s)[x] = Table(t, s)[x]
  <2>1. PICK i \in PairsOf(t, s) :
            IsLast(t, PairsOf(t, s), i) /\ t[i].key = x /\ Table(t, s)[x] = Reading(t[i].val)
    BY TableHas
  <2>2. IsLast(t, P, i)
    BY <1>7, <2>1 DEF IsLast, Others
  <2>3. IsLast(u, Q, m[i])
    BY <2>2, LastCarried
  <2>4. u[m[i]].key = x /\ u[m[i]].val = t[i].val
    BY <2>1, <2>2 DEF Carried, IsLast
  <2>5. IsLast(u, PairsOf(u, s), m[i])
    BY <1>7, <2>3, <2>4 DEF IsLast, Others
  <2>6. QED
    BY <2>1, <2>4, <2>5, TableAt
<1>8. \A x \in DOMAIN f : Table(u, s)[x] = f[x]
  BY <1>1, <1>2, <1>6, <1>7
<1>9. Table(u, s) = f
  BY <1>1, <1>5, <1>8, TableFunction, SameFunction
<1>10. QED
  BY <1>9 DEF f

(* escape_toml_str and the parsers leave a word alone that needs no care.     *)
Tame(x) == IsText(x) /\ x.word \in Plain \union Number

LEMMA TameWords ==
    ASSUME NEW x, Tame(x)
    PROVE  Escaped(x) = x /\ Reading(x) = x /\ ~x.cut
<1>1. x.word \notin Special /\ x.word \notin Hashy
  BY EditorAssumption DEF TextAssumption, Tame
<1>2. ~x.cut
  BY <1>1 DEF Tame, IsText
<1>3. QED
  BY <1>1, <1>2 DEF Escaped, Reading

LEMMA TextBounds ==
    /\ MaxEscapes \in Nat /\ Number \subseteq Nat
    /\ (\A t \in Texts : IsFile(t)) /\ (\A e \in Edits : IsEdit(e))
BY EditorAssumption DEF TextAssumption

LEMMA TextKept ==
    ASSUME NEW x, IsText(x)
    PROVE  IsText(Escaped(x)) /\ IsText(Reading(x))
<1>1. PICK w : \E e \in 0 .. MaxEscapes, c \in BOOLEAN :
          x = [word |-> w, esc |-> e, cut |-> c] /\ (c => w \in Hashy)
  <2>1. x = [word |-> x.word, esc |-> x.esc, cut |-> x.cut]
    BY DEF IsText
  <2>2. x.esc \in 0 .. MaxEscapes /\ x.cut \in BOOLEAN /\ (x.cut => x.word \in Hashy)
    BY DEF IsText
  <2>3. QED
    BY <2>1, <2>2
<1> PICK e \in 0 .. MaxEscapes, c \in BOOLEAN :
        x = [word |-> w, esc |-> e, cut |-> c] /\ (c => w \in Hashy)
  BY <1>1
<1>2. IsText(Escaped(x))
  <2>1. CASE Escaped(x) = x
    BY <2>1
  <2>2. CASE e < MaxEscapes /\ Escaped(x) = [word |-> w, esc |-> e + 1, cut |-> c]
    <3>1. MaxEscapes \in Nat
      BY TextBounds, Zenon
    <3>2. e + 1 \in 0 .. MaxEscapes
      BY <2>2, <3>1
    <3>3. QED
      BY <2>2, <3>2 DEF IsText
  <2>3. QED
    BY <2>1, <2>2 DEF Escaped
<1>3. IsText(Reading(x))
  BY DEF IsText, Reading
<1>4. QED
  BY <1>2, <1>3

LEMMA WordText == \A w : IsText(Word(w))
<1>1. 0 \in 0 .. MaxEscapes
  <2>1. MaxEscapes \in Nat
    BY TextBounds, Zenon
  <2>2. QED
    BY <2>1
<1>2. QED
  BY <1>1 DEF IsText, Word

-------------------------------------------------------------------------------
(* A setting before the first section (set_top_level_string).                 *)

LEMMA SectionAlike ==
    ASSUME NEW t, IsFile(t), NEW u, NEW i \in DOMAIN t,
           \A j \in 1 .. i : u[j].kind = "header" <=> t[j].kind = "header",
           \A j \in 1 .. i : t[j].kind = "header" => u[j] = t[j]
    PROVE  SectionAt(u, i) = SectionAt(t, i)
<1>1. i \in Nat
  BY FileLines
<1>2. CASE SectionAt(t, i) = "" /\ \A j \in 1 .. i : t[j].kind # "header"
  BY <1>2, SectionNone
<1>3. CASE \E h \in 1 .. i : /\ t[h].kind = "header" /\ SectionAt(t, i) = t[h].section
                             /\ \A j \in 1 .. i : j > h => t[j].kind # "header"
  BY <1>1, <1>3, SectionIs
<1>4. QED
  BY <1>2, <1>3, SectionHeader

LEMMA PairLine ==
    ASSUME NEW k, IsText(k), NEW v, IsText(v)
    PROVE  LET l == Pair(k, Escaped(v))
           IN  IsLine(l) /\ l.kind = "pair" /\ l.key = k /\ l.val = Escaped(v)
BY TextKept DEF Pair, IsLine

(* What a setting does to the tables.                                         *)
SetEffect(t, u, k, v) ==
    /\ IsFile(u)
    /\ Parses(t) => Parses(u)
    /\ Table(u, "") = Put(Table(t, ""), k, Reading(Escaped(v)))
    /\ \A s : s # "" => Table(u, s) = Table(t, s)

LEMMA TopReplaced ==
    ASSUME NEW t, IsFile(t), NEW k, IsText(k), NEW v, IsText(v), Tops(t, k) # {}
    PROVE  SetEffect(t, SetTop(t, k, v), k, v)
<1> DEFINE l == Pair(k, Escaped(v))
           u == [i \in DOMAIN t |-> IF i \in Tops(t, k) THEN l ELSE t[i]]
           n == Len(t)
           m == [i \in DOMAIN t |-> i]
<1>1. IsLine(l) /\ l.kind = "pair" /\ l.key = k /\ l.val = Escaped(v)
  BY PairLine
<1>2. n \in Nat /\ DOMAIN t = 1 .. n /\ \A i \in 1 .. n : IsLine(t[i])
  BY FileLines
<1>3. /\ \A i \in 1 .. n : i \in Tops(t, k) => u[i] = l
      /\ \A i \in 1 .. n : i \notin Tops(t, k) => u[i] = t[i]
      /\ DOMAIN u = 1 .. n /\ u = [i \in 1 .. n |-> u[i]]
  BY <1>2
<1>4. SetTop(t, k, v) = u
  BY DEF SetTop
<1> HIDE DEF l, u, n
<1>5. IsFile(u)
  BY <1>1, <1>2, <1>3, LinesFile
<1>6. \A i \in Tops(t, k) : /\ i \in 1 .. n /\ t[i].kind = "pair"
                           /\ SectionAt(t, i) = "" /\ t[i].key = k
  BY <1>2 DEF Tops, PairsOf
<1>7. ASSUME NEW i \in 1 .. n PROVE u[i].kind = t[i].kind
  BY <1>1, <1>3, <1>6
<1>8. ASSUME NEW i \in 1 .. n PROVE SectionAt(u, i) = SectionAt(t, i)
  <2>1. ASSUME NEW j \in 1 .. i
        PROVE  /\ u[j].kind = "header" <=> t[j].kind = "header"
               /\ t[j].kind = "header" => u[j] = t[j]
    <3>1. j \in 1 .. n
      BY <1>2
    <3>2. u[j].kind = t[j].kind
      BY <1>7, <3>1
    <3>3. t[j].kind = "header" => j \notin Tops(t, k)
      BY <1>6
    <3>4. QED
      BY <1>3, <3>1, <3>2, <3>3
  <2>2. QED
    BY <1>2, <2>1, SectionAlike
<1>9. \A s : PairsOf(u, s) = PairsOf(t, s)
  BY <1>2, <1>3, <1>7, <1>8 DEF PairsOf
<1>10. \A s : \A i \in PairsOf(t, s) : i \in 1 .. n /\ m[i] = i
  BY <1>2 DEF PairsOf
<1>11. \A i \in PairsOf(t, "") : (i \in Tops(t, k) <=> t[i].key = k) /\ u[i].key = t[i].key
  BY <1>1, <1>3, <1>6, <1>10 DEF Tops
<1>12. Table(u, "") = Put(Table(t, ""), k, Reading(Escaped(v)))
  <2>1. PairsOf(u, "") = PairsOf(t, "")
    BY <1>9, Zenon
  <2>2. Others(u, "", k) = Others(t, "", k)
    BY <2>1, <1>11 DEF Others
  <2>3. \A i \in Others(t, "", k) : u[i] = t[i] /\ m[i] = i
    BY <1>3, <1>10, <1>11 DEF Others
  <2>4. Carried(t, Others(t, "", k), u, Others(u, "", k), m)
    BY <2>2, <2>3 DEF Carried
  <2>5. \A q \in PairsOf(u, "") : u[q].key = k => Reading(u[q].val) = Reading(Escaped(v))
    <3>1. \A q \in PairsOf(t, "") : u[q].key = k => u[q] = l
      BY <1>3, <1>10, <1>11
    <3>2. QED
      BY <1>1, <2>1, <3>1
  <2>6. \E q \in PairsOf(u, "") : u[q].key = k
    <3>1. PICK i \in Tops(t, k) : TRUE
      OBVIOUS
    <3>2. i \in PairsOf(t, "")
      BY DEF Tops
    <3>3. QED
      BY <1>6, <1>11, <2>1, <3>2
  <2>7. QED
    <3> DEFINE w == Reading(Escaped(v))
    <3> HIDE DEF m
    <3>1. ASSUME NEW s, s = "" PROVE Table(u, s) = Put(Table(t, s), k, w)
      <4>1. Carried(t, Others(t, s, k), u, Others(u, s, k), m)
        BY <2>4, <3>1
      <4>2. \A q \in PairsOf(u, s) : u[q].key = k => Reading(u[q].val) = w
        BY <2>5, <3>1
      <4>3. \E q \in PairsOf(u, s) : u[q].key = k
        BY <2>6, <3>1
      <4> HIDE DEF w
      <4>4. QED
        BY <1>5, <4>1, <4>2, <4>3, TablePut
    <3>2. QED
      BY <3>1
<1>13. ASSUME NEW s, s # "" PROVE Table(u, s) = Table(t, s)
  <2>1. PairsOf(u, s) = PairsOf(t, s)
    BY <1>9, Zenon
  <2>2. \A i \in PairsOf(t, s) : i \in 1 .. n /\ i \notin Tops(t, k)
    BY <1>2, <1>6, <1>13 DEF PairsOf
  <2>3. \A i \in PairsOf(t, s) : u[i] = t[i] /\ m[i] = i
    BY <1>2, <1>3, <2>2
  <2>4. Carried(t, PairsOf(t, s), u, PairsOf(u, s), m)
    BY <2>1, <2>3 DEF Carried
  <2>5. QED
    BY <1>5, <2>4, TableCarried, Zenon
<1>14. Parses(t) => Parses(u)
  BY <1>2, <1>3, <1>7 DEF Parses
<1>15. QED
  BY <1>4, <1>5, <1>12, <1>13, <1>14 DEF SetEffect

LEMMA FirstHeaderIs ==
    ASSUME NEW t, IsFile(t)
    PROVE  /\ FirstHeader(t) \in 1 .. (Len(t) + 1)
           /\ \A j \in 1 .. Len(t) : j < FirstHeader(t) => t[j].kind # "header"
           /\ FirstHeader(t) <= Len(t) => t[FirstHeader(t)].kind = "header"
<1> DEFINE n == Len(t)
           headers == {i \in DOMAIN t : t[i].kind = "header"}
           it == CHOOSE i \in headers : \A j \in headers : i <= j
<1>1. n \in Nat /\ DOMAIN t = 1 .. n
  BY FileLines
<1>2. headers \subseteq 1 .. n /\ \A j \in 1 .. n : t[j].kind = "header" <=> j \in headers
  BY <1>1
<1>3. headers = {} => FirstHeader(t) = n + 1
  BY DEF FirstHeader
<1>4. headers # {} => FirstHeader(t) = it
  BY DEF FirstHeader
<1>5. headers # {} => it \in headers /\ \A j \in headers : it <= j
  <2>1. headers \in SUBSET Nat
    BY <1>2
  <2>2. headers # {} => \E i \in headers : \A j \in headers : i <= j
    BY <2>1, LeastNumber
  <2>3. QED
    BY <2>2, Zenon
<1> HIDE DEF n, headers, it
<1>6. CASE headers = {}
  BY <1>1, <1>2, <1>3, <1>6 DEF n
<1>7. CASE headers # {}
  <2>1. it \in headers /\ FirstHeader(t) = it
    BY <1>4, <1>5, <1>7
  <2>2. it \in 1 .. n
    BY <1>2, <2>1
  <2>3. \A j \in 1 .. n : j < it => j \notin headers
    BY <1>5, <1>7, <2>2
  <2>4. QED
    BY <1>1, <1>2, <2>1, <2>2, <2>3 DEF n
<1>8. QED
  BY <1>6, <1>7

LEMMA Joined ==
    ASSUME NEW R, NEW a \in Seq(R), NEW b \in Seq(R)
    PROVE  /\ a \o b \in Seq(R) /\ Len(a \o b) = Len(a) + Len(b)
           /\ \A i \in 1 .. Len(a) : (a \o b)[i] = a[i]
           /\ \A i \in 1 .. Len(b) : (a \o b)[Len(a) + i] = b[i]
OBVIOUS

LEMMA Inserted ==
    ASSUME NEW R, NEW t \in Seq(R), NEW l \in R, NEW p \in 1 .. (Len(t) + 1)
    PROVE  LET u == InsertAt(t, p, l)
           IN  /\ u \in Seq(R) /\ Len(u) = Len(t) + 1 /\ u[p] = l
               /\ \A i \in 1 .. Len(t) : i < p => u[i] = t[i]
               /\ \A i \in 1 .. Len(t) : i >= p => u[i + 1] = t[i]
<1> DEFINE n == Len(t)
           a == SubSeq(t, 1, p - 1)
           b == SubSeq(t, p, n)
           c == a \o <<l>>
           u == c \o b
<1>1. n \in Nat
  OBVIOUS
<1>2. a \in Seq(R) /\ Len(a) = p - 1 /\ \A i \in 1 .. (p - 1) : a[i] = t[i]
  OBVIOUS
<1>3. b \in Seq(R) /\ Len(b) = n + 1 - p /\ \A i \in 1 .. (n + 1 - p) : b[i] = t[p - 1 + i]
  OBVIOUS
<1>4. <<l>> \in Seq(R) /\ Len(<<l>>) = 1 /\ <<l>>[1] = l
  OBVIOUS
<1> HIDE DEF a, b, n
<1>5. c \in Seq(R) /\ Len(c) = p /\ c[p] = l /\ \A i \in 1 .. (p - 1) : c[i] = t[i]
  <2>1. /\ c \in Seq(R) /\ Len(c) = Len(a) + Len(<<l>>)
        /\ \A i \in 1 .. Len(a) : c[i] = a[i]
        /\ \A i \in 1 .. Len(<<l>>) : c[Len(a) + i] = <<l>>[i]
    BY <1>2, <1>4, Joined
  <2> HIDE DEF c
  <2>2. c[p] = l
    <3>1. 1 \in 1 .. Len(<<l>>) /\ Len(a) + 1 = p
      BY <1>2, <1>4
    <3>2. QED
      BY <1>4, <2>1, <3>1
  <2>3. \A i \in 1 .. (p - 1) : c[i] = t[i]
    BY <1>2, <2>1
  <2>4. c \in Seq(R) /\ Len(c) = p
    BY <1>2, <1>4, <2>1
  <2>5. QED
    BY <2>2, <2>3, <2>4
<1> HIDE DEF c
<1>6. /\ u \in Seq(R) /\ Len(u) = p + (n + 1 - p)
      /\ \A i \in 1 .. p : u[i] = c[i]
      /\ \A i \in 1 .. (n + 1 - p) : u[p + i] = b[i]
  <2>1. /\ u \in Seq(R) /\ Len(u) = Len(c) + Len(b)
        /\ \A i \in 1 .. Len(c) : u[i] = c[i]
        /\ \A i \in 1 .. Len(b) : u[Len(c) + i] = b[i]
    <3>1. c \in Seq(R) /\ b \in Seq(R)
      BY <1>3, <1>5
    <3>2. QED
      BY <3>1
  <2> HIDE DEF u
  <2>2. Len(c) = p /\ Len(b) = n + 1 - p
    BY <1>3, <1>5
  <2>3. QED
    BY <2>1, <2>2
<1> HIDE DEF u
<1>7. u[p] = l /\ \A i \in 1 .. n : i < p => u[i] = t[i]
  <2>1. p \in 1 .. p /\ \A i \in 1 .. n : i < p => i \in 1 .. p /\ i \in 1 .. (p - 1)
    BY <1>1
  <2>2. QED
    BY <1>5, <1>6, <2>1
<1>8. ASSUME NEW i \in 1 .. n, i >= p PROVE u[i + 1] = t[i]
  <2> DEFINE j == i + 1 - p
  <2>1. j \in 1 .. (n + 1 - p) /\ p + j = i + 1 /\ p - 1 + j = i
    BY <1>1, <1>8
  <2> HIDE DEF j
  <2>2. u[p + j] = b[j] /\ b[j] = t[p - 1 + j]
    BY <1>3, <1>6, <2>1
  <2>3. QED
    BY <2>1, <2>2
<1>9. Len(u) = n + 1
  BY <1>1, <1>6
<1>10. InsertAt(t, p, l) = u
  BY DEF InsertAt, u, c, a, b, n
<1>11. QED
  BY <1>6, <1>7, <1>8, <1>9, <1>10 DEF n

LEMMA TopInserted ==
    ASSUME NEW t, IsFile(t), NEW k, IsText(k), NEW v, IsText(v), Tops(t, k) = {}
    PROVE  SetEffect(t, SetTop(t, k, v), k, v)
<1> DEFINE l == Pair(k, Escaped(v))
           n == Len(t)
           p == FirstHeader(t)
           u == InsertAt(t, p, l)
           m == [i \in 1 .. n |-> IF i < p THEN i ELSE i + 1]
           w == Reading(Escaped(v))
<1>1. IsLine(l) /\ l.kind = "pair" /\ l.key = k /\ l.val = Escaped(v)
  BY PairLine
<1>2. n \in Nat /\ DOMAIN t = 1 .. n /\ \A i \in 1 .. n : IsLine(t[i])
  BY FileLines
<1>3. /\ p \in 1 .. (n + 1) /\ \A j \in 1 .. n : j < p => t[j].kind # "header"
      /\ p <= n => t[p].kind = "header"
  BY FirstHeaderIs
<1> HIDE DEF p, l
<1>4. /\ u = [i \in 1 .. (n + 1) |-> u[i]] /\ u[p] = l
      /\ \A i \in 1 .. n : i < p => u[i] = t[i]
      /\ \A i \in 1 .. n : i >= p => u[i + 1] = t[i]
  <2> DEFINE R == {t[i] : i \in DOMAIN t} \union {l}
  <2>1. t \in Seq(R) /\ l \in R
    <3>1. \A i \in 1 .. n : t[i] \in R
      BY <1>2
    <3>2. t = [i \in 1 .. n |-> t[i]]
      BY DEF IsFile
    <3> HIDE DEF R
    <3>3. QED
      BY <1>2, <3>1, <3>2 DEF R
  <2> HIDE DEF R
  <2>2. /\ u \in Seq(R) /\ Len(u) = n + 1 /\ u[p] = l
        /\ \A i \in 1 .. n : i < p => u[i] = t[i]
        /\ \A i \in 1 .. n : i >= p => u[i + 1] = t[i]
    <3>1. p \in 1 .. (Len(t) + 1)
      BY <1>3
    <3>2. QED
      BY <2>1, <3>1, Inserted
  <2> HIDE DEF u
  <2>3. QED
    BY <2>2
<1>5. SetTop(t, k, v) = u
  BY DEF SetTop, l, p
<1> HIDE DEF u, n
<1>6. \A i \in 1 .. n : m[i] \in 1 .. (n + 1) /\ m[i] # p /\ u[m[i]] = t[i]
  <2> SUFFICES ASSUME NEW i \in 1 .. n
               PROVE  m[i] \in 1 .. (n + 1) /\ m[i] # p /\ u[m[i]] = t[i]
    OBVIOUS
  <2>1. CASE i < p
    <3>1. m[i] = i
      BY <2>1
    <3>2. u[i] = t[i]
      BY <1>4, <2>1
    <3>3. i \in 1 .. (n + 1) /\ i # p
      BY <1>2, <1>3, <2>1
    <3>4. QED
      BY <3>1, <3>2, <3>3
  <2>2. CASE i >= p
    <3>1. m[i] = i + 1
      BY <1>2, <1>3, <2>2
    <3>2. u[i + 1] = t[i]
      BY <1>4, <2>2
    <3>3. i + 1 \in 1 .. (n + 1) /\ i + 1 # p
      BY <1>2, <1>3, <2>2
    <3>4. QED
      BY <3>1, <3>2, <3>3
  <2>3. QED
    BY <1>2, <1>3, <2>1, <2>2
<1>7. \A q \in 1 .. (n + 1) : q # p => \E i \in 1 .. n : m[i] = q
  <2> SUFFICES ASSUME NEW q \in 1 .. (n + 1), q # p PROVE \E i \in 1 .. n : m[i] = q
    OBVIOUS
  <2>1. CASE q < p
    BY <1>2, <1>3, <2>1
  <2>2. CASE q > p
    <3>1. q - 1 \in 1 .. n /\ m[q - 1] = q
      BY <1>2, <1>3, <2>2
    <3>2. QED
      BY <3>1
  <2>3. QED
    BY <1>2, <1>3, <2>1, <2>2
<1>8. \A i, j \in 1 .. n : i <= j => m[i] <= m[j]
  BY <1>2, <1>3
<1>9. IsFile(u)
  <2>1. \A i \in 1 .. (n + 1) : IsLine(u[i])
    BY <1>1, <1>2, <1>4, <1>6, <1>7
  <2>2. n + 1 \in Nat
    BY <1>2
  <2>3. QED
    BY <1>4, <2>1, <2>2, LinesFile
<1>10. DOMAIN u = 1 .. (n + 1)
  BY <1>4
<1>11. ASSUME NEW i \in 1 .. p PROVE SectionAt(u, i) = ""
  <2>1. \A j \in 1 .. i : u[j].kind # "header"
    <3> SUFFICES ASSUME NEW j \in 1 .. i PROVE u[j].kind # "header"
      OBVIOUS
    <3>1. CASE j = p
      BY <1>1, <1>4, <3>1
    <3>2. CASE j # p
      <4>1. j \in 1 .. n /\ j < p
        BY <1>2, <1>3, <3>2
      <4>2. QED
        BY <1>3, <1>4, <4>1
    <3>3. QED
      BY <3>1, <3>2
  <2>2. QED
    BY <2>1, SectionNone
<1>12. ASSUME NEW i \in 1 .. n PROVE SectionAt(u, m[i]) = SectionAt(t, i)
  <2>1. CASE i < p
    <3>1. \A j \in 1 .. i : t[j].kind # "header"
      BY <1>2, <1>3, <2>1
    <3>2. SectionAt(t, i) = ""
      BY <3>1, SectionNone
    <3>3. m[i] \in 1 .. p
      BY <1>2, <1>3, <2>1
    <3>4. QED
      BY <1>11, <3>2, <3>3
  <2>2. CASE i >= p
    <3>1. p \in 1 .. i /\ t[p].kind = "header" /\ i \in DOMAIN t
      BY <1>2, <1>3, <2>2
    <3>2. PICK h \in 1 .. i : /\ t[h].kind = "header" /\ SectionAt(t, i) = t[h].section
                              /\ \A j \in 1 .. i : j > h => t[j].kind # "header"
      BY <3>1, SectionHeader
    <3>3. h >= p /\ h \in 1 .. n
      BY <1>2, <1>3, <3>1, <3>2
    <3>4. u[h + 1] = t[h] /\ m[i] = i + 1
      <4>1. m[i] = i + 1
        BY <1>2, <1>3, <2>2
      <4>2. QED
        BY <1>4, <3>3, <4>1
    <3>5. \A j \in 1 .. (i + 1) : j > h + 1 => u[j].kind # "header"
      <4> SUFFICES ASSUME NEW j \in 1 .. (i + 1), j > h + 1 PROVE u[j].kind # "header"
        OBVIOUS
      <4>1. j - 1 \in 1 .. i /\ j - 1 > h /\ j - 1 \in 1 .. n /\ j - 1 >= p /\ (j - 1) + 1 = j
        BY <1>2, <1>3, <3>3
      <4>2. u[j] = t[j - 1]
        BY <1>4, <4>1
      <4>3. QED
        BY <3>2, <4>1, <4>2
    <3>6. i + 1 \in Nat /\ h + 1 \in 1 .. (i + 1)
      BY <1>2
    <3>7. SectionAt(u, i + 1) = u[h + 1].section
      BY <3>2, <3>4, <3>5, <3>6, SectionIs
    <3>8. QED
      BY <3>2, <3>4, <3>7
  <2>3. QED
    BY <1>2, <1>3, <2>1, <2>2
<1> HIDE DEF m
<1>13. /\ \A s : \A i \in PairsOf(t, s) : i \in 1 .. n /\ m[i] \in PairsOf(u, s) /\ u[m[i]] = t[i]
       /\ \A s : \A q \in PairsOf(u, s) : q # p => \E i \in PairsOf(t, s) : m[i] = q
  BY <1>2, <1>6, <1>7, <1>10, <1>12 DEF PairsOf
<1>14. p \in 1 .. p
  BY <1>3
<1>15. \A s : p \in PairsOf(u, s) <=> s = ""
  <2>1. p \in DOMAIN u /\ u[p].kind = "pair" /\ SectionAt(u, p) = ""
    BY <1>1, <1>3, <1>4, <1>10, <1>11, <1>14
  <2>2. QED
    BY <2>1 DEF PairsOf
<1>16. ASSUME NEW s, p \in PairsOf(u, s), \A i \in PairsOf(t, s) : t[i].key # k
       PROVE  Table(u, s) = Put(Table(t, s), k, w)
  <2>1. \A q \in PairsOf(u, s) : u[q].key = k => q = p
    <3> SUFFICES ASSUME NEW q \in PairsOf(u, s), q # p PROVE u[q].key # k
      OBVIOUS
    <3>1. PICK i \in PairsOf(t, s) : m[i] = q
      BY <1>13
    <3>2. u[q] = t[i]
      BY <1>13, <3>1
    <3>3. QED
      BY <1>16, <3>2
  <2>2. Carried(t, Others(t, s, k), u, Others(u, s, k), m)
    <3>1. Others(t, s, k) = PairsOf(t, s)
      BY <1>16 DEF Others
    <3>2. \A q \in Others(u, s, k) : q \in PairsOf(u, s) /\ q # p
      BY <1>1, <1>4 DEF Others
    <3>3. \A i \in PairsOf(t, s) : m[i] \in Others(u, s, k) /\ u[m[i]] = t[i]
      BY <1>13, <1>16 DEF Others
    <3>4. \A q \in Others(u, s, k) : \E i \in PairsOf(t, s) : m[i] = q
      BY <1>13, <3>2
    <3>5. \A i, j \in PairsOf(t, s) : i <= j => m[i] <= m[j]
      BY <1>8, <1>13
    <3>6. QED
      BY <3>1, <3>3, <3>4, <3>5 DEF Carried
  <2>3. \A q \in PairsOf(u, s) : u[q].key = k => Reading(u[q].val) = w
    BY <1>1, <1>4, <2>1
  <2>4. p \in PairsOf(u, s) /\ u[p].key = k
    BY <1>1, <1>4, <1>16
  <2> HIDE DEF w
  <2>5. QED
    BY <1>9, <2>2, <2>3, <2>4, TablePut
<1>17. Table(u, "") = Put(Table(t, ""), k, w)
  <2>1. \A i \in PairsOf(t, "") : t[i].key # k
    BY DEF Tops
  <2> HIDE DEF w
  <2>2. QED
    BY <1>15, <1>16, <2>1
<1>18. ASSUME NEW s, s # "" PROVE Table(u, s) = Table(t, s)
  <2>1. p \notin PairsOf(u, s)
    BY <1>15, <1>18
  <2>2. \A i \in PairsOf(t, s) : m[i] \in PairsOf(u, s) /\ u[m[i]] = t[i]
    BY <1>13
  <2>3. \A q \in PairsOf(u, s) : \E i \in PairsOf(t, s) : m[i] = q
    BY <1>13, <2>1
  <2>4. \A i, j \in PairsOf(t, s) : i <= j => m[i] <= m[j]
    BY <1>8, <1>13
  <2>5. Carried(t, PairsOf(t, s), u, PairsOf(u, s), m)
    BY <2>2, <2>3, <2>4 DEF Carried
  <2>6. QED
    BY <1>9, <2>5, TableCarried
<1>19. Parses(t) => Parses(u)
  <2> SUFFICES ASSUME Parses(t), NEW q \in 1 .. (n + 1) PROVE u[q].kind # "junk"
    BY <1>10 DEF Parses
  <2>1. CASE q = p
    BY <1>1, <1>4, <2>1
  <2>2. CASE q # p
    <3>1. PICK i \in 1 .. n : m[i] = q
      BY <1>7, <2>2
    <3>2. u[q] = t[i] /\ t[i].kind # "junk"
      BY <1>2, <1>6, <3>1 DEF Parses
    <3>3. QED
      BY <3>2
  <2>3. QED
    BY <2>1, <2>2
<1>20. QED
  BY <1>5, <1>9, <1>17, <1>18, <1>19 DEF SetEffect, w

LEMMA Setting ==
    ASSUME NEW t, IsFile(t), NEW k, IsText(k), NEW v, IsText(v)
    PROVE  SetEffect(t, SetTop(t, k, v), k, v)
BY TopReplaced, TopInserted

-------------------------------------------------------------------------------
(* The two tables, written anew (rewrite_sections).                           *)

LEMMA KeysListed ==
    ASSUME NEW S, IsFiniteSet(S)
    PROVE  /\ Cardinality(S) \in Nat /\ SetToSeq(S) \in [1 .. Cardinality(S) -> S]
           /\ \A x \in S : \E i \in 1 .. Cardinality(S) : SetToSeq(S)[i] = x
<1> DEFINE c == Cardinality(S)
           q == SetToSeq(S)
<1>1. c \in Nat /\ ExistsBijection(1 .. c, S)
  BY FS_CardinalityType
<1>2. \E f \in [1 .. c -> S] : IsInjective(f)
  BY <1>1 DEF ExistsBijection, Bijection, Injection
<1>3. q \in [1 .. c -> S] /\ IsInjective(q)
  BY <1>2, Zenon DEF SetToSeq
<1>4. q \in Injection(1 .. c, S)
  BY <1>3, Zenon DEF Injection
<1> HIDE DEF q
<1>5. Cardinality(1 .. c) = c
  <2> HIDE DEF c
  <2>1. QED
    BY <1>1, FS_Interval
<1>6. q \in Surjection(1 .. c, S)
  BY <1>4, <1>5, FS_Injection
<1>7. \A x \in S : \E i \in 1 .. c : q[i] = x
  BY <1>6, Zenon DEF Surjection
<1>8. QED
  BY <1>1, <1>3, <1>7, Zenon DEF q

(* What a table may hold.                                                     *)
IsTable(f) ==
    /\ f = [k \in DOMAIN f |-> f[k]] /\ IsFiniteSet(DOMAIN f)
    /\ \A k \in DOMAIN f : IsText(k) /\ IsText(f[k])

(* A block of lines: a header and a line for every key.                       *)
IsBlock(s, f, b, c) ==
    /\ c \in Nat /\ b = [i \in 1 .. (c + 1) |-> b[i]]
    /\ b[1] = Header(s) /\ \A i \in 1 .. (c + 1) : IsLine(b[i])
    /\ \A i \in 1 .. (c + 1) : i # 1 => \E k \in DOMAIN f : b[i] = Pair(Escaped(k), f[k])
    /\ \A k \in DOMAIN f : \E i \in 1 .. (c + 1) : i # 1 /\ b[i] = Pair(Escaped(k), f[k])

LEMMA BlockLines ==
    ASSUME NEW s \in {"users", "quotas"}, NEW f, IsTable(f)
    PROVE  IsBlock(s, f, Block(s, f), Cardinality(DOMAIN f))
<1> DEFINE D == DOMAIN f
           c == Cardinality(D)
           q == SetToSeq(D)
           L(k) == Pair(Escaped(k), f[k])
           a == [i \in 1 .. c |-> L(q[i])]
           b == Block(s, f)
<1>1. IsFiniteSet(D)
  BY DEF IsTable
<1>2. c \in Nat /\ q \in [1 .. c -> D] /\ \A x \in D : \E i \in 1 .. c : q[i] = x
  BY <1>1, KeysListed
<1>3. b = <<Header(s)>> \o a
  BY DEF Block
<1>4. \A k \in D : IsLine(L(k))
  BY TextKept DEF IsTable, Pair, IsLine
<1>5. IsLine(Header(s))
  BY DEF Header, IsLine
<1>n. c \in Nat
  BY <1>2
<1> HIDE DEF c, q, L, b
<1>q. \A i \in 1 .. c : q[i] \in D
  BY <1>2
<1>6. a \in Seq({L(k) : k \in D}) /\ Len(a) = c /\ \A i \in 1 .. c : a[i] = L(q[i])
  <2>1. \A i \in 1 .. c : a[i] = L(q[i]) /\ q[i] \in D
    BY <1>q
  <2>2. \A i \in 1 .. c : a[i] \in {L(k) : k \in D}
    BY <2>1
  <2> DEFINE R == {L(k) : k \in D}
  <2>3. a \in [1 .. c -> R]
    BY <2>2
  <2> HIDE DEF R, a
  <2>4. a \in Seq(R) /\ Len(a) = c
    BY <1>n, <2>3
  <2>5. QED
    BY <2>1, <2>4 DEF R
<1> HIDE DEF a
<1>7. /\ b = [i \in 1 .. (c + 1) |-> b[i]] /\ b[1] = Header(s)
      /\ \A i \in 1 .. c : b[i + 1] = L(q[i])
  <2> DEFINE R == {L(k) : k \in D} \union {Header(s)}
  <2>0. {L(k) : k \in D} \subseteq R /\ Header(s) \in R
    OBVIOUS
  <2> HIDE DEF R
  <2>1. a \in Seq(R) /\ <<Header(s)>> \in Seq(R) /\ Len(<<Header(s)>>) = 1
    BY <1>n, <1>6, <2>0
  <2>2. /\ b \in Seq(R) /\ Len(b) = 1 + c /\ b[1] = Header(s)
        /\ \A i \in 1 .. c : b[1 + i] = a[i]
    BY <1>n, <1>3, <1>6, <2>1
  <2>3. \A i \in 1 .. c : 1 + i = i + 1
    BY <1>n
  <2>4. 1 + c = c + 1
    BY <1>n
  <2>5. b = [i \in 1 .. (c + 1) |-> b[i]]
    BY <2>2, <2>4
  <2>6. QED
    BY <1>6, <2>2, <2>3, <2>5
<1>8. \A i \in 1 .. (c + 1) : i # 1 => \E j \in 1 .. c : i = j + 1
  <2> SUFFICES ASSUME NEW i \in 1 .. (c + 1), i # 1 PROVE \E j \in 1 .. c : i = j + 1
    OBVIOUS
  <2>1. i - 1 \in 1 .. c /\ i = (i - 1) + 1
    BY <1>n
  <2>2. QED
    BY <2>1
<1>9. \A i \in 1 .. (c + 1) : i # 1 => \E k \in D : b[i] = L(k)
  BY <1>7, <1>8, <1>q
<1>10. \A k \in D : \E i \in 1 .. (c + 1) : i # 1 /\ b[i] = L(k)
  <2> TAKE k \in D
  <2>1. PICK j \in 1 .. c : q[j] = k
    BY <1>2
  <2>2. j + 1 \in 1 .. (c + 1) /\ j + 1 # 1
    BY <1>n
  <2>3. b[j + 1] = L(k)
    BY <1>7, <2>1
  <2>4. QED
    BY <2>2, <2>3
<1>11. \A i \in 1 .. (c + 1) : IsLine(b[i])
  BY <1>4, <1>5, <1>7, <1>9
<1>12. QED
  BY <1>n, <1>7, <1>9, <1>10, <1>11 DEF L, b, c, IsBlock

(* What a table that is added to a file does to its tables.                   *)
Grown(t, u, s, f) ==
    /\ IsFile(u) /\ (Parses(t) => Parses(u))
    /\ \A i \in DOMAIN t : i \in DOMAIN u /\ u[i] = t[i]
    /\ \A r : r # s => PairsOf(u, r) = PairsOf(t, r) /\ Table(u, r) = Table(t, r)
    /\ (\A k \in DOMAIN f : Escaped(k) = k) => Table(u, s) = [k \in DOMAIN f |-> Reading(f[k])]

LEMMA BlockGrown ==
    ASSUME NEW t, IsFile(t), NEW s \in {"users", "quotas"}, NEW f, IsTable(f), PairsOf(t, s) = {}
    PROVE  Grown(t, t \o Block(s, f), s, f)
<1> DEFINE n == Len(t)
           D == DOMAIN f
           c == Cardinality(D)
           b == Block(s, f)
           u == t \o b
           L(k) == Pair(Escaped(k), f[k])
           m == [i \in 1 .. n |-> i]
<1>1. n \in Nat /\ DOMAIN t = 1 .. n /\ \A i \in 1 .. n : IsLine(t[i])
  BY FileLines
<1>2. /\ c \in Nat /\ b = [i \in 1 .. (c + 1) |-> b[i]]
      /\ b[1] = Header(s) /\ \A i \in 1 .. (c + 1) : IsLine(b[i])
      /\ \A i \in 1 .. (c + 1) : i # 1 => \E k \in D : b[i] = L(k)
      /\ \A k \in D : \E i \in 1 .. (c + 1) : i # 1 /\ b[i] = L(k)
  <2>1. IsBlock(s, f, b, c)
    BY BlockLines, Zenon
  <2> HIDE DEF b, c
  <2>2. QED
    BY <2>1 DEF IsBlock
<1>3. \A k : L(k).kind = "pair" /\ L(k).key = Escaped(k) /\ L(k).val = f[k]
  BY DEF Pair
<1>4. Header(s).kind = "header" /\ Header(s).section = s
  BY DEF Header
<1>5. t = [i \in 1 .. n |-> t[i]]
  BY <1>1 DEF IsFile
<1> HIDE DEF n, c, b, L
<1>6. /\ u = [i \in 1 .. (n + (c + 1)) |-> u[i]]
      /\ \A i \in 1 .. n : u[i] = t[i]
      /\ \A i \in 1 .. (c + 1) : u[n + i] = b[i]
  <2> DEFINE R == {t[i] : i \in 1 .. n} \union {b[i] : i \in 1 .. (c + 1)}
  <2>1. (\A i \in 1 .. n : t[i] \in R) /\ (\A i \in 1 .. (c + 1) : b[i] \in R)
    OBVIOUS
  <2> HIDE DEF R
  <2>2. t \in [1 .. n -> R]
    BY <1>5, <2>1
  <2>3. b \in [1 .. (c + 1) -> R]
    BY <1>2, <2>1
  <2>4. t \in Seq(R) /\ Len(t) = n
    BY <1>1, <2>2
  <2>5. b \in Seq(R) /\ Len(b) = c + 1
    BY <1>2, <2>3
  <2>6. /\ u \in Seq(R) /\ Len(u) = Len(t) + Len(b)
        /\ \A i \in 1 .. Len(t) : u[i] = t[i]
        /\ \A i \in 1 .. Len(b) : u[Len(t) + i] = b[i]
    BY <2>4, <2>5
  <2> HIDE DEF u
  <2>7. Len(u) = n + (c + 1)
    BY <2>4, <2>5, <2>6
  <2>8. u = [i \in 1 .. (n + (c + 1)) |-> u[i]]
    BY <2>6, <2>7
  <2>9. QED
    BY <2>4, <2>5, <2>6, <2>8
<1> HIDE DEF u
<1> DEFINE e == n + (c + 1)
<1>7. e \in Nat /\ DOMAIN u = 1 .. e /\ n + 1 \in 1 .. e /\ \A i \in 1 .. n : i \in 1 .. e
  BY <1>1, <1>2, <1>6
<1>8. ASSUME NEW i \in 1 .. e, i \notin 1 .. n
      PROVE  i - n \in 1 .. (c + 1) /\ u[i] = b[i - n] /\ i > n
  <2>1. i - n \in 1 .. (c + 1) /\ n + (i - n) = i /\ i > n
    BY <1>1, <1>2, <1>8
  <2>2. u[n + (i - n)] = b[i - n]
    BY <1>6, <2>1
  <2>3. QED
    BY <2>1, <2>2
<1>9. u[n + 1] = Header(s)
  <2>1. 1 \in 1 .. (c + 1)
    BY <1>2
  <2>2. QED
    BY <1>2, <1>6, <2>1
<1>10. ASSUME NEW i \in 1 .. e, i \notin 1 .. n, i # n + 1 PROVE \E k \in D : u[i] = L(k)
  <2>1. i - n \in 1 .. (c + 1) /\ i - n # 1
    BY <1>1, <1>2, <1>10
  <2>2. QED
    BY <1>2, <1>8, <1>10, <2>1
<1>11. IsFile(u)
  <2>1. \A i \in 1 .. e : IsLine(u[i])
    BY <1>1, <1>2, <1>6, <1>8
  <2>2. QED
    BY <1>6, <1>7, <2>1, LinesFile
<1>12. ASSUME NEW i \in 1 .. n PROVE SectionAt(u, i) = SectionAt(t, i)
  <2>1. \A j \in 1 .. i : u[j] = t[j]
    BY <1>1, <1>6
  <2>2. i \in DOMAIN t
    BY <1>1
  <2>3. QED
    BY <2>1, <2>2, SectionAlike
<1>13. ASSUME NEW i \in 1 .. e, i \notin 1 .. n PROVE SectionAt(u, i) = s
  <2>1. i \in Nat /\ n + 1 \in 1 .. i /\ i > n
    BY <1>1, <1>7, <1>13
  <2>2. \A j \in 1 .. i : j > n + 1 => u[j].kind # "header"
    <3> SUFFICES ASSUME NEW j \in 1 .. i, j > n + 1 PROVE u[j].kind # "header"
      OBVIOUS
    <3>1. j \in 1 .. e /\ j \notin 1 .. n /\ j # n + 1
      BY <1>1, <1>7
    <3>2. PICK k \in D : u[j] = L(k)
      BY <1>10, <3>1
    <3>3. QED
      BY <1>3, <3>2
  <2>3. SectionAt(u, i) = u[n + 1].section
    BY <1>4, <1>9, <2>1, <2>2, SectionIs
  <2>4. QED
    BY <1>4, <1>9, <2>3
<1>14. ASSUME NEW r, r # s PROVE PairsOf(u, r) = PairsOf(t, r)
  <2>1. \A i \in PairsOf(u, r) : i \in 1 .. e /\ u[i].kind = "pair" /\ SectionAt(u, i) = r
    BY <1>7 DEF PairsOf
  <2>2. \A i \in PairsOf(u, r) : i \in 1 .. n
    BY <1>13, <1>14, <2>1
  <2>3. \A i \in PairsOf(u, r) : i \in PairsOf(t, r)
    BY <1>1, <1>6, <1>12, <2>1, <2>2 DEF PairsOf
  <2>4. \A i \in PairsOf(t, r) : i \in PairsOf(u, r)
    BY <1>1, <1>6, <1>7, <1>12 DEF PairsOf
  <2>5. QED
    BY <2>3, <2>4
<1>15. ASSUME NEW r, r # s PROVE Table(u, r) = Table(t, r)
  <2>1. PairsOf(u, r) = PairsOf(t, r)
    BY <1>14, <1>15
  <2>2. \A i \in PairsOf(t, r) : i \in 1 .. n
    BY <1>1 DEF PairsOf
  <2>3. \A i \in PairsOf(t, r) : m[i] = i /\ u[i] = t[i]
    BY <1>6, <2>2
  <2>4. Carried(t, PairsOf(t, r), u, PairsOf(u, r), m)
    BY <2>1, <2>3 DEF Carried
  <2>5. QED
    BY <1>11, <2>4, TableCarried
<1>16. ASSUME \A k \in D : Escaped(k) = k
       PROVE  Table(u, s) = [k \in D |-> Reading(f[k])]
  <2> DEFINE g == [k \in D |-> Reading(f[k])]
  <2>1. g = [k \in DOMAIN g |-> g[k]] /\ DOMAIN g = D /\ \A k \in D : g[k] = Reading(f[k])
    OBVIOUS
  <2> HIDE DEF g
  <2>2. ASSUME NEW i \in PairsOf(u, s)
        PROVE  u[i].key \in D /\ Reading(u[i].val) = g[u[i].key]
    <3>1. i \in 1 .. e /\ u[i].kind = "pair" /\ SectionAt(u, i) = s
      BY <1>7 DEF PairsOf
    <3>2. i \notin 1 .. n
      <4> SUFFICES ASSUME i \in 1 .. n PROVE FALSE
        OBVIOUS
      <4>1. i \in PairsOf(t, s)
        BY <1>1, <1>6, <1>12, <3>1 DEF PairsOf
      <4>2. QED
        BY <4>1
    <3>3. i # n + 1
      BY <1>4, <1>9, <3>1
    <3>4. PICK k \in D : u[i] = L(k)
      BY <1>10, <3>1, <3>2, <3>3
    <3>5. u[i].key = k /\ u[i].val = f[k]
      BY <1>3, <1>16, <3>4
    <3>6. QED
      BY <2>1, <3>5
  <2>3. ASSUME NEW k \in D PROVE \E i \in PairsOf(u, s) : u[i].key = k
    <3>1. PICK j \in 1 .. (c + 1) : j # 1 /\ b[j] = L(k)
      BY <1>2
    <3>2. n + j \in 1 .. e /\ n + j \notin 1 .. n
      BY <1>1, <1>2
    <3>3. u[n + j] = L(k)
      BY <1>6, <3>1
    <3>4. u[n + j].kind = "pair" /\ u[n + j].key = k
      BY <1>3, <1>16, <3>3
    <3>5. SectionAt(u, n + j) = s
      BY <1>13, <3>2
    <3>6. n + j \in PairsOf(u, s)
      BY <1>7, <3>2, <3>4, <3>5 DEF PairsOf
    <3>7. QED
      BY <3>4, <3>6
  <2>4. Table(u, s) = g
    BY <1>11, <2>1, <2>2, <2>3, TableIs
  <2>5. QED
    BY <2>4 DEF g
<1>17. ASSUME Parses(t) PROVE Parses(u)
  <2>1. ASSUME NEW i \in 1 .. e PROVE u[i].kind # "junk"
    <3>1. CASE i \in 1 .. n
      BY <1>1, <1>6, <1>17, <3>1 DEF Parses
    <3>2. CASE i = n + 1
      BY <1>4, <1>9, <3>2
    <3>3. CASE i \notin 1 .. n /\ i # n + 1
      BY <1>3, <1>10, <3>3
    <3>4. QED
      BY <3>1, <3>2, <3>3
  <2>2. QED
    BY <1>7, <2>1 DEF Parses
<1>18. \A i \in DOMAIN t : i \in DOMAIN u /\ u[i] = t[i]
  BY <1>1, <1>6, <1>7
<1>19. Grown(t, u, s, f)
  BY <1>11, <1>14, <1>15, <1>16, <1>17, <1>18 DEF Grown
<1>20. QED
  BY <1>19 DEF u, b

(* ... or nothing, if there is nothing to be in it (and was none).            *)
One(had, s, f) == IF had \/ DOMAIN f # {} THEN Block(s, f) ELSE << >>

LEMMA OneGrown ==
    ASSUME NEW t, IsFile(t), NEW s \in {"users", "quotas"}, NEW f, IsTable(f), PairsOf(t, s) = {},
           NEW had
    PROVE  Grown(t, t \o One(had, s, f), s, f)
<1>1. CASE had \/ DOMAIN f # {}
  BY <1>1, BlockGrown DEF One
<1>2. CASE ~(had \/ DOMAIN f # {})
  <2>1. t \o One(had, s, f) = t
    <3>1. One(had, s, f) = << >>
      BY <1>2 DEF One
    <3>2. QED
      BY <3>1 DEF IsFile
  <2> DEFINE g == [k \in DOMAIN f |-> Reading(f[k])]
  <2>2. Table(t, s) = g
    <3>1. DOMAIN g = {} /\ g = [k \in DOMAIN g |-> g[k]]
      BY <1>2
    <3> HIDE DEF g
    <3>2. QED
      BY <3>1, TableIs
  <2>3. QED
    BY <2>1, <2>2 DEF Grown
<1>3. QED
  BY <1>1, <1>2

-------------------------------------------------------------------------------
(* The lines outside the two tables.                                          *)
Outside(t) == {i \in DOMAIN t : SectionAt(t, i) \notin {"users", "quotas"}}

LEMMA OutsideRanks ==
    ASSUME NEW t, IsFile(t)
    PROVE  LET K == Outside(t)
               c == Cardinality(K)
           IN  /\ c \in Nat /\ K \subseteq 1 .. Len(t)
               /\ \A i \in K : Rank(K, i) \in 1 .. c
               /\ \A i, j \in K : i < j <=> Rank(K, i) < Rank(K, j)
               /\ \A i, j \in K : Rank(K, i) = Rank(K, j) => i = j
               /\ \A m \in 1 .. c : \E i \in K : Rank(K, i) = m
<1>1. Len(t) \in Nat /\ Outside(t) \in SUBSET (1 .. Len(t))
  BY FileLines DEF Outside
<1>2. QED
  BY <1>1, Ranks

LEMMA KeptLines ==
    ASSUME NEW t, IsFile(t)
    PROVE  /\ Kept(t) = [m \in 1 .. Cardinality(Outside(t)) |-> Kept(t)[m]]
           /\ \A i \in Outside(t) : Kept(t)[Rank(Outside(t), i)] = t[i]
<1> DEFINE K == Outside(t)
           c == Cardinality(K)
           at(m) == CHOOSE i \in K : Rank(K, i) = m
<1>1. Kept(t) = [m \in 1 .. c |-> t[at(m)]]
  BY DEF Kept, Outside, Rank
<1>2. ASSUME NEW i \in K PROVE Rank(K, i) \in 1 .. c /\ at(Rank(K, i)) = i
  <2>1. Rank(K, i) \in 1 .. c
    BY OutsideRanks
  <2>2. at(Rank(K, i)) \in K /\ Rank(K, at(Rank(K, i))) = Rank(K, i)
    BY Zenon
  <2> HIDE DEF at
  <2>3. at(Rank(K, i)) = i
    BY <2>2, OutsideRanks
  <2>4. QED
    BY <2>1, <2>3
<1> HIDE DEF at
<1>3. \A i \in K : Kept(t)[Rank(K, i)] = t[i]
  BY <1>1, <1>2
<1>4. QED
  BY <1>1, <1>3

LEMMA KeptSections ==
    ASSUME NEW t, IsFile(t), NEW i \in Outside(t)
    PROVE  SectionAt(Kept(t), Rank(Outside(t), i)) = SectionAt(t, i)
<1> DEFINE K == Outside(t)
           c == Cardinality(K)
           x == Kept(t)
           q == Rank(K, i)
<1>1. /\ c \in Nat /\ K \subseteq 1 .. Len(t) /\ K \subseteq DOMAIN t
      /\ \A j \in K : Rank(K, j) \in 1 .. c
      /\ \A j, h \in K : j < h <=> Rank(K, j) < Rank(K, h)
      /\ \A m \in 1 .. c : \E j \in K : Rank(K, j) = m
  BY OutsideRanks DEF Outside
<1>2. \A j \in K : x[Rank(K, j)] = t[j]
  BY KeptLines
<1>3. Len(t) \in Nat /\ SectionAt(t, i) \notin {"users", "quotas"}
  BY FileLines DEF Outside
<1>4. \A h \in DOMAIN t : SectionAt(t, h) = SectionAt(t, i) => h \in K
  BY DEF Outside
<1> HIDE DEF K, c, x
<1>5. q \in 1 .. c /\ i \in DOMAIN t /\ i \in 1 .. Len(t)
  BY <1>1 DEF K
<1>6. ASSUME NEW m \in 1 .. q
      PROVE  \E j \in K : Rank(K, j) = m /\ j \in 1 .. i /\ x[m] = t[j]
  <2>1. m \in 1 .. c
    BY <1>1, <1>5
  <2>2. PICK j \in K : Rank(K, j) = m
    BY <1>1, <2>1
  <2>3. ~(q < m) /\ i \in K
    BY <1>1, <1>5 DEF K
  <2>4. ~(i < j)
    BY <1>1, <2>2, <2>3
  <2>5. j \in 1 .. i
    BY <1>1, <1>3, <1>5, <2>4
  <2>6. QED
    BY <1>2, <2>2, <2>5
<1>7. CASE SectionAt(t, i) = "" /\ \A j \in 1 .. i : t[j].kind # "header"
  <2>1. \A m \in 1 .. q : x[m].kind # "header"
    BY <1>6, <1>7
  <2>2. SectionAt(x, q) = ""
    BY <2>1, SectionNone
  <2>3. QED
    BY <1>7, <2>2 DEF x, K
<1>8. ASSUME NEW h \in 1 .. i, t[h].kind = "header", SectionAt(t, i) = t[h].section,
             \A j \in 1 .. i : j > h => t[j].kind # "header"
      PROVE  SectionAt(x, q) = SectionAt(t, i)
  <2>1. h \in Nat /\ h \in 1 .. h /\ h \in DOMAIN t /\ \A j \in 1 .. h : ~(j > h)
    <3>1. h \in 1 .. Len(t)
      BY <1>3, <1>5
    <3>2. QED
      BY <3>1, FileLines
  <2>2. SectionAt(t, h) = t[h].section
    BY <1>8, <2>1, SectionIs
  <2>3. h \in K /\ i \in K
    BY <1>4, <1>8, <2>1, <2>2 DEF K
  <2> DEFINE g == Rank(K, h)
  <2>4. g \in 1 .. c /\ x[g] = t[h]
    BY <1>1, <1>2, <2>3
  <2>5. g \in 1 .. q
    <3>1. ~(i < h)
      BY <1>3, <1>5, <2>1
    <3>2. ~(q < g)
      BY <1>1, <2>3, <3>1
    <3>3. QED
      BY <1>1, <1>5, <2>4, <3>2
  <2>6. ASSUME NEW m \in 1 .. q, m > g PROVE x[m].kind # "header"
    <3>1. PICK j \in K : Rank(K, j) = m /\ j \in 1 .. i /\ x[m] = t[j]
      BY <1>6
    <3>2. g < m
      BY <1>1, <1>5, <2>4, <2>6
    <3>3. h < j
      BY <1>1, <2>3, <3>1, <3>2
    <3>4. j > h
      BY <2>1, <3>1, <3>3
    <3>5. QED
      BY <1>8, <3>1, <3>4
  <2> HIDE DEF g
  <2>7. q \in Nat
    BY <1>1, <1>5
  <2>8. SectionAt(x, q) = x[g].section
    BY <1>8, <2>4, <2>5, <2>6, <2>7, SectionIs
  <2>9. QED
    BY <1>8, <2>4, <2>8
<1>9. QED
  BY <1>5, <1>7, <1>8, SectionHeader DEF x, K

(* What is left of a file without its two tables.                             *)
LEMMA KeptFile ==
    ASSUME NEW t, IsFile(t)
    PROVE  /\ IsFile(Kept(t)) /\ DOMAIN Kept(t) = 1 .. Cardinality(Outside(t))
           /\ Parses(t) => Parses(Kept(t))
<1> DEFINE K == Outside(t)
           c == Cardinality(K)
           x == Kept(t)
<1>1. /\ c \in Nat /\ K \subseteq DOMAIN t
      /\ \A m \in 1 .. c : \E j \in K : Rank(K, j) = m
  BY OutsideRanks DEF Outside
<1>2. x = [m \in 1 .. c |-> x[m]] /\ \A j \in K : x[Rank(K, j)] = t[j]
  BY KeptLines
<1> HIDE DEF K, c, x
<1>3. \A m \in 1 .. c : \E j \in DOMAIN t : x[m] = t[j]
  BY <1>1, <1>2
<1>4. \A m \in 1 .. c : IsLine(x[m])
  BY <1>3, FileLines
<1>5. IsFile(x) /\ DOMAIN x = 1 .. c
  BY <1>1, <1>2, <1>4, LinesFile
<1>6. Parses(t) => Parses(x)
  BY <1>3, <1>5 DEF Parses
<1>7. QED
  BY <1>5, <1>6 DEF x, c, K

(* A pair outside the two tables is where it was.                             *)
LEMMA KeptPairs ==
    ASSUME NEW t, IsFile(t), NEW r, r \notin {"users", "quotas"}
    PROVE  /\ PairsOf(t, r) \subseteq Outside(t)
           /\ \A i \in PairsOf(t, r) : Rank(Outside(t), i) \in PairsOf(Kept(t), r)
           /\ \A q \in PairsOf(Kept(t), r) : \E i \in PairsOf(t, r) : Rank(Outside(t), i) = q
<1> DEFINE K == Outside(t)
           c == Cardinality(K)
           x == Kept(t)
<1>1. /\ c \in Nat /\ K \subseteq DOMAIN t
      /\ \A j \in K : Rank(K, j) \in 1 .. c
      /\ \A m \in 1 .. c : \E j \in K : Rank(K, j) = m
  BY OutsideRanks DEF Outside
<1>2. /\ DOMAIN x = 1 .. c
      /\ \A j \in K : x[Rank(K, j)] = t[j] /\ SectionAt(x, Rank(K, j)) = SectionAt(t, j)
  BY KeptFile, KeptLines, KeptSections
<1>3. PairsOf(t, r) \subseteq K
  BY DEF PairsOf, Outside
<1> HIDE DEF K, c, x
<1>4. \A i \in PairsOf(t, r) : Rank(K, i) \in PairsOf(x, r)
  BY <1>1, <1>2, <1>3 DEF PairsOf
<1>5. ASSUME NEW q \in PairsOf(x, r) PROVE \E i \in PairsOf(t, r) : Rank(K, i) = q
  <2>1. q \in 1 .. c
    BY <1>2 DEF PairsOf
  <2>2. PICK i \in K : Rank(K, i) = q
    BY <1>1, <2>1
  <2>3. i \in PairsOf(t, r)
    BY <1>1, <1>2, <2>2 DEF PairsOf
  <2>4. QED
    BY <2>2, <2>3
<1>6. QED
  BY <1>3, <1>4, <1>5 DEF K, x

(* So the other tables are as they were, and the two are gone.                *)
LEMMA KeptTables ==
    ASSUME NEW t, IsFile(t)
    PROVE  /\ PairsOf(Kept(t), "users") = {} /\ PairsOf(Kept(t), "quotas") = {}
           /\ \A r : r \notin {"users", "quotas"} => Table(Kept(t), r) = Table(t, r)
<1> DEFINE K == Outside(t)
           c == Cardinality(K)
           x == Kept(t)
           m == [i \in K |-> Rank(K, i)]
<1>1. /\ c \in Nat
      /\ \A j \in K : Rank(K, j) \in 1 .. c
      /\ \A j, h \in K : j < h <=> Rank(K, j) < Rank(K, h)
      /\ \A j, h \in K : Rank(K, j) = Rank(K, h) => j = h
      /\ \A q \in 1 .. c : \E j \in K : Rank(K, j) = q
  BY OutsideRanks
<1>2. /\ DOMAIN x = 1 .. c
      /\ \A j \in K : x[Rank(K, j)] = t[j] /\ SectionAt(x, Rank(K, j)) = SectionAt(t, j)
  BY KeptFile, KeptLines, KeptSections
<1>3. \A j \in K : SectionAt(t, j) \notin {"users", "quotas"}
  BY DEF Outside
<1>4. K \subseteq 1 .. Len(t) /\ Len(t) \in Nat
  BY OutsideRanks, FileLines
<1>5. IsFile(x)
  BY KeptFile
<1>6. \A i \in K : m[i] = Rank(K, i)
  OBVIOUS
<1> HIDE DEF K, c, x, m
<1>7. \A q \in 1 .. c : SectionAt(x, q) \notin {"users", "quotas"}
  BY <1>1, <1>2, <1>3
<1>8. PairsOf(x, "users") = {} /\ PairsOf(x, "quotas") = {}
  BY <1>2, <1>7 DEF PairsOf
<1>9. ASSUME NEW r, r \notin {"users", "quotas"} PROVE Table(x, r) = Table(t, r)
  <2>1. /\ PairsOf(t, r) \subseteq K
        /\ \A i \in PairsOf(t, r) : Rank(K, i) \in PairsOf(x, r)
        /\ \A q \in PairsOf(x, r) : \E i \in PairsOf(t, r) : Rank(K, i) = q
    BY <1>9, KeptPairs DEF K, x
  <2>2. ASSUME NEW i \in PairsOf(t, r), NEW j \in PairsOf(t, r), i <= j PROVE m[i] <= m[j]
    <3>1. i \in K /\ j \in K /\ i \in 1 .. Len(t) /\ j \in 1 .. Len(t)
      BY <1>4, <2>1
    <3>2. i < j \/ i = j
      BY <1>4, <2>2, <3>1
    <3>3. Rank(K, i) < Rank(K, j) \/ i = j
      BY <1>1, <3>1, <3>2
    <3>4. m[i] = Rank(K, i) /\ m[j] = Rank(K, j)
      BY <1>6, <3>1
    <3>5. Rank(K, i) \in 1 .. c /\ Rank(K, j) \in 1 .. c
      BY <1>1, <3>1
    <3>6. QED
      BY <1>1, <3>3, <3>4, <3>5
  <2>3. \A i \in PairsOf(t, r) : x[m[i]] = t[i] /\ m[i] \in PairsOf(x, r)
    BY <1>2, <1>6, <2>1
  <2>4. \A q \in PairsOf(x, r) : \E i \in PairsOf(t, r) : m[i] = q
    BY <1>6, <2>1
  <2>5. Carried(t, PairsOf(t, r), x, PairsOf(x, r), m)
    BY <2>2, <2>3, <2>4 DEF Carried
  <2>6. QED
    BY <1>5, <2>5, TableCarried
<1>10. QED
  BY <1>8, <1>9 DEF x

(* A pair outside of them comes from one of the file.                         *)
LEMMA KeptTops ==
    ASSUME NEW t, IsFile(t), NEW s, s \notin {"users", "quotas"}
    PROVE  \A p \in PairsOf(Kept(t), s) : \E h \in PairsOf(t, s) :
               Rank(Outside(t), h) = p /\ Kept(t)[p] = t[h]
BY KeptPairs, KeptLines

(* What a file is rewritten to.                                               *)
IsQuotas(q) ==
    /\ q = [k \in DOMAIN q |-> q[k]] /\ IsFiniteSet(DOMAIN q)
    /\ \A k \in DOMAIN q : IsText(k)

Rewrote(t, u, us, qs) ==
    /\ IsFile(u) /\ (Parses(t) => Parses(u))
    /\ \A r : r \notin {"users", "quotas"} => Table(u, r) = Table(t, r)
    /\ (\A k \in DOMAIN us : Tame(k) /\ Tame(us[k])) => Table(u, "users") = us
    /\ (\A k \in DOMAIN qs : Tame(k) /\ Tame(Word(qs[k])))
           => Table(u, "quotas") = [k \in DOMAIN qs |-> Word(qs[k])]
    /\ \A r : r \notin {"users", "quotas"} =>
           \A p \in PairsOf(u, r) : \E h \in PairsOf(t, r) :
               Rank(Outside(t), h) = p /\ u[p] = t[h]

LEMMA Rewriting ==
    ASSUME NEW t, IsFile(t), NEW us, IsTable(us), NEW qs, IsQuotas(qs)
    PROVE  Rewrote(t, Rewritten(t, us, qs), us, qs)
<1> DEFINE x == Kept(t)
           f == [k \in DOMAIN us |-> Escaped(us[k])]
           g == [k \in DOMAIN qs |-> Word(qs[k])]
           hadUsers  == \E i \in DOMAIN t : t[i] = Header("users")
           hadQuotas == \E i \in DOMAIN t : t[i] = Header("quotas")
           y == x \o One(hadUsers, "users", f)
           u == Rewritten(t, us, qs)
<1>1. u = y \o One(hadQuotas, "quotas", g)
  BY Zenon DEF Rewritten, One
<1>2. IsTable(f) /\ IsTable(g)
  BY TextKept, WordText DEF IsTable, IsQuotas
<1>3. IsFile(x) /\ (Parses(t) => Parses(x)) /\ PairsOf(x, "users") = {} /\ PairsOf(x, "quotas") = {}
  BY KeptFile, KeptTables
<1>4. \A r : r \notin {"users", "quotas"} => Table(x, r) = Table(t, r)
  BY KeptTables, Zenon
<1>5. DOMAIN f = DOMAIN us /\ DOMAIN g = DOMAIN qs
  OBVIOUS
<1>6. us = [k \in DOMAIN us |-> us[k]]
  BY DEF IsTable
<1>7. \A k \in DOMAIN us : f[k] = Escaped(us[k])
  OBVIOUS
<1>8. \A k \in DOMAIN qs : g[k] = Word(qs[k])
  OBVIOUS
<1>9. g = [k \in DOMAIN qs |-> g[k]]
  OBVIOUS
<1> HIDE DEF x, f, g, hadUsers, hadQuotas
<1>10. Grown(x, y, "users", f)
  BY <1>2, <1>3, OneGrown
<1> HIDE DEF y
<1>11. IsFile(y) /\ PairsOf(y, "quotas") = {}
  BY <1>3, <1>10 DEF Grown
<1>12. Grown(y, u, "quotas", g)
  <2>1. Grown(y, y \o One(hadQuotas, "quotas", g), "quotas", g)
    BY <1>2, <1>11, OneGrown
  <2>2. QED
    BY <1>1, <2>1, Zenon
<1> HIDE DEF u
<1>13. IsFile(u) /\ (Parses(t) => Parses(u))
  BY <1>3, <1>10, <1>12 DEF Grown
<1>14. ASSUME NEW r, r \notin {"users", "quotas"}
       PROVE  PairsOf(u, r) = PairsOf(x, r) /\ Table(u, r) = Table(t, r)
  BY <1>4, <1>10, <1>12, <1>14 DEF Grown
<1>15. ASSUME \A k \in DOMAIN us : Tame(k) /\ Tame(us[k]) PROVE Table(u, "users") = us
  <2>1. \A k \in DOMAIN us : Escaped(k) = k /\ Reading(f[k]) = us[k]
    BY <1>7, <1>15, TameWords
  <2>2. Table(y, "users") = [k \in DOMAIN f |-> Reading(f[k])]
    BY <1>5, <1>10, <2>1 DEF Grown
  <2>3. Table(u, "users") = Table(y, "users")
    BY <1>12 DEF Grown
  <2>4. [k \in DOMAIN f |-> Reading(f[k])] = [k \in DOMAIN us |-> us[k]]
    BY <1>5, <2>1
  <2>5. QED
    BY <1>6, <2>2, <2>3, <2>4
<1>16. ASSUME \A k \in DOMAIN qs : Tame(k) /\ Tame(Word(qs[k]))
       PROVE  Table(u, "quotas") = [k \in DOMAIN qs |-> Word(qs[k])]
  <2>1. \A k \in DOMAIN qs : Escaped(k) = k /\ Reading(g[k]) = g[k]
    BY <1>8, <1>16, TameWords
  <2>2. Table(u, "quotas") = [k \in DOMAIN g |-> Reading(g[k])]
    BY <1>5, <1>12, <2>1 DEF Grown
  <2>3. [k \in DOMAIN g |-> Reading(g[k])] = [k \in DOMAIN qs |-> g[k]]
    BY <1>5, <2>1
  <2>4. QED
    BY <1>8, <2>2, <2>3
<1>17. ASSUME NEW r, r \notin {"users", "quotas"}, NEW p \in PairsOf(u, r)
       PROVE  \E h \in PairsOf(t, r) : Rank(Outside(t), h) = p /\ u[p] = t[h]
  <2>1. p \in PairsOf(x, r)
    BY <1>14, <1>17
  <2>2. u[p] = x[p]
    <3>1. p \in DOMAIN x
      BY <2>1 DEF PairsOf
    <3>2. QED
      BY <1>10, <1>12, <3>1 DEF Grown
  <2>3. PICK h \in PairsOf(t, r) : Rank(Outside(t), h) = p /\ x[p] = t[h]
    BY <1>17, <2>1, KeptTops DEF x
  <2>4. QED
    BY <2>2, <2>3
<1>18. QED
  BY <1>13, <1>14, <1>15, <1>16, <1>17, Zenon DEF Rewrote, u

-------------------------------------------------------------------------------
(* What the editor reads in a file.                                           *)
LEMMA KeysFinite ==
    ASSUME NEW t, NEW n \in Nat, NEW P \in SUBSET (1 .. n)
    PROVE  IsFiniteSet({t[i].key : i \in P})
<1> DEFINE T == {t[i].key : i \in P}
           f == [i \in P |-> t[i].key]
<1>1. IsFiniteSet(P)
  <2>1. IsFiniteSet(1 .. n)
    BY FS_Interval
  <2>2. QED
    BY <2>1, FS_Subset
<1>2. f \in Surjection(P, T)
  BY DEF Surjection
<1>3. QED
  BY <1>1, <1>2, FS_Surjection, Zenon

LEMMA TableTyped ==
    ASSUME NEW t, IsFile(t), NEW s
    PROVE  IsTable(Table(t, s))
<1>1. Len(t) \in Nat /\ PairsOf(t, s) \in SUBSET (1 .. Len(t))
  BY FileLines, PairPlaces
<1>2. DOMAIN Table(t, s) = {t[i].key : i \in PairsOf(t, s)}
  BY DEF Table
<1>3. IsFiniteSet(DOMAIN Table(t, s))
  BY <1>1, <1>2, KeysFinite
<1>4. ASSUME NEW k \in DOMAIN Table(t, s) PROVE IsText(k) /\ IsText(Table(t, s)[k])
  <2>1. PICK i \in PairsOf(t, s) :
            IsLast(t, PairsOf(t, s), i) /\ t[i].key = k /\ Table(t, s)[k] = Reading(t[i].val)
    BY TableHas
  <2>2. IsText(t[i].key) /\ IsText(t[i].val)
    BY PairPlaces
  <2>3. QED
    BY <2>1, <2>2, TextKept
<1>5. QED
  BY <1>3, <1>4, TableFunction DEF IsTable

Good(t) == {i \in PairsOf(t, "quotas") : Reading(t[i].val).word \in Number}

LEMMA QuotasAre ==
    ASSUME NEW t
    PROVE  /\ Quotas(t) = [k \in DOMAIN Quotas(t) |-> Quotas(t)[k]]
           /\ DOMAIN Quotas(t) = {t[i].key : i \in Good(t)}
           /\ \A k \in DOMAIN Quotas(t) : Quotas(t)[k] = t[LastPlace(t, Good(t), k)].val.word
<1> DEFINE d == {t[i].key : i \in Good(t)}
<1>1. Quotas(t) = [k \in d |-> t[LastPlace(t, Good(t), k)].val.word]
  BY DEF Quotas, LastPlace, Good
<1> HIDE DEF d
<1>2. QED
  BY <1>1 DEF d

LEMMA QuotasTyped ==
    ASSUME NEW t, IsFile(t)
    PROVE  IsQuotas(Quotas(t))
<1>1. Len(t) \in Nat /\ Good(t) \in SUBSET (1 .. Len(t))
  BY FileLines, PairPlaces DEF Good
<1>2. IsFiniteSet(DOMAIN Quotas(t))
  <2>1. IsFiniteSet({t[i].key : i \in Good(t)})
    BY <1>1, KeysFinite
  <2>2. QED
    BY <2>1, QuotasAre, Zenon
<1>3. ASSUME NEW k \in DOMAIN Quotas(t) PROVE IsText(k)
  <2>1. PICK i \in Good(t) : t[i].key = k
    <3>1. k \in {t[i].key : i \in Good(t)}
      BY QuotasAre, Zenon
    <3>2. QED
      BY <3>1
  <2>2. i \in PairsOf(t, "quotas")
    BY DEF Good
  <2>3. QED
    BY <2>1, <2>2, PairPlaces
<1>4. QED
  BY <1>2, <1>3, QuotasAre DEF IsQuotas

IsPut(f, k, v, g) ==
    /\ g = [x \in DOMAIN g |-> g[x]] /\ DOMAIN g = DOMAIN f \union {k}
    /\ \A x \in DOMAIN g : (x = k => g[x] = v) /\ (x # k => x \in DOMAIN f /\ g[x] = f[x])
    /\ IsFiniteSet(DOMAIN f) => IsFiniteSet(DOMAIN g)

LEMMA PutIs ==
    ASSUME NEW f, NEW k, NEW v
    PROVE  IsPut(f, k, v, Put(f, k, v))
<1>1. IsFiniteSet(DOMAIN f) => IsFiniteSet(DOMAIN f \union {k})
  BY FS_AddElement
<1>2. QED
  BY <1>1 DEF Put, IsPut

IsTake(f, k, g) ==
    /\ g = [x \in DOMAIN g |-> g[x]] /\ DOMAIN g = DOMAIN f \ {k}
    /\ \A x \in DOMAIN g : x \in DOMAIN f /\ x # k /\ g[x] = f[x]
    /\ IsFiniteSet(DOMAIN f) => IsFiniteSet(DOMAIN g)

LEMMA TakeIs ==
    ASSUME NEW f, NEW k
    PROVE  IsTake(f, k, Take(f, k))
<1>1. IsFiniteSet(DOMAIN f) => IsFiniteSet(DOMAIN f \ {k})
  BY FS_RemoveElement
<1>2. QED
  BY <1>1 DEF Take, IsTake

LEMMA PutTyped ==
    ASSUME NEW k, IsText(k), NEW v
    PROVE  /\ \A f : IsTable(f) /\ IsText(v) => IsTable(Put(f, k, v)) /\ IsTable(Take(f, k))
           /\ \A f : IsQuotas(f) => IsQuotas(Put(f, k, v)) /\ IsQuotas(Take(f, k))
<1>1. ASSUME NEW f, NEW g, IsTable(f), IsText(v), IsPut(f, k, v, g) \/ IsTake(f, k, g)
      PROVE  IsTable(g)
  BY <1>1 DEF IsTable, IsPut, IsTake
<1>2. ASSUME NEW f, NEW g, IsQuotas(f), IsPut(f, k, v, g) \/ IsTake(f, k, g)
      PROVE  IsQuotas(g)
  BY <1>2 DEF IsQuotas, IsPut, IsTake
<1>3. QED
  BY <1>1, <1>2, PutIs, TakeIs, Zenon

(* The tables of a file, by themselves.                                       *)
TopTable(t) == Table(t, "")
QuotaTable(t) == [k \in DOMAIN Table(t, "quotas") |-> QuotaOf(Table(t, "quotas")[k])]

LEMMA ParsedIs ==
    ASSUME NEW t
    PROVE  Parsed(t) = [top |-> TopTable(t), users |-> Users(t), quotas |-> QuotaTable(t)]
BY Zenon DEF Parsed, TopTable, QuotaTable, Users

LEMMA TameWord ==
    /\ \A w \in Plain \union Number : Tame(Word(w))
    /\ \A n \in Number : QuotaOf(Word(n)) = n
<1>1. \A w : Word(w).word = w /\ Word(w).cut = FALSE
  BY DEF Word
<1>2. \A w \in Plain \union Number : Tame(Word(w))
  BY <1>1, WordText DEF Tame
<1>3. \A n \in Number : QuotaOf(Word(n)) = n
  BY <1>1 DEF QuotaOf
<1>4. QED
  BY <1>2, <1>3

LEMMA SafeUsers ==
    ASSUME NEW t, IsFile(t), Safe(t)
    PROVE  \A k \in DOMAIN Users(t) : Tame(k) /\ Tame(Users(t)[k])
<1> SUFFICES ASSUME NEW k \in DOMAIN Table(t, "users") PROVE Tame(k) /\ Tame(Table(t, "users")[k])
  BY DEF Users
<1>1. PICK i \in PairsOf(t, "users") :
          IsLast(t, PairsOf(t, "users"), i) /\ t[i].key = k
              /\ Table(t, "users")[k] = Reading(t[i].val)
  BY TableHas
<1>2. IsText(t[i].key) /\ IsText(t[i].val)
  BY PairPlaces
<1>3. {t[i].key.word, t[i].val.word} \subseteq Plain \union Number
  BY Zenon DEF Safe
<1>4. Tame(t[i].key) /\ Tame(t[i].val)
  BY <1>2, <1>3 DEF Tame
<1>5. QED
  BY <1>1, <1>4, TameWords

LEMMA SafeQuotas ==
    ASSUME NEW t, IsFile(t), Safe(t)
    PROVE  /\ \A k \in DOMAIN Quotas(t) : Tame(k) /\ Quotas(t)[k] \in Number
           /\ Quotas(t) = QuotaTable(t)
<1> DEFINE P == PairsOf(t, "quotas")
           f == Quotas(t)
           g == QuotaTable(t)
           b == Table(t, "quotas")
<1>1. ASSUME NEW i \in P PROVE Tame(t[i].key) /\ Tame(t[i].val) /\ t[i].val.word \in Number
  <2>1. IsText(t[i].key) /\ IsText(t[i].val)
    BY PairPlaces
  <2>2. {t[i].key.word, t[i].val.word} \subseteq Plain \union Number /\ t[i].val.word \in Number
    BY Zenon DEF Safe
  <2>3. QED
    BY <2>1, <2>2 DEF Tame
<1>2. Good(t) = P
  <2>1. \A i \in P : Reading(t[i].val) = t[i].val
    BY <1>1, TameWords
  <2>2. QED
    BY <1>1, <2>1 DEF Good
<1>3. f = [k \in DOMAIN f |-> f[k]] /\ g = [k \in DOMAIN g |-> g[k]]
  BY QuotasAre DEF QuotaTable
<1>4. DOMAIN g = DOMAIN b /\ \A k \in DOMAIN b : g[k] = QuotaOf(b[k])
  BY DEF QuotaTable
<1>5. DOMAIN f = DOMAIN b
  <2>1. \A k : k \in DOMAIN b <=> \E i \in P : t[i].key = k
    BY TableKeys, Zenon
  <2>2. \A k : k \in DOMAIN f <=> \E i \in P : t[i].key = k
    <3>1. DOMAIN f = {t[i].key : i \in Good(t)}
      BY QuotasAre, Zenon
    <3>2. QED
      BY <1>2, <3>1
  <2> HIDE DEF f, b
  <2>3. QED
    BY <2>1, <2>2
<1>6. ASSUME NEW k \in DOMAIN b PROVE Tame(k) /\ f[k] \in Number /\ f[k] = g[k]
  <2>1. PICK i \in P : IsLast(t, P, i) /\ t[i].key = k /\ b[k] = Reading(t[i].val)
    BY TableHas
  <2>2. LastPlace(t, P, k) = i
    <3>1. Len(t) \in Nat /\ P \in SUBSET (1 .. Len(t))
      BY FileLines, PairPlaces
    <3>2. LastPlace(t, P, t[i].key) = i
      BY <2>1, <3>1, LastIs
    <3>3. QED
      BY <2>1, <3>2
  <2>3. f[k] = t[i].val.word
    <3>1. f[k] = t[LastPlace(t, Good(t), k)].val.word
      BY <1>5, QuotasAre
    <3>2. QED
      BY <1>2, <2>2, <3>1, Zenon
  <2>4. Tame(k) /\ Tame(t[i].val) /\ t[i].val.word \in Number
    BY <1>1, <2>1
  <2>5. b[k] = t[i].val /\ ~t[i].val.cut
    BY <2>1, <2>4, TameWords
  <2>6. g[k] = t[i].val.word
    BY <1>4, <2>4, <2>5 DEF QuotaOf
  <2>7. QED
    BY <2>3, <2>4, <2>6
<1> HIDE DEF f, g, b
<1>7. f = g
  BY <1>3, <1>4, <1>5, <1>6
<1>8. QED
  BY <1>5, <1>6, <1>7 DEF f, g

(* What a rewritten file says: the two tables, and the settings as before.    *)
LEMMA TablesWritten ==
    ASSUME NEW t, IsFile(t), NEW us, IsTable(us), NEW qs, IsQuotas(qs), NEW u,
           u = Rewritten(t, us, qs)
    PROVE  /\ IsFile(u) /\ (Parses(t) => Parses(u)) /\ TopTable(u) = TopTable(t)
           /\ (\A k \in DOMAIN us : Tame(k) /\ Tame(us[k])) => Users(u) = us
           /\ (\A k \in DOMAIN qs : Tame(k) /\ qs[k] \in Number) => QuotaTable(u) = qs
<1> DEFINE b == [k \in DOMAIN qs |-> Word(qs[k])]
<1>1. Rewrote(t, u, us, qs)
  BY Rewriting
<1>2. IsFile(u) /\ (Parses(t) => Parses(u))
  BY <1>1 DEF Rewrote
<1>3. ASSUME \A k \in DOMAIN us : Tame(k) /\ Tame(us[k]) PROVE Users(u) = us
  BY <1>1, <1>3 DEF Rewrote, Users
<1>4. TopTable(u) = TopTable(t)
  <2>1. "" \notin {"users", "quotas"}
    BY Zenon
  <2>2. QED
    BY <1>1, <2>1, Zenon DEF Rewrote, TopTable
<1>5. ASSUME \A k \in DOMAIN qs : Tame(k) /\ qs[k] \in Number PROVE QuotaTable(u) = qs
  <2>1. qs = [k \in DOMAIN qs |-> qs[k]]
    BY DEF IsQuotas
  <2>2. DOMAIN b = DOMAIN qs /\ \A k \in DOMAIN qs : QuotaOf(b[k]) = qs[k]
    BY <1>5, TameWord
  <2>3. \A k \in DOMAIN qs : Tame(k) /\ Tame(Word(qs[k]))
    BY <1>5, TameWord
  <2>4. Table(u, "quotas") = b
    BY <1>1, <2>3, Zenon DEF Rewrote
  <2> HIDE DEF b
  <2>5. QuotaTable(u) = [k \in DOMAIN b |-> QuotaOf(b[k])]
    BY <2>4, Zenon DEF QuotaTable
  <2>6. QED
    BY <2>1, <2>2, <2>5
<1>6. QED
  BY <1>2, <1>3, <1>4, <1>5

-------------------------------------------------------------------------------
(* What a single setting says.                                                *)
LEMMA AtMostOne ==
    ASSUME NEW n \in Nat, NEW P \in SUBSET (1 .. n), Cardinality(P) <= 1
    PROVE  \A i, j \in P : i = j
<1> SUFFICES ASSUME NEW i \in P, NEW j \in P, i # j PROVE FALSE
  OBVIOUS
<1>1. IsFiniteSet(1 .. n)
  BY FS_Interval
<1>2. IsFiniteSet(P)
  BY <1>1, FS_Subset
<1>3. IsFiniteSet({i}) /\ Cardinality({i}) = 1
  BY FS_Singleton
<1>4. Cardinality({i} \cup {j}) = 2
  <2>1. Cardinality({i} \cup {j}) = IF j \in {i} THEN Cardinality({i}) ELSE Cardinality({i}) + 1
    BY <1>3, FS_AddElement
  <2>2. QED
    BY <1>3, <2>1
<1>5. Cardinality({i} \cup {j}) <= Cardinality(P)
  <2>1. {i} \cup {j} \in SUBSET P
    OBVIOUS
  <2>2. QED
    BY <1>2, <2>1, FS_Subset
<1>6. Cardinality(P) \in Nat
  BY <1>2, FS_CardinalityType
<1>7. QED
  BY <1>4, <1>5, <1>6

LEMMA ReadingSame ==
    ASSUME NEW x, IsText(x), NEW v, v.word \notin Hashy
    PROVE  Reading(x) = v <=> x = v
<1>1. CASE x.word \in Hashy
  <2>1. Reading(x).word = x.word
    BY DEF Reading, IsText
  <2>2. Reading(x) # v /\ x # v
    BY <1>1, <2>1
  <2>3. QED
    BY <2>2
<1>2. CASE x.word \notin Hashy
  BY <1>2 DEF Reading
<1>3. QED
  BY <1>1, <1>2

(* A key that a section has once is worth what its line says.                 *)
Single(t, P, k) == \A i, j \in P : t[i].key = k /\ t[j].key = k => i = j

LEMMA SingleSays ==
    ASSUME NEW t, IsFile(t), NEW s, NEW k, NEW v, v.word \notin Hashy,
           Single(t, PairsOf(t, s), k), NEW i \in PairsOf(t, s), t[i].key = k
    PROVE  k \in DOMAIN Table(t, s) /\ (Table(t, s)[k] = v <=> t[i].val = v)
<1>1. IsLast(t, PairsOf(t, s), i)
  <2>1. i <= i
    <3>1. i \in 1 .. Len(t) /\ Len(t) \in Nat
      BY PairPlaces, FileLines
    <3>2. QED
      BY <3>1
  <2>2. QED
    BY <2>1 DEF IsLast, Single
<1>2. k \in DOMAIN Table(t, s) /\ Table(t, s)[k] = Reading(t[i].val)
  <2>1. t[i].key \in DOMAIN Table(t, s) /\ Table(t, s)[t[i].key] = Reading(t[i].val)
    BY <1>1, TableAt
  <2>2. QED
    BY <2>1
<1>3. IsText(t[i].val)
  BY PairPlaces
<1>4. QED
  BY <1>2, <1>3, ReadingSame

-------------------------------------------------------------------------------
(* What an edit does.                                                         *)
Does(t, u, e) ==
    /\ IsFile(u)
    /\ Parses(t) /\ Safe(t) /\ Harmless(e) => Parses(u) /\ Parsed(u) = Meant(e, Parsed(t))

LEMMA EditWords ==
    ASSUME NEW e \in Edits
    PROVE  /\ e.op \in {"add", "password", "remove", "quota", "rename", "setup", "acme",
                        "domains", "public_host"}
           /\ IsText(e.name) /\ (e.op # "remove" => IsText(e.val))
           /\ e.op = "quota" => e.val.word \in Number
           /\ Harmless(e) => Tame(e.name) /\ (e.op \notin {"remove", "quota"} => Tame(e.val))
<1>1. IsEdit(e)
  BY TextBounds
<1>2. IsText(e.name) /\ (e.op # "remove" => IsText(e.val))
  BY <1>1, WordText DEF IsEdit
<1>3. ASSUME Harmless(e)
      PROVE  Tame(e.name) /\ (e.op \notin {"remove", "quota"} => Tame(e.val))
  BY <1>2, <1>3 DEF Harmless, Tame
<1>4. QED
  BY <1>1, <1>2, <1>3 DEF IsEdit

(* A setting that needs no care is what it says.                              *)
LEMMA SettingSays ==
    ASSUME NEW t, IsFile(t), NEW k, IsText(k), NEW v, IsText(v), NEW u, u = SetTop(t, k, v)
    PROVE  /\ IsFile(u) /\ (Parses(t) => Parses(u))
           /\ Users(u) = Users(t) /\ QuotaTable(u) = QuotaTable(t)
           /\ Reading(Escaped(v)) = v => TopTable(u) = Put(TopTable(t), k, v)
<1>1. SetEffect(t, u, k, v)
  BY Setting
<1>2. "users" # "" /\ "quotas" # ""
  BY Zenon
<1>3. Table(u, "users") = Table(t, "users") /\ Table(u, "quotas") = Table(t, "quotas")
  BY <1>1, <1>2, Zenon DEF SetEffect
<1>4. Users(u) = Users(t) /\ QuotaTable(u) = QuotaTable(t)
  BY <1>3, Zenon DEF Users, QuotaTable
<1>5. TopTable(u) = Put(TopTable(t), k, Reading(Escaped(v)))
  BY <1>1, Zenon DEF SetEffect, TopTable
<1>6. IsFile(u) /\ (Parses(t) => Parses(u))
  BY <1>1, Zenon DEF SetEffect
<1>7. QED
  BY <1>4, <1>5, <1>6

(* What an edit means, by kind.                                               *)
LEMMA MeantAdd ==
    ASSUME NEW e, NEW a, NEW b, NEW c, e.op \in {"add", "password"}
    PROVE  Meant(e, [top |-> a, users |-> b, quotas |-> c]) =
               [top |-> a, users |-> Put(b, e.name, e.val), quotas |-> c]
BY DEF Meant

LEMMA MeantRemove ==
    ASSUME NEW e, NEW a, NEW b, NEW c, e.op = "remove"
    PROVE  Meant(e, [top |-> a, users |-> b, quotas |-> c]) =
               [top |-> a, users |-> Take(b, e.name), quotas |-> Take(c, e.name)]
BY DEF Meant

LEMMA MeantQuota ==
    ASSUME NEW e, NEW a, NEW b, NEW c, e.op = "quota"
    PROVE  Meant(e, [top |-> a, users |-> b, quotas |-> c]) =
               [top |-> a, users |-> b,
                quotas |-> IF e.val.word = 0 THEN Take(c, e.name)
                           ELSE Put(c, e.name, e.val.word)]
BY DEF Meant

LEMMA MeantSetup ==
    ASSUME NEW e, NEW a, NEW b, NEW c, e.op = "setup"
    PROVE  Meant(e, [top |-> a, users |-> b, quotas |-> c]) =
               [top |-> Put(Put(a, Word("admin_user"), e.name), Word("domains"), e.val),
                users |-> Put(b, e.name, e.val), quotas |-> c]
BY DEF Meant

LEMMA MeantSet ==
    ASSUME NEW e, NEW a, NEW b, NEW c, e.op \in {"domains", "public_host"}
    PROVE  Meant(e, [top |-> a, users |-> b, quotas |-> c]) =
               [top |-> Put(a, Word(e.op), e.val), users |-> b, quotas |-> c]
BY DEF Meant

LEMMA AddDoes ==
    ASSUME NEW t, IsFile(t), NEW e \in Edits, e.op \in {"add", "password"}, Result(t, e) # Absent
    PROVE  Does(t, Result(t, e), e)
<1> DEFINE us == Put(Users(t), e.name, e.val)
           qs == Quotas(t)
           u == Rewritten(t, us, qs)
<1>1. Result(t, e) = u
  BY DEF Result, AddUser, SetPassword
<1>2. IsText(e.name) /\ IsText(e.val)
  BY EditWords
<1>3. IsTable(us) /\ IsQuotas(qs)
  BY <1>2, TableTyped, QuotasTyped, PutTyped DEF Users
<1>4. IsPut(Users(t), e.name, e.val, us)
  BY PutIs
<1> HIDE DEF us, qs
<1>5. /\ IsFile(u) /\ (Parses(t) => Parses(u)) /\ TopTable(u) = TopTable(t)
      /\ (\A k \in DOMAIN us : Tame(k) /\ Tame(us[k])) => Users(u) = us
      /\ (\A k \in DOMAIN qs : Tame(k) /\ qs[k] \in Number) => QuotaTable(u) = qs
  BY <1>3, TablesWritten
<1> HIDE DEF u
<1>6. ASSUME Parses(t), Safe(t), Harmless(e) PROVE Parses(u) /\ Parsed(u) = Meant(e, Parsed(t))
  <2>1. \A k \in DOMAIN Users(t) : Tame(k) /\ Tame(Users(t)[k])
    BY <1>6, SafeUsers
  <2>2. \A k \in DOMAIN us : Tame(k) /\ Tame(us[k])
    BY <1>4, <1>6, <2>1, EditWords DEF IsPut
  <2>3. qs = QuotaTable(t) /\ \A k \in DOMAIN qs : Tame(k) /\ qs[k] \in Number
    BY <1>6, SafeQuotas DEF qs
  <2>4. Parsed(u) = [top |-> TopTable(t), users |-> us, quotas |-> QuotaTable(t)]
    BY <1>5, <2>2, <2>3, ParsedIs
  <2>5. Parsed(t) = [top |-> TopTable(t), users |-> Users(t), quotas |-> QuotaTable(t)]
    BY ParsedIs
  <2>6. QED
    BY <1>5, <1>6, <2>4, <2>5, MeantAdd DEF us
<1>7. QED
  BY <1>1, <1>5, <1>6 DEF Does

LEMMA RemoveDoes ==
    ASSUME NEW t, IsFile(t), NEW e \in Edits, e.op = "remove", Result(t, e) # Absent
    PROVE  Does(t, Result(t, e), e)
<1> DEFINE us == Take(Users(t), e.name)
           qs == Take(Quotas(t), e.name)
           u == Rewritten(t, us, qs)
<1>1. Result(t, e) = u
  BY DEF Result, RemoveUser
<1>2. IsText(e.name)
  BY EditWords
<1>3. IsTable(us) /\ IsQuotas(qs)
  BY <1>2, TableTyped, QuotasTyped, PutTyped DEF Users
<1>4. IsTake(Users(t), e.name, us) /\ IsTake(Quotas(t), e.name, qs)
  BY TakeIs
<1> HIDE DEF us, qs
<1>5. /\ IsFile(u) /\ (Parses(t) => Parses(u)) /\ TopTable(u) = TopTable(t)
      /\ (\A k \in DOMAIN us : Tame(k) /\ Tame(us[k])) => Users(u) = us
      /\ (\A k \in DOMAIN qs : Tame(k) /\ qs[k] \in Number) => QuotaTable(u) = qs
  BY <1>3, TablesWritten
<1> HIDE DEF u
<1>6. ASSUME Parses(t), Safe(t), Harmless(e) PROVE Parses(u) /\ Parsed(u) = Meant(e, Parsed(t))
  <2>1. \A k \in DOMAIN us : Tame(k) /\ Tame(us[k])
    BY <1>4, <1>6, SafeUsers DEF IsTake
  <2>2. Quotas(t) = QuotaTable(t)
    BY <1>6, SafeQuotas
  <2>3. \A k \in DOMAIN qs : Tame(k) /\ qs[k] \in Number
    BY <1>4, <1>6, SafeQuotas DEF IsTake
  <2>4. Parsed(u) = [top |-> TopTable(t), users |-> us, quotas |-> qs]
    BY <1>5, <2>1, <2>3, ParsedIs
  <2>5. Parsed(t) = [top |-> TopTable(t), users |-> Users(t), quotas |-> QuotaTable(t)]
    BY ParsedIs
  <2>6. QED
    BY <1>5, <1>6, <2>2, <2>4, <2>5, MeantRemove DEF us, qs
<1>7. QED
  BY <1>1, <1>5, <1>6 DEF Does

LEMMA QuotaDoes ==
    ASSUME NEW t, IsFile(t), NEW e \in Edits, e.op = "quota", Result(t, e) # Absent
    PROVE  Does(t, Result(t, e), e)
<1> DEFINE us == Users(t)
           n == e.val.word
           qs == IF n = 0 THEN Take(Quotas(t), e.name) ELSE Put(Quotas(t), e.name, n)
           u == Rewritten(t, us, qs)
<1>1. Result(t, e) = u
  BY DEF Result, SetQuota
<1>2. IsText(e.name) /\ n \in Number
  BY EditWords
<1>3. IsTable(us)
  BY TableTyped DEF Users
<1>4. IsQuotas(qs)
  BY <1>2, QuotasTyped, PutTyped
<1>5. IsTake(Quotas(t), e.name, qs) \/ IsPut(Quotas(t), e.name, n, qs)
  BY TakeIs, PutIs
<1> HIDE DEF us, qs, n
<1>6. /\ IsFile(u) /\ (Parses(t) => Parses(u)) /\ TopTable(u) = TopTable(t)
      /\ (\A k \in DOMAIN us : Tame(k) /\ Tame(us[k])) => Users(u) = us
      /\ (\A k \in DOMAIN qs : Tame(k) /\ qs[k] \in Number) => QuotaTable(u) = qs
  BY <1>3, <1>4, TablesWritten
<1> HIDE DEF u
<1>7. ASSUME Parses(t), Safe(t), Harmless(e) PROVE Parses(u) /\ Parsed(u) = Meant(e, Parsed(t))
  <2>1. \A k \in DOMAIN us : Tame(k) /\ Tame(us[k])
    BY <1>7, SafeUsers DEF us
  <2>2. Quotas(t) = QuotaTable(t)
    BY <1>7, SafeQuotas
  <2>3. \A k \in DOMAIN qs : Tame(k) /\ qs[k] \in Number
    BY <1>2, <1>5, <1>7, EditWords, SafeQuotas DEF IsTake, IsPut
  <2>4. Parsed(u) = [top |-> TopTable(t), users |-> us, quotas |-> qs]
    BY <1>6, <2>1, <2>3, ParsedIs
  <2>5. Parsed(t) = [top |-> TopTable(t), users |-> us, quotas |-> QuotaTable(t)]
    BY ParsedIs DEF us
  <2>6. Meant(e, Parsed(t)) = [top |-> TopTable(t), users |-> us, quotas |-> qs]
    BY <2>2, <2>5, MeantQuota DEF qs, n
  <2>7. QED
    BY <1>6, <1>7, <2>4, <2>6
<1>8. QED
  BY <1>1, <1>6, <1>7 DEF Does

LEMMA SetupDoes ==
    ASSUME NEW t, IsFile(t), NEW e \in Edits, e.op = "setup", Result(t, e) # Absent
    PROVE  Does(t, Result(t, e), e)
<1> DEFINE us == Put(Users(t), e.name, e.val)
           qs == Quotas(t)
           a == Word("admin_user")
           d == Word("domains")
           u == Rewritten(t, us, qs)
           x == SetTop(u, a, e.name)
           y == SetTop(x, d, e.val)
<1>1. Result(t, e) = y
  BY DEF Result, CompleteSetup, AddUser
<1>2. IsText(e.name) /\ IsText(e.val)
  BY EditWords
<1>3. IsTable(us) /\ IsQuotas(qs)
  BY <1>2, TableTyped, QuotasTyped, PutTyped DEF Users
<1>4. IsPut(Users(t), e.name, e.val, us)
  BY PutIs
<1>5. IsText(a) /\ IsText(d)
  BY WordText
<1>6. ASSUME Harmless(e)
      PROVE  /\ Tame(e.name) /\ Reading(Escaped(e.name)) = e.name
             /\ Tame(e.val) /\ Reading(Escaped(e.val)) = e.val
  BY <1>6, EditWords, TameWords
<1> HIDE DEF us, qs
<1>7. /\ IsFile(u) /\ (Parses(t) => Parses(u)) /\ TopTable(u) = TopTable(t)
      /\ (\A k \in DOMAIN us : Tame(k) /\ Tame(us[k])) => Users(u) = us
      /\ (\A k \in DOMAIN qs : Tame(k) /\ qs[k] \in Number) => QuotaTable(u) = qs
  BY <1>3, TablesWritten
<1> HIDE DEF u, a, d
<1>8. /\ IsFile(x) /\ (Parses(u) => Parses(x)) /\ Users(x) = Users(u)
      /\ QuotaTable(x) = QuotaTable(u)
      /\ Harmless(e) => TopTable(x) = Put(TopTable(u), a, e.name)
  BY <1>2, <1>5, <1>6, <1>7, SettingSays
<1> HIDE DEF x
<1>9. /\ IsFile(y) /\ (Parses(x) => Parses(y)) /\ Users(y) = Users(x)
      /\ QuotaTable(y) = QuotaTable(x)
      /\ Harmless(e) => TopTable(y) = Put(TopTable(x), d, e.val)
  BY <1>2, <1>5, <1>6, <1>8, SettingSays
<1> HIDE DEF y
<1>10. ASSUME Parses(t), Safe(t), Harmless(e) PROVE Parses(y) /\ Parsed(y) = Meant(e, Parsed(t))
  <2>1. \A k \in DOMAIN Users(t) : Tame(k) /\ Tame(Users(t)[k])
    BY <1>10, SafeUsers
  <2>2. \A k \in DOMAIN us : Tame(k) /\ Tame(us[k])
    BY <1>4, <1>6, <1>10, <2>1 DEF IsPut
  <2>3. qs = QuotaTable(t) /\ \A k \in DOMAIN qs : Tame(k) /\ qs[k] \in Number
    BY <1>10, SafeQuotas DEF qs
  <2>4. Parsed(y) = [top |-> Put(Put(TopTable(t), a, e.name), d, e.val),
                     users |-> us, quotas |-> QuotaTable(t)]
    BY <1>7, <1>8, <1>9, <1>10, <2>2, <2>3, ParsedIs
  <2>5. Parsed(t) = [top |-> TopTable(t), users |-> Users(t), quotas |-> QuotaTable(t)]
    BY ParsedIs
  <2>6. QED
    BY <1>7, <1>8, <1>9, <1>10, <2>4, <2>5, MeantSetup DEF us, a, d
<1>11. QED
  BY <1>1, <1>9, <1>10 DEF Does

LEMMA SetDoes ==
    ASSUME NEW t, IsFile(t), NEW e \in Edits, e.op \in {"domains", "public_host"}
    PROVE  Does(t, Result(t, e), e)
<1> DEFINE k == Word(e.op)
           u == SetTop(t, k, e.val)
<1>1. Result(t, e) = u
  BY DEF Result
<1>2. IsText(e.val) /\ IsText(k)
  BY EditWords, WordText
<1>3. Harmless(e) => Reading(Escaped(e.val)) = e.val
  BY EditWords, TameWords
<1> HIDE DEF k
<1>4. /\ IsFile(u) /\ (Parses(t) => Parses(u)) /\ Users(u) = Users(t)
      /\ QuotaTable(u) = QuotaTable(t)
      /\ Harmless(e) => TopTable(u) = Put(TopTable(t), k, e.val)
  BY <1>2, <1>3, SettingSays
<1> HIDE DEF u
<1>5. ASSUME Harmless(e) PROVE Parsed(u) = Meant(e, Parsed(t))
  <2>1. Parsed(u) = [top |-> Put(TopTable(t), k, e.val), users |-> Users(t),
                     quotas |-> QuotaTable(t)]
    BY <1>4, <1>5, ParsedIs
  <2>2. Parsed(t) = [top |-> TopTable(t), users |-> Users(t), quotas |-> QuotaTable(t)]
    BY ParsedIs
  <2>3. QED
    BY <2>1, <2>2, MeantSet DEF k
<1>6. QED
  BY <1>1, <1>4, <1>5 DEF Does

(* The port for TLS: looked for everywhere, and in a safe file it is a        *)
(* setting like the others.                                                   *)
LEMMA ListenSays ==
    ASSUME NEW t, IsFile(t), NEW s, Listens(t) \subseteq PairsOf(t, s),
           Cardinality(Listens(t)) <= 1, NEW v, v.word \notin Hashy, NEW k,
           k = Word("web_tls_listen")
    PROVE  (Listens(t) = {} \/ \E i \in Listens(t) : t[i].val = v)
               <=> ~(k \in DOMAIN Table(t, s) /\ Table(t, s)[k] # v)
<1> DEFINE P == PairsOf(t, s)
           L == Listens(t)
           f == Table(t, s)
<1>1. \A i : i \in L <=> i \in P /\ t[i].key = k
  BY DEF Listens, PairsOf
<1>2. \A i, j \in L : i = j
  <2>1. Len(t) \in Nat /\ L \in SUBSET (1 .. Len(t))
    BY FileLines DEF Listens
  <2>2. QED
    BY <2>1, AtMostOne
<1>3. \A x : x \in DOMAIN f <=> \E i \in P : t[i].key = x
  BY TableKeys, Zenon
<1>4. Single(t, P, k)
  BY <1>1, <1>2 DEF Single
<1>5. ASSUME NEW i \in P, t[i].key = k PROVE k \in DOMAIN f /\ (f[k] = v <=> t[i].val = v)
  BY <1>4, <1>5, SingleSays
<1> HIDE DEF P, L, f
<1>6. CASE L = {}
  BY <1>1, <1>3, <1>6 DEF L, f
<1>7. ASSUME NEW i \in L PROVE (\E j \in L : t[j].val = v) <=> ~(k \in DOMAIN f /\ f[k] # v)
  <2>1. k \in DOMAIN f /\ (f[k] = v <=> t[i].val = v)
    BY <1>1, <1>5
  <2>2. QED
    BY <1>2, <2>1
<1>8. QED
  BY <1>6, <1>7 DEF L, f

LEMMA MeantAcme ==
    ASSUME NEW e, NEW a, NEW b, NEW c, e.op = "acme", NEW p, NEW k,
           p = Put(Put(a, Word("acme"), Word("true")), Word("tls_cert_file"), e.val),
           k = Word("web_tls_listen")
    PROVE  Meant(e, [top |-> a, users |-> b, quotas |-> c]) =
               [top |-> IF k \in DOMAIN a /\ a[k] # Blank THEN p ELSE Put(p, k, e.name),
                users |-> b, quotas |-> c]
BY DEF Meant

LEMMA AcmeDoes ==
    ASSUME NEW t, IsFile(t), NEW e \in Edits, e.op = "acme"
    PROVE  Does(t, Result(t, e), e)
<1> DEFINE yes == Word("true")
           a == Word("acme")
           d == Word("tls_cert_file")
           k == Word("web_tls_listen")
           none == Listens(t) = {} \/ \E i \in Listens(t) : t[i].val = Blank
           x == SetTop(t, a, yes)
           y == SetTop(x, d, e.val)
           z == SetTop(y, k, e.name)
           u == IF none THEN z ELSE y
<1>1. Result(t, e) = u
  <2>1. Result(t, e) = EnableAcme(t, e)
    BY DEF Result
  <2>2. QED
    BY <2>1 DEF EnableAcme
<1>2. IsText(e.name) /\ IsText(e.val)
  BY EditWords
<1>3. IsText(a) /\ IsText(d) /\ IsText(k) /\ IsText(yes)
  BY WordText
<1>4. Harmless(e) => Reading(Escaped(e.name)) = e.name /\ Reading(Escaped(e.val)) = e.val
  BY EditWords, TameWords
<1>5. Reading(Escaped(yes)) = yes
  <2>1. yes.word = "true" /\ yes.cut = FALSE
    BY DEF Word
  <2>2. yes.word \notin Special /\ yes.word \notin Hashy
    BY <2>1, EditorAssumption DEF TextAssumption
  <2>3. QED
    BY <2>1, <2>2 DEF Escaped, Reading
<1>6. Safe(t) => (none <=> ~(k \in DOMAIN TopTable(t) /\ TopTable(t)[k] # Blank))
  <2>1. Blank.word \notin Hashy
    <3>1. \A w : Word(w).word = w
      BY DEF Word
    <3>2. "" \notin Hashy
      BY EditorAssumption, Zenon DEF TextAssumption
    <3>3. Blank.word = ""
      BY <3>1, Zenon DEF Blank
    <3>4. QED
      BY <3>2, <3>3, Zenon
  <2>2. Safe(t) => Cardinality(Listens(t)) <= 1 /\ Listens(t) \subseteq PairsOf(t, "")
    BY Zenon DEF Safe
  <2>3. ASSUME NEW s, Listens(t) \subseteq PairsOf(t, s), Cardinality(Listens(t)) <= 1
        PROVE  none <=> ~(k \in DOMAIN Table(t, s) /\ Table(t, s)[k] # Blank)
    BY <2>1, <2>3, ListenSays
  <2> HIDE DEF none, k
  <2>4. QED
    BY <2>2, <2>3, Zenon DEF TopTable
<1> HIDE DEF yes, a, d, k, none
<1>7. /\ IsFile(x) /\ (Parses(t) => Parses(x)) /\ Users(x) = Users(t)
      /\ QuotaTable(x) = QuotaTable(t) /\ TopTable(x) = Put(TopTable(t), a, yes)
  BY <1>3, <1>5, SettingSays
<1> HIDE DEF x
<1>8. /\ IsFile(y) /\ (Parses(x) => Parses(y)) /\ Users(y) = Users(x)
      /\ QuotaTable(y) = QuotaTable(x)
      /\ Harmless(e) => TopTable(y) = Put(TopTable(x), d, e.val)
  <2>1. /\ IsFile(y) /\ (Parses(x) => Parses(y)) /\ Users(y) = Users(x)
        /\ QuotaTable(y) = QuotaTable(x)
        /\ Reading(Escaped(e.val)) = e.val => TopTable(y) = Put(TopTable(x), d, e.val)
    BY <1>2, <1>3, <1>7, SettingSays
  <2>2. QED
    BY <1>4, <2>1
<1> HIDE DEF y
<1>9. /\ IsFile(z) /\ (Parses(y) => Parses(z)) /\ Users(z) = Users(y)
      /\ QuotaTable(z) = QuotaTable(y)
      /\ Harmless(e) => TopTable(z) = Put(TopTable(y), k, e.name)
  <2>1. /\ IsFile(z) /\ (Parses(y) => Parses(z)) /\ Users(z) = Users(y)
        /\ QuotaTable(z) = QuotaTable(y)
        /\ Reading(Escaped(e.name)) = e.name => TopTable(z) = Put(TopTable(y), k, e.name)
    BY <1>2, <1>3, <1>8, SettingSays
  <2>2. QED
    BY <1>4, <2>1
<1> HIDE DEF z
<1>10. IsFile(u) /\ (Parses(t) => Parses(u))
  BY <1>7, <1>8, <1>9
<1>11. ASSUME Safe(t), Harmless(e) PROVE Parsed(u) = Meant(e, Parsed(t))
  <2> DEFINE p == Put(Put(TopTable(t), a, yes), d, e.val)
  <2>1. Users(u) = Users(t) /\ QuotaTable(u) = QuotaTable(t)
    BY <1>7, <1>8, <1>9
  <2>2. TopTable(u) = IF k \in DOMAIN TopTable(t) /\ TopTable(t)[k] # Blank
                      THEN p ELSE Put(p, k, e.name)
    BY <1>6, <1>7, <1>8, <1>9, <1>11
  <2> HIDE DEF u
  <2>3. Parsed(u) = [top |-> TopTable(u), users |-> Users(t), quotas |-> QuotaTable(t)]
    BY <2>1, ParsedIs
  <2>4. Parsed(t) = [top |-> TopTable(t), users |-> Users(t), quotas |-> QuotaTable(t)]
    BY ParsedIs
  <2>5. p = Put(Put(TopTable(t), Word("acme"), Word("true")), Word("tls_cert_file"), e.val)
        /\ k = Word("web_tls_listen")
    BY DEF a, yes, d, k
  <2> HIDE DEF p
  <2>6. QED
    BY <2>2, <2>3, <2>4, <2>5, MeantAcme
<1>12. QED
  BY <1>1, <1>10, <1>11 DEF Does

(* A key that a section has at most once, on a line that is kept ...          *)
Named(t, s, k) == {i \in PairsOf(t, s) : t[i].key = k}
First(Q) == CHOOSE j \in Q : \A h \in Q : j <= h

LEMMA AloneSays ==
    ASSUME NEW t, IsFile(t), NEW u, IsFile(u), NEW s, NEW k, NEW v, v.word \notin Hashy,
           \A p \in PairsOf(u, s) : \E h \in PairsOf(t, s) :
               Rank(Outside(t), h) = p /\ u[p] = t[h],
           Cardinality(Named(t, s, k)) <= 1, \A i \in Named(t, s, k) : ~t[i].note,
           NEW Q, Q = Named(u, s, k)
    PROVE  (Q # {} /\ u[First(Q)].val = v /\ ~u[First(Q)].note)
               <=> (k \in DOMAIN Table(u, s) /\ Table(u, s)[k] = v)
<1> DEFINE f == Table(u, s)
<1>1. \A i, j \in Named(t, s, k) : i = j
  <2>1. Len(t) \in Nat /\ PairsOf(t, s) \in SUBSET (1 .. Len(t))
    BY FileLines, PairPlaces
  <2>2. Named(t, s, k) \in SUBSET (1 .. Len(t))
    BY <2>1 DEF Named
  <2>3. QED
    BY <2>1, <2>2, AtMostOne
<1>2. ASSUME NEW p \in Q
      PROVE  \E h \in Named(t, s, k) : Rank(Outside(t), h) = p /\ u[p] = t[h]
  BY DEF Named
<1>3. (\A p, q \in Q : p = q) /\ \A p \in Q : ~u[p].note
  BY <1>1, <1>2
<1>4. Single(u, PairsOf(u, s), k)
  BY <1>3 DEF Named, Single
<1>5. ASSUME NEW p \in Q PROVE k \in DOMAIN f /\ (f[k] = v <=> u[p].val = v)
  <2>1. p \in PairsOf(u, s) /\ u[p].key = k
    BY DEF Named
  <2>2. QED
    BY <1>4, <2>1, SingleSays
<1>6. k \in DOMAIN f <=> Q # {}
  <2>1. k \in DOMAIN f => \E i \in PairsOf(u, s) : u[i].key = k
    BY TableHas
  <2>2. QED
    BY <1>5, <2>1 DEF Named
<1> HIDE DEF f
<1>7. ASSUME NEW p \in Q PROVE First(Q) = p
  <2>1. \A h \in Q : p <= h
    <3>1. p \in Nat
      <4>1. Len(u) \in Nat /\ PairsOf(u, s) \in SUBSET (1 .. Len(u))
        BY FileLines, PairPlaces
      <4>2. p \in PairsOf(u, s)
        BY DEF Named
      <4>3. QED
        BY <4>1, <4>2
    <3>2. QED
      BY <1>3, <3>1
  <2>2. First(Q) \in Q
    BY <2>1, Zenon DEF First
  <2>3. QED
    BY <1>3, <2>2
<1>8. CASE Q = {}
  BY <1>6, <1>8 DEF f
<1>9. ASSUME NEW p \in Q PROVE (u[p].val = v /\ ~u[p].note) <=> (k \in DOMAIN f /\ f[k] = v)
  BY <1>3, <1>5
<1>10. QED
  BY <1>7, <1>8, <1>9 DEF f

(* ... is what the editor and the server take it for, when the tables before  *)
(* the file's end have been rewritten.                                        *)
LEMMA TopSays ==
    ASSUME NEW t, IsFile(t), Safe(t), NEW us, IsTable(us), NEW qs, IsQuotas(qs), NEW v, Tame(v),
           NEW u, u = Rewritten(t, us, qs), NEW k, k = Word("admin_user")
    PROVE  TopIs(u, k, v) <=> (k \in DOMAIN TopTable(t) /\ TopTable(t)[k] = v)
<1>1. Rewrote(t, u, us, qs)
  BY Rewriting
<1>2. "" \notin {"users", "quotas"}
  BY Zenon
<1>3. \A p \in PairsOf(u, "") : \E h \in PairsOf(t, "") : Rank(Outside(t), h) = p /\ u[p] = t[h]
  BY <1>1, <1>2, Zenon DEF Rewrote
<1>4. Cardinality(Named(t, "", k)) <= 1 /\ \A i \in Named(t, "", k) : ~t[i].note
  BY Zenon DEF Safe, Tops, Named
<1>5. v.word \notin Hashy
  BY EditorAssumption DEF Tame, TextAssumption
<1>6. IsFile(u) /\ TopTable(u) = TopTable(t)
  BY TablesWritten
<1>7. ASSUME NEW s,
             \A p \in PairsOf(u, s) : \E h \in PairsOf(t, s) :
                 Rank(Outside(t), h) = p /\ u[p] = t[h],
             Cardinality(Named(t, s, k)) <= 1, \A i \in Named(t, s, k) : ~t[i].note
      PROVE  (Named(u, s, k) # {} /\ u[First(Named(u, s, k))].val = v
                  /\ ~u[First(Named(u, s, k))].note)
                 <=> (k \in DOMAIN Table(u, s) /\ Table(u, s)[k] = v)
  BY <1>5, <1>6, <1>7, AloneSays
<1>8. (Named(u, "", k) # {} /\ u[First(Named(u, "", k))].val = v
           /\ ~u[First(Named(u, "", k))].note)
          <=> (k \in DOMAIN Table(u, "") /\ Table(u, "")[k] = v)
  BY <1>3, <1>4, <1>7, Zenon
<1>9. TopIs(u, k, v) <=> (Named(u, "", k) # {} /\ u[First(Named(u, "", k))].val = v
                              /\ ~u[First(Named(u, "", k))].note)
  BY Zenon DEF TopIs, Tops, Named, First
<1>10. QED
  BY <1>6, <1>8, <1>9, Zenon DEF TopTable

LEMMA MeantRename ==
    ASSUME NEW e, NEW a, NEW b, NEW c, e.op = "rename", NEW k, k = Word("admin_user")
    PROVE  Meant(e, [top |-> a, users |-> b, quotas |-> c]) =
               [top |-> IF k \in DOMAIN a /\ a[k] = e.name THEN Put(a, k, e.val) ELSE a,
                users |-> Put(Take(b, e.name), e.val, b[e.name]),
                quotas |-> IF e.name \in DOMAIN c THEN Put(Take(c, e.name), e.val, c[e.name])
                           ELSE c]
BY DEF Meant

LEMMA RenameDoes ==
    ASSUME NEW t, IsFile(t), NEW e \in Edits, e.op = "rename", Result(t, e) # Absent
    PROVE  Does(t, Result(t, e), e)
<1> DEFINE b == Users(t)
           c == Quotas(t)
           k == Word("admin_user")
           us == Put(Take(b, e.name), e.val, b[e.name])
           qs == IF e.name \in DOMAIN c THEN Put(Take(c, e.name), e.val, c[e.name]) ELSE c
           x == Rewritten(t, us, qs)
           y == SetTop(x, k, e.val)
           u == IF TopIs(x, k, e.name) THEN y ELSE x
<1>1. e.name \in DOMAIN b /\ Result(t, e) = u
  <2>1. Result(t, e) = RenameUser(t, e)
    BY DEF Result
  <2>2. QED
    BY <2>1 DEF RenameUser
<1>2. IsText(e.name) /\ IsText(e.val) /\ IsText(k)
  BY EditWords, WordText
<1>3. ASSUME Harmless(e)
      PROVE  Tame(e.name) /\ Tame(e.val) /\ Reading(Escaped(e.val)) = e.val
  BY <1>3, EditWords, TameWords
<1>4. IsTable(b) /\ IsQuotas(c)
  BY TableTyped, QuotasTyped DEF Users
<1> HIDE DEF b, c, k
<1>5. IsTable(us)
  <2>1. IsText(b[e.name])
    BY <1>1, <1>4 DEF IsTable
  <2>2. IsTable(Take(b, e.name))
    BY <1>2, <1>4, PutTyped
  <2>3. QED
    BY <1>2, <2>1, <2>2, PutTyped
<1>6. IsQuotas(qs)
  <2>1. IsQuotas(Take(c, e.name))
    BY <1>2, <1>4, PutTyped
  <2>2. IsQuotas(Put(Take(c, e.name), e.val, c[e.name]))
    BY <1>2, <2>1, PutTyped
  <2>3. QED
    BY <1>4, <2>2
<1>7. IsTake(b, e.name, Take(b, e.name)) /\ IsPut(Take(b, e.name), e.val, b[e.name], us)
  BY TakeIs, PutIs
<1>8. IsTake(c, e.name, Take(c, e.name))
  BY TakeIs
<1>9. \/ e.name \in DOMAIN c /\ IsPut(Take(c, e.name), e.val, c[e.name], qs)
      \/ qs = c
  BY PutIs
<1> HIDE DEF us, qs
<1>10. /\ IsFile(x) /\ (Parses(t) => Parses(x)) /\ TopTable(x) = TopTable(t)
       /\ (\A n \in DOMAIN us : Tame(n) /\ Tame(us[n])) => Users(x) = us
       /\ (\A n \in DOMAIN qs : Tame(n) /\ qs[n] \in Number) => QuotaTable(x) = qs
  BY <1>5, <1>6, TablesWritten
<1>11. Safe(t) /\ Harmless(e) =>
           (TopIs(x, k, e.name) <=> (k \in DOMAIN TopTable(t) /\ TopTable(t)[k] = e.name))
  BY <1>3, <1>5, <1>6, TopSays DEF k
<1> HIDE DEF x
<1>12. /\ IsFile(y) /\ (Parses(x) => Parses(y)) /\ Users(y) = Users(x)
       /\ QuotaTable(y) = QuotaTable(x)
       /\ Harmless(e) => TopTable(y) = Put(TopTable(x), k, e.val)
  BY <1>2, <1>3, <1>10, SettingSays
<1> HIDE DEF y
<1>13. IsFile(u) /\ (Parses(t) => Parses(u))
  BY <1>10, <1>12
<1>14. ASSUME Safe(t), Harmless(e) PROVE Parsed(u) = Meant(e, Parsed(t))
  <2>1. \A n \in DOMAIN b : Tame(n) /\ Tame(b[n])
    BY <1>14, SafeUsers DEF b
  <2>2. \A n \in DOMAIN us : Tame(n) /\ Tame(us[n])
    BY <1>1, <1>3, <1>7, <1>14, <2>1 DEF IsPut, IsTake
  <2>3. c = QuotaTable(t) /\ \A n \in DOMAIN c : Tame(n) /\ c[n] \in Number
    BY <1>14, SafeQuotas DEF c
  <2>4. \A n \in DOMAIN qs : Tame(n) /\ qs[n] \in Number
    <3>1. CASE qs = c
      BY <2>3, <3>1
    <3>2. CASE e.name \in DOMAIN c /\ IsPut(Take(c, e.name), e.val, c[e.name], qs)
      BY <1>3, <1>8, <1>14, <2>3, <3>2 DEF IsPut, IsTake
    <3>3. QED
      BY <1>9, <3>1, <3>2
  <2>5. Users(u) = us /\ QuotaTable(u) = qs
    BY <1>10, <1>12, <2>2, <2>4
  <2>6. TopTable(u) = IF k \in DOMAIN TopTable(t) /\ TopTable(t)[k] = e.name
                      THEN Put(TopTable(t), k, e.val) ELSE TopTable(t)
    BY <1>10, <1>11, <1>12, <1>14
  <2> HIDE DEF u
  <2>7. Parsed(u) = [top |-> TopTable(u), users |-> us, quotas |-> qs]
    BY <2>5, ParsedIs
  <2>8. Parsed(t) = [top |-> TopTable(t), users |-> b, quotas |-> c]
    BY <2>3, ParsedIs DEF b
  <2>9. QED
    BY <2>6, <2>7, <2>8, MeantRename DEF us, qs, k
<1>15. QED
  BY <1>1, <1>13, <1>14 DEF Does

(* Every edit does what it means.                                             *)
LEMMA ResultDoes ==
    ASSUME NEW t, IsFile(t), NEW e \in Edits, Result(t, e) # Absent
    PROVE  Does(t, Result(t, e), e)
BY EditWords, AddDoes, RemoveDoes, QuotaDoes, RenameDoes, SetupDoes, AcmeDoes, SetDoes

(* What is written is a file, whoever wrote it.                               *)
TextInv == IsFile(text)

LEMMA TextIsFile == SiteSpec => []TextInv
<1>1. SiteInit => TextInv
  <2>1. IsFile(<< >>)
    BY DEF IsFile
  <2>2. QED
    BY <2>1 DEF SiteInit, Init, TextInv
<1>2. TextInv /\ [SiteNext]_<<part, vars, aVars, wVars, bVars>> => TextInv'
  <2> SUFFICES ASSUME TextInv, [SiteNext]_<<part, vars, aVars, wVars, bVars>> PROVE TextInv'
    OBVIOUS
  <2>1. ASSUME NEW t \in Texts, Write(t) PROVE TextInv'
    BY <2>1, TextBounds DEF Write, TextInv
  <2>2. ASSUME NEW e \in Edits, Edit(e) PROVE TextInv'
    BY <2>2, ResultDoes DEF Edit, TextInv, Does
  <2>3. ASSUME UNCHANGED text PROVE TextInv'
    BY <2>3 DEF TextInv
  <2>4. ASSUME NEW e \in Edits, Refused(e) PROVE TextInv'
    BY <2>3, <2>4 DEF Refused, vars
  <2>5. CASE part = "text" /\ Next
    BY <2>1, <2>2, <2>3, <2>4, <2>5 DEF Next, vars
  <2>6. QED
    BY <2>3, <2>5 DEF SiteNext, vars
<1>3. QED
  BY <1>1, <1>2, PTL DEF SiteSpec

(* An edit changes what it says and nothing else, as the server reads the     *)
(* file: from any safe file that parses, after any edits (useredit.rs).       *)
THEOREM EditsAreExact == SiteSpec => EditsExact
<1> DEFINE Exact ==
        made' # made /\ last' # NoEdit /\ Parses(text) /\ Safe(text) /\ Harmless(last')
            => Parses(text') /\ Parsed(text') = Meant(last', Parsed(text))
<1>1. TextInv /\ [SiteNext]_<<part, vars, aVars, wVars, bVars>> => [Exact]_vars
  <2> SUFFICES ASSUME TextInv, [SiteNext]_<<part, vars, aVars, wVars, bVars>>
               PROVE  Exact \/ UNCHANGED vars
    OBVIOUS
  <2>1. ASSUME NEW t \in Texts, Write(t) PROVE Exact
    BY <2>1 DEF Write
  <2>2. ASSUME NEW e \in Edits, Edit(e) PROVE Exact
    <3>1. Does(text, Result(text, e), e)
      BY <2>2, ResultDoes DEF Edit, TextInv
    <3>2. text' = Result(text, e) /\ last' = e
      BY <2>2 DEF Edit
    <3>3. QED
      BY <3>1, <3>2 DEF Does
  <2>3. ASSUME NEW e \in Edits, Refused(e) PROVE UNCHANGED vars
    BY <2>3 DEF Refused
  <2> HIDE DEF Exact
  <2>4. CASE part = "text" /\ Next
    BY <2>1, <2>2, <2>3, <2>4 DEF Next
  <2>5. QED
    BY <2>4 DEF SiteNext
<1>2. QED
  BY <1>1, TextIsFile, PTL DEF SiteSpec, EditsExact
===============================================================================

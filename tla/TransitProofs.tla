------------------------------ MODULE TransitProofs ----------------------------
(* Proofs about a signed message on its way (DkimTransit), for all messages,  *)
(* signed names and numbers of changes: two texts are the same to the         *)
(* canonicalizations exactly if they say the same, word by word and gap by    *)
(* gap; hence a signature verifies exactly if the relays left what was signed *)
(* alone.                                                                     *)
EXTENDS Network, FunctionTheorems, FiniteSetTheorems, SequenceTheorems, WellFoundedInduction, TLAPS

allVars == <<part, vars, pVars, kVars, dVars, cVars, mVars>>

-------------------------------------------------------------------------------
(* Words and their numbers.                                                   *)

Words(s) == {i \in DOMAIN s : s[i] \notin Transit!Gap}
Nth(s, i) == Cardinality({j \in Words(s) : j <= i})
Gapped(s, i, margin) == i > 1 /\ s[i - 1] \in Transit!Gap /\ (margin \/ Nth(s, i) > 1)

(* Every word of s is one of t, with the same number and behind a gap or not. *)
Found(s, t, ms, mt) ==
    \A i \in Words(s) : \E j \in Words(t) :
        /\ Nth(s, i) = Nth(t, j) /\ s[i] = t[j]
        /\ Gapped(s, i, ms) <=> Gapped(t, j, mt)

(* What a nonempty set of numbers has: a least member.                        *)
LEMMA LeastNumber ==
    ASSUME NEW S \in SUBSET Nat, S # {}
    PROVE  \E n \in S : \A m \in S : n <= m
<1>1. PICK n \in S : \A m \in S : <<m, n>> \notin OpToRel(<, Nat)
  BY WFMin, NatLessThanWellFounded, Zenon
<1>2. \A m \in S : ~(m < n)
  <2> SUFFICES ASSUME NEW m \in S, m < n PROVE FALSE
    OBVIOUS
  <2>1. <<m, n>> \in OpToRel(<, Nat)
    BY Zenon DEF OpToRel
  <2>2. QED
    BY <1>1, <2>1, Zenon
<1>3. QED
  BY <1>2

(* The words up to a place are finitely many.                                 *)
LEMMA NthFinite ==
    ASSUME NEW S, NEW s \in Seq(S), NEW i
    PROVE  IsFiniteSet({j \in Words(s) : j <= i}) /\ Nth(s, i) \in Nat
<1>1. {j \in Words(s) : j <= i} \in SUBSET (1 .. Len(s))
  BY DEF Words
<1>2. IsFiniteSet(1 .. Len(s))
  BY FS_Interval
<1>3. QED
  BY <1>1, <1>2, FS_Subset, FS_CardinalityType DEF Nth

(* A word counts one more than what is before it, a gap nothing.              *)
LEMMA NthStep ==
    ASSUME NEW S, NEW s \in Seq(S), NEW i \in 1 .. Len(s)
    PROVE  /\ i \in Words(s) => Nth(s, i) = Nth(s, i - 1) + 1
           /\ i \notin Words(s) => Nth(s, i) = Nth(s, i - 1)
<1> DEFINE before == {j \in Words(s) : j <= i - 1}
           upto   == {j \in Words(s) : j <= i}
<1>1. Words(s) \subseteq Int /\ i \notin before
  BY DEF Words
<1>2. i \in Words(s) => upto = before \union {i}
  BY <1>1
<1>3. i \notin Words(s) => upto = before
  BY <1>1
<1>4. IsFiniteSet(before)
  BY NthFinite
<1>5. Cardinality(before \union {i}) = Cardinality(before) + 1
  BY <1>1, <1>4, FS_AddElement
<1>6. QED
  BY <1>2, <1>3, <1>5 DEF Nth

(* The number grows.                                                          *)
LEMMA NthGrows ==
    ASSUME NEW S, NEW s \in Seq(S), NEW i \in Int, NEW j \in Int, i <= j
    PROVE  Nth(s, i) <= Nth(s, j)
<1>1. {k \in Words(s) : k <= i} \subseteq {k \in Words(s) : k <= j}
  BY DEF Words
<1>2. IsFiniteSet({k \in Words(s) : k <= j})
  BY NthFinite
<1>3. QED
  BY <1>1, <1>2, FS_Subset DEF Nth

(* ... with every word.                                                       *)
LEMMA NthLess ==
    ASSUME NEW S, NEW s \in Seq(S), NEW i \in Int, NEW j \in Words(s), i < j
    PROVE  Nth(s, i) < Nth(s, j)
<1>1. j \in 1 .. Len(s)
  BY DEF Words
<1>2. Nth(s, j) = Nth(s, j - 1) + 1
  BY <1>1, NthStep
<1>3. Nth(s, i) <= Nth(s, j - 1)
  BY <1>1, NthGrows
<1>4. Nth(s, i) \in Nat /\ Nth(s, j - 1) \in Nat
  BY NthFinite
<1>5. QED
  BY <1>2, <1>3, <1>4

(* ... so that it is one word's alone.                                        *)
LEMMA NthOne ==
    ASSUME NEW S, NEW s \in Seq(S), NEW i \in Words(s), NEW j \in Words(s), Nth(s, i) = Nth(s, j)
    PROVE  i = j
<1>1. i \in Int /\ j \in Int
  BY DEF Words
<1>2. Nth(s, i) \in Nat /\ Nth(s, j) \in Nat
  BY NthFinite
<1>3. QED
  BY <1>1, <1>2, NthLess

(* DkimTransit counts as this module does.                                    *)
LEMMA CountSame == \A S : Transit!Cardinality(S) = Cardinality(S)
BY DEF Transit!Cardinality, Cardinality

(* What a line says, with the names above.                                    *)
LEMMA SaysIs ==
    ASSUME NEW s, NEW margin
    PROVE  Transit!Says(s, margin) = {<<Nth(s, i), s[i], Gapped(s, i, margin)>> : i \in Words(s)}
<1> DEFINE rank(i) == Transit!Cardinality({j \in Words(s) : j <= i})
           raw(i)   == <<rank(i), s[i], i > 1 /\ s[i - 1] \in Transit!Gap /\ (margin \/ rank(i) > 1)>>
<1>1. Transit!Says(s, margin) = {raw(i) : i \in Words(s)}
  BY DEF Transit!Says, Words
<1>2. ASSUME NEW i PROVE raw(i) = <<Nth(s, i), s[i], Gapped(s, i, margin)>>
  <2>1. rank(i) = Nth(s, i)
    BY CountSame DEF Nth
  <2>2. QED
    BY <2>1 DEF Gapped
<1> HIDE DEF raw
<1>3. QED
  BY <1>1, <1>2

(* Two lines say the same if each has the words of the other.                 *)
LEMMA SaysSame ==
    ASSUME NEW s, NEW t, NEW ms \in BOOLEAN, NEW mt \in BOOLEAN
    PROVE  Transit!Says(s, ms) = Transit!Says(t, mt) <=> Found(s, t, ms, mt) /\ Found(t, s, mt, ms)
<1> DEFINE said(u, m) == {<<Nth(u, i), u[i], Gapped(u, i, m)>> : i \in Words(u)}
<1>1. ASSUME NEW u, NEW v, NEW mu \in BOOLEAN, NEW mv \in BOOLEAN
      PROVE  said(u, mu) \subseteq said(v, mv) <=> Found(u, v, mu, mv)
  <2>1. ASSUME NEW i \in Words(u)
        PROVE  <<Nth(u, i), u[i], Gapped(u, i, mu)>> \in said(v, mv)
                 <=> \E j \in Words(v) :
                        /\ Nth(u, i) = Nth(v, j) /\ u[i] = v[j]
                        /\ Gapped(u, i, mu) <=> Gapped(v, j, mv)
    <3>1. ASSUME NEW j \in Words(v)
          PROVE  <<Nth(u, i), u[i], Gapped(u, i, mu)>> = <<Nth(v, j), v[j], Gapped(v, j, mv)>>
                   <=> /\ Nth(u, i) = Nth(v, j) /\ u[i] = v[j]
                       /\ Gapped(u, i, mu) <=> Gapped(v, j, mv)
      BY DEF Gapped
    <3>2. QED
      BY <3>1, Zenon
  <2>2. QED
    BY <2>1, Zenon DEF Found
<1>2. said(s, ms) \subseteq said(t, mt) <=> Found(s, t, ms, mt)
  BY <1>1
<1>3. said(t, mt) \subseteq said(s, ms) <=> Found(t, s, mt, ms)
  BY <1>1
<1>4. Transit!Says(s, ms) = said(s, ms) /\ Transit!Says(t, mt) = said(t, mt)
  BY SaysIs
<1>5. QED
  BY <1>2, <1>3, <1>4, Zenon
-------------------------------------------------------------------------------
(* Canonical lines.                                                           *)

Texture == Word \union Transit!Gap

(* Of gaps only blanks, no two in a row, none at the end.                     *)
CanonLine ==
    {c \in Seq(Texture) :
        /\ \A i \in DOMAIN c : c[i] \in Transit!Gap => c[i] = "blank"
        /\ \A i \in DOMAIN c : c[i] \in Transit!Gap => i + 1 \in Words(c)}

(* Agreeing up to a place, two lines count alike up to it.                    *)
LEMMA NthAlike ==
    ASSUME NEW c, NEW d, NEW k \in Int,
           \A j \in 1 .. k : (j \in DOMAIN c <=> j \in DOMAIN d) /\ c[j] = d[j],
           c \in Seq(Texture), d \in Seq(Texture),
           NEW i \in Int, i <= k
    PROVE  Nth(c, i) = Nth(d, i)
<1>1. {j \in Words(c) : j <= i} = {j \in Words(d) : j <= i}
  BY DEF Words
<1>2. QED
  BY <1>1 DEF Nth

(* At the first place where they differ, if there is a word in one of them,   *)
(* the other does not have it.                                                *)
LEMMA WordDiffers ==
    ASSUME NEW c \in CanonLine, NEW d \in CanonLine, NEW k \in 1 .. Len(c),
           \A j \in 1 .. k - 1 : j \in DOMAIN d /\ c[j] = d[j],
           ~(k \in DOMAIN d /\ c[k] = d[k]),
           k \in Words(c)
    PROVE  ~Found(c, d, TRUE, TRUE)
<1> SUFFICES ASSUME Found(c, d, TRUE, TRUE) PROVE FALSE
  OBVIOUS
<1>1. PICK i \in Words(d) :
          /\ Nth(c, k) = Nth(d, i) /\ c[k] = d[i]
          /\ Gapped(c, k, TRUE) <=> Gapped(d, i, TRUE)
  BY DEF Found
<1>2. c \in Seq(Texture) /\ d \in Seq(Texture)
  BY DEF CanonLine
<1>3. i \in 1 .. Len(d) /\ k \in Int /\ k - 1 \in Int
  BY <1>2 DEF Words
<1>4. Nth(c, k - 1) = Nth(d, k - 1)
  <2>1. \A j \in 1 .. k - 1 : (j \in DOMAIN c <=> j \in DOMAIN d) /\ c[j] = d[j]
    BY <1>2
  <2>2. k - 1 \in Int /\ k - 1 <= k - 1
    OBVIOUS
  <2>3. QED
    BY <2>1, <2>2, <1>2, NthAlike
<1>5. Nth(c, k) = Nth(c, k - 1) + 1 /\ Nth(c, k - 1) \in Nat
  BY <1>2, NthStep, NthFinite
<1>6. i > k - 1
  <2>1. i <= k - 1 => Nth(d, i) <= Nth(d, k - 1)
    BY <1>2, <1>3, NthGrows
  <2>2. Nth(d, i) \in Nat
    BY <1>2, NthFinite
  <2>3. QED
    BY <2>1, <2>2, <1>1, <1>3, <1>4, <1>5
<1>7. i # k
  BY <1>1, <1>3
<1>8. k \in 1 .. Len(d) /\ k < i
  BY <1>3, <1>6, <1>7
<1>9. k \notin Words(d)
  <2> SUFFICES ASSUME k \in Words(d) PROVE FALSE
    OBVIOUS
  <2>1. Nth(d, k) = Nth(d, k - 1) + 1
    BY <1>2, <1>8, NthStep
  <2>2. Nth(d, k) < Nth(d, i)
    BY <1>2, <1>3, <1>8, NthLess
  <2>3. QED
    BY <2>1, <2>2, <1>1, <1>4, <1>5
<1>10. d[k] \in Transit!Gap
  BY <1>2, <1>8, <1>9 DEF Words
<1>11. k + 1 \in Words(d)
  BY <1>2, <1>8, <1>10 DEF CanonLine
<1>12. i = k + 1
  <2>1. Nth(d, k) = Nth(d, k - 1)
    BY <1>2, <1>8, <1>9, NthStep
  <2>2. k + 1 \in 1 .. Len(d)
    BY <1>2, <1>11 DEF Words
  <2>3. Nth(d, k + 1) = Nth(d, k) + 1
    BY <1>2, <1>8, <1>11, <2>2, NthStep
  <2>4. k + 1 < i => Nth(d, k + 1) < Nth(d, i)
    BY <1>2, <1>3, NthLess
  <2>5. QED
    BY <2>1, <2>3, <2>4, <1>1, <1>3, <1>4, <1>5, <1>8
<1>13. Gapped(d, i, TRUE)
  BY <1>8, <1>10, <1>12 DEF Gapped
<1>14. k > 1 /\ c[k - 1] \in Transit!Gap
  BY <1>1, <1>13 DEF Gapped
<1>15. k - 1 \in DOMAIN d /\ d[k - 1] \in Transit!Gap
  BY <1>3, <1>14
<1>16. k \in Words(d)
  BY <1>3, <1>15 DEF CanonLine
<1>17. QED
  BY <1>9, <1>16

(* If there is a gap in one of them, the other lacks the word behind it.      *)
LEMMA GapDiffers ==
    ASSUME NEW c \in CanonLine, NEW d \in CanonLine, NEW k \in 1 .. Len(c),
           \A j \in 1 .. k - 1 : j \in DOMAIN d /\ c[j] = d[j],
           ~(k \in DOMAIN d /\ c[k] = d[k]),
           k \notin Words(c)
    PROVE  ~Found(c, d, TRUE, TRUE)
<1> SUFFICES ASSUME Found(c, d, TRUE, TRUE) PROVE FALSE
  OBVIOUS
<1>1. c \in Seq(Texture) /\ d \in Seq(Texture)
  BY DEF CanonLine
<1>2. c[k] = "blank" /\ k + 1 \in Words(c) /\ c[k] \in Transit!Gap
  <2>1. c[k] \in Transit!Gap
    BY <1>1 DEF Words
  <2>2. QED
    BY <2>1, <1>1 DEF CanonLine
<1>3. PICK i \in Words(d) :
          /\ Nth(c, k + 1) = Nth(d, i) /\ c[k + 1] = d[i]
          /\ Gapped(c, k + 1, TRUE) <=> Gapped(d, i, TRUE)
  BY <1>2 DEF Found
<1>4. i \in 1 .. Len(d) /\ k \in Int /\ k - 1 \in Int /\ k + 1 \in 1 .. Len(c) /\ k + 1 - 1 = k
  BY <1>1, <1>2 DEF Words
<1>5. Nth(c, k - 1) = Nth(d, k - 1)
  <2>1. \A j \in 1 .. k - 1 : (j \in DOMAIN c <=> j \in DOMAIN d) /\ c[j] = d[j]
    BY <1>1
  <2>2. k - 1 \in Int /\ k - 1 <= k - 1
    OBVIOUS
  <2>3. QED
    BY <2>1, <2>2, <1>1, NthAlike
<1>6. Nth(c, k + 1) = Nth(c, k - 1) + 1 /\ Nth(c, k - 1) \in Nat
  <2>1. Nth(c, k) = Nth(c, k - 1)
    BY <1>1, NthStep
  <2>2. Nth(c, k + 1) = Nth(c, (k + 1) - 1) + 1
    BY <1>1, <1>2, <1>4, NthStep
  <2>3. (k + 1) - 1 = k
    BY <1>4
  <2>4. Nth(c, k - 1) \in Nat
    BY <1>1, NthFinite
  <2>5. QED
    BY <2>1, <2>2, <2>3, <2>4
<1>7. i > 1 /\ i - 1 \in DOMAIN d /\ d[i - 1] \in Transit!Gap
  <2>1. PICK n \in Nat : n = k + 1
    BY <1>4
  <2>2. n - 1 = k /\ n > 1
    BY <2>1, <1>4
  <2>3. Gapped(c, n, TRUE)
    BY <2>2, <1>2 DEF Gapped
  <2>4. Gapped(d, i, TRUE)
    BY <2>1, <2>3, <1>3
  <2>5. i > 1 /\ d[i - 1] \in Transit!Gap
    BY <2>4 DEF Gapped
  <2>6. QED
    BY <2>5, <1>1, <1>4
<1>8. d[i - 1] = "blank"
  BY <1>7 DEF CanonLine
<1>9. i > k - 1
  <2>1. i <= k - 1 => Nth(d, i) <= Nth(d, k - 1)
    BY <1>1, <1>4, NthGrows
  <2>2. Nth(d, i) \in Nat
    BY <1>1, NthFinite
  <2>3. QED
    BY <2>1, <2>2, <1>3, <1>4, <1>5, <1>6
<1>10. i # k
  <2> SUFFICES ASSUME i = k PROVE FALSE
    OBVIOUS
  <2>1. k - 1 \in 1 .. k - 1 /\ k - 1 \in DOMAIN c
    BY <1>1, <1>4, <1>7
  <2>2. c[k - 1] \in Transit!Gap
    BY <2>1, <1>7
  <2>3. k \in Words(c)
    BY <2>1, <2>2, <1>4 DEF CanonLine
  <2>4. QED
    BY <2>3
<1>11. i # k + 1
  BY <1>2, <1>4, <1>7, <1>8
<1>12. k + 1 < i /\ k \in 1 .. Len(d)
  BY <1>4, <1>9, <1>10, <1>11
<1>13. k \in Words(d)
  <2>1. d[k] \in Transit!Gap => d[k] = "blank"
    BY <1>1, <1>12 DEF CanonLine
  <2>2. QED
    BY <2>1, <1>1, <1>2, <1>12 DEF Words
<1>14. Nth(d, k) = Nth(d, k - 1) + 1
  BY <1>1, <1>12, <1>13, NthStep
<1>15. Nth(d, k) < Nth(d, i)
  BY <1>1, <1>4, <1>12, NthLess
<1>16. QED
  BY <1>3, <1>5, <1>6, <1>14, <1>15

(* What a canonical line says, no other one says.                             *)
LEMMA CanonSaysAll ==
    ASSUME NEW c \in CanonLine, NEW d \in CanonLine,
           Transit!Says(c, TRUE) = Transit!Says(d, TRUE)
    PROVE  c = d
<1> DEFINE Differ == {j \in (DOMAIN c) \union (DOMAIN d) :
                         ~(j \in DOMAIN c /\ j \in DOMAIN d /\ c[j] = d[j])}
<1>1. c \in Seq(Texture) /\ d \in Seq(Texture)
  BY DEF CanonLine
<1>2. Found(c, d, TRUE, TRUE) /\ Found(d, c, TRUE, TRUE)
  BY SaysSame
<1>3. SUFFICES ASSUME c # d PROVE FALSE
  OBVIOUS
<1>4. Differ # {}
  <2> SUFFICES ASSUME Differ = {} PROVE FALSE
    OBVIOUS
  <2>1. DOMAIN c = DOMAIN d /\ \A j \in DOMAIN c : c[j] = d[j]
    OBVIOUS
  <2>2. c = d
    BY <2>1, <1>1
  <2>3. QED
    BY <2>2, <1>3
<1>5. Differ \in SUBSET Nat
  BY <1>1
<1>6. PICK k \in Differ : \A m \in Differ : k <= m
  BY <1>4, <1>5, LeastNumber
<1>7. k \in Nat \ {0}
  BY <1>1
<1>8. \A j \in 1 .. k - 1 : j \notin Differ /\ (j \in DOMAIN c <=> j \in DOMAIN d)
  BY <1>6, <1>7
<1>9. CASE k \in DOMAIN c
  <2>1. k \in 1 .. Len(c) /\ \A j \in 1 .. k - 1 : j \in DOMAIN d /\ c[j] = d[j]
    BY <1>1, <1>7, <1>8, <1>9
  <2>2. ~(k \in DOMAIN d /\ c[k] = d[k])
    BY <1>9
  <2>3. QED
    BY <2>1, <2>2, <1>2, WordDiffers, GapDiffers
<1>10. CASE k \in DOMAIN d
  <2>1. k \in 1 .. Len(d) /\ \A j \in 1 .. k - 1 : j \in DOMAIN c /\ d[j] = c[j]
    BY <1>1, <1>7, <1>8, <1>10
  <2>2. ~(k \in DOMAIN c /\ d[k] = c[k])
    BY <1>10
  <2>3. QED
    BY <2>1, <2>2, <1>2, WordDiffers, GapDiffers
<1>11. QED
  BY <1>9, <1>10
-------------------------------------------------------------------------------
(* The canonicalizations.                                                     *)

Text(s) == Transit!Trimmed(Transit!Collapsed(s))

(* What the assumption on the constants says of words.                        *)
LEMMA WordsAreNoGaps == Word \intersect Transit!Gap = {} /\ Forged \in Word
BY TransitAssumption DEF Transit!DkimTransitAssumption

LEMMA LineParts ==
    ASSUME NEW s \in Transit!Line
    PROVE  /\ s \in Seq(Texture)
           /\ \A i \in DOMAIN s : i + 1 \in DOMAIN s /\ s[i] \in Transit!Gap => s[i + 1] \notin Transit!Gap
<1>1. s \in Seq(Texture) /\ \A i \in 2 .. Len(s) : s[i - 1] \in Transit!Gap => s[i] \in Word
  BY DEF Transit!Line, Texture
<1>2. ASSUME NEW i \in DOMAIN s, i + 1 \in DOMAIN s, s[i] \in Transit!Gap
      PROVE  s[i + 1] \notin Transit!Gap
  <2>1. PICK n \in 2 .. Len(s) : n = i + 1
    BY <1>1, <1>2
  <2>2. n - 1 = i
    BY <2>1, <1>1
  <2>3. s[n] \in Word
    BY <2>2, <1>1, <1>2
  <2>4. QED
    BY <2>1, <2>3, WordsAreNoGaps
<1>3. QED
  BY <1>1, <1>2

(* Gaps become blanks, and one at the end goes.                               *)
LEMMA TextShape ==
    ASSUME NEW s \in Transit!Line
    PROVE  /\ Text(s) \in Seq(Texture)
           /\ DOMAIN Text(s) \subseteq DOMAIN s
           /\ \A i \in DOMAIN Text(s) :
                  Text(s)[i] = IF s[i] \in Transit!Gap THEN "blank" ELSE s[i]
           /\ \A i \in DOMAIN s : s[i] \notin Transit!Gap => i \in DOMAIN Text(s)
           /\ \A i \in DOMAIN Text(s) : s[i] \in Transit!Gap => i + 1 \in DOMAIN Text(s)
<1>1. PICK e : e = Transit!Collapsed(s)
  OBVIOUS
<1>2. s \in Seq(Texture)
  BY LineParts
<1>3. /\ e \in Seq(Texture) /\ Len(e) = Len(s)
      /\ \A i \in 1 .. Len(s) : e[i] = IF s[i] \in Transit!Gap THEN "blank" ELSE s[i]
  <2>1. e = [i \in 1 .. Len(s) |-> IF s[i] \in Transit!Gap THEN "blank" ELSE s[i]]
    BY <1>1, <1>2 DEF Transit!Collapsed
  <2>2. \A i \in 1 .. Len(s) : (IF s[i] \in Transit!Gap THEN "blank" ELSE s[i]) \in Texture
    BY <1>2 DEF Texture, Transit!Gap
  <2>3. QED
    BY <2>1, <2>2, <1>2
<1>4. \A i \in 1 .. Len(s) : e[i] = "blank" <=> s[i] \in Transit!Gap
  BY <1>3 DEF Transit!Gap
<1>5. CASE e # << >> /\ e[Len(e)] = "blank"
  <2>1. Text(s) = SubSeq(e, 1, Len(e) - 1)
    BY <1>1, <1>5 DEF Text, Transit!Trimmed
  <2>2. Len(s) \in Nat \ {0}
    BY <1>2, <1>3, <1>5
  <2>3. PICK c : c = Text(s)
    OBVIOUS
  <2>4. c \in Seq(Texture) /\ Len(c) = Len(s) - 1 /\ \A i \in 1 .. Len(s) - 1 : c[i] = e[i]
    BY <2>1, <2>2, <2>3, <1>3
  <2>5. s[Len(s)] \in Transit!Gap
    BY <2>2, <1>3, <1>4, <1>5
  <2>6. ASSUME NEW i \in 1 .. Len(s) - 1, s[i] \in Transit!Gap PROVE i # Len(s) - 1
    <3> SUFFICES ASSUME i = Len(s) - 1 PROVE FALSE
      OBVIOUS
    <3>1. i \in DOMAIN s /\ i + 1 = Len(s) /\ i + 1 \in DOMAIN s
      BY <2>2, <1>2
    <3>2. s[i + 1] \notin Transit!Gap
      BY <3>1, <2>6, LineParts
    <3>3. QED
      BY <3>1, <3>2, <2>5
  <2>7. DOMAIN c = 1 .. Len(s) - 1 /\ DOMAIN s = 1 .. Len(s)
    BY <2>4, <1>2
  <2>8. \A i \in DOMAIN c : c[i] = IF s[i] \in Transit!Gap THEN "blank" ELSE s[i]
    BY <2>2, <2>4, <2>7, <1>3
  <2>9. \A i \in DOMAIN s : s[i] \notin Transit!Gap => i \in DOMAIN c
    BY <2>2, <2>5, <2>7
  <2>10. ASSUME NEW i \in DOMAIN c, s[i] \in Transit!Gap PROVE i + 1 \in DOMAIN c
    <3>1. i \in 1 .. Len(s) - 1 /\ i # Len(s) - 1
      BY <2>6, <2>7, <2>10
    <3>2. i + 1 \in 1 .. Len(s) - 1
      BY <3>1, <2>2
    <3>3. QED
      BY <3>2, <2>7
  <2>11. QED
    BY <2>2, <2>3, <2>4, <2>7, <2>8, <2>9, <2>10
<1>6. CASE ~(e # << >> /\ e[Len(e)] = "blank")
  <2>1. Text(s) = e
    BY <1>1, <1>6 DEF Text, Transit!Trimmed
  <2>2. DOMAIN e = DOMAIN s /\ DOMAIN s = 1 .. Len(s) /\ Len(s) \in Nat
    BY <1>2, <1>3
  <2>3. ASSUME NEW i \in DOMAIN e, s[i] \in Transit!Gap PROVE i + 1 \in DOMAIN e
    <3>1. i # Len(e)
      BY <2>2, <2>3, <1>3, <1>4, <1>6
    <3>2. QED
      BY <3>1, <2>2, <1>3
  <2>4. QED
    BY <2>1, <2>2, <2>3, <1>3
<1>7. QED
  BY <1>5, <1>6

(* The words are where they were.                                             *)
LEMMA TextWords ==
    ASSUME NEW s \in Transit!Line
    PROVE  /\ Words(Text(s)) = Words(s)
           /\ \A i \in Words(s) : Text(s)[i] = s[i]
           /\ \A i : Nth(Text(s), i) = Nth(s, i)
<1>1. PICK c : c = Text(s)
  OBVIOUS
<1>2. /\ DOMAIN c \subseteq DOMAIN s
      /\ \A i \in DOMAIN c : c[i] = IF s[i] \in Transit!Gap THEN "blank" ELSE s[i]
      /\ \A i \in DOMAIN s : s[i] \notin Transit!Gap => i \in DOMAIN c
  BY <1>1, TextShape
<1>3. "blank" \in Transit!Gap
  BY DEF Transit!Gap
<1>4. Words(c) = Words(s) /\ \A i \in Words(s) : c[i] = s[i]
  BY <1>2, <1>3 DEF Words
<1>5. \A i : Nth(c, i) = Nth(s, i)
  BY <1>4 DEF Nth
<1>6. QED
  BY <1>1, <1>4, <1>5

LEMMA TextCanon ==
    ASSUME NEW s \in Transit!Line
    PROVE  Text(s) \in CanonLine
<1>1. PICK c : c = Text(s)
  OBVIOUS
<1>2. /\ c \in Seq(Texture) /\ DOMAIN c \subseteq DOMAIN s
      /\ \A i \in DOMAIN c : c[i] = IF s[i] \in Transit!Gap THEN "blank" ELSE s[i]
      /\ \A i \in DOMAIN c : s[i] \in Transit!Gap => i + 1 \in DOMAIN c
  BY <1>1, TextShape
<1>3. ASSUME NEW i \in DOMAIN c, c[i] \in Transit!Gap
      PROVE  c[i] = "blank" /\ i + 1 \in Words(c)
  <2>1. s[i] \in Transit!Gap /\ c[i] = "blank"
    BY <1>2, <1>3
  <2>2. i \in DOMAIN s /\ i + 1 \in DOMAIN c /\ i + 1 \in DOMAIN s
    BY <2>1, <1>2
  <2>3. s[i + 1] \notin Transit!Gap
    BY <2>1, <2>2, LineParts
  <2>4. c[i + 1] \notin Transit!Gap
    BY <2>2, <2>3, <1>2
  <2>5. QED
    BY <2>1, <2>2, <2>4 DEF Words
<1>4. QED
  BY <1>1, <1>2, <1>3 DEF CanonLine

(* The canonical text says what the line says.                                *)
LEMMA TextSays ==
    ASSUME NEW s \in Transit!Line, NEW margin \in BOOLEAN
    PROVE  Transit!Says(Text(s), margin) = Transit!Says(s, margin)
<1>1. PICK c : c = Text(s)
  OBVIOUS
<1>2. /\ c \in Seq(Texture) /\ s \in Seq(Texture)
      /\ \A i \in DOMAIN c : c[i] = IF s[i] \in Transit!Gap THEN "blank" ELSE s[i]
  BY <1>1, TextShape, LineParts
<1>3. /\ Words(c) = Words(s) /\ \A i \in Words(s) : c[i] = s[i]
      /\ \A i : Nth(c, i) = Nth(s, i)
  BY <1>1, TextWords
<1>4. ASSUME NEW i \in Words(s)
      PROVE  Gapped(c, i, margin) <=> Gapped(s, i, margin)
  <2>1. i \in DOMAIN c
    BY <1>3 DEF Words
  <2>2. i > 1 => (c[i - 1] \in Transit!Gap <=> s[i - 1] \in Transit!Gap)
    <3>1. i > 1 => i - 1 \in DOMAIN c
      BY <2>1, <1>2
    <3>2. \A j \in DOMAIN c : c[j] \in Transit!Gap <=> s[j] \in Transit!Gap
      BY <1>2 DEF Transit!Gap
    <3>3. QED
      BY <3>1, <3>2
  <2>3. QED
    BY <2>2, <1>3, Zenon DEF Gapped
<1>5. Found(c, s, margin, margin) /\ Found(s, c, margin, margin)
  BY <1>3, <1>4, Zenon DEF Found
<1>6. QED
  BY <1>1, <1>5, SaysSame

(* A line says the same as another exactly if their canonical texts are one.  *)
LEMMA SameText ==
    ASSUME NEW s \in Transit!Line, NEW t \in Transit!Line
    PROVE  Text(s) = Text(t) <=> Transit!Says(s, TRUE) = Transit!Says(t, TRUE)
<1>1. Text(s) \in CanonLine /\ Text(t) \in CanonLine
  BY TextCanon
<1>2. /\ Transit!Says(Text(s), TRUE) = Transit!Says(s, TRUE)
      /\ Transit!Says(Text(t), TRUE) = Transit!Says(t, TRUE)
  BY TextSays
<1>3. QED
  BY <1>1, <1>2, CanonSaysAll

(* An empty one says nothing, and only it.                                    *)
LEMMA EmptyText ==
    ASSUME NEW s \in Transit!Line
    PROVE  Text(s) = << >> <=> Transit!Says(s, TRUE) = {}
<1>1. PICK c : c = Text(s)
  OBVIOUS
<1>2. c \in CanonLine /\ Words(c) = Words(s)
  BY <1>1, TextCanon, TextWords
<1>3. Transit!Says(s, TRUE) = {} <=> Words(s) = {}
  BY SaysIs
<1>4. c # << >> => Words(c) # {}
  <2> SUFFICES ASSUME c # << >> PROVE Words(c) # {}
    OBVIOUS
  <2>1. 1 \in DOMAIN c
    BY <1>2 DEF CanonLine
  <2>2. c[1] \in Transit!Gap => 1 + 1 \in Words(c)
    BY <2>1, <1>2 DEF CanonLine
  <2>3. c[1] \notin Transit!Gap => 1 \in Words(c)
    BY <2>1 DEF Words
  <2>4. QED
    BY <2>2, <2>3
<1>5. c = << >> => Words(c) = {}
  BY DEF Words
<1>6. QED
  BY <1>1, <1>2, <1>3, <1>4, <1>5
(* The words of a line whose leading gap is gone are one place further on.    *)
LEMMA TailWords ==
    ASSUME NEW c \in Seq(Texture), c # << >>, c[1] \in Transit!Gap
    PROVE  /\ Tail(c) \in Seq(Texture) /\ DOMAIN Tail(c) = 1 .. Len(c) - 1
           /\ \A i \in Int : i \in Words(Tail(c)) <=> i + 1 \in Words(c)
           /\ \A i \in DOMAIN Tail(c) : Tail(c)[i] = c[i + 1]
           /\ \A i \in Int : Nth(Tail(c), i) = Nth(c, i + 1)
<1>1. PICK u : u = Tail(c)
  OBVIOUS
<1>2. /\ u \in Seq(Texture) /\ Len(u) = Len(c) - 1 /\ Len(c) \in Nat \ {0}
      /\ \A i \in 1 .. Len(u) : u[i] = c[i + 1]
  BY <1>1
<1>3. ASSUME NEW i \in Int PROVE i \in Words(u) <=> i + 1 \in Words(c)
  <2>1. CASE i \in 1 .. Len(u)
    <3>1. u[i] = c[i + 1] /\ i + 1 \in 1 .. Len(c)
      BY <2>1, <1>2
    <3>2. QED
      BY <3>1, <2>1, <1>2 DEF Words
  <2>2. CASE i \notin 1 .. Len(u)
    <3>1. i \notin Words(u)
      BY <2>2, <1>2 DEF Words
    <3>2. i + 1 \notin 1 .. Len(c) \/ i + 1 = 1
      BY <2>2, <1>2
    <3>3. 1 \notin Words(c)
      BY DEF Words
    <3>4. Words(c) \subseteq 1 .. Len(c)
      BY DEF Words
    <3>5. QED
      BY <3>1, <3>2, <3>3, <3>4
  <2>3. QED
    BY <2>1, <2>2
<1>4. ASSUME NEW i \in Int PROVE Nth(u, i) = Nth(c, i + 1)
  <2> DEFINE A == {j \in Words(u) : j <= i}
             B == {j \in Words(c) : j <= i + 1}
             f == [j \in A |-> j + 1]
  <2>1. Words(u) \subseteq Int /\ Words(c) \subseteq Int
    BY <1>2 DEF Words
  <2>2. ASSUME NEW j \in A PROVE f[j] \in B
    <3>1. j \in Int /\ j <= i /\ j \in Words(u)
      BY <2>1
    <3>2. j + 1 \in Words(c) /\ j + 1 <= i + 1
      BY <3>1, <1>3
    <3>3. QED
      BY <3>2
  <2>3. \A j, k \in A : f[j] = f[k] => j = k
    BY <2>1
  <2>4. \A k \in B : k - 1 \in A /\ f[k - 1] = k
    <3> SUFFICES ASSUME NEW k \in B PROVE k - 1 \in A /\ f[k - 1] = k
      OBVIOUS
    <3>1. k \in Int /\ (k - 1) + 1 = k /\ k - 1 \in Int
      BY <2>1
    <3>2. k - 1 \in Words(u)
      BY <3>1, <1>3
    <3>3. QED
      BY <3>1, <3>2
  <2>5. f \in Bijection(A, B)
    <3>1. f \in [A -> B]
      BY <2>2
    <3>2. \A k \in B : \E j \in A : f[j] = k
      BY <2>4
    <3> HIDE DEF f, A, B
    <3>3. QED
      BY <3>1, <3>2, <2>3, Fun_IsBij
  <2>6. ExistsBijection(A, B)
    BY <2>5 DEF ExistsBijection
  <2>7. IsFiniteSet(A)
    BY <1>2, NthFinite
  <2>8. Cardinality(A) = Cardinality(B)
    BY <2>6, <2>7, FS_Bijection
  <2>9. QED
    BY <2>8 DEF Nth
<1>5. QED
  BY <1>1, <1>2, <1>3, <1>4

(* Without its leading gap, a canonical line says with margins what it said   *)
(* without.                                                                   *)
LEMMA UnledSays ==
    ASSUME NEW c \in CanonLine
    PROVE  /\ Transit!Unled(c) \in CanonLine
           /\ Transit!Says(Transit!Unled(c), TRUE) = Transit!Says(c, FALSE)
<1>1. PICK u : u = Transit!Unled(c)
  OBVIOUS
<1>2. /\ c \in Seq(Texture)
      /\ \A i \in DOMAIN c : c[i] \in Transit!Gap => c[i] = "blank" /\ i + 1 \in Words(c)
  BY DEF CanonLine
<1>3. CASE c # << >> /\ c[1] = "blank"
  <2>1. u = Tail(c) /\ c[1] \in Transit!Gap
    BY <1>1, <1>3 DEF Transit!Unled, Transit!Gap
  <2>2. /\ u \in Seq(Texture) /\ DOMAIN u = 1 .. Len(c) - 1
        /\ \A i \in Int : i \in Words(u) <=> i + 1 \in Words(c)
        /\ \A i \in DOMAIN u : u[i] = c[i + 1]
        /\ \A i \in Int : Nth(u, i) = Nth(c, i + 1)
    BY <2>1, <1>2, <1>3, TailWords
  <2>3. /\ 1 \in DOMAIN c /\ 1 \notin Words(c) /\ 2 \in Words(c) /\ DOMAIN c = 1 .. Len(c)
        /\ Len(c) \in Nat /\ Words(c) \subseteq 1 .. Len(c) /\ Words(u) \subseteq 1 .. Len(c) - 1
    <3>1. 1 \in DOMAIN c /\ DOMAIN c = 1 .. Len(c) /\ Len(c) \in Nat
      BY <1>2, <1>3
    <3>2. 1 + 1 \in Words(c)
      BY <3>1, <2>1, <1>2
    <3>3. 1 \notin Words(c) /\ Words(c) \subseteq DOMAIN c /\ Words(u) \subseteq DOMAIN u
      BY <2>1 DEF Words
    <3>4. 1 + 1 = 2
      OBVIOUS
    <3>5. QED
      BY <3>1, <3>2, <3>3, <3>4, <2>2
  <2>4. u \in CanonLine
    <3>1. ASSUME NEW i \in DOMAIN u, u[i] \in Transit!Gap
          PROVE  u[i] = "blank" /\ i + 1 \in Words(u)
      <4>1. i + 1 \in DOMAIN c /\ u[i] = c[i + 1] /\ i \in Int /\ i + 1 \in Int
        <5>1. i \in 1 .. Len(c) - 1 /\ u[i] = c[i + 1]
          BY <2>2
        <5>2. QED
          BY <5>1, <2>3
      <4>2. c[i + 1] = "blank" /\ (i + 1) + 1 \in Words(c)
        BY <4>1, <3>1, <1>2
      <4>3. QED
        BY <4>1, <4>2, <2>2
    <3>2. QED
      BY <3>1, <2>2 DEF CanonLine
  <2>5. Nth(c, 2) = 1
    <3>1. Words(c) \subseteq Int /\ 1 \notin Words(c) /\ 2 \in Words(c) /\ \A j \in Words(c) : j >= 1
      BY <2>3
    <3>2. {j \in Words(c) : j <= 2} = {2}
      BY <3>1
    <3>3. QED
      BY <3>2, FS_Singleton DEF Nth
  <2>6. ASSUME NEW i \in Words(u)
        PROVE  Gapped(u, i, TRUE) <=> Gapped(c, i + 1, FALSE)
    <3>1. i \in 1 .. Len(c) - 1 /\ i + 1 \in Words(c) /\ i + 1 \in Int
      <4>1. i \in 1 .. Len(c) - 1
        BY <2>3
      <4>2. i \in Int /\ i + 1 \in Int
        BY <4>1
      <4>3. QED
        BY <4>1, <4>2, <2>2
    <3>2. CASE i = 1
      <4>1. i + 1 = 2 /\ ~(i > 1)
        BY <3>2
      <4>2. ~(Nth(c, 2) > 1)
        BY <2>5
      <4>3. QED
        BY <4>1, <4>2 DEF Gapped
    <3>3. CASE i # 1
      <4>1. i > 1 /\ i + 1 > 1 /\ i - 1 \in DOMAIN u /\ (i - 1) + 1 = i /\ (i + 1) - 1 = i
        BY <3>1, <3>3, <2>2
      <4>2. u[i - 1] = c[i]
        BY <4>1, <2>2
      <4>3. Nth(c, i + 1) > 1
        <5>1. Nth(c, 2) < Nth(c, i + 1)
          BY <3>1, <4>1, <1>2, NthLess
        <5>2. QED
          BY <5>1, <2>5, <1>2, NthFinite
      <4>4. Gapped(u, i, TRUE) <=> c[i] \in Transit!Gap
        BY <4>1, <4>2 DEF Gapped
      <4>5. Gapped(c, i + 1, FALSE) <=> c[i] \in Transit!Gap
        BY <4>1, <4>3 DEF Gapped
      <4>6. QED
        BY <4>4, <4>5
    <3>4. QED
      BY <3>2, <3>3
  <2>7. Found(u, c, TRUE, FALSE)
    <3> SUFFICES ASSUME NEW i \in Words(u)
                 PROVE  \E j \in Words(c) : /\ Nth(u, i) = Nth(c, j) /\ u[i] = c[j]
                                            /\ Gapped(u, i, TRUE) <=> Gapped(c, j, FALSE)
      BY DEF Found
    <3>1. i \in DOMAIN u /\ i \in Int
      BY <2>2, <2>3
    <3>2. i + 1 \in Words(c) /\ Nth(u, i) = Nth(c, i + 1) /\ u[i] = c[i + 1]
      BY <3>1, <2>2
    <3>3. QED
      BY <3>2, <2>6
  <2>8. Found(c, u, FALSE, TRUE)
    <3> SUFFICES ASSUME NEW j \in Words(c)
                 PROVE  \E i \in Words(u) : /\ Nth(c, j) = Nth(u, i) /\ c[j] = u[i]
                                            /\ Gapped(c, j, FALSE) <=> Gapped(u, i, TRUE)
      BY DEF Found
    <3>1. PICK i \in Int : j = i + 1
      <4>1. j - 1 \in Int /\ j = (j - 1) + 1
        BY <2>3
      <4>2. QED
        BY <4>1
    <3>2. i \in Words(u)
      BY <3>1, <2>2
    <3>3. i \in DOMAIN u
      BY <3>2 DEF Words
    <3>4. Nth(u, i) = Nth(c, j) /\ u[i] = c[j]
      BY <3>1, <3>3, <2>2
    <3>5. Gapped(u, i, TRUE) <=> Gapped(c, j, FALSE)
      BY <3>1, <3>2, <2>6
    <3>6. QED
      BY <3>2, <3>4, <3>5
  <2>9. QED
    BY <2>4, <2>7, <2>8, <1>1, SaysSame
<1>4. CASE ~(c # << >> /\ c[1] = "blank")
  <2>1. u = c
    BY <1>1, <1>4 DEF Transit!Unled
  <2>2. ASSUME NEW i \in Words(c)
        PROVE  Gapped(c, i, TRUE) <=> Gapped(c, i, FALSE)
    <3>1. i \in 1 .. Len(c) /\ 1 \in 1 .. Len(c) /\ DOMAIN c = 1 .. Len(c) /\ Len(c) \in Nat
      BY <1>2 DEF Words
    <3>2. c[1] \notin Transit!Gap
      BY <3>1, <1>2, <1>4
    <3>3. 1 \in Words(c)
      BY <3>1, <3>2 DEF Words
    <3>4. i > 1 => Nth(c, i) > 1
      <4>1. Nth(c, 1) = Nth(c, 1 - 1) + 1
        BY <3>1, <3>3, <1>2, NthStep
      <4>2. i > 1 => Nth(c, 1) < Nth(c, i)
        BY <3>1, <1>2, NthLess
      <4>3. Nth(c, 1 - 1) \in Nat /\ Nth(c, i) \in Nat
        BY <1>2, NthFinite
      <4>4. QED
        BY <4>1, <4>2, <4>3
    <3>5. QED
      BY <3>4 DEF Gapped
  <2>3. Found(c, c, TRUE, FALSE)
    <3> SUFFICES ASSUME NEW i \in Words(c)
                 PROVE  \E j \in Words(c) : /\ Nth(c, i) = Nth(c, j) /\ c[i] = c[j]
                                            /\ Gapped(c, i, TRUE) <=> Gapped(c, j, FALSE)
      BY DEF Found
    <3>1. QED
      BY <2>2, Zenon
  <2>4. Found(c, c, FALSE, TRUE)
    <3> SUFFICES ASSUME NEW i \in Words(c)
                 PROVE  \E j \in Words(c) : /\ Nth(c, i) = Nth(c, j) /\ c[i] = c[j]
                                            /\ Gapped(c, i, FALSE) <=> Gapped(c, j, TRUE)
      BY DEF Found
    <3>1. QED
      BY <2>2, Zenon
  <2>5. Transit!Says(c, TRUE) = Transit!Says(c, FALSE)
    <3>1. TRUE \in BOOLEAN /\ FALSE \in BOOLEAN
      OBVIOUS
    <3>2. QED
      BY <3>1, <2>3, <2>4, SaysSame, Zenon
  <2>6. QED
    BY <2>1, <2>5, <1>1
<1>5. QED
  BY <1>3, <1>4

(* The value of a field says the same as another exactly if they are one once *)
(* their canonical texts have no leading gap.                                 *)
LEMMA SameValue ==
    ASSUME NEW s \in Transit!Line, NEW t \in Transit!Line
    PROVE  Transit!Unled(Text(s)) = Transit!Unled(Text(t))
             <=> Transit!Says(s, FALSE) = Transit!Says(t, FALSE)
<1>1. Text(s) \in CanonLine /\ Text(t) \in CanonLine
  BY TextCanon
<1>2. /\ Transit!Unled(Text(s)) \in CanonLine /\ Transit!Unled(Text(t)) \in CanonLine
      /\ Transit!Says(Transit!Unled(Text(s)), TRUE) = Transit!Says(Text(s), FALSE)
      /\ Transit!Says(Transit!Unled(Text(t)), TRUE) = Transit!Says(Text(t), FALSE)
  BY <1>1, UnledSays
<1>3. /\ Transit!Says(Text(s), FALSE) = Transit!Says(s, FALSE)
      /\ Transit!Says(Text(t), FALSE) = Transit!Says(t, FALSE)
  BY TextSays
<1>4. QED
  BY <1>2, <1>3, CanonSaysAll
-------------------------------------------------------------------------------
(* The body.                                                                  *)

(* A bounded set of numbers has a greatest.                                   *)
LEMMA GreatestNumber ==
    ASSUME NEW n \in Nat, NEW S \in SUBSET (1 .. n), S # {}
    PROVE  \E m \in S : \A i \in S : i <= m
<1> DEFINE Above == {m \in Nat : \A i \in S : i <= m}
<1>1. n \in Above
  OBVIOUS
<1>2. PICK m \in Above : \A k \in Above : m <= k
  BY <1>1, LeastNumber
<1>3. PICK i \in S : TRUE
  OBVIOUS
<1>4. m >= 1
  BY <1>3
<1>5. m - 1 \in Nat /\ ~(m <= m - 1)
  BY <1>4
<1>6. m - 1 \notin Above
  BY <1>2, <1>5
<1>7. PICK k \in S : ~(k <= m - 1)
  BY <1>5, <1>6
<1>8. k = m
  BY <1>7
<1>9. QED
  BY <1>8

LEMMA LastOf ==
    ASSUME NEW n \in Nat, NEW S \in SUBSET (1 .. n)
    PROVE  LET last == IF S = {} THEN 0 ELSE CHOOSE i \in S : \A j \in S : j <= i
           IN  /\ last \in 0 .. n /\ \A i \in S : i <= last
               /\ last # 0 => last \in S
<1> DEFINE last == IF S = {} THEN 0 ELSE CHOOSE i \in S : \A j \in S : j <= i
<1>1. S = {} => last = 0
  OBVIOUS
<1>2. S # {} => last \in S /\ \A i \in S : i <= last
  <2>1. S # {} => \E m \in S : \A i \in S : i <= m
    BY GreatestNumber
  <2>2. QED
    BY <2>1, Zenon
<1> HIDE DEF last
<1>3. /\ last \in 0 .. n /\ \A i \in S : i <= last
      /\ last # 0 => last \in S
  <2>1. CASE S = {}
    BY <2>1, <1>1
  <2>2. CASE S # {}
    <3>1. last \in S /\ \A i \in S : i <= last
      BY <2>2, <1>2
    <3>2. last \in 0 .. n
      BY <3>1
    <3>3. QED
      BY <3>1, <3>2
  <2>3. QED
    BY <2>1, <2>2
<1>4. QED
  BY <1>3 DEF last

(* The lines that count are those up to the last that says something.         *)
LEMMA BodyShape ==
    ASSUME NEW b \in Seq(Transit!Line)
    PROVE  \E n \in 0 .. Len(b) :
               /\ Transit!CanonBody(b) = [i \in 1 .. n |-> Text(b[i])]
               /\ Transit!SaysBody(b) = {<<i, Transit!Says(b[i], TRUE)>> : i \in 1 .. n}
<1> DEFINE lines == [i \in DOMAIN b |-> Text(b[i])]
           full  == {i \in DOMAIN b : lines[i] # << >>}
           last  == IF full = {} THEN 0 ELSE CHOOSE i \in full : \A j \in full : j <= i
           saying == {i \in DOMAIN b : \E j \in i .. Len(b) : Transit!Says(b[j], TRUE) # {}}
<1>1. Transit!CanonBody(b) = SubSeq(lines, 1, last)
  BY DEF Transit!CanonBody, Text
<1>2. DOMAIN b = 1 .. Len(b) /\ Len(b) \in Nat /\ \A i \in DOMAIN b : b[i] \in Transit!Line
  OBVIOUS
<1>3. lines \in Seq(Seq(Texture)) /\ Len(lines) = Len(b)
  <2>1. \A i \in 1 .. Len(b) : Text(b[i]) \in Seq(Texture)
    BY <1>2, TextShape
  <2>2. QED
    BY <1>2, <2>1
<1>4. full \in SUBSET (1 .. Len(b))
  BY <1>2
<1>5. /\ last \in 0 .. Len(b) /\ \A i \in full : i <= last
      /\ last # 0 => last \in full
  <2> HIDE DEF full
  <2>1. QED
    BY <1>2, <1>4, LastOf, Zenon DEF last
<1>6. \A i \in DOMAIN b : i \in full <=> Transit!Says(b[i], TRUE) # {}
  <2> SUFFICES ASSUME NEW i \in DOMAIN b PROVE i \in full <=> Transit!Says(b[i], TRUE) # {}
    OBVIOUS
  <2>1. b[i] \in Transit!Line /\ lines[i] = Text(b[i])
    BY <1>2
  <2>2. Text(b[i]) = << >> <=> Transit!Says(b[i], TRUE) = {}
    BY <2>1, EmptyText
  <2>3. QED
    BY <2>1, <2>2
<1>7. PICK n : n = last
  <2> HIDE DEF last
  <2>1. QED
    OBVIOUS
<1>8. PICK fulls : fulls = full
  OBVIOUS
<1>9. /\ n \in 0 .. Len(b) /\ \A i \in fulls : i <= n
      /\ n # 0 => n \in fulls
      /\ fulls \subseteq 1 .. Len(b)
      /\ \A i \in DOMAIN b : i \in fulls <=> Transit!Says(b[i], TRUE) # {}
  BY <1>4, <1>5, <1>6, <1>7, <1>8
<1>10. saying = 1 .. n
  <2>1. ASSUME NEW i \in saying PROVE i \in 1 .. n
    <3>1. PICK j \in i .. Len(b) : Transit!Says(b[j], TRUE) # {}
      OBVIOUS
    <3>2. i \in 1 .. Len(b) /\ j \in DOMAIN b
      BY <1>2
    <3>3. j \in fulls
      BY <3>1, <3>2, <1>9
    <3>4. j <= n
      BY <3>3, <1>9
    <3>5. QED
      BY <3>2, <3>4, <1>2, <1>9
  <2>2. ASSUME NEW i \in 1 .. n PROVE i \in saying
    <3>1. n \in fulls /\ n \in DOMAIN b
      BY <1>2, <1>9
    <3>2. Transit!Says(b[n], TRUE) # {}
      BY <3>1, <1>9
    <3>3. i \in DOMAIN b /\ n \in i .. Len(b)
      BY <1>2, <1>9
    <3>4. QED
      BY <3>2, <3>3
  <2>3. QED
    BY <2>1, <2>2
<1>11. Transit!SaysBody(b) = {<<i, Transit!Says(b[i], TRUE)>> : i \in 1 .. n}
  <2>1. Transit!SaysBody(b) = {<<i, Transit!Says(b[i], TRUE)>> : i \in saying}
    BY DEF Transit!SaysBody
  <2> HIDE DEF saying
  <2>2. QED
    BY <2>1, <1>10
<1>12. SubSeq(lines, 1, n) = [i \in 1 .. n |-> Text(b[i])]
  <2>1. SubSeq(lines, 1, n) = [i \in 1 .. n |-> lines[i]]
    <3> HIDE DEF lines
    <3>1. QED
      BY <1>2, <1>3, <1>9
  <2>2. \A i \in 1 .. n : lines[i] = Text(b[i])
    BY <1>2, <1>9
  <2>3. QED
    BY <2>1, <2>2
<1>13. QED
  BY <1>1, <1>7, <1>9, <1>11, <1>12

(* Bodies are one to the canonicalization exactly if they say the same.       *)
LEMMA SameBody ==
    ASSUME NEW a \in Seq(Transit!Line), NEW b \in Seq(Transit!Line)
    PROVE  Transit!CanonBody(a) = Transit!CanonBody(b) <=> Transit!SaysBody(a) = Transit!SaysBody(b)
<1>1. PICK n \in 0 .. Len(a) :
          /\ Transit!CanonBody(a) = [i \in 1 .. n |-> Text(a[i])]
          /\ Transit!SaysBody(a) = {<<i, Transit!Says(a[i], TRUE)>> : i \in 1 .. n}
  BY BodyShape
<1>2. PICK m \in 0 .. Len(b) :
          /\ Transit!CanonBody(b) = [i \in 1 .. m |-> Text(b[i])]
          /\ Transit!SaysBody(b) = {<<i, Transit!Says(b[i], TRUE)>> : i \in 1 .. m}
  BY BodyShape
<1>3. n \in Nat /\ m \in Nat
  OBVIOUS
<1>4. ASSUME NEW i \in 1 .. n, i \in 1 .. m
      PROVE  Text(a[i]) = Text(b[i]) <=> Transit!Says(a[i], TRUE) = Transit!Says(b[i], TRUE)
  <2>1. a[i] \in Transit!Line /\ b[i] \in Transit!Line
    BY <1>4
  <2>2. QED
    BY <2>1, SameText
<1>5. Transit!CanonBody(a) = Transit!CanonBody(b)
        <=> n = m /\ \A i \in 1 .. n : Text(a[i]) = Text(b[i])
  <2>1. DOMAIN Transit!CanonBody(a) = 1 .. n /\ DOMAIN Transit!CanonBody(b) = 1 .. m
    BY <1>1, <1>2
  <2>2. 1 .. n = 1 .. m => n = m
    BY <1>3
  <2>3. QED
    BY <2>1, <2>2, <1>1, <1>2
<1>6. Transit!SaysBody(a) = Transit!SaysBody(b)
        <=> n = m /\ \A i \in 1 .. n : Transit!Says(a[i], TRUE) = Transit!Says(b[i], TRUE)
  <2>1. ASSUME Transit!SaysBody(a) = Transit!SaysBody(b) PROVE 1 .. n = 1 .. m
    <3>1. ASSUME NEW i \in 1 .. n PROVE i \in 1 .. m
      <4>1. <<i, Transit!Says(a[i], TRUE)>> \in Transit!SaysBody(b)
        BY <2>1, <1>1
      <4>2. PICK j \in 1 .. m : <<i, Transit!Says(a[i], TRUE)>> = <<j, Transit!Says(b[j], TRUE)>>
        BY <4>1, <1>2
      <4>3. QED
        BY <4>2
    <3>2. ASSUME NEW i \in 1 .. m PROVE i \in 1 .. n
      <4>1. <<i, Transit!Says(b[i], TRUE)>> \in Transit!SaysBody(a)
        BY <2>1, <1>2
      <4>2. PICK j \in 1 .. n : <<i, Transit!Says(b[i], TRUE)>> = <<j, Transit!Says(a[j], TRUE)>>
        BY <4>1, <1>1
      <4>3. QED
        BY <4>2
    <3>3. QED
      BY <3>1, <3>2
  <2>2. 1 .. n = 1 .. m => n = m
    BY <1>3
  <2>3. ASSUME Transit!SaysBody(a) = Transit!SaysBody(b), NEW i \in 1 .. n
        PROVE  Transit!Says(a[i], TRUE) = Transit!Says(b[i], TRUE)
    <3>1. <<i, Transit!Says(a[i], TRUE)>> \in Transit!SaysBody(b)
      BY <2>3, <1>1
    <3>2. PICK j \in 1 .. m : <<i, Transit!Says(a[i], TRUE)>> = <<j, Transit!Says(b[j], TRUE)>>
      BY <3>1, <1>2
    <3>3. QED
      BY <3>2
  <2>4. ASSUME n = m, \A i \in 1 .. n : Transit!Says(a[i], TRUE) = Transit!Says(b[i], TRUE)
        PROVE  Transit!SaysBody(a) = Transit!SaysBody(b)
    <3> DEFINE p(i) == <<i, Transit!Says(a[i], TRUE)>>
               q(i) == <<i, Transit!Says(b[i], TRUE)>>
    <3>1. \A i \in 1 .. n : p(i) = q(i)
      BY <2>4
    <3>2. Transit!SaysBody(a) = {p(i) : i \in 1 .. n} /\ Transit!SaysBody(b) = {q(i) : i \in 1 .. n}
      BY <2>4, <1>1, <1>2
    <3> HIDE DEF p, q
    <3>3. QED
      BY <3>1, <3>2
  <2>5. QED
    BY <2>1, <2>2, <2>3, <2>4
<1>7. QED
  BY <1>4, <1>5, <1>6
-------------------------------------------------------------------------------
(* The signed fields.                                                         *)

Header == [name : FieldName, value : Transit!Line]

(* The first and the last field of a name are fields of that name.            *)
LEMMA FieldAt ==
    ASSUME NEW f \in Seq(Header), NEW n, Transit!At(f, n) # {}
    PROVE  /\ f[Transit!LeastOf(Transit!At(f, n))] \in Header
           /\ f[Transit!LeastOf(Transit!At(f, n))].name = n
           /\ f[Transit!GreatestOf(Transit!At(f, n))] \in Header
           /\ f[Transit!GreatestOf(Transit!At(f, n))].name = n
<1>1. PICK at : at = Transit!At(f, n)
  OBVIOUS
<1>2. /\ at \subseteq 1 .. Len(f) /\ Len(f) \in Nat /\ at # {}
      /\ \A i \in at : f[i] \in Header /\ f[i].name = n
  BY <1>1 DEF Transit!At
<1>3. \E m \in at : \A i \in at : i <= m
  BY <1>2, GreatestNumber
<1>4. \E m \in at : \A i \in at : m <= i
  BY <1>2, LeastNumber
<1>5. Transit!GreatestOf(at) \in at
  BY <1>3, Zenon DEF Transit!GreatestOf
<1>6. Transit!LeastOf(at) \in at
  BY <1>4, Zenon DEF Transit!LeastOf
<1>7. QED
  BY <1>1, <1>2, <1>5, <1>6

(* Canonical fields of one name are one if their values say the same.         *)
LEMMA SameField ==
    ASSUME NEW f \in Header, NEW g \in Header, f.name = g.name
    PROVE  Transit!CanonField(f) = Transit!CanonField(g)
             <=> Transit!Says(f.value, FALSE) = Transit!Says(g.value, FALSE)
<1>1. ASSUME NEW h \in Header
      PROVE  Transit!CanonField(h) = [name |-> h.name, value |-> Transit!Unled(Text(h.value))]
  BY DEF Transit!CanonField, Text, Header
<1>2. Transit!CanonField(f) = Transit!CanonField(g)
        <=> Transit!Unled(Text(f.value)) = Transit!Unled(Text(g.value))
  BY <1>1
<1>3. f.value \in Transit!Line /\ g.value \in Transit!Line
  BY DEF Header
<1>4. QED
  BY <1>2, <1>3, SameValue

(* What the signature is of is what the message has, if each signed field is  *)
(* there and says what it said.                                               *)
LEMMA SameFields ==
    ASSUME NEW m \in Transit!Message, NEW w \in Transit!Message
    PROVE  Transit!Seal(m).sealed = Transit!Resealed(w, Transit!Seal(m).h)
             <=> \A n \in Signed :
                    Transit!At(m.fields, n) # {} =>
                       /\ Transit!At(w.fields, n) # {}
                       /\ Transit!Says(w.fields[Transit!GreatestOf(Transit!At(w.fields, n))].value, FALSE)
                            = Transit!Says(m.fields[Transit!LeastOf(Transit!At(m.fields, n))].value, FALSE)
<1> DEFINE was(n) == m.fields[Transit!LeastOf(Transit!At(m.fields, n))]
           is(n)  == w.fields[Transit!GreatestOf(Transit!At(w.fields, n))]
           h      == Transit!Present(m.fields)
           there  == {n \in h : Transit!At(w.fields, n) # {}}
<1>1. m.fields \in Seq(Header) /\ w.fields \in Seq(Header)
  BY DEF Transit!Message, Header
<1>2. /\ Transit!Seal(m).h = h
      /\ Transit!Seal(m).sealed = [n \in h |-> Transit!CanonField(was(n))]
  BY DEF Transit!Seal
<1>3. Transit!Resealed(w, h) = [n \in there |-> Transit!CanonField(is(n))]
  BY DEF Transit!Resealed
<1>4. \A n \in Signed : n \in h <=> Transit!At(m.fields, n) # {}
  BY DEF Transit!Present
<1>5. h \subseteq Signed /\ there = {n \in h : Transit!At(w.fields, n) # {}}
  BY DEF Transit!Present
<1>6. ASSUME NEW n \in h, n \in there
      PROVE  Transit!CanonField(was(n)) = Transit!CanonField(is(n))
               <=> Transit!Says(is(n).value, FALSE) = Transit!Says(was(n).value, FALSE)
  <2>1. Transit!At(m.fields, n) # {} /\ Transit!At(w.fields, n) # {}
    BY <1>4, <1>5, <1>6
  <2>2. was(n) \in Header /\ is(n) \in Header /\ was(n).name = n /\ is(n).name = n
    BY <2>1, <1>1, FieldAt
  <2> HIDE DEF was, is
  <2>3. QED
    BY <2>2, SameField
<1> HIDE DEF was, is, h, there
<1>7. [n \in h |-> Transit!CanonField(was(n))] = [n \in there |-> Transit!CanonField(is(n))]
        <=> h = there /\ \A n \in h : Transit!CanonField(was(n)) = Transit!CanonField(is(n))
  OBVIOUS
<1>8. Transit!Seal(m).sealed = Transit!Resealed(w, Transit!Seal(m).h)
        <=> h = there /\ \A n \in h : Transit!Says(is(n).value, FALSE) = Transit!Says(was(n).value, FALSE)
  BY <1>2, <1>3, <1>6, <1>7
<1>9. h = there <=> \A n \in Signed : Transit!At(m.fields, n) # {} => Transit!At(w.fields, n) # {}
  BY <1>4, <1>5
<1>10. (\A n \in h : Transit!Says(is(n).value, FALSE) = Transit!Says(was(n).value, FALSE))
         <=> \A n \in Signed : Transit!At(m.fields, n) # {} =>
                 Transit!Says(is(n).value, FALSE) = Transit!Says(was(n).value, FALSE)
  BY <1>4, <1>5
<1>11. QED
  BY <1>8, <1>9, <1>10 DEF was, is

-------------------------------------------------------------------------------
(* The relays leave a message a message.                                      *)

LEMMA LineCriterion ==
    ASSUME NEW s \in Seq(Texture),
           \A i \in 1 .. Len(s) : i + 1 <= Len(s) /\ s[i] \in Transit!Gap => s[i + 1] \in Word
    PROVE  s \in Transit!Line
<1>1. ASSUME NEW i \in 2 .. Len(s), s[i - 1] \in Transit!Gap PROVE s[i] \in Word
  <2>1. i - 1 \in 1 .. Len(s) /\ (i - 1) + 1 = i /\ (i - 1) + 1 <= Len(s)
    OBVIOUS
  <2>2. s[(i - 1) + 1] \in Word
    BY <2>1, <1>1
  <2>3. QED
    BY <2>1, <2>2
<1>2. QED
  BY <1>1 DEF Transit!Line, Texture

LEMMA LineFacts ==
    ASSUME NEW s \in Transit!Line
    PROVE  /\ s \in Seq(Texture)
           /\ \A i \in 1 .. Len(s) : i + 1 <= Len(s) /\ s[i] \in Transit!Gap => s[i + 1] \in Word
<1>1. s \in Seq(Texture)
  BY LineParts
<1>2. ASSUME NEW i \in 1 .. Len(s), i + 1 <= Len(s), s[i] \in Transit!Gap PROVE s[i + 1] \in Word
  <2>1. i \in DOMAIN s /\ i + 1 \in DOMAIN s
    BY <1>1, <1>2
  <2>2. s[i + 1] \in Texture /\ s[i + 1] \notin Transit!Gap
    BY <2>1, <1>1, <1>2, LineParts
  <2>3. QED
    BY <2>2 DEF Texture
<1>3. QED
  BY <1>1, <1>2

LEMMA RespacedLine ==
    ASSUME NEW s \in Transit!Line, NEW gaps \in SUBSET Transit!Gap, NEW v \in Transit!Respaced(s, gaps)
    PROVE  v \in Transit!Line
<1>1. /\ s \in Seq(Texture) /\ DOMAIN s = 1 .. Len(s) /\ Len(s) \in Nat
      /\ \A i \in 1 .. Len(s) : i + 1 <= Len(s) /\ s[i] \in Transit!Gap => s[i + 1] \in Word
  BY LineFacts
<1>2. \/ \E i \in {i \in DOMAIN s : s[i] \in Transit!Gap} :
             \E g \in gaps : v = [s EXCEPT ![i] = g]
      \/ \E g \in {g \in gaps : s # << >> => s[Len(s)] \notin Transit!Gap} : v = s \o <<g>>
  BY DEF Transit!Respaced
<1>3. ASSUME NEW i \in DOMAIN s, s[i] \in Transit!Gap, NEW g \in gaps, v = [s EXCEPT ![i] = g]
      PROVE  v \in Transit!Line
  <2>1. /\ v \in Seq(Texture) /\ Len(v) = Len(s)
        /\ \A j \in 1 .. Len(s) : v[j] = IF j = i THEN g ELSE s[j]
    BY <1>1, <1>3 DEF Texture
  <2>2. ASSUME NEW j \in 1 .. Len(v), j + 1 <= Len(v), v[j] \in Transit!Gap PROVE v[j + 1] \in Word
    <3>1. j \in 1 .. Len(s) /\ j + 1 \in 1 .. Len(s)
      BY <2>1, <2>2, <1>1
    <3>2. s[j] \in Transit!Gap
      BY <3>1, <2>1, <2>2, <1>3
    <3>3. s[j + 1] \in Word
      BY <3>1, <3>2, <1>1
    <3>4. j + 1 # i
      BY <3>3, <1>3, WordsAreNoGaps
    <3>5. QED
      BY <3>1, <3>3, <3>4, <2>1
  <2>3. QED
    BY <2>1, <2>2, LineCriterion
<1>4. ASSUME NEW g \in gaps, s # << >> => s[Len(s)] \notin Transit!Gap, v = s \o <<g>>
      PROVE  v \in Transit!Line
  <2>1. /\ v \in Seq(Texture) /\ Len(v) = Len(s) + 1
        /\ \A j \in 1 .. Len(s) : v[j] = s[j]
    BY <1>1, <1>4 DEF Texture
  <2>2. ASSUME NEW j \in 1 .. Len(v), j + 1 <= Len(v), v[j] \in Transit!Gap PROVE v[j + 1] \in Word
    <3>1. j \in 1 .. Len(s)
      BY <2>1, <2>2, <1>1
    <3>2. s[j] \in Transit!Gap
      BY <3>1, <2>1, <2>2
    <3>3. s # << >>
      BY <3>1, <1>1
    <3>4. j # Len(s)
      BY <3>2, <3>3, <1>4
    <3>5. j + 1 \in 1 .. Len(s)
      <4>1. PICK n \in Nat : n = Len(s)
        BY <1>1
      <4>2. QED
        BY <4>1, <3>1, <3>4
    <3>6. s[j + 1] \in Word
      BY <3>1, <3>2, <3>5, <1>1
    <3>7. QED
      BY <3>5, <3>6, <2>1
  <2>3. QED
    BY <2>1, <2>2, LineCriterion
<1>5. QED
  BY <1>2, <1>3, <1>4

LEMMA AlteredLine ==
    ASSUME NEW s \in Transit!Line, NEW v \in Transit!Altered(s)
    PROVE  v \in Transit!Line
<1>1. /\ s \in Seq(Texture) /\ DOMAIN s = 1 .. Len(s) /\ Len(s) \in Nat
      /\ \A i \in 1 .. Len(s) : i + 1 <= Len(s) /\ s[i] \in Transit!Gap => s[i + 1] \in Word
  BY LineFacts
<1>2. \/ \E i \in {i \in DOMAIN s : s[i] \notin Transit!Gap} : v = [s EXCEPT ![i] = Forged]
      \/ \E i \in {i \in DOMAIN s : 1 < i /\ i < Len(s) /\ s[i] \in Transit!Gap} :
             v = SubSeq(s, 1, i - 1) \o SubSeq(s, i + 1, Len(s))
  BY DEF Transit!Altered
<1>3. ASSUME NEW i \in DOMAIN s, s[i] \notin Transit!Gap, v = [s EXCEPT ![i] = Forged]
      PROVE  v \in Transit!Line
  <2>1. /\ v \in Seq(Texture) /\ Len(v) = Len(s)
        /\ \A j \in 1 .. Len(s) : v[j] = IF j = i THEN Forged ELSE s[j]
    BY <1>1, <1>3, WordsAreNoGaps DEF Texture
  <2>2. ASSUME NEW j \in 1 .. Len(v), j + 1 <= Len(v), v[j] \in Transit!Gap PROVE v[j + 1] \in Word
    <3>1. j \in 1 .. Len(s) /\ j + 1 \in 1 .. Len(s)
      BY <2>1, <2>2, <1>1
    <3>2. s[j] \in Transit!Gap
      BY <3>1, <2>1, <2>2, WordsAreNoGaps
    <3>3. s[j + 1] \in Word
      BY <3>1, <3>2, <1>1
    <3>4. QED
      BY <3>1, <3>3, <2>1, WordsAreNoGaps
  <2>3. QED
    BY <2>1, <2>2, LineCriterion
<1>4. ASSUME NEW i \in DOMAIN s, 1 < i, i < Len(s), s[i] \in Transit!Gap,
             v = SubSeq(s, 1, i - 1) \o SubSeq(s, i + 1, Len(s))
      PROVE  v \in Transit!Line
  <2>1. /\ v \in Seq(Texture) /\ Len(v) = Len(s) - 1
        /\ \A j \in 1 .. Len(s) - 1 : v[j] = IF j < i THEN s[j] ELSE s[j + 1]
    <3>1. PICK front : front = SubSeq(s, 1, i - 1)
      OBVIOUS
    <3>2. PICK back : back = SubSeq(s, i + 1, Len(s))
      OBVIOUS
    <3>3. i \in Int /\ 1 < i /\ i < Len(s)
      BY <1>1, <1>4
    <3>4. front \in Seq(Texture) /\ Len(front) = i - 1 /\ \A j \in 1 .. i - 1 : front[j] = s[j]
      BY <3>1, <3>3, <1>1
    <3>5. back \in Seq(Texture) /\ Len(back) = Len(s) - i /\ \A j \in 1 .. Len(s) - i : back[j] = s[i + j]
      BY <3>2, <3>3, <1>1
    <3>6. v = front \o back
      BY <3>1, <3>2, <1>4
    <3>7. v \in Seq(Texture) /\ Len(v) = Len(s) - 1
      <4>1. v \in Seq(Texture) /\ Len(v) = Len(front) + Len(back)
        <5>1. front \in Seq(Texture) /\ back \in Seq(Texture)
          BY <3>4, <3>5
        <5>2. QED
          BY <5>1, <3>6, ConcatProperties
      <4>2. QED
        BY <4>1, <3>3, <3>4, <3>5, <1>1
    <3>8. ASSUME NEW j \in 1 .. Len(s) - 1 PROVE v[j] = IF j < i THEN s[j] ELSE s[j + 1]
      <4>1. CASE j < i
        BY <4>1, <3>3, <3>4, <3>5, <3>6, <1>1
      <4>2. CASE ~(j < i)
        <5>1. v[j] = back[j - (i - 1)]
          BY <4>2, <3>3, <3>4, <3>5, <3>6, <1>1
        <5>2. j - (i - 1) \in 1 .. Len(s) - i /\ i + (j - (i - 1)) = j + 1
          BY <4>2, <3>3, <1>1
        <5>3. QED
          BY <5>1, <5>2, <4>2, <3>5
      <4>3. QED
        BY <4>1, <4>2
    <3>9. QED
      BY <3>7, <3>8
  <2>2. ASSUME NEW j \in 1 .. Len(v), j + 1 <= Len(v), v[j] \in Transit!Gap PROVE v[j + 1] \in Word
    <3>1. /\ j \in 1 .. Len(s) - 1 /\ j + 1 \in 1 .. Len(s) - 1 /\ i \in Int
          /\ j \in 1 .. Len(s) /\ j + 1 \in 1 .. Len(s) /\ (j + 1) + 1 \in 1 .. Len(s)
      BY <2>1, <2>2, <1>1
    <3>2. CASE j + 1 < i
      <4>1. v[j] = s[j] /\ v[j + 1] = s[j + 1]
        BY <3>1, <3>2, <2>1
      <4>2. QED
        BY <4>1, <3>1, <2>2, <1>1
    <3>3. CASE j + 1 = i
      <4>1. v[j] = s[j]
        BY <3>1, <3>3, <2>1
      <4>2. s[j + 1] \in Word
        BY <4>1, <3>1, <2>2, <1>1
      <4>3. QED
        BY <4>2, <3>3, <1>4, WordsAreNoGaps
    <3>4. CASE j >= i
      <4>1. v[j] = s[j + 1] /\ v[j + 1] = s[(j + 1) + 1]
        BY <3>1, <3>4, <2>1
      <4>2. QED
        BY <4>1, <3>1, <2>2, <1>1
    <3>5. QED
      BY <3>1, <3>2, <3>3, <3>4
  <2>3. QED
    BY <2>1, <2>2, LineCriterion
<1>5. QED
  BY <1>2, <1>3, <1>4

(* Each thing a relay does to a sequence of fields or of lines.               *)
LEMMA Piecewise ==
    ASSUME NEW S, NEW s \in Seq(S), NEW x \in S
    PROVE  /\ <<x>> \o s \in Seq(S) /\ s \o <<x>> \in Seq(S) /\ Append(s, x) \in Seq(S)
           /\ \A i \in DOMAIN s : /\ SubSeq(s, 1, i - 1) \o SubSeq(s, i + 1, Len(s)) \in Seq(S)
                                 /\ [s EXCEPT ![i] = x] \in Seq(S)
<1>1. <<x>> \o s \in Seq(S) /\ s \o <<x>> \in Seq(S) /\ Append(s, x) \in Seq(S)
  OBVIOUS
<1>2. ASSUME NEW i \in DOMAIN s
      PROVE  SubSeq(s, 1, i - 1) \o SubSeq(s, i + 1, Len(s)) \in Seq(S)
  <2>1. SubSeq(s, 1, i - 1) \in Seq(S)
    OBVIOUS
  <2>2. SubSeq(s, i + 1, Len(s)) \in Seq(S)
    OBVIOUS
  <2>3. QED
    BY <2>1, <2>2, ConcatProperties
<1>3. \A i \in DOMAIN s : [s EXCEPT ![i] = x] \in Seq(S)
  OBVIOUS
<1>4. QED
  BY <1>1, <1>2, <1>3

LEMMA MessageParts ==
    Transit!Message = [fields : Seq(Header), body : Seq(Transit!Line)]
BY DEF Transit!Message, Header

LEMMA OneWord == <<Forged>> \in Transit!Line /\ << >> \in Transit!Line /\ <<"wide">> \in Transit!Line
<1>1. Forged \in Texture /\ "wide" \in Texture
  BY WordsAreNoGaps DEF Texture, Transit!Gap
<1>2. ASSUME NEW s \in Seq(Texture), Len(s) <= 1 PROVE s \in Transit!Line
  <2>1. \A i \in 1 .. Len(s) : ~(i + 1 <= Len(s))
    BY <1>2
  <2>2. QED
    BY <2>1, LineCriterion
<1>3. /\ << >> \in Seq(Texture) /\ Len(<< >>) <= 1
      /\ \A x \in Texture : <<x>> \in Seq(Texture) /\ Len(<<x>>) <= 1
  OBVIOUS
<1>4. QED
  BY <1>1, <1>2, <1>3

-------------------------------------------------------------------------------
(* The message on its way.                                                    *)

(* What is sent and what is on its way are messages; before it is sent they   *)
(* are one, and unsigned; the signature is that of what was sent; and the     *)
(* result is what the code makes of it and of what has arrived.               *)
TransitInv ==
    /\ kSent \in Transit!Message /\ kMsg \in Transit!Message
    /\ kPlace = "queue" => kMsg = kSent /\ kSig = {}
    /\ kSig = {} \/ kSig = {Transit!Seal(kSent)}
    /\ kPlace = "read" /\ kSig # {} => kResult = Transit!Status(Transit!Seal(kSent))

LEMMA TransitInit == Transit!Init => TransitInv
<1>1. Messages \subseteq Transit!Message
  BY TransitAssumption DEF Transit!DkimTransitAssumption
<1>2. QED
  BY <1>1 DEF Transit!Init, TransitInv

(* A change on the way only has to leave a message.                           *)
LEMMA TransitChange ==
    ASSUME TransitInv, NEW m \in Transit!Message, Transit!Change(m)
    PROVE  TransitInv'
<1>1. /\ kPlace = "way" /\ kMsg' = m
      /\ kSent' = kSent /\ kSig' = kSig /\ kPlace' = kPlace
  BY DEF Transit!Change
<1>2. Transit!Seal(kSent)' = Transit!Seal(kSent)
  BY <1>1 DEF Transit!Seal, Transit!Present
<1>3. QED
  BY <1>1, <1>2 DEF TransitInv

(* What a relay may do to the fields.                                         *)
LEMMA TransitFields ==
    ASSUME TransitInv, NEW f \in Seq(Header), Transit!Change([kMsg EXCEPT !.fields = f])
    PROVE  TransitInv'
<1>1. [kMsg EXCEPT !.fields = f] \in Transit!Message
  BY MessageParts DEF TransitInv
<1>2. QED
  BY <1>1, TransitChange

(* ... and to the body.                                                       *)
LEMMA TransitBody ==
    ASSUME TransitInv, NEW b \in Seq(Transit!Line), Transit!Change([kMsg EXCEPT !.body = b])
    PROVE  TransitInv'
<1>1. [kMsg EXCEPT !.body = b] \in Transit!Message
  BY MessageParts DEF TransitInv
<1>2. QED
  BY <1>1, TransitChange

(* Whatever is done to a message, it stays one, and its signature what it was *)
(* (Send, the relays, verify_one).                                            *)
LEMMA TransitStep == TransitInv /\ Transit!Next => TransitInv'
<1> SUFFICES ASSUME TransitInv, Transit!Next PROVE TransitInv'
  OBVIOUS
<1>1. kMsg.fields \in Seq(Header) /\ kMsg.body \in Seq(Transit!Line)
  BY MessageParts DEF TransitInv
<1>2. ASSUME NEW n \in FieldName PROVE Transit!Field(n, <<Forged>>) \in Header
  BY OneWord DEF Transit!Field, Header
<1>3. Signed \subseteq FieldName /\ Transit!Trace \in FieldName
  BY TransitAssumption DEF Transit!DkimTransitAssumption
<1>4. CASE Transit!Send
  <2>1. /\ kPlace = "queue" /\ kPlace' = "way" /\ kSent' = kSent /\ kMsg' = kMsg
        /\ kSig' = {Transit!Seal(kMsg)} \/ kSig' = {}
    BY <1>4 DEF Transit!Send
  <2>2. kMsg = kSent
    BY <2>1 DEF TransitInv
  <2>3. Transit!Seal(kSent)' = Transit!Seal(kSent)
    BY <2>1 DEF Transit!Seal, Transit!Present
  <2>4. QED
    BY <2>1, <2>2, <2>3 DEF TransitInv
<1>5. CASE Transit!AddTrace
  <2>1. Transit!Field(Transit!Trace, <<Forged>>) \in Header
    BY <1>2, <1>3
  <2>2. <<Transit!Field(Transit!Trace, <<Forged>>)>> \o kMsg.fields \in Seq(Header)
    BY <2>1, <1>1, Piecewise
  <2>3. Transit!Change([kMsg EXCEPT !.fields = <<Transit!Field(Transit!Trace, <<Forged>>)>> \o kMsg.fields])
    BY <1>5 DEF Transit!AddTrace
  <2>4. QED
    BY <2>2, <2>3, TransitFields
<1>6. ASSUME NEW n \in Signed, Transit!AddField(n) PROVE TransitInv'
  <2>1. Transit!Field(n, <<Forged>>) \in Header
    BY <1>2, <1>3
  <2>2. /\ <<Transit!Field(n, <<Forged>>)>> \o kMsg.fields \in Seq(Header)
        /\ kMsg.fields \o <<Transit!Field(n, <<Forged>>)>> \in Seq(Header)
    BY <2>1, <1>1, Piecewise
  <2>3. \/ Transit!Change([kMsg EXCEPT !.fields = <<Transit!Field(n, <<Forged>>)>> \o kMsg.fields])
        \/ Transit!Change([kMsg EXCEPT !.fields = kMsg.fields \o <<Transit!Field(n, <<Forged>>)>>])
    BY <1>6 DEF Transit!AddField
  <2>4. QED
    BY <2>2, <2>3, TransitFields
<1>7. ASSUME NEW i \in DOMAIN kMsg.fields, Transit!DropField(i) PROVE TransitInv'
  <2>1. PICK f : f = SubSeq(kMsg.fields, 1, i - 1) \o SubSeq(kMsg.fields, i + 1, Len(kMsg.fields))
    OBVIOUS
  <2>2. kMsg.fields[i] \in Header
    BY <1>1
  <2>3. f \in Seq(Header)
    BY <2>1, <2>2, <1>1, Piecewise
  <2>4. Transit!Change([kMsg EXCEPT !.fields = f])
    BY <2>1, <1>7 DEF Transit!DropField
  <2>5. QED
    BY <2>3, <2>4, TransitFields
<1>8. ASSUME NEW i \in DOMAIN kMsg.fields, Transit!ChangeField(i) PROVE TransitInv'
  <2>1. kMsg.fields[i] \in Header /\ kMsg.fields[i].value \in Transit!Line
    <3>1. kMsg.fields[i] \in Header
      BY <1>1
    <3>2. QED
      BY <3>1 DEF Header
  <2>2. PICK v \in Transit!Respaced(kMsg.fields[i].value, Transit!Gap)
                     \union Transit!Altered(kMsg.fields[i].value) :
            Transit!Change([kMsg EXCEPT !.fields[i].value = v])
    BY <1>8 DEF Transit!ChangeField
  <2>3. v \in Transit!Line
    BY <2>1, <2>2, RespacedLine, AlteredLine
  <2>4. PICK f : f = [kMsg.fields EXCEPT ![i].value = v]
    OBVIOUS
  <2>5. f = [kMsg.fields EXCEPT ![i] = [kMsg.fields[i] EXCEPT !.value = v]]
    BY <2>4
  <2>6. [kMsg.fields[i] EXCEPT !.value = v] \in Header
    BY <2>1, <2>3 DEF Header
  <2>7. f \in Seq(Header)
    BY <2>5, <2>6, <1>1, Piecewise
  <2>8. Transit!Change([kMsg EXCEPT !.fields = f])
    BY <2>2, <2>4
  <2>9. QED
    BY <2>7, <2>8, TransitFields
<1>9. ASSUME NEW i \in DOMAIN kMsg.body, Transit!ChangeLine(i) PROVE TransitInv'
  <2>1. kMsg.body[i] \in Transit!Line
    BY <1>1
  <2>2. PICK l \in Transit!Respaced(kMsg.body[i], {"blank", "wide"}) \union Transit!Altered(kMsg.body[i]) :
            Transit!Change([kMsg EXCEPT !.body[i] = l])
    BY <1>9 DEF Transit!ChangeLine
  <2>3. {"blank", "wide"} \in SUBSET Transit!Gap
    BY DEF Transit!Gap
  <2>4. l \in Transit!Line
    BY <2>1, <2>2, <2>3, RespacedLine, AlteredLine
  <2>5. [kMsg.body EXCEPT ![i] = l] \in Seq(Transit!Line)
    BY <2>4, <1>1, Piecewise
  <2>6. Transit!Change([kMsg EXCEPT !.body = [kMsg.body EXCEPT ![i] = l]])
    BY <2>2
  <2>7. QED
    BY <2>5, <2>6, TransitBody
<1>10. ASSUME NEW l \in {<< >>, <<"wide">>}, Transit!AddLine(l) PROVE TransitInv'
  <2>1. l \in Transit!Line
    BY OneWord
  <2>2. Append(kMsg.body, l) \in Seq(Transit!Line)
    BY <2>1, <1>1, Piecewise
  <2>3. Transit!Change([kMsg EXCEPT !.body = Append(kMsg.body, l)])
    BY <1>10 DEF Transit!AddLine
  <2>4. QED
    BY <2>2, <2>3, TransitBody
<1>11. CASE Transit!Verify
  <2>1. /\ kPlace = "way" /\ kPlace' = "read" /\ kSent' = kSent /\ kMsg' = kMsg
        /\ kSig' = kSig /\ kKey' = kKey
        /\ kSig # {} => kResult' = Transit!Status(CHOOSE s \in kSig : TRUE)
    BY <1>11 DEF Transit!Verify
  <2>2. kSig # {} => (CHOOSE s \in kSig : TRUE) = Transit!Seal(kSent)
    BY DEF TransitInv
  <2>3. Transit!Seal(kSent)' = Transit!Seal(kSent)
    BY <2>1 DEF Transit!Seal, Transit!Present
  <2>4. Transit!Status(Transit!Seal(kSent))' = Transit!Status(Transit!Seal(kSent))
    BY <2>1, <2>3 DEF Transit!Status
  <2>5. kSig # {} => kResult' = Transit!Status(Transit!Seal(kSent))
    BY <2>1, <2>2
  <2>6. QED
    BY <2>1, <2>3, <2>4, <2>5 DEF TransitInv
<1>12. CASE Transit!Rest
  <2>1. /\ kSent' = kSent /\ kMsg' = kMsg /\ kSig' = kSig /\ kKey' = kKey
        /\ kPlace' = kPlace /\ kResult' = kResult
    BY <1>12 DEF Transit!Rest, Transit!vars
  <2>2. QED
    BY <2>1 DEF TransitInv, Transit!Status
<1>13. QED
  BY <1>4, <1>5, <1>6, <1>7, <1>8, <1>9, <1>10, <1>11, <1>12 DEF Transit!Next

LEMMA TransitInvariant == NetworkSpec => []TransitInv
<1>1. NetworkInit => TransitInv
  BY TransitInit DEF NetworkInit
<1>2. TransitInv /\ [NetworkNext]_allVars => TransitInv'
  <2>1. ASSUME TransitInv, UNCHANGED kVars PROVE TransitInv'
    <3>1. /\ kSent' = kSent /\ kMsg' = kMsg /\ kSig' = kSig /\ kKey' = kKey
          /\ kPlace' = kPlace /\ kResult' = kResult
      BY <2>1 DEF kVars
    <3>2. QED
      BY <2>1, <3>1 DEF TransitInv, Transit!Status
  <2>2. QED
    BY <2>1, TransitStep DEF NetworkNext, allVars
<1>3. QED
  BY <1>1, <1>2, PTL DEF NetworkSpec, allVars

(* A signature passes if body and fields are what was signed, and the key is  *)
(* the domain's.                                                              *)
LEMMA Passes ==
    ASSUME NEW s
    PROVE  Transit!Status(s) = "pass"
             <=> /\ s.bh = Transit!CanonBody(kMsg.body)
                 /\ kKey = "own" /\ s.sealed = Transit!Resealed(kMsg, s.h)
BY DEF Transit!Status

(* For every message with every layout of words and gaps, and whatever any    *)
(* number of relays did to it, the code verifies the signature exactly if     *)
(* body and signed fields still say what the sender signed: white space and   *)
(* folds, empty lines at the end and further fields at the top do not break   *)
(* it, anything else does (sign, verify_one, the canonicalizations).          *)
THEOREM SignatureMeansWhatItSays == NetworkSpec => []VerifiedIffAuthentic
<1>1. TransitInv => VerifiedIffAuthentic
  <2> SUFFICES ASSUME TransitInv, kSig # {}, kPlace = "read"
               PROVE  kResult = "pass" <=> Transit!Authentic /\ kKey = "own"
    BY DEF VerifiedIffAuthentic, Transit!VerifiedIffAuthentic
  <2>1. kSent \in Transit!Message /\ kMsg \in Transit!Message
    BY DEF TransitInv
  <2>2. kSent.body \in Seq(Transit!Line) /\ kMsg.body \in Seq(Transit!Line)
    BY <2>1, MessageParts
  <2>3. kResult = Transit!Status(Transit!Seal(kSent))
    BY DEF TransitInv
  <2>4. Transit!Seal(kSent).bh = Transit!CanonBody(kSent.body)
    BY DEF Transit!Seal
  <2>5. Transit!CanonBody(kSent.body) = Transit!CanonBody(kMsg.body)
          <=> Transit!SaysBody(kMsg.body) = Transit!SaysBody(kSent.body)
    BY <2>2, SameBody
  <2>6. Transit!Authentic
          <=> /\ Transit!SaysBody(kMsg.body) = Transit!SaysBody(kSent.body)
              /\ Transit!Seal(kSent).sealed = Transit!Resealed(kMsg, Transit!Seal(kSent).h)
    BY <2>1, SameFields, Zenon DEF Transit!Authentic
  <2>7. QED
    BY <2>3, <2>4, <2>5, <2>6, Passes
<1>2. QED
  BY <1>1, TransitInvariant, PTL
===============================================================================
